-------------------------- MODULE CoreHandlerProofs -------------------------
(***************************************************************************)
(* Proofs about the settings of a device, as memfaultctl, memfaultd and    *)
(* the core handler use them together in CoreHandler's specification, and  *)
(* about the limit on coredumps, for any number of commands, handlers and  *)
(* revisions and for any limit.                                            *)
(*                                                                         *)
(* Three invariants carry them.  SettingsInv: a command that is about to   *)
(* write holds a copy in which its own flag is changed and every other     *)
(* flag is as promised, unless it knows to have read too early; and a      *)
(* daemon that runs with an older configuration has a restart coming.      *)
(* RevisionInv: the cache of a daemon that runs is the file, unless the    *)
(* file is torn, and the answer that it works on is as new as anything     *)
(* that was ever confirmed.  LimitInv: the history file, or the list of    *)
(* the one handler that rewrites it, covers all captures, that is, what    *)
(* the limiter has forgotten is no later than anything it remembers.       *)
(***************************************************************************)
EXTENDS CoreHandler, TLAPS, FiniteSetTheorems, FunctionTheorems, NaturalsInduction,
        WellFoundedInduction

\* What a step does to the settings: a command, the daemon, a power cut or nothing.
SettingsKept == UNCHANGED <<fileVars, ctl, daemon, corePattern, deviceVars, interrupted>>
SettingsStep ==
  \/ CtlNext \/ DaemonNext \/ (\E kept \in BOOLEAN : PowerGoes(kept)) \/ SettingsKept

Writing(c) == ctl[c].pc \in {"truncate", "write"}

Commands ==
  [pc : {"idle", "loaded", "truncate", "write", "restart"}, key : Keys, flag : Flags,
   val : [Keys -> Flags], clean : BOOLEAN]

\* The types that the flags need.
FlagTypes ==
  /\ runtime \in ConfigFiles /\ promise \in [Keys -> Flags] /\ ctl \in [Ctls -> Commands]

\* v has every flag as promised.
Keeps(v, k) == promise[k] # "unset" => v[k] = promise[k]

FileKeepsPromise ==
  /\ runtime.state = "ok" => \A k \in Keys : Keeps(runtime.val, k)
  /\ runtime.state = "missing" => promise = Unset

\* A command that is about to write has changed its own flag, and leaves the others as
\* promised, unless another command has written since it read the file.
CopiesKeepPromise ==
  \A c \in Ctls : Writing(c) =>
    /\ ctl[c].val[ctl[c].key] = ctl[c].flag
    /\ ctl[c].clean => \A k \in Keys \ {ctl[c].key} : Keeps(ctl[c].val, k)

\* The file has changed, or is about to, and the restart has not been asked for yet.
Pending == interrupted \/ \E c \in Ctls : ctl[c].pc \in {"write", "restart"}

DaemonIsCurrent ==
  daemon.pc # "read" /\ ~daemon.stop /\ ~Pending => daemon.cfg = Effective(runtime)

Caches == [state : {"missing", "torn", "ok"}, val : DeviceConfigs]
Daemons ==
  [pc : Starting \cup {"loop", "set", "write", "confirm"}, stop : BOOLEAN,
   cfg : [Keys -> BOOLEAN], cache : Caches,
   answer : [revision : Revisions \cup {0}, confirm : BOOLEAN]]

DeviceTypes ==
  /\ interrupted \in BOOLEAN /\ daemon \in Daemons /\ corePattern \in BOOLEAN
  /\ staged \subseteq Revisions /\ cacheFile \in Caches
  /\ server \in [revision : Revisions, completed : Revisions \cup {0}]

\* While the daemon works on an answer, it is one that the server has given.
AnswerIsReal == daemon.pc \in {"set", "write", "confirm"} => daemon.answer.revision \in Revisions

SettingsInv ==
  /\ FlagTypes /\ DeviceTypes /\ AnswerIsReal
  /\ FileKeepsPromise /\ CopiesKeepPromise /\ DaemonIsCurrent

\* The types that the revisions need.
RevisionTypes ==
  /\ server.revision \in Nat /\ server.completed \in Nat /\ staged \subseteq Nat
  /\ daemon.answer.revision \in Nat
  /\ cacheFile.val.revision \in Nat /\ daemon.cache.val.revision \in Nat

\* All that was confirmed, or will be by an entry that is staged.
Confirmed == staged \cup {server.completed}

NeverBehind ==
  /\ cacheFile.state = "ok" => \A r \in Confirmed : cacheFile.val.revision >= r
  /\ cacheFile.state = "missing" => staged = {} /\ server.completed = 0
  /\ daemon.pc # "read" /\ daemon.cache.state = "ok" =>
       \A r \in Confirmed : daemon.cache.val.revision >= r

RevisionsAgree ==
  /\ \A r \in Confirmed : r <= server.revision
  /\ daemon.pc \in {"set", "write", "confirm"} =>
       /\ daemon.answer.revision <= server.revision
       /\ \A r \in Confirmed : r <= daemon.answer.revision
  /\ daemon.pc # "read" => cacheFile.state = "torn" \/ daemon.cache = cacheFile
  /\ daemon.pc = "confirm" => daemon.cache = Written(New)

RevisionInv == NeverBehind /\ RevisionsAgree

USE DEF fileVars, deviceVars, CtlAt

-----------------------------------------------------------------------------
\* The core handler only reads the settings.
LEMMA StepIsSettingsStep == [Next]_vars => SettingsStep
<1> SUFFICES ASSUME [Next]_vars PROVE SettingsStep
  OBVIOUS
<1> USE DEF SettingsStep, SettingsKept, settingVars
<1>1. CASE CtlNext \/ DaemonNext
  BY <1>1
<1>2. ASSUME NEW h \in Handlers, HandlerStart(h) PROVE SettingsStep
  BY <1>2 DEF HandlerStart
<1>3. ASSUME NEW h \in Handlers, HandlerLimit(h) PROVE SettingsStep
  BY <1>3 DEF HandlerLimit
<1>4. ASSUME NEW h \in Handlers, NEW s \in Spaces, HandlerSpace(h, s) PROVE SettingsStep
  BY <1>4 DEF HandlerSpace
<1>5. ASSUME NEW h \in Handlers, HandlerCaptures(h) PROVE SettingsStep
  BY <1>5 DEF HandlerCaptures
<1>6. ASSUME NEW h \in Handlers, HandlerFails(h) PROVE SettingsStep
  BY <1>6 DEF HandlerFails
<1>7. ASSUME NEW h \in Handlers, HandlerTruncate(h) PROVE SettingsStep
  BY <1>7 DEF HandlerTruncate
<1>8. ASSUME NEW h \in Handlers, HandlerSave(h) PROVE SettingsStep
  BY <1>8 DEF HandlerSave
<1>9. ASSUME NEW h \in Handlers, HandlerKilled(h) PROVE SettingsStep
  BY <1>9 DEF HandlerKilled
<1>10. CASE Tick \/ SetBack
  BY <1>10 DEF Tick, SetBack
<1>11. ASSUME NEW kept \in BOOLEAN, PowerCut(kept) PROVE SettingsStep
  BY <1>11 DEF PowerCut
<1>12. CASE UNCHANGED vars
  BY <1>12 DEF vars
<1> QED BY <1>1, <1>2, <1>3, <1>4, <1>5, <1>6, <1>7, <1>8, <1>9, <1>10, <1>11, <1>12
    DEF Next, HandlerNext

\* The daemon and the server do not touch runtime.conf.
LEMMA DaemonKeepsFlags == DaemonNext => UNCHANGED <<fileVars, ctl>>
  BY DEF DaemonNext, DaemonRead, DaemonShow, DaemonStartFails, DaemonStops, DaemonKilled,
         Refresh, CacheTruncate, CacheWrite, Confirm, RefreshFails, Upload, Evict, Assign

\* A command does not touch the device config, and can only restart the daemon.
LEMMA CtlKeepsDevice ==
  CtlNext => UNCHANGED deviceVars /\ daemon' \in {daemon, RestartIfRunning(daemon)}
  BY DEF CtlNext, CtlStart, CtlRead, CtlTruncate, CtlWrite, CtlRestart, CtlKilled

-----------------------------------------------------------------------------
(* Types.                                                                  *)

\* A daemon that starts, and the caches that a missing or a torn file reads as.
LEMMA StartedType ==
  /\ Started \in Daemons /\ Started.pc = "read"
  /\ Missing(Default) \in Caches /\ Torn(Default) \in Caches
  BY SettingsAssumption DEF Started, Daemons, Caches, DeviceConfigs, Missing, Torn, NoAnswer,
     Starting

\* A cache holds a revision.
LEMMA CacheHasRevision ==
  /\ \A x \in Caches : x.val.revision \in Nat
  /\ \A r : DeviceConfig(r).revision = r
<1>1. /\ \A r : DeviceConfig(r).revision = r
      /\ Default.revision = 0
  BY DEF DeviceConfig, Default
<1>2. \A x \in DeviceConfigs : x.revision \in Nat
  BY <1>1, SettingsAssumption DEF DeviceConfigs
<1> QED BY <1>1, <1>2 DEF Caches

\* A daemon in memory, changed in one field, is still one.
LEMMA DaemonFields ==
  ASSUME NEW d \in Daemons
  PROVE  /\ \A pc \in {"show", "loop", "set", "write", "confirm"} : [d EXCEPT !.pc = pc] \in Daemons
         /\ [d EXCEPT !.stop = TRUE] \in Daemons
         /\ \A f \in ConfigFiles, x \in Caches :
              [d EXCEPT !.pc = "show", !.cfg = Effective(f), !.cache = x] \in Daemons
         /\ \A pc \in {"loop", "confirm"}, x \in Caches :
              [d EXCEPT !.pc = pc, !.cache = x] \in Daemons
         /\ \A r \in Revisions, b \in BOOLEAN :
              [d EXCEPT !.pc = "set", !.answer = [revision |-> r, confirm |-> b]] \in Daemons
<1>1. \A f \in ConfigFiles : Effective(f) \in [Keys -> BOOLEAN]
  BY SettingsAssumption DEF Effective
<1> QED BY <1>1 DEF Daemons, Starting

\* A restart starts the daemon, asks it to stop, or finds none.
LEMMA RestartType ==
  /\ RestartIfRunning(daemon) \in {Started, daemon, [daemon EXCEPT !.stop = TRUE]}
  /\ daemon \in Daemons => RestartIfRunning(daemon) \in Daemons
  BY StartedType, DaemonFields DEF RestartIfRunning

\* Every step keeps the types of the daemon, the cache file and the server.
LEMMA DeviceTypesStep ==
  ASSUME FlagTypes, DeviceTypes, AnswerIsReal, SettingsStep
  PROVE  DeviceTypes' /\ AnswerIsReal'
<1> DEFINE Goal == DeviceTypes' /\ AnswerIsReal'
<1>1. daemon \in Daemons /\ daemon.pc \in Starting \cup {"loop", "set", "write", "confirm"}
  BY DEF DeviceTypes, Daemons
<1> USE StartedType, SettingsAssumption, <1>1 DEF DeviceTypes, AnswerIsReal
<1>2. CASE CtlNext
  <2>1. interrupted' \in BOOLEAN /\ corePattern' = corePattern
    BY <1>2 DEF CtlNext, CtlStart, CtlRead, CtlTruncate, CtlWrite, CtlRestart, CtlKilled
  <2>2. daemon' \in {daemon, Started, [daemon EXCEPT !.stop = TRUE]} /\ UNCHANGED deviceVars
    BY <1>2, CtlKeepsDevice, RestartType
  <2>3. [daemon EXCEPT !.stop = TRUE].pc = daemon.pc
        /\ [daemon EXCEPT !.stop = TRUE].answer = daemon.answer
    BY DEF Daemons
  <2> QED BY <2>1, <2>2, <2>3, DaemonFields
<1>3. CASE DaemonRead
  <2>1. daemon' \in Daemons
    BY <1>3, DaemonFields DEF DaemonRead, FlagTypes
  <2>2. daemon'.pc = "show"
    BY <1>3 DEF DaemonRead, Daemons
  <2> QED BY <1>3, <2>1, <2>2 DEF DaemonRead
<1>4. CASE DaemonStartFails \/ DaemonStops \/ DaemonKilled
  BY <1>4 DEF DaemonStartFails, DaemonStops, DaemonKilled
<1>5. CASE DaemonShow
  <2>1. daemon' = [daemon EXCEPT !.pc = "loop"]
    BY <1>5 DEF DaemonShow
  <2>2. daemon' \in Daemons
    BY <2>1, DaemonFields
  <2>3. daemon'.pc = "loop"
    BY <2>1 DEF Daemons
  <2>4. corePattern' \in BOOLEAN
    BY <1>5 DEF DaemonShow, ConfigureKernel
  <2> QED BY <1>5, <2>2, <2>3, <2>4 DEF DaemonShow
<1>6. CASE Refresh
  <2>1. server.revision \in Revisions
    OBVIOUS
  <2>2. daemon' \in Daemons
    BY <1>6, <2>1, DaemonFields DEF Refresh
  <2>3. daemon'.answer.revision = server.revision
    BY <1>6 DEF Refresh, Daemons
  <2> QED BY <1>6, <2>1, <2>2, <2>3 DEF Refresh
<1>7. CASE CacheTruncate
  <2>1. PICK pc \in {"loop", "write", "confirm"} : daemon' = [daemon EXCEPT !.pc = pc]
    BY <1>7 DEF CacheTruncate, AfterSet
  <2>2. daemon' \in Daemons
    BY <2>1, DaemonFields
  <2>3. daemon'.answer = daemon.answer /\ daemon.answer.revision \in Revisions
    BY <1>7, <2>1 DEF CacheTruncate, Daemons
  <2> QED BY <1>7, <2>2, <2>3 DEF CacheTruncate
<1>8. CASE CacheWrite
  <2>1. daemon.answer.revision \in Revisions
    BY <1>8 DEF CacheWrite
  <2>2. Written(New) \in Caches
    BY <2>1 DEF Written, New, Caches, DeviceConfigs
  <2>3. PICK pc \in {"loop", "confirm"} :
          daemon' = [daemon EXCEPT !.pc = pc, !.cache = Written(New)]
    BY <1>8 DEF CacheWrite, AfterSet
  <2>4. daemon' \in Daemons
    BY <2>2, <2>3, DaemonFields
  <2>5. daemon'.answer = daemon.answer
    BY <2>3 DEF Daemons
  <2> QED BY <1>8, <2>1, <2>2, <2>4, <2>5 DEF CacheWrite
<1>9. CASE Confirm
  <2>1. daemon' = [daemon EXCEPT !.pc = "loop"]
    BY <1>9 DEF Confirm
  <2>2. daemon' \in Daemons
    BY <2>1, DaemonFields
  <2>3. daemon'.pc = "loop"
    BY <2>1 DEF Daemons
  <2> QED BY <1>9, <2>2, <2>3 DEF Confirm
<1>10. CASE RefreshFails
  <2>1. daemon' = [daemon EXCEPT !.pc = "loop"]
    BY <1>10 DEF RefreshFails
  <2>2. daemon' \in Daemons
    BY <2>1, DaemonFields
  <2>3. daemon'.pc = "loop"
    BY <2>1 DEF Daemons
  <2> QED BY <1>10, <2>2, <2>3 DEF RefreshFails
<1>11. ASSUME NEW r \in Revisions, Upload(r)
       PROVE  Goal
  BY <1>11 DEF Upload
<1>12. ASSUME NEW r \in Revisions, Evict(r)
       PROVE  Goal
  BY <1>12 DEF Evict
<1>13. CASE Assign
  BY <1>13 DEF Assign
<1>14. ASSUME NEW kept \in BOOLEAN, PowerGoes(kept)
       PROVE  Goal
  BY <1>14 DEF PowerGoes
<1>15. CASE SettingsKept
  BY <1>15 DEF SettingsKept
<1> QED
  BY <1>2, <1>3, <1>4, <1>5, <1>6, <1>7, <1>8, <1>9, <1>10, <1>11, <1>12, <1>13, <1>14, <1>15
  DEF SettingsStep, DaemonNext

-----------------------------------------------------------------------------
(* runtime.conf.                                                           *)

\* A memfaultctl that does not run, and flags that are not set.
LEMMA NoCommandType ==
  /\ NoCommand \in Commands /\ NoCommand.pc = "idle"
  /\ Unset \in [Keys -> Flags] /\ \A k \in Keys : Unset[k] = "unset"
  /\ \A v : Flag(v) \in Flags
  BY DEF NoCommand, Commands, Unset, Keys, Flags, Flag

\* Every step keeps the types of the flags and of the commands.
LEMMA FlagTypesStep ==
  ASSUME FlagTypes, SettingsStep
  PROVE  FlagTypes'
<1> USE NoCommandType DEF FlagTypes
<1>1. ASSUME NEW c \in Ctls, NEW k \in Keys, NEW v \in BOOLEAN, CtlStart(c, k, v)
      PROVE  FlagTypes'
  BY <1>1 DEF CtlStart, Commands
<1>2. ASSUME NEW c \in Ctls, CtlRead(c)
      PROVE  FlagTypes'
  <2>1. Edited(c) \in [Keys -> Flags]
    BY DEF Edited, ConfigFiles, Commands
  <2>2. [ctl[c] EXCEPT !.pc = "truncate", !.val = Edited(c)] \in Commands
    BY <2>1 DEF Commands
  <2> QED BY <1>2, <2>2 DEF CtlRead
<1>3. ASSUME NEW c \in Ctls, CtlTruncate(c)
      PROVE  FlagTypes'
  BY <1>3 DEF CtlTruncate, Torn, ConfigFiles, Commands
<1>4. ASSUME NEW c \in Ctls, CtlWrite(c)
      PROVE  FlagTypes'
  <2>1. Written(ctl[c].val) \in ConfigFiles
    BY DEF Written, ConfigFiles, Commands
  <2>2. promise' \in [Keys -> Flags]
    BY <1>4 DEF CtlWrite, Commands
  <2>3. \A o \in Ctls : [ctl[o] EXCEPT !.pc = "restart"] \in Commands
    BY DEF Commands
  <2>4. \A o \in Ctls :
          [ctl[o] EXCEPT !.clean = ctl[o].pc \notin {"truncate", "write"}] \in Commands
    BY DEF Commands
  <2> QED BY <1>4, <2>1, <2>2, <2>3, <2>4 DEF CtlWrite
<1>5. ASSUME NEW c \in Ctls, CtlRestart(c) \/ CtlKilled(c)
      PROVE  FlagTypes'
  BY <1>5 DEF CtlRestart, CtlKilled
<1>6. CASE DaemonNext
  BY <1>6, DaemonKeepsFlags
<1>7. ASSUME NEW kept \in BOOLEAN, PowerGoes(kept)
      PROVE  FlagTypes'
  BY <1>7 DEF PowerGoes
<1>8. CASE SettingsKept
  BY <1>8 DEF SettingsKept
<1> QED BY <1>1, <1>2, <1>3, <1>4, <1>5, <1>6, <1>7, <1>8 DEF SettingsStep, CtlNext

\* Every step keeps the file, and the copies the commands hold of it, up to the promises.
LEMMA FlagsStep ==
  ASSUME FlagTypes, FileKeepsPromise, CopiesKeepPromise, SettingsStep
  PROVE  FileKeepsPromise' /\ CopiesKeepPromise'
<1> DEFINE Goal == FileKeepsPromise' /\ CopiesKeepPromise'
<1> USE NoCommandType
<1>1. ASSUME NEW c \in Ctls, NEW k \in Keys, NEW v \in BOOLEAN, CtlStart(c, k, v)
      PROVE  Goal
  <2>1. \A o \in Ctls : Writing(o)' => ctl'[o] = ctl[o]
    BY <1>1 DEF CtlStart, FlagTypes, Commands, Writing
  <2> QED BY <1>1, <2>1 DEF CtlStart, FileKeepsPromise, CopiesKeepPromise, Keeps, Writing
<1>2. ASSUME NEW c \in Ctls, CtlRead(c)
      PROVE  Goal
  <2>1. \A o \in Ctls \ {c} : ctl'[o] = ctl[o]
    BY <1>2 DEF CtlRead, FlagTypes
  <2>2. ASSUME Writing(c)'
        PROVE  /\ Readable(runtime) /\ ctl'[c].val = Edited(c)
               /\ ctl'[c].key = ctl[c].key /\ ctl'[c].flag = ctl[c].flag
    BY <1>2, <2>2 DEF CtlRead, FlagTypes, Commands, Writing
  <2>3. ASSUME Writing(c)' 
        PROVE  /\ ctl'[c].val[ctl'[c].key] = ctl'[c].flag
               /\ \A k \in Keys \ {ctl'[c].key} : Keeps(ctl[c].val, k)'
    <3>1. \A k \in Keys : Keeps(runtime.val, k)
      BY <2>2, <2>3 DEF Readable, FileKeepsPromise, FlagTypes, ConfigFiles, Keeps
    <3> QED BY <1>2, <2>2, <2>3, <3>1 DEF CtlRead, Edited, FlagTypes, ConfigFiles, Commands, Keeps
  <2> QED BY <1>2, <2>1, <2>3 DEF CtlRead, FileKeepsPromise, CopiesKeepPromise, Keeps, Writing
<1>3. ASSUME NEW c \in Ctls, CtlTruncate(c)
      PROVE  Goal
  BY <1>3 DEF CtlTruncate, Torn, FileKeepsPromise, CopiesKeepPromise, Keeps, Writing,
     FlagTypes, Commands
<1>4. ASSUME NEW c \in Ctls, CtlWrite(c)
      PROVE  Goal
  <2>1. Writing(c) /\ runtime' = Written(ctl[c].val)
    BY <1>4 DEF CtlWrite, Writing
  <2>2. \A o \in Ctls : Writing(o)' => o # c /\ ~ctl'[o].clean /\ Writing(o)
                           /\ ctl'[o].val = ctl[o].val /\ ctl'[o].key = ctl[o].key
                           /\ ctl'[o].flag = ctl[o].flag
    BY <1>4 DEF CtlWrite, Writing, FlagTypes, Commands
  <2>3. CopiesKeepPromise'
    BY <2>2 DEF CopiesKeepPromise
  <2>4. \A k \in Keys : promise'[k] # "unset" => ctl[c].val[k] = promise'[k]
    BY <1>4, <2>1 DEF CtlWrite, CopiesKeepPromise, Keeps, FlagTypes, Commands
  <2>5. FileKeepsPromise'
    BY <1>4, <2>1, <2>4 DEF FileKeepsPromise, Written, Keeps
  <2> QED BY <2>3, <2>5
<1>5. ASSUME NEW c \in Ctls, CtlRestart(c) \/ CtlKilled(c)
      PROVE  Goal
  <2>1. \A o \in Ctls : Writing(o)' => ctl'[o] = ctl[o]
    BY <1>5 DEF CtlRestart, CtlKilled, FlagTypes, Writing
  <2> QED BY <1>5, <2>1 DEF CtlRestart, CtlKilled, FileKeepsPromise, CopiesKeepPromise, Keeps,
             Writing
<1>6. CASE DaemonNext
  BY <1>6, DaemonKeepsFlags DEF FileKeepsPromise, CopiesKeepPromise, Keeps, Writing
<1>7. ASSUME NEW kept \in BOOLEAN, PowerGoes(kept)
      PROVE  Goal
  BY <1>7 DEF PowerGoes, FileKeepsPromise, CopiesKeepPromise, Keeps, Writing
<1>8. CASE SettingsKept
  BY <1>8 DEF SettingsKept, FileKeepsPromise, CopiesKeepPromise, Keeps, Writing
<1> QED BY <1>1, <1>2, <1>3, <1>4, <1>5, <1>6, <1>7, <1>8 DEF SettingsStep, CtlNext

\* The daemon and its restarts.
LEMMA DaemonStep ==
  ASSUME FlagTypes, DeviceTypes, DaemonIsCurrent, SettingsStep
  PROVE  DaemonIsCurrent'
<1> USE NoCommandType DEF DaemonIsCurrent, Pending
<1>1. ASSUME NEW c \in Ctls, NEW k \in Keys, NEW v \in BOOLEAN, CtlStart(c, k, v)
      PROVE  DaemonIsCurrent'
  <2>1. \A o \in Ctls : ctl[o].pc \in {"write", "restart"} => ctl'[o] = ctl[o]
    BY <1>1 DEF CtlStart, FlagTypes
  <2> QED BY <1>1, <2>1 DEF CtlStart, Effective
<1>2. ASSUME NEW c \in Ctls, CtlRead(c)
      PROVE  DaemonIsCurrent'
  <2>1. \A o \in Ctls : ctl[o].pc \in {"write", "restart"} => ctl'[o] = ctl[o]
    BY <1>2 DEF CtlRead, FlagTypes
  <2> QED BY <1>2, <2>1 DEF CtlRead, Effective
<1>3. ASSUME NEW c \in Ctls, CtlTruncate(c)
      PROVE  DaemonIsCurrent'
  BY <1>3 DEF CtlTruncate, FlagTypes, Commands
<1>4. ASSUME NEW c \in Ctls, CtlWrite(c)
      PROVE  DaemonIsCurrent'
  BY <1>4 DEF CtlWrite, FlagTypes, Commands
<1>5. ASSUME NEW c \in Ctls, CtlRestart(c)
      PROVE  DaemonIsCurrent'
  BY <1>5 DEF CtlRestart, RestartIfRunning, ActiveState, Started, Starting
<1>6. ASSUME NEW c \in Ctls, CtlKilled(c)
      PROVE  DaemonIsCurrent'
  <2>1. \A o \in Ctls \ {c} : ctl'[o] = ctl[o]
    BY <1>6 DEF CtlKilled, FlagTypes
  <2>2. Pending => Pending'
    BY <1>6, <2>1 DEF CtlKilled
  <2> QED BY <1>6, <2>2 DEF CtlKilled, Effective
<1>7. CASE DaemonRead
  BY <1>7 DEF DaemonRead, Effective
<1>8. CASE DaemonStartFails \/ DaemonStops \/ DaemonKilled
  BY <1>8 DEF DaemonStartFails, DaemonStops, DaemonKilled, Started
<1>9. CASE DaemonShow
  BY <1>9 DEF DaemonShow, Effective
<1>10. CASE Refresh \/ CacheTruncate \/ CacheWrite \/ Confirm \/ RefreshFails
  <2>1. daemon'.cfg = daemon.cfg /\ daemon'.stop = daemon.stop /\ daemon.pc # "read"
    BY <1>10 DEF Refresh, CacheTruncate, CacheWrite, Confirm, RefreshFails, DeviceTypes, Daemons
  <2>2. UNCHANGED <<runtime, ctl, interrupted>>
    BY <1>10 DEF Refresh, CacheTruncate, CacheWrite, Confirm, RefreshFails
  <2> QED BY <2>1, <2>2 DEF Effective
<1>11. ASSUME NEW r \in Revisions, Upload(r) \/ Evict(r)
      PROVE  DaemonIsCurrent'
  BY <1>11 DEF Upload, Evict, Effective
<1>12. CASE Assign
  BY <1>12 DEF Assign, Effective
<1>13. ASSUME NEW kept \in BOOLEAN, PowerGoes(kept)
      PROVE  DaemonIsCurrent'
  BY <1>13 DEF PowerGoes, Started
<1>14. CASE SettingsKept
  BY <1>14 DEF SettingsKept, Effective
<1> QED BY <1>1, <1>2, <1>3, <1>4, <1>5, <1>6, <1>7, <1>8, <1>9, <1>10, <1>11, <1>12, <1>13, <1>14
    DEF SettingsStep, CtlNext, DaemonNext

-----------------------------------------------------------------------------
(* device_config.json.                                                     *)

\* Revisions are numbers.
LEMMA RevisionsAreNumbers == DeviceTypes => RevisionTypes
<1> SUFFICES ASSUME DeviceTypes PROVE RevisionTypes
  OBVIOUS
<1>1. /\ daemon.cache \in Caches /\ cacheFile \in Caches
      /\ daemon.answer.revision \in Revisions \cup {0}
  BY DEF DeviceTypes, Daemons
<1>2. /\ server.revision \in Revisions /\ server.completed \in Revisions \cup {0}
      /\ staged \subseteq Revisions
  BY DEF DeviceTypes
<1>3. Revisions \subseteq Nat /\ Revisions \cup {0} \subseteq Nat
  BY SettingsAssumption
<1>4. daemon.cache.val.revision \in Nat /\ cacheFile.val.revision \in Nat
  BY <1>1, CacheHasRevision
<1> QED BY <1>1, <1>2, <1>3, <1>4 DEF RevisionTypes

\* Every step keeps the server's view from passing what the device has saved.
LEMMA RevisionStep ==
  ASSUME DeviceTypes, NeverBehind, RevisionsAgree, SettingsStep
  PROVE  NeverBehind' /\ RevisionsAgree'
<1> DEFINE Goal == NeverBehind' /\ RevisionsAgree'
<1>0. RevisionTypes /\ daemon \in Daemons
  BY RevisionsAreNumbers DEF DeviceTypes
<1> USE <1>0 DEF NeverBehind, RevisionsAgree, Confirmed, RevisionTypes, New
<1>1. CASE CtlNext
  <2>1. CASE daemon' = daemon
    BY <1>1, <2>1, CtlKeepsDevice
  <2>2. CASE daemon' = RestartIfRunning(daemon)
    BY <1>1, <2>2, CtlKeepsDevice DEF RestartIfRunning, ActiveState, Started, Starting
  <2> QED BY <1>1, <2>1, <2>2, CtlKeepsDevice
<1>2. CASE DaemonRead
  BY <1>2 DEF DaemonRead, Daemons
<1>3. CASE DaemonStartFails \/ DaemonStops \/ DaemonKilled
  BY <1>3, StartedType DEF DaemonStartFails, DaemonStops, DaemonKilled
<1>4. CASE DaemonShow
  BY <1>4 DEF DaemonShow, Daemons
<1>5. CASE Refresh
  BY <1>5 DEF Refresh, Daemons
<1>6. CASE CacheTruncate
  BY <1>6 DEF CacheTruncate, AfterSet, Torn, Daemons
<1>7. CASE CacheWrite
  BY <1>7 DEF CacheWrite, AfterSet, Written, DeviceConfig, Daemons
<1>8. CASE Confirm
  BY <1>8 DEF Confirm, Written, DeviceConfig, Daemons
<1>9. CASE RefreshFails
  BY <1>9 DEF RefreshFails, Daemons
<1>10. ASSUME NEW r \in Revisions, Upload(r)
      PROVE  Goal
  BY <1>10 DEF Upload
<1>11. ASSUME NEW r \in Revisions, Evict(r)
      PROVE  Goal
  BY <1>11 DEF Evict
<1>12. CASE Assign
  <2>1. server'.revision = server.revision + 1 /\ server'.completed = server.completed
    BY <1>12 DEF Assign, DeviceTypes
  <2>2. UNCHANGED <<daemon, cacheFile, staged>>
    BY <1>12 DEF Assign
  <2>3. NeverBehind'
    BY <2>1, <2>2
  <2>4. RevisionsAgree'
    BY <2>1, <2>2
  <2> QED BY <2>3, <2>4
<1>13. ASSUME NEW kept \in BOOLEAN, PowerGoes(kept)
      PROVE  Goal
  BY <1>13 DEF PowerGoes, Started
<1>14. CASE SettingsKept
  BY <1>14 DEF SettingsKept
<1> QED BY <1>1, <1>2, <1>3, <1>4, <1>5, <1>6, <1>7, <1>8, <1>9, <1>10, <1>11, <1>12, <1>13, <1>14
    DEF SettingsStep, DaemonNext

-----------------------------------------------------------------------------
\* runtime.conf and the daemon that has read it are as SettingsInv says, in every
\* behaviour of commands, daemon and core handlers together.
THEOREM SettingsInvariance == Spec => []SettingsInv
<1>1. Init => SettingsInv
  <2> SUFFICES ASSUME Init PROVE SettingsInv
    OBVIOUS
  <2>1. FlagTypes
    BY NoCommandType DEF Init, SettingsInit, FlagTypes, Missing, ConfigFiles
  <2>2. DeviceTypes /\ AnswerIsReal
    BY StartedType, SettingsAssumption DEF Init, SettingsInit, DeviceTypes, AnswerIsReal
  <2>3. FileKeepsPromise /\ CopiesKeepPromise /\ DaemonIsCurrent
    BY NoCommandType DEF Init, SettingsInit, FileKeepsPromise, CopiesKeepPromise,
       DaemonIsCurrent, Writing, Missing, Started
  <2> QED BY <2>1, <2>2, <2>3 DEF SettingsInv
<1>2. SettingsInv /\ [Next]_vars => SettingsInv'
  BY StepIsSettingsStep, FlagTypesStep, DeviceTypesStep, FlagsStep, DaemonStep DEF SettingsInv
<1> QED BY <1>1, <1>2, PTL DEF Spec

\* The types of Settings hold in every reachable state of CoreHandler.
THEOREM SettingsTypeCorrect == Spec => []SettingsTypeOK
<1>1. SettingsInv => SettingsTypeOK
  BY DEF SettingsInv, FlagTypes, DeviceTypes, SettingsTypeOK, Commands, Daemons, Caches
<1> QED BY SettingsInvariance, <1>1, PTL

\* A flag that memfaultctl has set stays set, and when the commands are done the daemon
\* runs with what the file says.
THEOREM FlagsStick == Spec => []SettingsStick
<1>1. SettingsInv => SettingsStick
  BY DEF SettingsInv, SettingsStick, FileKeepsPromise, Keeps, DaemonIsCurrent, Pending,
         CtlsIdle, Up, Starting
<1> QED BY SettingsInvariance, <1>1, PTL

\* DiskBacked keeps memory and file in step, and Config.refresh_device_config confirms a
\* revision only when both have it.
THEOREM RevisionInvariance == Spec => []RevisionInv
<1>1. Init => RevisionInv
  BY SettingsAssumption DEF Init, SettingsInit, RevisionInv, NeverBehind,
     RevisionsAgree, Confirmed, Started, Missing, Default, NoAnswer
<1>2. SettingsInv /\ RevisionInv /\ [Next]_vars => RevisionInv'
  BY StepIsSettingsStep, RevisionStep DEF SettingsInv, RevisionInv
<1> QED BY <1>1, <1>2, SettingsInvariance, PTL DEF Spec

\* The device has what it has confirmed, or something newer.
THEOREM NotBehindWhatIsConfirmed == Spec => []NeverBehindConfirmed
<1>1. RevisionInv => NeverBehindConfirmed
  BY DEF RevisionInv, NeverBehind, Confirmed, NeverBehindConfirmed, Up, Starting
<1> QED BY RevisionInvariance, <1>1, PTL

-----------------------------------------------------------------------------
(* Sorting the history.                                                    *)

\* A set of numbers that is not empty has a least one.
LEMMA LeastNumber ==
  ASSUME NEW T \in SUBSET Nat, T # {}
  PROVE  \E x \in T : \A y \in T : x <= y
<1>1. PICK x \in T : \A y \in T : ~(<<y, x>> \in OpToRel(<, Nat))
  BY NatLessThanWellFounded, WFMin, Zenon
<1>2. \A y \in T : ~(y < x)
  BY <1>1 DEF OpToRel
<1> QED BY <1>2

\* Induction up to a bound, for a property that is given as a set.
LEMMA UpTo ==
  ASSUME NEW N \in Nat, NEW T, 0 \in T, \A n \in 1..N : n - 1 \in T => n \in T
  PROVE  0..N \subseteq T
<1> DEFINE U == {n \in Nat : n \in 0..N /\ n \notin T}
<1> SUFFICES ASSUME U # {}
             PROVE  FALSE
  OBVIOUS
<1>1. PICK x \in U : \A y \in U : x <= y
  <2>1. U \in SUBSET Nat
    OBVIOUS
  <2> HIDE DEF U
  <2> QED BY <2>1, LeastNumber
<1>2. x \in 1..N /\ x - 1 \notin U /\ x - 1 \in 0..N
  BY <1>1
<1> QED BY <1>1, <1>2

\* A number that is not above another one is below it or equal.
LEMMA BelowOrEqual == \A x, y \in Nat : x <= y => x < y \/ x = y
OBVIOUS

\* What the limiter stores for a capture, as far as its decisions go.
Captures == [at : Nat, run : Nat]

\* q lists the positions in S of the sequence s, the most recent capture first.
IsDescending(q, S, s) ==
  /\ q \in [1..Cardinality(S) -> S] /\ IsInjective(q)
  /\ \A i, j \in 1..Cardinality(S) : i < j => s[q[i]].at >= s[q[j]].at

\* Every set of positions can be listed like that: the oldest capture comes last.
LEMMA DescendingExists ==
  ASSUME NEW s \in Seq(Captures), NEW A \in SUBSET (1..Len(s))
  PROVE  \E q : IsDescending(q, A, s)
<1> DEFINE T == {m \in Nat : \A S \in SUBSET (1..Len(s)) :
                   Cardinality(S) = m => \E q : IsDescending(q, S, s)}
<1>0. \A S \in SUBSET (1..Len(s)) : IsFiniteSet(S) /\ Cardinality(S) \in Nat
  <2> SUFFICES ASSUME NEW S \in SUBSET (1..Len(s))
               PROVE  IsFiniteSet(S) /\ Cardinality(S) \in Nat
    OBVIOUS
  <2>1. IsFiniteSet(1..Len(s))
    BY FS_Interval
  <2>2. IsFiniteSet(S)
    BY <2>1, FS_Subset
  <2> QED BY <2>2, FS_CardinalityType
<1>1. 0 \in T
  <2> SUFFICES ASSUME NEW S \in SUBSET (1..Len(s)), Cardinality(S) = 0
               PROVE  \E q : IsDescending(q, S, s)
    OBVIOUS
  <2>1. [i \in 1..0 |-> 0] \in [1..0 -> S] /\ \A i, j \in 1..0 : FALSE
    OBVIOUS
  <2>2. IsInjective([i \in 1..0 |-> 0])
    BY DEF IsInjective
  <2>3. IsDescending([i \in 1..0 |-> 0], S, s)
    BY <2>1, <2>2 DEF IsDescending
  <2> QED BY <2>3
<1>2. ASSUME NEW k \in Nat, k # 0, k - 1 \in T
      PROVE  k \in T
  <2> SUFFICES ASSUME NEW S \in SUBSET (1..Len(s)), Cardinality(S) = k
               PROVE  \E q : IsDescending(q, S, s)
    OBVIOUS
  <2>0. IsFiniteSet(S)
    BY <1>0
  <2>1. \A i \in S : s[i] \in Captures /\ s[i].at \in Nat
    <3>1. \A i \in S : s[i] \in Captures
      OBVIOUS
    <3>2. \A c \in Captures : c.at \in Nat
      BY DEF Captures
    <3> QED BY <3>1, <3>2
  <2>2. S # {}
    BY <1>2, FS_EmptySet
  <2> DEFINE Times == {s[i].at : i \in S}
  <2>3. PICK t \in Times : \A u \in Times : t <= u
    <3>1. Times \in SUBSET Nat /\ Times # {}
      BY <2>1, <2>2
    <3> HIDE DEF Times
    <3> QED BY <3>1, LeastNumber
  <2>4. PICK m \in S : t = s[m].at
    BY <2>3
  <2>5. \A i \in S : s[i].at >= s[m].at
    <3> SUFFICES ASSUME NEW i \in S
                 PROVE  s[i].at >= s[m].at
      OBVIOUS
    <3>1. s[i].at \in Times
      OBVIOUS
    <3> HIDE DEF Times
    <3>2. t <= s[i].at
      BY <2>3, <3>1
    <3> QED BY <2>1, <2>4, <3>2
  <2> DEFINE R == S \ {m}
  <2>6. R \in SUBSET (1..Len(s)) /\ Cardinality(R) = k - 1
    BY <2>0, <2>4, FS_RemoveElement
  <2>7. PICK q : IsDescending(q, R, s)
    BY <1>2, <2>6
  <2>8. /\ q \in [1..(k - 1) -> R] /\ IsInjective(q)
        /\ \A i, j \in 1..(k - 1) : i < j => s[q[i]].at >= s[q[j]].at
    BY <2>6, <2>7 DEF IsDescending
  <2> DEFINE r == [i \in 1..k |-> IF i < k THEN q[i] ELSE m]
  <2>9. r \in [1..k -> S]
    BY <2>4, <2>8, <1>2
  <2>10. ASSUME NEW i \in 1..(k - 1)
         PROVE  i \in 1..k /\ r[i] = q[i] /\ r[i] \in R
    BY <1>2, <2>8
  <2>11. r[k] = m /\ k \in 1..k /\ \A i \in 1..k : i \in 1..(k - 1) \/ i = k
    BY <1>2
  <2> HIDE DEF r
  <2>12. ASSUME NEW i \in 1..k, NEW j \in 1..k, i < j
         PROVE  s[r[i]].at >= s[r[j]].at
    <3>1. i \in 1..(k - 1)
      BY <2>12, <1>2
    <3>2. CASE j = k
      BY <2>5, <2>10, <2>11, <3>1, <3>2
    <3>3. CASE j \in 1..(k - 1)
      BY <2>8, <2>10, <2>12, <3>1, <3>3
    <3> QED BY <2>11, <3>2, <3>3
  <2>13. IsInjective(r)
    <3> SUFFICES ASSUME NEW i \in 1..k, NEW j \in 1..k, r[i] = r[j]
                 PROVE  i = j
      BY <2>9 DEF IsInjective
    <3>1. CASE i = k \/ j = k
      BY <2>10, <2>11, <3>1
    <3>2. CASE i \in 1..(k - 1) /\ j \in 1..(k - 1)
      BY <2>8, <2>10, <3>2 DEF IsInjective
    <3> QED BY <2>11, <3>1, <3>2
  <2>14. IsDescending(r, S, s)
    BY <2>9, <2>12, <2>13 DEF IsDescending
  <2> QED BY <2>14
<1> HIDE DEF T
<1>3. Cardinality(A) \in T
  <2> DEFINE n == Cardinality(A)
  <2>1. n \in Nat
    BY <1>0
  <2> HIDE DEF n
  <2>2. \A k \in 1..n : k - 1 \in T => k \in T
    BY <1>2
  <2>3. 0..n \subseteq T
    BY <1>1, <2>1, <2>2, UpTo
  <2> QED BY <2>1, <2>3 DEF n
<1> QED BY <1>3 DEF T

\* load() has every capture of the file, and the last one is the oldest.
LEMMA SortedFacts ==
  ASSUME NEW s \in Seq(Captures)
  PROVE  /\ Sorted(s) \in Seq(Captures) /\ Len(Sorted(s)) = Len(s)
         /\ ToSet(Sorted(s)) = ToSet(s)
         /\ \A i \in 1..Len(s) : Sorted(s)[i].at >= Sorted(s)[Len(s)].at
<1> DEFINE n == Len(s)
           Sorts(p) == IsInjective(p) /\ \A i, j \in 1..Len(s) : i < j => s[p[i]].at >= s[p[j]].at
           p == CHOOSE p \in [1..Len(s) -> 1..Len(s)] : Sorts(p)
<1>0. n \in Nat /\ Cardinality(1..n) = n /\ IsFiniteSet(1..n)
  <2>1. n \in Nat
    OBVIOUS
  <2> HIDE DEF n
  <2> QED BY <2>1, FS_Interval
<1>1. p \in [1..n -> 1..n] /\ Sorts(p)
  <2>1. PICK q : IsDescending(q, 1..n, s)
    BY DescendingExists
  <2>2. q \in [1..n -> 1..n] /\ Sorts(q)
    BY <1>0, <2>1 DEF IsDescending
  <2> HIDE DEF Sorts
  <2> QED BY <2>2
<1>2. Sorted(s) = [i \in 1..n |-> s[p[i]]]
  BY DEF Sorted
<1> HIDE DEF p
<1>3. p \in Surjection(1..n, 1..n)
  <2>1. p \in Injection(1..n, 1..n)
    BY <1>1, Fun_IsInj DEF IsInjective
  <2> QED BY <1>0, <2>1, FS_Injection
<1> DEFINE r == Sorted(s)
<1>4. r \in [1..n -> Captures] /\ \A i \in 1..n : r[i] = s[p[i]]
  BY <1>1, <1>2
<1> HIDE DEF r
<1>5. r \in Seq(Captures) /\ Len(r) = n /\ DOMAIN r = 1..n
  BY <1>0, <1>4
<1>6. ToSet(r) = ToSet(s)
  <2>1. DOMAIN s = 1..n
    OBVIOUS
  <2>2. \A j \in 1..n : \E i \in 1..n : p[i] = j
    BY <1>3 DEF Surjection
  <2>3. ToSet(r) \subseteq ToSet(s)
    BY <1>1, <1>4, <1>5, <2>1 DEF ToSet
  <2>4. ToSet(s) \subseteq ToSet(r)
    <3> SUFFICES ASSUME NEW c \in ToSet(s)
                 PROVE  c \in ToSet(r)
      OBVIOUS
    <3>1. PICK j \in 1..n : s[j] = c
      BY <2>1 DEF ToSet
    <3>2. PICK i \in 1..n : p[i] = j
      BY <2>2
    <3>3. r[i] = c
      BY <1>4, <3>1, <3>2
    <3> QED BY <1>5, <3>3 DEF ToSet
  <2> QED BY <2>3, <2>4
<1>7. ASSUME NEW i \in 1..n
      PROVE  r[i].at >= r[n].at
  <2>1. n \in 1..n /\ r[i].at \in Nat
    BY <1>0, <1>4 DEF Captures
  <2>2. CASE i = n
    BY <2>1, <2>2
  <2>3. CASE i < n
    BY <1>1, <1>4, <2>1, <2>3
  <2> QED BY <1>0, <2>2, <2>3
<1> QED BY <1>5, <1>6, <1>7 DEF r

-----------------------------------------------------------------------------
(* Why the limit holds.                                                    *)

\* The list s is all that the limiter needs to know of the captures in T: what it has
\* forgotten is no later than anything that it remembers.
Covers(s, T) ==
  /\ Len(s) <= Count
  /\ Len(s) < Count => T \subseteq ToSet(s)
  /\ \A f \in T, g \in ToSet(s) : f \notin ToSet(s) => f.at <= g.at

\* The captures in T that start within one duration from e on.
Window(T, e) == {f \in T : e.at <= f.at /\ f.at < e.at + Duration}

\* The captures in T are within the limit.
WithinLimit(T) == \A e \in T : Cardinality(Window(T, e)) <= Count

\* The elements of a sequence are no more than its length.
LEMMA ToSetCardinality ==
  ASSUME NEW E, NEW s \in Seq(E)
  PROVE  IsFiniteSet(ToSet(s)) /\ Cardinality(ToSet(s)) <= Len(s)
<1>0. Len(s) \in Nat /\ DOMAIN s = 1..Len(s)
  OBVIOUS
<1>1. IsFiniteSet(1..Len(s)) /\ Cardinality(1..Len(s)) = Len(s)
  <2> DEFINE n == Len(s)
  <2>1. n \in Nat
    OBVIOUS
  <2> HIDE DEF n
  <2>2. IsFiniteSet(1..n) /\ Cardinality(1..n) = n
    BY <2>1, FS_Interval
  <2> QED BY <2>2 DEF n
<1>2. s \in Surjection(1..Len(s), ToSet(s))
  <2>1. s \in [1..Len(s) -> ToSet(s)]
    BY <1>0 DEF ToSet
  <2>2. \A c \in ToSet(s) : \E i \in 1..Len(s) : s[i] = c
    BY <1>0 DEF ToSet
  <2> QED BY <2>1, <2>2, Fun_IsSurj
<1> QED BY <1>1, <1>2, FS_Surjection

\* check_with_time puts the new capture first, and drops the last one if the list is full.
LEMMA PushedFacts ==
  ASSUME NEW s \in Seq(Captures), NEW e \in Captures, Len(s) <= Count, Count > 0
  PROVE  /\ Pushed(s, e) \in Seq(Captures) /\ Len(Pushed(s, e)) > 0
         /\ Len(s) < Count => /\ Len(Pushed(s, e)) = Len(s) + 1
                              /\ ToSet(Pushed(s, e)) = ToSet(s) \cup {e}
         /\ Len(s) = Count => /\ Len(Pushed(s, e)) = Count
                              /\ ToSet(Pushed(s, e)) \subseteq ToSet(s) \cup {e}
                              /\ e \in ToSet(Pushed(s, e))
                              /\ \A c \in ToSet(s) : c # s[Count] => c \in ToSet(Pushed(s, e))
<1> DEFINE n == Len(s)
           k == IF n < Count THEN n + 1 ELSE Count
           r == Pushed(s, e)
<1>0. /\ n \in Nat /\ Count \in Nat /\ k \in Nat /\ k > 0 /\ k <= n + 1
      /\ DOMAIN s = 1..n
  BY CoreHandlerAssumption
<1>1. /\ <<e>> \o s \in Seq(Captures) /\ Len(<<e>> \o s) = n + 1
      /\ (<<e>> \o s)[1] = e /\ \A i \in 1..n : (<<e>> \o s)[i + 1] = s[i]
  OBVIOUS
<1>2. r = SubSeq(<<e>> \o s, 1, k)
  BY DEF Pushed
<1>3. r \in Seq(Captures) /\ Len(r) = k /\ \A i \in 1..k : r[i] = (<<e>> \o s)[i]
  <2> DEFINE w == <<e>> \o s
  <2> HIDE DEF w, k, n, r
  <2>1. w \in Seq(Captures) /\ Len(w) = n + 1 /\ r = SubSeq(w, 1, k)
    BY <1>1, <1>2 DEF w
  <2>2. r \in Seq(Captures) /\ Len(r) = k /\ \A i \in 1..k : r[i] = w[i]
    BY <1>0, <2>1
  <2> QED BY <2>2 DEF w
<1>a. r \in Seq(Captures) /\ Len(r) = k
  BY <1>3
<1> HIDE DEF r
<1>4. r[1] = e /\ \A i \in 1..(k - 1) : r[i + 1] = s[i]
  <2> HIDE DEF k, n
  <2>1. \A i \in 1..(k - 1) : i \in 1..n /\ i + 1 \in 1..k
    BY <1>0
  <2> QED BY <1>0, <1>1, <1>3, <2>1
<1>5. DOMAIN r = 1..k
  BY <1>3
<1>6. e \in ToSet(r)
  BY <1>0, <1>4, <1>5 DEF ToSet
<1>7. ToSet(r) \subseteq ToSet(s) \cup {e}
  <2> SUFFICES ASSUME NEW i \in 1..k
               PROVE  r[i] \in ToSet(s) \cup {e}
    BY <1>5 DEF ToSet
  <2>1. CASE i = 1
    BY <1>4, <2>1
  <2>2. CASE i # 1
    <3> HIDE DEF k, n
    <3>1. i - 1 \in 1..(k - 1) /\ (i - 1) + 1 = i /\ i - 1 \in 1..n
      BY <1>0, <2>2
    <3>2. r[i] = s[i - 1]
      BY <1>4, <3>1
    <3> QED BY <1>0, <3>1, <3>2 DEF ToSet
  <2> QED BY <2>1, <2>2
<1>8. ASSUME NEW i \in 1..(k - 1)
      PROVE  s[i] \in ToSet(r)
  <2> HIDE DEF k, n
  <2>1. i + 1 \in 1..k
    BY <1>0
  <2> QED BY <1>4, <1>5, <2>1 DEF ToSet
<1>9. CASE n < Count
  <2>1. k = n + 1 /\ k - 1 = n
    BY <1>0, <1>9
  <2> HIDE DEF k, n
  <2>2. ToSet(s) \subseteq ToSet(r)
    BY <1>0, <1>8, <2>1 DEF ToSet
  <2>3. ToSet(r) = ToSet(s) \cup {e}
    BY <1>6, <1>7, <2>2
  <2>4. Len(r) = n + 1 /\ Len(r) > 0 /\ n # Count
    BY <1>0, <1>a, <1>9, <2>1
  <2> QED BY <1>a, <2>3, <2>4 DEF r, n
<1>10. CASE n = Count
  <2>1. k = Count
    BY <1>10
  <2> HIDE DEF k, n
  <2>2. \A c \in ToSet(s) : c # s[Count] => c \in ToSet(r)
    <3> SUFFICES ASSUME NEW c \in ToSet(s), c # s[Count]
                 PROVE  c \in ToSet(r)
      OBVIOUS
    <3>1. PICK i \in 1..n : s[i] = c
      BY <1>0 DEF ToSet
    <3>2. i \in 1..(k - 1)
      BY <1>0, <1>10, <2>1, <3>1
    <3> QED BY <1>8, <3>1, <3>2
  <2>3. Len(r) = Count /\ Len(r) > 0 /\ ~(n < Count)
    BY <1>0, <1>a, <1>10, <2>1
  <2> QED BY <1>a, <1>6, <1>7, <2>2, <2>3 DEF r, n
<1>11. n < Count \/ n = Count
  BY <1>0, BelowOrEqual
<1> QED BY <1>9, <1>10, <1>11

\* A capture that the limiter allows keeps all captures within the limit, and the list with
\* the new capture covers all of them.
LEMMA AllowedKeepsLimit ==
  ASSUME NEW s \in Seq(Captures), NEW T \in SUBSET Captures, IsFiniteSet(T),
         NEW e \in Captures, Count > 0, Covers(s, T), WithinLimit(T),
         Allowed(Sorted(s), e.at)
  PROVE  /\ Pushed(Sorted(s), e) \in Seq(Captures) /\ Len(Pushed(Sorted(s), e)) > 0
         /\ Covers(Pushed(Sorted(s), e), T \cup {e})
         /\ WithinLimit(T \cup {e})
<1> DEFINE l == Sorted(s)
           r == Pushed(l, e)
           U == T \cup {e}
<1>0. /\ l \in Seq(Captures) /\ Len(l) = Len(s) /\ ToSet(l) = ToSet(s)
      /\ \A i \in 1..Len(l) : l[i].at >= l[Len(l)].at
  BY SortedFacts
<1>1. /\ Len(l) \in Nat /\ Count \in Nat /\ Duration \in Nat /\ DOMAIN l = 1..Len(l)
      /\ Len(l) <= Count
  BY <1>0, CoreHandlerAssumption DEF Covers
<1>2. /\ Len(l) < Count => T \subseteq ToSet(l)
      /\ \A f \in T, g \in ToSet(l) : f \notin ToSet(l) => f.at <= g.at
  BY <1>0 DEF Covers
<1>3. Len(l) < Count \/ e.at - l[Len(l)].at >= Duration
  BY DEF Allowed
<1> HIDE DEF l
<1>4. /\ r \in Seq(Captures) /\ Len(r) > 0
      /\ Len(l) < Count => Len(r) = Len(l) + 1 /\ ToSet(r) = ToSet(l) \cup {e}
      /\ Len(l) = Count => /\ Len(r) = Count /\ ToSet(r) \subseteq ToSet(l) \cup {e}
                           /\ e \in ToSet(r)
                           /\ \A c \in ToSet(l) : c # l[Count] => c \in ToSet(r)
  BY <1>0, <1>1, PushedFacts
<1> HIDE DEF r
<1>5. IsFiniteSet(ToSet(r)) /\ Cardinality(ToSet(r)) <= Len(r) /\ Len(r) <= Count
  <2>1. Len(l) < Count \/ Len(l) = Count
    BY <1>1, BelowOrEqual
  <2>2. Len(r) <= Count
    <3>1. CASE Len(l) < Count
      <4>1. Len(r) = Len(l) + 1
        BY <1>4, <3>1
      <4> QED BY <1>1, <3>1, <4>1
    <3>2. CASE Len(l) = Count
      <4>1. Len(r) = Count
        BY <1>4, <3>2
      <4> QED BY <1>1, <4>1
    <3> QED BY <2>1, <3>1, <3>2
  <2> QED BY <1>4, <2>2, ToSetCardinality
<1>6. \A c \in Captures : c.at \in Nat
  BY DEF Captures
<1>7. \A c \in ToSet(l) : c \in Captures
  BY <1>0, <1>1 DEF ToSet
<1>8. ASSUME NEW W \in SUBSET ToSet(r)
      PROVE  Cardinality(W) <= Count
  <2>1. IsFiniteSet(W) /\ Cardinality(W) <= Cardinality(ToSet(r))
    BY <1>5, FS_Subset
  <2>2. Cardinality(W) \in Nat /\ Cardinality(ToSet(r)) \in Nat
    BY <1>5, <2>1, FS_CardinalityType
  <2>3. Len(r) \in Nat
    BY <1>4
  <2> QED BY <1>1, <1>5, <2>1, <2>2, <2>3
<1>9. CASE Len(l) < Count
  <2>1. U \subseteq ToSet(r)
    BY <1>2, <1>4, <1>9
  <2>2. Covers(r, U)
    BY <1>5, <2>1 DEF Covers
  <2>3. WithinLimit(U)
    BY <1>8, <2>1 DEF WithinLimit, Window
  <2> QED BY <1>4, <2>2, <2>3 DEF r, l
<1>10. CASE Len(l) = Count
  <2> DEFINE o == l[Count]
  <2>1. Count \in 1..Len(l) /\ o \in ToSet(l) /\ o \in Captures
    BY <1>0, <1>1, <1>7, <1>10 DEF ToSet
  <2>2. e.at - o.at >= Duration /\ o.at \in Nat /\ e.at \in Nat
    BY <1>1, <1>3, <1>6, <1>10, <2>1
  <2>3. \A c \in ToSet(l) : o.at <= c.at
    <3> SUFFICES ASSUME NEW c \in ToSet(l)
                 PROVE  o.at <= c.at
      OBVIOUS
    <3>1. PICK i \in 1..Len(l) : l[i] = c
      BY <1>1 DEF ToSet
    <3> QED BY <1>0, <1>6, <1>7, <1>10, <2>2, <3>1
  <2> HIDE DEF o
  <2>4. ASSUME NEW f \in U, f \notin ToSet(r)
        PROVE  f.at <= o.at /\ f.at \in Nat
    <3>1. f # e /\ f \in T /\ f.at \in Nat
      BY <1>4, <1>6, <1>10, <2>4
    <3>2. CASE f \in ToSet(l)
      BY <1>4, <1>10, <2>2, <2>4, <3>2 DEF o
    <3>3. CASE f \notin ToSet(l)
      BY <1>2, <2>1, <3>1, <3>3
    <3> QED BY <3>1, <3>2, <3>3
  <2>5. Covers(r, U)
    <3>1. ASSUME NEW f \in U, NEW g \in ToSet(r), f \notin ToSet(r)
          PROVE  f.at <= g.at
      <4>1. f.at <= o.at /\ f.at \in Nat
        BY <2>4, <3>1
      <4>2. o.at <= g.at /\ g.at \in Nat
        <5>1. CASE g = e
          BY <1>1, <2>2, <5>1
        <5>2. CASE g \in ToSet(l)
          BY <1>6, <1>7, <2>3, <5>2
        <5> QED BY <1>4, <1>10, <5>1, <5>2
      <4> QED BY <2>2, <4>1, <4>2
    <3> QED BY <1>1, <1>4, <1>10, <3>1 DEF Covers
  <2>6. WithinLimit(U)
    <3> SUFFICES ASSUME NEW c \in U
                 PROVE  Cardinality(Window(U, c)) <= Count
      BY DEF WithinLimit
    <3>1. c.at \in Nat
      BY <1>6
    <3>2. CASE c.at <= e.at /\ e.at < c.at + Duration
      <4>1. Window(U, c) \subseteq ToSet(r)
        <5> SUFFICES ASSUME NEW f \in U, c.at <= f.at, f \notin ToSet(r)
                     PROVE  FALSE
          BY DEF Window
        <5>1. f.at <= o.at /\ f.at \in Nat
          BY <2>4
        <5> QED BY <1>1, <2>2, <3>1, <3>2, <5>1
      <4> QED BY <1>8, <4>1
    <3>3. CASE ~(c.at <= e.at /\ e.at < c.at + Duration)
      <4>1. Window(U, c) = Window(T, c)
        BY <3>3 DEF Window
      <4>2. CASE c \in T
        BY <4>1, <4>2 DEF WithinLimit
      <4>3. CASE c = e
        <5>1. Duration = 0
          BY <1>1, <2>2, <3>3, <4>3
        <5>2. \A f \in T : ~(c.at <= f.at /\ f.at < c.at + Duration)
          BY <1>6, <3>1, <5>1
        <5>3. Window(T, c) = {}
          BY <5>2 DEF Window
        <5>4. Cardinality({}) = 0
          BY FS_EmptySet
        <5>5. Cardinality(Window(U, c)) = 0
          BY <4>1, <5>3, <5>4
        <5> QED BY <1>1, <5>5
      <4> QED BY <4>2, <4>3
    <3> QED BY <3>2, <3>3
  <2> QED BY <1>4, <2>5, <2>6 DEF r, l
<1>11. Len(l) < Count \/ Len(l) = Count
  BY <1>1, BelowOrEqual
<1> QED BY <1>9, <1>10, <1>11

-----------------------------------------------------------------------------
(* The history file and the handlers.                                      *)

\* A handler that counts for the limit has loaded the history, and is not done.
BusyIn(x) == x.pc \notin {"none", "limit"} /\ ~x.dev

\* A handler that rewrites the file.
SavingIn(x) == x.pc \in {"truncate", "save"}

\* The states of a handler: one that has something to save has not yet saved all of it.
HandlerStates ==
  {x \in [pc : {"none", "limit", "space", "capture", "truncate", "save"}, dev : BOOLEAN,
          history : Seq(Captures), written : Nat, entry : Captures] :
     /\ x.pc # "save" => x.written = 0
     /\ SavingIn(x) => ~x.dev
     /\ BusyIn(x) => x.written < Len(x.history)}

\* What a handler holds agrees with the file f and the captures T: it saves a list that
\* covers T, of which the file has the first part; or it was allowed by what the file says.
HandlerAgrees(x, f, T) ==
  /\ SavingIn(x) => Covers(x.history, T)
  /\ x.pc = "save" => Len(f) = x.written /\ \A j \in 1..Len(f) : f[j] = x.history[j]
  /\ BusyIn(x) /\ ~SavingIn(x) =>
       /\ Count > 0 /\ Allowed(Sorted(f), x.entry.at)
       /\ x.history = Pushed(Sorted(f), x.entry)

\* The types of the handlers hs, the file f and the captures T.
HistoryTypes(hs, f, T) ==
  /\ hs \in [Handlers -> HandlerStates] /\ f \in Seq(Captures)
  /\ T \in SUBSET Captures /\ IsFiniteSet(T)

\* The handlers, the file and the captures agree: at most one handler is busy, the captures
\* are within the limit, and the file knows of them unless a handler is saving.
HistoryOK(hs, f, T) ==
  /\ \A h, o \in Handlers : BusyIn(hs[h]) /\ BusyIn(hs[o]) => h = o
  /\ WithinLimit(T)
  /\ (\A h \in Handlers : ~SavingIn(hs[h])) => Covers(f, T)
  /\ \A h \in Handlers : HandlerAgrees(hs[h], f, T)

\* The inductive invariant of the limiter.
LimitInv ==
  /\ now \in Nat /\ runs \in Nat /\ disturbed \in BOOLEAN
  /\ HistoryTypes(handler, history, taken)
  /\ ~disturbed => HistoryOK(handler, history, taken)

\* A handler that saves is busy, and one that is not busy agrees with everything.
LEMMA IdleAgrees ==
  ASSUME NEW x \in HandlerStates
  PROVE  /\ SavingIn(x) => BusyIn(x)
         /\ ~BusyIn(x) => \A f, T : HandlerAgrees(x, f, T)
<1>1. SavingIn(x) => ~x.dev
  BY DEF HandlerStates
<1>2. SavingIn(x) => BusyIn(x)
  BY <1>1 DEF SavingIn, BusyIn
<1>3. x.pc = "save" => SavingIn(x)
  BY DEF SavingIn
<1> QED BY <1>2, <1>3 DEF HandlerAgrees

\* A handler that is not busy afterwards, and has not been stopped while it was saving,
\* leaves the others as they were.
LEMMA HandlerStaysAway ==
  ASSUME NEW hs, NEW f, NEW T, HistoryTypes(hs, f, T),
         NEW h \in Handlers, NEW x \in HandlerStates, ~BusyIn(x)
  PROVE  /\ HistoryTypes([hs EXCEPT ![h] = x], f, T)
         /\ HistoryOK(hs, f, T) /\ ~SavingIn(hs[h]) => HistoryOK([hs EXCEPT ![h] = x], f, T)
<1> DEFINE new == [hs EXCEPT ![h] = x]
<1>0. /\ hs \in [Handlers -> HandlerStates] /\ f \in Seq(Captures)
      /\ T \in SUBSET Captures /\ IsFiniteSet(T)
  BY DEF HistoryTypes
<1>1. new \in [Handlers -> HandlerStates] /\ \A o \in Handlers : new[o] = IF o = h THEN x ELSE hs[o]
  BY <1>0
<1> HIDE DEF new
<1>2. ASSUME HistoryOK(hs, f, T), ~SavingIn(hs[h])
      PROVE  HistoryOK(new, f, T)
  <2>1. /\ \A o, q \in Handlers : BusyIn(hs[o]) /\ BusyIn(hs[q]) => o = q
        /\ WithinLimit(T)
        /\ (\A o \in Handlers : ~SavingIn(hs[o])) => Covers(f, T)
        /\ \A o \in Handlers : HandlerAgrees(hs[o], f, T)
    BY <1>2 DEF HistoryOK
  <2>2. \A o, q \in Handlers : BusyIn(new[o]) /\ BusyIn(new[q]) => o = q
    BY <1>1, <2>1
  <2>3. (\A o \in Handlers : ~SavingIn(new[o])) => Covers(f, T)
    BY <1>1, <1>2, <2>1
  <2>4. \A o \in Handlers : HandlerAgrees(new[o], f, T)
    BY <1>1, <2>1, IdleAgrees
  <2> QED BY <2>1, <2>2, <2>3, <2>4 DEF HistoryOK
<1>3. HistoryTypes(new, f, T)
  BY <1>0, <1>1 DEF HistoryTypes
<1> QED BY <1>2, <1>3 DEF new

\* A busy handler that no other one disturbs may change the file and count its capture.
LEMMA HandlerActsAlone ==
  ASSUME NEW hs, NEW f, NEW T, HistoryTypes(hs, f, T),
         NEW h \in Handlers, NEW x \in HandlerStates,
         NEW f2 \in Seq(Captures), NEW T2 \in SUBSET Captures, IsFiniteSet(T2)
  PROVE  /\ HistoryTypes([hs EXCEPT ![h] = x], f2, T2)
         /\ /\ \A o \in Handlers : o # h => ~BusyIn(hs[o])
            /\ WithinLimit(T2) /\ HandlerAgrees(x, f2, T2)
            /\ SavingIn(x) \/ Covers(f2, T2)
            => HistoryOK([hs EXCEPT ![h] = x], f2, T2)
<1> DEFINE new == [hs EXCEPT ![h] = x]
<1>0. hs \in [Handlers -> HandlerStates]
  BY DEF HistoryTypes
<1>1. new \in [Handlers -> HandlerStates] /\ \A o \in Handlers : new[o] = IF o = h THEN x ELSE hs[o]
  BY <1>0
<1> HIDE DEF new
<1>2. ASSUME \A o \in Handlers : o # h => ~BusyIn(hs[o]),
             WithinLimit(T2), HandlerAgrees(x, f2, T2), SavingIn(x) \/ Covers(f2, T2)
      PROVE  HistoryOK(new, f2, T2)
  <2>1. \A o \in Handlers : o # h => ~BusyIn(new[o])
    BY <1>1, <1>2
  <2>2. \A o \in Handlers : HandlerAgrees(new[o], f2, T2)
    BY <1>1, <1>2, <2>1, IdleAgrees
  <2>3. (\A o \in Handlers : ~SavingIn(new[o])) => Covers(f2, T2)
    BY <1>1, <1>2
  <2> QED BY <1>2, <2>1, <2>2, <2>3 DEF HistoryOK
<1>3. HistoryTypes(new, f2, T2)
  BY <1>1 DEF HistoryTypes
<1> QED BY <1>2, <1>3 DEF new

\* While a handler is busy, or all others are not, the captures are within the limit and the
\* file knows of them unless this handler is saving.
LEMMA BusyIsAlone ==
  ASSUME NEW hs, NEW f, NEW T, HistoryTypes(hs, f, T), HistoryOK(hs, f, T), NEW h \in Handlers,
         BusyIn(hs[h]) \/ \A o \in Handlers : o # h => ~BusyIn(hs[o])
  PROVE  /\ \A o \in Handlers : o # h => ~BusyIn(hs[o])
         /\ WithinLimit(T) /\ HandlerAgrees(hs[h], f, T)
         /\ ~SavingIn(hs[h]) => Covers(f, T)
<1>0. hs \in [Handlers -> HandlerStates]
  BY DEF HistoryTypes
<1>1. /\ \A o, q \in Handlers : BusyIn(hs[o]) /\ BusyIn(hs[q]) => o = q
      /\ WithinLimit(T)
      /\ (\A o \in Handlers : ~SavingIn(hs[o])) => Covers(f, T)
      /\ HandlerAgrees(hs[h], f, T)
  BY DEF HistoryOK
<1>2. \A o \in Handlers : o # h => ~BusyIn(hs[o])
  BY <1>1
<1>3. \A o \in Handlers : o # h => ~SavingIn(hs[o])
  BY <1>0, <1>2, IdleAgrees
<1> QED BY <1>1, <1>2, <1>3

-----------------------------------------------------------------------------
(* The steps of a handler.                                                 *)

\* A handler that has not started, or has ended, is not busy.
LEMMA NoHandlerIsIdle == NoHandler \in HandlerStates /\ ~BusyIn(NoHandler)
<1>1. <<>> \in Seq(Captures) /\ [at |-> 0, run |-> 0] \in Captures
  BY DEF Captures
<1> QED BY <1>1 DEF NoHandler, HandlerStates, BusyIn, SavingIn

\* The types that the steps use.
LEMMA LimitTypes ==
  ASSUME LimitInv
  PROVE  /\ now \in Nat /\ runs \in Nat /\ disturbed \in BOOLEAN
         /\ HistoryTypes(handler, history, taken)
         /\ handler \in [Handlers -> HandlerStates] /\ history \in Seq(Captures)
         /\ taken \in SUBSET Captures /\ IsFiniteSet(taken)
         /\ ~disturbed => HistoryOK(handler, history, taken)
BY DEF LimitInv, HistoryTypes

\* The fields of a handler.
LEMMA HandlerFields ==
  ASSUME NEW x \in HandlerStates
  PROVE  /\ x.pc \in {"none", "limit", "space", "capture", "truncate", "save"}
         /\ x.dev \in BOOLEAN /\ x.history \in Seq(Captures) /\ x.written \in Nat
         /\ x.entry \in Captures
         /\ x.pc # "save" => x.written = 0
         /\ SavingIn(x) => ~x.dev
         /\ BusyIn(x) => x.written < Len(x.history)
BY DEF HandlerStates

\* A list with the new capture is not empty.
LEMMA PushedIsList ==
  ASSUME NEW s \in Seq(Captures), NEW e \in Captures, Count > 0
  PROVE  Pushed(s, e) \in Seq(Captures) /\ Len(Pushed(s, e)) > 0
<1> DEFINE n == Len(s)
           k == IF n < Count THEN n + 1 ELSE Count
           w == <<e>> \o s
<1>1. n \in Nat /\ k \in Nat /\ k > 0 /\ k <= n + 1
  BY CoreHandlerAssumption
<1>2. w \in Seq(Captures) /\ Len(w) = n + 1
  OBVIOUS
<1>3. Pushed(s, e) = SubSeq(w, 1, k)
  BY DEF Pushed
<1> HIDE DEF n, k, w
<1> QED BY <1>1, <1>2, <1>3

\* A handler starts, and has yet to look at the limit.
LEMMA StartKeepsLimit ==
  ASSUME SettingsInv, LimitInv, NEW h \in Handlers, HandlerStart(h)
  PROVE  LimitInv'
<1>1. /\ UNCHANGED <<now, history, taken, disturbed>> /\ runs' = runs + 1
      /\ handler[h].pc = "none"
  BY DEF HandlerStart, At
<1>2. CASE handler' = handler
  BY <1>1, <1>2 DEF LimitInv
<1>3. CASE handler' # handler
  <2> DEFINE x == [NoHandler EXCEPT !.pc = "limit",
                                    !.dev = Effective(runtime)["enable_dev_mode"],
                                    !.entry = [at |-> 0, run |-> runs']]
  <2>1. handler' = [handler EXCEPT ![h] = x]
    BY <1>3 DEF HandlerStart
  <2>2. Effective(runtime)["enable_dev_mode"] \in BOOLEAN
    BY SettingsAssumption DEF SettingsInv, FlagTypes, Effective, ConfigFiles, Keys
  <2>3. x \in HandlerStates /\ ~BusyIn(x)
    <3>1. <<>> \in Seq(Captures) /\ [at |-> 0, run |-> runs'] \in Captures
      BY <1>1, LimitTypes DEF Captures
    <3> QED BY <2>2, <3>1 DEF NoHandler, HandlerStates, BusyIn, SavingIn
  <2> HIDE DEF x
  <2>4. ~SavingIn(handler[h])
    BY <1>1 DEF SavingIn
  <2>5. /\ HistoryTypes([handler EXCEPT ![h] = x], history, taken)
        /\ ~disturbed => HistoryOK([handler EXCEPT ![h] = x], history, taken)
    BY <2>3, <2>4, LimitTypes, HandlerStaysAway
  <2> QED BY <1>1, <2>1, <2>5, LimitTypes DEF LimitInv
<1> QED BY <1>2, <1>3

\* A handler ends, or is killed; if that was while it was saving, the limit is disturbed.
LEMMA EndKeepsLimit ==
  ASSUME LimitInv, NEW h \in Handlers, Ends(h), UNCHANGED <<history, taken>>,
         now' = now, runs' = runs, disturbed' \in BOOLEAN, disturbed => disturbed',
         handler[h].pc \in {"truncate", "save"} => disturbed'
  PROVE  LimitInv'
<1>1. HistoryTypes([handler EXCEPT ![h] = NoHandler], history, taken)
  BY LimitTypes, NoHandlerIsIdle, HandlerStaysAway
<1>2. ASSUME ~disturbed'
      PROVE  HistoryOK([handler EXCEPT ![h] = NoHandler], history, taken)
  <2>1. ~SavingIn(handler[h]) /\ HistoryOK(handler, history, taken)
    BY <1>2, LimitTypes DEF SavingIn
  <2> QED BY <2>1, LimitTypes, NoHandlerIsIdle, HandlerStaysAway
<1> QED BY <1>1, <1>2, LimitTypes DEF LimitInv, Ends

\* A handler asks the limiter.
LEMMA LimitKeepsLimit ==
  ASSUME LimitInv, NEW h \in Handlers, HandlerLimit(h)
  PROVE  LimitInv'
<1> DEFINE entry == [handler[h].entry EXCEPT !.at = now]
           loaded == Sorted(history)
<1>0. handler[h] \in HandlerStates
  BY LimitTypes
<1>1. UNCHANGED <<now, history, runs, taken>> /\ handler[h].pc = "limit"
  BY DEF HandlerLimit, At
<1>2. ~BusyIn(handler[h]) /\ ~SavingIn(handler[h])
  BY <1>1 DEF BusyIn, SavingIn
<1>f. /\ handler[h].dev \in BOOLEAN /\ handler[h].history \in Seq(Captures)
      /\ handler[h].written = 0 /\ handler[h].entry \in Captures
  BY <1>0, <1>1, HandlerFields
<1>3. CASE handler[h].dev
  <2> DEFINE x == [handler[h] EXCEPT !.pc = "space"]
  <2>1. handler' = [handler EXCEPT ![h] = x] /\ disturbed' = disturbed
    BY <1>3 DEF HandlerLimit, Goto
  <2>2. x \in HandlerStates /\ ~BusyIn(x)
    BY <1>0, <1>f, <1>3 DEF HandlerStates, BusyIn, SavingIn
  <2> HIDE DEF x
  <2>3. /\ HistoryTypes([handler EXCEPT ![h] = x], history, taken)
        /\ ~disturbed => HistoryOK([handler EXCEPT ![h] = x], history, taken)
    BY <1>2, <2>2, LimitTypes, HandlerStaysAway
  <2> QED BY <1>1, <2>1, <2>3, LimitTypes DEF LimitInv
<1>4. CASE ~handler[h].dev /\ ~(Count > 0 /\ Duration > 0 /\ Allowed(loaded, now))
  <2>1. Ends(h) /\ disturbed' \in BOOLEAN /\ (disturbed => disturbed')
    BY <1>4, LimitTypes DEF HandlerLimit
  <2> QED BY <1>1, <2>1, EndKeepsLimit
<1>5. CASE ~handler[h].dev /\ Count > 0 /\ Duration > 0 /\ Allowed(loaded, now)
  <2> DEFINE x == [handler[h] EXCEPT !.pc = "space", !.entry = entry,
                                     !.history = Pushed(loaded, entry)]
  <2>1. /\ handler' = [handler EXCEPT ![h] = x]
        /\ disturbed' = (disturbed \/ \E o \in Handlers \ {h} : Busy(o))
    BY <1>5 DEF HandlerLimit
  <2>2. entry \in Captures /\ entry.at = now
    BY <1>f, LimitTypes DEF Captures
  <2>3. Pushed(loaded, entry) \in Seq(Captures) /\ Len(Pushed(loaded, entry)) > 0
    <3> HIDE DEF entry
    <3> QED BY <1>5, <2>2, LimitTypes, SortedFacts, PushedIsList
  <2>4. /\ x.pc = "space" /\ x.dev = handler[h].dev /\ x.written = 0
        /\ x.entry = entry /\ x.history = Pushed(loaded, entry)
    BY <1>0, <1>f DEF HandlerStates
  <2>5. x \in HandlerStates
    <3> HIDE DEF entry, loaded
    <3> QED BY <1>0, <1>f, <2>2, <2>3, <2>4 DEF HandlerStates, SavingIn
  <2> HIDE DEF x, entry
  <2>6. HistoryTypes([handler EXCEPT ![h] = x], history, taken)
    BY <2>5, LimitTypes, HandlerActsAlone
  <2>7. ASSUME ~disturbed'
        PROVE  HistoryOK([handler EXCEPT ![h] = x], history, taken)
    <3>1. ~disturbed /\ \A o \in Handlers : o # h => ~BusyIn(handler[o])
      BY <2>1, <2>7 DEF Busy, BusyIn
    <3>2. HandlerAgrees(x, history, taken)
      BY <1>5, <2>2, <2>4 DEF HandlerAgrees, SavingIn
    <3>3. WithinLimit(taken) /\ Covers(history, taken)
      BY <1>2, <3>1, LimitTypes, BusyIsAlone
    <3> QED BY <2>5, <3>1, <3>2, <3>3, LimitTypes, HandlerActsAlone
  <2> QED BY <1>1, <2>1, <2>6, <2>7, LimitTypes DEF LimitInv
<1> QED BY <1>3, <1>4, <1>5

\* A handler finds space, or none.
LEMMA SpaceKeepsLimit ==
  ASSUME LimitInv, NEW h \in Handlers, NEW a, HandlerSpace(h, a)
  PROVE  LimitInv'
<1>0. handler[h] \in HandlerStates
  BY LimitTypes
<1>1. UNCHANGED <<now, history, runs, taken, disturbed>> /\ handler[h].pc = "space"
  BY DEF HandlerSpace, At
<1>2. CASE Ends(h)
  BY <1>1, <1>2, LimitTypes, EndKeepsLimit
<1>3. CASE Goto(h, "capture")
  <2> DEFINE x == [handler[h] EXCEPT !.pc = "capture"]
             new == [handler EXCEPT ![h] = x]
  <2>1. handler' = new
    BY <1>3 DEF Goto
  <2>2. /\ x \in HandlerStates /\ ~SavingIn(handler[h]) /\ ~SavingIn(x)
        /\ BusyIn(x) <=> BusyIn(handler[h])
        /\ x.history = handler[h].history /\ x.entry = handler[h].entry /\ x.pc # "save"
    BY <1>0, <1>1 DEF HandlerStates, BusyIn, SavingIn
  <2> HIDE DEF x
  <2>3. HistoryTypes(new, history, taken)
    BY <2>2, LimitTypes, HandlerActsAlone
  <2>4. ASSUME ~disturbed
        PROVE  HistoryOK(new, history, taken)
    <3>1. CASE ~BusyIn(x)
      BY <2>2, <2>4, <3>1, LimitTypes, HandlerStaysAway
    <3>2. CASE BusyIn(x)
      <4>1. /\ \A o \in Handlers : o # h => ~BusyIn(handler[o])
            /\ WithinLimit(taken) /\ HandlerAgrees(handler[h], history, taken)
            /\ Covers(history, taken)
        BY <2>2, <2>4, <3>2, LimitTypes, BusyIsAlone
      <4>2. HandlerAgrees(x, history, taken)
        BY <2>2, <3>2, <4>1 DEF HandlerAgrees
      <4> QED BY <2>2, <4>1, <4>2, LimitTypes, HandlerActsAlone
    <3> QED BY <3>1, <3>2
  <2> HIDE DEF new
  <2> QED BY <1>1, <2>1, <2>3, <2>4, LimitTypes DEF LimitInv
<1> QED BY <1>2, <1>3 DEF HandlerSpace

\* A handler commits its capture.
LEMMA CaptureKeepsLimit ==
  ASSUME LimitInv, NEW h \in Handlers, HandlerCaptures(h)
  PROVE  LimitInv'
<1>0. handler[h] \in HandlerStates
  BY LimitTypes
<1>1. UNCHANGED <<now, history, runs, disturbed>> /\ handler[h].pc = "capture"
  BY DEF HandlerCaptures, At
<1>2. CASE handler[h].dev
  <2>1. Ends(h) /\ UNCHANGED taken
    BY <1>2 DEF HandlerCaptures
  <2> QED BY <1>1, <2>1, LimitTypes, EndKeepsLimit
<1>3. CASE ~handler[h].dev
  <2> DEFINE x == [handler[h] EXCEPT !.pc = "truncate"]
             new == [handler EXCEPT ![h] = x]
             e == handler[h].entry
  <2>1. handler' = new /\ taken' = taken \cup {e}
    BY <1>3 DEF HandlerCaptures, Goto
  <2>2. /\ BusyIn(handler[h]) /\ ~SavingIn(handler[h]) /\ e \in Captures
        /\ handler[h].written = 0 /\ handler[h].written < Len(handler[h].history)
        /\ handler[h].history \in Seq(Captures)
    BY <1>0, <1>1, <1>3, HandlerFields DEF BusyIn, SavingIn
  <2>3. x \in HandlerStates
    BY <1>0, <1>3, <2>2 DEF HandlerStates, BusyIn, SavingIn
  <2>4. SavingIn(x) /\ x.pc = "truncate" /\ x.history = handler[h].history
    BY <1>0 DEF HandlerStates, SavingIn
  <2> HIDE DEF x
  <2>5. taken' \in SUBSET Captures /\ IsFiniteSet(taken')
    BY <2>1, <2>2, LimitTypes, FS_AddElement
  <2>6. HistoryTypes(new, history, taken')
    BY <2>3, <2>5, LimitTypes, HandlerActsAlone
  <2>7. ASSUME ~disturbed
        PROVE  HistoryOK(new, history, taken')
    <3>1. /\ \A o \in Handlers : o # h => ~BusyIn(handler[o])
          /\ WithinLimit(taken) /\ HandlerAgrees(handler[h], history, taken)
          /\ Covers(history, taken)
      BY <2>2, <2>7, LimitTypes, BusyIsAlone
    <3>2. /\ Count > 0 /\ Allowed(Sorted(history), e.at)
          /\ handler[h].history = Pushed(Sorted(history), e)
      BY <2>2, <3>1 DEF HandlerAgrees
    <3> HIDE DEF e
    <3>3. Covers(Pushed(Sorted(history), e), taken \cup {e}) /\ WithinLimit(taken \cup {e})
      BY <2>2, <3>1, <3>2, LimitTypes, AllowedKeepsLimit
    <3>4. HandlerAgrees(x, history, taken')
      BY <2>1, <2>4, <3>2, <3>3 DEF HandlerAgrees
    <3>5. WithinLimit(taken')
      BY <2>1, <3>3
    <3> QED BY <2>3, <2>4, <2>5, <3>1, <3>4, <3>5, LimitTypes, HandlerActsAlone
  <2> HIDE DEF e, new
  <2> QED BY <1>1, <2>1, <2>6, <2>7, LimitTypes DEF LimitInv
<1> QED BY <1>2, <1>3

\* save() truncates the file.
LEMMA TruncateKeepsLimit ==
  ASSUME LimitInv, NEW h \in Handlers, HandlerTruncate(h)
  PROVE  LimitInv'
<1>0. handler[h] \in HandlerStates
  BY LimitTypes
<1>1. UNCHANGED <<now, runs, taken, disturbed>> /\ handler[h].pc = "truncate" /\ history' = <<>>
  BY DEF HandlerTruncate, At
<1> DEFINE x == [handler[h] EXCEPT !.pc = "save"]
           new == [handler EXCEPT ![h] = x]
<1>2. handler' = new
  BY DEF HandlerTruncate, Goto
<1>3. /\ SavingIn(handler[h]) /\ BusyIn(handler[h]) /\ ~handler[h].dev
      /\ handler[h].written = 0 /\ handler[h].written < Len(handler[h].history)
      /\ handler[h].history \in Seq(Captures)
  BY <1>0, <1>1, HandlerFields DEF BusyIn, SavingIn
<1>4. x \in HandlerStates
  BY <1>0, <1>3 DEF HandlerStates, BusyIn, SavingIn
<1>5. SavingIn(x) /\ x.history = handler[h].history /\ x.written = 0
  BY <1>0, <1>3 DEF HandlerStates, SavingIn
<1> HIDE DEF x
<1>a. <<>> \in Seq(Captures) /\ Len(<<>>) = 0
  OBVIOUS
<1>6. HistoryTypes(new, <<>>, taken)
  BY <1>4, <1>a, LimitTypes, HandlerActsAlone
<1>7. ASSUME ~disturbed
      PROVE  HistoryOK(new, <<>>, taken)
  <2>1. /\ \A o \in Handlers : o # h => ~BusyIn(handler[o])
        /\ WithinLimit(taken) /\ HandlerAgrees(handler[h], history, taken)
    BY <1>3, <1>7, LimitTypes, BusyIsAlone
  <2>2. Covers(x.history, taken)
    BY <1>3, <1>5, <2>1 DEF HandlerAgrees
  <2>3. HandlerAgrees(x, <<>>, taken)
    BY <1>5, <1>a, <2>2 DEF HandlerAgrees
  <2> QED BY <1>4, <1>5, <1>a, <2>1, <2>3, LimitTypes, HandlerActsAlone
<1> HIDE DEF new
<1> QED BY <1>1, <1>2, <1>6, <1>7, LimitTypes DEF LimitInv

\* save() writes the next timestamp of the handler's list; the last one completes the file.
LEMMA SaveKeepsLimit ==
  ASSUME LimitInv, NEW h \in Handlers, HandlerSave(h)
  PROVE  LimitInv'
<1> DEFINE y == handler[h]
           i == y.written + 1
           m == IF i > Len(history) THEN i ELSE Len(history)
           file == [j \in 1..m |->
                      IF j = i \/ j > Len(history) THEN y.history[j] ELSE history[j]]
<1>0. y \in HandlerStates
  BY LimitTypes
<1>1. UNCHANGED <<now, runs, taken, disturbed>> /\ y.pc = "save" /\ history' = file
  BY DEF HandlerSave, At
<1>2. /\ SavingIn(y) /\ BusyIn(y) /\ ~y.dev /\ y.written \in Nat
      /\ y.written < Len(y.history) /\ y.history \in Seq(Captures)
  BY <1>0, <1>1, HandlerFields DEF BusyIn, SavingIn
<1>3. /\ i \in Nat /\ i <= Len(y.history) /\ Len(y.history) \in Nat
      /\ Len(history) \in Nat /\ m \in Nat /\ history \in Seq(Captures)
  BY <1>2, LimitTypes
<1>4. file \in Seq(Captures) /\ Len(file) = m
  <2>1. ASSUME NEW j \in 1..m
        PROVE  (IF j = i \/ j > Len(history) THEN y.history[j] ELSE history[j]) \in Captures
    <3> HIDE DEF y
    <3> QED BY <1>2, <1>3
  <2> HIDE DEF m, i
  <2>2. file \in [1..m -> Captures]
    BY <2>1
  <2> HIDE DEF file
  <2> QED BY <1>3, <2>2
<1>5. ASSUME Len(history) = y.written, \A j \in 1..Len(history) : history[j] = y.history[j]
      PROVE  m = i /\ \A j \in 1..i : file[j] = y.history[j]
  <2>1. m = i
    BY <1>2, <1>5
  <2> HIDE DEF y
  <2> QED BY <1>2, <1>3, <1>5, <2>1
<1>6. ASSUME ~disturbed
      PROVE  /\ \A o \in Handlers : o # h => ~BusyIn(handler[o])
             /\ WithinLimit(taken) /\ Covers(y.history, taken)
             /\ Len(history) = y.written
             /\ \A j \in 1..Len(history) : history[j] = y.history[j]
  <2>1. /\ \A o \in Handlers : o # h => ~BusyIn(handler[o])
        /\ WithinLimit(taken) /\ HandlerAgrees(y, history, taken)
    BY <1>2, <1>6, LimitTypes, BusyIsAlone
  <2> QED BY <1>1, <1>2, <2>1 DEF HandlerAgrees
<1>7. CASE i = Len(y.history)
  <2>1. handler' = [handler EXCEPT ![h] = NoHandler]
    BY <1>7 DEF HandlerSave, Ends
  <2> HIDE DEF file, m, i, y
  <2>2. HistoryTypes([handler EXCEPT ![h] = NoHandler], file, taken)
    BY <1>4, LimitTypes, NoHandlerIsIdle, HandlerActsAlone
  <2>3. ASSUME ~disturbed
        PROVE  HistoryOK([handler EXCEPT ![h] = NoHandler], file, taken)
    <3>1. m = i /\ \A j \in 1..i : file[j] = y.history[j]
      BY <1>5, <1>6, <2>3
    <3>2. file = y.history
      BY <1>2, <1>4, <1>7, <3>1
    <3>3. Covers(file, taken)
      BY <1>6, <2>3, <3>2
    <3>4. HandlerAgrees(NoHandler, file, taken)
      BY NoHandlerIsIdle, IdleAgrees
    <3> QED BY <1>4, <1>6, <2>3, <3>3, <3>4, LimitTypes, NoHandlerIsIdle, HandlerActsAlone
  <2> QED BY <1>1, <2>1, <2>2, <2>3, LimitTypes DEF LimitInv
<1>8. CASE i # Len(y.history)
  <2> DEFINE x == [y EXCEPT !.written = i]
  <2>1. handler' = [handler EXCEPT ![h] = x]
    BY <1>8 DEF HandlerSave
  <2>2. i < Len(y.history)
    <3> HIDE DEF i
    <3> QED BY <1>3, <1>8
  <2>3. x \in HandlerStates
    <3> HIDE DEF i, y
    <3> QED BY <1>0, <1>1, <1>2, <1>3, <2>2 DEF HandlerStates, BusyIn, SavingIn
  <2>4. SavingIn(x) /\ x.history = y.history /\ x.written = i
    <3> HIDE DEF i, y
    <3> QED BY <1>0, <1>1 DEF HandlerStates, SavingIn
  <2> HIDE DEF file, m, i, y, x
  <2>5. HistoryTypes([handler EXCEPT ![h] = x], file, taken)
    BY <1>4, <2>3, LimitTypes, HandlerActsAlone
  <2>6. ASSUME ~disturbed
        PROVE  HistoryOK([handler EXCEPT ![h] = x], file, taken)
    <3>1. m = i /\ \A j \in 1..i : file[j] = y.history[j]
      BY <1>5, <1>6, <2>6
    <3>2. HandlerAgrees(x, file, taken)
      BY <1>4, <1>6, <2>4, <2>6, <3>1 DEF HandlerAgrees
    <3> QED BY <1>4, <1>6, <2>3, <2>4, <2>6, <3>2, LimitTypes, HandlerActsAlone
  <2> QED BY <1>1, <2>1, <2>5, <2>6, LimitTypes DEF LimitInv
<1> QED BY <1>7, <1>8

\* The power goes: no handler is left, and what is lost with it disturbs the limit.
LEMMA PowerCutKeepsLimit ==
  ASSUME LimitInv, NEW kept \in BOOLEAN, PowerCut(kept)
  PROVE  LimitInv'
<1> DEFINE none == [h \in Handlers |-> NoHandler]
<1>1. /\ handler' = none /\ UNCHANGED <<now, runs, taken>>
      /\ history' = IF kept THEN history ELSE <<>>
      /\ disturbed' = (\/ disturbed \/ ~kept
                       \/ \E h \in Handlers : handler[h].pc \in {"truncate", "save"})
  BY DEF PowerCut
<1>2. none \in [Handlers -> HandlerStates] /\ \A h \in Handlers : none[h] = NoHandler
  BY NoHandlerIsIdle
<1> HIDE DEF none
<1>3. history' \in Seq(Captures)
  BY <1>1, LimitTypes
<1>4. HistoryTypes(none, history', taken)
  BY <1>2, <1>3, LimitTypes DEF HistoryTypes
<1>5. disturbed' \in BOOLEAN
  BY <1>1, LimitTypes
<1>6. ASSUME ~disturbed'
      PROVE  HistoryOK(none, history', taken)
  <2>1. ~disturbed /\ kept /\ \A h \in Handlers : ~SavingIn(handler[h])
    BY <1>1, <1>6 DEF SavingIn
  <2>2. HistoryOK(handler, history, taken) /\ history' = history
    BY <1>1, <2>1, LimitTypes
  <2>3. WithinLimit(taken) /\ Covers(history', taken)
    BY <2>1, <2>2 DEF HistoryOK
  <2>4. \A h \in Handlers : ~BusyIn(none[h]) /\ HandlerAgrees(none[h], history', taken)
    BY <1>2, NoHandlerIsIdle, IdleAgrees
  <2> QED BY <2>3, <2>4 DEF HistoryOK
<1> QED BY <1>1, <1>4, <1>5, <1>6, LimitTypes DEF LimitInv

\* At first nothing has been captured, and the file is empty.
LEMMA InitLimit == Init => LimitInv
<1> SUFFICES ASSUME Init
             PROVE  LimitInv
  OBVIOUS
<1>1. /\ now = 0 /\ history = <<>> /\ handler = [h \in Handlers |-> NoHandler]
      /\ runs = 0 /\ taken = {} /\ disturbed = FALSE
  BY DEF Init
<1>2. /\ handler \in [Handlers -> HandlerStates]
      /\ \A h \in Handlers : handler[h] = NoHandler
  BY <1>1, NoHandlerIsIdle
<1>3. history \in Seq(Captures) /\ Len(history) = 0 /\ Count \in Nat
  BY <1>1, CoreHandlerAssumption
<1>4. HistoryTypes(handler, history, taken)
  BY <1>1, <1>2, <1>3, FS_EmptySet DEF HistoryTypes
<1>5. Covers(history, taken) /\ WithinLimit(taken)
  BY <1>1, <1>3 DEF Covers, WithinLimit
<1>6. \A h \in Handlers : ~BusyIn(handler[h]) /\ HandlerAgrees(handler[h], history, taken)
  BY <1>2, NoHandlerIsIdle, IdleAgrees
<1> QED BY <1>1, <1>4, <1>5, <1>6 DEF LimitInv, HistoryOK

\* Every step keeps the limit.
LEMMA NextKeepsLimit ==
  ASSUME SettingsInv, LimitInv, [Next]_vars
  PROVE  LimitInv'
<1>1. CASE UNCHANGED coreVars
  BY <1>1 DEF coreVars, LimitInv
<1>2. ASSUME NEW h \in Handlers,
             \/ HandlerStart(h) \/ HandlerLimit(h) \/ \E s \in Spaces : HandlerSpace(h, s)
             \/ HandlerCaptures(h) \/ HandlerTruncate(h) \/ HandlerSave(h)
      PROVE  LimitInv'
  BY <1>2, StartKeepsLimit, LimitKeepsLimit, SpaceKeepsLimit, CaptureKeepsLimit,
     TruncateKeepsLimit, SaveKeepsLimit
<1>3. ASSUME NEW h \in Handlers, HandlerFails(h)
      PROVE  LimitInv'
  <2>1. /\ Ends(h) /\ handler[h].pc = "capture"
        /\ UNCHANGED <<now, history, runs, taken, disturbed>>
    BY <1>3 DEF HandlerFails, At
  <2> QED BY <2>1, LimitTypes, EndKeepsLimit
<1>4. ASSUME NEW h \in Handlers, HandlerKilled(h)
      PROVE  LimitInv'
  <2>1. /\ Ends(h) /\ UNCHANGED <<now, history, runs, taken>>
        /\ disturbed' = (disturbed \/ handler[h].pc \in {"truncate", "save"})
    BY <1>4 DEF HandlerKilled
  <2>2. /\ disturbed' \in BOOLEAN /\ disturbed => disturbed'
        /\ handler[h].pc \in {"truncate", "save"} => disturbed'
    BY <2>1, LimitTypes
  <2> QED BY <2>1, <2>2, EndKeepsLimit
<1>5. CASE Tick \/ SetBack
  <2>1. UNCHANGED <<history, handler, runs, taken, disturbed>>
    BY <1>5 DEF Tick, SetBack
  <2>2. now' \in Nat
    BY <1>5, LimitTypes DEF Tick, SetBack
  <2> QED BY <2>1, <2>2, LimitTypes DEF LimitInv
<1>6. ASSUME NEW kept \in BOOLEAN, PowerCut(kept)
      PROVE  LimitInv'
  BY <1>6, PowerCutKeepsLimit
<1>7. Next \/ UNCHANGED coreVars
  BY DEF vars
<1>8. CASE HandlerNext
  BY <1>2, <1>3, <1>4, <1>5, <1>6, <1>8 DEF HandlerNext
<1> QED BY <1>1, <1>7, <1>8 DEF Next

\* In every state the handlers, the history file and the captures agree, as long as nothing
\* has disturbed them.
THEOREM LimitInvariance == Spec => []LimitInv
<1>1. Init => LimitInv
  BY InitLimit
<1>2. SettingsInv /\ LimitInv /\ [Next]_vars => LimitInv'
  BY NextKeepsLimit
<1> QED BY <1>1, <1>2, SettingsInvariance, PTL DEF Spec

\* However many handlers there are, whatever the limit, whatever fails, and however the
\* clock is set back: handlers that come one after the other and save what they have
\* counted start no more than Count captures within any Duration
\* (persistent_rate_limiter.rs check_with_time, load and save).
THEOREM CoredumpLimitHolds == Spec => []LimitHolds
<1>1. LimitInv => LimitHolds
  <2> SUFFICES ASSUME LimitInv, ~disturbed
               PROVE  WithinLimit(taken)
    BY DEF LimitHolds, WithinLimit, Window
  <2> QED BY LimitTypes DEF HistoryOK
<1> QED BY <1>1, LimitInvariance, PTL
=============================================================================
