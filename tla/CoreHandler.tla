----------------------------- MODULE CoreHandler ----------------------------
(***************************************************************************)
(* The core handler: a process that the kernel starts for every crash,     *)
(* with the rate limiter that all of them share in a file.  A handler      *)
(* loads the history of captures, decides, captures the core for seconds,  *)
(* commits its MAR entry and only then truncates and rewrites the history, *)
(* one timestamp at a time.  Nothing locks the file.                       *)
(*                                                                         *)
(* CoreTransformer models how the core is captured, MarStaging how the     *)
(* entry is committed, and Metrics what memfaultd does when a handler      *)
(* tells it of a crash.                                                    *)
(***************************************************************************)
EXTENDS Settings, Sequences, SequencesExt

D == INSTANCE DiskSize

CONSTANTS
  Handlers,    \* processes of the core handler
  Count,       \* coredump.rate_limit_count
  Duration,    \* coredump.rate_limit_duration
  MaxSize,     \* coredump.coredump_max_size
  Headroom,    \* tmp_dir_min_headroom
  Spaces       \* bound: the free space that a handler may find

ASSUME CoreHandlerAssumption ==
  /\ Count \in Nat /\ Duration \in Nat /\ MaxSize \in Nat
  /\ Headroom \in D!DiskSizes /\ Spaces \subseteq D!DiskSizes

VARIABLES
  now,         \* the wall clock
  history,     \* the file coredump_rate_limit
  handler,     \* per handler: where it is, its settings, its copy of the history
  \* What an observer has seen.
  runs,        \* crashes so far, to tell captures apart
  taken,       \* captures that counted for the limit
  disturbed    \* handlers overlapped, or one could not save what it had counted

coreVars == <<now, history, handler, runs, taken, disturbed>>
vars == <<settingVars, coreVars>>

NoHandler == [pc |-> "none", dev |-> FALSE, history |-> <<>>, written |-> 0,
              entry |-> [at |-> 0, run |-> 0]]
At(h, pc) == handler[h].pc = pc
Goto(h, pc) == handler' = [handler EXCEPT ![h].pc = pc]
Ends(h) == handler' = [handler EXCEPT ![h] = NoHandler]

-----------------------------------------------------------------------------
(* PersistentRateLimiter.                                                  *)

\* load() sorts the timestamps, the most recent one first.
Sorted(s) ==
  LET p == CHOOSE p \in [1..Len(s) -> 1..Len(s)] :
             IsInjective(p) /\ \A i, j \in 1..Len(s) : i < j => s[p[i]].at >= s[p[j]].at
  IN  [i \in 1..Len(s) |-> s[p[i]]]

AllowedOneMore(s, t) == Len(s) <= Count \/ t - s[Len(s)].at >= Duration

\* As many captures as the list may hold have to be over for the duration, counted
\* from the oldest one.  The clock may have been set back since.
Allowed(s, t) == Len(s) < Count \/ t - s[Len(s)].at >= Duration

Pushed(s, entry) == SubSeq(<<entry>> \o s, 1, IF Len(s) < Count THEN Len(s) + 1 ELSE Count)

\* The space that a coredump may take.
AvailableSpace(available) ==
  IF D!Exceeds(available, Headroom)
  THEN D!Lesser(available.bytes - Headroom.bytes, MaxSize) ELSE 0

-----------------------------------------------------------------------------
\* The kernel starts a handler, which loads the configuration.  If that fails, or if
\* data collection is disabled, the core is not processed.
HandlerStart(h) ==
  /\ corePattern /\ At(h, "none") /\ Spend("crash") /\ runs' = runs + 1
  /\ handler' = IF Readable(runtime) /\ Effective(runtime)["enable_data_collection"]
                THEN [handler EXCEPT ![h] = [NoHandler EXCEPT !.pc = "limit",
                                               !.dev = Effective(runtime)["enable_dev_mode"],
                                               !.entry = [at |-> 0, run |-> runs']]]
                ELSE handler
  /\ UNCHANGED <<fileVars, ctl, daemon, corePattern, deviceVars, interrupted,
                 now, history, taken, disturbed>>

Busy(h) == handler[h].pc \notin {"none", "limit"} /\ ~handler[h].dev

\* In developer mode there is no limit.  A limit of zero is an error.
HandlerLimit(h) ==
  LET entry == [handler[h].entry EXCEPT !.at = now]
      loaded == Sorted(history)
  IN  /\ At(h, "limit")
      /\ IF handler[h].dev THEN Goto(h, "space") /\ UNCHANGED disturbed
         ELSE /\ disturbed' = (disturbed \/ \E o \in Handlers \ {h} : Busy(o))
              /\ IF Count > 0 /\ Duration > 0 /\ Allowed(loaded, now)
                 THEN handler' = [handler EXCEPT ![h].pc = "space", ![h].entry = entry,
                                                 ![h].history = Pushed(loaded, entry)]
                 ELSE Ends(h)
      /\ UNCHANGED <<settingVars, now, history, runs, taken>>

HandlerSpace(h, available) ==
  /\ At(h, "space")
  /\ IF AvailableSpace(available) = 0 THEN Ends(h) ELSE Goto(h, "capture")
  /\ UNCHANGED <<settingVars, now, history, runs, taken, disturbed>>

\* The core is written to the entry, and the entry is committed; or that fails, and
\* the capture does not count.
HandlerCaptures(h) ==
  /\ At(h, "capture")
  /\ IF handler[h].dev THEN Ends(h) /\ UNCHANGED taken
     ELSE Goto(h, "truncate") /\ taken' = taken \cup {handler[h].entry}
  /\ UNCHANGED <<settingVars, now, history, runs, disturbed>>

HandlerFails(h) ==
  /\ At(h, "capture") /\ Spend("fail") /\ Ends(h)
  /\ UNCHANGED <<fileVars, ctl, daemon, corePattern, deviceVars, interrupted,
                 now, history, runs, taken, disturbed>>

HandlerTruncate(h) ==
  /\ At(h, "truncate") /\ Goto(h, "save") /\ history' = <<>>
  /\ UNCHANGED <<settingVars, now, runs, taken, disturbed>>

\* Each timestamp is written where the ones before it end, so two handlers that save
\* at once write over each other.
HandlerSave(h) ==
  LET i == handler[h].written + 1
  IN  /\ At(h, "save")
      /\ history' = [j \in 1..(IF i > Len(history) THEN i ELSE Len(history)) |->
                       IF j = i \/ j > Len(history) THEN handler[h].history[j] ELSE history[j]]
      /\ IF i = Len(handler[h].history) THEN Ends(h)
         ELSE handler' = [handler EXCEPT ![h].written = i]
      /\ UNCHANGED <<settingVars, now, runs, taken, disturbed>>

\* A handler is killed, or cannot write the history.
HandlerKilled(h) ==
  /\ ~At(h, "none") /\ Spend("kill") /\ Ends(h)
  /\ disturbed' = (disturbed \/ handler[h].pc \in {"truncate", "save"})
  /\ UNCHANGED <<fileVars, ctl, daemon, corePattern, deviceVars, interrupted,
                 now, history, runs, taken>>

Tick ==
  /\ Spend("time") /\ now' = now + 1
  /\ UNCHANGED <<fileVars, ctl, daemon, corePattern, deviceVars, interrupted,
                 history, handler, runs, taken, disturbed>>

SetBack ==
  /\ now >= 2 /\ Spend("clock") /\ now' = now - 2
  /\ UNCHANGED <<fileVars, ctl, daemon, corePattern, deviceVars, interrupted,
                 history, handler, runs, taken, disturbed>>

PowerCut(tmpKept) ==
  /\ PowerGoes(tmpKept)
  /\ handler' = [h \in Handlers |-> NoHandler]
  /\ history' = IF tmpKept THEN history ELSE <<>>
  /\ disturbed' = (\/ disturbed \/ ~tmpKept
                   \/ \E h \in Handlers : handler[h].pc \in {"truncate", "save"})
  /\ UNCHANGED <<now, runs, taken>>

-----------------------------------------------------------------------------
Init ==
  /\ SettingsInit /\ now = 0 /\ history = <<>>
  /\ handler = [h \in Handlers |-> NoHandler]
  /\ runs = 0 /\ taken = {} /\ disturbed = FALSE

HandlerNext ==
  \/ \E h \in Handlers :
       \/ HandlerStart(h) \/ HandlerLimit(h) \/ \E s \in Spaces : HandlerSpace(h, s)
       \/ HandlerCaptures(h) \/ HandlerFails(h)
       \/ HandlerTruncate(h) \/ HandlerSave(h) \/ HandlerKilled(h)
  \/ Tick \/ SetBack
  \/ \E kept \in BOOLEAN : PowerCut(kept)

Next ==
  \/ CtlNext /\ UNCHANGED coreVars
  \/ DaemonNext /\ UNCHANGED coreVars
  \/ HandlerNext

Spec == Init /\ [][Next]_vars

\* Commands and the daemon run on, and systemd starts a daemon that has died.
Fairness ==
  /\ \A c \in Ctls :
       WF_vars((CtlRead(c) \/ CtlTruncate(c) \/ CtlWrite(c) \/ CtlRestart(c))
               /\ UNCHANGED coreVars)
  /\ WF_vars(DaemonRead /\ UNCHANGED coreVars) /\ WF_vars(DaemonShow /\ UNCHANGED coreVars)
  /\ WF_vars(DaemonStops /\ UNCHANGED coreVars)
  /\ WF_vars((CacheTruncate \/ CacheWrite \/ Confirm) /\ UNCHANGED coreVars)
  /\ SF_vars(Refresh /\ UNCHANGED coreVars)
  /\ \A r \in Revisions : SF_vars(Upload(r) /\ UNCHANGED coreVars)

FairSpec == Spec /\ Fairness

-----------------------------------------------------------------------------
TypeOK ==
  /\ SettingsTypeOK
  /\ now \in Nat /\ runs \in Nat /\ disturbed \in BOOLEAN
  /\ history \in Seq([at : Nat, run : 1..runs]) /\ taken \subseteq [at : Nat, run : 1..runs]
  /\ \A h \in Handlers :
       /\ handler[h].pc \in {"none", "limit", "space", "capture", "truncate", "save"}
       /\ handler[h].history \in Seq([at : Nat, run : 1..runs])
       /\ handler[h].written < Len(handler[h].history) \/ handler[h].written = 0

\* No more than Count captures start within any Duration, across handlers that come one
\* after the other, failing captures, crashes before the commit and a clock that is set
\* back.  Handlers that overlap, or that are killed before the history is saved, are not
\* covered: the code lets them through (persistent_rate_limiter.rs:17).
LimitHolds ==
  ~disturbed =>
    \A e \in taken :
      Cardinality({f \in taken : e.at <= f.at /\ f.at < e.at + Duration}) <= Count
=============================================================================
