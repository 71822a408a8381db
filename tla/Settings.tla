------------------------------ MODULE Settings ------------------------------
(***************************************************************************)
(* The settings of a device and who reads and writes them.                 *)
(*                                                                         *)
(* runtime.conf holds what memfaultctl has turned on or off.  A command    *)
(* reads it, truncates it and writes it again, then asks systemd to        *)
(* restart memfaultd.  Nothing locks the file: commands may overlap, and   *)
(* memfaultd and the core handler read it whenever they start.             *)
(*                                                                         *)
(* device_config.json caches the sampling that the server has assigned.    *)
(* memfaultd fetches it, writes the cache, and then confirms the revision  *)
(* with a MAR entry.  MarStaging models what happens to entries; here the  *)
(* confirmations that wait are a set.                                      *)
(*                                                                         *)
(* Processes may be killed between any two of these steps, and the power   *)
(* may go.                                                                 *)
(***************************************************************************)
EXTENDS Naturals, FiniteSets

CONSTANTS
  Ctls,       \* processes of memfaultctl
  Base,       \* the two flags as built-in and system configuration have them
  Assigned,   \* the sampling that the server assigns, for each revision
  Budgets     \* bound: how many events of each kind a behaviour may have

Keys == {"enable_dev_mode", "enable_data_collection"}
Revisions == DOMAIN Assigned
Streams == {"debugging", "logging", "monitoring"}

ASSUME SettingsAssumption ==
  /\ Base \in [Keys -> BOOLEAN]
  /\ Revisions \subseteq Nat \ {0} /\ 1 \in Revisions
  /\ \A r \in Revisions : Assigned[r] \in [Streams -> {"off", "low", "normal", "high"}]

VARIABLES
  budget,
  runtime,     \* runtime.conf
  ctl,         \* per memfaultctl process: where it is, and what it is about to write
  daemon,      \* memfaultd as systemd sees it, and what it has read
  corePattern, \* does the kernel start the core handler?
  cacheFile,   \* device_config.json
  staged,      \* the revisions that wait in the staging directory to be confirmed
  server,      \* the revision assigned, and the last one confirmed to the server
  \* What an observer has seen.
  promise,     \* what a flag should be, after the commands that have succeeded
  interrupted  \* a write was cut short, or its restart of memfaultd never came

fileVars == <<runtime, promise>>
deviceVars == <<cacheFile, staged, server>>
settingVars ==
  <<budget, fileVars, ctl, daemon, corePattern, deviceVars, interrupted>>

Spend(what) == budget[what] > 0 /\ budget' = [budget EXCEPT ![what] = @ - 1]

\* In some behaviours the device never reaches the server.
Online == budget["net"] > 0

-----------------------------------------------------------------------------
(* Files that are truncated and written in place.                          *)

Flags == {"unset", "on", "off"}
Unset == [k \in Keys |-> "unset"]
Flag(v) == IF v THEN "on" ELSE "off"

Missing(nothing) == [state |-> "missing", val |-> nothing]
Torn(nothing) == [state |-> "torn", val |-> nothing]
Written(v) == [state |-> "ok", val |-> v]

ReadableExists(file) == file.state = "ok"

\* A missing runtime configuration is not an error; one that is not JSON is.
Readable(file) == file.state # "torn"

\* The runtime configuration is merged over the base configuration.
Effective(file) ==
  [k \in Keys |-> IF file.val[k] = "unset" THEN Base[k] ELSE file.val[k] = "on"]

Resolution(r) == IF r = "off" THEN "Off" ELSE "On"
DeviceConfig(r) == [revision |-> r, sampling |-> [s \in Streams |-> Resolution(Assigned[r][s])]]
Default == [revision |-> 0, sampling |-> [s \in Streams |-> "Off"]]

\* DiskBacked.get(): a cache that is missing or cannot be read counts for the default.
Cached(cache) == IF cache.state = "ok" THEN cache.val ELSE Default

-----------------------------------------------------------------------------
(* memfaultctl enable-... and disable-....                                 *)

NoCommand == [pc |-> "idle", key |-> "enable_dev_mode", flag |-> "unset", val |-> Unset,
              clean |-> TRUE]
CtlAt(c, pc) == ctl[c].pc = pc

\* Every command loads the configuration first.  When the flag is already set there
\* is nothing to do.
CtlStart(c, key, value) ==
  /\ CtlAt(c, "idle") /\ Spend("ctl")
  /\ ctl' = IF Readable(runtime) /\ Effective(runtime)[key] # value
            THEN [ctl EXCEPT ![c] = [NoCommand EXCEPT !.pc = "loaded", !.key = key,
                                                      !.flag = Flag(value)]]
            ELSE ctl
  /\ UNCHANGED <<fileVars, daemon, corePattern, deviceVars, interrupted>>

\* The runtime configuration is read again, and the flag is changed in the copy.
Edited(c) == [runtime.val EXCEPT ![ctl[c].key] = ctl[c].flag]
CtlRead(c) ==
  /\ CtlAt(c, "loaded")
  /\ ctl' = [ctl EXCEPT ![c] = IF Readable(runtime)
                               THEN [@ EXCEPT !.pc = "truncate", !.val = Edited(c)]
                               ELSE NoCommand]
  /\ UNCHANGED <<budget, fileVars, daemon, corePattern, deviceVars, interrupted>>

\* fs::write opens the file with O_TRUNC, and then writes.
CtlTruncate(c) ==
  /\ CtlAt(c, "truncate") /\ ctl' = [ctl EXCEPT ![c].pc = "write"]
  /\ runtime' = Torn(Unset)
  /\ UNCHANGED <<budget, promise, daemon, corePattern, deviceVars, interrupted>>

\* The commands that have read the file before will write over this change.
CtlWrite(c) ==
  /\ CtlAt(c, "write") /\ runtime' = Written(ctl[c].val)
  /\ ctl' = [o \in Ctls |->
               IF o = c THEN [ctl[c] EXCEPT !.pc = "restart"]
               ELSE [ctl[o] EXCEPT !.clean = ctl[o].pc \notin {"truncate", "write"}]]
  /\ promise' = [IF ctl[c].clean THEN promise ELSE Unset EXCEPT ![ctl[c].key] = ctl[c].flag]
  /\ UNCHANGED <<budget, daemon, corePattern, deviceVars, interrupted>>

-----------------------------------------------------------------------------
(* systemd, and the start of memfaultd.                                    *)

Starting == {"read", "show"}
NoAnswer == [revision |-> 0, confirm |-> FALSE]
Started ==
  [pc |-> "read", stop |-> FALSE, cfg |-> Base, cache |-> Missing(Default), answer |-> NoAnswer]

\* ActiveState of memfaultd.service.
ActiveState(d) ==
  CASE d.pc \in Starting -> "activating"
    [] d.pc \notin Starting /\ d.stop -> "deactivating"
    [] OTHER -> "active"

RestartIfActive(d) ==
  IF ActiveState(d) = "active" THEN [d EXCEPT !.stop = TRUE] ELSE d

\* memfaultd is restarted if it is active or about to be.  A daemon that runs gets
\* SIGTERM and ends its round first.
RestartIfRunning(d) ==
  CASE ActiveState(d) = "activating" -> Started
    [] ActiveState(d) = "active" -> [d EXCEPT !.stop = TRUE]
    [] OTHER -> d

CtlRestart(c) ==
  /\ CtlAt(c, "restart") /\ ctl' = [ctl EXCEPT ![c] = NoCommand]
  /\ daemon' = RestartIfRunning(daemon)
  /\ UNCHANGED <<budget, fileVars, corePattern, deviceVars, interrupted>>

CtlKilled(c) ==
  /\ ctl[c].pc # "idle" /\ Spend("kill") /\ ctl' = [ctl EXCEPT ![c] = NoCommand]
  /\ interrupted' = (interrupted \/ ctl[c].pc \in {"write", "restart"})
  /\ UNCHANGED <<fileVars, daemon, corePattern, deviceVars>>

\* main() loads the configuration, and with it the cache of the device config.
DaemonRead ==
  /\ daemon.pc = "read" /\ Readable(runtime)
  /\ daemon' = [daemon EXCEPT !.pc = "show", !.cfg = Effective(runtime), !.cache = cacheFile]
  /\ interrupted' = FALSE
  /\ UNCHANGED <<budget, fileVars, ctl, corePattern, deviceVars>>

\* The kernel is told where the core handler is; this is not taken back when data
\* collection is disabled.
ConfigureKernel == corePattern' = (corePattern \/ daemon.cfg["enable_data_collection"])

\* main() reads the files once more to show the settings.
DaemonShow ==
  /\ daemon.pc = "show" /\ Readable(runtime)
  /\ daemon' = [daemon EXCEPT !.pc = "loop"]
  /\ ConfigureKernel
  /\ UNCHANGED <<budget, fileVars, ctl, deviceVars, interrupted>>

\* A daemon that cannot start is started again.
DaemonStartFails ==
  /\ daemon.pc \in Starting /\ ~Readable(runtime) /\ daemon' = Started
  /\ UNCHANGED <<budget, fileVars, ctl, corePattern, deviceVars, interrupted>>

DaemonStops ==
  /\ daemon.pc = "loop" /\ daemon.stop /\ daemon' = Started
  /\ UNCHANGED <<budget, fileVars, ctl, corePattern, deviceVars, interrupted>>

DaemonKilled ==
  /\ daemon.pc \notin Starting /\ Spend("kill") /\ daemon' = Started
  /\ UNCHANGED <<fileVars, ctl, corePattern, deviceVars, interrupted>>

-----------------------------------------------------------------------------
(* The device config.                                                      *)

RefreshConfirmsNew ==
  /\ daemon.pc = "loop" /\ ~daemon.stop /\ daemon.cfg["enable_data_collection"] /\ Online
  /\ daemon' = [daemon EXCEPT !.pc = "set",
                  !.answer = [revision |-> server.revision,
                              confirm |-> server.revision # Cached(daemon.cache).revision]]
  /\ UNCHANGED <<budget, fileVars, ctl, corePattern, deviceVars, interrupted>>

\* The server is asked.  Unless it knows that the device has this revision, the
\* revision will have to be confirmed.
Refresh ==
  /\ daemon.pc = "loop" /\ ~daemon.stop /\ daemon.cfg["enable_data_collection"] /\ Online
  /\ daemon' = [daemon EXCEPT !.pc = "set",
                  !.answer = [revision |-> server.revision,
                              confirm |-> server.completed # server.revision]]
  /\ UNCHANGED <<budget, fileVars, ctl, corePattern, deviceVars, interrupted>>

New == DeviceConfig(daemon.answer.revision)
AfterSet == IF daemon.answer.confirm THEN "confirm" ELSE "loop"

CacheTruncateConfirms ==
  /\ daemon.pc = "set"
  /\ IF daemon.cache = Written(New)
     THEN daemon' = [daemon EXCEPT !.pc = "loop"] /\ UNCHANGED cacheFile
     ELSE daemon' = [daemon EXCEPT !.pc = "write"] /\ cacheFile' = Torn(Default)
  /\ staged' = IF daemon.answer.confirm THEN staged \cup {daemon.answer.revision} ELSE staged
  /\ UNCHANGED <<budget, fileVars, ctl, corePattern, server, interrupted>>

\* DiskBacked.set() writes if the value is not the one that was read or written last.
CacheTruncate ==
  /\ daemon.pc = "set"
  /\ IF daemon.cache = Written(New)
     THEN daemon' = [daemon EXCEPT !.pc = AfterSet] /\ UNCHANGED cacheFile
     ELSE daemon' = [daemon EXCEPT !.pc = "write"] /\ cacheFile' = Torn(Default)
  /\ UNCHANGED <<budget, fileVars, ctl, corePattern, staged, server, interrupted>>

CacheWrite ==
  /\ daemon.pc = "write" /\ cacheFile' = Written(New)
  /\ daemon' = [daemon EXCEPT !.pc = AfterSet, !.cache = Written(New)]
  /\ UNCHANGED <<budget, fileVars, ctl, corePattern, staged, server, interrupted>>

Confirm ==
  /\ daemon.pc = "confirm" /\ daemon' = [daemon EXCEPT !.pc = "loop"]
  /\ staged' = staged \cup {daemon.answer.revision}
  /\ UNCHANGED <<budget, fileVars, ctl, corePattern, cacheFile, server, interrupted>>

\* The cache or the entry cannot be written: the round goes on.
RefreshFails ==
  /\ daemon.pc \in {"set", "write", "confirm"} /\ Spend("fail")
  /\ daemon' = [daemon EXCEPT !.pc = "loop"]
  /\ UNCHANGED <<fileVars, ctl, corePattern, deviceVars, interrupted>>

\* Entries that confirm a revision are sent whatever the sampling is.
Upload(r) ==
  /\ daemon.pc = "loop" /\ daemon.cfg["enable_data_collection"] /\ Online /\ r \in staged
  /\ staged' = staged \ {r} /\ server' = [server EXCEPT !.completed = r]
  /\ UNCHANGED <<budget, fileVars, ctl, daemon, corePattern, cacheFile, interrupted>>

Evict(r) ==
  /\ r \in staged /\ Spend("fail") /\ staged' = staged \ {r}
  /\ UNCHANGED <<fileVars, ctl, daemon, corePattern, cacheFile, server, interrupted>>

Assign ==
  /\ server.revision + 1 \in Revisions /\ Spend("assign")
  /\ server' = [server EXCEPT !.revision = @ + 1]
  /\ UNCHANGED <<fileVars, ctl, daemon, corePattern, cacheFile, staged, interrupted>>

\* The power goes, and comes back.  tmp_dir may be on a disk or in memory.
PowerGoes(tmpKept) ==
  /\ Spend("power")
  /\ ctl' = [c \in Ctls |-> NoCommand] /\ daemon' = Started /\ corePattern' = FALSE
  /\ staged' = IF tmpKept THEN staged ELSE {}
  /\ interrupted' = (interrupted \/ \E c \in Ctls : CtlAt(c, "write"))
  /\ UNCHANGED <<fileVars, cacheFile, server>>

-----------------------------------------------------------------------------
SettingsInit ==
  /\ budget \in Budgets
  /\ runtime = Missing(Unset) /\ promise = Unset /\ interrupted = FALSE
  /\ ctl = [c \in Ctls |-> NoCommand]
  /\ daemon = Started /\ corePattern = FALSE
  /\ cacheFile = Missing(Default) /\ staged = {}
  /\ server = [revision |-> 1, completed |-> 0]

CtlNext ==
  \E c \in Ctls :
    \/ \E k \in Keys, v \in BOOLEAN : CtlStart(c, k, v)
    \/ CtlRead(c) \/ CtlTruncate(c) \/ CtlWrite(c) \/ CtlRestart(c) \/ CtlKilled(c)

DaemonNext ==
  \/ DaemonRead \/ DaemonShow \/ DaemonStartFails \/ DaemonStops \/ DaemonKilled
  \/ Refresh \/ CacheTruncate \/ CacheWrite \/ Confirm \/ RefreshFails
  \/ \E r \in Revisions : Upload(r) \/ Evict(r)
  \/ Assign

-----------------------------------------------------------------------------
(* Properties.                                                             *)

ConfigFiles == [state : {"missing", "torn", "ok"}, val : [Keys -> Flags]]
DeviceConfigs == {Default} \cup {DeviceConfig(r) : r \in Revisions}

SettingsTypeOK ==
  /\ runtime \in ConfigFiles /\ promise \in [Keys -> Flags] /\ interrupted \in BOOLEAN
  /\ ctl \in [Ctls -> [pc : {"idle", "loaded", "truncate", "write", "restart"}, key : Keys,
                       flag : Flags, val : [Keys -> Flags], clean : BOOLEAN]]
  /\ daemon \in [pc : Starting \cup {"loop", "set", "write", "confirm"}, stop : BOOLEAN,
                 cfg : [Keys -> BOOLEAN],
                 cache : [state : {"missing", "torn", "ok"}, val : DeviceConfigs],
                 answer : [revision : Revisions \cup {0}, confirm : BOOLEAN]]
  /\ corePattern \in BOOLEAN /\ staged \subseteq Revisions
  /\ cacheFile \in [state : {"missing", "torn", "ok"}, val : DeviceConfigs]
  /\ server \in [revision : Revisions, completed : Revisions \cup {0}]

Up == daemon.pc \notin Starting
CtlsIdle == \A c \in Ctls : CtlAt(c, "idle")

\* A flag that memfaultctl has changed stays as it is, although another command rewrites
\* the whole file for the other flag, unless that command had read the file before; and
\* when the commands are done, the daemon that runs has been started with what the file
\* says (config_file.rs:260, memfaultctl/config_file.rs:84).
SettingsStick ==
  /\ runtime.state = "ok" =>
       \A k \in Keys : promise[k] # "unset" => runtime.val[k] = promise[k]
  /\ CtlsIdle /\ ~interrupted /\ Up /\ ~daemon.stop => daemon.cfg = Effective(runtime)

\* The device has what it has confirmed, or something newer, whenever it can read its
\* cache: the confirmation is made after the write, across crashes and failing writes
\* (config/mod.rs:95).
NeverBehindConfirmed ==
  /\ cacheFile.state = "ok" =>
       \A r \in staged \cup {server.completed} : cacheFile.val.revision >= r
  /\ cacheFile.state = "missing" => staged = {} /\ server.completed = 0
  /\ Up /\ daemon.cache.state = "ok" =>
       \A r \in staged \cup {server.completed} : daemon.cache.val.revision >= r

\* memfaultd comes up again after restarts and power cuts, although commands may be
\* writing the file that it reads, unless a command was cut off in the middle of its
\* write (config_file.rs:242).
DaemonComesBack == ~Up ~> (Up \/ interrupted)

\* The server learns that the device uses the revision it has assigned, however many
\* confirmations were lost, evicted or sent out of order (config/mod.rs:81).
ConfigConverges ==
  <>[](Up /\ daemon.cfg["enable_data_collection"] /\ Online)
    => <>[](/\ server.completed = server.revision
            /\ Cached(daemon.cache) = DeviceConfig(server.revision))
=============================================================================
