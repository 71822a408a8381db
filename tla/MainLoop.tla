------------------------------ MODULE MainLoop ------------------------------
(***************************************************************************)
(* The life of the memfaultd process: start, PID file, signals, the main   *)
(* loop with its back-off, shutdown and relaunch (memfaultd.rs,            *)
(* util/task.rs, cli/memfaultd.rs, util/pid_file.rs).                      *)
(*                                                                         *)
(* Signals arrive at any time, as often as they like.  Before the handlers *)
(* are registered a signal kills the process; afterwards it sets a flag    *)
(* that the loop looks at now and then, and ends a sleep in progress.      *)
(* SIGUSR1 (memfaultctl sync) asks for a round of work now, SIGHUP for a   *)
(* relaunch, which replaces the process by exec() and reads the            *)
(* configuration again, SIGTERM and SIGINT for the end.                    *)
(*                                                                         *)
(* A service manager starts the process again whenever it is down, and     *)
(* removes a PID file that was left behind.                                *)
(*                                                                         *)
(* Time is counted from the start of a round.  What a round does to the    *)
(* staging area and to the logs is in MarStaging and LogCollector.         *)
(***************************************************************************)
EXTENDS Naturals

CONSTANTS
  Period,     \* upload_interval, or 15 minutes if that is zero
  ErrorRetry, \* error_retry: 60 seconds
  MaxErrors,  \* bound: rounds that fail in a row
  MaxWork     \* bound: the time a round may take

ASSUME LoopAssumption ==
  /\ Period \in Nat \ {0} /\ ErrorRetry \in Nat \ {0}
  /\ MaxErrors \in Nat /\ MaxWork \in Nat

Shorter(s, t) == IF s <= t THEN s ELSE t
Longer(s, t) == IF s <= t THEN t ELSE s

VARIABLES
  pc,
  pidFile,             \* "none", "mine", or "stale": left by a process that is gone
  conf,                \* what the loop uses of the configuration file
  force, term, reload, \* the flags set by signals
  forced,              \* local to a round: the value swapped out of force
  stale,               \* the device config was never read, or two hours ago
  errors,              \* count_errors_since_success
  due,                 \* next_run_in
  since,               \* time since the round started
  \* What an observer has seen.
  asked,               \* a SIGUSR1 arrived after the last forced round started
  granted,             \* one had arrived when this round started
  streak,              \* rounds that failed since the last one that succeeded
  work,                \* the time the last round took
  worked,              \* whether a round was completed
  exit                 \* why the process ended

flagVars  == <<force, term, reload>>
roundVars == <<forced, stale, errors, due, since>>
seenVars  == <<asked, granted, streak, work, worked>>
vars == <<pc, pidFile, conf, flagVars, roundVars, seenVars, exit>>

Confs == [enable : BOOLEAN, forcedOnly : BOOLEAN]

\* The states in which the signal handlers are registered.
Ready ==
  {"setup", "condition", "swap", "refresh", "tasks", "clean", "upload", "recheck",
   "sleep", "sleeping", "stopping", "relaunch"}

Init ==
  /\ pc = "down" /\ pidFile = "none" /\ conf \in Confs
  /\ force = FALSE /\ term = FALSE /\ reload = FALSE
  /\ forced = FALSE /\ stale = TRUE /\ errors = 0 /\ due = 0 /\ since = 0
  /\ asked = FALSE /\ granted = FALSE /\ streak = 0 /\ work = 0 /\ worked = FALSE
  /\ exit = "none"

\* The process image is new: flags, counters and locals start again.
Fresh ==
  /\ force' = FALSE /\ term' = FALSE /\ reload' = FALSE
  /\ forced' = FALSE /\ stale' = TRUE /\ errors' = 0 /\ due' = 0 /\ since' = 0
  /\ asked' = FALSE /\ granted' = FALSE /\ streak' = 0 /\ work' = 0 /\ worked' = FALSE

-----------------------------------------------------------------------------
(* main() around the loop.                                                 *)

\* The service manager starts the process.
Start ==
  /\ pc = "down" /\ pc' = "starting"
  /\ pidFile' = "none"
  /\ Fresh
  /\ UNCHANGED <<conf, exit>>

Exit(why) ==
  /\ pc' = "down" /\ exit' = why
  /\ Fresh
  /\ UNCHANGED conf

LeavePidFile == pidFile' = IF pidFile = "mine" THEN "stale" ELSE pidFile

\* The configuration is read and memfaultd_loop registers its signal handlers.
RegisterHandlers ==
  /\ pc = "starting" /\ pc' = "setup"
  /\ conf' \in Confs
  /\ UNCHANGED <<pidFile, flagVars, roundVars, seenVars, exit>>

\* Mutant: the PID file is written again after a relaunch.
NeedDaemonizeAlways == TRUE

\* Only a process that is not the one in the PID file forks and writes the file.
NeedDaemonize == pidFile # "mine"

\* The components are set up, and the PID file is created: it must not exist.
SetupDone ==
  /\ pc = "setup"
  /\ IF NeedDaemonize /\ pidFile # "none"
       THEN Exit("already running") /\ LeavePidFile
       ELSE /\ pc' = "condition"
            /\ pidFile' = "mine"
            /\ UNCHANGED <<conf, flagVars, roundVars, seenVars, exit>>

\* An error before the loop is returned from main(); the PID file stays.  So it does
\* when the cleaner fails, whose result is unwrapped, or when the process is killed.
StartFails == pc \in {"starting", "setup"} /\ Exit("error") /\ LeavePidFile
Dies == pc \in Ready /\ Exit("killed") /\ LeavePidFile

\* The end of main(): exec() if asked to reload, and if that fails the same as an exit.
Stop ==
  /\ pc = "stopping"
  /\ \/ /\ reload /\ pc' = "relaunch"
        /\ UNCHANGED <<pidFile, conf, flagVars, roundVars, seenVars, exit>>
     \/ ~reload /\ Exit("asked") /\ pidFile' = "none"

Relaunch ==
  /\ pc = "relaunch"
  /\ \/ pc' = "starting" /\ Fresh /\ UNCHANGED <<pidFile, conf, exit>>
     \/ Exit("error") /\ pidFile' = "none"

-----------------------------------------------------------------------------
(* loop_with_exponential_error_backoff.                                    *)

\* Mutant: a request to sync is looked at before a request to stop.
ContinuationForceFirst ==
  IF force THEN "rerun" ELSE IF term \/ reload THEN "stop" ELSE "run"

\* The closure condition().
Continuation ==
  IF term \/ reload THEN "stop" ELSE IF force THEN "rerun" ELSE "run"

Condition ==
  /\ pc = "condition"
  /\ pc' = IF Continuation = "stop" THEN "stopping" ELSE "swap"
  /\ UNCHANGED <<pidFile, conf, flagVars, roundVars, seenVars, exit>>

\* Mutant: a load instead of a swap.
SwapKeeps ==
  /\ pc = "swap" /\ pc' = "refresh"
  /\ forced' = force
  /\ granted' = asked /\ asked' = (asked /\ ~force)
  /\ since' = 0
  /\ UNCHANGED <<pidFile, conf, flagVars, stale, errors, due, streak, work, worked, exit>>

\* "Reset the forced sync flag before doing any work"
Swap ==
  /\ pc = "swap" /\ pc' = "refresh"
  /\ forced' = force /\ force' = FALSE
  /\ granted' = asked /\ asked' = (asked /\ ~force)
  /\ since' = 0
  /\ UNCHANGED <<pidFile, conf, term, reload, stale, errors, due, streak, work, worked,
                 exit>>

\* A device config that cannot be fetched is fetched again in the next round.
RefreshDeviceConfig ==
  /\ pc = "refresh" /\ pc' = "tasks"
  /\ IF conf.enable /\ ((~conf.forcedOnly /\ stale) \/ forced)
       THEN stale' \in {stale, FALSE}
       ELSE UNCHANGED stale
  /\ UNCHANGED <<pidFile, conf, flagVars, forced, errors, due, since, seenVars, exit>>

\* The sync tasks flush or rotate the logs and, if forced, dump the metrics.  Their
\* errors are only logged.
SyncTasks ==
  /\ pc = "tasks" /\ pc' = "clean"
  /\ UNCHANGED <<pidFile, conf, flagVars, roundVars, seenVars, exit>>

UploadWanted == (conf.enable /\ ~conf.forcedOnly) \/ forced

\* Mutant: the error count is increased before it is used.
BackoffTooLong == Shorter(ErrorRetry * 2^(errors + 1), Period)

Backoff == Shorter(ErrorRetry * 2^errors, Period)

\* work() returns Ok or Err, after some time.
WorkDone(ok) ==
  /\ due' = IF ok THEN Period ELSE Backoff
  /\ errors' = IF ok THEN 0 ELSE errors + 1
  /\ streak' = IF ok THEN 0 ELSE streak + 1
  /\ since' \in 0..MaxWork /\ work' = since' /\ worked' = TRUE
  /\ pc' = "recheck"
  /\ UNCHANGED <<pidFile, conf, flagVars, forced, stale, asked, granted, exit>>

\* The cleaner succeeds (else see Dies); without an upload the round is over.
Clean ==
  /\ pc = "clean"
  /\ IF UploadWanted
       THEN /\ pc' = "upload"
            /\ UNCHANGED <<pidFile, conf, flagVars, roundVars, seenVars, exit>>
       ELSE WorkDone(TRUE)

Upload ==
  /\ pc = "upload"
  /\ \E ok \in BOOLEAN : (~ok => errors < MaxErrors) /\ WorkDone(ok)

\* Mutant: the flag is reset after the work.
RecheckResets ==
  /\ pc = "recheck" /\ force' = FALSE
  /\ pc' = IF Continuation = "run" /\ since <= due THEN "sleep" ELSE "condition"
  /\ UNCHANGED <<pidFile, conf, term, reload, roundVars, seenVars, exit>>

\* The second look at the flags.  A round that took longer than next_run_in is
\* followed by the next one at once.
Recheck ==
  /\ pc = "recheck"
  /\ pc' = IF Continuation = "run" /\ since <= due THEN "sleep" ELSE "condition"
  /\ UNCHANGED <<pidFile, conf, flagVars, roundVars, seenVars, exit>>

GoToSleep ==
  /\ pc = "sleep" /\ pc' = "sleeping"
  /\ UNCHANGED <<pidFile, conf, flagVars, roundVars, seenVars, exit>>

WakeUp ==
  /\ pc = "sleeping" /\ pc' = "condition"
  /\ since' = due
  /\ UNCHANGED <<pidFile, conf, flagVars, forced, stale, errors, due, seenVars, exit>>

\* CONFIG_REFRESH_INTERVAL has passed.
DeviceConfigAges ==
  /\ pc \in {"sleeping", "upload"} /\ ~stale /\ stale' = TRUE
  /\ UNCHANGED <<pc, pidFile, conf, flagVars, forced, errors, due, since, seenVars, exit>>

-----------------------------------------------------------------------------
(* Signals.                                                                *)

\* The handler sets a flag, and a sleep in progress returns.
Interrupt == pc' = IF pc = "sleeping" THEN "condition" ELSE pc

\* memfaultctl sync, which finds the process by its PID file.
SignalSync ==
  /\ pc \in Ready /\ pidFile = "mine"
  /\ force' = TRUE /\ asked' = TRUE /\ Interrupt
  /\ UNCHANGED <<pidFile, conf, term, reload, roundVars, granted, streak, work, worked,
                 exit>>

SignalTerm ==
  /\ pc \in Ready
  /\ term' = TRUE /\ Interrupt
  /\ UNCHANGED <<pidFile, conf, force, reload, roundVars, seenVars, exit>>

SignalReload ==
  /\ pc \in Ready
  /\ reload' = TRUE /\ Interrupt
  /\ UNCHANGED <<pidFile, conf, force, term, roundVars, seenVars, exit>>

\* Without a handler each of them kills the process.
SignalKills == pc = "starting" /\ Exit("killed") /\ LeavePidFile

-----------------------------------------------------------------------------
LoopStep ==
  \/ Condition \/ Swap \/ RefreshDeviceConfig \/ SyncTasks \/ Clean \/ Upload
  \/ Recheck \/ GoToSleep \/ WakeUp

ProcessStep == RegisterHandlers \/ SetupDone \/ Stop \/ Relaunch

Next ==
  \/ Start \/ ProcessStep \/ LoopStep \/ StartFails \/ Dies \/ DeviceConfigAges
  \/ SignalSync \/ SignalTerm \/ SignalReload \/ SignalKills

Spec == Init /\ [][Next]_vars

\* The process gets the CPU and its requests and sleeps end.  Nothing is assumed about
\* signals, failures or the service manager.
FairSpec == Spec /\ WF_vars(LoopStep) /\ WF_vars(ProcessStep)

-----------------------------------------------------------------------------
(* Properties.                                                             *)

\* Every variable of the main loop keeps its type.
TypeOK ==
  /\ pc \in Ready \cup {"down", "starting"}
  /\ pidFile \in {"none", "mine", "stale"} /\ conf \in Confs
  /\ force \in BOOLEAN /\ term \in BOOLEAN /\ reload \in BOOLEAN
  /\ forced \in BOOLEAN /\ stale \in BOOLEAN /\ errors \in 0..MaxErrors
  /\ due \in 0..Period /\ since \in Nat
  /\ asked \in BOOLEAN /\ granted \in BOOLEAN /\ streak \in Nat /\ work \in Nat
  /\ worked \in BOOLEAN
  /\ exit \in {"none", "asked", "error", "killed", "already running"}

\* With data collection disabled or upload_interval zero, nothing is uploaded except in
\* a round that a SIGUSR1 asked for, and every SIGUSR1 pays for one round only.
UploadsAreAllowed ==
  pc = "upload" => (conf.enable /\ ~conf.forcedOnly) \/ granted

\* A round that no SIGUSR1 asked for starts when it is due: an upload interval after
\* the last one, or after n failures in a row the retry time doubled n - 1 times and cut
\* at the upload interval, or at once if that time passed while working.
OnSchedule ==
  pc = "swap" /\ worked /\ ~force =>
    LET delay == IF streak = 0 THEN Period
                 ELSE Shorter(ErrorRetry * 2^(streak - 1), Period)
    IN  since = Longer(work, delay)

\* The process never stops because it takes its own PID file, which survives exec(),
\* for that of another daemon.
NeverBlockedByItself == exit # "already running"

\* A SIGUSR1 is followed by a forced round that starts after it, also if it arrives
\* during another round, unless the process stops or is relaunched first.
SyncIsServed == asked ~> ~asked

\* A SIGTERM ends the loop and the process image, even if requests to sync never end.
TermIsObeyed == term ~> ~term
=============================================================================
