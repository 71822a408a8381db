--------------------------- MODULE MainLoopProofs ---------------------------
(***************************************************************************)
(* Proofs about MainLoop, for any period, retry time and number of errors. *)
(*                                                                         *)
(* LoopInv relates what the code knows to what an observer has seen: the   *)
(* flag to the signals that arrived, the error count to the failures, the  *)
(* time to the schedule.  The times are compared and never computed with,  *)
(* so that no fact about powers of two is needed.                          *)
(***************************************************************************)
EXTENDS MainLoop, TLAPS

\* The flag is set as long as a SIGUSR1 waits for its round, and a round is forced if
\* and only if one was waiting.
FlagIsHonest ==
  /\ force \in BOOLEAN /\ asked = force
  /\ pc \in {"refresh", "tasks", "clean", "upload"} => granted = forced
  /\ pc = "upload" => UploadWanted

\* What the loop waits for after the last round.
Delay == IF streak = 0 THEN Period ELSE Shorter(ErrorRetry * 2^(streak - 1), Period)

\* The first round starts at once, and a later one early only with the flag set.
Timing ==
  /\ errors \in Nat /\ streak = errors
  /\ worked => due = Delay
  /\ pc \in {"starting", "setup"} => worked = FALSE
  /\ pc \in {"recheck", "sleep", "sleeping"} => worked /\ since = work
  /\ pc \in {"sleep", "sleeping"} => since <= due
  /\ pc = "condition" /\ worked /\ ~(force \/ term \/ reload)
       => since = Longer(work, due)
  /\ pc = "swap" /\ worked /\ ~force => since = Longer(work, due)

\* A PID file of a process that is gone is only there while nothing runs.
PidFile ==
  /\ pidFile \in {"none", "mine", "stale"}
  /\ pidFile = "stale" => pc = "down"
  /\ exit # "already running"

LoopInv == FlagIsHonest /\ Timing /\ PidFile

USE DEF flagVars, roundVars, seenVars

-----------------------------------------------------------------------------
\* The loop starts with nothing forced.
LEMMA InitLoop == Init => LoopInv
<1> SUFFICES ASSUME Init PROVE LoopInv
  OBVIOUS
<1>1. FlagIsHonest
  BY DEF Init, FlagIsHonest
<1>2. Timing
  BY DEF Init, Timing
<1>3. PidFile
  BY DEF Init, PidFile
<1> QED BY <1>1, <1>2, <1>3 DEF LoopInv

\* A process that ends or starts anew has nothing to remember.
LEMMA FreshStart ==
  ASSUME Fresh, pc' \in {"down", "starting"}
  PROVE  FlagIsHonest' /\ Timing'
  BY DEF Fresh, FlagIsHonest, Timing

\* Starting, stopping and relaunching.
LEMMA ProcessKeeps ==
  ASSUME LoopInv, Start \/ ProcessStep \/ StartFails \/ Dies \/ SignalKills
  PROVE  LoopInv'
<1> USE DEF LoopInv
<1>1. CASE Start
  <2>1. FlagIsHonest' /\ Timing'
    BY <1>1, FreshStart DEF Start
  <2>2. PidFile'
    BY <1>1 DEF Start, PidFile
  <2> QED BY <2>1, <2>2
<1>2. CASE RegisterHandlers
  BY <1>2 DEF RegisterHandlers, FlagIsHonest, Timing, PidFile, Delay
<1>3. CASE SetupDone
  <2>1. ~(NeedDaemonize /\ pidFile # "none")
    BY <1>3 DEF SetupDone, NeedDaemonize, PidFile
  <2>2. FlagIsHonest'
    BY <1>3, <2>1 DEF SetupDone, FlagIsHonest
  <2>3. Timing'
    BY <1>3, <2>1 DEF SetupDone, Timing, Delay
  <2>4. PidFile'
    BY <1>3, <2>1 DEF SetupDone, PidFile
  <2> QED BY <2>2, <2>3, <2>4
<1>4. CASE Stop
  <2>1. CASE reload
    <3>1. FlagIsHonest'
      BY <1>4, <2>1 DEF Stop, FlagIsHonest
    <3>2. Timing'
      BY <1>4, <2>1 DEF Stop, Timing, Delay
    <3>3. PidFile'
      BY <1>4, <2>1 DEF Stop, PidFile
    <3> QED BY <3>1, <3>2, <3>3
  <2>2. CASE ~reload
    <3>1. FlagIsHonest' /\ Timing'
      BY <1>4, <2>2, FreshStart DEF Stop, Exit
    <3>2. PidFile'
      BY <1>4, <2>2 DEF Stop, Exit, PidFile
    <3> QED BY <3>1, <3>2
  <2> QED BY <2>1, <2>2
<1>5. CASE Relaunch
  <2>1. FlagIsHonest' /\ Timing'
    BY <1>5, FreshStart DEF Relaunch, Exit
  <2>2. PidFile'
    BY <1>5 DEF Relaunch, Exit, PidFile
  <2> QED BY <2>1, <2>2
<1>6. CASE StartFails \/ Dies \/ SignalKills
  <2>1. FlagIsHonest' /\ Timing'
    BY <1>6, FreshStart DEF StartFails, Dies, SignalKills, Exit
  <2>2. PidFile'
    BY <1>6 DEF StartFails, Dies, SignalKills, Exit, LeavePidFile, PidFile
  <2> QED BY <2>1, <2>2
<1> QED BY <1>1, <1>2, <1>3, <1>4, <1>5, <1>6 DEF ProcessStep

\* The end of a round sets the time of the next one.
LEMMA WorkDoneKeeps ==
  ASSUME LoopInv, pc # "down", NEW ok \in BOOLEAN, WorkDone(ok)
  PROVE  LoopInv'
<1> USE DEF LoopInv, WorkDone
<1>1. FlagIsHonest'
  BY DEF FlagIsHonest
<1>2. PidFile'
  BY DEF PidFile
<1>3. errors' \in Nat /\ streak' = errors'
  BY DEF Timing
<1>4. due' = Delay'
  <2>1. CASE ok
    BY <2>1, <1>3 DEF Delay
  <2>2. CASE ~ok
    <3>1. streak' # 0 /\ streak' - 1 = errors
      BY <2>2 DEF Timing
    <3> QED BY <2>2, <3>1 DEF Delay, Backoff
  <2> QED BY <2>1, <2>2
<1>5. Timing'
  BY <1>3, <1>4 DEF Timing
<1> QED BY <1>1, <1>2, <1>5

\* The steps of the loop.
LEMMA LoopKeeps ==
  ASSUME LoopInv, LoopStep \/ DeviceConfigAges
  PROVE  LoopInv'
<1> USE DEF LoopInv
<1>1. CASE Condition
  BY <1>1 DEF Condition, Continuation, FlagIsHonest, Timing, PidFile, Delay
<1>2. CASE Swap
  BY <1>2 DEF Swap, FlagIsHonest, Timing, PidFile, Delay
<1>3. CASE RefreshDeviceConfig
  BY <1>3 DEF RefreshDeviceConfig, FlagIsHonest, Timing, PidFile, Delay
<1>4. CASE SyncTasks
  BY <1>4 DEF SyncTasks, FlagIsHonest, Timing, PidFile, Delay
<1>5. CASE Clean
  <2>1. CASE UploadWanted
    BY <1>5, <2>1 DEF Clean, FlagIsHonest, Timing, PidFile, Delay, UploadWanted
  <2>2. CASE ~UploadWanted
    BY <1>5, <2>2, WorkDoneKeeps DEF Clean
  <2> QED BY <2>1, <2>2
<1>6. CASE Upload
  BY <1>6, WorkDoneKeeps DEF Upload
<1>7. CASE Recheck
  BY <1>7 DEF Recheck, Continuation, FlagIsHonest, Timing, PidFile, Delay, Longer
<1>8. CASE GoToSleep
  BY <1>8 DEF GoToSleep, FlagIsHonest, Timing, PidFile, Delay
<1>9. CASE WakeUp
  BY <1>9 DEF WakeUp, FlagIsHonest, Timing, PidFile, Delay, Longer
<1>10. CASE DeviceConfigAges
  BY <1>10 DEF DeviceConfigAges, FlagIsHonest, Timing, PidFile, Delay, UploadWanted
<1> QED BY <1>1, <1>2, <1>3, <1>4, <1>5, <1>6, <1>7, <1>8, <1>9, <1>10 DEF LoopStep

\* Signals set flags, and wake the loop up only with a flag set.
LEMMA SignalsKeep ==
  ASSUME LoopInv, SignalSync \/ SignalTerm \/ SignalReload
  PROVE  LoopInv'
<1> USE DEF LoopInv, FlagIsHonest, Timing, PidFile, Delay, UploadWanted, Interrupt, Ready
<1>1. CASE SignalSync
  BY <1>1 DEF SignalSync
<1>2. CASE SignalTerm
  BY <1>2 DEF SignalTerm
<1>3. CASE SignalReload
  BY <1>3 DEF SignalReload
<1> QED BY <1>1, <1>2, <1>3

\* LoopInv is an inductive invariant of the main loop.
THEOREM LoopInvariance == Spec => []LoopInv
<1>1. LoopInv /\ [Next]_vars => LoopInv'
  <2> SUFFICES ASSUME LoopInv, [Next]_vars PROVE LoopInv'
    OBVIOUS
  <2>1. CASE UNCHANGED vars
    BY <2>1 DEF vars, LoopInv, FlagIsHonest, Timing, PidFile, Delay, UploadWanted
  <2> QED BY <2>1, ProcessKeeps, LoopKeeps, SignalsKeep DEF Next
<1> QED BY <1>1, InitLoop, PTL DEF Spec

\* With data collection disabled or in forced-only mode, uploads happen only in rounds
\* that a SIGUSR1 asked for.
THEOREM UploadsNeedPermission == Spec => []UploadsAreAllowed
<1>1. LoopInv => UploadsAreAllowed
  BY DEF LoopInv, FlagIsHonest, UploadWanted, UploadsAreAllowed
<1> QED BY <1>1, LoopInvariance, PTL

\* A round that nobody asked for starts exactly when it is due, whatever signals
\* arrived and however often rounds failed before.
THEOREM RoundsAreOnSchedule == Spec => []OnSchedule
<1>1. LoopInv => OnSchedule
  BY DEF LoopInv, Timing, Delay, OnSchedule
<1> QED BY <1>1, LoopInvariance, PTL

\* A relaunched daemon is never stopped by its own PID file.
THEOREM NotBlockedByItself == Spec => []NeverBlockedByItself
<1>1. LoopInv => NeverBlockedByItself
  BY DEF LoopInv, PidFile, NeverBlockedByItself
<1> QED BY <1>1, LoopInvariance, PTL
=============================================================================
