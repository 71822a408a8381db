---------------------------- MODULE LogCollector ----------------------------
(***************************************************************************)
(* The log collector of memfaultd: log_collector.rs, log_file.rs,          *)
(* headroom.rs, recovery.rs and util/rate_limiter.rs.                      *)
(*                                                                         *)
(* The collector thread writes every log line it receives to the current   *)
(* log file, a compressed file in log_tmp_path named after its chain id    *)
(* (CID).  A log that is too large or too old is rotated: a new file is    *)
(* opened and the old one handed to on_log_completion, which makes a MAR   *)
(* entry of it that names its CID and the CID of the log that follows.     *)
(* The main loop rotates and flushes through the same mutex.  Lines are    *)
(* dropped while disk space is short, or when there are too many of them,  *)
(* and the logs say how many.  After a restart the files left in           *)
(* log_tmp_path are recovered, in the order of their mtimes.               *)
(*                                                                         *)
(* The daemon may crash between any two steps.                             *)
(***************************************************************************)
EXTENDS Naturals, Sequences, FiniteSets, SequencesExt, DiskSize

CONSTANTS
  MaxLines,     \* bound: log lines received
  MaxCids,      \* bound: chain ids generated
  MaxCrashes,   \* bound: crashes of the daemon
  MaxFailures,  \* bound: failing system calls
  MaxSize,      \* log_max_size, in lines
  MinHeadroom,  \* tmp_dir_min_headroom
  Spaces        \* what get_disk_space may answer

Line == 1..MaxLines
Cid == 1..MaxCids
NoCid == 0

ASSUME LogAssumption ==
  /\ MaxLines \in Nat /\ MaxCids \in Nat \ {0} /\ MaxCrashes \in Nat /\ MaxFailures \in Nat
  /\ MaxSize \in Nat \ {0}
  /\ MinHeadroom \in DiskSizes /\ Spaces \subseteq DiskSizes

VARIABLES
  \* log_tmp_path.
  tmp,       \* its files, as a sequence of CIDs ordered by mtime, newest last
  sized,     \* the files that are not empty
  disk,      \* the lines that have reached each file
  memory,    \* the lines still buffered in each file's encoder
  \* LogFileControlImpl.
  nextCid,   \* the next Uuid::new_v4()
  cur,       \* current_log, or NoCid
  written,   \* its bytes_written, in lines
  old,       \* whether it is older than max_duration
  closed,    \* the log being completed: [cid, next], or NoLog
  \* HeadroomLimiter and RateLimiter.
  shortage,  \* Headroom::Shortage
  dropped, hasRotated,  \* its num_dropped_logs and has_rotated
  limited,   \* limited_calls
  \* Control: what the owner of the mutex does, and what it does afterwards.
  pc, then,
  poisoned,  \* a thread panicked while it held the mutex
  \* recover_old_logs.
  bogus, leftover, reserved,
  \* What the outside world has seen.
  received,  \* lines received so far
  staged,    \* the logs made into MAR entries: [cid, next, lines]
  reported,  \* lines that messages in the logs say were dropped
  forgotten, \* dropped lines whose count did not survive a restart
  abandoned, \* CIDs that are known to have no log
  crashes, failures

fileVars  == <<tmp, sized, disk, memory>>
logVars   == <<nextCid, cur, written, old, closed>>
limitVars == <<shortage, dropped, hasRotated, limited>>
ctlVars   == <<pc, then, poisoned>>
recVars   == <<bogus, leftover, reserved>>
worldVars == <<received, staged, reported, forgotten, abandoned, crashes,
               failures>>
vars == <<fileVars, logVars, limitVars, ctlVars, recVars, worldVars>>

NoLog == [cid |-> NoCid, next |-> NoCid]

Init ==
  /\ tmp = <<>> /\ sized = {}
  /\ disk = [c \in Cid |-> {}] /\ memory = [c \in Cid |-> {}]
  /\ nextCid = 1 /\ cur = NoCid /\ written = 0 /\ old = FALSE /\ closed = NoLog
  /\ shortage = FALSE /\ dropped = 0 /\ hasRotated = FALSE /\ limited = 0
  /\ pc = "down" /\ then = "free" /\ poisoned = FALSE
  /\ bogus = <<>> /\ leftover = <<>> /\ reserved = NoCid
  /\ received = 0 /\ staged = {} /\ reported = 0 /\ forgotten = 0 /\ abandoned = {}
  /\ crashes = 0 /\ failures = 0

\* Optional events stop early enough to leave CIDs for the rotations, recoveries
\* and restarts they lead to.
Optional == nextCid + 5 <= MaxCids + 1

\* The mtime of file c is before that of file d.
Before(s, c, d) == \E i, j \in DOMAIN s : i < j /\ s[i] = c /\ s[j] = d

\* The files of S, which s lists once each, in the order of s.
InOrder(S, s) ==
  CHOOSE q \in [1..Cardinality(S) -> S] :
    \A i, j \in 1..Cardinality(S) : i < j => Before(s, q[i], q[j])

Without(s, c) == InOrder(ToSet(s) \ {c}, s)
Touch(s, c) == Append(Without(s, c), c)

Fails == failures < MaxFailures /\ failures' = failures + 1

-----------------------------------------------------------------------------
(* LogCollector::open: recovery of old logs, then a new current log.       *)

\* Mutant: the files are recovered from newest to oldest.
StartNewestFirst ==
  LET kept == Reverse(InOrder(ToSet(tmp) \cap sized, tmp))
      last == IF tmp # <<>> /\ Last(tmp) \notin sized THEN Last(tmp) ELSE nextCid
  IN  /\ pc = "down" /\ nextCid <= MaxCids
      /\ bogus' = InOrder(ToSet(tmp) \ sized, tmp)
      /\ leftover' = [i \in 1..Len(kept) |->
           [cid |-> kept[i], next |-> IF i = Len(kept) THEN last ELSE kept[i + 1]]]
      /\ reserved' = last
      /\ nextCid' = IF last = nextCid THEN nextCid + 1 ELSE nextCid
      /\ shortage' = FALSE /\ dropped' = 0 /\ hasRotated' = FALSE /\ limited' = 0
      /\ forgotten' = forgotten + dropped + limited
      /\ abandoned' = abandoned \cup (ToSet(tmp) \ (sized \cup {last}))
      /\ poisoned' = FALSE /\ pc' = "recovering"
      /\ UNCHANGED <<fileVars, cur, written, old, closed, then, received, staged,
                     reported, crashes, failures>>

\* get_recovery: empty files are deleted, the others recovered in the order of
\* their mtimes, each naming the next one as its successor.  If the newest file is
\* empty its CID is used again, since the log before it may already name it.
Start ==
  LET kept == InOrder(ToSet(tmp) \cap sized, tmp)
      last == IF tmp # <<>> /\ Last(tmp) \notin sized THEN Last(tmp) ELSE nextCid
  IN  /\ pc = "down" /\ nextCid <= MaxCids
      /\ bogus' = InOrder(ToSet(tmp) \ sized, tmp)
      /\ leftover' = [i \in 1..Len(kept) |->
           [cid |-> kept[i], next |-> IF i = Len(kept) THEN last ELSE kept[i + 1]]]
      /\ reserved' = last
      /\ nextCid' = IF last = nextCid THEN nextCid + 1 ELSE nextCid
      /\ shortage' = FALSE /\ dropped' = 0 /\ hasRotated' = FALSE /\ limited' = 0
      /\ forgotten' = forgotten + dropped + limited
      /\ abandoned' = abandoned \cup (ToSet(tmp) \ (sized \cup {last}))
      /\ poisoned' = FALSE /\ pc' = "recovering"
      /\ UNCHANGED <<fileVars, cur, written, old, closed, then, received, staged,
                     reported, crashes, failures>>

RemoveBogus ==
  /\ pc = "recovering" /\ bogus # <<>>
  /\ \/ tmp' = Without(tmp, Head(bogus)) /\ UNCHANGED failures
     \/ UNCHANGED tmp /\ Fails
  /\ bogus' = Tail(bogus)
  /\ UNCHANGED <<sized, disk, memory, logVars, limitVars, ctlVars, leftover, reserved,
                 received, staged, reported, forgotten, abandoned, crashes>>

RecoverNext ==
  /\ pc = "recovering" /\ bogus = <<>> /\ leftover # <<>>
  /\ closed' = Head(leftover) /\ leftover' = Tail(leftover)
  /\ pc' = "moving" /\ then' = "recovering"
  /\ UNCHANGED <<fileVars, nextCid, cur, written, old, limitVars, poisoned, bogus,
                 reserved, worldVars>>

\* LogFileControlImpl::open on the CID that recovery returned.
OpenCurrent ==
  /\ pc = "recovering" /\ bogus = <<>> /\ leftover = <<>>
  /\ cur' = reserved /\ reserved' = NoCid
  /\ tmp' = Touch(tmp, reserved)
  /\ written' = 0 /\ old' = FALSE /\ pc' = "free"
  /\ UNCHANGED <<sized, disk, memory, nextCid, closed, limitVars, then, poisoned, bogus,
                 leftover, worldVars>>

-----------------------------------------------------------------------------
(* Rotation.                                                               *)

\* Mutant: the age of the log is not looked at.
NeededBySizeOnly == written >= MaxSize

\* rotate_if_needed
Needed == written >= MaxSize \/ old

\* rotate_log: the new file is opened first, then the old log is completed.
OpenNext(after) ==
  /\ nextCid <= MaxCids
  /\ tmp' = Append(tmp, nextCid)
  /\ closed' = [cid |-> cur, next |-> nextCid]
  /\ cur' = nextCid /\ nextCid' = nextCid + 1
  /\ written' = 0 /\ old' = FALSE
  /\ pc' = "flushing" /\ then' = after
  /\ UNCHANGED <<sized, disk, memory, poisoned, recVars>>

\* dispatch_on_log_completion flushes the old log, which makes it newer than the file
\* just opened or, at the granularity of mtimes, as old.  A failed flush is ignored.
FlushClosed ==
  LET c == closed.cid IN
  /\ pc = "flushing" /\ pc' = "moving"
  /\ memory' = [memory EXCEPT ![c] = {}]
  /\ \/ /\ disk' = [disk EXCEPT ![c] = @ \cup memory[c]]
        /\ sized' = sized \cup {c}
        /\ tmp' \in {Touch(tmp, c)} \cup (IF cur = closed.next
                                        THEN {Touch(Touch(tmp, c), cur)} ELSE {})
        /\ UNCHANGED failures
     \/ Fails /\ UNCHANGED <<disk, sized, tmp>>
  /\ UNCHANGED <<logVars, limitVars, then, poisoned, recVars, received, staged,
                 reported, forgotten, abandoned, crashes>>

\* Mutant: the file is copied to the entry and not removed.
MoveCopies ==
  /\ pc = "moving" /\ pc' = "moved"
  /\ UNCHANGED <<fileVars, logVars, limitVars, then, poisoned, recVars, worldVars>>

\* on_log_completion moves the file into a MAR entry and then commits the entry.
Move ==
  /\ pc = "moving" /\ pc' = "moved"
  /\ tmp' = Without(tmp, closed.cid)
  /\ UNCHANGED <<sized, disk, memory, logVars, limitVars, then, poisoned, recVars,
                 worldVars>>

Commit ==
  /\ pc = "moved" /\ pc' = then
  /\ staged' = staged \cup
       {[cid |-> closed.cid, next |-> closed.next, lines |-> disk[closed.cid]]}
  /\ closed' = NoLog
  /\ UNCHANGED <<fileVars, nextCid, cur, written, old, limitVars, then, poisoned, recVars,
                 received, reported, forgotten, abandoned, crashes, failures>>

\* on_log_completion fails.  dispatch_on_log_completion then removes the file, if it
\* can; recover_old_logs leaves it for the next restart.
CompletionFails ==
  LET c == closed.cid IN
  /\ pc \in {"moving", "moved"} /\ pc' = then /\ Fails
  /\ tmp' \in IF then = "recovering" THEN {tmp} ELSE {tmp, Without(tmp, c)}
  /\ abandoned' = IF c \in ToSet(tmp') THEN abandoned ELSE abandoned \cup {c}
  /\ closed' = NoLog
  /\ UNCHANGED <<sized, disk, memory, nextCid, cur, written, old, limitVars, then,
                 poisoned, recVars, received, staged, reported, forgotten,
                 crashes>>

-----------------------------------------------------------------------------
(* process_log_record, with the mutex held.                                *)

Receive ==
  /\ pc = "free" /\ cur # NoCid /\ ~poisoned /\ received < MaxLines /\ Optional
  /\ received' = received + 1 /\ pc' = "check"
  /\ UNCHANGED <<fileVars, logVars, limitVars, then, poisoned, recVars, staged,
                 reported, forgotten, abandoned, crashes, failures>>

\* HeadroomLimiter::check.
HeadroomStaysOk(space) ==
  /\ Exceeds(space, MinHeadroom) /\ ~shortage
  /\ pc' = "before"
  /\ UNCHANGED <<fileVars, written, limitVars, poisoned, reported>>

HeadroomRecovers(space) ==
  /\ Exceeds(space, MinHeadroom) /\ shortage
  /\ written' = written + 1 /\ reported' = reported + dropped
  /\ shortage' = FALSE /\ dropped' = 0 /\ hasRotated' = FALSE
  /\ pc' = "before"
  /\ UNCHANGED <<fileVars, limited, poisoned>>

\* The warning names the dimension that is short.  There is none when the available
\* space equals the minimum, and the match panics with the mutex held.
HeadroomEnters(space) ==
  /\ ~Exceeds(space, MinHeadroom) /\ ~shortage
  /\ IF AtLeast(space, MinHeadroom)
       THEN /\ poisoned' = TRUE /\ pc' = "free"
            /\ UNCHANGED <<fileVars, written, limitVars>>
       ELSE /\ written' = written + 1
            /\ disk' = [disk EXCEPT ![cur] = @ \cup memory[cur]]
            /\ memory' = [memory EXCEPT ![cur] = {}]
            /\ sized' = sized \cup {cur} /\ tmp' = Touch(tmp, cur)
            /\ shortage' = TRUE /\ dropped' = 1 /\ hasRotated' = FALSE
            /\ pc' = "short"
            /\ UNCHANGED <<limited, poisoned>>
  /\ UNCHANGED <<reported>>

\* Mutant: only the first line of a shortage is counted.
HeadroomCountsOnce(space) ==
  /\ ~Exceeds(space, MinHeadroom) /\ shortage
  /\ pc' = "short"
  /\ UNCHANGED <<fileVars, written, limitVars, poisoned, reported>>

HeadroomStaysShort(space) ==
  /\ ~Exceeds(space, MinHeadroom) /\ shortage
  /\ dropped' = dropped + 1 /\ pc' = "short"
  /\ UNCHANGED <<fileVars, written, shortage, hasRotated, limited, poisoned, reported>>

CheckHeadroom ==
  /\ pc = "check"
  /\ \E space \in Spaces :
       \/ HeadroomStaysOk(space) \/ HeadroomRecovers(space)
       \/ HeadroomEnters(space) \/ HeadroomStaysShort(space)
  /\ UNCHANGED <<nextCid, cur, old, closed, then, recVars, received, staged, forgotten,
                 abandoned, crashes, failures>>

\* During a shortage the log is rotated once, as soon as it is large or old enough.
RotateInShortage ==
  /\ pc = "short"
  /\ IF ~hasRotated /\ Needed
       THEN OpenNext("free") /\ hasRotated' = TRUE
       ELSE /\ pc' = "free"
            /\ UNCHANGED <<fileVars, logVars, hasRotated, then, poisoned, recVars>>
  /\ UNCHANGED <<shortage, dropped, limited, received, staged, reported, forgotten,
                 abandoned, crashes, failures>>

RotateIfNeeded(after) ==
  /\ IF Needed THEN OpenNext(after)
               ELSE pc' = after /\ UNCHANGED <<fileVars, logVars, then, poisoned, recVars>>
  /\ UNCHANGED <<limitVars, worldVars>>

RotateBefore == pc = "before" /\ RotateIfNeeded("write")

RotateAfter == pc = "after" /\ RotateIfNeeded("free")

\* The rate limiter lets the line through, with a message about the ones it did not,
\* or counts it.  The encoder keeps the line or, when its buffer is full, writes
\* it to the file with all the ones before.
WriteLine ==
  /\ pc = "write" /\ pc' = "after"
  /\ \/ /\ limited' = limited + 1
        /\ UNCHANGED <<fileVars, written, reported>>
     \/ /\ limited' = 0 /\ reported' = reported + limited
        /\ written' = written + (IF limited > 0 THEN 2 ELSE 1)
        /\ \/ /\ memory' = [memory EXCEPT ![cur] = @ \cup {received}]
              /\ UNCHANGED <<tmp, sized, disk>>
           \/ /\ disk' = [disk EXCEPT ![cur] = @ \cup memory[cur] \cup {received}]
              /\ memory' = [memory EXCEPT ![cur] = {}]
              /\ sized' = sized \cup {cur} /\ tmp' = Touch(tmp, cur)
  /\ UNCHANGED <<nextCid, cur, old, closed, shortage, dropped, hasRotated, then, poisoned,
                 recVars, received, staged, forgotten, abandoned, crashes,
                 failures>>

\* statvfs, opening a file or writing fails: process_log_record returns the error
\* and the line is gone, with the count of rate-limited lines if that was taken.
RecordFails ==
  /\ pc \in {"check", "before", "write", "after"} /\ pc' = "free" /\ Fails
  /\ limited' = IF pc = "write" THEN 0 ELSE limited
  /\ UNCHANGED <<fileVars, logVars, shortage, dropped, hasRotated, then, poisoned, recVars,
                 received, staged, reported, forgotten, abandoned, crashes>>

\* The same during a shortage: has_rotated stays false, nothing is returned.
ShortageRotationFails ==
  /\ pc = "short" /\ ~hasRotated /\ Needed /\ pc' = "free" /\ Fails
  /\ UNCHANGED <<fileVars, logVars, limitVars, then, poisoned, recVars, received, staged,
                 reported, forgotten, abandoned, crashes>>

-----------------------------------------------------------------------------
(* The main loop, and the passing of time.                                 *)

MainRotate == pc = "free" /\ ~poisoned /\ RotateIfNeeded("free")

\* flush_logs
MainFlush ==
  /\ pc = "free" /\ ~poisoned /\ written > 0
  /\ OpenNext("free")
  /\ UNCHANGED <<limitVars, worldVars>>

Tick ==
  /\ cur # NoCid /\ ~old /\ (written = 0 => Optional)
  /\ old' = TRUE
  /\ UNCHANGED <<fileVars, nextCid, cur, written, closed, limitVars, ctlVars, recVars,
                 worldVars>>

\* close_internal: a log with data is completed with a successor that no log will
\* ever have; dropping an empty one still writes a header to its file.
Shutdown ==
  /\ pc = "free" /\ ~poisoned /\ Optional
  /\ cur' = NoCid /\ written' = 0 /\ old' = FALSE
  /\ IF written > 0
       THEN /\ closed' = [cid |-> cur, next |-> nextCid] /\ nextCid' = nextCid + 1
            /\ abandoned' = abandoned \cup {nextCid}
            /\ pc' = "flushing" /\ then' = "down"
            /\ UNCHANGED <<tmp, sized>>
       ELSE /\ sized' = sized \cup {cur} /\ tmp' = Touch(tmp, cur)
            /\ pc' = "down"
            /\ UNCHANGED <<closed, nextCid, abandoned, then>>
  /\ UNCHANGED <<disk, memory, limitVars, poisoned, recVars, received, staged,
                 reported, forgotten, crashes, failures>>

\* The process is gone: what was buffered is lost, and so are the CIDs of a log moved
\* to an entry that was not committed and of a successor without a file.
Die ==
  /\ memory' = [c \in Cid |-> {}]
  /\ cur' = NoCid /\ written' = 0 /\ old' = FALSE /\ closed' = NoLog
  /\ bogus' = <<>> /\ leftover' = <<>> /\ reserved' = NoCid
  /\ abandoned' = abandoned \cup (IF pc = "moved" THEN {closed.cid} ELSE {})
                    \cup ({reserved} \ (ToSet(tmp) \cup {NoCid}))
  /\ pc' = "down" /\ crashes' = crashes + 1
  /\ UNCHANGED <<tmp, sized, disk, nextCid, limitVars, then, poisoned, received, staged,
                 reported, forgotten, failures>>

Crash == pc # "down" /\ crashes < MaxCrashes /\ Optional /\ Die

\* with_mut_inner finds the mutex poisoned and panics in the main thread.
PoisonedExit == pc = "free" /\ poisoned /\ Die

-----------------------------------------------------------------------------
StartStep == Start \/ RemoveBogus \/ RecoverNext \/ OpenCurrent
CompletionStep == FlushClosed \/ Move \/ Commit \/ CompletionFails
RecordStep ==
  \/ CheckHeadroom \/ RotateInShortage \/ RotateBefore \/ WriteLine \/ RotateAfter
  \/ RecordFails \/ ShortageRotationFails
MainStep == MainRotate \/ MainFlush \/ PoisonedExit

Next ==
  \/ StartStep \/ CompletionStep \/ Receive \/ RecordStep \/ MainStep
  \/ Tick \/ Shutdown \/ Crash

Spec == Init /\ [][Next]_vars

\* The daemon is restarted when it is down, its threads run, and time passes.  The main
\* loop keeps rotating old logs, but nobody has to ask for a flush.
Fairness ==
  /\ WF_vars(StartStep) /\ WF_vars(CompletionStep) /\ WF_vars(RecordStep)
  /\ WF_vars(MainRotate) /\ WF_vars(PoisonedExit) /\ WF_vars(Tick)

FairSpec == Spec /\ Fairness

-----------------------------------------------------------------------------
(* Properties.                                                             *)

Files == ToSet(tmp)
LinesIn(c) == disk[c] \cup memory[c]
Kept == UNION {LinesIn(c) : c \in Files}
Staged == UNION {r.lines : r \in staged}

Log == [cid : Cid \cup {NoCid}, next : Cid \cup {NoCid}]

\* Every variable of the log collector keeps its type.
TypeOK ==
  /\ tmp \in Seq(Cid) /\ sized \subseteq Cid
  /\ disk \in [Cid -> SUBSET Line] /\ memory \in [Cid -> SUBSET Line]
  /\ nextCid \in 1..(MaxCids + 1) /\ cur \in Cid \cup {NoCid}
  /\ written \in Nat /\ old \in BOOLEAN /\ closed \in Log
  /\ shortage \in BOOLEAN /\ dropped \in Nat /\ hasRotated \in BOOLEAN
  /\ limited \in Nat
  /\ pc \in {"down", "recovering", "free", "check", "short", "before", "write", "after",
             "flushing", "moving", "moved"}
  /\ then \in {"down", "recovering", "free", "write"} /\ poisoned \in BOOLEAN
  /\ bogus \in Seq(Cid) /\ leftover \in Seq(Log) /\ reserved \in Cid \cup {NoCid}
  /\ received \in 0..MaxLines /\ reported \in Nat /\ forgotten \in Nat
  /\ abandoned \subseteq Cid
  /\ staged \subseteq [cid : Cid, next : Cid, lines : SUBSET Line]
  /\ crashes \in Nat /\ failures \in 0..MaxFailures

\* The successor that a staged log names exists: it is staged, being completed,
\* being written, waiting for recovery, or its CID is kept for the next file.  The
\* only exceptions are logs lost by a failed completion, by a crash in the middle of
\* a rotation or of a recovery, and the successor of the last log before a clean
\* shutdown.  That an empty newest file leaves its CID to the next log is what
\* get_recovery does it for.
SuccessorExists ==
  \A r \in staged :
    r.next \in Files \cup {q.cid : q \in staged} \cup {closed.cid, reserved} \cup abandoned

\* Following the chain of CIDs gives the lines in the order they were logged, also
\* across crashes, where recovery only has the mtimes of the files to go by.
ChainIsOrdered ==
  \A r, q \in staged :
    r.next = q.cid => \A x \in r.lines : \A y \in q.lines : x < y

\* No CID and no line is staged twice, and nothing that is staged is still in
\* log_tmp_path, where it would be recovered again after a crash.
NothingTwice ==
  /\ \A r, q \in staged : r # q => r.cid # q.cid /\ r.lines \cap q.lines = {}
  /\ \A c, d \in Files : c # d => LinesIn(c) \cap LinesIn(d) = {}
  /\ \A r \in staged : r.cid \notin Files /\ r.lines \cap Kept = {}

\* Unless the daemon crashed or a system call failed, every line that is neither
\* staged nor in a file is counted, in a message of the log or in one to come (the
\* counts of a message to come do not survive a restart).
DropsAreCounted ==
  pc = "free" /\ ~poisoned /\ crashes = 0 /\ failures = 0
    => received =
         Cardinality(Staged \cup Kept) + reported + dropped + limited + forgotten

\* "unreachable!()" in HeadroomLimiter::check: the warning always has a reason.
HeadroomNeverPanics == ~poisoned

\* A line that is in a file does not stay in log_tmp_path: it is staged, or lost to a
\* crash, unless a completion failed.
EventuallyStaged ==
  \A l \in Line : (l \in Kept) ~> (l \notin Kept \/ failures > 0)

\* The chain of logs can be followed: every log has its successor, in the order of the lines.
ChainIsSound == SuccessorExists /\ ChainIsOrdered
=============================================================================
