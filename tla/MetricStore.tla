---------------------------- MODULE MetricStore -----------------------------
(***************************************************************************)
(* MetricReportManager (metric_report_manager.rs): the heartbeat report,   *)
(* which captures every metric, and one report per ongoing session, which  *)
(* captures the metrics its configuration names.  All of it is behind one  *)
(* mutex: what is done under the lock is one step.                         *)
(*                                                                         *)
(* Three threads turn reports into MAR entries: the heartbeat timer, the   *)
(* main loop (forced syncs, shutdown) and the HTTP server (end of a        *)
(* session).  Each takes the report out of the store under the lock, and   *)
(* writes it to disk after it has released it.                             *)
(*                                                                         *)
(* The actions leave the variables of other modules alone.                 *)
(***************************************************************************)
EXTENDS MetricReport

CONSTANTS
  CounterKeys,   \* metrics of which there are only counter readings
  GaugeKeys,     \* the others
  SessionNames,  \* names that pass SessionName::from_str
  Captured       \* session_configs: the metrics of each configured session

Keys == CounterKeys \cup GaugeKeys
Dumpers == {"timer", "main", "http"}

ASSUME StoreAssumption ==
  /\ CounterKeys \cap GaugeKeys = {}
  /\ DOMAIN Captured \subseteq SessionNames
  /\ \A s \in DOMAIN Captured : Captured[s] \subseteq Keys

VARIABLES
  heartbeat,  \* the heartbeat report
  sessions,   \* the reports of the ongoing sessions
  dump,       \* per thread, the report it has taken and not yet saved
  \* What an observer has seen, in totals per counter.
  added,      \* value of the readings the store accepted
  saved,      \* value in the heartbeats that are on disk
  lost,       \* value in the heartbeats that could not be written
  base        \* what added was when each session started

storeVars == <<heartbeat, sessions, dump, added, saved, lost, base>>

Zero == [k \in CounterKeys |-> 0]
NoDump == [type |-> "none", values |-> Empty]

StoreInit ==
  /\ heartbeat = NewReport(Keys)
  /\ sessions = [s \in {} |-> NewReport({})]
  /\ dump = [d \in Dumpers |-> NoDump]
  /\ added = Zero /\ saved = Zero /\ lost = Zero
  /\ base = [s \in SessionNames |-> Zero]

-----------------------------------------------------------------------------
(* Readings.                                                               *)

\* The totals after readings were added, given as a function of their keys.
Added(ms) ==
  [k \in CounterKeys |-> IF k \in DOMAIN ms THEN added[k] + ms[k].value ELSE added[k]]

\* Readings added under one lock: to the heartbeat, then to every session.  A reading
\* the heartbeat refuses, the sessions would refuse too.
Put(ms) ==
  /\ heartbeat' = AddMetrics(heartbeat, ms)
  /\ sessions' = [s \in DOMAIN sessions |-> AddMetrics(sessions[s], ms)]
  /\ added' = Added(ms)
  /\ UNCHANGED <<dump, saved, lost, base>>

-----------------------------------------------------------------------------
(* Sessions.                                                               *)

\* start_session: an ongoing session of that name is dropped.  Fails if there is no
\* configuration for it.
StartSession(s) ==
  /\ s \in DOMAIN Captured
  /\ sessions' = [t \in DOMAIN sessions \cup {s} |->
       IF t = s THEN NewReport(Captured[s]) ELSE sessions[t]]
  /\ base' = [base EXCEPT ![s] = added]
  /\ UNCHANGED <<heartbeat, dump, added, saved, lost>>

\* The part of a report that heartbeats account for.
Amount(d, k) ==
  IF d.type = "heartbeat" /\ k \in DOMAIN d.values THEN d.values[k].num ELSE 0
Plus(f, d) == [k \in CounterKeys |-> f[k] + Amount(d, k)]

\* prepare_metric_report: no entry is made of an empty report.  The entry's directory
\* is made while the lock is held, and when that fails the report is gone.
Prepare(d, rep, type, fails) ==
  LET taken == [type |-> type, values |-> Snapshot(rep)]
  IN  IF taken.values = Empty \/ fails
      THEN lost' = Plus(lost, taken) /\ UNCHANGED dump
      ELSE dump' = [dump EXCEPT ![d] = taken] /\ UNCHANGED lost

\* Mutant: the values are copied and the store is left as it is.
TakeHeartbeatCopies(d, fails) ==
  /\ dump[d] = NoDump
  /\ Prepare(d, heartbeat, "heartbeat", fails)
  /\ UNCHANGED <<heartbeat, sessions, added, saved, base>>

\* dump_report_to_mar_entry, under the lock: of the heartbeat, which is reset ...
TakeHeartbeat(d, fails) ==
  /\ dump[d] = NoDump
  /\ Prepare(d, heartbeat, "heartbeat", fails)
  /\ heartbeat' = Reset(heartbeat)
  /\ UNCHANGED <<sessions, added, saved, base>>

\* ... and of a session, which ends.  An error if it is not ongoing.
EndSession(s, fails) ==
  /\ dump["http"] = NoDump
  /\ s \in DOMAIN sessions
  /\ Prepare("http", sessions[s], "session", fails)
  /\ sessions' = [t \in DOMAIN sessions \ {s} |-> sessions[t]]
  /\ UNCHANGED <<heartbeat, added, saved, base>>

\* The rest of it, after the lock is released: the entry is saved, or is not.
SaveReport(d, fails) ==
  /\ dump[d] # NoDump
  /\ dump' = [dump EXCEPT ![d] = NoDump]
  /\ IF fails THEN lost' = Plus(lost, dump[d]) /\ UNCHANGED saved
              ELSE saved' = Plus(saved, dump[d]) /\ UNCHANGED lost
  /\ UNCHANGED <<heartbeat, sessions, added, base>>

-----------------------------------------------------------------------------
(* Properties of the store.                                                *)

\* The value of a counter in a report of the store.
InReport(rep, k) == IF k \in DOMAIN rep.metrics THEN rep.metrics[k].sum ELSE 0

\* The value of a counter that threads have taken and not yet saved.
InFlight(k) == Amount(dump["timer"], k) + Amount(dump["main"], k) + Amount(dump["http"], k)

\* Every unit a counter was ever increased by is in exactly one place: the store, one
\* report that is being written, a heartbeat on disk, or one that could not be written.
\* Three threads empty the store at times of their own (metric_report_manager.rs:133).
EachUnitIsInOneReport ==
  \A k \in CounterKeys :
    added[k] = InReport(heartbeat, k) + InFlight(k) + saved[k] + lost[k]

\* A session's report has all that was added to its counters since the session
\* started, and nothing from before, however often heartbeats are taken meanwhile.
SessionsAreExact ==
  \A s \in DOMAIN sessions : \A k \in CounterKeys \cap Captured[s] :
    InReport(sessions[s], k) = added[k] - base[s][k]

\* Heartbeats and sessions count the same readings, each of them exactly.
CountsAreExact == EachUnitIsInOneReport /\ SessionsAreExact
=============================================================================
