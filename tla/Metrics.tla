------------------------------ MODULE Metrics -------------------------------
(***************************************************************************)
(* Where the readings of the metric store come from: the crash-free hours  *)
(* tracker, the battery and connectivity monitors, collectd, sync events,  *)
(* the main loop's own uploads, and log lines counted by log-to-metrics,   *)
(* which arrive over TCP connections from fluent-bit.                      *)
(*                                                                         *)
(* Threads: the heartbeat timer, the main loop, the tracker, the battery   *)
(* timer, the connectivity timer, one HTTP server thread that handles one  *)
(* request after the other, one thread per fluent-bit connection, and the  *)
(* log collector.  A timer thread may be arbitrarily late, so its steps    *)
(* are enabled at any time.  now is the monotonic clock, in ticks, of      *)
(* which Milli are a millisecond; the wall clock differs from it by skew,  *)
(* and may be set back.                                                    *)
(*                                                                         *)
(* The inputs of a behaviour are bounded by a budget chosen at the start,  *)
(* which also says whether data collection is enabled, and whether the     *)
(* tracker's thread gets to run.                                           *)
(***************************************************************************)
EXTENDS MetricStore, Sequences, FiniteSets, SequencesExt

CONSTANTS
  Interval,        \* interval of the CrashFreeIntervalTracker, in ticks
  Levels,          \* battery percentages
  Payloads,        \* what collectd may post
  Streams,         \* per fluent-bit connection, the messages it sends
  MaxConnections,  \* fluent_bit.max_connections
  MaxBuffered,     \* fluent_bit.max_buffered_lines
  Budgets          \* bound: how many inputs of each kind a behaviour may have

Conns == DOMAIN Streams
Messages == {"match", "plain", "metric", "bad", "invalid rule"}

\* The counters that memfaultd reports itself; log_matches is the one of the rules.
OwnCounters ==
  {"operational_hours", "operational_crashfree_hours", "operational_crashes",
   "battery_discharge_duration_ms", "battery_soc_pct_drop",
   "connectivity_connected_time_ms", "connectivity_expected_time_ms",
   "sync_successful", "sync_failure", "sync_memfault_successful", "sync_memfault_failure",
   "log_matches"}

\* collectd posts metrics of its own, and posts a counter as the count of statsd.
ASSUME MetricsAssumption ==
  /\ Interval \in Nat \ {0} /\ Levels \subseteq Nat /\ Levels # {}
  /\ MaxConnections \in Nat \ {0} /\ MaxBuffered \in Nat \ {0}
  /\ OwnCounters \subseteq CounterKeys /\ SocKey \in GaugeKeys
  /\ \A p \in Payloads : \A k \in Keys \cap DOMAIN p.values : p.values[k].present =>
       /\ k \notin OwnCounters \cup {SocKey}
       /\ k \in CounterKeys => /\ p.type = "count" /\ p.values[k].dstype = "gauge"
                              /\ p.values[k].value \in Nat
  /\ IsFiniteSet(Conns) /\ \A c \in Conns : Streams[c] \in Seq(Messages)

VARIABLES
  now, skew,
  enabled,    \* enable_data_collection
  budget,
  main,       \* where the main loop is; "exited" when the process is gone
  http,       \* the request the HTTP thread is in the middle of
  \* CrashFreeIntervalTracker.
  crashes,    \* its channel: the times of the crashes
  tracker,    \* its marks and counts, and where update() is
  \* BatteryMonitor and its mutex; ConnectivityMonitor.
  battery, batteryLock,
  conn,       \* with its first check, the time between the reads of checks, and their number
  \* fluent-bit.
  link,       \* per connection: its state, and the messages read and collected
  lines,      \* the channel to the log collector
  collector,  \* "running", or "dead" after a panic with the mutex held
  \* What an observer has seen.
  seen        \* crashes reported and collected, crash-free intervals, refused readings

inputVars == <<now, skew, enabled, budget>>
crashVars == <<crashes, tracker>>
monitorVars == <<battery, batteryLock, conn>>
logVars == <<link, lines, collector>>
vars == <<storeVars, inputVars, main, http, crashVars, monitorVars, logVars, seen>>

NoReading == [level |-> 0, state |-> "none", finite |-> TRUE]
Idle == [op |-> "idle", at |-> 0, reading |-> NoReading]
Never == -1

Init ==
  /\ StoreInit
  /\ now = 0 /\ skew = 0 /\ budget \in Budgets /\ enabled = (budget.enabled = 1)
  /\ main = "loop" /\ http = Idle
  /\ crashes = <<>>
  /\ tracker = [pc |-> "sleep", mark |-> 0, crashFree |-> 0, count |-> 0, hours |-> 0,
                freeHours |-> 0]
  /\ battery = [previous |-> NoReading, last |-> 0] /\ batteryLock = "free"
  /\ conn = [pc |-> "sleep", last |-> Never, at |-> 0, since |-> 0, first |-> Never,
             between |-> 0, checks |-> 0]
  /\ link = [c \in Conns |-> [state |-> "new", read |-> 0, collected |-> 0]]
  /\ lines = <<>> /\ collector = "running"
  /\ seen = [crashed |-> 0, collected |-> {}, free |-> {}, at |-> 0, refused |-> FALSE]

Up == main # "exited"
Pay(costs) ==
  /\ \A w \in costs : budget[w] > 0
  /\ budget' = [w \in DOMAIN budget |-> IF w \in costs THEN budget[w] - 1 ELSE budget[w]]
Spend(what) == Pay({what})
MayFail(fails) == Pay(IF fails THEN {"fail"} ELSE {})
Wall == now + skew

Tick ==
  /\ Up /\ Spend("time") /\ now' = now + 1
  /\ UNCHANGED <<storeVars, skew, enabled, main, http, crashVars, monitorVars, logVars, seen>>

\* The wall clock is set back.
SetBack ==
  /\ Up /\ Spend("clock") /\ skew' = skew - 2
  /\ UNCHANGED <<storeVars, now, enabled, main, http, crashVars, monitorVars, logVars, seen>>

-----------------------------------------------------------------------------
(* Heartbeats, and the main loop.                                          *)

\* The timer thread.  When the report is empty there is nothing to do.
HeartbeatDue(fails) ==
  /\ Up /\ TakeHeartbeat("timer", fails) /\ MayFail(fails)
  /\ UNCHANGED <<now, skew, enabled, main, http, crashVars, monitorVars, logVars, seen>>

\* The timer thread, and the HTTP thread at the end of a session.
Saved(d, fails) ==
  /\ Up /\ d \in {"timer", "http"} /\ SaveReport(d, fails) /\ MayFail(fails)
  /\ http' = IF d = "http" THEN Idle ELSE http
  /\ UNCHANGED <<now, skew, enabled, main, crashVars, monitorVars, logVars, seen>>

\* The first sync task of a round: the heartbeat, if the sync is forced.
Round(forced, fails) ==
  /\ main = "loop" /\ (fails => forced)
  /\ Pay({"round"} \cup IF fails THEN {"fail"} ELSE {})
  /\ IF forced THEN TakeHeartbeat("main", fails) ELSE UNCHANGED storeVars
  /\ main' = IF forced THEN "forced" ELSE "round"
  /\ UNCHANGED <<now, skew, enabled, http, crashVars, monitorVars, logVars, seen>>

RoundSaved(fails) ==
  /\ main = "forced" /\ SaveReport("main", fails) /\ MayFail(fails)
  /\ UNCHANGED <<now, skew, enabled, main, http, crashVars, monitorVars, logVars, seen>>

\* The second one looks at the log collector.  When a thread has panicked with its
\* mutex held, so does the main thread.  Then entries are uploaded, if that is allowed.
Upload ==
  /\ main \in {"round", "forced"} /\ dump["main"] = NoDump
  /\ main' = CASE enabled /\ collector = "dead" -> "exited"
               [] enabled /\ collector = "running" -> "upload"
               [] ~enabled -> IF main = "forced" THEN "upload" ELSE "loop"
  /\ UNCHANGED <<storeVars, inputVars, http, crashVars, monitorVars, logVars, seen>>

\* The end of the round counts itself, unless there was nothing to upload.
Uploaded(result) ==
  /\ main = "upload" /\ main' = "loop"
  /\ CASE result = "nothing" -> UNCHANGED storeVars
       [] result = "ok" -> Put([sync_memfault_successful |-> Count(1, Wall)])
       [] result = "error" -> Put([sync_memfault_failure |-> Count(1, Wall)])
  /\ UNCHANGED <<inputVars, http, crashVars, monitorVars, logVars, seen>>

\* Shutdown: the heartbeat is dumped once more.  The other threads run until the
\* process exits, and what they have in their hands then is gone.
Shutdown(fails) ==
  /\ main = "loop" /\ Spend("stop")
  /\ TakeHeartbeat("main", fails) /\ main' = "shutdown"
  /\ UNCHANGED <<now, skew, enabled, http, crashVars, monitorVars, logVars, seen>>

Exit(fails) ==
  /\ main = "shutdown" /\ main' = "exited" /\ (fails => dump["main"] # NoDump)
  /\ IF dump["main"] = NoDump THEN UNCHANGED storeVars ELSE SaveReport("main", fails)
  /\ MayFail(fails)
  /\ UNCHANGED <<now, skew, enabled, http, crashVars, monitorVars, logVars, seen>>

-----------------------------------------------------------------------------
(* Requests to the HTTP server.  Handlers do nothing while data collection *)
(* is disabled, but the one for crashes does not look.                     *)

\* POST /v1/crash/report: the handler reads the clock ...
CrashRequest ==
  /\ Up /\ http = Idle /\ Spend("crash")
  /\ http' = [Idle EXCEPT !.op = "crash", !.at = now]
  /\ UNCHANGED <<storeVars, now, skew, enabled, main, crashVars, monitorVars, logVars, seen>>

\* ... and sends the time to the tracker.
CrashReported ==
  /\ Up /\ http.op = "crash" /\ http' = Idle
  /\ crashes' = Append(crashes, http.at)
  /\ seen' = [seen EXCEPT !.crashed = @ + 1]
  /\ UNCHANGED <<storeVars, inputVars, main, tracker, monitorVars, logVars>>

\* POST /v1/sync/success and /v1/sync/failure.
SyncEvent(key) ==
  /\ Up /\ http = Idle /\ Spend("sync")
  /\ IF enabled THEN Put([k \in {key} |-> Count(1, Wall)]) ELSE UNCHANGED storeVars
  /\ UNCHANGED <<now, skew, enabled, main, http, crashVars, monitorVars, logVars, seen>>

\* Payload: what is posted for one value list, and the readings it becomes.  Values
\* that are missing or whose name is no metric key are left out; gauges of type count
\* are the counters of statsd, everything else is a gauge.
Readings(payload) ==
  [k \in {k \in Keys \cap DOMAIN payload.values : payload.values[k].present} |->
     IF payload.values[k].dstype = "gauge" /\ payload.type = "count"
     THEN Count(payload.values[k].value, Wall)
     ELSE Gauge(payload.values[k].value, TRUE, Wall, payload.interval)]

\* POST /v1/collectd: all readings are added under one lock.
Collectd(payload) ==
  /\ Up /\ http = Idle /\ Spend("collectd")
  /\ IF enabled THEN Put(Readings(payload)) ELSE UNCHANGED storeVars
  /\ UNCHANGED <<now, skew, enabled, main, http, crashVars, monitorVars, logVars, seen>>

\* POST /v1/session/start and /v1/session/end.  The answer is an error when the
\* session is not configured, or not ongoing.
SessionStart(s) ==
  /\ Up /\ http = Idle /\ Spend("session")
  /\ IF enabled /\ s \in DOMAIN Captured THEN StartSession(s) ELSE UNCHANGED storeVars
  /\ UNCHANGED <<now, skew, enabled, main, http, crashVars, monitorVars, logVars, seen>>

SessionEnd(s, fails) ==
  /\ Up /\ http = Idle
  /\ IF enabled /\ s \in DOMAIN sessions
     THEN EndSession(s, fails) /\ MayFail(fails)
     ELSE ~fails /\ UNCHANGED <<storeVars, budget>>
  /\ http' = IF dump'["http"] # NoDump THEN [Idle EXCEPT !.op = "session"] ELSE Idle
  /\ UNCHANGED <<now, skew, enabled, main, crashVars, monitorVars, logVars, seen>>

-----------------------------------------------------------------------------
(* The crash-free hours tracker.                                           *)

\* Mutant: one crash is collected per update.
TrackerCollectsOne ==
  /\ Up /\ tracker.pc = "sleep" /\ budget.tracker = 1
  /\ crashes' = IF crashes = <<>> THEN <<>> ELSE Tail(crashes)
  /\ tracker' = [tracker EXCEPT !.pc = "hours", !.count = @ + (IF crashes = <<>> THEN 0 ELSE 1),
       !.crashFree = IF crashes # <<>> /\ Head(crashes) > @ THEN Head(crashes) ELSE @]
  /\ seen' = [seen EXCEPT !.collected = @ \cup ToSet(crashes)]
  /\ UNCHANGED <<storeVars, inputVars, main, http, monitorVars, logVars>>

\* update(), which starts with collect_crashes: what is in the channel now.
TrackerCollects ==
  /\ Up /\ tracker.pc = "sleep" /\ budget.tracker = 1
  /\ crashes' = <<>>
  /\ tracker' = [tracker EXCEPT !.pc = "hours", !.count = @ + Len(crashes),
       !.crashFree = Max({@} \cup ToSet(crashes))]
  /\ seen' = [seen EXCEPT !.collected = @ \cup ToSet(crashes)]
  /\ UNCHANGED <<storeVars, inputVars, main, http, monitorVars, logVars>>

\* full_interval_elapsed_since: the number of whole intervals since a mark, and the
\* end of the last of them, which is the next mark.
FullIntervals(since) ==
  IF since > now THEN [count |-> 0, mark |-> now]
  ELSE LET n == (now - since) \div Interval
       IN  [count |-> n, mark |-> since + n * Interval]

\* Mutant: an update ends early when no hour has passed.
TrackerHoursSkips ==
  LET m == FullIntervals(tracker.mark)
  IN  /\ Up /\ tracker.pc = "hours"
      /\ tracker' = IF m.count = 0 THEN [tracker EXCEPT !.pc = "sleep", !.count = 0]
                    ELSE [tracker EXCEPT !.pc = "crashfree", !.hours = m.count, !.mark = m.mark]
      /\ seen' = [seen EXCEPT !.at = now]
      /\ UNCHANGED <<storeVars, inputVars, main, http, crashes, monitorVars, logVars>>

\* It is called twice, and reads the clock each time.
TrackerHours ==
  LET m == FullIntervals(tracker.mark)
  IN  /\ Up /\ tracker.pc = "hours"
      /\ tracker' = [tracker EXCEPT !.pc = "crashfree", !.hours = m.count, !.mark = m.mark]
      /\ seen' = [seen EXCEPT !.at = now]
      /\ UNCHANGED <<storeVars, inputVars, main, http, crashes, monitorVars, logVars>>

TrackerCrashFree ==
  LET m == FullIntervals(tracker.crashFree)
  IN  /\ Up /\ tracker.pc = "crashfree"
      /\ tracker' = [tracker EXCEPT !.pc = "adding", !.freeHours = m.count,
                                    !.crashFree = m.mark]
      /\ seen' = [seen EXCEPT !.free =
           IF m.count = 0 THEN @ ELSE @ \cup {<<tracker.crashFree, m.mark>>}]
      /\ UNCHANGED <<storeVars, inputVars, main, http, crashes, monitorVars, logVars>>

\* Mutant: the count of crashes is not reset.
TrackerAddsAgain ==
  /\ Up /\ tracker.pc = "adding"
  /\ Put([operational_hours |-> Count(tracker.hours, Wall),
          operational_crashfree_hours |-> Count(tracker.freeHours, Wall),
          operational_crashes |-> Count(tracker.count, Wall)])
  /\ tracker' = [tracker EXCEPT !.pc = "sleep", !.hours = 0, !.freeHours = 0]
  /\ UNCHANGED <<inputVars, main, http, crashes, monitorVars, logVars, seen>>

\* The thread takes the lock of the store and adds the three metrics.
TrackerAdds ==
  /\ Up /\ tracker.pc = "adding"
  /\ Put([operational_hours |-> Count(tracker.hours, Wall),
          operational_crashfree_hours |-> Count(tracker.freeHours, Wall),
          operational_crashes |-> Count(tracker.count, Wall)])
  /\ tracker' = [tracker EXCEPT !.pc = "sleep", !.hours = 0, !.freeHours = 0, !.count = 0]
  /\ UNCHANGED <<inputVars, main, http, crashes, monitorVars, logVars, seen>>

-----------------------------------------------------------------------------
(* The battery monitor.                                                    *)

\* update_metrics: three readings under one lock of the store.  The counters count
\* while this reading and the one before say Discharging, and get a 0 otherwise.  A
\* level such as "nan" parses as a number: the store refuses it, when the counters
\* have been increased, and the reading before stays the previous one.
UpdateMetrics(r) ==
  LET p == battery.previous
      discharging == r.state = "Discharging" /\ p.state = "Discharging"
      time == now - battery.last
      drop == IF r.finite /\ p.level > r.level THEN p.level - r.level ELSE 0
  IN  /\ Put([battery_discharge_duration_ms |-> Count(IF discharging THEN Millis(time) ELSE 0,
                                                     Wall),
              battery_soc_pct_drop |-> Count(IF discharging THEN drop ELSE 0, Wall),
              battery_soc_pct |-> Gauge(r.level, r.finite, Wall, time)])
      /\ battery' = IF r.finite THEN [previous |-> r, last |-> now] ELSE battery
      /\ seen' = [seen EXCEPT !.refused = @ \/ (discharging /\ ~r.finite)]

\* What BatteryMonitorReading::from_str makes of inputs that it accepts.
BatteryReadings ==
  [level : Levels, state : {"Discharging"}, finite : {TRUE}]
    \cup {[level |-> 0, state |-> "Charging", finite |-> TRUE],
          [level |-> 0, state |-> "Discharging", finite |-> FALSE]}

\* The battery thread locks the monitor and runs the command, which takes its time ...
BatteryCommand ==
  /\ Up /\ batteryLock = "free" /\ Spend("battery")
  /\ batteryLock' = "command"
  /\ UNCHANGED <<storeVars, now, skew, enabled, main, http, crashVars, battery, conn, logVars,
                 seen>>

\* ... and fails, or prints what cannot be parsed, or a reading.
BatteryCommandFails ==
  /\ Up /\ batteryLock = "command" /\ batteryLock' = "free"
  /\ UNCHANGED <<storeVars, inputVars, main, http, crashVars, battery, conn, logVars, seen>>

BatteryCommandEnds(r) ==
  /\ Up /\ batteryLock = "command" /\ batteryLock' = "free"
  /\ UpdateMetrics(r)
  /\ UNCHANGED <<inputVars, main, http, crashVars, conn, logVars>>

\* POST /v1/metrics/battery/add_reading, which waits for the monitor's lock.
BatteryPush(r) ==
  /\ Up /\ http = Idle /\ enabled /\ Spend("battery")
  /\ http' = [Idle EXCEPT !.op = "battery", !.reading = r]
  /\ UNCHANGED <<storeVars, now, skew, enabled, main, crashVars, monitorVars, logVars, seen>>

BatteryPushed ==
  /\ Up /\ http.op = "battery" /\ batteryLock = "free" /\ http' = Idle
  /\ UpdateMetrics(http.reading)
  /\ UNCHANGED <<inputVars, main, crashVars, batteryLock, conn, logVars>>

-----------------------------------------------------------------------------
(* The connectivity monitor.                                               *)

\* update_connected_time reads the clock, and will store this time: the next check
\* counts from here.
CheckConnection ==
  /\ Up /\ conn.pc = "sleep" /\ Spend("check")
  /\ conn' = [conn EXCEPT !.pc = "elapsed", !.at = now,
                          !.first = IF @ = Never THEN now ELSE @]
  /\ UNCHANGED <<storeVars, now, skew, enabled, main, http, crashVars, battery, batteryLock,
                 logVars, seen>>

\* elapsed() reads it again: this check counts to here, from the time of the check
\* before it, and the first one from the time it has just read.  Then the targets are
\* tried, which may take until the timeout of each of them.
CheckElapsed ==
  /\ Up /\ conn.pc = "elapsed"
  /\ conn' = [conn EXCEPT !.pc = "trying",
                          !.since = now - (IF conn.last = Never THEN conn.at ELSE conn.last),
                          !.between = @ + (now - conn.at)]
  /\ UNCHANGED <<storeVars, inputVars, main, http, crashVars, battery, batteryLock, logVars,
                 seen>>

\* Mutant: the time of the check is the time of its end.
CheckedLate(connected) ==
  /\ Up /\ conn.pc = "trying"
  /\ Put([connectivity_connected_time_ms |->
             Count(Millis(IF connected THEN conn.since ELSE 0), Wall),
          connectivity_expected_time_ms |-> Count(Millis(conn.since), Wall)])
  /\ conn' = [conn EXCEPT !.pc = "sleep", !.last = now, !.checks = @ + 1]
  /\ UNCHANGED <<inputVars, main, http, crashVars, battery, batteryLock, logVars, seen>>

\* Both counters get whole milliseconds, under one lock.
Checked(connected) ==
  /\ Up /\ conn.pc = "trying"
  /\ Put([connectivity_connected_time_ms |->
             Count(Millis(IF connected THEN conn.since ELSE 0), Wall),
          connectivity_expected_time_ms |-> Count(Millis(conn.since), Wall)])
  /\ conn' = [conn EXCEPT !.pc = "sleep", !.last = conn.at, !.checks = @ + 1]
  /\ UNCHANGED <<inputVars, main, http, crashVars, battery, batteryLock, logVars, seen>>

-----------------------------------------------------------------------------
(* Log lines from fluent-bit, counted by log-to-metrics.                   *)

Line(c, i) == [conn |-> c, number |-> i]
Message(l) == Streams[l.conn][l.number]

\* The lines that log-to-metrics counts.
Matches ==
  UNION {{Line(c, i) : i \in {n \in DOMAIN Streams[c] : Streams[c][n] = "match"}} : c \in Conns}

\* The TCP server hands a connection to a thread of the pool when one is free.
Connect(c) ==
  /\ Up /\ link[c].state = "new" /\ Spend("connect")
  /\ Cardinality({d \in Conns : link[d].state = "open"}) < MaxConnections
  /\ link' = [link EXCEPT ![c].state = "open"]
  /\ UNCHANGED <<storeVars, now, skew, enabled, main, http, crashVars, monitorVars, lines,
                 collector, seen>>

Disconnect(c) ==
  /\ link' = [link EXCEPT ![c].state = "closed"]
  /\ UNCHANGED lines

\* Mutant: a message is dropped when the channel is full.
ReceiveTry(c) ==
  LET n == link[c].read + 1
  IN  /\ Up /\ link[c].state = "open"
      /\ IF n > Len(Streams[c]) THEN Disconnect(c)
         ELSE IF Streams[c][n] = "bad" \/ collector = "dead" THEN Disconnect(c)
         ELSE /\ link' = [link EXCEPT ![c].read = n]
              /\ lines' = IF enabled /\ Len(lines) < MaxBuffered
                          THEN Append(lines, Line(c, n)) ELSE lines
      /\ UNCHANGED <<storeVars, inputVars, main, http, crashVars, monitorVars, collector, seen>>

\* handle_connection: the next message is decoded and sent to the collector, which
\* blocks while the channel is full.  The connection is closed at its end, when a
\* message cannot be decoded, and when the collector is gone.  With data collection
\* disabled everything is read and dropped.
Receive(c) ==
  LET n == link[c].read + 1
  IN  /\ Up /\ link[c].state = "open"
      /\ IF n > Len(Streams[c]) THEN Disconnect(c)
         ELSE IF enabled /\ (Streams[c][n] = "bad" \/ collector = "dead") THEN Disconnect(c)
         ELSE /\ enabled => Len(lines) < MaxBuffered
              /\ link' = [link EXCEPT ![c].read = n]
              /\ lines' = IF enabled THEN Append(lines, Line(c, n)) ELSE lines
      /\ UNCHANGED <<storeVars, inputVars, main, http, crashVars, monitorVars, collector, seen>>

\* The log collector takes the next message.  One without MESSAGE is not a log line;
\* a line that passes the filter and matches the pattern of a rule is counted, under
\* the collector's mutex and the store's.  A rule whose pattern is no regular
\* expression ends the thread, and the receiver with it.
Collect ==
  /\ Up /\ collector = "running" /\ lines # <<>>
  /\ link' = [link EXCEPT ![Head(lines).conn].collected = @ + 1]
  /\ IF Message(Head(lines)) = "match"
     THEN Put([log_matches |-> Count(1, Wall)])
     ELSE UNCHANGED storeVars
  /\ IF Message(Head(lines)) = "invalid rule"
     THEN collector' = "dead" /\ lines' = <<>>
     ELSE lines' = Tail(lines) /\ UNCHANGED collector
  /\ UNCHANGED <<inputVars, main, http, crashVars, monitorVars, seen>>

-----------------------------------------------------------------------------

Timers ==
  \/ \E fails \in BOOLEAN : HeartbeatDue(fails)
  \/ \E fails \in BOOLEAN : \E d \in Dumpers : Saved(d, fails)
  \/ TrackerCollects \/ TrackerHours \/ TrackerCrashFree \/ TrackerAdds

MainLoop ==
  \/ \E forced, fails \in BOOLEAN : Round(forced, fails)
  \/ \E fails \in BOOLEAN : RoundSaved(fails)
  \/ Upload
  \/ \E result \in {"nothing", "ok", "error"} : Uploaded(result)
  \/ \E fails \in BOOLEAN : Shutdown(fails)
  \/ \E fails \in BOOLEAN : Exit(fails)

Requests ==
  \/ CrashRequest \/ CrashReported
  \/ \E key \in {"sync_successful", "sync_failure"} : SyncEvent(key)
  \/ \E payload \in Payloads : Collectd(payload)
  \/ \E s \in SessionNames : SessionStart(s)
  \/ \E s \in SessionNames : \E fails \in BOOLEAN : SessionEnd(s, fails)
  \/ \E r \in BatteryReadings : BatteryPush(r)
  \/ BatteryPushed

Monitors ==
  \/ BatteryCommand \/ BatteryCommandFails
  \/ \E r \in BatteryReadings : BatteryCommandEnds(r)
  \/ CheckConnection \/ CheckElapsed
  \/ \E connected \in BOOLEAN : Checked(connected)

Logs == (\E c \in Conns : Connect(c) \/ Receive(c)) \/ Collect

Next == Tick \/ SetBack \/ Timers \/ MainLoop \/ Requests \/ Monitors \/ Logs

Spec == Init /\ [][Next]_vars

\* Threads of the daemon are scheduled, the commands and system calls they wait for
\* end, and system calls do not fail for ever.
Fairness ==
  /\ WF_vars(HeartbeatDue(FALSE)) /\ WF_vars(Saved("timer", FALSE))
  /\ WF_vars(TrackerCollects) /\ WF_vars(TrackerHours) /\ WF_vars(TrackerCrashFree)
  /\ WF_vars(TrackerAdds) /\ WF_vars(RoundSaved(FALSE)) /\ WF_vars(Exit(FALSE))

FairSpec == Spec /\ Fairness

-----------------------------------------------------------------------------
(* Properties.                                                             *)

TypeOK ==
  /\ DOMAIN heartbeat.metrics \subseteq Keys /\ DOMAIN sessions \subseteq DOMAIN Captured
  /\ \A k \in CounterKeys : added[k] >= 0 /\ saved[k] >= 0 /\ lost[k] >= 0
  /\ now \in Nat /\ skew \in Int /\ enabled \in BOOLEAN
  /\ main \in {"loop", "round", "forced", "upload", "shutdown", "exited"}
  /\ http.op \in {"idle", "crash", "session", "battery"}
  /\ \A i \in DOMAIN crashes : crashes[i] \in 0..now
  /\ tracker.pc \in {"sleep", "hours", "crashfree", "adding"}
  /\ tracker.mark \in 0..now /\ tracker.crashFree \in 0..now
  /\ battery.last \in 0..now /\ batteryLock \in {"free", "command"}
  /\ conn.last \in -1..now /\ conn.since \in 0..now
  /\ \A c \in Conns : link[c].collected <= link[c].read
  /\ Len(lines) <= MaxBuffered /\ collector \in {"running", "dead"}

\* update() adds the hours that have passed, and each hour once: whatever the times
\* at which the tracker wakes up, the hours counted are the whole hours of the uptime
\* at its last update, and no more hours are crash-free than there were
\* (crashfree_interval.rs:138).
HoursAreExact ==
  /\ added["operational_hours"] + tracker.hours = seen.at \div Interval
  /\ added["operational_crashfree_hours"] + tracker.freeHours <= now \div Interval

\* An hour is not counted as crash-free when a crash in it was reported before the
\* update began, even if the report waited in the channel for many updates' time
\* (crashfree_interval.rs:155).
CrashFreeHasNoCrash ==
  [][\A free \in seen'.free \ seen.free : \A t \in seen.collected :
       ~(free[1] < t /\ t <= free[2])]_vars

\* What the checks of the connection may count: the time from the first of them to the
\* last, and once more the time between the two reads of the clock of each, which is
\* in the span that ends there and in the next one.
Watched == IF conn.first = Never THEN 0 ELSE (conn.at - conn.first) + conn.between

\* No span of time is counted twice, and none is forgotten, but for two things.  The
\* hours are exact.  Expected time is never more than the checks watched, where the
\* time between the two reads of a check is watched twice; and at rest it falls short
\* of that by less than a millisecond per check, though a check takes time itself.
\* Discharge time is at most the time from the start to the last reading, unless a
\* level that is no number was refused in the middle of an update
\* (connectivity_monitor.rs:56, battery_monitor.rs:108).
TimeIsCountedOnce ==
  /\ HoursAreExact
  /\ Milli * added["connectivity_expected_time_ms"] <= Watched
  /\ conn.pc = "sleep" =>
       Watched <= Milli * added["connectivity_expected_time_ms"] + (Milli - 1) * conn.checks
  /\ added["connectivity_connected_time_ms"] <= added["connectivity_expected_time_ms"]
  /\ ~seen.refused => Milli * added["battery_discharge_duration_ms"] <= battery.last

\* The battery level that is reported is not negative and not above every level, though
\* the wall clock, which dates the readings, may be set back (timeseries/mod.rs:172).
AverageIsBounded ==
  LET bounded(v) == IsNaN(v) \/ (v.num >= 0 /\ \E l \in Levels : v.num <= l * v.den)
  IN  /\ SocKey \in DOMAIN heartbeat.metrics => bounded(Value(heartbeat.metrics[SocKey]))
      /\ \A d \in Dumpers : SocKey \in DOMAIN dump[d].values => bounded(dump[d].values[SocKey])

\* Between a connection and the collector no line is lost, repeated or overtaken by
\* a later line of its connection, though connections share a bounded channel
\* (fluent_bit/mod.rs:83).
LinesStayInOrder ==
  collector = "running" /\ enabled =>
    /\ \A c \in Conns : \A n \in (link[c].collected + 1)..link[c].read :
         \E i \in DOMAIN lines : lines[i] = Line(c, n)
    /\ \A i \in DOMAIN lines :
         /\ link[lines[i].conn].collected < lines[i].number
         /\ lines[i].number <= link[lines[i].conn].read
    /\ \A i, j \in DOMAIN lines :
         i < j /\ lines[i].conn = lines[j].conn => lines[i].number < lines[j].number

\* What the device has told memfaultd about, as the ledger sees it: from the moment a
\* crash report is answered, a line is read from its connection, or time has passed.
Noted(k) ==
  CASE k = "operational_crashes" -> seen.crashed
    [] k = "operational_hours" -> tracker.mark \div Interval
    [] k = "operational_crashfree_hours" -> added[k] + tracker.freeHours
    [] k = "connectivity_expected_time_ms" -> Millis(Watched)
    [] k = "log_matches" ->
         Cardinality({l \in Matches : l.number <= link[l.conn].read})
    [] OTHER -> added[k]

Ledger == INSTANCE MetricLedger WITH
  Counters <- CounterKeys,
  noted <- [k \in CounterKeys |-> Noted(k)],
  published <- saved,
  dropped <- lost

\* The threads, channels and locks of the daemon implement the ledger: an event is in
\* at most one heartbeat, from the report of it to the entry on disk.
ImplementsLedger == Ledger!Spec

\* A crash that was reported is in a heartbeat in the end, unless the process exits
\* or the heartbeat cannot be written: two threads, a channel and two locks are
\* between the two (crashfree_interval.rs:156, memfaultd.rs:259).
CrashesAreReported ==
  \A n \in 1..2 :
    seen.crashed >= n
      ~> \/ saved["operational_crashes"] + lost["operational_crashes"] >= n
         \/ ~Up
=============================================================================
