----------------------------- MODULE MCMetrics ------------------------------
(* A small instance of Metrics for TLC: the inputs of a behaviour are one of a  *)
(* few mixes, so that every pair of sources that can interfere meets.           *)
EXTENDS Metrics, TLC

MCCounterKeys == OwnCounters \cup {"requests"}
MCGaugeKeys == {SocKey, "cpu"}
MCSessionNames == {"ota", "unknown"}
MCCaptured == [s \in {"ota"} |-> {"sync_successful", "operational_crashes", "cpu"}]

Point(dstype, present) == [dstype |-> dstype, present |-> present, value |-> 3]
MCPayloads ==
  {[type |-> "percent", interval |-> 1,
    values |-> [cpu |-> Point("gauge", TRUE), battery_soc_pct |-> Point("derive", FALSE),
                not_a_key |-> Point("derive", TRUE)]],
   [type |-> "count", interval |-> 1,
    values |-> [cpu |-> Point("gauge", TRUE), requests |-> Point("gauge", TRUE)]]}
MCStreams == ("c1" :> <<"match", "metric", "match">>) @@ ("c2" :> <<"match", "bad">>)
             @@ ("c3" :> <<"plain", "invalid rule", "match">>)

NoInput ==
  [time |-> 0, clock |-> 0, fail |-> 0, crash |-> 0, round |-> 0, stop |-> 0, sync |-> 0,
   collectd |-> 0, session |-> 0, battery |-> 0, check |-> 0, connect |-> 0,
   tracker |-> 0, enabled |-> 1]
Mixes ==
  {[NoInput EXCEPT !.tracker = 1, !.time = 3, !.crash = 2],
   [NoInput EXCEPT !.tracker = 1, !.time = 4, !.crash = 1],
   [NoInput EXCEPT !.tracker = 1, !.crash = 1, !.round = 1],
   [NoInput EXCEPT !.tracker = 1, !.crash = 1, !.stop = 1, !.fail = 1],
   [NoInput EXCEPT !.session = 2, !.sync = 2, !.round = 1],
   [NoInput EXCEPT !.session = 2, !.sync = 1, !.fail = 1, !.round = 1],
   [NoInput EXCEPT !.time = 4, !.battery = 3],
   [NoInput EXCEPT !.time = 3, !.battery = 3, !.clock = 1],
   [NoInput EXCEPT !.time = 5, !.check = 3, !.stop = 1],
   [NoInput EXCEPT !.connect = 3, !.round = 1],
   [NoInput EXCEPT !.connect = 2, !.stop = 1],
   [NoInput EXCEPT !.collectd = 2, !.session = 1],
   [NoInput EXCEPT !.enabled = 0, !.tracker = 1, !.crash = 1, !.sync = 1, !.session = 1,
                   !.collectd = 1, !.connect = 1]}
=============================================================================
