---------------------------- MODULE MetricReport ----------------------------
(***************************************************************************)
(* Metric readings, the time series they are aggregated into               *)
(* (metrics/timeseries), and the report that holds one series per metric   *)
(* (metric_report.rs).                                                     *)
(*                                                                         *)
(* Values and times are integers; what the code makes of a value that is   *)
(* not finite is kept as a flag.  A series keeps what its value() reads:   *)
(* a sum, the weight it is divided by and, for an average over time, when  *)
(* it ended.  Times are in ticks of the clock, and weigh whole             *)
(* milliseconds.                                                           *)
(***************************************************************************)
EXTENDS Integers

CONSTANT Milli  \* ticks of the clock in a millisecond

ASSUME MilliAssumption == Milli \in Nat \ {0}

\* Duration::as_millis and num_milliseconds: what is left of the last one is dropped.
Millis(d) == d \div Milli

SocKey == "battery_soc_pct"

Gauge(v, finite, at, interval) ==
  [kind |-> "gauge", value |-> v, finite |-> finite, timestamp |-> at, interval |-> interval]
Count(v, at) ==
  [kind |-> "counter", value |-> v, finite |-> TRUE, timestamp |-> at, interval |-> 0]

-----------------------------------------------------------------------------
(* Time series.                                                            *)

\* Histogram::new, Counter::new and TimeWeightedAverage::new.
Histogram(r) == [type |-> "histogram", sum |-> r.value, weight |-> 1, end |-> 0]
Counter(r) == [type |-> "counter", sum |-> r.value, weight |-> 1, end |-> 0]
TimeWeightedAverage(r) ==
  [type |-> "average", sum |-> r.value * Millis(r.interval), weight |-> Millis(r.interval),
   end |-> r.timestamp]

\* The battery level is averaged over time, every other gauge over its readings.
SelectAggregateFor(key, r) ==
  CASE r.kind = "counter" -> Counter(r)
    [] r.kind = "gauge" /\ key = SocKey -> TimeWeightedAverage(r)
    [] r.kind = "gauge" /\ key # SocKey -> Histogram(r)

\* Mutant: a time-weighted average takes readings from before its end.
CompatibleAnyTime(s, r) ==
  /\ r.finite
  /\ r.kind = IF s.type = "counter" THEN "counter" ELSE "gauge"

\* The readings aggregate() of a series takes: the others are an error.
Compatible(s, r) ==
  /\ r.finite
  /\ r.kind = IF s.type = "counter" THEN "counter" ELSE "gauge"
  /\ s.type = "average" => r.timestamp >= s.end

\* A level counts for the time since the previous reading of it.
Aggregate(s, r) ==
  CASE s.type = "histogram" -> [s EXCEPT !.sum = @ + r.value, !.weight = @ + 1]
    [] s.type = "counter" -> [s EXCEPT !.sum = @ + r.value]
    [] s.type = "average" ->
         [s EXCEPT !.sum = @ + r.value * Millis(r.timestamp - s.end),
                   !.weight = @ + Millis(r.timestamp - s.end), !.end = r.timestamp]

\* value(): a fraction.  0/0 is NaN, which JSON has no number for: the manifest
\* says null, and a manifest that says null for a metric cannot be read back.
Value(s) == [num |-> s.sum, den |-> s.weight]
IsNaN(v) == v.den = 0

-----------------------------------------------------------------------------
(* Reports.                                                                *)

Empty == [k \in {} |-> Counter(Count(0, 0))]
NewReport(captured) == [metrics |-> Empty, captured |-> captured]
IsCaptured(rep, key) == key \in rep.captured

\* add_metric, for readings of different metrics, given as a function of their keys:
\* a reading joins its series.  One that does not fit starts the series anew, and one
\* that is not finite is refused: no series can be made of it.
AddMetrics(rep, ms) ==
  LET taken == {k \in DOMAIN ms : IsCaptured(rep, k) /\ ms[k].finite}
      fits(k) == k \in DOMAIN rep.metrics /\ Compatible(rep.metrics[k], ms[k])
      new(k) == IF fits(k) THEN Aggregate(rep.metrics[k], ms[k])
                           ELSE SelectAggregateFor(k, ms[k])
  IN  [rep EXCEPT !.metrics = [k \in DOMAIN rep.metrics \cup taken |->
                                 IF k \in taken THEN new(k) ELSE rep.metrics[k]]]

\* take_metric_report_snapshot: the values of the series, and the report it leaves.
Snapshot(rep) == [k \in DOMAIN rep.metrics |-> Value(rep.metrics[k])]
Reset(rep) == [rep EXCEPT !.metrics = Empty]
=============================================================================
