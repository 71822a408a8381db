---------------------------- MODULE MetricsProofs ---------------------------
(***************************************************************************)
(* Proofs about Metrics, for any metrics, sessions, payloads, connections  *)
(* and interval, and any number of inputs.                                 *)
(***************************************************************************)
EXTENDS Metrics, FiniteSetTheorems, WellFoundedInduction, TLAPS

-----------------------------------------------------------------------------
(* Reports.                                                                *)

CounterSeries == [type : {"counter"}, sum : Nat, weight : Nat, end : Int]

\* rep captures the keys C, and its counters are series of counter readings.
GoodReport(rep, C) ==
  /\ rep = [metrics |-> rep.metrics, captured |-> C] /\ DOMAIN rep.metrics \subseteq C
  /\ \A k \in CounterKeys \cap DOMAIN rep.metrics : rep.metrics[k] \in CounterSeries

\* A reading of the battery level.
GoodLevels == {v \in Nat : \E l \in Levels : v <= l}
GoodLevel(r) ==
  /\ r.kind = "gauge" /\ r.value \in GoodLevels
  /\ r.interval \in Nat /\ r.timestamp \in Int /\ r.finite \in BOOLEAN

\* Only counter readings come for counters, and only levels for the battery level.
GoodReadings(ms) ==
  /\ DOMAIN ms \subseteq Keys
  /\ \A k \in CounterKeys \cap DOMAIN ms :
       ms[k].kind = "counter" /\ ms[k].finite = TRUE /\ ms[k].value \in Nat
  /\ SocKey \in DOMAIN ms => GoodLevel(ms[SocKey])

\* An empty report has no counters.
LEMMA NewReportIsGood ==
  ASSUME NEW C
  PROVE  GoodReport(NewReport(C), C) /\ \A k \in CounterKeys : InReport(NewReport(C), k) = 0
  BY DEF GoodReport, NewReport, Empty, InReport

\* add_metric adds the value of a counter reading to its series.
LEMMA AddMetricsAdds ==
  ASSUME NEW rep, NEW C, GoodReport(rep, C), NEW ms, GoodReadings(ms)
  PROVE  /\ GoodReport(AddMetrics(rep, ms), C)
         /\ \A k \in CounterKeys :
              InReport(AddMetrics(rep, ms), k) =
                InReport(rep, k) + (IF k \in C \cap DOMAIN ms THEN ms[k].value ELSE 0)
<1> DEFINE taken == {k \in DOMAIN ms : IsCaptured(rep, k) /\ ms[k].finite}
           fits(k) == k \in DOMAIN rep.metrics /\ Compatible(rep.metrics[k], ms[k])
           new(k) == IF fits(k) THEN Aggregate(rep.metrics[k], ms[k])
                                ELSE SelectAggregateFor(k, ms[k])
           series == [k \in DOMAIN rep.metrics \cup taken |->
                        IF k \in taken THEN new(k) ELSE rep.metrics[k]]
           after == AddMetrics(rep, ms)
<1>1. after = [rep EXCEPT !.metrics = series]
  BY DEF AddMetrics
<1>2. after = [metrics |-> series, captured |-> C]
  BY <1>1 DEF GoodReport
<1>3. after.metrics = series
  BY <1>2
<1>4. ASSUME NEW k \in CounterKeys \cap taken
      PROVE  new(k) \in CounterSeries /\ new(k).sum = InReport(rep, k) + ms[k].value
  <2>1. ms[k].kind = "counter" /\ ms[k].finite = TRUE /\ ms[k].value \in Nat
    BY <1>4 DEF GoodReadings
  <2>2. CASE k \in DOMAIN rep.metrics
    <3>1. rep.metrics[k] \in CounterSeries
      BY <2>2 DEF GoodReport
    <3>2. fits(k)
      BY <2>1, <2>2, <3>1 DEF Compatible, CounterSeries
    <3>3. Aggregate(rep.metrics[k], ms[k]) = [rep.metrics[k] EXCEPT !.sum = @ + ms[k].value]
      BY <3>1 DEF Aggregate, CounterSeries
    <3> QED BY <2>1, <2>2, <3>1, <3>2, <3>3 DEF CounterSeries, InReport
  <2>3. CASE k \notin DOMAIN rep.metrics
    <3>1. new(k) = Counter(ms[k])
      BY <2>1, <2>3 DEF SelectAggregateFor
    <3> QED BY <2>1, <2>3, <3>1 DEF Counter, CounterSeries, InReport
  <2> QED BY <2>2, <2>3
<1>5. \A k \in CounterKeys : k \in taken <=> k \in C \cap DOMAIN ms
  BY DEF IsCaptured, GoodReport, GoodReadings
<1>9. DOMAIN series \subseteq C
  BY DEF IsCaptured, GoodReport
<1> HIDE DEF taken, new, after
<1>6. ASSUME NEW k \in CounterKeys \cap DOMAIN series
      PROVE  series[k] \in CounterSeries
  BY <1>4 DEF GoodReport
<1>7. GoodReport(after, C)
  BY <1>2, <1>3, <1>6, <1>9 DEF GoodReport
<1>8. ASSUME NEW k \in CounterKeys
      PROVE  InReport(after, k) =
               InReport(rep, k) + (IF k \in C \cap DOMAIN ms THEN ms[k].value ELSE 0)
  <2>1. CASE k \in taken
    BY <1>3, <1>4, <1>5, <2>1 DEF InReport
  <2>2. CASE k \notin taken
    <3>1. InReport(after, k) = InReport(rep, k) /\ InReport(rep, k) \in Nat
      BY <1>3, <2>2 DEF InReport, GoodReport, CounterSeries
    <3> QED BY <1>5, <2>2, <3>1
  <2> QED BY <2>1, <2>2
<1> QED BY <1>7, <1>8 DEF after

-----------------------------------------------------------------------------
(* The store.                                                              *)

GoodDump(d) == \A k \in CounterKeys \cap DOMAIN d.values : d.values[k].num \in Nat

Totals == [CounterKeys -> Nat]

StoreTypes ==
  /\ GoodReport(heartbeat, Keys)
  /\ DOMAIN sessions \subseteq DOMAIN Captured
  /\ \A s \in DOMAIN sessions : GoodReport(sessions[s], Captured[s])
  /\ DOMAIN dump = Dumpers /\ \A d \in Dumpers : GoodDump(dump[d])
  /\ added \in Totals /\ saved \in Totals /\ lost \in Totals
  /\ base \in [SessionNames -> Totals]

StoreInv == StoreTypes /\ EachUnitIsInOneReport /\ SessionsAreExact

\* What a step of the daemon does to the store.
StoreStep ==
  \/ \E ms : GoodReadings(ms) /\ Put(ms)
  \/ \E s \in SessionNames : StartSession(s)
  \/ \E d \in Dumpers, fails \in BOOLEAN : TakeHeartbeat(d, fails)
  \/ \E s \in SessionNames, fails \in BOOLEAN : EndSession(s, fails)
  \/ \E d \in Dumpers, fails \in BOOLEAN : SaveReport(d, fails)
  \/ UNCHANGED storeVars

\* What is counted is a number.
LEMMA AmountsAreNumbers ==
  /\ \A d, k : GoodDump(d) /\ k \in CounterKeys => Amount(d, k) \in Nat
  /\ \A rep, C, k : GoodReport(rep, C) /\ k \in CounterKeys => InReport(rep, k) \in Nat
  /\ \A k : Amount(NoDump, k) = 0
  /\ GoodDump(NoDump)
  BY DEF GoodDump, Amount, GoodReport, InReport, CounterSeries, NoDump, Empty

\* Adding a dump to totals adds what each counter has in it.
LEMMA PlusAdds ==
  ASSUME NEW f \in Totals, NEW d, GoodDump(d)
  PROVE  /\ Plus(f, d) \in Totals
         /\ \A k \in CounterKeys : Plus(f, d)[k] = f[k] + Amount(d, k)
  BY AmountsAreNumbers DEF Plus, Totals

\* The snapshot of a report has the values of its counters.
LEMMA SnapshotIsExact ==
  ASSUME NEW rep, NEW C, GoodReport(rep, C), NEW type
  PROVE  LET d == [type |-> type, values |-> Snapshot(rep)]
         IN  /\ GoodDump(d)
             /\ \A k \in CounterKeys :
                  Amount(d, k) = IF type = "heartbeat" THEN InReport(rep, k) ELSE 0
  BY DEF GoodReport, CounterSeries, Snapshot, Value, GoodDump, Amount, InReport

\* prepare_metric_report: the report is handed to the thread, or is lost.
LEMMA PrepareMoves ==
  ASSUME StoreTypes, NEW d \in Dumpers, NEW rep, NEW C, GoodReport(rep, C),
         NEW type, NEW fails, dump[d] = NoDump, Prepare(d, rep, type, fails)
  PROVE  /\ DOMAIN dump' = Dumpers /\ \A e \in Dumpers : GoodDump(dump'[e])
         /\ lost' \in Totals
         /\ \A e \in Dumpers \ {d} : dump'[e] = dump[e]
         /\ \A k \in CounterKeys :
              /\ lost'[k] >= lost[k]
              /\ lost'[k] + Amount(dump'[d], k) =
                   lost[k] + (IF type = "heartbeat" THEN InReport(rep, k) ELSE 0)
<1> DEFINE taken == [type |-> type, values |-> Snapshot(rep)]
<1>1. /\ GoodDump(taken)
      /\ \A k \in CounterKeys :
           Amount(taken, k) = IF type = "heartbeat" THEN InReport(rep, k) ELSE 0
  BY SnapshotIsExact
<1>2. \/ lost' = Plus(lost, taken) /\ dump' = dump
      \/ dump' = [dump EXCEPT ![d] = taken] /\ lost' = lost
  BY DEF Prepare
<1> HIDE DEF taken
<1>3. CASE lost' = Plus(lost, taken) /\ dump' = dump
  BY <1>1, <1>3, PlusAdds, AmountsAreNumbers DEF StoreTypes, Totals
<1>4. CASE dump' = [dump EXCEPT ![d] = taken] /\ lost' = lost
  BY <1>1, <1>4, AmountsAreNumbers DEF StoreTypes, Totals
<1> QED BY <1>2, <1>3, <1>4

\* What is between a manager and a file changes by what the one dumper took or gave up.
LEMMA InFlightIsExact ==
  ASSUME StoreTypes, DOMAIN dump' = Dumpers, \A e \in Dumpers : GoodDump(dump'[e]),
         NEW d \in Dumpers, \A e \in Dumpers \ {d} : dump'[e] = dump[e],
         NEW k \in CounterKeys
  PROVE  /\ InFlight(k) \in Nat /\ InFlight(k)' \in Nat
         /\ InFlight(k)' + Amount(dump[d], k) = InFlight(k) + Amount(dump'[d], k)
<1>1. \A e \in Dumpers : Amount(dump[e], k) \in Nat /\ Amount(dump'[e], k) \in Nat
  BY AmountsAreNumbers DEF StoreTypes
<1> QED BY <1>1 DEF InFlight, Dumpers

\* Readings go into the heartbeat report and into every session that captures them.
LEMMA PutKeepsStore ==
  ASSUME StoreInv, NEW ms, GoodReadings(ms), Put(ms)
  PROVE  StoreInv'
<1> USE DEF StoreInv
<1>1. GoodReport(heartbeat', Keys) /\ \A k \in CounterKeys :
        InReport(heartbeat', k) =
          InReport(heartbeat, k) + (IF k \in DOMAIN ms THEN ms[k].value ELSE 0)
  BY AddMetricsAdds DEF StoreTypes, Put, Keys
<1>2. \A s \in DOMAIN sessions : GoodReport(sessions'[s], Captured[s]) /\ \A k \in CounterKeys :
        InReport(sessions'[s], k) =
          InReport(sessions[s], k) + (IF k \in Captured[s] \cap DOMAIN ms THEN ms[k].value ELSE 0)
  <2> SUFFICES ASSUME NEW s \in DOMAIN sessions
               PROVE  GoodReport(sessions'[s], Captured[s]) /\ \A k \in CounterKeys :
        InReport(sessions'[s], k) =
          InReport(sessions[s], k) + (IF k \in Captured[s] \cap DOMAIN ms THEN ms[k].value ELSE 0)
    OBVIOUS
  <2>1. GoodReport(sessions[s], Captured[s]) /\ sessions'[s] = AddMetrics(sessions[s], ms)
    BY DEF StoreTypes, Put
  <2> QED BY <2>1, AddMetricsAdds
<1>3. DOMAIN sessions' = DOMAIN sessions
  BY DEF Put
<1>4. added' \in Totals /\ \A k \in CounterKeys :
        added'[k] = added[k] + (IF k \in DOMAIN ms THEN ms[k].value ELSE 0)
  BY DEF Put, Added, GoodReadings, StoreTypes, Totals
<1>5. \A k \in CounterKeys : k \in DOMAIN ms => ms[k].value \in Nat
  BY DEF GoodReadings
<1>6. dump' = dump /\ saved' = saved /\ lost' = lost /\ base' = base
  BY DEF Put
<1>7. StoreTypes'
  BY <1>1, <1>2, <1>3, <1>4, <1>6 DEF StoreTypes
<1>8. EachUnitIsInOneReport'
  <2> SUFFICES ASSUME NEW k \in CounterKeys
               PROVE  added'[k] = InReport(heartbeat', k) + InFlight(k)' + saved'[k] + lost'[k]
    BY DEF EachUnitIsInOneReport
  <2>1. InFlight(k)' = InFlight(k) /\ InFlight(k) \in Nat /\ InReport(heartbeat, k) \in Nat
        /\ saved[k] \in Nat /\ lost[k] \in Nat
    BY <1>6, AmountsAreNumbers DEF InFlight, StoreTypes, Totals, Dumpers
  <2>2. added[k] = InReport(heartbeat, k) + InFlight(k) + saved[k] + lost[k]
    BY DEF EachUnitIsInOneReport
  <2> QED BY <1>1, <1>4, <1>5, <1>6, <2>1, <2>2
<1>9. SessionsAreExact'
  <2> SUFFICES ASSUME NEW s \in DOMAIN sessions, NEW k \in CounterKeys \cap Captured[s]
               PROVE  InReport(sessions'[s], k) = added'[k] - base'[s][k]
    BY <1>3 DEF SessionsAreExact
  <2>1. InReport(sessions[s], k) = added[k] - base[s][k]
    BY DEF SessionsAreExact
  <2>2. added[k] \in Nat /\ base[s][k] \in Nat
    BY StoreAssumption DEF StoreTypes, Totals
  <2> QED BY <1>2, <1>4, <1>5, <1>6, <2>1, <2>2
<1> QED BY <1>7, <1>8, <1>9

\* A session starts with nothing, whatever was added before it.
LEMMA StartSessionKeepsStore ==
  ASSUME StoreInv, NEW s \in SessionNames, StartSession(s)
  PROVE  StoreInv'
<1> USE DEF StoreInv
<1>1. /\ heartbeat' = heartbeat /\ dump' = dump /\ added' = added /\ saved' = saved
      /\ lost' = lost /\ s \in DOMAIN Captured
  BY DEF StartSession
<1>2. /\ DOMAIN sessions' = DOMAIN sessions \cup {s}
      /\ sessions'[s] = NewReport(Captured[s])
      /\ \A t \in DOMAIN sessions \ {s} : sessions'[t] = sessions[t]
  BY DEF StartSession
<1>3. /\ base' \in [SessionNames -> Totals] /\ base'[s] = added
      /\ \A t \in SessionNames \ {s} : base'[t] = base[t]
  BY DEF StartSession, StoreTypes
<1>4. StoreTypes'
  BY <1>1, <1>2, <1>3, NewReportIsGood DEF StoreTypes
<1>5. EachUnitIsInOneReport'
  BY <1>1 DEF EachUnitIsInOneReport, InFlight
<1>6. ASSUME NEW t \in DOMAIN sessions', NEW k \in CounterKeys \cap Captured[t]
      PROVE  InReport(sessions'[t], k) = added'[k] - base'[t][k]
  <2>1. CASE t = s
    <3>1. added[k] \in Nat
      BY DEF StoreTypes, Totals
    <3> QED BY <1>1, <1>2, <1>3, <2>1, <3>1, NewReportIsGood
  <2>2. CASE t # s
    BY <1>1, <1>2, <1>3, <2>2, StoreAssumption DEF SessionsAreExact, StoreTypes
  <2> QED BY <2>1, <2>2
<1> QED BY <1>4, <1>5, <1>6 DEF SessionsAreExact

\* Taking the heartbeat moves its counters to the thread, or to what is lost.
LEMMA TakeHeartbeatKeepsStore ==
  ASSUME StoreInv, NEW d \in Dumpers, NEW fails, TakeHeartbeat(d, fails)
  PROVE  StoreInv' /\ \A k \in CounterKeys : lost'[k] >= lost[k]
<1> USE DEF StoreInv
<1>1. /\ dump[d] = NoDump /\ Prepare(d, heartbeat, "heartbeat", fails)
      /\ heartbeat' = Reset(heartbeat)
      /\ sessions' = sessions /\ added' = added /\ saved' = saved /\ base' = base
  BY DEF TakeHeartbeat
<1>2. GoodReport(heartbeat, Keys)
  BY DEF StoreTypes
<1>3. heartbeat' = NewReport(Keys)
  BY <1>1, <1>2 DEF GoodReport, Reset, NewReport
<1>4. /\ DOMAIN dump' = Dumpers /\ \A e \in Dumpers : GoodDump(dump'[e])
      /\ lost' \in Totals
      /\ \A e \in Dumpers \ {d} : dump'[e] = dump[e]
      /\ \A k \in CounterKeys :
           /\ lost'[k] >= lost[k]
           /\ lost'[k] + Amount(dump'[d], k) = lost[k] + InReport(heartbeat, k)
  BY <1>1, <1>2, PrepareMoves
<1>5. StoreTypes'
  BY <1>1, <1>3, <1>4, NewReportIsGood DEF StoreTypes
<1>6. EachUnitIsInOneReport'
  <2> SUFFICES ASSUME NEW k \in CounterKeys
               PROVE  added'[k] = InReport(heartbeat', k) + InFlight(k)' + saved'[k] + lost'[k]
    BY DEF EachUnitIsInOneReport
  <2>1. added[k] = InReport(heartbeat, k) + InFlight(k) + saved[k] + lost[k]
    BY DEF EachUnitIsInOneReport
  <2>2. InFlight(k)' + Amount(dump[d], k) = InFlight(k) + Amount(dump'[d], k)
        /\ InFlight(k) \in Nat /\ InFlight(k)' \in Nat
    BY <1>4, InFlightIsExact
  <2>3. Amount(dump[d], k) = 0 /\ Amount(dump'[d], k) \in Nat /\ InReport(heartbeat, k) \in Nat
    BY <1>1, <1>2, <1>4, AmountsAreNumbers
  <2>4. saved[k] \in Nat /\ lost[k] \in Nat /\ lost'[k] \in Nat
    BY <1>4 DEF StoreTypes, Totals
  <2>5. InReport(heartbeat', k) = 0
    BY <1>3, NewReportIsGood
  <2> QED BY <1>1, <1>4, <2>1, <2>2, <2>3, <2>4, <2>5
<1>7. SessionsAreExact'
  BY <1>1 DEF SessionsAreExact
<1> QED BY <1>4, <1>5, <1>6, <1>7

\* A session that ends takes nothing from the heartbeats.
LEMMA EndSessionKeepsStore ==
  ASSUME StoreInv, NEW s \in SessionNames, NEW fails, EndSession(s, fails)
  PROVE  StoreInv' /\ lost' = lost
<1> USE DEF StoreInv
<1>1. /\ dump["http"] = NoDump /\ s \in DOMAIN sessions
      /\ Prepare("http", sessions[s], "session", fails)
      /\ heartbeat' = heartbeat /\ added' = added /\ saved' = saved /\ base' = base
  BY DEF EndSession
<1>2. /\ DOMAIN sessions' = DOMAIN sessions \ {s}
      /\ \A t \in DOMAIN sessions' : sessions'[t] = sessions[t]
  BY DEF EndSession
<1>3. GoodReport(sessions[s], Captured[s]) /\ "http" \in Dumpers
  BY <1>1 DEF StoreTypes, Dumpers
<1>4. /\ DOMAIN dump' = Dumpers /\ \A e \in Dumpers : GoodDump(dump'[e])
      /\ lost' \in Totals
      /\ \A e \in Dumpers \ {"http"} : dump'[e] = dump[e]
      /\ \A k \in CounterKeys :
           /\ lost'[k] >= lost[k]
           /\ lost'[k] + Amount(dump'["http"], k) = lost[k] + 0
  <2>1. "session" # "heartbeat"
    OBVIOUS
  <2> QED BY <1>1, <1>3, <2>1, PrepareMoves
<1>5. ASSUME NEW k \in CounterKeys
      PROVE  lost'[k] = lost[k] /\ Amount(dump'["http"], k) = 0
  <2>1. lost[k] \in Nat /\ lost'[k] \in Nat /\ Amount(dump'["http"], k) \in Nat
    BY <1>3, <1>4, AmountsAreNumbers DEF StoreTypes, Totals
  <2> QED BY <1>4, <2>1
<1>6. lost' = lost
  BY <1>4, <1>5 DEF StoreTypes, Totals
<1>7. StoreTypes'
  BY <1>1, <1>2, <1>4 DEF StoreTypes
<1>8. EachUnitIsInOneReport'
  <2> SUFFICES ASSUME NEW k \in CounterKeys
               PROVE  added'[k] = InReport(heartbeat', k) + InFlight(k)' + saved'[k] + lost'[k]
    BY DEF EachUnitIsInOneReport
  <2>1. InFlight(k)' + Amount(dump["http"], k) = InFlight(k) + Amount(dump'["http"], k)
        /\ InFlight(k) \in Nat /\ InFlight(k)' \in Nat
    BY <1>3, <1>4, InFlightIsExact
  <2>2. Amount(dump["http"], k) = 0
    BY <1>1, AmountsAreNumbers
  <2>3. InFlight(k)' = InFlight(k)
    BY <1>5, <2>1, <2>2
  <2> QED BY <1>1, <1>6, <2>3 DEF EachUnitIsInOneReport
<1>9. SessionsAreExact'
  BY <1>1, <1>2 DEF SessionsAreExact
<1> QED BY <1>6, <1>7, <1>8, <1>9

\* A dump that is written is saved and one whose write fails is lost; it is never both.
LEMMA SaveReportKeepsStore ==
  ASSUME StoreInv, NEW d \in Dumpers, NEW fails, SaveReport(d, fails)
  PROVE  /\ StoreInv' /\ added' = added
         /\ \/ saved' = saved /\ \A k \in CounterKeys : lost'[k] >= lost[k]
            \/ lost' = lost /\ \A k \in CounterKeys : saved'[k] >= saved[k]
<1> USE DEF StoreInv
<1>1. /\ heartbeat' = heartbeat /\ sessions' = sessions /\ added' = added /\ base' = base
      /\ dump' = [dump EXCEPT ![d] = NoDump]
  BY DEF SaveReport
<1>2. GoodDump(dump[d])
  BY DEF StoreTypes
<1>3. /\ DOMAIN dump' = Dumpers /\ \A e \in Dumpers : GoodDump(dump'[e])
      /\ \A e \in Dumpers \ {d} : dump'[e] = dump[e]
      /\ dump'[d] = NoDump
  BY <1>1, AmountsAreNumbers DEF StoreTypes
<1>4. \/ lost' = Plus(lost, dump[d]) /\ saved' = saved
      \/ saved' = Plus(saved, dump[d]) /\ lost' = lost
  BY DEF SaveReport
<1>5. /\ saved' \in Totals /\ lost' \in Totals
      /\ \A k \in CounterKeys :
           saved'[k] + lost'[k] = saved[k] + lost[k] + Amount(dump[d], k)
  <2>1. saved \in Totals /\ lost \in Totals
    BY DEF StoreTypes
  <2>2. \A k \in CounterKeys : saved[k] \in Nat /\ lost[k] \in Nat /\ Amount(dump[d], k) \in Nat
    BY <1>2, <2>1, AmountsAreNumbers DEF Totals
  <2> QED BY <1>2, <1>4, <2>1, <2>2, PlusAdds
<1>6. \/ saved' = saved /\ \A k \in CounterKeys : lost'[k] >= lost[k]
      \/ lost' = lost /\ \A k \in CounterKeys : saved'[k] >= saved[k]
  <2>1. \A k \in CounterKeys : saved[k] \in Nat /\ lost[k] \in Nat /\ Amount(dump[d], k) \in Nat
    BY <1>2, AmountsAreNumbers DEF StoreTypes, Totals
  <2>2. saved \in Totals /\ lost \in Totals
    BY DEF StoreTypes
  <2>3. \A k \in CounterKeys : /\ Plus(lost, dump[d])[k] >= lost[k]
                               /\ Plus(saved, dump[d])[k] >= saved[k]
    BY <1>2, <2>1, <2>2, PlusAdds
  <2> QED BY <1>4, <2>3
<1>7. StoreTypes'
  BY <1>1, <1>3, <1>5 DEF StoreTypes
<1>8. EachUnitIsInOneReport'
  <2> SUFFICES ASSUME NEW k \in CounterKeys
               PROVE  added'[k] = InReport(heartbeat', k) + InFlight(k)' + saved'[k] + lost'[k]
    BY DEF EachUnitIsInOneReport
  <2>1. added[k] = InReport(heartbeat, k) + InFlight(k) + saved[k] + lost[k]
    BY DEF EachUnitIsInOneReport
  <2>2. InFlight(k)' + Amount(dump[d], k) = InFlight(k) + Amount(dump'[d], k)
        /\ InFlight(k) \in Nat /\ InFlight(k)' \in Nat
    BY <1>3, InFlightIsExact
  <2>3. Amount(dump[d], k) \in Nat /\ Amount(dump'[d], k) = 0 /\ InReport(heartbeat, k) \in Nat
    BY <1>2, <1>3, AmountsAreNumbers DEF StoreTypes
  <2>4. saved[k] \in Nat /\ lost[k] \in Nat /\ saved'[k] \in Nat /\ lost'[k] \in Nat
    BY <1>5 DEF StoreTypes, Totals
  <2> QED BY <1>1, <1>5, <2>1, <2>2, <2>3, <2>4
<1>9. SessionsAreExact'
  BY <1>1 DEF SessionsAreExact
<1> QED BY <1>1, <1>6, <1>7, <1>8, <1>9

\* Whatever a step does to the store, every unit stays in one place.
LEMMA StoreStepKeepsStore ==
  ASSUME StoreInv, StoreStep
  PROVE  StoreInv'
<1>1. CASE UNCHANGED storeVars
  BY <1>1 DEF storeVars, StoreInv, StoreTypes, EachUnitIsInOneReport, SessionsAreExact, InFlight
<1> QED BY <1>1, PutKeepsStore, StartSessionKeepsStore, TakeHeartbeatKeepsStore,
           EndSessionKeepsStore, SaveReportKeepsStore DEF StoreStep

\* The store starts empty.
LEMMA StoreInitHolds == StoreInit => StoreInv
<1> SUFFICES ASSUME StoreInit PROVE StoreInv
  OBVIOUS
<1> USE DEF StoreInit
<1>1. StoreTypes
  BY NewReportIsGood, AmountsAreNumbers DEF StoreTypes, Zero, Totals
<1>2. EachUnitIsInOneReport
  BY NewReportIsGood, AmountsAreNumbers DEF EachUnitIsInOneReport, InFlight, Zero, Dumpers
<1>3. SessionsAreExact
  BY DEF SessionsAreExact
<1> QED BY <1>1, <1>2, <1>3 DEF StoreInv

-----------------------------------------------------------------------------
(* The sources of readings, and what each of them leaves alone.            *)

BatteryReading ==
  [level : GoodLevels, state : {"none", "Discharging", "Charging"}, finite : BOOLEAN]

\* The values of the variables at time n.
TrackerSet(n) ==
  [pc : {"sleep", "hours", "crashfree", "adding"}, mark : 0..n, crashFree : 0..n, count : Nat,
   hours : Nat, freeHours : Nat]
HttpSet(n) ==
  [op : {"idle", "crash", "session", "battery"}, at : 0..n, reading : BatteryReading]
BatterySet(n) == [previous : BatteryReading, last : 0..n]
ConnSet(n) ==
  [pc : {"sleep", "elapsed", "trying"}, last : -1..n, at : 0..n, since : 0..n, first : -1..n,
   between : Nat, checks : Nat]
LinkSet == [Conns -> [state : {"new", "open", "closed"}, read : Nat, collected : Nat]]
LineSet == [conn : Conns, number : Nat]
SeenSet ==
  [crashed : Nat, collected : SUBSET Nat, free : SUBSET (Nat \X Nat), at : Nat,
   refused : BOOLEAN]

SourceTypes ==
  /\ now \in Nat /\ skew \in Int /\ enabled \in BOOLEAN
  /\ main \in {"loop", "round", "forced", "upload", "shutdown", "exited"}
  /\ batteryLock \in {"free", "command"} /\ collector \in {"running", "dead"}
  /\ tracker \in TrackerSet(now) /\ crashes \in Seq(0..now)
  /\ http \in HttpSet(now) /\ battery \in BatterySet(now) /\ conn \in ConnSet(now)
  /\ link \in LinkSet /\ lines \in Seq(LineSet) /\ Len(lines) <= MaxBuffered
  /\ seen \in SeenSet

TrackerKeys == {"operational_hours", "operational_crashfree_hours", "operational_crashes"}
BatteryKeys == {"battery_discharge_duration_ms", "battery_soc_pct_drop"}
ConnKeys == {"connectivity_connected_time_ms", "connectivity_expected_time_ms"}
LogKeys == {"log_matches"}

BatteryActs == (\E r \in BatteryReadings : BatteryCommandEnds(r)) \/ BatteryPushed
ConnActs ==
  CheckConnection \/ CheckElapsed \/ \E connected \in BOOLEAN : Checked(connected)
TrackerActs == TrackerCollects \/ TrackerHours \/ TrackerCrashFree \/ TrackerAdds \/ CrashReported

\* The counters of ks do not change.
Still(ks) == \A k \in ks : added'[k] = added[k]

\* What the actions do that belong to no source.
OtherStep ==
  /\ UNCHANGED <<crashVars, battery, conn, logVars, seen, enabled>>
  /\ now' \in {now, now + 1} /\ skew' \in {skew, skew - 2}
  /\ main' \in {"loop", "round", "forced", "upload", "shutdown", "exited"}
  /\ batteryLock' \in {"free", "command"}
  /\ \/ http' = http \/ http' = [Idle EXCEPT !.op = "session"] \/ http' = Idle
     \/ http' = [Idle EXCEPT !.op = "crash", !.at = now]
     \/ \E r \in BatteryReadings : http' = [Idle EXCEPT !.op = "battery", !.reading = r]
  /\ Still(TrackerKeys \cup BatteryKeys \cup ConnKeys \cup LogKeys)

USE DEF inputVars, crashVars, monitorVars, logVars,
  TrackerSet, HttpSet, BatterySet, ConnSet, LinkSet, LineSet, SeenSet

\* The counters of memfaultd itself are counters, and the battery's level is not.
LEMMA OwnKeys ==
  /\ TrackerKeys \cup BatteryKeys \cup ConnKeys \cup LogKeys \subseteq CounterKeys
  /\ OwnCounters \subseteq CounterKeys /\ SocKey \notin CounterKeys /\ SocKey \in Keys
  /\ CounterKeys \subseteq Keys
  BY MetricsAssumption, StoreAssumption
  DEF OwnCounters, TrackerKeys, BatteryKeys, ConnKeys, LogKeys, Keys

\* A time is its whole milliseconds and less than one more.
LEMMA MillisRoundDown ==
  ASSUME NEW d \in Nat
  PROVE  /\ Milli \in Nat \ {0} /\ Millis(d) \in Nat /\ Milli * Millis(d) \in Nat
         /\ Milli * Millis(d) <= d /\ d <= Milli * Millis(d) + (Milli - 1)
<1>1. Milli \in Nat \ {0}
  BY MilliAssumption
<1>2. \A m \in Nat \ {0} : /\ d \div m \in Nat /\ m * (d \div m) \in Nat
                            /\ m * (d \div m) <= d /\ d <= m * (d \div m) + (m - 1)
  OBVIOUS
<1> QED BY <1>1, <1>2 DEF Millis

\* Readings leave the counters they do not name alone.
LEMMA PutElsewhere ==
  ASSUME NEW ms, Put(ms), NEW k \in CounterKeys, k \notin DOMAIN ms
  PROVE  added'[k] = added[k]
  BY DEF Put, Added

\* Readings increase the counters they name by their values.
LEMMA PutHere ==
  ASSUME NEW ms, Put(ms), NEW k \in CounterKeys \cap DOMAIN ms
  PROVE  added'[k] = added[k] + ms[k].value
  BY DEF Put, Added

\* Steps of the store without readings.
LEMMA QuietStore ==
  ASSUME \/ UNCHANGED storeVars
         \/ \E s \in SessionNames : StartSession(s)
         \/ \E d \in Dumpers, fails \in BOOLEAN : TakeHeartbeat(d, fails)
         \/ \E s \in SessionNames, fails \in BOOLEAN : EndSession(s, fails)
         \/ \E d \in Dumpers, fails \in BOOLEAN : SaveReport(d, fails)
  PROVE  added' = added
  BY DEF storeVars, StartSession, TakeHeartbeat, EndSession, SaveReport

\* The fields of a counter's reading.
LEMMA CountFields ==
  \A v, at : /\ Count(v, at).kind = "counter" /\ Count(v, at).finite = TRUE
             /\ Count(v, at).value = v
  BY DEF Count

\* One counter reading.
LEMMA OneReading ==
  ASSUME NEW key \in CounterKeys, NEW ms, DOMAIN ms = {key}, ms[key].kind = "counter",
         ms[key].finite = TRUE, ms[key].value \in Nat
  PROVE  GoodReadings(ms)
  BY CountFields, OwnKeys DEF GoodReadings

\* collectd has no readings of the counters of memfaultd, and only counts for counters.
LEMMA ReadingsAreGood ==
  ASSUME NEW p \in Payloads
  PROVE  /\ GoodReadings(Readings(p))
         /\ DOMAIN Readings(p) \cap (OwnCounters \cup {SocKey}) = {}
<1> DEFINE D == {k \in Keys \cap DOMAIN p.values : p.values[k].present}
<1>1. DOMAIN Readings(p) = D
  BY DEF Readings
<1>2. ASSUME NEW k \in D
      PROVE  /\ k \notin OwnCounters \cup {SocKey}
             /\ k \in CounterKeys => /\ p.type = "count" /\ p.values[k].dstype = "gauge"
                                     /\ p.values[k].value \in Nat
  BY MetricsAssumption
<1>3. ASSUME NEW k \in CounterKeys \cap D
      PROVE  Readings(p)[k] = Count(p.values[k].value, Wall)
  BY <1>2 DEF Readings
<1> QED BY <1>1, <1>2, <1>3, CountFields DEF GoodReadings

\* The actions that belong to no source.
OtherActs ==
  \/ Tick \/ SetBack
  \/ \E fails \in BOOLEAN : HeartbeatDue(fails)
  \/ \E fails \in BOOLEAN : \E d \in Dumpers : Saved(d, fails)
  \/ MainLoop \/ CrashRequest
  \/ \E key \in {"sync_successful", "sync_failure"} : SyncEvent(key)
  \/ \E payload \in Payloads : Collectd(payload)
  \/ \E s \in SessionNames : SessionStart(s)
  \/ \E s \in SessionNames : \E fails \in BOOLEAN : SessionEnd(s, fails)
  \/ \E r \in BatteryReadings : BatteryPush(r)
  \/ BatteryCommand \/ BatteryCommandFails

\* Readings of other counters leave those of the sources alone.
LEMMA PutByOthers ==
  ASSUME NEW ms, Put(ms), GoodReadings(ms),
         DOMAIN ms \cap (TrackerKeys \cup BatteryKeys \cup ConnKeys \cup LogKeys) = {}
  PROVE  Still(TrackerKeys \cup BatteryKeys \cup ConnKeys \cup LogKeys) /\ StoreStep
  BY OwnKeys, PutElsewhere DEF Still, StoreStep

\* A step of the store without readings leaves them alone too.
LEMMA QuietSteps ==
  /\ UNCHANGED storeVars => StoreStep /\ added' = added
  /\ \A s \in SessionNames : StartSession(s) => StoreStep /\ added' = added
  /\ \A d \in Dumpers, fails \in BOOLEAN : TakeHeartbeat(d, fails) => StoreStep /\ added' = added
  /\ \A s \in SessionNames, fails \in BOOLEAN : EndSession(s, fails) => StoreStep /\ added' = added
  /\ \A d \in Dumpers, fails \in BOOLEAN : SaveReport(d, fails) => StoreStep /\ added' = added
  BY QuietStore DEF StoreStep

\* The main loop adds no more than the counters of its own uploads.
LEMMA MainLoopIsOther ==
  ASSUME SourceTypes, MainLoop
  PROVE  OtherStep /\ StoreStep
<1> USE DEF OtherStep, SourceTypes
<1>0. /\ "main" \in Dumpers
      /\ added' = added => Still(TrackerKeys \cup BatteryKeys \cup ConnKeys \cup LogKeys)
  BY DEF Dumpers, Still
<1>1. CASE \E forced, fails \in BOOLEAN : Round(forced, fails)
  <2> PICK forced, fails \in BOOLEAN : Round(forced, fails)
    BY <1>1
  <2>1. StoreStep /\ added' = added
    BY <1>0, QuietSteps DEF Round
  <2> QED BY <1>0, <2>1 DEF Round
<1>2. CASE \E fails \in BOOLEAN : RoundSaved(fails)
  <2>1. StoreStep /\ added' = added
    BY <1>0, <1>2, QuietSteps DEF RoundSaved
  <2> QED BY <1>0, <1>2, <2>1 DEF RoundSaved
<1>3. CASE Upload
  <2>1. StoreStep /\ added' = added
    BY <1>3, QuietSteps DEF Upload
  <2> QED BY <1>0, <1>3, <2>1 DEF Upload
<1>4. CASE \E result \in {"nothing", "ok", "error"} : Uploaded(result)
  <2> PICK result \in {"nothing", "ok", "error"} : Uploaded(result)
    BY <1>4
  <2>1. CASE result = "nothing"
    <3>1. StoreStep /\ added' = added
      BY <2>1, QuietSteps DEF Uploaded
    <3> QED BY <1>0, <2>1, <3>1 DEF Uploaded
  <2>2. CASE result = "ok"
    <3> DEFINE ms == [sync_memfault_successful |-> Count(1, Wall)]
    <3>1. Put(ms)
      BY <2>2 DEF Uploaded
    <3>2. /\ DOMAIN ms = {"sync_memfault_successful"}
          /\ LET m == ms["sync_memfault_successful"]
             IN  m.kind = "counter" /\ m.finite = TRUE /\ m.value \in Nat
      <4>1. /\ DOMAIN ms = {"sync_memfault_successful"}
            /\ ms["sync_memfault_successful"] = Count(1, Wall)
        OBVIOUS
      <4> HIDE DEF ms, OtherStep, SourceTypes
      <4>2. LET m == Count(1, Wall)
            IN  m.kind = "counter" /\ m.finite = TRUE /\ m.value = 1
        BY CountFields
      <4> QED BY <4>1, <4>2
    <3>3. "sync_memfault_successful" \in CounterKeys
      BY OwnKeys DEF OwnCounters
    <3> HIDE DEF ms
    <3>4. GoodReadings(ms)
      BY <3>2, <3>3, OneReading
    <3>5. Still(TrackerKeys \cup BatteryKeys \cup ConnKeys \cup LogKeys) /\ StoreStep
      BY <3>1, <3>2, <3>4, PutByOthers DEF TrackerKeys, BatteryKeys, ConnKeys, LogKeys
    <3> QED BY <3>5 DEF Uploaded
  <2>3. CASE result = "error"
    <3> DEFINE ms == [sync_memfault_failure |-> Count(1, Wall)]
    <3>1. Put(ms)
      BY <2>3 DEF Uploaded
    <3>2. /\ DOMAIN ms = {"sync_memfault_failure"}
          /\ LET m == ms["sync_memfault_failure"]
             IN  m.kind = "counter" /\ m.finite = TRUE /\ m.value \in Nat
      <4>1. DOMAIN ms = {"sync_memfault_failure"} /\ ms["sync_memfault_failure"] = Count(1, Wall)
        OBVIOUS
      <4> HIDE DEF ms, OtherStep, SourceTypes
      <4>2. LET m == Count(1, Wall)
            IN  m.kind = "counter" /\ m.finite = TRUE /\ m.value = 1
        BY CountFields
      <4> QED BY <4>1, <4>2
    <3>3. "sync_memfault_failure" \in CounterKeys
      BY OwnKeys DEF OwnCounters
    <3> HIDE DEF ms
    <3>4. GoodReadings(ms)
      BY <3>2, <3>3, OneReading
    <3>5. Still(TrackerKeys \cup BatteryKeys \cup ConnKeys \cup LogKeys) /\ StoreStep
      BY <3>1, <3>2, <3>4, PutByOthers DEF TrackerKeys, BatteryKeys, ConnKeys, LogKeys
    <3> QED BY <3>5 DEF Uploaded
  <2> QED BY <2>1, <2>2, <2>3
<1>5. CASE \E fails \in BOOLEAN : Shutdown(fails)
  <2>1. StoreStep /\ added' = added
    BY <1>0, <1>5, QuietSteps DEF Shutdown
  <2> QED BY <1>0, <1>5, <2>1 DEF Shutdown
<1>6. CASE \E fails \in BOOLEAN : Exit(fails)
  <2>1. StoreStep /\ added' = added
    BY <1>0, <1>6, QuietSteps DEF Exit
  <2> QED BY <1>0, <1>6, <2>1 DEF Exit
<1> QED BY <1>1, <1>2, <1>3, <1>4, <1>5, <1>6 DEF MainLoop

\* The actions that belong to no source leave the sources alone.
LEMMA OtherActsAreOther ==
  ASSUME SourceTypes, OtherActs
  PROVE  OtherStep /\ StoreStep
<1> USE DEF OtherStep, SourceTypes
<1>0. {"timer", "http"} \subseteq Dumpers
      /\ (added' = added => Still(TrackerKeys \cup BatteryKeys \cup ConnKeys \cup LogKeys))
  BY DEF Dumpers, Still
<1>1. CASE Tick \/ SetBack \/ CrashRequest \/ BatteryCommand \/ BatteryCommandFails
  <2>1. StoreStep /\ added' = added
    BY <1>1, QuietSteps DEF Tick, SetBack, CrashRequest, BatteryCommand, BatteryCommandFails
  <2> QED BY <1>0, <1>1, <2>1 DEF Tick, SetBack, CrashRequest, BatteryCommand, BatteryCommandFails
<1>2. CASE \E fails \in BOOLEAN : HeartbeatDue(fails)
  <2>1. StoreStep /\ added' = added
    BY <1>0, <1>2, QuietSteps DEF HeartbeatDue
  <2> QED BY <1>0, <1>2, <2>1 DEF HeartbeatDue
<1>3. CASE \E fails \in BOOLEAN : \E d \in Dumpers : Saved(d, fails)
  <2>1. StoreStep /\ added' = added
    BY <1>0, <1>3, QuietSteps DEF Saved
  <2> QED BY <1>0, <1>3, <2>1 DEF Saved
<1>4. CASE \E key \in {"sync_successful", "sync_failure"} : SyncEvent(key)
  <2> PICK key \in {"sync_successful", "sync_failure"} : SyncEvent(key)
    BY <1>4
  <2>1. CASE ~enabled
    <3>1. StoreStep /\ added' = added
      BY <2>1, QuietSteps DEF SyncEvent
    <3> QED BY <1>0, <3>1 DEF SyncEvent
  <2>2. CASE enabled
    <3> DEFINE ms == [k \in {key} |-> Count(1, Wall)]
    <3>1. Put(ms)
      BY <2>2 DEF SyncEvent
    <3>2. /\ DOMAIN ms = {key}
          /\ ms[key].kind = "counter" /\ ms[key].finite = TRUE /\ ms[key].value \in Nat
      <4>1. DOMAIN ms = {key} /\ ms[key] = Count(1, Wall)
        OBVIOUS
      <4> HIDE DEF ms, OtherStep, SourceTypes
      <4>2. LET m == Count(1, Wall)
            IN  m.kind = "counter" /\ m.finite = TRUE /\ m.value = 1
        BY CountFields
      <4> QED BY <4>1, <4>2
    <3>3. key \in CounterKeys
      BY OwnKeys DEF OwnCounters
    <3> HIDE DEF ms
    <3>4. GoodReadings(ms)
      BY <3>2, <3>3, OneReading
    <3>5. Still(TrackerKeys \cup BatteryKeys \cup ConnKeys \cup LogKeys) /\ StoreStep
      BY <3>1, <3>2, <3>4, PutByOthers DEF TrackerKeys, BatteryKeys, ConnKeys, LogKeys
    <3> QED BY <3>5 DEF SyncEvent
  <2> QED BY <2>1, <2>2
<1>5. CASE \E payload \in Payloads : Collectd(payload)
  <2> PICK payload \in Payloads : Collectd(payload)
    BY <1>5
  <2>1. CASE ~enabled
    <3>1. StoreStep /\ added' = added
      BY <2>1, QuietSteps DEF Collectd
    <3> QED BY <1>0, <3>1 DEF Collectd
  <2>2. CASE enabled
    <3>1. Put(Readings(payload))
      BY <2>2 DEF Collectd
    <3>2. /\ GoodReadings(Readings(payload))
          /\ DOMAIN Readings(payload) \cap OwnCounters = {}
      BY ReadingsAreGood
    <3>3. Still(TrackerKeys \cup BatteryKeys \cup ConnKeys \cup LogKeys) /\ StoreStep
      BY <3>1, <3>2, PutByOthers DEF OwnCounters, TrackerKeys, BatteryKeys, ConnKeys, LogKeys
    <3> QED BY <3>3 DEF Collectd
  <2> QED BY <2>1, <2>2
<1>6. CASE \E s \in SessionNames : SessionStart(s)
  <2>1. StoreStep /\ added' = added
    BY <1>0, <1>6, QuietSteps DEF SessionStart
  <2> QED BY <1>0, <1>6, <2>1 DEF SessionStart
<1>7. CASE \E s \in SessionNames : \E fails \in BOOLEAN : SessionEnd(s, fails)
  <2>1. StoreStep /\ added' = added
    BY <1>0, <1>7, QuietSteps DEF SessionEnd
  <2> QED BY <1>0, <1>7, <2>1 DEF SessionEnd
<1>8. CASE \E r \in BatteryReadings : BatteryPush(r)
  <2>1. StoreStep /\ added' = added
    BY <1>8, QuietSteps DEF BatteryPush
  <2> QED BY <1>0, <1>8, <2>1 DEF BatteryPush
<1>9. CASE MainLoop
  BY <1>9, MainLoopIsOther
<1> QED BY <1>1, <1>2, <1>3, <1>4, <1>5, <1>6, <1>7, <1>8, <1>9 DEF OtherActs

-----------------------------------------------------------------------------
(* What the sources do.                                                    *)

OtherKeys(ks) == (TrackerKeys \cup BatteryKeys \cup ConnKeys \cup LogKeys) \ ks

\* The readings of the battery command and of the HTTP handler are battery readings.
LEMMA BatteryReadingsAreGood ==
  /\ BatteryReadings \subseteq BatteryReading
  /\ NoReading \in BatteryReading
<1>0. Levels \subseteq Nat /\ Levels # {}
  BY MetricsAssumption
<1>1. \A l \in Levels : l \in GoodLevels
  <2> TAKE l \in Levels
  <2>1. l \in Nat /\ l <= l
    BY <1>0
  <2> QED BY <2>1 DEF GoodLevels
<1>2. 0 \in GoodLevels
  <2>1. PICK l \in Levels : TRUE
    BY <1>0
  <2>2. l \in Nat /\ 0 <= l
    BY <1>0
  <2> QED BY <2>2 DEF GoodLevels
<1>3. ASSUME NEW r \in [level : Levels, state : {"Discharging"}, finite : {TRUE}]
      PROVE  r \in BatteryReading
  BY <1>1 DEF BatteryReading
<1>4. /\ [level |-> 0, state |-> "Charging", finite |-> TRUE] \in BatteryReading
      /\ [level |-> 0, state |-> "Discharging", finite |-> FALSE] \in BatteryReading
      /\ NoReading \in BatteryReading
  BY <1>2 DEF BatteryReading, NoReading
<1> HIDE DEF BatteryReading
<1> QED BY <1>3, <1>4 DEF BatteryReadings

\* update_metrics adds to the two battery counters, and to no other.
LEMMA UpdateMetricsAdds ==
  ASSUME SourceTypes, NEW r \in BatteryReading, UpdateMetrics(r)
  PROVE  /\ StoreStep /\ Still(OtherKeys(BatteryKeys))
         /\ LET discharging == r.state = "Discharging" /\ battery.previous.state = "Discharging"
            IN  /\ added'["battery_discharge_duration_ms"] =
                     added["battery_discharge_duration_ms"]
                       + (IF discharging THEN Millis(now - battery.last) ELSE 0)
                /\ battery' = IF r.finite THEN [previous |-> r, last |-> now] ELSE battery
                /\ seen' = [seen EXCEPT !.refused = @ \/ (discharging /\ ~r.finite)]
<1> DEFINE p == battery.previous
           discharging == r.state = "Discharging" /\ p.state = "Discharging"
           time == now - battery.last
           drop == IF r.finite /\ p.level > r.level THEN p.level - r.level ELSE 0
           ms == [battery_discharge_duration_ms |-> Count(IF discharging THEN Millis(time) ELSE 0,
                                                          Wall),
                  battery_soc_pct_drop |-> Count(IF discharging THEN drop ELSE 0, Wall),
                  battery_soc_pct |-> Gauge(r.level, r.finite, Wall, time)]
<1>1. /\ Put(ms)
      /\ battery' = IF r.finite THEN [previous |-> r, last |-> now] ELSE battery
      /\ seen' = [seen EXCEPT !.refused = @ \/ (discharging /\ ~r.finite)]
  BY DEF UpdateMetrics
<1>2. /\ p \in BatteryReading /\ now \in Nat /\ battery.last \in 0..now /\ Wall \in Int
      /\ p.level \in Nat /\ r.level \in Nat
  BY DEF SourceTypes, BatteryReading, Wall, GoodLevels
<1>3. time \in Nat /\ Millis(time) \in Nat /\ drop \in Nat
  <2>1. time \in Nat /\ drop \in Nat
    BY <1>2 DEF BatteryReading
  <2> HIDE DEF time, drop
  <2> QED BY <2>1, MillisRoundDown
<1>4. /\ DOMAIN ms = BatteryKeys \cup {SocKey}
      /\ ms["battery_discharge_duration_ms"] =
           Count(IF discharging THEN Millis(time) ELSE 0, Wall)
      /\ ms["battery_soc_pct_drop"] = Count(IF discharging THEN drop ELSE 0, Wall)
      /\ ms[SocKey] = Gauge(r.level, r.finite, Wall, time)
  BY DEF BatteryKeys, SocKey
<1> HIDE DEF ms, time, drop, discharging, p
<1>5. GoodLevel(ms[SocKey])
  BY <1>2, <1>3, <1>4 DEF GoodLevel, Gauge, BatteryReading
<1>6. /\ ms["battery_discharge_duration_ms"].kind = "counter"
      /\ ms["battery_discharge_duration_ms"].finite = TRUE
      /\ ms["battery_discharge_duration_ms"].value =
           (IF discharging THEN Millis(time) ELSE 0)
      /\ ms["battery_soc_pct_drop"].kind = "counter"
      /\ ms["battery_soc_pct_drop"].finite = TRUE
      /\ ms["battery_soc_pct_drop"].value = (IF discharging THEN drop ELSE 0)
  BY <1>4 DEF Count
<1>7. GoodReadings(ms)
  BY <1>3, <1>4, <1>5, <1>6, OwnKeys DEF GoodReadings, BatteryKeys
<1>8. Still(OtherKeys(BatteryKeys))
  <2>1. OtherKeys(BatteryKeys) \cap DOMAIN ms = {} /\ OtherKeys(BatteryKeys) \subseteq CounterKeys
    BY <1>4, OwnKeys DEF OtherKeys, TrackerKeys, BatteryKeys, ConnKeys, LogKeys, SocKey
  <2> QED BY <1>1, <2>1, PutElsewhere DEF Still
<1>9. "battery_discharge_duration_ms" \in CounterKeys \cap DOMAIN ms
  BY <1>4, OwnKeys DEF BatteryKeys
<1>10. added'["battery_discharge_duration_ms"] =
         added["battery_discharge_duration_ms"] + (IF discharging THEN Millis(time) ELSE 0)
  BY <1>1, <1>6, <1>9, PutHere
<1> QED BY <1>1, <1>7, <1>8, <1>10 DEF StoreStep, discharging, time, p

\* A battery reading changes the monitor and its two counters only.
LEMMA BatteryActsFrame ==
  ASSUME SourceTypes, BatteryActs
  PROVE  /\ StoreStep /\ Still(OtherKeys(BatteryKeys))
         /\ UNCHANGED <<inputVars, main, crashVars, conn, logVars>>
         /\ http' \in {http, Idle} /\ batteryLock' \in {"free", "command"}
         /\ \E r \in BatteryReading : UpdateMetrics(r)
<1>1. CASE \E r \in BatteryReadings : BatteryCommandEnds(r)
  BY <1>1, BatteryReadingsAreGood, UpdateMetricsAdds DEF BatteryCommandEnds, SourceTypes
<1>2. CASE BatteryPushed
  <2>1. http.reading \in BatteryReading
    BY DEF SourceTypes
  <2> QED BY <1>2, <2>1, UpdateMetricsAdds DEF BatteryPushed, SourceTypes
<1> QED BY <1>1, <1>2 DEF BatteryActs

\* A check adds the whole milliseconds since the check before.
LEMMA CheckedAdds ==
  ASSUME SourceTypes, NEW connected \in BOOLEAN, Checked(connected)
  PROVE  /\ StoreStep /\ Still(OtherKeys(ConnKeys))
         /\ added'["connectivity_connected_time_ms"] =
              added["connectivity_connected_time_ms"]
                + Millis(IF connected THEN conn.since ELSE 0)
         /\ added'["connectivity_expected_time_ms"] =
              added["connectivity_expected_time_ms"] + Millis(conn.since)
         /\ conn.since \in Nat
<1> DEFINE up == IF connected THEN conn.since ELSE 0
           ms == [connectivity_connected_time_ms |-> Count(Millis(up), Wall),
                  connectivity_expected_time_ms |-> Count(Millis(conn.since), Wall)]
<1>0. Put(ms) /\ conn.since \in Nat /\ up \in Nat
  BY DEF Checked, SourceTypes
<1> HIDE DEF up
<1>1. Put(ms) /\ conn.since \in Nat /\ Millis(up) \in Nat /\ Millis(conn.since) \in Nat
  BY <1>0, MillisRoundDown
<1>2. DOMAIN ms = ConnKeys
  BY DEF ConnKeys
<1>3. /\ ms["connectivity_connected_time_ms"] = Count(Millis(up), Wall)
      /\ ms["connectivity_expected_time_ms"] = Count(Millis(conn.since), Wall)
  OBVIOUS
<1> HIDE DEF ms
<1>4. \A k \in ConnKeys : ms[k].kind = "counter" /\ ms[k].finite = TRUE /\ ms[k].value \in Nat
  BY <1>1, <1>3 DEF ConnKeys, Count
<1>5. /\ ms["connectivity_connected_time_ms"].value = Millis(up)
      /\ ms["connectivity_expected_time_ms"].value = Millis(conn.since)
  BY <1>3 DEF Count
<1>6. GoodReadings(ms)
  BY <1>2, <1>4, OwnKeys DEF GoodReadings
<1>7. Still(OtherKeys(ConnKeys))
  <2>1. OtherKeys(ConnKeys) \cap DOMAIN ms = {} /\ OtherKeys(ConnKeys) \subseteq CounterKeys
    BY <1>2, OwnKeys DEF OtherKeys
  <2> QED BY <1>1, <2>1, PutElsewhere DEF Still
<1>8. \A k \in ConnKeys : added'[k] = added[k] + ms[k].value
  BY <1>1, <1>2, OwnKeys, PutHere
<1> QED BY <1>1, <1>5, <1>6, <1>7, <1>8 DEF StoreStep, ConnKeys, up

\* A connectivity check changes the monitor and its two counters only.
LEMMA ConnActsFrame ==
  ASSUME SourceTypes, ConnActs
  PROVE  /\ StoreStep /\ Still(OtherKeys(ConnKeys))
         /\ UNCHANGED <<now, skew, enabled, main, http, crashVars, battery, batteryLock,
                        logVars, seen>>
<1>1. CASE CheckConnection \/ CheckElapsed
  BY <1>1, QuietSteps DEF CheckConnection, CheckElapsed, Still
<1>2. CASE \E connected \in BOOLEAN : Checked(connected)
  BY <1>2, CheckedAdds DEF Checked
<1> QED BY <1>1, <1>2 DEF ConnActs

\* TrackerAdds adds what update() has counted.
LEMMA TrackerAddsAdds ==
  ASSUME SourceTypes, TrackerAdds
  PROVE  /\ StoreStep /\ Still(OtherKeys(TrackerKeys))
         /\ added'["operational_hours"] = added["operational_hours"] + tracker.hours
         /\ added'["operational_crashfree_hours"] =
              added["operational_crashfree_hours"] + tracker.freeHours
         /\ added'["operational_crashes"] = added["operational_crashes"] + tracker.count
<1> DEFINE ms == [operational_hours |-> Count(tracker.hours, Wall),
                  operational_crashfree_hours |-> Count(tracker.freeHours, Wall),
                  operational_crashes |-> Count(tracker.count, Wall)]
<1>1. Put(ms) /\ tracker.hours \in Nat /\ tracker.freeHours \in Nat /\ tracker.count \in Nat
  BY DEF TrackerAdds, SourceTypes
<1>2. DOMAIN ms = TrackerKeys
  BY DEF TrackerKeys
<1>3. /\ ms["operational_hours"] = Count(tracker.hours, Wall)
      /\ ms["operational_crashfree_hours"] = Count(tracker.freeHours, Wall)
      /\ ms["operational_crashes"] = Count(tracker.count, Wall)
  OBVIOUS
<1> HIDE DEF ms
<1>4. \A k \in TrackerKeys : ms[k].kind = "counter" /\ ms[k].finite = TRUE /\ ms[k].value \in Nat
  BY <1>1, <1>3 DEF TrackerKeys, Count
<1>5. /\ ms["operational_hours"].value = tracker.hours
      /\ ms["operational_crashfree_hours"].value = tracker.freeHours
      /\ ms["operational_crashes"].value = tracker.count
  BY <1>3 DEF Count
<1>6. GoodReadings(ms)
  BY <1>2, <1>4, OwnKeys DEF GoodReadings
<1>7. Still(OtherKeys(TrackerKeys))
  <2>1. OtherKeys(TrackerKeys) \cap DOMAIN ms = {} /\ OtherKeys(TrackerKeys) \subseteq CounterKeys
    BY <1>2, OwnKeys DEF OtherKeys
  <2> QED BY <1>1, <2>1, PutElsewhere DEF Still
<1>8. \A k \in TrackerKeys : added'[k] = added[k] + ms[k].value
  BY <1>1, <1>2, OwnKeys, PutHere
<1> QED BY <1>1, <1>5, <1>6, <1>7, <1>8 DEF StoreStep, TrackerKeys

\* The crash-free tracker changes its own state and its three counters only.
LEMMA TrackerActsFrame ==
  ASSUME SourceTypes, TrackerActs
  PROVE  /\ StoreStep /\ Still(OtherKeys(TrackerKeys))
         /\ ~TrackerAdds => added' = added
         /\ UNCHANGED <<inputVars, main, monitorVars, logVars>>
         /\ http' \in {http, Idle} /\ seen'.refused = seen.refused
<1>1. CASE TrackerAdds
  BY <1>1, TrackerAddsAdds DEF TrackerAdds
<1>2. CASE ~TrackerAdds
  <2>1. added' = added /\ StoreStep
    BY <1>2, QuietSteps DEF TrackerActs, TrackerCollects, TrackerHours, TrackerCrashFree,
       CrashReported
  <2>2. UNCHANGED <<inputVars, main, monitorVars, logVars>> /\ http' \in {http, Idle}
    BY <1>2 DEF TrackerActs, TrackerCollects, TrackerHours, TrackerCrashFree, CrashReported
  <2>3. seen'.refused = seen.refused
    BY <1>2 DEF TrackerActs, TrackerCollects, TrackerHours, TrackerCrashFree, CrashReported,
       SourceTypes
  <2> QED BY <2>1, <2>2, <2>3 DEF Still
<1> QED BY <1>1, <1>2

LineActs == (\E c \in Conns : Connect(c) \/ Receive(c)) \/ Collect

\* The collector counts one match for a line that matches and nothing for another.
LEMMA CollectAdds ==
  ASSUME SourceTypes, Collect
  PROVE  /\ StoreStep /\ Still(OtherKeys(LogKeys))
         /\ IF Message(Head(lines)) = "match"
            THEN added'["log_matches"] = added["log_matches"] + 1
            ELSE added' = added
<1>1. CASE Message(Head(lines)) = "match"
  <2> DEFINE ms == [log_matches |-> Count(1, Wall)]
  <2>1. Put(ms)
    BY <1>1 DEF Collect
  <2>2. /\ DOMAIN ms = LogKeys
        /\ ms["log_matches"].kind = "counter" /\ ms["log_matches"].finite = TRUE
        /\ ms["log_matches"].value = 1
    BY CountFields DEF LogKeys
  <2> HIDE DEF ms
  <2>3. GoodReadings(ms)
    BY <2>2, OwnKeys DEF GoodReadings, LogKeys
  <2>4. Still(OtherKeys(LogKeys))
    <3>1. OtherKeys(LogKeys) \cap DOMAIN ms = {} /\ OtherKeys(LogKeys) \subseteq CounterKeys
      BY <2>2, OwnKeys DEF OtherKeys
    <3> QED BY <2>1, <3>1, PutElsewhere DEF Still
  <2>5. added'["log_matches"] = added["log_matches"] + 1
    <3>1. "log_matches" \in CounterKeys \cap DOMAIN ms
      BY <2>2, OwnKeys DEF LogKeys
    <3> QED BY <2>1, <2>2, <3>1, PutHere
  <2> QED BY <1>1, <2>1, <2>3, <2>4, <2>5 DEF StoreStep
<1>2. CASE Message(Head(lines)) # "match"
  <2>1. added' = added /\ StoreStep
    BY <1>2, QuietSteps DEF Collect
  <2> QED BY <1>2, <2>1 DEF Still
<1> QED BY <1>1, <1>2

\* What happens to lines changes the connections, the buffer and the log counter only.
LEMMA LineActsFrame ==
  ASSUME SourceTypes, LineActs
  PROVE  /\ StoreStep /\ Still(OtherKeys(LogKeys))
         /\ ~Collect => added' = added
         /\ UNCHANGED <<now, skew, enabled, main, http, crashVars, monitorVars, seen>>
<1>1. CASE Collect
  BY <1>1, CollectAdds DEF Collect
<1>2. CASE ~Collect
  BY <1>2, QuietSteps DEF LineActs, Connect, Receive, Still
<1> QED BY <1>1, <1>2

\* Every step is one of these.
LEMMA StepsAreSorted ==
  ASSUME [Next]_vars
  PROVE  OtherActs \/ BatteryActs \/ ConnActs \/ TrackerActs \/ LineActs \/ UNCHANGED vars
  BY DEF Next, Timers, Requests, Monitors, Logs, OtherActs, BatteryActs, ConnActs, TrackerActs,
     LineActs

-----------------------------------------------------------------------------
(* Arithmetic.                                                             *)

\* A set of numbers that is not empty has a least one.
LEMMA LeastElement ==
  ASSUME NEW T \in SUBSET Nat, T # {}
  PROVE  \E x \in T : \A y \in T : x <= y
<1>1. PICK x \in T : \A y \in T : ~(<<y, x>> \in OpToRel(<, Nat))
  BY NatLessThanWellFounded, WFMin
<1>2. \A y \in T : ~(y < x)
  BY <1>1 DEF OpToRel
<1> QED BY <1>2

\* A set of numbers that has a bound has a maximum.
LEMMA MaxIsGreatest ==
  ASSUME NEW T, NEW b \in Nat, T \subseteq 0..b, T # {}
  PROVE  Max(T) \in T /\ \A y \in T : Max(T) >= y
<1> DEFINE U == {u \in Nat : \E t \in T : u = b - t}
<1>1. U # {} /\ U \in SUBSET Nat
  <2>1. PICK t \in T : TRUE
    OBVIOUS
  <2>2. b - t \in U
    OBVIOUS
  <2> QED BY <2>2
<1>2. PICK u \in U : \A v \in U : u <= v
  BY <1>1, LeastElement
<1>3. PICK t \in T : u = b - t
  BY <1>2
<1>4. ASSUME NEW y \in T
      PROVE  t >= y
  <2>1. b - y \in U
    OBVIOUS
  <2>2. u <= b - y
    BY <1>2, <2>1
  <2> QED BY <1>3, <2>2
<1>5. \E x \in T : \A y \in T : x >= y
  BY <1>4
<1> QED BY <1>5 DEF Max

\* full_interval_elapsed_since: the mark is the last one that is not after now.
LEMMA FullIntervalsAreExact ==
  ASSUME now \in Nat, NEW since \in 0..now
  PROVE  /\ FullIntervals(since).count \in Nat /\ FullIntervals(since).mark \in since..now
         /\ FullIntervals(since).mark = since + FullIntervals(since).count * Interval
         /\ now - FullIntervals(since).mark < Interval
<1> DEFINE n == (now - since) \div Interval
<1>0. Interval \in Nat \ {0} /\ now - since \in Nat
  BY MetricsAssumption
<1>1. n \in Nat /\ n * Interval <= now - since /\ now - since < n * Interval + Interval
  BY <1>0
<1>2. n * Interval \in Nat
  BY <1>0, <1>1
<1>3. FullIntervals(since) = [count |-> n, mark |-> since + n * Interval]
  BY DEF FullIntervals
<1> HIDE DEF n
<1> QED BY <1>0, <1>1, <1>2, <1>3

-----------------------------------------------------------------------------
(* Type correctness.                                                       *)

\* The times that have passed when an action begins have passed when it ends.
LEMMA LaterIsWider ==
  ASSUME now \in Nat, NEW n \in {now, now + 1}
  PROVE  /\ 0..now \subseteq 0..n /\ -1..now \subseteq -1..n
         /\ Seq(0..now) \subseteq Seq(0..n)
<1>1. 0..now \subseteq 0..n /\ -1..now \subseteq -1..n
  OBVIOUS
<1>2. ASSUME NEW s \in Seq(0..now)
      PROVE  s \in Seq(0..n)
  <2>1. s \in [1..Len(s) -> 0..now] /\ Len(s) \in Nat
    OBVIOUS
  <2>2. s \in [1..Len(s) -> 0..n]
    BY <1>1, <2>1
  <2> QED BY <2>1, <2>2
<1> QED BY <1>1, <1>2

\* What a variable could hold it can hold a step later.
LEMMA SetsGrow ==
  ASSUME NEW n \in Nat
  PROVE  /\ TrackerSet(n) \subseteq TrackerSet(n + 1)
         /\ BatterySet(n) \subseteq BatterySet(n + 1)
         /\ ConnSet(n) \subseteq ConnSet(n + 1)
<1> DEFINE W == 0..n
           W2 == 0..(n + 1)
           V == -1..n
           V2 == -1..(n + 1)
<1>1. W \subseteq W2 /\ V \subseteq V2
  OBVIOUS
<1>2. TrackerSet(n) \subseteq TrackerSet(n + 1)
  <2> SUFFICES [pc : {"sleep", "hours", "crashfree", "adding"}, mark : W, crashFree : W,
                count : Nat, hours : Nat, freeHours : Nat]
               \subseteq [pc : {"sleep", "hours", "crashfree", "adding"}, mark : W2,
                          crashFree : W2, count : Nat, hours : Nat, freeHours : Nat]
    OBVIOUS
  <2> HIDE DEF W, W2
  <2> QED BY <1>1
<1>3. BatterySet(n) \subseteq BatterySet(n + 1)
  <2> SUFFICES [previous : BatteryReading, last : W]
               \subseteq [previous : BatteryReading, last : W2]
    OBVIOUS
  <2> HIDE DEF W, W2, BatteryReading
  <2> QED BY <1>1
<1>4. ConnSet(n) \subseteq ConnSet(n + 1)
  <2> SUFFICES [pc : {"sleep", "elapsed", "trying"}, last : V, at : W, since : W, first : V,
                between : Nat, checks : Nat]
               \subseteq [pc : {"sleep", "elapsed", "trying"}, last : V2, at : W2, since : W2,
                          first : V2, between : Nat, checks : Nat]
    OBVIOUS
  <2> HIDE DEF W, W2, V, V2
  <2> QED BY <1>1
<1> HIDE DEF TrackerSet, BatterySet, ConnSet
<1> QED BY <1>2, <1>3, <1>4

\* Steps of no source keep the types, and so do those of each source.
LEMMA OtherStepKeepsTypes ==
  ASSUME SourceTypes, OtherStep
  PROVE  SourceTypes'
<1>0. now' \in {now, now + 1} /\ now \in Nat
  BY DEF OtherStep, SourceTypes
<1>1. /\ 0..now \subseteq 0..now' /\ -1..now \subseteq -1..now'
      /\ Seq(0..now) \subseteq Seq(0..now') /\ now \in 0..now' /\ 0 \in 0..now' /\ now' \in Nat
  BY <1>0, LaterIsWider
<1>2. /\ tracker \in TrackerSet(now)
      /\ crashes \in Seq(0..now)
      /\ http \in HttpSet(now)
      /\ battery \in BatterySet(now)
      /\ conn \in ConnSet(now)
  BY DEF SourceTypes
<1>3. /\ tracker' = tracker /\ crashes' = crashes /\ battery' = battery /\ conn' = conn
      /\ link' = link /\ lines' = lines /\ collector' = collector /\ seen' = seen
      /\ enabled' = enabled /\ skew' \in {skew, skew - 2}
      /\ main' \in {"loop", "round", "forced", "upload", "shutdown", "exited"}
      /\ batteryLock' \in {"free", "command"}
  BY DEF OtherStep
<1>4. http' \in HttpSet(now')
  <2>1. NoReading \in BatteryReading /\ BatteryReadings \subseteq BatteryReading
    BY BatteryReadingsAreGood
  <2> HIDE DEF BatteryReading, BatteryReadings, NoReading
  <2>2. CASE http' = http
    BY <1>1, <1>2, <2>2
  <2>3. CASE \E r \in BatteryReadings : http' = [Idle EXCEPT !.op = "battery", !.reading = r]
    <3> PICK r \in BatteryReadings : http' = [Idle EXCEPT !.op = "battery", !.reading = r]
      BY <2>3
    <3> QED BY <1>1, <2>1 DEF Idle
  <2>4. CASE http' = [Idle EXCEPT !.op = "session"] \/ http' = Idle
             \/ http' = [Idle EXCEPT !.op = "crash", !.at = now]
    <3>1. CASE http' = [Idle EXCEPT !.op = "session"]
      BY <1>1, <2>1, <3>1 DEF Idle
    <3>2. CASE http' = Idle
      BY <1>1, <2>1, <3>2 DEF Idle
    <3>3. CASE http' = [Idle EXCEPT !.op = "crash", !.at = now]
      BY <1>1, <2>1, <3>3 DEF Idle
    <3> QED BY <2>4, <3>1, <3>2, <3>3
  <2> QED BY <2>2, <2>3, <2>4 DEF OtherStep
<1>5. /\ tracker' \in TrackerSet(now') /\ crashes' \in Seq(0..now')
      /\ battery' \in BatterySet(now') /\ conn' \in ConnSet(now')
  <2>1. now' = now \/ now' = now + 1
    BY <1>0
  <2>2. tracker \in TrackerSet(now') /\ battery \in BatterySet(now') /\ conn \in ConnSet(now')
    <3> HIDE DEF TrackerSet, BatterySet, ConnSet
    <3> QED BY <1>0, <1>2, <2>1, SetsGrow
  <2> HIDE DEF TrackerSet, BatterySet, ConnSet
  <2> QED BY <1>1, <1>2, <1>3, <2>2
<1>6. skew' \in Int
  BY <1>3 DEF SourceTypes
<1> HIDE DEF TrackerSet, HttpSet, BatterySet, ConnSet, LinkSet, LineSet, SeenSet
<1> QED BY <1>1, <1>3, <1>4, <1>5, <1>6 DEF SourceTypes

\* Battery readings keep the types.
LEMMA BatteryActsKeepTypes ==
  ASSUME SourceTypes, BatteryActs
  PROVE  SourceTypes'
<1>1. PICK r \in BatteryReading : UpdateMetrics(r)
  BY BatteryActsFrame
<1>2. /\ battery' = IF r.finite THEN [previous |-> r, last |-> now] ELSE battery
      /\ seen' = [seen EXCEPT !.refused = @ \/ (/\ r.state = "Discharging"
                     /\ battery.previous.state = "Discharging" /\ ~r.finite)]
  BY <1>1 DEF UpdateMetrics
<1>3. battery' \in BatterySet(now)
  BY <1>1, <1>2 DEF SourceTypes
<1>4. seen' \in SeenSet
  BY <1>2 DEF SourceTypes
<1>5. http' \in HttpSet(now)
  <2>1. http' \in {http, Idle}
    BY BatteryActsFrame
  <2>2. NoReading \in BatteryReading /\ now \in Nat /\ 0 \in 0..now
    BY BatteryReadingsAreGood DEF SourceTypes
  <2> HIDE DEF BatteryReading, NoReading
  <2>3. Idle \in HttpSet(now)
    BY <2>2 DEF Idle
  <2>4. http \in HttpSet(now)
    BY DEF SourceTypes
  <2> HIDE DEF HttpSet
  <2> QED BY <2>1, <2>3, <2>4
<1>6. /\ UNCHANGED <<inputVars, main, crashVars, conn, logVars>>
      /\ batteryLock' \in {"free", "command"}
  BY BatteryActsFrame
<1> HIDE DEF TrackerSet, HttpSet, BatterySet, ConnSet, LinkSet, LineSet, SeenSet
<1> QED BY <1>3, <1>4, <1>5, <1>6 DEF SourceTypes

\* Connectivity checks keep the types: a check never ends before it starts.
LEMMA ConnActsKeepTypes ==
  ASSUME SourceTypes, ConnActs
  PROVE  SourceTypes'
<1>1. conn' \in ConnSet(now)
  <2>0. now \in Nat /\ conn.last \in -1..now /\ conn.first \in -1..now /\ conn.at \in 0..now
        /\ conn.between \in Nat /\ conn.checks \in Nat
    BY DEF SourceTypes
  <2>1. CASE CheckConnection
    <3>1. now \in 0..now /\ (IF conn.first = -1 THEN now ELSE conn.first) \in -1..now
      BY <2>0
    <3> QED BY <2>1, <3>1 DEF CheckConnection, SourceTypes, Never
  <2>2. CASE CheckElapsed
    <3>1. /\ (now - (IF conn.last = -1 THEN conn.at ELSE conn.last)) \in 0..now
          /\ conn.between + (now - conn.at) \in Nat
      BY <2>0
    <3> QED BY <2>2, <3>1 DEF CheckElapsed, SourceTypes, Never
  <2>3. CASE \E connected \in BOOLEAN : Checked(connected)
    <3>1. conn.at \in -1..now /\ conn.checks + 1 \in Nat
      BY <2>0
    <3>2. conn' = [conn EXCEPT !.pc = "sleep", !.last = conn.at, !.checks = conn.checks + 1]
      BY <2>3 DEF Checked
    <3> QED BY <3>1, <3>2 DEF SourceTypes
  <2> QED BY <2>1, <2>2, <2>3 DEF ConnActs
<1>2. UNCHANGED <<now, skew, enabled, main, http, crashVars, battery, batteryLock, logVars, seen>>
  BY ConnActsFrame
<1> HIDE DEF TrackerSet, HttpSet, BatterySet, ConnSet, LinkSet, LineSet, SeenSet
<1> QED BY <1>1, <1>2 DEF SourceTypes

\* What is in the channel of the tracker, and its mark, have passed.
LEMMA CollectedCrashes ==
  ASSUME SourceTypes
  PROVE  LET T == {tracker.crashFree} \cup ToSet(crashes)
         IN  T \subseteq 0..now /\ Max(T) \in T /\ \A y \in T : Max(T) >= y
<1> DEFINE T == {tracker.crashFree} \cup ToSet(crashes)
<1>1. T \subseteq 0..now /\ T # {} /\ now \in Nat
  <2>0. crashes \in Seq(0..now)
    BY DEF SourceTypes
  <2> DEFINE W == 0..now
  <2> HIDE DEF W
  <2>4. \A i \in DOMAIN crashes : crashes[i] \in W
    <3>1. crashes \in Seq(W)
      BY <2>0 DEF W
    <3> QED BY <3>1
  <2>1. \A i \in DOMAIN crashes : crashes[i] \in 0..now
    BY <2>4 DEF W
  <2>2. tracker.crashFree \in 0..now /\ now \in Nat
    BY DEF SourceTypes
  <2>3. ToSet(crashes) \subseteq 0..now
    BY <2>1 DEF ToSet
  <2> QED BY <2>2, <2>3
<1> HIDE DEF T
<1>2. Max(T) \in T /\ \A y \in T : Max(T) >= y
  BY <1>1, MaxIsGreatest
<1> QED BY <1>1, <1>2 DEF T

\* The tracker keeps the types: its marks never pass the clock.
LEMMA TrackerActsKeepTypes ==
  ASSUME SourceTypes, TrackerActs
  PROVE  SourceTypes'
<1>0. tracker \in TrackerSet(now) /\ seen \in SeenSet /\ now \in Nat /\ crashes \in Seq(0..now)
      /\ tracker.mark \in 0..now /\ tracker.crashFree \in 0..now
  BY DEF SourceTypes
<1>6. UNCHANGED <<inputVars, main, monitorVars, logVars>>
  BY TrackerActsFrame
<1>1. CASE TrackerCollects
  <2>1. Max({tracker.crashFree} \cup ToSet(crashes)) \in 0..now /\ ToSet(crashes) \subseteq Nat
    <3> DEFINE T == {tracker.crashFree} \cup ToSet(crashes)
    <3>1. T \subseteq 0..now /\ Max(T) \in T
      BY CollectedCrashes
    <3> QED BY <1>0, <3>1
  <2>2. tracker' \in TrackerSet(now)
    <3> DEFINE top == Max({tracker.crashFree} \cup ToSet(crashes))
    <3>1. tracker' = [tracker EXCEPT !.pc = "hours", !.count = @ + Len(crashes), !.crashFree = top]
      BY <1>1 DEF TrackerCollects
    <3>2. top \in 0..now /\ Len(crashes) \in Nat
      BY <1>0, <2>1
    <3> HIDE DEF top
    <3>3. tracker \in TrackerSet(now) /\ tracker.count + Len(crashes) \in Nat
      BY <1>0, <3>2
    <3> QED BY <3>1, <3>2, <3>3
  <2>3. seen' \in SeenSet
    BY <1>0, <1>1, <2>1 DEF TrackerCollects
  <2>4. http' = http /\ crashes' \in Seq(0..now)
    BY <1>1 DEF TrackerCollects
  <2> HIDE DEF TrackerSet, HttpSet, BatterySet, ConnSet, LinkSet, LineSet, SeenSet
  <2> QED BY <1>6, <2>2, <2>3, <2>4 DEF SourceTypes
<1>2. CASE TrackerHours
  <2>1. FullIntervals(tracker.mark).count \in Nat /\ FullIntervals(tracker.mark).mark \in 0..now
    BY <1>0, FullIntervalsAreExact
  <2>2. tracker' \in TrackerSet(now)
    BY <1>0, <1>2, <2>1 DEF TrackerHours
  <2>3. seen' \in SeenSet
    BY <1>0, <1>2 DEF TrackerHours
  <2>4. http' = http /\ crashes' \in Seq(0..now)
    BY <1>0, <1>2 DEF TrackerHours
  <2> HIDE DEF TrackerSet, HttpSet, BatterySet, ConnSet, LinkSet, LineSet, SeenSet
  <2> QED BY <1>6, <2>2, <2>3, <2>4 DEF SourceTypes
<1>3. CASE TrackerCrashFree
  <2> DEFINE m == FullIntervals(tracker.crashFree)
  <2>1. m.count \in Nat /\ m.mark \in 0..now
    BY <1>0, FullIntervalsAreExact
  <2>2. tracker' = [tracker EXCEPT !.pc = "adding", !.freeHours = m.count, !.crashFree = m.mark]
        /\ seen' = [seen EXCEPT !.free =
             IF m.count = 0 THEN @ ELSE @ \cup {<<tracker.crashFree, m.mark>>}]
    BY <1>3 DEF TrackerCrashFree
  <2> HIDE DEF m
  <2>3. tracker' \in TrackerSet(now)
    BY <1>0, <2>1, <2>2
  <2>4. seen' \in SeenSet
    <3>1. <<tracker.crashFree, m.mark>> \in Nat \X Nat
      BY <1>0, <2>1
    <3>2. \/ seen' = seen
          \/ seen' = [seen EXCEPT !.free = @ \cup {<<tracker.crashFree, m.mark>>}]
      BY <1>0, <2>2
    <3>3. seen \in SeenSet /\ seen.free \cup {<<tracker.crashFree, m.mark>>} \in SUBSET (Nat \X Nat)
      BY <1>0, <3>1
    <3> QED BY <3>2, <3>3
  <2>5. http' = http /\ crashes' \in Seq(0..now)
    BY <1>0, <1>3 DEF TrackerCrashFree
  <2> HIDE DEF TrackerSet, HttpSet, BatterySet, ConnSet, LinkSet, LineSet, SeenSet
  <2> QED BY <1>6, <2>3, <2>4, <2>5 DEF SourceTypes
<1>4. CASE TrackerAdds
  <2>1. tracker' \in TrackerSet(now) /\ UNCHANGED <<http, crashes, seen>>
    <3>1. tracker' = [tracker EXCEPT !.pc = "sleep", !.hours = 0, !.freeHours = 0, !.count = 0]
          /\ UNCHANGED <<http, crashes, seen>>
      BY <1>4 DEF TrackerAdds
    <3> QED BY <1>0, <3>1
  <2> HIDE DEF TrackerSet, HttpSet, BatterySet, ConnSet, LinkSet, LineSet, SeenSet
  <2> QED BY <1>6, <2>1 DEF SourceTypes
<1>5. CASE CrashReported
  <2>1. crashes' \in Seq(0..now) /\ tracker' = tracker /\ seen' \in SeenSet
    <3>1. http.at \in 0..now /\ crashes' = Append(crashes, http.at) /\ tracker' = tracker
          /\ seen' = [seen EXCEPT !.crashed = @ + 1]
      BY <1>5 DEF CrashReported, SourceTypes
    <3>2. Append(crashes, http.at) \in Seq(0..now)
      <4> DEFINE W == 0..now
      <4>1. crashes \in Seq(W) /\ http.at \in W
        BY <1>0, <3>1
      <4> HIDE DEF W
      <4>2. Append(crashes, http.at) \in Seq(W)
        BY <4>1
      <4> QED BY <4>2 DEF W
    <3>3. seen' \in SeenSet
      <4>1. seen \in SeenSet /\ seen' = [seen EXCEPT !.crashed = @ + 1]
        BY <1>0, <3>1
      <4> QED BY <4>1
    <3> HIDE DEF SeenSet
    <3> QED BY <3>1, <3>2, <3>3
  <2>2. http' \in HttpSet(now)
    BY <1>0, <1>5, BatteryReadingsAreGood DEF CrashReported, Idle
  <2> HIDE DEF TrackerSet, HttpSet, BatterySet, ConnSet, LinkSet, LineSet, SeenSet
  <2> QED BY <1>6, <2>1, <2>2 DEF SourceTypes
<1> QED BY <1>1, <1>2, <1>3, <1>4, <1>5 DEF TrackerActs

\* Lines keep the types: the buffer never holds more than its capacity.
LEMMA LineActsKeepTypes ==
  ASSUME SourceTypes, LineActs
  PROVE  SourceTypes'
<1>0. link \in LinkSet /\ lines \in Seq(LineSet) /\ Len(lines) <= MaxBuffered
      /\ collector \in {"running", "dead"} /\ MaxBuffered \in Nat
  BY MetricsAssumption DEF SourceTypes
<1> HIDE DEF TrackerSet, HttpSet, BatterySet, ConnSet, LinkSet, LineSet, SeenSet
<1> SUFFICES link' \in LinkSet /\ lines' \in Seq(LineSet) /\ Len(lines') <= MaxBuffered
             /\ collector' \in {"running", "dead"}
  BY LineActsFrame DEF SourceTypes
<1> USE DEF LinkSet
<1>1. CASE \E c \in Conns : Connect(c)
  <2> PICK c \in Conns : Connect(c)
    BY <1>1
  <2>1. link' = [link EXCEPT ![c].state = "open"] /\ lines' = lines /\ collector' = collector
    BY DEF Connect
  <2> QED BY <1>0, <2>1
<1>2. CASE \E c \in Conns : Receive(c)
  <2> PICK c \in Conns : Receive(c)
    BY <1>2
  <2>1. link[c].read + 1 \in Nat
    BY <1>0
  <2>2. CASE Disconnect(c)
    BY <1>0, <2>2 DEF Receive, Disconnect
  <2>3. CASE ~Disconnect(c)
    <3>1. /\ enabled => Len(lines) < MaxBuffered
          /\ link' = [link EXCEPT ![c].read = link[c].read + 1]
          /\ lines' = IF enabled THEN Append(lines, Line(c, link[c].read + 1)) ELSE lines
          /\ collector' = collector
      BY <2>3 DEF Receive
    <3>2. Line(c, link[c].read + 1) \in LineSet
      BY <2>1 DEF Line, LineSet
    <3>3. link' \in LinkSet
      BY <1>0, <2>1, <3>1
    <3>4. lines' \in Seq(LineSet) /\ Len(lines') <= MaxBuffered
      BY <1>0, <3>1, <3>2
    <3> QED BY <1>0, <3>1, <3>3, <3>4
  <2> QED BY <2>2, <2>3
<1>3. CASE Collect
  <2>1. lines # <<>> /\ Head(lines) \in LineSet /\ Tail(lines) \in Seq(LineSet)
        /\ Len(Tail(lines)) <= MaxBuffered
    <3>1. lines # <<>>
      BY <1>3 DEF Collect
    <3> QED BY <1>0, <3>1
  <2>2. link' \in LinkSet
    <3>1. Head(lines).conn \in Conns
      BY <2>1 DEF LineSet
    <3>2. link' = [link EXCEPT ![Head(lines).conn].collected = @ + 1]
      BY <1>3 DEF Collect
    <3> DEFINE c == Head(lines).conn
    <3>3. c \in Conns /\ link' = [link EXCEPT ![c].collected = @ + 1]
      BY <3>1, <3>2
    <3> HIDE DEF c
    <3>4. link[c].collected + 1 \in Nat /\ link \in LinkSet
      BY <1>0, <3>3
    <3> QED BY <3>3, <3>4
  <2>3. lines' \in {<<>>, Tail(lines)} /\ collector' \in {"running", "dead"}
    BY <1>0, <1>3 DEF Collect
  <2>4. lines' \in Seq(LineSet) /\ Len(lines') <= MaxBuffered
    <3>1. CASE lines' = <<>>
      BY <1>0, <3>1
    <3>2. CASE lines' = Tail(lines)
      BY <2>1, <3>2
    <3> QED BY <2>3, <3>1, <3>2
  <2> QED BY <2>2, <2>3, <2>4
<1> QED BY <1>1, <1>2, <1>3 DEF LineActs

\* Every step keeps the types and is a step of the store.
LEMMA TypesStep ==
  ASSUME SourceTypes, [Next]_vars
  PROVE  SourceTypes' /\ StoreStep
<1>1. CASE OtherActs
  BY <1>1, OtherActsAreOther, OtherStepKeepsTypes
<1>2. CASE BatteryActs
  BY <1>2, BatteryActsFrame, BatteryActsKeepTypes
<1>3. CASE ConnActs
  BY <1>3, ConnActsFrame, ConnActsKeepTypes
<1>4. CASE TrackerActs
  BY <1>4, TrackerActsFrame, TrackerActsKeepTypes
<1>5. CASE LineActs
  BY <1>5, LineActsFrame, LineActsKeepTypes
<1>6. CASE UNCHANGED vars
  <2> HIDE DEF TrackerSet, HttpSet, BatterySet, ConnSet, LinkSet, LineSet, SeenSet
  <2> QED BY <1>6, QuietSteps DEF vars, SourceTypes
<1> QED BY <1>1, <1>2, <1>3, <1>4, <1>5, <1>6, StepsAreSorted

\* The types hold at the start.
LEMMA TypesInit == Init => SourceTypes
<1> SUFFICES ASSUME Init PROVE SourceTypes
  OBVIOUS
<1>1. MaxBuffered \in Nat /\ NoReading \in BatteryReading
  BY MetricsAssumption, BatteryReadingsAreGood
<1> HIDE DEF BatteryReading, NoReading
<1>2. now = 0 /\ skew \in Int /\ enabled \in BOOLEAN /\ 0 \in 0..now /\ -1 \in -1..now
  BY DEF Init
<1>3. http \in HttpSet(now)
      /\ battery \in BatterySet(now)
      /\ crashes \in Seq(0..now)
  BY <1>1, <1>2 DEF Init, Idle
<1>4. link \in LinkSet
  BY DEF Init
<1>5. tracker \in TrackerSet(now)
      /\ conn \in ConnSet(now)
  BY <1>2 DEF Init, Never
<1>6. seen \in SeenSet
  BY DEF Init
<1>7. lines \in Seq(LineSet) /\ Len(lines) <= MaxBuffered
  BY <1>1 DEF Init
<1> HIDE DEF TrackerSet, HttpSet, BatterySet, ConnSet, LinkSet, LineSet, SeenSet
<1> QED BY <1>2, <1>3, <1>4, <1>5, <1>6, <1>7 DEF Init, SourceTypes

\* The types of the store and of the sources, and the ledger of the store, are an
\* inductive invariant.
THEOREM StoreInvariance == Spec => [](SourceTypes /\ StoreInv)
<1>1. Init => SourceTypes /\ StoreInv
  BY TypesInit, StoreInitHolds DEF Init
<1>2. SourceTypes /\ StoreInv /\ [Next]_vars => (SourceTypes /\ StoreInv)'
  BY TypesStep, StoreStepKeepsStore
<1> QED BY <1>1, <1>2, PTL DEF Spec

\* Every unit a counter was increased by is in exactly one report, and a session's
\* report has exactly what was added since it started (metric_report_manager.rs:133).
THEOREM ReportsAreExact == Spec => []CountsAreExact
<1>1. StoreInv => CountsAreExact
  BY DEF StoreInv, CountsAreExact
<1> QED BY <1>1, StoreInvariance, PTL

-----------------------------------------------------------------------------
(* What the sources have counted.                                          *)

Hours == added["operational_hours"] + tracker.hours
FreeHours == added["operational_crashfree_hours"] + tracker.freeHours

\* Every crash is in the channel, in the tracker's count or in the store.
CrashesInv == seen.crashed = added["operational_crashes"] + tracker.count + Len(crashes)

\* The mark is at the end of the last hour that was counted.
HoursInv ==
  /\ tracker.mark = Hours * Interval
  /\ tracker.mark <= seen.at /\ seen.at < tracker.mark + Interval
  /\ tracker.pc \in {"sleep", "hours"} => tracker.hours = 0

\* The crash-free hours lie one after the other before their mark.
FreeInv ==
  /\ FreeHours * Interval <= tracker.crashFree
  /\ tracker.pc # "adding" => tracker.freeHours = 0

\* The mark of the crash-free hours is not before any crash that was collected.
CollectedInv == \A t \in seen.collected : t <= tracker.crashFree

TrackerInv == CrashesInv /\ HoursInv /\ FreeInv /\ CollectedInv

BatteryInv == ~seen.refused => Milli * added["battery_discharge_duration_ms"] <= battery.last

\* The part of the time watched that a check which is under way has yet to count.
Pending ==
  CASE conn.pc = "sleep" -> 0
    [] conn.pc = "elapsed" -> IF conn.last = Never THEN 0 ELSE conn.at - conn.last
    [] conn.pc = "trying" -> conn.since

\* The marks of the monitor are in order, and between checks it is the first read of
\* the last one that counts.
MarksInv ==
  /\ conn.first = Never => conn.pc = "sleep" /\ conn.last = Never /\ conn.between = 0
  /\ conn.pc = "sleep" => conn.last = IF conn.first = Never THEN Never ELSE conn.at
  /\ conn.last <= conn.at /\ conn.first <= conn.at

\* What was watched is counted or pending, but for what each check has dropped of its
\* last millisecond.
ConnInv ==
  /\ MarksInv
  /\ Milli * added["connectivity_expected_time_ms"] + Pending <= Watched
  /\ Watched <= Milli * added["connectivity_expected_time_ms"] + Pending
                  + (Milli - 1) * conn.checks
  /\ added["connectivity_connected_time_ms"] <= added["connectivity_expected_time_ms"]

SourceInv == TrackerInv /\ BatteryInv /\ ConnInv

\* Hours counted one batch after the other add up.
LEMMA Distributes ==
  ASSUME NEW a \in Nat, NEW b \in Nat, NEW i \in Nat
  PROVE  (a + b) * i = a * i + b * i /\ a * i \in Nat /\ b * i \in Nat
  OBVIOUS

\* The number of whole intervals.
LEMMA WholeIntervals ==
  ASSUME NEW a \in Nat, NEW n \in Nat, NEW i \in Nat \ {0}, n * i <= a
  PROVE  n <= a \div i /\ (a < n * i + i => a \div i = n)
<1> DEFINE q == a \div i
<1>1. q \in Nat /\ q * i <= a /\ a < q * i + i
  OBVIOUS
<1> HIDE DEF q
<1>2. n <= q
  <2> SUFFICES ASSUME n >= q + 1 PROVE FALSE
    BY <1>1
  <2>1. PICK d \in Nat : n = (q + 1) + d
    <3>1. n - (q + 1) \in Nat /\ n = (q + 1) + (n - (q + 1))
      BY <1>1
    <3> QED BY <3>1
  <2>2. n * i = q * i + i + d * i /\ d * i \in Nat
    BY <1>1, <2>1
  <2> QED BY <1>1, <2>2
<1>3. ASSUME a < n * i + i
      PROVE  q = n
  <2> SUFFICES ASSUME q >= n + 1 PROVE FALSE
    BY <1>1, <1>2
  <2>1. PICK d \in Nat : q = (n + 1) + d
    <3>1. q - (n + 1) \in Nat /\ q = (n + 1) + (q - (n + 1))
      BY <1>1
    <3> QED BY <3>1
  <2>2. q * i = n * i + i + d * i /\ d * i \in Nat /\ n * i \in Nat
    BY <1>1, <2>1
  <2> QED BY <1>1, <1>3, <2>2
<1> QED BY <1>2, <1>3 DEF q

\* The values that the invariants speak of are numbers.
LEMMA SourceNumbers ==
  ASSUME SourceTypes, StoreTypes
  PROVE  /\ \A k \in TrackerKeys \cup BatteryKeys \cup ConnKeys \cup LogKeys : added[k] \in Nat
         /\ now \in Nat /\ tracker.mark \in 0..now /\ tracker.crashFree \in 0..now
         /\ tracker.count \in Nat /\ tracker.hours \in Nat /\ tracker.freeHours \in Nat
         /\ seen.at \in Nat /\ seen.crashed \in Nat /\ Len(crashes) \in Nat
         /\ battery.last \in 0..now /\ seen.refused \in BOOLEAN
         /\ conn.last \in -1..now /\ conn.at \in 0..now /\ conn.since \in 0..now
         /\ conn.first \in -1..now /\ conn.between \in Nat /\ conn.checks \in Nat
         /\ Interval \in Nat \ {0} /\ Milli \in Nat \ {0}
<1>1. \A k \in TrackerKeys \cup BatteryKeys \cup ConnKeys \cup LogKeys : added[k] \in Nat
  BY OwnKeys DEF StoreTypes, Totals
<1>2. Interval \in Nat \ {0} /\ Milli \in Nat \ {0}
  BY MetricsAssumption, MilliAssumption
<1>3. Len(crashes) \in Nat
  BY DEF SourceTypes
<1> QED BY <1>1, <1>2, <1>3 DEF SourceTypes

\* Nothing is counted at the start.
LEMMA SourcesInit == Init => SourceInv
<1> SUFFICES ASSUME Init PROVE SourceInv
  OBVIOUS
<1>1. \A k \in TrackerKeys \cup BatteryKeys \cup ConnKeys : added[k] = 0
  BY OwnKeys DEF Init, StoreInit, Zero
<1>2. Interval \in Nat \ {0}
  BY MetricsAssumption
<1>3. TrackerInv
  BY <1>1, <1>2 DEF Init, TrackerInv, CrashesInv, HoursInv, FreeInv, CollectedInv, Hours,
     FreeHours, TrackerKeys
<1>0. Milli \in Nat \ {0}
  BY MilliAssumption
<1>4. BatteryInv
  BY <1>0, <1>1 DEF Init, BatteryInv, BatteryKeys
<1>5. ConnInv
  BY <1>0, <1>1 DEF Init, ConnInv, MarksInv, Pending, Watched, ConnKeys, Never
<1> QED BY <1>3, <1>4, <1>5 DEF SourceInv

\* What the invariant of the monitor adds up.
LEMMA WatchedNumbers ==
  ASSUME SourceTypes, StoreTypes, SourceInv
  PROVE  /\ Milli * added["connectivity_expected_time_ms"] \in Nat
         /\ (Milli - 1) * conn.checks \in Nat /\ Watched \in Int /\ Pending \in Nat
<1> DEFINE x == added["connectivity_expected_time_ms"]
<1>1. /\ x \in Nat /\ now \in Nat /\ Milli \in Nat \ {0}
      /\ conn.last \in -1..now /\ conn.at \in 0..now /\ conn.since \in 0..now
      /\ conn.first \in -1..now /\ conn.between \in Nat /\ conn.checks \in Nat
  BY SourceNumbers DEF ConnKeys
<1> HIDE DEF x
<1>2. Milli * x \in Nat /\ (Milli - 1) * conn.checks \in Nat
  BY <1>1
<1>3. Watched \in Int
  BY <1>1 DEF Watched
<1>4. conn.last <= conn.at /\ conn.pc \in {"sleep", "elapsed", "trying"}
  BY DEF SourceInv, ConnInv, MarksInv, SourceTypes
<1>5. Pending \in Nat
  BY <1>1, <1>4 DEF Pending
<1> QED BY <1>2, <1>3, <1>5 DEF x

\* What leaves the tracker alone keeps its invariant.
LEMMA TrackerFrame ==
  ASSUME TrackerInv, Still(TrackerKeys), UNCHANGED <<tracker, crashes>>,
         seen'.crashed = seen.crashed, seen'.at = seen.at, seen'.collected = seen.collected
  PROVE  TrackerInv'
<1>1. \A k \in TrackerKeys : added'[k] = added[k]
  BY DEF Still
<1> QED BY <1>1 DEF TrackerInv, CrashesInv, HoursInv, FreeInv, CollectedInv, Hours, FreeHours,
               TrackerKeys

\* What leaves the battery monitor alone keeps its invariant.
LEMMA BatteryFrame ==
  ASSUME BatteryInv, Still(BatteryKeys), UNCHANGED battery, seen'.refused = seen.refused
  PROVE  BatteryInv'
  BY DEF BatteryInv, Still, BatteryKeys

\* What leaves the connectivity monitor alone keeps its invariant.
LEMMA ConnFrame ==
  ASSUME ConnInv, Still(ConnKeys), UNCHANGED conn
  PROVE  ConnInv'
  BY DEF ConnInv, MarksInv, Pending, Watched, Still, ConnKeys

\* The keys of a source are not those of another.
LEMMA StillElsewhere ==
  /\ Still(OtherKeys(BatteryKeys)) => Still(TrackerKeys) /\ Still(ConnKeys) /\ Still(LogKeys)
  /\ Still(OtherKeys(ConnKeys)) => Still(TrackerKeys) /\ Still(BatteryKeys) /\ Still(LogKeys)
  /\ Still(OtherKeys(TrackerKeys)) => Still(BatteryKeys) /\ Still(ConnKeys) /\ Still(LogKeys)
  /\ Still(OtherKeys(LogKeys)) => Still(TrackerKeys) /\ Still(BatteryKeys) /\ Still(ConnKeys)
  /\ Still(TrackerKeys \cup BatteryKeys \cup ConnKeys \cup LogKeys)
       => Still(TrackerKeys) /\ Still(BatteryKeys) /\ Still(ConnKeys) /\ Still(LogKeys)
  /\ added' = added
       => Still(TrackerKeys) /\ Still(BatteryKeys) /\ Still(ConnKeys) /\ Still(LogKeys)
  BY DEF Still, OtherKeys, TrackerKeys, BatteryKeys, ConnKeys, LogKeys

\* A battery reading counts the time since the reading before it.
LEMMA BatteryActsKeepSources ==
  ASSUME SourceTypes, StoreTypes, SourceInv, BatteryActs
  PROVE  SourceInv'
<1>1. PICK r \in BatteryReading : UpdateMetrics(r)
  BY BatteryActsFrame
<1> DEFINE dur == "battery_discharge_duration_ms"
           discharging == r.state = "Discharging" /\ battery.previous.state = "Discharging"
<1>2. /\ Still(OtherKeys(BatteryKeys))
      /\ added'[dur] = added[dur] + (IF discharging THEN Millis(now - battery.last) ELSE 0)
      /\ battery' = IF r.finite THEN [previous |-> r, last |-> now] ELSE battery
      /\ seen' = [seen EXCEPT !.refused = @ \/ (discharging /\ ~r.finite)]
  BY <1>1, UpdateMetricsAdds
<1>3. UNCHANGED <<tracker, crashes, conn>>
  BY BatteryActsFrame
<1> HIDE DEF discharging
<1>4. /\ seen'.crashed = seen.crashed /\ seen'.at = seen.at /\ seen'.collected = seen.collected
      /\ seen'.refused = (seen.refused \/ (discharging /\ ~r.finite))
  BY <1>2 DEF SourceTypes
<1>5. TrackerInv'
  BY <1>2, <1>3, <1>4, TrackerFrame, StillElsewhere DEF SourceInv
<1>6. ConnInv'
  BY <1>2, <1>3, ConnFrame, StillElsewhere DEF SourceInv
<1>7. BatteryInv'
  <2>1. added[dur] \in Nat /\ now \in Nat /\ battery.last \in 0..now
    BY SourceNumbers DEF BatteryKeys
  <2>2. ~seen.refused => Milli * added[dur] <= battery.last
    BY DEF SourceInv, BatteryInv
  <2> SUFFICES ASSUME ~seen'.refused PROVE Milli * added'[dur] <= battery'.last
    BY DEF BatteryInv
  <2>3. ~seen.refused /\ ~(discharging /\ ~r.finite)
    BY <1>4
  <2>4. CASE discharging
    <3>1. battery'.last = now /\ Milli * added[dur] <= battery.last
      BY <1>2, <2>2, <2>3, <2>4
    <3>2. now - battery.last \in Nat
      BY <2>1
    <3> DEFINE t == now - battery.last  x == added[dur]  y == Millis(t)
    <3>3. Milli \in Nat \ {0} /\ y \in Nat /\ Milli * y <= t
      BY <3>2, MillisRoundDown
    <3>4. added'[dur] = x + y
      BY <1>2, <2>4
    <3> HIDE DEF x, y
    <3>5. x \in Nat /\ Milli * x <= battery.last
      BY <2>1, <3>1 DEF x
    <3>6. Milli * (x + y) = Milli * x + Milli * y
      BY <3>3, <3>5
    <3>7. Milli * x \in Int /\ Milli * y \in Int
      BY <3>3, <3>5
    <3> QED BY <2>1, <3>1, <3>3, <3>4, <3>5, <3>6, <3>7
  <2>5. CASE ~discharging
    <3>1. battery'.last = now \/ battery'.last = battery.last
      BY <1>2
    <3>2. added'[dur] = added[dur]
      BY <1>2, <2>1, <2>5
    <3>3. Milli * added'[dur] <= battery.last /\ battery.last <= now
      BY <2>1, <2>2, <2>3, <3>2
    <3> DEFINE d == Milli * added'[dur]
    <3>4. d \in Int
      BY <2>1, <3>2, MilliAssumption
    <3> HIDE DEF d
    <3>5. d <= battery.last /\ d <= now
      BY <2>1, <3>3, <3>4 DEF d
    <3>6. d <= battery'.last
      BY <3>1, <3>5
    <3> QED BY <3>6 DEF d
  <2> QED BY <2>4, <2>5
<1> QED BY <1>5, <1>6, <1>7 DEF SourceInv

\* The three steps of a check move what is pending into what is watched, and then what
\* is pending, in whole milliseconds, into what is counted.
LEMMA ConnActsKeepSources ==
  ASSUME SourceTypes, StoreTypes, SourceInv, ConnActs
  PROVE  SourceInv'
<1>1. Still(OtherKeys(ConnKeys)) /\ UNCHANGED <<tracker, crashes, battery, seen, now>>
  BY ConnActsFrame
<1>2. TrackerInv' /\ BatteryInv'
  BY <1>1, TrackerFrame, BatteryFrame, StillElsewhere DEF SourceInv
<1> DEFINE exp == "connectivity_expected_time_ms"  con == "connectivity_connected_time_ms"
           x == added[exp]  y == added[con]  slack == (Milli - 1) * conn.checks
<1>3. /\ x \in Nat /\ y \in Nat /\ now \in Nat /\ Milli \in Nat \ {0}
      /\ conn.last \in -1..now /\ conn.at \in 0..now /\ conn.since \in 0..now
      /\ conn.first \in -1..now /\ conn.between \in Nat /\ conn.checks \in Nat
      /\ conn = [pc |-> conn.pc, last |-> conn.last, at |-> conn.at, since |-> conn.since,
                 first |-> conn.first, between |-> conn.between, checks |-> conn.checks]
  BY SourceNumbers DEF ConnKeys, SourceTypes
<1>4. /\ MarksInv /\ Milli * x + Pending <= Watched
      /\ Watched <= Milli * x + Pending + slack /\ y <= x
  BY DEF SourceInv, ConnInv
<1>5. /\ Milli * x \in Nat /\ slack \in Nat
  BY <1>3
<1> HIDE DEF x, y, slack
<1> DEFINE M == Milli * x
<1> HIDE DEF M
<1>6. /\ M \in Nat /\ M + Pending <= Watched /\ Watched <= M + Pending + slack
  BY <1>4, <1>5 DEF M
<1>7. CASE CheckConnection
  <2>1. added' = added
    BY <1>7, QuietSteps DEF CheckConnection
  <2>2. /\ conn.pc = "sleep"
        /\ conn' = [conn EXCEPT !.pc = "elapsed", !.at = now,
                                !.first = IF @ = Never THEN now ELSE @]
    BY <1>7 DEF CheckConnection
  <2>3. conn' = [pc |-> "elapsed", last |-> conn.last, at |-> now, since |-> conn.since,
                 first |-> IF conn.first = Never THEN now ELSE conn.first,
                 between |-> conn.between, checks |-> conn.checks]
    BY <1>3, <2>2
  <2>4. MarksInv'
    BY <1>3, <1>4, <2>2, <2>3 DEF MarksInv, Never
  <2>5. M + Pending' <= Watched' /\ Watched' <= M + Pending' + slack
    <3>1. CASE conn.first = Never
      <4>1. Watched = 0 /\ Pending = 0 /\ conn.last = Never /\ conn.between = 0
        BY <1>4, <2>2, <3>1 DEF MarksInv, Pending, Watched
      <4>2. Watched' = 0 /\ Pending' = 0
        BY <1>3, <2>3, <3>1, <4>1 DEF Pending, Watched, Never
      <4> QED BY <1>6, <4>1, <4>2
    <3>2. CASE conn.first # Never
      <4>1. conn.last = conn.at /\ conn.last # Never /\ Pending = 0
            /\ Watched = (conn.at - conn.first) + conn.between
        BY <1>3, <1>4, <2>2, <3>2 DEF MarksInv, Pending, Watched, Never
      <4>2. Pending' = now - conn.at /\ Watched' = (now - conn.first) + conn.between
        BY <1>3, <2>3, <3>2, <4>1 DEF Pending, Watched, Never
      <4> QED BY <1>3, <1>5, <1>6, <4>1, <4>2
    <3> QED BY <3>1, <3>2
  <2>6. conn'.checks = conn.checks /\ added'[exp] = x /\ added'[con] = y
    BY <2>1, <2>3 DEF x, y
  <2>7. ConnInv'
    BY <1>4, <2>4, <2>5, <2>6 DEF ConnInv, M, slack
  <2> QED BY <1>2, <2>7 DEF SourceInv
<1>8. CASE CheckElapsed
  <2>1. added' = added
    BY <1>8, QuietSteps DEF CheckElapsed
  <2>2. /\ conn.pc = "elapsed"
        /\ conn' = [conn EXCEPT !.pc = "trying",
                      !.since = now - (IF conn.last = Never THEN conn.at ELSE conn.last),
                      !.between = @ + (now - conn.at)]
    BY <1>8 DEF CheckElapsed
  <2>3. conn' = [pc |-> "trying", last |-> conn.last, at |-> conn.at,
                 since |-> now - (IF conn.last = Never THEN conn.at ELSE conn.last),
                 first |-> conn.first,
                 between |-> conn.between + (now - conn.at), checks |-> conn.checks]
    BY <1>3, <2>2
  <2>4. MarksInv'
    BY <1>3, <1>4, <2>2, <2>3 DEF MarksInv, Never
  <2>5. M + Pending' <= Watched' /\ Watched' <= M + Pending' + slack
    <3>1. conn.first # Never /\ Watched = (conn.at - conn.first) + conn.between
      BY <1>4, <2>2 DEF MarksInv, Watched
    <3>2. Watched' = (conn.at - conn.first) + (conn.between + (now - conn.at))
      BY <2>3, <3>1 DEF Watched
    <3> DEFINE from == IF conn.last = Never THEN conn.at ELSE conn.last
    <3>3. from \in Int /\ Pending = conn.at - from
      BY <1>3, <2>2 DEF Pending
    <3>4. Pending' = now - from
      BY <2>3 DEF Pending
    <3> HIDE DEF from
    <3> QED BY <1>3, <1>5, <1>6, <3>1, <3>2, <3>3, <3>4
  <2>6. conn'.checks = conn.checks /\ added'[exp] = x /\ added'[con] = y
    BY <2>1, <2>3 DEF x, y
  <2>7. ConnInv'
    BY <1>4, <2>4, <2>5, <2>6 DEF ConnInv, M, slack
  <2> QED BY <1>2, <2>7 DEF SourceInv
<1>9. CASE \E connected \in BOOLEAN : Checked(connected)
  <2> PICK connected \in BOOLEAN : Checked(connected)
    BY <1>9
  <2> DEFINE z == Millis(conn.since)  u == Millis(IF connected THEN conn.since ELSE 0)
  <2>1. added'[con] = y + u /\ added'[exp] = x + z
    BY CheckedAdds DEF x, y
  <2>2. z \in Nat /\ Milli * z \in Nat /\ Milli * z <= conn.since
        /\ conn.since <= Milli * z + (Milli - 1)
    BY <1>3, MillisRoundDown
  <2>3. u \in Nat /\ u <= z
    <3>1. CASE connected
      BY <2>2, <3>1
    <3>2. CASE ~connected
      <4>1. Millis(0) \in Nat /\ Milli * Millis(0) <= 0
        BY MillisRoundDown
      <4>2. Millis(0) = 0
        <5> DEFINE q == Millis(0)
        <5> HIDE DEF q
        <5>1. q \in Nat /\ Milli * q <= 0
          BY <4>1 DEF q
        <5>2. \A m \in Nat \ {0} : \A n \in Nat : m * n <= 0 => n = 0
          OBVIOUS
        <5> QED BY <1>3, <5>1, <5>2 DEF q
      <4> QED BY <2>2, <3>2, <4>2
    <3> QED BY <3>1, <3>2
  <2>4. /\ conn.pc = "trying"
        /\ conn' = [conn EXCEPT !.pc = "sleep", !.last = conn.at, !.checks = @ + 1]
    BY DEF Checked
  <2>5. conn' = [pc |-> "sleep", last |-> conn.at, at |-> conn.at, since |-> conn.since,
                 first |-> conn.first, between |-> conn.between, checks |-> conn.checks + 1]
    BY <1>3, <2>4
  <2> HIDE DEF z, u
  <2>6. MarksInv'
    BY <1>3, <1>4, <2>4, <2>5 DEF MarksInv, Never
  <2>7. Watched' = Watched /\ Pending = conn.since /\ Pending' = 0
    BY <2>4, <2>5 DEF Watched, Pending
  <2>8. Watched \in Int
    BY <1>3 DEF Watched
  <2>9. Milli * (x + z) = M + Milli * z
    BY <1>3, <2>2 DEF M
  <2>10. (Milli - 1) * (conn.checks + 1) = slack + (Milli - 1)
    BY <1>3 DEF slack
  <2>11. /\ Milli * (x + z) + Pending' <= Watched'
         /\ Watched' <= Milli * (x + z) + Pending' + (Milli - 1) * (conn.checks + 1)
    BY <1>3, <1>5, <1>6, <2>2, <2>7, <2>8, <2>9, <2>10
  <2>12. y + u <= x + z
    BY <1>3, <1>4, <2>2, <2>3
  <2>13. conn'.checks = conn.checks + 1
    BY <2>5
  <2>14. ConnInv'
    BY <2>1, <2>6, <2>11, <2>12, <2>13 DEF ConnInv
  <2> QED BY <1>2, <2>14 DEF SourceInv
<1> QED BY <1>7, <1>8, <1>9 DEF ConnActs

\* The tracker collects crashes, counts hours and crash-free hours, and adds them.
LEMMA TrackerActsKeepSources ==
  ASSUME SourceTypes, StoreTypes, SourceInv, TrackerActs
  PROVE  SourceInv'
<1>1. Still(OtherKeys(TrackerKeys)) /\ UNCHANGED <<battery, conn, now>>
      /\ seen'.refused = seen.refused
  BY TrackerActsFrame
<1>2. BatteryInv' /\ ConnInv'
  BY <1>1, ConnFrame, BatteryFrame, StillElsewhere DEF SourceInv
<1> DEFINE h == "operational_hours"  f == "operational_crashfree_hours"
           n == "operational_crashes"
<1>3. /\ added[h] \in Nat /\ added[f] \in Nat /\ added[n] \in Nat
      /\ now \in Nat /\ tracker.mark \in 0..now /\ tracker.crashFree \in 0..now
      /\ tracker.count \in Nat /\ tracker.hours \in Nat /\ tracker.freeHours \in Nat
      /\ seen.at \in Nat /\ seen.crashed \in Nat /\ Len(crashes) \in Nat
      /\ Interval \in Nat \ {0}
      /\ \A t \in seen.collected : t \in Nat
  BY SourceNumbers DEF TrackerKeys, SourceTypes
<1>4. /\ tracker = [pc |-> tracker.pc, mark |-> tracker.mark, crashFree |-> tracker.crashFree,
                    count |-> tracker.count, hours |-> tracker.hours,
                    freeHours |-> tracker.freeHours]
      /\ seen = [crashed |-> seen.crashed, collected |-> seen.collected, free |-> seen.free,
                 at |-> seen.at, refused |-> seen.refused]
  BY DEF SourceTypes
<1>5. ~TrackerAdds => added' = added
  BY TrackerActsFrame
<1>6. CrashesInv /\ HoursInv /\ FreeInv /\ CollectedInv
  BY DEF SourceInv, TrackerInv
<1>7. /\ added[h] \in Nat /\ added[f] \in Nat /\ added[n] \in Nat
      /\ tracker.count \in Nat /\ tracker.hours \in Nat /\ tracker.freeHours \in Nat
      /\ seen.crashed \in Nat /\ Len(crashes) \in Nat
  BY <1>3
<1>8. CASE TrackerCollects
  <2> DEFINE top == Max({tracker.crashFree} \cup ToSet(crashes))
  <2>1. /\ top \in Nat /\ top >= tracker.crashFree /\ \A t \in ToSet(crashes) : top >= t
    <3> DEFINE T == {tracker.crashFree} \cup ToSet(crashes)
    <3>1. T \subseteq 0..now /\ Max(T) \in T /\ \A y \in T : Max(T) >= y
      BY CollectedCrashes
    <3>2. tracker.crashFree \in T /\ ToSet(crashes) \subseteq T /\ top = Max(T)
      OBVIOUS
    <3> HIDE DEF T, top
    <3>3. now \in Nat
      BY <1>3
    <3>4. top \in 0..now
      BY <3>1, <3>2
    <3>5. top \in Nat
      BY <3>3, <3>4
    <3>6. \A y \in T : top >= y
      BY <3>1, <3>2
    <3> QED BY <3>2, <3>5, <3>6
  <2>2. /\ tracker' = [tracker EXCEPT !.pc = "hours", !.count = @ + Len(crashes),
                                      !.crashFree = top]
        /\ seen' = [seen EXCEPT !.collected = @ \cup ToSet(crashes)]
        /\ crashes' = <<>> /\ tracker.pc = "sleep"
    BY <1>8 DEF TrackerCollects
  <2>3. added' = added
    BY <1>5, <1>8 DEF TrackerCollects, TrackerAdds
  <2>4. ToSet(crashes) \subseteq 0..now
    BY CollectedCrashes
  <2> HIDE DEF top
  <2>5. /\ tracker'.mark = tracker.mark /\ tracker'.hours = tracker.hours
        /\ tracker'.freeHours = tracker.freeHours /\ tracker'.pc = "hours"
        /\ tracker'.count = tracker.count + Len(crashes) /\ tracker'.crashFree = top
        /\ seen'.crashed = seen.crashed /\ seen'.at = seen.at
        /\ seen'.collected = seen.collected \cup ToSet(crashes)
        /\ Len(crashes') = 0
    BY <1>4, <2>2
  <2>6. CrashesInv'
    BY <1>6, <1>7, <2>3, <2>5 DEF CrashesInv
  <2>7. HoursInv'
    <3>1. Hours' = Hours
      BY <2>3, <2>5 DEF Hours
    <3> QED BY <1>6, <2>2, <2>5, <3>1 DEF HoursInv
  <2>8. FreeInv'
    <3>1. FreeHours' = FreeHours
      BY <2>3, <2>5 DEF FreeHours
    <3> DEFINE x == FreeHours * Interval
    <3>2. x \in Nat
      <4>1. FreeHours \in Nat
        BY <1>7 DEF FreeHours
      <4> QED BY <1>3, <4>1, Distributes
    <3>3. x <= tracker.crashFree /\ FreeHours' * Interval = x /\ tracker.freeHours = 0
      BY <1>6, <2>2, <3>1 DEF FreeInv
    <3> HIDE DEF x
    <3>4. x <= top
      BY <1>3, <2>1, <3>2, <3>3
    <3> QED BY <2>5, <3>3, <3>4 DEF FreeInv
  <2>9. CollectedInv'
    <3> SUFFICES ASSUME NEW t \in seen'.collected PROVE t <= top
      BY <2>5 DEF CollectedInv
    <3>1. CASE t \in ToSet(crashes)
      BY <2>1, <2>4, <3>1
    <3>2. CASE t \in seen.collected
      <4>1. t \in Nat /\ t <= tracker.crashFree /\ tracker.crashFree \in Nat
        BY <1>3, <1>6, <3>2 DEF CollectedInv
      <4> QED BY <2>1, <4>1
    <3> QED BY <2>5, <3>1, <3>2
  <2> QED BY <1>2, <2>6, <2>7, <2>8, <2>9 DEF SourceInv, TrackerInv
<1>9. CASE TrackerHours
  <2> DEFINE m == FullIntervals(tracker.mark)
  <2>1. /\ m.count \in Nat /\ m.mark \in tracker.mark..now
        /\ m.mark = tracker.mark + m.count * Interval /\ now - m.mark < Interval
    BY <1>3, FullIntervalsAreExact
  <2>2. /\ tracker' = [tracker EXCEPT !.pc = "crashfree", !.hours = m.count, !.mark = m.mark]
        /\ seen' = [seen EXCEPT !.at = now] /\ crashes' = crashes /\ tracker.pc = "hours"
    BY <1>9 DEF TrackerHours
  <2>3. added' = added
    BY <1>5, <1>9 DEF TrackerHours, TrackerAdds
  <2> HIDE DEF m
  <2>4. /\ tracker'.mark = m.mark /\ tracker'.hours = m.count
        /\ tracker'.freeHours = tracker.freeHours /\ tracker'.pc = "crashfree"
        /\ tracker'.count = tracker.count /\ tracker'.crashFree = tracker.crashFree
        /\ seen'.crashed = seen.crashed /\ seen'.at = now
        /\ seen'.collected = seen.collected
    BY <1>4, <2>2
  <2>5. CrashesInv'
    BY <1>6, <2>2, <2>3, <2>4 DEF CrashesInv
  <2>6. HoursInv'
    <3>1. tracker.hours = 0 /\ tracker.mark = Hours * Interval
      BY <1>6, <2>2 DEF HoursInv
    <3>2. Hours = added[h] /\ Hours' = added[h] + m.count
      BY <1>7, <2>3, <2>4, <3>1 DEF Hours
    <3>3. (added[h] + m.count) * Interval = added[h] * Interval + m.count * Interval
      <4>1. added[h] \in Nat /\ m.count \in Nat /\ Interval \in Nat
        BY <1>3, <2>1
      <4> QED BY <4>1, Distributes
    <3>4. tracker'.mark = Hours' * Interval
      BY <2>1, <2>4, <3>1, <3>2, <3>3
    <3>5. tracker'.mark <= now /\ now < tracker'.mark + Interval
      <4>1. now \in Nat /\ m.mark \in Nat /\ m.mark <= now /\ now - m.mark < Interval
            /\ Interval \in Nat
        BY <1>3, <2>1
      <4> QED BY <2>4, <4>1
    <3> QED BY <2>4, <3>4, <3>5 DEF HoursInv
  <2>7. FreeInv'
    <3>1. FreeHours' = FreeHours
      BY <2>3, <2>4 DEF FreeHours
    <3> QED BY <1>6, <2>2, <2>4, <3>1 DEF FreeInv
  <2>8. CollectedInv'
    BY <1>6, <2>4 DEF CollectedInv
  <2> QED BY <1>2, <2>5, <2>6, <2>7, <2>8 DEF SourceInv, TrackerInv
<1>10. CASE TrackerCrashFree
  <2> DEFINE m == FullIntervals(tracker.crashFree)
  <2>1. /\ m.count \in Nat /\ m.mark \in tracker.crashFree..now
        /\ m.mark = tracker.crashFree + m.count * Interval
    BY <1>3, FullIntervalsAreExact
  <2>2. /\ tracker' = [tracker EXCEPT !.pc = "adding", !.freeHours = m.count,
                                      !.crashFree = m.mark]
        /\ \E free : seen' = [seen EXCEPT !.free = free]
        /\ crashes' = crashes /\ tracker.pc = "crashfree"
    BY <1>10 DEF TrackerCrashFree
  <2>3. added' = added
    BY <1>5, <1>10 DEF TrackerCrashFree, TrackerAdds
  <2> HIDE DEF m
  <2>4. /\ tracker'.mark = tracker.mark /\ tracker'.hours = tracker.hours
        /\ tracker'.freeHours = m.count /\ tracker'.pc = "adding"
        /\ tracker'.count = tracker.count /\ tracker'.crashFree = m.mark
        /\ seen'.crashed = seen.crashed /\ seen'.at = seen.at
        /\ seen'.collected = seen.collected
    BY <1>4, <2>2
  <2>5. CrashesInv'
    BY <1>6, <2>2, <2>3, <2>4 DEF CrashesInv
  <2>6. HoursInv'
    <3>1. Hours' = Hours
      BY <2>3, <2>4 DEF Hours
    <3> QED BY <1>6, <2>4, <3>1 DEF HoursInv
  <2>7. FreeInv'
    <3> DEFINE x == added[f] * Interval
               y == m.count * Interval
    <3>1. tracker.freeHours = 0 /\ FreeHours * Interval <= tracker.crashFree
      BY <1>6, <2>2 DEF FreeInv
    <3>2. FreeHours = added[f] /\ FreeHours' = added[f] + m.count
      BY <1>7, <2>3, <2>4, <3>1 DEF FreeHours
    <3>3. (added[f] + m.count) * Interval = x + y /\ x \in Nat /\ y \in Nat
      <4>1. added[f] \in Nat /\ m.count \in Nat /\ Interval \in Nat
        BY <1>3, <2>1
      <4> QED BY <4>1, Distributes
    <3>4. /\ x <= tracker.crashFree /\ FreeHours' * Interval = x + y
          /\ tracker'.crashFree = tracker.crashFree + y
      BY <2>1, <2>4, <3>1, <3>2, <3>3
    <3> HIDE DEF x, y
    <3>5. FreeHours' * Interval <= tracker'.crashFree
      BY <1>3, <3>3, <3>4
    <3> QED BY <2>4, <3>5 DEF FreeInv
  <2>8. CollectedInv'
    <3> SUFFICES ASSUME NEW t \in seen.collected PROVE t <= m.mark
      BY <2>4 DEF CollectedInv
    <3>1. t \in Nat /\ t <= tracker.crashFree /\ tracker.crashFree \in Nat
      BY <1>3, <1>6 DEF CollectedInv
    <3>2. m.mark \in Nat /\ tracker.crashFree <= m.mark
      <4>1. now \in Nat /\ tracker.crashFree \in Nat /\ m.mark \in tracker.crashFree..now
        BY <1>3, <2>1
      <4> QED BY <4>1
    <3> QED BY <3>1, <3>2
  <2> QED BY <1>2, <2>5, <2>6, <2>7, <2>8 DEF SourceInv, TrackerInv
<1>11. CASE TrackerAdds
  <2>1. /\ added'[h] = added[h] + tracker.hours /\ added'[f] = added[f] + tracker.freeHours
        /\ added'[n] = added[n] + tracker.count
    BY <1>11, TrackerAddsAdds
  <2>2. /\ tracker' = [tracker EXCEPT !.pc = "sleep", !.hours = 0, !.freeHours = 0, !.count = 0]
        /\ seen' = seen /\ crashes' = crashes
    BY <1>11 DEF TrackerAdds
  <2>3. /\ tracker'.mark = tracker.mark /\ tracker'.hours = 0 /\ tracker'.freeHours = 0
        /\ tracker'.pc = "sleep" /\ tracker'.count = 0 /\ tracker'.crashFree = tracker.crashFree
    BY <1>4, <2>2
  <2>4. CrashesInv'
    <3>1. added'[n] + tracker'.count = added[n] + tracker.count
      BY <1>7, <2>1, <2>3
    <3> QED BY <1>6, <2>2, <3>1 DEF CrashesInv
  <2>5. HoursInv'
    <3>1. added'[h] = added[h] + tracker.hours /\ added[h] + tracker.hours \in Nat
          /\ tracker'.hours = 0
      BY <1>7, <2>1, <2>3
    <3>2. Hours' = Hours
      BY <3>1 DEF Hours
    <3> QED BY <1>6, <2>2, <2>3, <3>2 DEF HoursInv
  <2>6. FreeInv'
    <3>1. added'[f] = added[f] + tracker.freeHours /\ added[f] + tracker.freeHours \in Nat
          /\ tracker'.freeHours = 0
      BY <1>7, <2>1, <2>3
    <3>2. FreeHours' = FreeHours
      BY <3>1 DEF FreeHours
    <3> QED BY <1>6, <2>3, <3>2 DEF FreeInv
  <2>7. CollectedInv'
    BY <1>6, <2>2, <2>3 DEF CollectedInv
  <2> QED BY <1>2, <2>4, <2>5, <2>6, <2>7 DEF SourceInv, TrackerInv
<1>12. CASE CrashReported
  <2>1. /\ tracker' = tracker /\ seen' = [seen EXCEPT !.crashed = @ + 1]
        /\ crashes' = Append(crashes, http.at) /\ added' = added
    BY <1>12, QuietSteps DEF CrashReported
  <2>2. Len(crashes') = Len(crashes) + 1
    BY <2>1 DEF SourceTypes
  <2>3. /\ seen'.crashed = seen.crashed + 1 /\ seen'.at = seen.at
        /\ seen'.collected = seen.collected
    BY <1>4, <2>1
  <2>4. CrashesInv'
    <3>1. seen.crashed = added[n] + tracker.count + Len(crashes)
      BY <1>6 DEF CrashesInv
    <3>2. added'[n] = added[n] /\ tracker'.count = tracker.count
      BY <2>1
    <3> QED BY <1>7, <2>2, <2>3, <3>1, <3>2 DEF CrashesInv
  <2>5. Hours' = Hours /\ FreeHours' = FreeHours
    BY <2>1 DEF Hours, FreeHours
  <2>6. HoursInv' /\ FreeInv' /\ CollectedInv'
    BY <1>6, <2>1, <2>3, <2>5 DEF HoursInv, FreeInv, CollectedInv
  <2> QED BY <1>2, <2>4, <2>6 DEF SourceInv, TrackerInv
<1> QED BY <1>8, <1>9, <1>10, <1>11, <1>12 DEF TrackerActs

\* Every step keeps what the sources have counted in agreement with the clock.
LEMMA SourcesStep ==
  ASSUME SourceTypes, StoreTypes, SourceInv, [Next]_vars
  PROVE  SourceInv'
<1>1. CASE OtherActs
  <2>1. OtherStep
    BY <1>1, OtherActsAreOther
  <2>2. /\ UNCHANGED <<tracker, crashes, battery, conn, seen>>
        /\ Still(TrackerKeys) /\ Still(BatteryKeys) /\ Still(ConnKeys)
    BY <2>1, StillElsewhere DEF OtherStep
  <2> QED BY <2>2, TrackerFrame, BatteryFrame, ConnFrame DEF SourceInv
<1>2. CASE LineActs
  <2>1. /\ UNCHANGED <<tracker, crashes, battery, conn, seen>>
        /\ Still(TrackerKeys) /\ Still(BatteryKeys) /\ Still(ConnKeys)
    BY <1>2, LineActsFrame, StillElsewhere
  <2> QED BY <2>1, TrackerFrame, BatteryFrame, ConnFrame DEF SourceInv
<1>3. CASE UNCHANGED vars
  <2>1. /\ UNCHANGED <<tracker, crashes, battery, conn, seen>>
        /\ Still(TrackerKeys) /\ Still(BatteryKeys) /\ Still(ConnKeys)
    BY <1>3, StillElsewhere DEF vars, storeVars
  <2> QED BY <2>1, TrackerFrame, BatteryFrame, ConnFrame DEF SourceInv
<1> QED BY <1>1, <1>2, <1>3, StepsAreSorted, BatteryActsKeepSources, ConnActsKeepSources,
           TrackerActsKeepSources

\* What the sources have counted agrees with the clock they counted by.
THEOREM SourceInvariance == Spec => []SourceInv
<1>1. Init => SourceInv
  BY SourcesInit
<1>2. SourceTypes /\ StoreInv /\ SourceInv /\ [Next]_vars => SourceInv'
  BY SourcesStep DEF StoreInv
<1> QED BY <1>1, <1>2, StoreInvariance, PTL DEF Spec

\* Hours are counted exactly, whenever the tracker wakes up.  However long a check of
\* the connection takes, and whatever time passes between the two times it reads the
\* clock, no more is counted than was watched, and at rest less than a millisecond per
\* check is missing (crashfree_interval.rs:138, connectivity_monitor.rs:56,
\* battery_monitor.rs:108).
THEOREM EachHourOnce == Spec => []TimeIsCountedOnce
<1>1. SourceTypes /\ StoreTypes /\ SourceInv => TimeIsCountedOnce
  <2> SUFFICES ASSUME SourceTypes, StoreTypes, SourceInv PROVE TimeIsCountedOnce
    OBVIOUS
  <2>1. /\ added["operational_hours"] \in Nat /\ added["operational_crashfree_hours"] \in Nat
        /\ tracker.hours \in Nat /\ tracker.freeHours \in Nat /\ seen.at \in Nat
        /\ now \in Nat /\ tracker.crashFree \in 0..now /\ Interval \in Nat \ {0}
    BY SourceNumbers DEF TrackerKeys
  <2>2. Hours \in Nat /\ FreeHours \in Nat /\ FreeHours * Interval \in Nat
    BY <2>1, Distributes DEF Hours, FreeHours
  <2>3. Hours * Interval <= seen.at /\ seen.at < Hours * Interval + Interval
        /\ FreeHours * Interval <= tracker.crashFree
    BY DEF SourceInv, TrackerInv, HoursInv, FreeInv
  <2>4. FreeHours * Interval <= now
    BY <2>1, <2>2, <2>3
  <2>5. Hours = seen.at \div Interval
    BY <2>1, <2>2, <2>3, WholeIntervals
  <2>6. FreeHours <= now \div Interval
    BY <2>1, <2>2, <2>4, WholeIntervals
  <2>7. HoursAreExact
    BY <2>5, <2>6 DEF HoursAreExact, Hours, FreeHours
  <2> DEFINE M == Milli * added["connectivity_expected_time_ms"]
             slack == (Milli - 1) * conn.checks
  <2>8. M \in Nat /\ slack \in Nat /\ Watched \in Int /\ Pending \in Nat
    BY WatchedNumbers
  <2>9. M + Pending <= Watched /\ Watched <= M + Pending + slack
    BY DEF SourceInv, ConnInv
  <2> HIDE DEF M, slack
  <2>10. M <= Watched
    BY <2>8, <2>9
  <2>11. conn.pc = "sleep" => Watched <= M + slack
    BY <2>8, <2>9 DEF Pending
  <2> QED BY <2>7, <2>10, <2>11 DEF TimeIsCountedOnce, SourceInv, BatteryInv, ConnInv, M, slack
<1> QED BY <1>1, StoreInvariance, SourceInvariance, PTL DEF StoreInv

\* An hour that is counted as crash-free holds no crash that was collected
\* (crashfree_interval.rs:155).
THEOREM CrashFreeHoursAre == Spec => CrashFreeHasNoCrash
<1> DEFINE Step == \A free \in seen'.free \ seen.free : \A t \in seen.collected :
                     ~(free[1] < t /\ t <= free[2])
<1>1. SourceTypes /\ StoreTypes /\ SourceInv /\ [Next]_vars => Step
  <2> SUFFICES ASSUME SourceTypes, StoreTypes, SourceInv, [Next]_vars PROVE Step
    OBVIOUS
  <2>1. CASE TrackerCrashFree
    <3> SUFFICES ASSUME NEW free \in seen'.free \ seen.free, NEW t \in seen.collected
                 PROVE  ~(free[1] < t /\ t <= free[2])
      OBVIOUS
    <3>1. free[1] = tracker.crashFree
      BY <2>1 DEF TrackerCrashFree, SourceTypes
    <3>2. t <= tracker.crashFree
      BY DEF SourceInv, TrackerInv, CollectedInv
    <3>3. t \in Nat /\ tracker.crashFree \in Nat
      BY DEF SourceTypes
    <3> QED BY <3>1, <3>2, <3>3
  <2>2. CASE ~TrackerCrashFree
    <3>1. seen'.free = seen.free
      <4>1. CASE OtherActs
        BY <4>1, OtherActsAreOther DEF OtherStep
      <4>2. CASE BatteryActs
        <5>1. PICK r \in BatteryReading : UpdateMetrics(r)
          BY <4>2, BatteryActsFrame
        <5> QED BY <5>1 DEF UpdateMetrics, SourceTypes
      <4>3. CASE ConnActs
        BY <4>3, ConnActsFrame
      <4>4. CASE TrackerActs
        BY <2>2, <4>4 DEF TrackerActs, TrackerCollects, TrackerHours, TrackerAdds, CrashReported,
           SourceTypes
      <4>5. CASE LineActs
        BY <4>5, LineActsFrame
      <4>6. CASE UNCHANGED vars
        BY <4>6 DEF vars
      <4> QED BY <4>1, <4>2, <4>3, <4>4, <4>5, <4>6, StepsAreSorted
    <3> QED BY <3>1
  <2> QED BY <2>1, <2>2
<1>2. SourceTypes /\ StoreInv /\ SourceInv /\ [Next]_vars => [Step]_vars
  BY <1>1 DEF StoreInv
<1> QED BY <1>2, StoreInvariance, SourceInvariance, PTL DEF Spec, CrashFreeHasNoCrash

-----------------------------------------------------------------------------
(* Log lines.                                                              *)

\* The lines of Matches among the first at[c] of each connection c.
MatchesUpTo(at) == {l \in Matches : l.number <= at[l.conn]}
CollectedUpTo == [c \in Conns |-> link[c].collected]
ReadUpTo == [c \in Conns |-> link[c].read]

\* What is in the channel is between what was collected and what was read, in order;
\* and what was collected is what was counted.
LinesInv ==
  /\ \A c \in Conns : /\ link[c].collected <= link[c].read
                      /\ link[c].read <= Len(Streams[c])
  /\ ~enabled \/ collector = "dead" => lines = <<>>
  /\ LinesStayInOrder
  /\ added["log_matches"] = Cardinality(MatchesUpTo(CollectedUpTo))

\* The image of a finite set is finite.
LEMMA FiniteImage ==
  ASSUME NEW S, IsFiniteSet(S), NEW T, NEW f \in [S -> T], \A t \in T : \E x \in S : f[x] = t
  PROVE  IsFiniteSet(T)
<1>1. f \in Surjection(S, T)
  BY DEF Surjection
<1> QED BY <1>1, FS_Surjection

\* The lines that match are finitely many.
LEMMA MatchesAreFinite == IsFiniteSet(Matches)
<1> DEFINE D(c) == {n \in DOMAIN Streams[c] : Streams[c][n] = "match"}
           M(c) == {Line(c, i) : i \in D(c)}
           T == {M(c) : c \in Conns}
<1>1. Matches = UNION T
  BY DEF Matches
<1>2. ASSUME NEW c \in Conns
      PROVE  IsFiniteSet(M(c))
  <2>1. Streams[c] \in Seq(Messages)
    BY MetricsAssumption
  <2>2. DOMAIN Streams[c] = 1..Len(Streams[c]) /\ Len(Streams[c]) \in Nat
    BY <2>1
  <2>3. IsFiniteSet(DOMAIN Streams[c])
    <3>1. 1 \in Int /\ Len(Streams[c]) \in Int
      BY <2>2
    <3>2. IsFiniteSet(1..Len(Streams[c]))
      BY <3>1, FS_Interval
    <3> QED BY <2>2, <3>2
  <2>4. D(c) \in SUBSET DOMAIN Streams[c]
    OBVIOUS
  <2>5. IsFiniteSet(D(c))
    BY <2>3, <2>4, FS_Subset
  <2> DEFINE f == [i \in D(c) |-> Line(c, i)]
  <2>6. f \in [D(c) -> M(c)] /\ \A t \in M(c) : \E x \in D(c) : f[x] = t
    OBVIOUS
  <2> HIDE DEF f, D
  <2> QED BY <2>5, <2>6, FiniteImage
<1>3. IsFiniteSet(T)
  <2> DEFINE g == [c \in Conns |-> M(c)]
  <2>1. g \in [Conns -> T] /\ \A t \in T : \E x \in Conns : g[x] = t
    OBVIOUS
  <2>2. IsFiniteSet(Conns)
    BY MetricsAssumption
  <2> HIDE DEF g, T
  <2> QED BY <2>1, <2>2, FiniteImage
<1>4. \A t \in T : IsFiniteSet(t)
  BY <1>2
<1> HIDE DEF T
<1> QED BY <1>1, <1>3, <1>4, FS_UNION

\* The matches are lines of the streams.
LEMMA MatchesAreLines ==
  /\ \A l \in Matches : /\ l.conn \in Conns /\ l.number \in DOMAIN Streams[l.conn]
                        /\ l.number \in Nat /\ l = Line(l.conn, l.number)
  /\ \A c \in Conns, n \in Nat : n \in DOMAIN Streams[c] =>
       (Line(c, n) \in Matches <=> Streams[c][n] = "match")
<1>1. ASSUME NEW l \in Matches
      PROVE  /\ l.conn \in Conns /\ l.number \in DOMAIN Streams[l.conn]
             /\ l.number \in Nat /\ l = Line(l.conn, l.number)
             /\ Streams[l.conn][l.number] = "match"
  <2>1. PICK c \in Conns : \E i \in {n \in DOMAIN Streams[c] : Streams[c][n] = "match"} :
               l = Line(c, i)
    BY DEF Matches
  <2>2. PICK i \in DOMAIN Streams[c] : l = Line(c, i) /\ Streams[c][i] = "match"
    BY <2>1
  <2>3. l.conn = c /\ l.number = i
    BY <2>2 DEF Line
  <2>4. Streams[c] \in Seq(Messages)
    BY MetricsAssumption
  <2>5. i \in Nat
    BY <2>2, <2>4
  <2> QED BY <2>2, <2>3, <2>5
<1>2. ASSUME NEW c \in Conns, NEW n \in DOMAIN Streams[c], Streams[c][n] = "match"
      PROVE  Line(c, n) \in Matches
  BY <1>2 DEF Matches
<1>3. ASSUME NEW c \in Conns, NEW n \in DOMAIN Streams[c], Line(c, n) \in Matches
      PROVE  Streams[c][n] = "match"
  <2>1. Line(c, n).conn = c /\ Line(c, n).number = n
    BY DEF Line
  <2> QED BY <1>1, <1>3, <2>1
<1> QED BY <1>1, <1>2, <1>3

\* So are those that have come so far.
LEMMA MatchesUpToIsFinite ==
  ASSUME NEW at
  PROVE  IsFiniteSet(MatchesUpTo(at)) /\ Cardinality(MatchesUpTo(at)) \in Nat
<1>1. MatchesUpTo(at) \in SUBSET Matches
  BY DEF MatchesUpTo
<1>2. IsFiniteSet(MatchesUpTo(at))
  BY <1>1, MatchesAreFinite, FS_Subset
<1> QED BY <1>2, FS_CardinalityType

\* A later prefix has at least as many matches.
LEMMA MatchesGrow ==
  ASSUME NEW at \in [Conns -> Nat], NEW to \in [Conns -> Nat], \A c \in Conns : at[c] <= to[c]
  PROVE  Cardinality(MatchesUpTo(at)) <= Cardinality(MatchesUpTo(to))
<1>1. ASSUME NEW l \in MatchesUpTo(at)
      PROVE  l \in MatchesUpTo(to)
  <2>1. l.conn \in Conns /\ l.number \in Nat /\ l \in Matches
    BY MatchesAreLines DEF MatchesUpTo
  <2>2. l.number <= at[l.conn]
    BY DEF MatchesUpTo
  <2>3. at[l.conn] \in Nat /\ to[l.conn] \in Nat /\ at[l.conn] <= to[l.conn]
    BY <2>1
  <2> QED BY <2>1, <2>2, <2>3 DEF MatchesUpTo
<1>2. MatchesUpTo(at) \in SUBSET MatchesUpTo(to)
  BY <1>1
<1> QED BY <1>2, MatchesUpToIsFinite, FS_Subset

\* One more line is one more match if it matches.
LEMMA OneMoreLine ==
  ASSUME NEW at \in [Conns -> Nat], NEW c \in Conns, at[c] + 1 \in DOMAIN Streams[c]
  PROVE  Cardinality(MatchesUpTo([at EXCEPT ![c] = @ + 1])) =
           Cardinality(MatchesUpTo(at)) + (IF Streams[c][at[c] + 1] = "match" THEN 1 ELSE 0)
<1> DEFINE to == [at EXCEPT ![c] = @ + 1]
           x == Line(c, at[c] + 1)
<1>1. x.conn = c /\ x.number = at[c] + 1 /\ at[c] + 1 \in Nat
  BY DEF Line
<1>2. x \in Matches <=> Streams[c][at[c] + 1] = "match"
  BY <1>1, MatchesAreLines
<1>3. x \notin MatchesUpTo(at)
  <2>1. ~(at[c] + 1 <= at[c])
    OBVIOUS
  <2> QED BY <1>1, <2>1 DEF MatchesUpTo
<1>4. ASSUME NEW l \in Matches
      PROVE  l \in MatchesUpTo(to) <=> l \in MatchesUpTo(at) \/ l = x
  <2>1. l.conn \in Conns /\ l.number \in Nat /\ l = Line(l.conn, l.number)
    BY MatchesAreLines
  <2>2. CASE l.conn # c
    <3>1. to[l.conn] = at[l.conn] /\ l # x
      BY <1>1, <2>1, <2>2
    <3> QED BY <3>1 DEF MatchesUpTo
  <2>3. CASE l.conn = c
    <3>1. to[l.conn] = at[c] + 1 /\ at[l.conn] = at[c] /\ at[c] \in Nat
      BY <2>3
    <3>2. l = x <=> l.number = at[c] + 1
      BY <1>1, <2>1, <2>3
    <3>3. l.number <= at[c] + 1 <=> l.number <= at[c] \/ l.number = at[c] + 1
      BY <2>1, <3>1
    <3> HIDE DEF to, x
    <3> QED BY <3>1, <3>2, <3>3 DEF MatchesUpTo
  <2> QED BY <2>2, <2>3
<1>5. MatchesUpTo(at) \subseteq Matches /\ MatchesUpTo(to) \subseteq Matches
  BY DEF MatchesUpTo
<1> HIDE DEF to, x
<1>6. IsFiniteSet(MatchesUpTo(at)) /\ Cardinality(MatchesUpTo(at)) \in Nat
  BY MatchesUpToIsFinite
<1>7. CASE x \in Matches
  <2>1. MatchesUpTo(to) = MatchesUpTo(at) \cup {x}
    BY <1>4, <1>5, <1>7
  <2>2. Cardinality(MatchesUpTo(to)) = Cardinality(MatchesUpTo(at)) + 1
    BY <1>3, <1>6, <2>1, FS_AddElement
  <2> QED BY <1>2, <1>7, <2>2 DEF to
<1>8. CASE x \notin Matches
  <2>1. MatchesUpTo(to) = MatchesUpTo(at)
    BY <1>4, <1>5, <1>8
  <2> QED BY <1>2, <1>6, <1>8, <2>1 DEF to
<1> QED BY <1>7, <1>8

\* The lines that are taken, and when they were numbered.
LEMMA LineFields ==
  /\ \A c, n : Line(c, n).conn = c /\ Line(c, n).number = n
  /\ \A c, n, l : l \in [conn : Conns, number : Nat] /\ l.conn = c /\ l.number = n
                    => l = Line(c, n)
  BY DEF Line

\* No line has been read at the start.
LEMMA LinesInit == Init => LinesInv
<1> SUFFICES ASSUME Init PROVE LinesInv
  OBVIOUS
<1>1. \A c \in Conns : Streams[c] \in Seq(Messages)
  BY MetricsAssumption
<1>2. \A c \in Conns : link[c].collected = 0 /\ link[c].read = 0 /\ Len(Streams[c]) \in Nat
  BY <1>1 DEF Init
<1>3. lines = <<>>
  BY DEF Init
<1>4. MatchesUpTo(CollectedUpTo) = {}
  <2> SUFFICES ASSUME NEW l \in MatchesUpTo(CollectedUpTo) PROVE FALSE
    OBVIOUS
  <2>1. l \in Matches /\ l.number <= CollectedUpTo[l.conn]
    BY DEF MatchesUpTo
  <2>2. l.conn \in Conns /\ l.number \in DOMAIN Streams[l.conn]
    BY <2>1, MatchesAreLines
  <2>3. CollectedUpTo[l.conn] = 0
    BY <1>2, <2>2 DEF CollectedUpTo
  <2>4. l.number >= 1 /\ l.number \in Nat
    BY <1>1, <2>2
  <2> QED BY <2>1, <2>3, <2>4
<1>5. added["log_matches"] = 0
  BY OwnKeys DEF Init, StoreInit, Zero, LogKeys
<1>6. LinesStayInOrder
  BY <1>2, <1>3 DEF LinesStayInOrder
<1> QED BY <1>2, <1>3, <1>4, <1>5, <1>6, FS_EmptySet DEF LinesInv

\* What moves no line keeps the invariant.
LEMMA LinesFrame ==
  ASSUME LinesInv, SourceTypes, Still(LogKeys), UNCHANGED <<lines, collector, enabled>>,
         DOMAIN link' = Conns,
         \A c \in Conns : link'[c].read = link[c].read /\ link'[c].collected = link[c].collected
  PROVE  LinesInv'
<1>1. CollectedUpTo' = CollectedUpTo
  BY DEF CollectedUpTo
<1>2. added'["log_matches"] = added["log_matches"]
  BY DEF Still, LogKeys
<1>3. \A i \in DOMAIN lines : lines[i].conn \in Conns
  <2> DEFINE S == [conn : Conns, number : Nat]
  <2>1. lines \in Seq(S)
    BY DEF SourceTypes
  <2> HIDE DEF S
  <2>2. \A i \in DOMAIN lines : lines[i] \in S
    BY <2>1
  <2> QED BY <2>2 DEF S
<1>4. LinesStayInOrder'
  BY <1>3 DEF LinesInv, LinesStayInOrder
<1> QED BY <1>1, <1>2, <1>4 DEF LinesInv, MatchesUpTo

\* A line that is read is appended behind those of its connection, or dropped unread.
LEMMA ReceiveKeepsLines ==
  ASSUME SourceTypes, LinesInv, NEW c \in Conns, Receive(c)
  PROVE  LinesInv'
<1>1. added' = added /\ collector' = collector /\ enabled' = enabled
  BY QuietSteps DEF Receive
<1>2. link \in [Conns -> [state : {"new", "open", "closed"}, read : Nat, collected : Nat]]
  BY DEF SourceTypes
<1>3. CASE Disconnect(c)
  <2>1. link' = [link EXCEPT ![c].state = "closed"] /\ lines' = lines
    BY <1>3 DEF Disconnect
  <2>2. DOMAIN link' = Conns /\ \A d \in Conns :
          link'[d].read = link[d].read /\ link'[d].collected = link[d].collected
    BY <1>2, <2>1
  <2> QED BY <1>1, <2>1, <2>2, LinesFrame, StillElsewhere
<1>4. CASE ~Disconnect(c)
  <2> DEFINE n == link[c].read + 1
  <2>1. /\ ~(n > Len(Streams[c])) /\ ~(enabled /\ collector = "dead")
        /\ link' = [link EXCEPT ![c].read = n]
        /\ lines' = IF enabled THEN Append(lines, Line(c, n)) ELSE lines
    BY <1>4 DEF Receive
  <2>2. n \in Nat /\ Len(Streams[c]) \in Nat /\ n <= Len(Streams[c])
    <3>1. Streams[c] \in Seq(Messages)
      BY MetricsAssumption
    <3> QED BY <1>2, <2>1, <3>1
  <2>3. /\ DOMAIN link' = Conns /\ link'[c].read = n
        /\ \A d \in Conns : /\ link'[d].collected = link[d].collected
                            /\ d # c => link'[d].read = link[d].read
    BY <1>2, <2>1
  <2>4. /\ \A d \in Conns : link[d].read \in Nat /\ link[d].collected \in Nat
        /\ link[c].read = n - 1
    BY <1>2
  <2> HIDE DEF n
  <2>5. \A d \in Conns : /\ link'[d].collected <= link'[d].read
                         /\ link'[d].read <= Len(Streams[d])
    <3> SUFFICES ASSUME NEW d \in Conns
                 PROVE  link'[d].collected <= link'[d].read /\ link'[d].read <= Len(Streams[d])
      OBVIOUS
    <3>1. link[d].collected <= link[d].read /\ link[d].read <= Len(Streams[d])
      BY DEF LinesInv
    <3>2. CASE d = c
      BY <2>2, <2>3, <2>4, <3>1, <3>2
    <3>3. CASE d # c
      BY <2>3, <3>1, <3>3
    <3> QED BY <3>2, <3>3
  <2>6. CollectedUpTo' = CollectedUpTo
    BY <2>3 DEF CollectedUpTo
  <2>7. CASE ~enabled
    <3>1. lines' = <<>>
      BY <2>1, <2>7 DEF LinesInv
    <3>2. LinesStayInOrder'
      BY <1>1, <2>7 DEF LinesStayInOrder
    <3> QED BY <1>1, <2>5, <2>6, <3>1, <3>2 DEF LinesInv, MatchesUpTo
  <2>8. CASE enabled
    <3>0. collector = "running" /\ lines' = Append(lines, Line(c, n))
      BY <2>1, <2>8 DEF SourceTypes
    <3>1. /\ lines \in Seq([conn : Conns, number : Nat])
      BY DEF SourceTypes
    <3>2. Line(c, n) \in [conn : Conns, number : Nat]
      BY <2>2 DEF Line
    <3> DEFINE S == [conn : Conns, number : Nat]
    <3> HIDE DEF S
    <3>3. /\ lines \in Seq(S) /\ Line(c, n) \in S
      BY <3>1, <3>2 DEF S
    <3>4. /\ Len(lines) \in Nat /\ DOMAIN lines = 1..Len(lines)
          /\ DOMAIN lines' = 1..(Len(lines) + 1)
          /\ \A i \in 1..Len(lines) : lines'[i] = lines[i]
          /\ lines'[Len(lines) + 1] = Line(c, n)
          /\ \A i \in 1..Len(lines) : lines[i] \in S
      BY <3>0, <3>3
    <3>5. \A i \in 1..Len(lines) : lines[i].conn \in Conns /\ lines[i].number \in Nat
      BY <3>4 DEF S
    <3>6. /\ \A d \in Conns : \A m \in (link[d].collected + 1)..link[d].read :
               \E i \in DOMAIN lines : lines[i] = Line(d, m)
          /\ \A i \in DOMAIN lines :
               /\ link[lines[i].conn].collected < lines[i].number
               /\ lines[i].number <= link[lines[i].conn].read
          /\ \A i, j \in DOMAIN lines :
               i < j /\ lines[i].conn = lines[j].conn => lines[i].number < lines[j].number
      BY <2>8, <3>0 DEF LinesInv, LinesStayInOrder
    <3>7. ASSUME NEW d \in Conns, NEW m \in (link'[d].collected + 1)..link'[d].read
          PROVE  \E i \in DOMAIN lines' : lines'[i] = Line(d, m)
      <4>1. CASE d = c /\ m = n
        <5>1. Len(lines) + 1 \in DOMAIN lines' /\ lines'[Len(lines) + 1] = Line(d, m)
          BY <3>4, <4>1
        <5> QED BY <5>1
      <4>2. CASE ~(d = c /\ m = n)
        <5>1. m \in (link[d].collected + 1)..link[d].read
          BY <2>2, <2>3, <2>4, <4>2
        <5>2. PICK i \in DOMAIN lines : lines[i] = Line(d, m)
          BY <3>6, <5>1
        <5>3. i \in DOMAIN lines' /\ lines'[i] = Line(d, m)
          BY <3>4, <5>2
        <5> QED BY <5>3
      <4> QED BY <4>1, <4>2
    <3>8. ASSUME NEW i \in DOMAIN lines'
          PROVE  /\ link'[lines'[i].conn].collected < lines'[i].number
                 /\ lines'[i].number <= link'[lines'[i].conn].read
      <4>1. CASE i = Len(lines) + 1
        <5>1. lines'[i].conn = c /\ lines'[i].number = n
          BY <3>4, <4>1, LineFields
        <5>2. link[c].collected <= link[c].read
          BY DEF LinesInv
        <5> QED BY <2>2, <2>3, <2>4, <5>1, <5>2
      <4>2. CASE i # Len(lines) + 1
        <5>1. i \in DOMAIN lines /\ lines'[i] = lines[i]
          BY <3>4, <4>2
        <5> DEFINE d == lines[i].conn
        <5>2. d \in Conns /\ lines[i].number \in Nat
          BY <3>4, <3>5, <5>1
        <5>3. link[d].collected < lines[i].number /\ lines[i].number <= link[d].read
          BY <3>6, <5>1
        <5>4. link'[d].collected = link[d].collected /\ link[d].read <= link'[d].read
          BY <2>2, <2>3, <2>4, <5>2
        <5>5. link'[d].read \in Nat /\ link[d].read \in Nat
          BY <2>2, <2>3, <2>4, <5>2
        <5> QED BY <5>1, <5>2, <5>3, <5>4, <5>5
      <4> QED BY <4>1, <4>2
    <3>9. ASSUME NEW i \in DOMAIN lines', NEW j \in DOMAIN lines', i < j,
                 lines'[i].conn = lines'[j].conn
          PROVE  lines'[i].number < lines'[j].number
      <4>0. i \in DOMAIN lines /\ lines'[i] = lines[i]
        BY <3>4, <3>9
      <4>1. CASE j = Len(lines) + 1
        <5>1. lines'[j].conn = c /\ lines'[j].number = n
          BY <3>4, <4>1, LineFields
        <5>2. lines[i].number <= link[c].read /\ lines[i].number \in Nat
          BY <3>4, <3>5, <3>6, <3>9, <4>0, <5>1
        <5> QED BY <2>2, <2>4, <4>0, <5>1, <5>2
      <4>2. CASE j # Len(lines) + 1
        <5>1. j \in DOMAIN lines /\ lines'[j] = lines[j]
          BY <3>4, <4>2
        <5> QED BY <3>6, <3>9, <4>0, <5>1
      <4> QED BY <4>1, <4>2
    <3>10. LinesStayInOrder'
      BY <3>7, <3>8, <3>9 DEF LinesStayInOrder
    <3> QED BY <1>1, <2>5, <2>6, <2>8, <3>0, <3>10 DEF LinesInv, MatchesUpTo
  <2> QED BY <2>7, <2>8
<1> QED BY <1>3, <1>4

\* The collector takes the next line of a connection.
LEMMA HeadIsNext ==
  ASSUME SourceTypes, LinesInv, lines # <<>>
  PROVE  LET c == lines[1].conn
         IN  /\ enabled /\ collector = "running" /\ c \in Conns
             /\ lines[1] = Line(c, link[c].collected + 1)
             /\ link[c].collected + 1 <= link[c].read
             /\ link[c].collected + 1 \in DOMAIN Streams[c]
<1> DEFINE c == lines[1].conn
           S == [conn : Conns, number : Nat]
<1>1. lines \in Seq(S) /\ enabled /\ collector = "running"
  BY DEF SourceTypes, LinesInv
<1> HIDE DEF S
<1>2. 1 \in DOMAIN lines /\ DOMAIN lines = 1..Len(lines) /\ Len(lines) \in Nat /\ lines[1] \in S
  BY <1>1
<1>3. c \in Conns /\ lines[1].number \in Nat /\ link[c].collected \in Nat /\ link[c].read \in Nat
  BY <1>2 DEF S, SourceTypes
<1>4. link[c].collected < lines[1].number /\ lines[1].number <= link[c].read
  BY <1>1, <1>2 DEF LinesInv, LinesStayInOrder
<1>5. link[c].collected + 1 \in (link[c].collected + 1)..link[c].read
  BY <1>3, <1>4
<1>6. PICK i \in DOMAIN lines : lines[i] = Line(c, link[c].collected + 1)
  BY <1>1, <1>3, <1>5 DEF LinesInv, LinesStayInOrder
<1>7. lines[i].conn = c /\ lines[i].number = link[c].collected + 1
  BY <1>6, LineFields
<1>8. 1 < i => lines[1].number < lines[i].number
  BY <1>1, <1>2, <1>7 DEF LinesInv, LinesStayInOrder
<1>9. i = 1
  BY <1>2, <1>3, <1>4, <1>7, <1>8
<1>10. link[c].collected + 1 \in DOMAIN Streams[c]
  <2>1. Streams[c] \in Seq(Messages)
    BY <1>3, MetricsAssumption
  <2>2. link[c].read <= Len(Streams[c])
    BY <1>3 DEF LinesInv
  <2> QED BY <1>3, <1>5, <2>1, <2>2
<1> QED BY <1>1, <1>3, <1>5, <1>6, <1>9, <1>10

\* The line that is collected is the next one of its connection.
LEMMA CollectKeepsLines ==
  ASSUME SourceTypes, StoreTypes, LinesInv, Collect
  PROVE  LinesInv'
<1> DEFINE c == lines[1].conn
           k == link[c].collected
           S == [conn : Conns, number : Nat]
<1>1. lines # <<>> /\ lines \in Seq(S) /\ Head(lines) = lines[1]
  <2>1. lines # <<>> /\ lines \in Seq(S)
    BY DEF Collect, SourceTypes
  <2> QED BY <2>1
<1>2. /\ enabled /\ collector = "running" /\ c \in Conns /\ lines[1] = Line(c, k + 1)
      /\ k + 1 <= link[c].read /\ k + 1 \in DOMAIN Streams[c]
  BY <1>1, HeadIsNext
<1>3. /\ link' = [link EXCEPT ![c].collected = k + 1] /\ enabled' = enabled
      /\ \/ collector' = "dead" /\ lines' = <<>>
         \/ collector' = collector /\ lines' = Tail(lines)
  BY <1>1 DEF Collect
<1>4. link \in [Conns -> [state : {"new", "open", "closed"}, read : Nat, collected : Nat]]
  BY DEF SourceTypes
<1> HIDE DEF c, S
<1>5. /\ DOMAIN link' = Conns /\ link'[c].collected = k + 1
      /\ \A d \in Conns : /\ link'[d].read = link[d].read
                          /\ d # c => link'[d].collected = link[d].collected
  BY <1>2, <1>3, <1>4
<1>6. k \in Nat /\ \A d \in Conns : link[d].read \in Nat /\ link[d].collected \in Nat
  BY <1>2, <1>4
<1>7. \A d \in Conns : link'[d].collected <= link'[d].read /\ link'[d].read <= Len(Streams[d])
  BY <1>2, <1>5 DEF LinesInv
<1>8. added'["log_matches"] = Cardinality(MatchesUpTo(CollectedUpTo)')
  <2> DEFINE at == CollectedUpTo
  <2>1. at \in [Conns -> Nat] /\ at[c] = k
    BY <1>2, <1>6 DEF CollectedUpTo
  <2>2. CollectedUpTo' = [at EXCEPT ![c] = @ + 1]
    BY <1>2, <1>5 DEF CollectedUpTo
  <2>3. added["log_matches"] = Cardinality(MatchesUpTo(at)) /\ added["log_matches"] \in Nat
    BY SourceNumbers DEF LinesInv, LogKeys
  <2>4. Message(Head(lines)) = Streams[c][k + 1]
    BY <1>1, <1>2, LineFields DEF Message
  <2>5. IF Streams[c][k + 1] = "match"
        THEN added'["log_matches"] = added["log_matches"] + 1
        ELSE added'["log_matches"] = added["log_matches"]
    BY <2>4, CollectAdds
  <2>6. MatchesUpTo(CollectedUpTo)' = MatchesUpTo([at EXCEPT ![c] = @ + 1])
    BY <2>2 DEF MatchesUpTo
  <2> HIDE DEF at, k
  <2>7. Cardinality(MatchesUpTo([at EXCEPT ![c] = @ + 1])) =
          Cardinality(MatchesUpTo(at)) + (IF Streams[c][k + 1] = "match" THEN 1 ELSE 0)
    BY <1>2, <2>1, OneMoreLine
  <2> QED BY <2>3, <2>5, <2>6, <2>7
<1>9. CASE collector' = "dead" /\ lines' = <<>>
  <2>1. LinesStayInOrder'
    BY <1>9 DEF LinesStayInOrder
  <2> QED BY <1>7, <1>8, <1>9, <2>1 DEF LinesInv
<1>10. CASE collector' = collector /\ lines' = Tail(lines)
  <2>1. /\ Len(lines) \in Nat /\ DOMAIN lines = 1..Len(lines) /\ Len(lines) >= 1
        /\ DOMAIN lines' = 1..(Len(lines) - 1)
        /\ \A i \in 1..(Len(lines) - 1) : lines'[i] = lines[i + 1]
        /\ \A i \in 1..Len(lines) : lines[i] \in S
    BY <1>1, <1>10
  <2>2. \A i \in 1..Len(lines) : lines[i].conn \in Conns /\ lines[i].number \in Nat
    BY <2>1 DEF S
  <2>3. /\ \A d \in Conns : \A m \in (link[d].collected + 1)..link[d].read :
             \E i \in DOMAIN lines : lines[i] = Line(d, m)
        /\ \A i \in DOMAIN lines :
             /\ link[lines[i].conn].collected < lines[i].number
             /\ lines[i].number <= link[lines[i].conn].read
        /\ \A i, j \in DOMAIN lines :
             i < j /\ lines[i].conn = lines[j].conn => lines[i].number < lines[j].number
    BY <1>2 DEF LinesInv, LinesStayInOrder
  <2>4. lines[1].conn = c /\ lines[1].number = k + 1
    BY <1>2, LineFields
  <2>5. ASSUME NEW i \in DOMAIN lines'
        PROVE  /\ i \in 1..(Len(lines) - 1) /\ i + 1 \in DOMAIN lines
               /\ lines'[i] = lines[i + 1] /\ 1 < i + 1
    BY <2>1
  <2>6. ASSUME NEW d \in Conns, NEW m \in (link'[d].collected + 1)..link'[d].read
        PROVE  \E i \in DOMAIN lines' : lines'[i] = Line(d, m)
    <3>1. m \in (link[d].collected + 1)..link[d].read /\ (d = c => m # k + 1)
      BY <1>5, <1>6
    <3>2. PICK i \in DOMAIN lines : lines[i] = Line(d, m)
      BY <2>3, <3>1
    <3>3. i # 1
      BY <2>4, <3>1, <3>2, LineFields
    <3>4. i - 1 \in DOMAIN lines' /\ lines'[i - 1] = lines[i]
      BY <2>1, <3>2, <3>3
    <3> QED BY <3>2, <3>4
  <2>7. ASSUME NEW i \in DOMAIN lines'
        PROVE  /\ link'[lines'[i].conn].collected < lines'[i].number
               /\ lines'[i].number <= link'[lines'[i].conn].read
    <3> DEFINE d == lines[i + 1].conn  m == lines[i + 1].number
    <3>1. i + 1 \in DOMAIN lines /\ lines'[i] = lines[i + 1] /\ 1 < i + 1
      BY <2>5
    <3>2. d \in Conns /\ m \in Nat
      BY <2>1, <2>2, <3>1
    <3>3. link[d].collected < m /\ m <= link[d].read
      BY <2>3, <3>1
    <3>4. d = c => k + 1 < m
      BY <2>1, <2>3, <2>4, <3>1
    <3> HIDE DEF d, m
    <3>5. link'[d].collected < m /\ m <= link'[d].read
      BY <1>5, <3>2, <3>3, <3>4
    <3> QED BY <3>1, <3>5 DEF d, m
  <2>8. ASSUME NEW i \in DOMAIN lines', NEW j \in DOMAIN lines', i < j,
               lines'[i].conn = lines'[j].conn
        PROVE  lines'[i].number < lines'[j].number
    <3>1. /\ i + 1 \in DOMAIN lines /\ lines'[i] = lines[i + 1]
          /\ j + 1 \in DOMAIN lines /\ lines'[j] = lines[j + 1]
      BY <2>5
    <3>2. i + 1 < j + 1
      BY <2>1, <2>8
    <3> QED BY <2>3, <2>8, <3>1, <3>2
  <2>9. LinesStayInOrder'
    BY <2>6, <2>7, <2>8 DEF LinesStayInOrder
  <2> QED BY <1>2, <1>3, <1>7, <1>8, <1>10, <2>9 DEF LinesInv
<1> QED BY <1>3, <1>9, <1>10

\* Every step keeps the order of the lines.
LEMMA LinesStep ==
  ASSUME SourceTypes, StoreTypes, LinesInv, [Next]_vars
  PROVE  LinesInv'
<1>0. DOMAIN link = Conns
  BY DEF SourceTypes
<1>1. CASE OtherActs
  <2>1. UNCHANGED <<link, lines, collector, enabled>> /\ Still(LogKeys)
    BY <1>1, OtherActsAreOther, StillElsewhere DEF OtherStep
  <2> QED BY <1>0, <2>1, LinesFrame
<1>2. CASE BatteryActs
  <2>1. UNCHANGED <<link, lines, collector, enabled>> /\ Still(LogKeys)
    BY <1>2, BatteryActsFrame, StillElsewhere
  <2> QED BY <1>0, <2>1, LinesFrame
<1>3. CASE ConnActs
  <2>1. UNCHANGED <<link, lines, collector, enabled>> /\ Still(LogKeys)
    BY <1>3, ConnActsFrame, StillElsewhere
  <2> QED BY <1>0, <2>1, LinesFrame
<1>4. CASE TrackerActs
  <2>1. UNCHANGED <<link, lines, collector, enabled>> /\ Still(LogKeys)
    BY <1>4, TrackerActsFrame, StillElsewhere
  <2> QED BY <1>0, <2>1, LinesFrame
<1>5. CASE \E c \in Conns : Connect(c)
  <2> PICK c \in Conns : Connect(c)
    BY <1>5
  <2>1. UNCHANGED <<lines, collector, enabled>> /\ Still(LogKeys)
        /\ link' = [link EXCEPT ![c].state = "open"]
    BY QuietSteps, StillElsewhere DEF Connect
  <2>2. DOMAIN link' = Conns /\ \A d \in Conns :
          link'[d].read = link[d].read /\ link'[d].collected = link[d].collected
    <3>1. link \in [Conns -> [state : {"new", "open", "closed"}, read : Nat, collected : Nat]]
      BY DEF SourceTypes
    <3> QED BY <2>1, <3>1
  <2> QED BY <2>1, <2>2, LinesFrame
<1>6. CASE UNCHANGED vars
  <2>1. UNCHANGED <<link, lines, collector, enabled>> /\ Still(LogKeys)
    BY <1>6, StillElsewhere DEF vars, storeVars
  <2> QED BY <1>0, <2>1, LinesFrame
<1> QED BY <1>1, <1>2, <1>3, <1>4, <1>5, <1>6, StepsAreSorted, ReceiveKeepsLines,
           CollectKeepsLines DEF LineActs

\* The lines in the buffer are, connection by connection, those after the last one
\* collected, and what is counted is what was collected.
THEOREM LinesInvariance == Spec => []LinesInv
<1>1. SourceTypes /\ StoreInv /\ LinesInv /\ [Next]_vars => LinesInv'
  BY LinesStep DEF StoreInv
<1> QED BY <1>1, LinesInit, StoreInvariance, PTL DEF Spec

\* Between a connection and the collector no line is lost, repeated or overtaken
\* (fluent_bit/mod.rs:83).
THEOREM LinesKeepTheirOrder == Spec => []LinesStayInOrder
<1>1. LinesInv => LinesStayInOrder
  BY DEF LinesInv
<1> QED BY <1>1, LinesInvariance, PTL

-----------------------------------------------------------------------------
(* The average of the battery level.                                       *)

\* The sum of an average is at most the highest level, for as long as it weighs.
LevelSeries(s) ==
  /\ s = [type |-> "average", sum |-> s.sum, weight |-> s.weight, end |-> s.end]
  /\ s.sum \in Nat /\ s.weight \in Nat /\ s.end \in Int
  /\ \E l \in Levels : s.sum <= l * s.weight

LevelValue(v) == v.num >= 0 /\ \E l \in Levels : v.num <= l * v.den

AverageInv ==
  /\ SocKey \in DOMAIN heartbeat.metrics => LevelSeries(heartbeat.metrics[SocKey])
  /\ \A d \in Dumpers : SocKey \in DOMAIN dump[d].values => LevelValue(dump[d].values[SocKey])

\* A weighted sum of values up to a bound is at most the bound times the weights.
LEMMA Weighs ==
  ASSUME NEW a \in Nat, NEW w \in Nat, NEW l \in Nat, NEW v \in Nat, NEW m \in Nat,
         NEW t \in Nat, a <= l * w, v <= m
  PROVE  /\ l >= m => a + v * t <= l * (w + t)
         /\ m >= l => a + v * t <= m * (w + t)
         /\ v * t \in Nat /\ v * t <= m * t
<1>1. \A x, y, z \in Nat : x <= y => x * z <= y * z /\ x * z \in Nat /\ y * z \in Nat
  <2> SUFFICES ASSUME NEW x \in Nat, NEW y \in Nat, NEW z \in Nat, x <= y
               PROVE  x * z <= y * z /\ x * z \in Nat /\ y * z \in Nat
    OBVIOUS
  <2>1. PICK d \in Nat : y = x + d
    <3>1. y - x \in Nat /\ y = x + (y - x)
      OBVIOUS
    <3> QED BY <3>1
  <2>2. y * z = x * z + d * z /\ x * z \in Nat /\ d * z \in Nat
    BY <2>1, Distributes
  <2> QED BY <2>2
<1>2. v * t <= m * t /\ v * t \in Nat /\ m * t \in Nat
  BY <1>1
<1>3. l * (w + t) = l * w + l * t /\ m * (w + t) = m * w + m * t
  OBVIOUS
<1>4. l * w \in Nat /\ m * w \in Nat /\ l * t \in Nat
  BY <1>1
<1>5. ASSUME l >= m
      PROVE  a + v * t <= l * (w + t)
  <2>1. m * t <= l * t
    BY <1>1, <1>5
  <2> QED BY <1>2, <1>3, <1>4, <2>1
<1>6. ASSUME m >= l
      PROVE  a + v * t <= m * (w + t)
  <2>1. l * w <= m * w
    BY <1>1, <1>6
  <2> QED BY <1>2, <1>3, <1>4, <2>1
<1> QED BY <1>2, <1>5, <1>6

\* A level counts for the whole milliseconds since the reading before.
LEMMA AggregateAverage ==
  ASSUME NEW a \in Nat, NEW w \in Nat, NEW e \in Int, NEW r, r.timestamp \in Int, r.value \in Nat
  PROVE  Aggregate([type |-> "average", sum |-> a, weight |-> w, end |-> e], r) =
           [type |-> "average", sum |-> a + r.value * Millis(r.timestamp - e),
            weight |-> w + Millis(r.timestamp - e), end |-> r.timestamp]
  BY DEF Aggregate

\* A reading of the level makes a series of levels, or joins one, also when the wall
\* clock was set back.
LEMMA AddMetricsAverages ==
  ASSUME NEW rep, NEW C, GoodReport(rep, C), NEW ms, GoodReadings(ms),
         SocKey \in DOMAIN rep.metrics => LevelSeries(rep.metrics[SocKey]),
         SocKey \in DOMAIN AddMetrics(rep, ms).metrics
  PROVE  LevelSeries(AddMetrics(rep, ms).metrics[SocKey])
<1> DEFINE taken == {k \in DOMAIN ms : IsCaptured(rep, k) /\ ms[k].finite}
           fits(k) == k \in DOMAIN rep.metrics /\ Compatible(rep.metrics[k], ms[k])
           new(k) == IF fits(k) THEN Aggregate(rep.metrics[k], ms[k])
                                ELSE SelectAggregateFor(k, ms[k])
           series == [k \in DOMAIN rep.metrics \cup taken |->
                        IF k \in taken THEN new(k) ELSE rep.metrics[k]]
           r == ms[SocKey]
           s == rep.metrics[SocKey]
<1>1. AddMetrics(rep, ms).metrics = series
  BY DEF AddMetrics, GoodReport
<1>2. CASE SocKey \notin taken
  BY <1>1, <1>2
<1>3. CASE SocKey \in taken
  <2>1. /\ r.kind = "gauge" /\ r.value \in Nat /\ r.interval \in Nat /\ r.timestamp \in Int
        /\ \E l \in Levels : r.value <= l
    BY <1>3 DEF GoodReadings, GoodLevel, GoodLevels
  <2>2. PICK m \in Levels : r.value <= m
    BY <2>1
  <2>3. Levels \subseteq Nat
    BY MetricsAssumption
  <2>4. CASE fits(SocKey)
    <3>1. LevelSeries(s) /\ r.timestamp >= s.end
      BY <2>4 DEF Compatible, LevelSeries
    <3> DEFINE t == Millis(r.timestamp - s.end)
    <3>0. t \in Nat
      <4>1. r.timestamp - s.end \in Nat
        BY <2>1, <3>1 DEF LevelSeries
      <4> QED BY <4>1, MillisRoundDown
    <3>2. /\ t \in Nat /\ s.sum \in Nat /\ s.weight \in Nat /\ s.end \in Int
          /\ s = [type |-> "average", sum |-> s.sum, weight |-> s.weight, end |-> s.end]
      BY <3>0, <3>1 DEF LevelSeries
    <3>3. Aggregate(s, r) = [type |-> "average", sum |-> s.sum + r.value * t,
                             weight |-> s.weight + t, end |-> r.timestamp]
      BY <2>1, <3>2, AggregateAverage
    <3>4. PICK l \in Levels : s.sum <= l * s.weight
      BY <3>1 DEF LevelSeries
    <3>5. AddMetrics(rep, ms).metrics[SocKey] = Aggregate(s, r)
      BY <1>1, <1>3, <2>4
    <3> DEFINE a == s.sum  w == s.weight  v == r.value
    <3>6. /\ a \in Nat /\ w \in Nat /\ v \in Nat /\ l \in Nat /\ m \in Nat /\ t \in Nat
          /\ a <= l * w /\ v <= m
      BY <2>1, <2>2, <2>3, <3>2, <3>4
    <3> HIDE DEF a, w, v, t, r, s
    <3>7. /\ l >= m => a + v * t <= l * (w + t)
          /\ m >= l => a + v * t <= m * (w + t)
          /\ v * t \in Nat
      BY <3>6, Weighs
    <3>8. \E x \in Levels : a + v * t <= x * (w + t)
      <4>1. l >= m \/ m >= l
        BY <3>6
      <4> QED BY <3>7, <4>1
    <3>9. a + v * t \in Nat /\ w + t \in Nat
      BY <3>6, <3>7
    <3>10. AddMetrics(rep, ms).metrics[SocKey] =
             [type |-> "average", sum |-> a + v * t, weight |-> w + t, end |-> r.timestamp]
      BY <3>3, <3>5 DEF a, v, w
    <3> QED BY <2>1, <3>8, <3>9, <3>10 DEF LevelSeries
  <2>5. CASE ~fits(SocKey)
    <3>1. SelectAggregateFor(SocKey, r) = TimeWeightedAverage(r)
      BY <2>1 DEF SelectAggregateFor
    <3>2. AddMetrics(rep, ms).metrics[SocKey] = TimeWeightedAverage(r)
      BY <1>1, <1>3, <2>5, <3>1
    <3> DEFINE v == r.value  t == Millis(r.interval)
    <3>0. t \in Nat
      BY <2>1, MillisRoundDown
    <3> HIDE DEF t
    <3>3. v \in Nat /\ t \in Nat /\ m \in Nat /\ v <= m /\ 0 \in Nat /\ 0 <= m * 0
      BY <2>1, <2>2, <2>3, <3>0
    <3>4. TimeWeightedAverage(r) = [type |-> "average", sum |-> v * t, weight |-> t,
                                    end |-> r.timestamp]
      BY DEF TimeWeightedAverage, t
    <3> HIDE DEF v, t, r
    <3>5. v * t \in Nat /\ v * t <= m * t
      BY <3>3, Weighs
    <3> QED BY <2>1, <3>2, <3>3, <3>4, <3>5 DEF LevelSeries
  <2> QED BY <2>4, <2>5
<1> QED BY <1>2, <1>3

\* Taking a heartbeat takes its average.
LEMMA PrepareAverages ==
  ASSUME StoreTypes, AverageInv, NEW d \in Dumpers, NEW rep, NEW type, NEW fails,
         SocKey \in DOMAIN rep.metrics => LevelSeries(rep.metrics[SocKey]),
         Prepare(d, rep, type, fails), NEW e \in Dumpers, SocKey \in DOMAIN dump'[e].values
  PROVE  LevelValue(dump'[e].values[SocKey])
<1> DEFINE taken == [type |-> type, values |-> Snapshot(rep)]
<1>1. \/ dump' = dump
      \/ dump' = [dump EXCEPT ![d] = taken]
  BY DEF Prepare
<1>2. SocKey \in DOMAIN taken.values => LevelValue(taken.values[SocKey])
  <2> SUFFICES ASSUME SocKey \in DOMAIN taken.values PROVE LevelValue(taken.values[SocKey])
    OBVIOUS
  <2>1. SocKey \in DOMAIN rep.metrics /\ taken.values[SocKey] = Value(rep.metrics[SocKey])
    BY DEF Snapshot
  <2>2. LevelSeries(rep.metrics[SocKey])
    BY <2>1
  <2> HIDE DEF taken
  <2> QED BY <2>1, <2>2 DEF LevelSeries, LevelValue, Value
<1> HIDE DEF taken
<1>3. DOMAIN dump = Dumpers
  BY DEF StoreTypes
<1>4. CASE dump' = dump \/ e # d
  BY <1>1, <1>3, <1>4 DEF AverageInv
<1>5. CASE dump' = [dump EXCEPT ![d] = taken] /\ e = d
  BY <1>2, <1>3, <1>5
<1> QED BY <1>1, <1>4, <1>5

\* Sessions have averages of their own.
SessionAverages ==
  \A s \in DOMAIN sessions :
    SocKey \in DOMAIN sessions[s].metrics => LevelSeries(sessions[s].metrics[SocKey])

\* Every step of the store keeps the averages within the levels that were read.
LEMMA AverageStep ==
  ASSUME StoreTypes, AverageInv, SessionAverages, StoreStep
  PROVE  AverageInv' /\ SessionAverages'
<1>1. CASE \E ms : GoodReadings(ms) /\ Put(ms)
  <2> PICK ms : GoodReadings(ms) /\ Put(ms)
    BY <1>1
  <2>1. /\ heartbeat' = AddMetrics(heartbeat, ms) /\ dump' = dump
        /\ DOMAIN sessions' = DOMAIN sessions
        /\ \A s \in DOMAIN sessions : sessions'[s] = AddMetrics(sessions[s], ms)
    BY DEF Put
  <2>2. SocKey \in DOMAIN heartbeat'.metrics => LevelSeries(heartbeat'.metrics[SocKey])
    BY <2>1, AddMetricsAverages DEF StoreTypes, AverageInv
  <2>3. ASSUME NEW s \in DOMAIN sessions, SocKey \in DOMAIN sessions'[s].metrics
        PROVE  LevelSeries(sessions'[s].metrics[SocKey])
    <3>1. GoodReport(sessions[s], Captured[s]) /\ sessions'[s] = AddMetrics(sessions[s], ms)
      BY <2>1 DEF StoreTypes
    <3>2. SocKey \in DOMAIN sessions[s].metrics => LevelSeries(sessions[s].metrics[SocKey])
      BY DEF SessionAverages
    <3> QED BY <2>3, <3>1, <3>2, AddMetricsAverages
  <2> QED BY <2>1, <2>2, <2>3 DEF AverageInv, SessionAverages
<1>2. CASE \E s \in SessionNames : StartSession(s)
  <2> PICK s \in SessionNames : StartSession(s)
    BY <1>2
  <2>1. /\ heartbeat' = heartbeat /\ dump' = dump
        /\ \A t \in DOMAIN sessions' :
             IF t = s THEN sessions'[t] = NewReport(Captured[s])
             ELSE t \in DOMAIN sessions /\ sessions'[t] = sessions[t]
    BY DEF StartSession
  <2>2. DOMAIN NewReport(Captured[s]).metrics = {}
    BY DEF NewReport, Empty
  <2> QED BY <2>1, <2>2 DEF AverageInv, SessionAverages
<1>3. CASE \E d \in Dumpers, fails \in BOOLEAN : TakeHeartbeat(d, fails)
  <2> PICK d \in Dumpers, fails \in BOOLEAN : TakeHeartbeat(d, fails)
    BY <1>3
  <2>1. /\ Prepare(d, heartbeat, "heartbeat", fails) /\ heartbeat' = Reset(heartbeat)
        /\ sessions' = sessions
    BY DEF TakeHeartbeat
  <2>2. DOMAIN heartbeat'.metrics = {}
    BY <2>1 DEF Reset, Empty, StoreTypes, GoodReport
  <2>3. SocKey \in DOMAIN heartbeat.metrics => LevelSeries(heartbeat.metrics[SocKey])
    BY DEF AverageInv
  <2>4. \A e \in Dumpers : SocKey \in DOMAIN dump'[e].values => LevelValue(dump'[e].values[SocKey])
    BY <2>1, <2>3, PrepareAverages
  <2> QED BY <2>1, <2>2, <2>4 DEF AverageInv, SessionAverages
<1>4. CASE \E s \in SessionNames, fails \in BOOLEAN : EndSession(s, fails)
  <2> PICK s \in SessionNames, fails \in BOOLEAN : EndSession(s, fails)
    BY <1>4
  <2>1. /\ s \in DOMAIN sessions /\ Prepare("http", sessions[s], "session", fails)
        /\ heartbeat' = heartbeat
        /\ \A t \in DOMAIN sessions' : t \in DOMAIN sessions /\ sessions'[t] = sessions[t]
    BY DEF EndSession
  <2>2. SocKey \in DOMAIN sessions[s].metrics => LevelSeries(sessions[s].metrics[SocKey])
    BY <2>1 DEF SessionAverages
  <2>3. "http" \in Dumpers
    BY DEF Dumpers
  <2>4. \A e \in Dumpers : SocKey \in DOMAIN dump'[e].values => LevelValue(dump'[e].values[SocKey])
    BY <2>1, <2>2, <2>3, PrepareAverages
  <2> QED BY <2>1, <2>4 DEF AverageInv, SessionAverages
<1>5. CASE \E d \in Dumpers, fails \in BOOLEAN : SaveReport(d, fails)
  <2> PICK d \in Dumpers, fails \in BOOLEAN : SaveReport(d, fails)
    BY <1>5
  <2>1. /\ heartbeat' = heartbeat /\ sessions' = sessions
        /\ dump' = [dump EXCEPT ![d] = NoDump]
    BY DEF SaveReport
  <2>2. \A e \in Dumpers : dump'[e] = dump[e] \/ dump'[e] = NoDump
    BY <2>1 DEF StoreTypes
  <2>3. DOMAIN NoDump.values = {}
    BY DEF NoDump, Empty
  <2> QED BY <2>1, <2>2, <2>3 DEF AverageInv, SessionAverages
<1>6. CASE UNCHANGED storeVars
  BY <1>6 DEF storeVars, AverageInv, SessionAverages
<1> QED BY <1>1, <1>2, <1>3, <1>4, <1>5, <1>6 DEF StoreStep

\* There are no averages at the start.
LEMMA AverageInit == StoreInit => AverageInv /\ SessionAverages
<1> SUFFICES ASSUME StoreInit PROVE AverageInv /\ SessionAverages
  OBVIOUS
<1>1. heartbeat = NewReport(Keys) /\ DOMAIN NewReport(Keys).metrics = {}
  BY DEF StoreInit, NewReport, Empty
<1>2. \A d \in Dumpers : dump[d] = NoDump
  BY DEF StoreInit
<1>3. DOMAIN NoDump.values = {}
  BY DEF NoDump, Empty
<1>4. DOMAIN sessions = {}
  BY DEF StoreInit
<1> QED BY <1>1, <1>2, <1>3, <1>4 DEF AverageInv, SessionAverages

\* The battery level that is reported is not negative and not above every level, though
\* the wall clock may be set back (timeseries/mod.rs:172).
THEOREM LevelsAreBounded == Spec => []AverageIsBounded
<1>1. Init => AverageInv /\ SessionAverages
  BY AverageInit DEF Init
<1>2. /\ SourceTypes /\ StoreInv /\ AverageInv /\ SessionAverages /\ [Next]_vars
      => AverageInv' /\ SessionAverages'
  BY TypesStep, AverageStep DEF StoreInv
<1>3. AverageInv => AverageIsBounded
  <2> SUFFICES ASSUME AverageInv PROVE AverageIsBounded
    OBVIOUS
  <2>1. ASSUME SocKey \in DOMAIN heartbeat.metrics
        PROVE  LevelValue(Value(heartbeat.metrics[SocKey]))
    <3>1. LevelSeries(heartbeat.metrics[SocKey])
      BY <2>1 DEF AverageInv
    <3> QED BY <3>1 DEF LevelSeries, LevelValue, Value
  <2> QED BY <2>1 DEF AverageInv, AverageIsBounded, LevelValue
<1> QED BY <1>1, <1>2, <1>3, StoreInvariance, PTL DEF Spec

\* Every variable stays in its set.
THEOREM MetricsTypeCorrect == Spec => []TypeOK
<1>1. SourceTypes /\ StoreInv /\ LinesInv => TypeOK
  <2> SUFFICES ASSUME SourceTypes, StoreTypes, LinesInv PROVE TypeOK
    BY DEF StoreInv
  <2>1. /\ DOMAIN heartbeat.metrics \subseteq Keys /\ DOMAIN sessions \subseteq DOMAIN Captured
        /\ \A k \in CounterKeys : added[k] >= 0 /\ saved[k] >= 0 /\ lost[k] >= 0
    BY DEF StoreTypes, GoodReport, Totals
  <2>2. \A i \in DOMAIN crashes : crashes[i] \in 0..now
    <3> DEFINE W == 0..now
    <3>1. crashes \in Seq(W)
      BY DEF SourceTypes
    <3> HIDE DEF W
    <3>2. \A i \in DOMAIN crashes : crashes[i] \in W
      BY <3>1
    <3> QED BY <3>2 DEF W
  <2>3. \A c \in Conns : link[c].collected <= link[c].read
    BY DEF LinesInv
  <2> QED BY <2>1, <2>2, <2>3 DEF TypeOK, SourceTypes
<1> QED BY <1>1, StoreInvariance, LinesInvariance, PTL

-----------------------------------------------------------------------------
(* The daemon implements the ledger.                                       *)

AllInv == SourceTypes /\ StoreInv /\ SourceInv /\ LinesInv

\* What was noted of a counter, in terms of the invariants.
NotedTable ==
  /\ Noted("operational_crashes") = seen.crashed
  /\ Noted("operational_hours") = Hours
  /\ Noted("operational_crashfree_hours") = FreeHours
  /\ Noted("connectivity_expected_time_ms") = Millis(Watched)
  /\ Noted("log_matches") = Cardinality(MatchesUpTo(ReadUpTo))
  /\ \A k \in CounterKeys \ (TrackerKeys \cup LogKeys) :
       k # "connectivity_expected_time_ms" => Noted(k) = added[k]

\* What was noted is a number, and at least what the store accepted.
NotedCovers ==
  \A k \in CounterKeys : Noted(k) \in Nat /\ added[k] \in Nat /\ added[k] <= Noted(k)

\* What the ledger has noted, counter by counter.
LEMMA NotedValues == AllInv => NotedTable
<1> SUFFICES ASSUME AllInv PROVE NotedTable
  OBVIOUS
<1> USE DEF AllInv
<1>0. StoreTypes
  BY DEF StoreInv
<1>1. Noted("operational_crashes") = seen.crashed
  BY DEF Noted
<1>2. Noted("operational_hours") = Hours
  <2>1. Noted("operational_hours") = tracker.mark \div Interval
    BY DEF Noted
  <2>2. tracker.mark \in Nat /\ Hours \in Nat /\ Interval \in Nat \ {0}
    <3>1. /\ added["operational_hours"] \in Nat /\ tracker.hours \in Nat /\ now \in Nat
          /\ tracker.mark \in 0..now /\ Interval \in Nat \ {0}
      BY <1>0, SourceNumbers DEF TrackerKeys
    <3> QED BY <3>1 DEF Hours
  <2>3. tracker.mark = Hours * Interval
    BY DEF SourceInv, TrackerInv, CrashesInv, HoursInv, FreeInv
  <2>4. Hours * Interval <= tracker.mark /\ tracker.mark < Hours * Interval + Interval
    BY <2>2, <2>3
  <2> QED BY <2>1, <2>2, <2>4, WholeIntervals
<1>3. Noted("operational_crashfree_hours") = FreeHours
  BY DEF Noted, FreeHours
<1>4. Noted("connectivity_expected_time_ms") = Millis(Watched)
  BY DEF Noted
<1>5. Noted("log_matches") = Cardinality(MatchesUpTo(ReadUpTo))
  <2>1. Noted("log_matches") = Cardinality({l \in Matches : l.number <= link[l.conn].read})
    BY DEF Noted
  <2>2. {l \in Matches : l.number <= link[l.conn].read} = MatchesUpTo(ReadUpTo)
    <3>1. \A l \in Matches : ReadUpTo[l.conn] = link[l.conn].read
      BY MatchesAreLines DEF ReadUpTo
    <3> QED BY <3>1 DEF MatchesUpTo
  <2> QED BY <2>1, <2>2
<1>6. ASSUME NEW k \in CounterKeys \ (TrackerKeys \cup LogKeys),
             k # "connectivity_expected_time_ms"
      PROVE  Noted(k) = added[k]
  BY <1>6 DEF Noted, TrackerKeys, LogKeys
<1> QED BY <1>1, <1>2, <1>3, <1>4, <1>5, <1>6 DEF NotedTable

\* What was counted as expected time was watched.
LEMMA WatchedCovers ==
  ASSUME SourceTypes, StoreTypes, SourceInv
  PROVE  Milli * added["connectivity_expected_time_ms"] <= Watched /\ Watched \in Nat
<1> DEFINE M == Milli * added["connectivity_expected_time_ms"]
<1>1. M \in Nat /\ Watched \in Int /\ Pending \in Nat
  BY WatchedNumbers
<1>2. M + Pending <= Watched
  BY DEF SourceInv, ConnInv
<1> HIDE DEF M
<1>3. M <= Watched /\ Watched \in Nat
  BY <1>1, <1>2
<1> QED BY <1>3 DEF M

\* What was added to a counter was noted before.
LEMMA NotedCoversAdded == AllInv => NotedCovers
<1> SUFFICES ASSUME AllInv, NEW k \in CounterKeys
             PROVE  Noted(k) \in Nat /\ added[k] \in Nat /\ added[k] <= Noted(k)
  BY DEF NotedCovers
<1> USE DEF AllInv
<1>0. StoreTypes
  BY DEF StoreInv
<1>1. added[k] \in Nat
  BY <1>0 DEF StoreTypes, Totals
<1>2. CASE k = "operational_crashes"
  <2>1. /\ added[k] \in Nat /\ tracker.count \in Nat /\ Len(crashes) \in Nat
        /\ seen.crashed \in Nat
    BY <1>0, <1>1, SourceNumbers
  <2>2. seen.crashed = added[k] + tracker.count + Len(crashes)
    BY <1>2 DEF SourceInv, TrackerInv, CrashesInv, HoursInv, FreeInv
  <2>3. Noted(k) = seen.crashed
    BY <1>2, NotedValues DEF NotedTable
  <2> QED BY <2>1, <2>2, <2>3
<1>3. CASE k = "operational_hours"
  <2>1. tracker.hours \in Nat /\ Noted(k) = added[k] + tracker.hours
    BY <1>0, <1>3, SourceNumbers, NotedValues DEF Hours, NotedTable
  <2> QED BY <1>1, <2>1
<1>4. CASE k = "operational_crashfree_hours"
  <2>1. tracker.freeHours \in Nat /\ Noted(k) = added[k] + tracker.freeHours
    BY <1>0, <1>4, SourceNumbers, NotedValues DEF FreeHours, NotedTable
  <2> QED BY <1>1, <2>1
<1>5. CASE k = "log_matches"
  <2>1. \A c \in Conns : link[c].read \in Nat /\ link[c].collected \in Nat
                         /\ link[c].collected <= link[c].read
    BY DEF SourceTypes, LinesInv
  <2>2. /\ CollectedUpTo \in [Conns -> Nat] /\ ReadUpTo \in [Conns -> Nat]
        /\ \A c \in Conns : CollectedUpTo[c] <= ReadUpTo[c]
    BY <2>1 DEF CollectedUpTo, ReadUpTo
  <2>3. Cardinality(MatchesUpTo(CollectedUpTo)) <= Cardinality(MatchesUpTo(ReadUpTo))
    BY <2>2, MatchesGrow
  <2>4. Cardinality(MatchesUpTo(ReadUpTo)) \in Nat
    BY MatchesUpToIsFinite
  <2>5. Noted(k) = Cardinality(MatchesUpTo(ReadUpTo))
        /\ added[k] = Cardinality(MatchesUpTo(CollectedUpTo))
    BY <1>5, NotedValues DEF LinesInv, NotedTable
  <2> QED BY <1>1, <2>3, <2>4, <2>5
<1>6. CASE k = "connectivity_expected_time_ms"
  <2>1. Milli * added[k] <= Watched /\ Watched \in Nat
    BY <1>0, <1>6, WatchedCovers
  <2>2. Milli \in Nat \ {0}
    BY MilliAssumption
  <2>3. added[k] * Milli <= Watched
    BY <1>1, <2>1, <2>2
  <2>4. added[k] <= Millis(Watched)
    BY <1>1, <2>1, <2>2, <2>3, WholeIntervals DEF Millis
  <2>5. Noted(k) = Millis(Watched)
    BY <1>6, NotedValues DEF NotedTable
  <2> QED BY <1>1, <2>1, <2>4, <2>5, MillisRoundDown
<1>7. CASE k \notin TrackerKeys \cup LogKeys /\ k # "connectivity_expected_time_ms"
  <2>1. Noted(k) = added[k]
    BY <1>7, NotedValues DEF NotedTable
  <2> QED BY <1>1, <2>1
<1> QED BY <1>2, <1>3, <1>4, <1>5, <1>6, <1>7 DEF TrackerKeys, LogKeys

\* Published and dropped together are at most what the store accepted.
LEMMA PublishedIsAdded ==
  ASSUME StoreInv, NEW k \in CounterKeys
  PROVE  saved[k] \in Nat /\ lost[k] \in Nat /\ saved[k] + lost[k] <= added[k]
<1>1. added[k] = InReport(heartbeat, k) + InFlight(k) + saved[k] + lost[k]
  BY DEF StoreInv, EachUnitIsInOneReport
<1>2. InReport(heartbeat, k) \in Nat /\ InFlight(k) \in Nat
  BY AmountsAreNumbers DEF StoreInv, StoreTypes, InFlight, Dumpers
<1>3. saved[k] \in Nat /\ lost[k] \in Nat
  BY DEF StoreInv, StoreTypes, Totals
<1> QED BY <1>1, <1>2, <1>3

\* The store only accepts more.
LEMMA AddedGrows ==
  ASSUME StoreTypes, StoreStep, NEW k \in CounterKeys
  PROVE  added'[k] >= added[k]
<1>0. added[k] \in Nat
  BY DEF StoreTypes, Totals
<1>1. CASE \E ms : GoodReadings(ms) /\ Put(ms)
  <2> PICK ms : GoodReadings(ms) /\ Put(ms)
    BY <1>1
  <2>1. CASE k \in DOMAIN ms
    <3>1. added'[k] = added[k] + ms[k].value /\ ms[k].value \in Nat
      BY <2>1, PutHere DEF GoodReadings
    <3> QED BY <1>0, <3>1
  <2>2. CASE k \notin DOMAIN ms
    BY <1>0, <2>2, PutElsewhere
  <2> QED BY <2>1, <2>2
<1>2. CASE ~\E ms : GoodReadings(ms) /\ Put(ms)
  <2>1. added' = added
    BY <1>2, QuietStore DEF StoreStep
  <2> QED BY <1>0, <2>1
<1> QED BY <1>1, <1>2

\* A source publishes nothing, and drops nothing.
LEMMA SourcesDoNotPublish ==
  ASSUME BatteryActs \/ ConnActs \/ TrackerActs \/ LineActs
  PROVE  saved' = saved /\ lost' = lost
<1>1. CASE BatteryActs
  BY <1>1 DEF BatteryActs, BatteryCommandEnds, BatteryPushed, UpdateMetrics, Put
<1>2. CASE ConnActs
  BY <1>2 DEF ConnActs, CheckConnection, CheckElapsed, Checked, Put, storeVars
<1>3. CASE TrackerActs
  BY <1>3 DEF TrackerActs, TrackerCollects, TrackerHours, TrackerCrashFree, TrackerAdds,
     CrashReported, Put, storeVars
<1>4. CASE Collect
  BY <1>4 DEF Collect, Put, storeVars
<1>5. CASE \E c \in Conns : Connect(c) \/ Receive(c)
  BY <1>5 DEF Connect, Receive, storeVars
<1> QED BY <1>1, <1>2, <1>3, <1>4, <1>5 DEF LineActs

\* What the tracker and the collector have noted only grows, and stays as it is while
\* they do nothing.
LEMMA NotedBySourcesGrows ==
  ASSUME AllInv, AllInv', [Next]_vars
  PROVE  /\ seen'.crashed >= seen.crashed /\ Hours' >= Hours /\ FreeHours' >= FreeHours
         /\ \A c \in Conns : link'[c].read >= link[c].read
<1> USE DEF AllInv
<1>0. StoreTypes
  BY DEF StoreInv
<1>1. /\ seen.crashed \in Nat /\ Hours \in Nat /\ FreeHours \in Nat
      /\ \A c \in Conns : link[c].read \in Nat
  <2>1. /\ seen.crashed \in Nat /\ tracker.hours \in Nat /\ tracker.freeHours \in Nat
        /\ \A k \in TrackerKeys : added[k] \in Nat
    BY <1>0, SourceNumbers
  <2>2. \A c \in Conns : link[c].read \in Nat
    BY DEF SourceTypes
  <2> QED BY <2>1, <2>2 DEF Hours, FreeHours, TrackerKeys
<1>2. CASE OtherActs \/ UNCHANGED vars
  <2>1. UNCHANGED <<tracker, seen, link>> /\ Still(TrackerKeys)
    BY <1>2, OtherActsAreOther, StillElsewhere DEF OtherStep, vars, storeVars
  <2>2. Hours' = Hours /\ FreeHours' = FreeHours
    BY <2>1 DEF Hours, FreeHours, Still, TrackerKeys
  <2> QED BY <1>1, <2>1, <2>2
<1>3. CASE BatteryActs
  <2>1. UNCHANGED <<tracker, link>> /\ Still(TrackerKeys)
    BY <1>3, BatteryActsFrame, StillElsewhere
  <2>2. Hours' = Hours /\ FreeHours' = FreeHours
    BY <2>1 DEF Hours, FreeHours, Still, TrackerKeys
  <2>3. PICK r \in BatteryReading : UpdateMetrics(r)
    BY <1>3, BatteryActsFrame
  <2>4. seen'.crashed = seen.crashed
    BY <2>3 DEF UpdateMetrics, SourceTypes
  <2> QED BY <1>1, <2>1, <2>2, <2>4
<1>4. CASE ConnActs
  <2>1. UNCHANGED <<tracker, seen, link>> /\ Still(TrackerKeys)
    BY <1>4, ConnActsFrame, StillElsewhere
  <2>2. Hours' = Hours /\ FreeHours' = FreeHours
    BY <2>1 DEF Hours, FreeHours, Still, TrackerKeys
  <2> QED BY <1>1, <2>1, <2>2
<1>5. CASE LineActs
  <2>1. UNCHANGED <<tracker, seen>> /\ Still(TrackerKeys)
    BY <1>5, LineActsFrame, StillElsewhere
  <2>2. Hours' = Hours /\ FreeHours' = FreeHours
    BY <2>1 DEF Hours, FreeHours, Still, TrackerKeys
  <2>3. link \in [Conns -> [state : {"new", "open", "closed"}, read : Nat, collected : Nat]]
    BY DEF SourceTypes
  <2>4. CASE \E c \in Conns : Connect(c)
    <3> PICK c \in Conns : Connect(c)
      BY <2>4
    <3>1. link' = [link EXCEPT ![c].state = "open"]
      BY DEF Connect
    <3> QED BY <1>1, <2>1, <2>2, <2>3, <3>1
  <2>5. CASE \E c \in Conns : Receive(c)
    <3> PICK c \in Conns : Receive(c)
      BY <2>5
    <3>1. \/ link' = [link EXCEPT ![c].state = "closed"]
          \/ link' = [link EXCEPT ![c].read = link[c].read + 1]
      BY DEF Receive, Disconnect
    <3>2. \A d \in Conns : link'[d].read = link[d].read \/ link'[d].read = link[d].read + 1
      BY <2>3, <3>1
    <3> QED BY <1>1, <2>1, <2>2, <3>2
  <2>6. CASE Collect
    <3>1. link' = [link EXCEPT ![Head(lines).conn].collected = @ + 1]
      BY <2>6 DEF Collect
    <3>2. \A d \in Conns : link'[d].read = link[d].read
      BY <2>3, <3>1
    <3> QED BY <1>1, <2>1, <2>2, <3>2
  <2> QED BY <1>5, <2>4, <2>5, <2>6 DEF LineActs
<1>6. CASE TrackerActs
  <2>1. UNCHANGED link
    BY <1>6, TrackerActsFrame
  <2>2. /\ tracker = [pc |-> tracker.pc, mark |-> tracker.mark, crashFree |-> tracker.crashFree,
                      count |-> tracker.count, hours |-> tracker.hours,
                      freeHours |-> tracker.freeHours]
        /\ seen = [crashed |-> seen.crashed, collected |-> seen.collected, free |-> seen.free,
                   at |-> seen.at, refused |-> seen.refused]
    BY DEF SourceTypes
  <2>3. seen'.crashed >= seen.crashed
    BY <1>1, <1>6, <2>2 DEF TrackerActs, TrackerCollects, TrackerHours, TrackerCrashFree,
       TrackerAdds, CrashReported
  <2>4. /\ added["operational_hours"] \in Nat /\ added["operational_crashfree_hours"] \in Nat
        /\ tracker.hours \in Nat /\ tracker.freeHours \in Nat
        /\ tracker'.hours \in Nat /\ tracker'.freeHours \in Nat
    BY <1>0, SourceNumbers DEF TrackerKeys, SourceTypes
  <2>5. /\ tracker.pc \in {"sleep", "hours"} => tracker.hours = 0
        /\ tracker.pc # "adding" => tracker.freeHours = 0
    BY DEF SourceInv, TrackerInv, CrashesInv, HoursInv, FreeInv
  <2>6. CASE TrackerAdds
    <3>1. /\ added'["operational_hours"] = added["operational_hours"] + tracker.hours
          /\ added'["operational_crashfree_hours"] =
               added["operational_crashfree_hours"] + tracker.freeHours
      BY <2>6, TrackerAddsAdds
    <3>2. tracker'.hours = 0 /\ tracker'.freeHours = 0
      BY <2>2, <2>6 DEF TrackerAdds
    <3>3. Hours' = Hours /\ FreeHours' = FreeHours
      BY <2>4, <3>1, <3>2 DEF Hours, FreeHours
    <3> QED BY <1>1, <2>1, <2>3, <3>3
  <2>7. CASE ~TrackerAdds
    <3>1. added' = added
      BY <1>6, <2>7, TrackerActsFrame
    <3>2. tracker'.hours >= tracker.hours /\ tracker'.freeHours >= tracker.freeHours
      <4>1. CASE TrackerHours
        <5>1. tracker'.freeHours = tracker.freeHours /\ tracker.pc = "hours"
          BY <2>2, <4>1 DEF TrackerHours
        <5> QED BY <2>4, <2>5, <5>1
      <4>2. CASE TrackerCrashFree
        <5>1. tracker'.hours = tracker.hours /\ tracker.pc = "crashfree"
          BY <2>2, <4>2 DEF TrackerCrashFree
        <5> QED BY <2>4, <2>5, <5>1
      <4>3. CASE TrackerCollects \/ CrashReported
        <5>1. tracker'.hours = tracker.hours /\ tracker'.freeHours = tracker.freeHours
          BY <2>2, <4>3 DEF TrackerCollects, CrashReported
        <5> QED BY <2>4, <5>1
      <4> QED BY <1>6, <2>7, <4>1, <4>2, <4>3 DEF TrackerActs
    <3>3. Hours' >= Hours /\ FreeHours' >= FreeHours
      BY <2>4, <3>1, <3>2 DEF Hours, FreeHours
    <3> QED BY <1>1, <2>1, <2>3, <3>3
  <2> QED BY <2>6, <2>7
<1> QED BY <1>2, <1>3, <1>4, <1>5, <1>6, StepsAreSorted

\* What was watched stays watched: a check only moves its marks forward.
LEMMA WatchedGrows ==
  ASSUME AllInv, [Next]_vars
  PROVE  Watched \in Nat /\ Watched' \in Nat /\ Watched' >= Watched
<1> USE DEF AllInv
<1>1. SourceTypes /\ StoreTypes /\ SourceInv /\ MarksInv
  BY DEF StoreInv, SourceInv, ConnInv
<1>2. Watched \in Nat
  BY <1>1, WatchedCovers
<1>3. /\ now \in Nat /\ conn.last \in -1..now /\ conn.at \in 0..now
      /\ conn.first \in -1..now /\ conn.between \in Nat
      /\ conn = [pc |-> conn.pc, last |-> conn.last, at |-> conn.at, since |-> conn.since,
                 first |-> conn.first, between |-> conn.between, checks |-> conn.checks]
  BY <1>1, SourceNumbers DEF SourceTypes
<1>4. CASE UNCHANGED conn
  BY <1>2, <1>4 DEF Watched
<1>5. CASE CheckConnection
  <2>1. /\ conn'.at = now /\ conn'.between = conn.between
        /\ conn'.first = IF conn.first = Never THEN now ELSE conn.first
    BY <1>3, <1>5 DEF CheckConnection
  <2> QED BY <1>1, <1>2, <1>3, <2>1 DEF MarksInv, Watched, Never
<1>6. CASE CheckElapsed
  <2>1. /\ conn'.at = conn.at /\ conn'.between = conn.between + (now - conn.at)
        /\ conn'.first = conn.first
    BY <1>3, <1>6 DEF CheckElapsed
  <2> QED BY <1>1, <1>2, <1>3, <2>1 DEF MarksInv, Watched, Never
<1>7. CASE \E connected \in BOOLEAN : Checked(connected)
  <2>1. conn'.at = conn.at /\ conn'.between = conn.between /\ conn'.first = conn.first
    BY <1>3, <1>7 DEF Checked
  <2> QED BY <1>2, <2>1 DEF Watched
<1>8. UNCHANGED conn \/ ConnActs
  <2>1. OtherActs => UNCHANGED conn
    BY <1>1, OtherActsAreOther DEF OtherStep
  <2>2. BatteryActs \/ TrackerActs \/ LineActs => UNCHANGED conn
    BY <1>1, BatteryActsFrame, TrackerActsFrame, LineActsFrame
  <2>3. UNCHANGED vars => UNCHANGED conn
    BY DEF vars
  <2> QED BY <2>1, <2>2, <2>3, StepsAreSorted
<1> QED BY <1>4, <1>5, <1>6, <1>7, <1>8 DEF ConnActs

\* Whole milliseconds grow with the time.
LEMMA MillisGrow ==
  ASSUME NEW d \in Nat, NEW e \in Nat, e >= d
  PROVE  Millis(d) \in Nat /\ Millis(e) \in Nat /\ Millis(e) >= Millis(d)
<1> DEFINE p == Millis(d)
<1>1. Milli \in Nat \ {0} /\ p \in Nat /\ Milli * p <= d /\ Millis(e) \in Nat
  BY MillisRoundDown
<1> HIDE DEF p
<1>2. p * Milli = Milli * p /\ Milli * p \in Nat
  BY <1>1
<1>3. p * Milli <= e
  BY <1>1, <1>2
<1>4. p <= e \div Milli
  BY <1>1, <1>3, WholeIntervals
<1>5. p <= Millis(e)
  BY <1>4 DEF Millis
<1> QED BY <1>1, <1>5 DEF p

\* What is noted stays noted.
LEMMA NotedGrows ==
  ASSUME AllInv, AllInv', [Next]_vars, NEW k \in CounterKeys
  PROVE  Noted(k)' \in Nat /\ Noted(k)' >= Noted(k)
<1>0. NotedTable /\ NotedTable' /\ NotedCovers'
  BY NotedValues, NotedCoversAdded, PTL
<1>1. Noted(k)' \in Nat
  BY <1>0 DEF NotedCovers
<1>2. /\ seen'.crashed >= seen.crashed /\ Hours' >= Hours /\ FreeHours' >= FreeHours
      /\ \A c \in Conns : link'[c].read >= link[c].read
  BY NotedBySourcesGrows
<1>3. added'[k] >= added[k]
  BY TypesStep, AddedGrows DEF AllInv, StoreInv
<1>4. CASE k = "operational_crashes"
  <2>1. Noted(k) = seen.crashed /\ Noted(k)' = seen'.crashed
    BY <1>0, <1>4 DEF NotedTable
  <2> QED BY <1>1, <1>2, <2>1
<1>5. CASE k = "operational_hours"
  <2>1. Noted(k) = Hours /\ Noted(k)' = Hours'
    BY <1>0, <1>5 DEF NotedTable
  <2> QED BY <1>1, <1>2, <2>1
<1>6. CASE k = "operational_crashfree_hours"
  <2>1. Noted(k) = FreeHours /\ Noted(k)' = FreeHours'
    BY <1>0, <1>6 DEF NotedTable
  <2> QED BY <1>1, <1>2, <2>1
<1>7. CASE k = "log_matches"
  <2>1. Noted(k) = Cardinality(MatchesUpTo(ReadUpTo))
    BY <1>0, <1>7 DEF NotedTable
  <2>2. Noted(k)' = Cardinality(MatchesUpTo(ReadUpTo'))
    BY <1>0, <1>7 DEF NotedTable, MatchesUpTo
  <2>3. /\ ReadUpTo \in [Conns -> Nat] /\ ReadUpTo' \in [Conns -> Nat]
        /\ \A c \in Conns : ReadUpTo[c] <= ReadUpTo'[c]
    <3>1. \A c \in Conns : link[c].read \in Nat /\ link'[c].read \in Nat
      BY DEF AllInv, SourceTypes
    <3> QED BY <1>2, <3>1 DEF ReadUpTo
  <2>4. Cardinality(MatchesUpTo(ReadUpTo)) <= Cardinality(MatchesUpTo(ReadUpTo'))
    BY <2>3, MatchesGrow
  <2>5. Cardinality(MatchesUpTo(ReadUpTo)) \in Nat
    BY MatchesUpToIsFinite
  <2> QED BY <1>1, <2>1, <2>2, <2>4, <2>5
<1>8. CASE k = "connectivity_expected_time_ms"
  <2>1. Noted(k) = Millis(Watched) /\ Noted(k)' = Millis(Watched')
    BY <1>0, <1>8 DEF NotedTable, Millis
  <2>2. Watched \in Nat /\ Watched' \in Nat /\ Watched' >= Watched
    BY WatchedGrows
  <2> QED BY <1>1, <2>1, <2>2, MillisGrow
<1>9. CASE k \notin TrackerKeys \cup LogKeys /\ k # "connectivity_expected_time_ms"
  <2>1. Noted(k) = added[k] /\ Noted(k)' = added'[k]
    BY <1>0, <1>9 DEF NotedTable
  <2> QED BY <1>1, <1>3, <2>1
<1> QED BY <1>4, <1>5, <1>6, <1>7, <1>8, <1>9 DEF TrackerKeys, LogKeys

\* While nothing is added, the actions of no source note nothing.
LEMMA OthersNoteNothing ==
  ASSUME AllInv, OtherActs, added' = added, NEW k \in CounterKeys
  PROVE  Noted(k)' = Noted(k)
<1>1. UNCHANGED <<tracker, seen, conn, link, added>>
  BY OtherActsAreOther DEF OtherStep, AllInv
<1> QED BY <1>1 DEF Noted, Watched

\* The ledger starts empty.
LEMMA LedgerInit == Init => Ledger!Init
<1> SUFFICES ASSUME Init PROVE Ledger!Init
  OBVIOUS
<1>0. AllInv
  BY TypesInit, StoreInitHolds, SourcesInit, LinesInit DEF Init, AllInv
<1>1. NotedTable
  BY <1>0, NotedValues
<1>2. saved = Zero /\ lost = Zero /\ added = Zero /\ Zero = [k \in CounterKeys |-> 0]
  BY DEF Init, StoreInit, Zero
<1>3. ASSUME NEW k \in CounterKeys
      PROVE  Noted(k) = 0
  <2>1. added[k] = 0
    BY <1>2
  <2>2. /\ seen.crashed = 0 /\ tracker.hours = 0 /\ tracker.freeHours = 0
        /\ \A c \in Conns : link[c].read = 0 /\ link[c].collected = 0
    BY DEF Init
  <2>3. CASE k = "log_matches"
    <3>1. ReadUpTo = CollectedUpTo
      BY <2>2 DEF ReadUpTo, CollectedUpTo
    <3> QED BY <1>0, <1>1, <2>1, <2>3, <3>1 DEF AllInv, LinesInv, NotedTable
  <2>4. CASE k \in TrackerKeys
    BY <1>1, <2>1, <2>2, <2>4 DEF NotedTable, Hours, FreeHours, TrackerKeys
  <2>5. CASE k = "connectivity_expected_time_ms"
    <3>1. conn.first = Never
      BY DEF Init
    <3>2. Watched = 0 /\ Noted(k) = Millis(Watched)
      BY <1>1, <2>5, <3>1 DEF NotedTable, Watched
    <3>3. Millis(0) = 0
      BY MilliAssumption DEF Millis
    <3> QED BY <3>2, <3>3
  <2>6. CASE k \notin TrackerKeys \cup LogKeys /\ k # "connectivity_expected_time_ms"
    BY <1>1, <2>1, <2>6 DEF NotedTable
  <2> QED BY <2>3, <2>4, <2>5, <2>6 DEF LogKeys
<1>4. [k \in CounterKeys |-> Noted(k)] = [k \in CounterKeys |-> 0]
  BY <1>3
<1> QED BY <1>2, <1>4 DEF Ledger!Init

\* A step that publishes nothing and drops nothing notes something, if anything.
LEMMA LedgerNotes ==
  ASSUME AllInv, AllInv', [Next]_vars, saved' = saved, lost' = lost
  PROVE  Ledger!Note
<1> DEFINE noted == [k \in CounterKeys |-> Noted(k)]
<1>1. \A k \in CounterKeys : noted[k] = Noted(k) /\ noted'[k] = Noted(k)'
  OBVIOUS
<1>2. \A k \in CounterKeys : Noted(k)' \in Nat /\ Noted(k)' >= Noted(k)
  BY NotedGrows
<1>3. noted' \in [CounterKeys -> Nat]
  BY <1>2
<1>4. \A k \in CounterKeys : noted'[k] >= noted[k]
  BY <1>1, <1>2
<1> QED BY <1>3, <1>4 DEF Ledger!Note, Ledger!Totals, Ledger!Grows

\* A step that moves something out of the store does so once.
LEMMA LedgerPublishes ==
  ASSUME AllInv, AllInv', added' = added, \A k \in CounterKeys : Noted(k)' = Noted(k),
         \/ saved' = saved /\ \A k \in CounterKeys : lost'[k] >= lost[k]
         \/ lost' = lost /\ \A k \in CounterKeys : saved'[k] >= saved[k]
  PROVE  Ledger!Next
<1> DEFINE noted == [k \in CounterKeys |-> Noted(k)]
<1>1. noted' = noted /\ \A k \in CounterKeys : noted[k] = Noted(k)
  OBVIOUS
<1>2. StoreInv' /\ StoreTypes' /\ NotedCovers'
  BY NotedCoversAdded, PTL DEF AllInv, StoreInv
<1>3. ASSUME NEW k \in CounterKeys
      PROVE  saved'[k] + lost'[k] <= noted[k]
  <2>1. saved'[k] \in Nat /\ lost'[k] \in Nat /\ saved'[k] + lost'[k] <= added'[k]
    <3>1. added'[k] = InReport(heartbeat', k) + InFlight(k)' + saved'[k] + lost'[k]
      BY <1>2 DEF StoreInv, EachUnitIsInOneReport
    <3>2. InReport(heartbeat', k) \in Nat /\ InFlight(k)' \in Nat
      BY <1>2, AmountsAreNumbers DEF StoreTypes, InFlight, Dumpers
    <3>3. saved'[k] \in Nat /\ lost'[k] \in Nat
      BY <1>2 DEF StoreTypes, Totals
    <3> QED BY <3>1, <3>2, <3>3
  <2>2. added'[k] <= Noted(k)' /\ Noted(k)' \in Nat /\ added'[k] \in Nat
    BY <1>2 DEF NotedCovers
  <2>3. Noted(k)' = noted[k]
    BY <1>1
  <2> QED BY <2>1, <2>2, <2>3
<1>4. saved' \in [CounterKeys -> Nat] /\ lost' \in [CounterKeys -> Nat]
  BY <1>2 DEF StoreTypes, Totals
<1>5. CASE saved' = saved /\ \A k \in CounterKeys : lost'[k] >= lost[k]
  BY <1>1, <1>3, <1>4, <1>5 DEF Ledger!Next, Ledger!Drop, Ledger!Totals, Ledger!Grows
<1>6. CASE lost' = lost /\ \A k \in CounterKeys : saved'[k] >= saved[k]
  BY <1>1, <1>3, <1>4, <1>6 DEF Ledger!Next, Ledger!Publish, Ledger!Totals, Ledger!Grows
<1> QED BY <1>5, <1>6

\* Every step notes, saves, loses or does nothing in the ledger.
LEMMA LedgerStep ==
  ASSUME AllInv, AllInv', [Next]_vars
  PROVE  Ledger!Next
<1>0. StoreInv /\ SourceTypes
  BY DEF AllInv
<1>1. CASE saved' = saved /\ lost' = lost
  BY <1>1, LedgerNotes DEF Ledger!Next
<1>2. CASE ~(saved' = saved /\ lost' = lost)
  <2>1. OtherActs
    BY <1>2, StepsAreSorted, SourcesDoNotPublish DEF vars, storeVars
  <2>2. StoreStep
    BY <1>0, <2>1, OtherActsAreOther
  <2>3. /\ added' = added
        /\ \/ saved' = saved /\ \A k \in CounterKeys : lost'[k] >= lost[k]
           \/ lost' = lost /\ \A k \in CounterKeys : saved'[k] >= saved[k]
    <3>1. CASE \E d \in Dumpers, fails \in BOOLEAN : TakeHeartbeat(d, fails)
      BY <1>0, <3>1, TakeHeartbeatKeepsStore DEF TakeHeartbeat
    <3>2. CASE \E s \in SessionNames, fails \in BOOLEAN : EndSession(s, fails)
      <4>1. lost' = lost /\ saved' = saved
        BY <1>0, <3>2, EndSessionKeepsStore DEF EndSession
      <4> QED BY <1>2, <4>1
    <3>3. CASE \E d \in Dumpers, fails \in BOOLEAN : SaveReport(d, fails)
      BY <1>0, <3>3, SaveReportKeepsStore
    <3>4. CASE \/ \E ms : GoodReadings(ms) /\ Put(ms)
               \/ \E s \in SessionNames : StartSession(s)
               \/ UNCHANGED storeVars
      BY <1>2, <3>4 DEF Put, StartSession, storeVars
    <3> QED BY <2>2, <3>1, <3>2, <3>3, <3>4 DEF StoreStep
  <2>4. \A k \in CounterKeys : Noted(k)' = Noted(k)
    BY <2>1, <2>3, OthersNoteNothing
  <2> QED BY <2>3, <2>4, LedgerPublishes
<1> QED BY <1>1, <1>2

\* The threads, channels and locks of the daemon implement the ledger: from the report
\* of an event to the entry on disk, it is in at most one heartbeat.
THEOREM LedgerIsImplemented == Spec => ImplementsLedger
<1>1. Init => Ledger!Init
  BY LedgerInit
<1>2. AllInv /\ AllInv' /\ [Next]_vars
        => [Ledger!Next]_<<[k \in CounterKeys |-> Noted(k)], saved, lost>>
  BY LedgerStep
<1>3. Spec => []AllInv
  BY StoreInvariance, SourceInvariance, LinesInvariance, PTL DEF AllInv
<1> QED BY <1>1, <1>2, <1>3, PTL DEF Spec, ImplementsLedger, Ledger!Spec

=============================================================================
