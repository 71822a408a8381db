---------------------------- MODULE MetricLedger ----------------------------
(***************************************************************************)
(* What the metrics of memfaultd promise: an event that was noted is       *)
(* published at most once, or dropped, and never both.                     *)
(***************************************************************************)
EXTENDS Naturals

CONSTANT Counters  \* the metrics that count events, or units of time

VARIABLES
  noted,      \* per counter, the events the device has told memfaultd about
  published,  \* the part of them that is in reports on disk
  dropped     \* the part of them that is known to be lost

Totals == [Counters -> Nat]
Grows(old, new) == \A c \in Counters : new[c] >= old[c]

Init ==
  /\ noted = [c \in Counters |-> 0]
  /\ published = [c \in Counters |-> 0]
  /\ dropped = [c \in Counters |-> 0]

\* Events happen.
Note ==
  /\ noted' \in Totals /\ Grows(noted, noted')
  /\ UNCHANGED <<published, dropped>>

\* Events that were neither published nor dropped are published, or dropped.
Publish ==
  /\ published' \in Totals /\ Grows(published, published')
  /\ \A c \in Counters : published'[c] + dropped[c] <= noted[c]
  /\ UNCHANGED <<noted, dropped>>

Drop ==
  /\ dropped' \in Totals /\ Grows(dropped, dropped')
  /\ \A c \in Counters : published[c] + dropped'[c] <= noted[c]
  /\ UNCHANGED <<noted, published>>

Next == Note \/ Publish \/ Drop

Spec == Init /\ [][Next]_<<noted, published, dropped>>
=============================================================================
