---------------------------- MODULE MCMarStaging ----------------------------
(* Small instances of MarStaging for TLC.                                  *)
EXTENDS MarStaging, TLC

CONSTANTS log, metrics, core   \* the writers

MCSize == [k \in Kinds |-> IF HasAttachment(k) THEN 2 ELSE 1]
AllOn == {"log", "coredump", "metrics"}

\* Every writer, fleet sampling on or off.
AllWriters == {log, metrics, core}
AllWriterKinds ==
  log :> {"log"} @@ metrics :> {"metrics", "reboot"} @@ core :> {"coredump"}
DaemonThreads == {log, metrics}
OnOrOff == {{}, AllOn}

\* Fewer writers, for the runs about one writer, the export endpoint or progress.
MetricsOnly == {metrics}
MetricsOnlyKinds == metrics :> {"metrics"}
CoreOnly == {core}
CoreOnlyKinds == core :> {"coredump"}
LogOnly == {log}
LogOnlyKinds == log :> {"log"}
LogAndMetricsKinds == log :> {"log"} @@ metrics :> {"metrics"}
AlwaysOn == {AllOn}
=============================================================================
