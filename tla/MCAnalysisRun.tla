--------------------------- MODULE MCAnalysisRun ---------------------------
(* Instances of AnalysisRun: a metric measured by a Job, a query, and a     *)
(* query in dry-run mode.                                                   *)
EXTENDS AnalysisRun, TLC

CONSTANTS job, query, dry

Zero == [m \in Metric |-> 0]
One == [m \in Metric |-> 1]
Two == [m \in Metric |-> 2]

\* AR_live: only the query is retried after an error.
LiveConsecutiveErrorLimit == [m \in Metric |-> IF m = query THEN 1 ELSE 0]
=============================================================================
