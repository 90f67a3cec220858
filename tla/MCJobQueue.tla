----------------------------- MODULE MCJobQueue -----------------------------
(***************************************************************************)
(* Small instances of JobQueue.  Job 1 and job 2 are GPU stages of         *)
(* different types that share one GPU slot; job 3 collects metrics, of     *)
(* which any number may run (its limit is the number of such jobs).        *)
(***************************************************************************)
EXTENDS JobQueue

MCJobTypes == {"RENDER_FINAL", "ANALYZE_OCR", "COLLECT_PUBLICATION_METRICS"}

MCTypeOf ==
  [j \in Jobs |-> CASE j = 1 -> "RENDER_FINAL" [] j = 2 -> "ANALYZE_OCR"
                    [] OTHER -> "COLLECT_PUBLICATION_METRICS"]

MCTypeLimit == [t \in MCJobTypes |-> 1]

MCGpuTypes == {"RENDER_FINAL", "ANALYZE_OCR"}

MCPolicy ==
  [t \in MCJobTypes |-> IF t = "COLLECT_PUBLICATION_METRICS" THEN "metrics" ELSE "pipeline"]
=============================================================================
