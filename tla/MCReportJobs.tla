---------------------------- MODULE MCReportJobs ----------------------------
(* Model-checking instance of ReportJobs: workers are interchangeable. *)
EXTENDS ReportJobs, TLC

Symmetry == Permutations(Workers)
=============================================================================
