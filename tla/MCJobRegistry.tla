--------------------------- MODULE MCJobRegistry ---------------------------
(* A small instance of JobRegistry. *)
EXTENDS JobRegistry, TLC

CONSTANTS d1, d2, e1, r1

TwoDetectJobs == {d1, d2}
OneExportJob == {e1}
OneReader == {r1}

=============================================================================
