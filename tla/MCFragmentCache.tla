-------------------------- MODULE MCFragmentCache --------------------------
(* Small instances of FragmentCache. *)
EXTENDS FragmentCache, TLC

CONSTANTS r1, r2, p1

TwoRequests == {r1, r2}
OneTask == {p1}

\* The last part alone is above a limit of three bytes.
OversizeLast == <<1, 2, 4>>
\* Read-ahead of five seconds covers two parts of three seconds.
ThreeSeconds == <<3, 3, 3>>

=============================================================================
