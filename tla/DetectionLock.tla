--------------------------- MODULE DetectionLock ---------------------------
(* What the editor promises about detection: the jobs that ask for it are  *)
(* admitted one at a time, a job is turned away only while another one is  *)
(* admitted, and no job is admitted twice.                                 *)

CONSTANT Jobs

VARIABLE phase

TypeOK == phase \in [Jobs -> {"idle", "holding", "left", "refused"}]

Init == phase = [j \in Jobs |-> "idle"]

Acquire(j) ==
    /\ phase[j] = "idle"
    /\ \A k \in Jobs : phase[k] # "holding"
    /\ phase' = [phase EXCEPT ![j] = "holding"]

Refuse(j) ==
    /\ phase[j] = "idle"
    /\ \E k \in Jobs \ {j} : phase[k] = "holding"
    /\ phase' = [phase EXCEPT ![j] = "refused"]

Leave(j) ==
    /\ phase[j] = "holding"
    /\ phase' = [phase EXCEPT ![j] = "left"]

Next == \E j \in Jobs : Acquire(j) \/ Refuse(j) \/ Leave(j)

Spec == Init /\ [][Next]_phase

=============================================================================
