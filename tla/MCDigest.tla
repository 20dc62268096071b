------------------------------ MODULE MCDigest ------------------------------
(* At most two houses, with one profile each.                               *)
EXTENDS Digest, TLC

MCHouseOf == [p \in Profiles |-> IF p = "ana" THEN "silva" ELSE "souza"]
(* The second house only competes for the scheduler. *)
MCMaxObserved == [p \in Profiles |-> IF p = "ana" THEN 2 ELSE 0]
=============================================================================
