---------------------------- MODULE JobLifecycle ----------------------------
(* What akai-queue promises of the rows of its jobs table: the stages a job   *)
(* goes through, whoever moves it. Ids are given out in order and a deleted   *)
(* row never comes back.                                                      *)
EXTENDS Naturals

CONSTANT Ids

VARIABLE stage

Stages == {"absent", "queued", "running", "completed", "failed", "deleted"}

Init == stage = [j \in Ids |-> "absent"]

Move(j, from, to) == stage[j] \in from /\ stage' = [stage EXCEPT ![j] = to]

Enqueue(j) ==
  /\ \A i \in Ids : i < j => stage[i] # "absent"
  /\ Move(j, {"absent"}, "queued")

Claim(j) == Move(j, {"queued"}, "running")

End(j) == \E s \in {"completed", "failed"} : Move(j, {"running"}, s)

Requeue(j) == Move(j, {"running", "completed", "failed"}, "queued")

\* One statement deletes every finished job that is old enough.
Purge ==
  \E S \in SUBSET {j \in Ids : stage[j] \in {"completed", "failed"}} :
    stage' = [j \in Ids |-> IF j \in S THEN "deleted" ELSE stage[j]]

Next ==
  \/ \E j \in Ids : Enqueue(j) \/ Claim(j) \/ End(j) \/ Requeue(j)
  \/ Purge

Spec == Init /\ [][Next]_stage
=============================================================================
