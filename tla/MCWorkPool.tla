----------------------------- MODULE MCWorkPool ------------------------------
(***************************************************************************)
(* Instances of WorkPool.                                                  *)
(***************************************************************************)
EXTENDS WorkPool, TLC

CONSTANTS owner, client, t1, t2

MCWorkers == 0..NWorkers - 1
MCProcs == MCWorkers \cup Clients
OwnerAlone == {owner}
OwnerAndClient == {owner, client}

\* An array of two slots, doubled at most once.
TwoThenFour == (0 :> 2) @@ (1 :> 4)
=============================================================================
