---------------------------- MODULE MCStructures ----------------------------
(* Data that threads share, each structure explored by itself, focus says     *)
(* which: the deque of the pool, the rings of the logger, and the token       *)
(* buckets. The deque is explored in two uses, with several submitters and    *)
(* thieves, and with its owner beside one of each as in the pool, up to the   *)
(* first step in which deque_pop and another thread's deque_push clash.       *)
EXTENDS DequeUse, LogRing, TokenBuckets, TLC

CONSTANTS submitter1, submitter2, owner, thief1, thief2, t1, t2, t3, t4, l1, l2

Submitters == {submitter1, submitter2}
TheThieves == {thief1, thief2}
AllProcs == Submitters \cup TheThieves \cup {owner}
AllTasks == {t1, t2, t3, t4}

\* Two clients submit and two workers steal while the owner is elsewhere; or
\* the owner pops, and pushes what its tasks submit, while a client submits
\* and a worker steals.
Shared == [pushers |-> Submitters, owner |-> (0 :> NoProc), thieves |-> TheThieves]
Pooled == [pushers |-> {submitter1, owner}, owner |-> (0 :> owner), thieves |-> {thief1}]
TheUses == {Shared, Pooled}

\* An array of two slots, doubled at most once.
TwoThenFour == (0 :> 2) @@ (1 :> 4)

\* One thread fills its ring and one slot more; the other writes a line and flushes.
FiveAndOne == (l1 :> 5) @@ (l2 :> 1)

VARIABLE focus

structureVars == <<vars, logVars, rateVars, focus>>

StructuresInit ==
  /\ Init /\ LogInit /\ RateInit
  /\ focus \in {"deque", "logger", "buckets"}
  /\ focus # "deque" => use = Shared

DequeDoes == focus = "deque" /\ ~clashed /\ Next /\ UNCHANGED <<logVars, rateVars, focus>>
LoggerDoes == focus = "logger" /\ LogNext /\ UNCHANGED <<vars, rateVars, focus>>
BucketsDo == focus = "buckets" /\ RateNext /\ UNCHANGED <<vars, logVars, focus>>

StructuresNext == DequeDoes \/ LoggerDoes \/ BucketsDo

StructuresSpec == StructuresInit /\ [][StructuresNext]_structureVars
=============================================================================
