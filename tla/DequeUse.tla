------------------------------ MODULE DequeUse -------------------------------
(***************************************************************************)
(* The deques of bf_pool.c as the pool uses them: threads that call        *)
(* deque_push, deque_pop and deque_steal in any order and at any moment,   *)
(* each deque popped by the worker it belongs to (its owner) only, pushed  *)
(* to by every thread that submits and stolen from by the other workers.   *)
(*                                                                         *)
(* Two meetings of calls spoil a deque (run pool_wait_hangs shows the      *)
(* first, pool_early_wait the second): a push and a pop of it in progress  *)
(* at once, for pop does not take owner_lock; and a pop that loses the     *)
(* last task to a thief, for it then leaves bottom one past top.  clashed  *)
(* records that one of them happened.  What the module states is that      *)
(* nothing else ever goes wrong: until then a deque is a sequence.         *)
(***************************************************************************)
EXTENDS WorkDeque

CONSTANT Uses  \* who may push, who owns which deque and who may steal

ASSUME UseAssumption ==
    Uses \subseteq [pushers : SUBSET Procs, owner : [Deques -> Procs \cup {NoProc}],
                    thieves : SUBSET Procs]

VARIABLES use,        \* the one of Uses that the deques are put to
          submitted,  \* tasks some push was called with
          taken,      \* tasks handed out by pop and steal, in order of return
          clashed     \* history: a push met a pop, or a pop lost to a thief

vars == <<dequeVars, use, submitted, taken, clashed>>

Init ==
    DequeInit /\ use \in Uses /\ submitted = {} /\ taken = <<>> /\ clashed = FALSE

PopPcs == {"pop_store", "pop_array", "pop_top", "pop_read", "pop_cas",
           "pop_won", "pop_lost", "pop_empty"}
Popping(d) == \E p \in Procs : op[p].d = d /\ op[p].pc \in PopPcs

Push(p, d) ==
    \E task \in Tasks \ submitted :
        /\ PushBegin(p, d, task)
        /\ submitted' = submitted \cup {task}
        /\ clashed' = (clashed \/ Popping(d))
        /\ UNCHANGED <<use, taken>>

Pop(p, d) ==
    /\ PopBegin(p, d)
    /\ clashed' = (clashed \/ ownerLock[d] # NoProc)
    /\ UNCHANGED <<use, submitted, taken>>

Steal(p, d) == StealBegin(p, d) /\ UNCHANGED <<use, submitted, taken, clashed>>

\* The compare-and-swap of a pop finds that a thief has moved top.
LosesLast(p) == At(p, "pop_cas") /\ top[op[p].d] # op[p].t

Step(p) ==
    /\ DequeStep(p)
    /\ clashed' = (clashed \/ LosesLast(p))
    /\ UNCHANGED <<use, submitted, taken>>

Return(p) ==
    /\ DequeReturn(p)
    /\ taken' = IF At(p, "got") THEN Append(taken, op[p].task) ELSE taken
    /\ UNCHANGED <<use, submitted, clashed>>

Next ==
    \/ \E d \in Deques : \/ \E p \in use.pushers : Push(p, d)
                         \/ \E p \in Procs : p = use.owner[d] /\ Pop(p, d)
                         \/ \E p \in use.thieves : Steal(p, d)
    \/ \E p \in Procs : Step(p) \/ Return(p)

Spec == Init /\ [][Next]_vars

-----------------------------------------------------------------------------

InHand == {p \in Procs : At(p, "got")}

\* deque_pop and deque_steal never hand a task to two callers, nor a slot no
\* push wrote: whoever pushes, pops and steals meanwhile, every push is taken
\* at most once, up to the first clash.
TakenOnce ==
    ~clashed =>
        /\ \A i, j \in DOMAIN taken : i # j => taken[i] # taken[j]
        /\ \A i \in DOMAIN taken : taken[i] # NoTask
        /\ \A p \in InHand : /\ op[p].task # NoTask
                             /\ \A i \in DOMAIN taken : taken[i] # op[p].task
                             /\ \A q \in InHand \ {p} : op[q].task # op[p].task

Settled == \A p \in Procs : At(p, "idle")
Queued == UNION {{Window(d)[i] : i \in DOMAIN Window(d)} : d \in Deques}

\* Once the calls in progress are over, every pushed task is still queued or
\* has been taken: unless a push met a pop or a pop lost to a thief, no
\* interleaving of push, pop and steal, and no doubling of the array, drops
\* one.
NothingLost ==
    Settled /\ ~clashed =>
        submitted \subseteq Queued \cup {taken[i] : i \in DOMAIN taken}

\* A deque is a sequence to everyone who uses it, until its first clash:
\* pushes append, thieves take the oldest and the owner takes the newest,
\* each at one moment of its call.
TheDeque == CHOOSE d \in Deques : TRUE
Pushing == {op[p].task : p \in {q \in Procs :
                op[q].pc \in {"push_top", "push_write", "push_publish"}}}
Abstract == INSTANCE TaskDeque WITH items <- Window(TheDeque),
                                    used <- submitted \ Pushing,
                                    spoiled <- clashed
Linearizable == Abstract!Spec
=============================================================================
