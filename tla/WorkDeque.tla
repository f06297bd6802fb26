------------------------------ MODULE WorkDeque ------------------------------
(***************************************************************************)
(* The per-worker deques of the work-stealing pool, bf_pool.c: deque_push, *)
(* deque_pop and deque_steal, one action per access to a shared word, over *)
(* sequentially consistent memory.  A thread's call in progress is a       *)
(* record of its local variables.  Nothing here says who calls what: the   *)
(* modules that extend this one do.                                        *)
(*                                                                         *)
(* Two loads are folded into a neighbouring step because no other step can *)
(* tell the difference: push loads bottom with taking owner_lock, and a    *)
(* thief loads the array pointer with the slot (an array that has been     *)
(* outgrown is leaked, never written again).                               *)
(***************************************************************************)
EXTENDS Integers, Sequences, FiniteSets

CONSTANTS Procs,     \* the threads
          Deques,    \* the deques, one per worker
          Tasks,     \* what can be queued: a function and its argument
          NoTask,    \* a slot calloc zeroed: a null function
          NoProc,    \* owner_lock clear
          MaxGrow,   \* bound: how often one deque doubles
          Cap        \* capacity of a deque's first array (DEQUE_INIT_CAP, 1024
                     \* in the code) and of each array that replaces it

ASSUME DequeAssumption ==
    /\ NoTask \notin Tasks
    /\ NoProc \notin Procs
    /\ Deques # {}
    /\ MaxGrow \in Nat
    /\ Cap \in [0..MaxGrow -> Nat \ {0}]
    /\ \A g \in 0..MaxGrow - 1 : Cap[g + 1] = 2 * Cap[g]
    /\ \A g \in 0..MaxGrow : Cap[g] <= Cap[MaxGrow]

VARIABLES top, bottom,  \* the two indices of each deque
          array,        \* generation of each deque's current array
          buf,          \* slots of every generation
          ownerLock,    \* who holds the producers' spin lock
          op            \* each thread's call in progress

dequeVars == <<top, bottom, array, buf, ownerLock, op>>

Gens == 0..MaxGrow
Slots == 0..Cap[MaxGrow] - 1   \* of which generation g uses the first Cap[g]

OpPcs == {"idle", "push_top", "push_write", "push_publish",
          "pop_store", "pop_array", "pop_top", "pop_read", "pop_cas",
          "pop_won", "pop_lost", "pop_empty",
          "steal_bottom", "steal_read", "steal_cas", "got", "none"}

IdleOp == [pc |-> "idle", d |-> CHOOSE d \in Deques : TRUE,
           b |-> 0, t |-> 0, gen |-> 0, task |-> NoTask]

DequeTypeOK ==
    /\ top \in [Deques -> Int]
    /\ bottom \in [Deques -> Int]
    /\ array \in [Deques -> Gens]
    /\ buf \in [Deques -> [Gens -> [Slots -> Tasks \cup {NoTask}]]]
    /\ ownerLock \in [Deques -> Procs \cup {NoProc}]
    /\ op \in [Procs -> [pc: OpPcs, d: Deques, b: Int, t: Int, gen: Gens,
                         task: Tasks \cup {NoTask}]]

DequeInit ==
    /\ top = [d \in Deques |-> 0]
    /\ bottom = [d \in Deques |-> 0]
    /\ array = [d \in Deques |-> 0]
    /\ buf = [d \in Deques |-> [g \in Gens |-> [s \in Slots |-> NoTask]]]
    /\ ownerLock = [d \in Deques |-> NoProc]
    /\ op = [p \in Procs |-> IdleOp]

At(p, pc) == op[p].pc = pc
Goto(p, pc) == op' = [op EXCEPT ![p].pc = pc]

-----------------------------------------------------------------------------
(* deque_push: the producer side, under owner_lock *)

\* Spin until the lock is free, take it, load bottom.
PushBegin(p, d, task) ==
    /\ At(p, "idle")
    /\ ownerLock[d] = NoProc
    /\ ownerLock' = [ownerLock EXCEPT ![d] = p]
    /\ op' = [op EXCEPT ![p] = [IdleOp EXCEPT !.pc = "push_top", !.d = d,
                                              !.b = bottom[d], !.task = task]]
    /\ UNCHANGED <<top, bottom, array, buf>>

PushTop(p) ==
    /\ At(p, "push_top")
    /\ op' = [op EXCEPT ![p].pc = "push_write", ![p].t = top[op[p].d]]
    /\ UNCHANGED <<top, bottom, array, buf, ownerLock>>

\* (size_t)(b - t) >= cap: a negative difference is huge once unsigned.
MustGrow(b, t, g) == b - t < 0 \/ b - t >= Cap[g]

\* Faulty: copies slot by slot, without re-masking the indices.
CopiedInPlace(d, g, b, t) ==
    [s \in Slots |-> IF s < Cap[g] THEN buf[d][g][s] ELSE NoTask]

\* What the doubled array holds: the live indices t..b-1, zero elsewhere.
Copied(d, g, b, t) ==
    [s \in Slots |->
        IF \E i \in t..b - 1 : i % Cap[g + 1] = s
        THEN buf[d][g][(CHOOSE i \in t..b - 1 : i % Cap[g + 1] = s) % Cap[g]]
        ELSE NoTask]

\* Double the array if it is full, then write the slot.
PushWrite(p) ==
    LET d == op[p].d
        b == op[p].b
        t == op[p].t
        g == array[d]
    IN  /\ At(p, "push_write")
        /\ IF MustGrow(b, t, g)
           THEN /\ g < MaxGrow
                /\ array' = [array EXCEPT ![d] = g + 1]
                /\ buf' = [buf EXCEPT ![d][g + 1] =
                             [Copied(d, g, b, t) EXCEPT
                                ![b % Cap[g + 1]] = op[p].task]]
           ELSE /\ buf' = [buf EXCEPT ![d][g][b % Cap[g]] = op[p].task]
                /\ UNCHANGED array
        /\ Goto(p, "push_publish")
        /\ UNCHANGED <<top, bottom, ownerLock>>

PushPublish(p) ==
    LET d == op[p].d IN
    /\ At(p, "push_publish")
    /\ bottom' = [bottom EXCEPT ![d] = op[p].b + 1]
    /\ ownerLock' = [ownerLock EXCEPT ![d] = NoProc]
    /\ op' = [op EXCEPT ![p] = IdleOp]
    /\ UNCHANGED <<top, array, buf>>

-----------------------------------------------------------------------------
(* deque_pop: the owner's end, which does not take owner_lock *)

PopBegin(p, d) ==
    /\ At(p, "idle")
    /\ op' = [op EXCEPT ![p] = [IdleOp EXCEPT !.pc = "pop_store", !.d = d,
                                              !.b = bottom[d] - 1]]
    /\ UNCHANGED <<top, bottom, array, buf, ownerLock>>

PopStore(p) ==
    /\ At(p, "pop_store")
    /\ bottom' = [bottom EXCEPT ![op[p].d] = op[p].b]
    /\ Goto(p, "pop_array")
    /\ UNCHANGED <<top, array, buf, ownerLock>>

PopArray(p) ==
    /\ At(p, "pop_array")
    /\ op' = [op EXCEPT ![p].pc = "pop_top", ![p].gen = array[op[p].d]]
    /\ UNCHANGED <<top, bottom, array, buf, ownerLock>>

PopTop(p) ==
    LET t == top[op[p].d] IN
    /\ At(p, "pop_top")
    /\ op' = [op EXCEPT ![p].t = t,
                        ![p].pc = IF t <= op[p].b THEN "pop_read" ELSE "pop_empty"]
    /\ UNCHANGED <<top, bottom, array, buf, ownerLock>>

PopRead(p) ==
    LET o == op[p] IN
    /\ At(p, "pop_read")
    /\ op' = [op EXCEPT ![p].task = buf[o.d][o.gen][o.b % Cap[o.gen]],
                        ![p].pc = IF o.t = o.b THEN "pop_cas" ELSE "got"]
    /\ UNCHANGED <<top, bottom, array, buf, ownerLock>>

\* The compare-and-swap writes what it found into t when it fails.
PopCas(p) ==
    LET d == op[p].d IN
    /\ At(p, "pop_cas")
    /\ \/ /\ top[d] = op[p].t
          /\ top' = [top EXCEPT ![d] = @ + 1]
          /\ Goto(p, "pop_won")
       \/ /\ top[d] # op[p].t
          /\ op' = [op EXCEPT ![p].t = top[d], ![p].pc = "pop_lost"]
          /\ UNCHANGED top
    /\ UNCHANGED <<bottom, array, buf, ownerLock>>

\* Faulty: bottom is not moved past the element that was won.
RestoredShort(o) == o.t

\* The value pop leaves in bottom, on each of its three ways out.
RestoredBottom(o) == IF o.pc = "pop_empty" THEN o.t ELSE o.t + 1

PopRestore(p) ==
    /\ op[p].pc \in {"pop_won", "pop_lost", "pop_empty"}
    /\ bottom' = [bottom EXCEPT ![op[p].d] = RestoredBottom(op[p])]
    /\ Goto(p, IF At(p, "pop_won") THEN "got" ELSE "none")
    /\ UNCHANGED <<top, array, buf, ownerLock>>

-----------------------------------------------------------------------------
(* deque_steal: the thief's end, lock-free *)

StealBegin(p, d) ==
    /\ At(p, "idle")
    /\ op' = [op EXCEPT ![p] = [IdleOp EXCEPT !.pc = "steal_bottom", !.d = d,
                                              !.t = top[d]]]
    /\ UNCHANGED <<top, bottom, array, buf, ownerLock>>

StealBottom(p) ==
    LET b == bottom[op[p].d] IN
    /\ At(p, "steal_bottom")
    /\ op' = [op EXCEPT ![p].b = b,
                        ![p].pc = IF op[p].t >= b THEN "none" ELSE "steal_read"]
    /\ UNCHANGED <<top, bottom, array, buf, ownerLock>>

StealRead(p) ==
    LET d == op[p].d
        g == array[d]
    IN  /\ At(p, "steal_read")
        /\ op' = [op EXCEPT ![p].task = buf[d][g][op[p].t % Cap[g]],
                            ![p].pc = "steal_cas"]
        /\ UNCHANGED <<top, bottom, array, buf, ownerLock>>

\* Faulty: stores top instead of comparing and swapping.
StealCasBlind(p) ==
    /\ At(p, "steal_cas")
    /\ top' = [top EXCEPT ![op[p].d] = op[p].t + 1]
    /\ Goto(p, "got")
    /\ UNCHANGED <<bottom, array, buf, ownerLock>>

StealCas(p) ==
    LET d == op[p].d IN
    /\ At(p, "steal_cas")
    /\ \/ /\ top[d] = op[p].t
          /\ top' = [top EXCEPT ![d] = @ + 1]
          /\ Goto(p, "got")
       \/ /\ top[d] # op[p].t
          /\ Goto(p, "none")
          /\ UNCHANGED top
    /\ UNCHANGED <<bottom, array, buf, ownerLock>>

-----------------------------------------------------------------------------

\* One more access of a call in progress.
DequeStep(p) ==
    \/ PushTop(p) \/ PushWrite(p) \/ PushPublish(p)
    \/ PopStore(p) \/ PopArray(p) \/ PopTop(p) \/ PopRead(p) \/ PopCas(p)
    \/ PopRestore(p)
    \/ StealBottom(p) \/ StealRead(p) \/ StealCas(p)

\* pop or steal returns to its caller, with op[p].task when it is at "got".
Returned(p) == op[p].pc \in {"got", "none"}
DequeReturn(p) ==
    /\ Returned(p)
    /\ op' = [op EXCEPT ![p] = IdleOp]
    /\ UNCHANGED <<top, bottom, array, buf, ownerLock>>

\* What deque d holds, oldest first.
Window(d) ==
    [i \in 1..(bottom[d] - top[d]) |->
        buf[d][array[d]][(top[d] + i - 1) % Cap[array[d]]]]
=============================================================================
