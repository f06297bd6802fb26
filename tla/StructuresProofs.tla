-------------------------- MODULE StructuresProofs --------------------------
(* Proofs about the two structures of the library that threads share without   *)
(* a lock, and whose positions only grow and are masked where they are used:   *)
(* the deque of bf_pool.c and the rings of bf_log.c. They hold for any number  *)
(* of threads, tasks, deques, lines and rings and any capacities, whatever     *)
(* the order of the accesses, until one of the two clashes of DequeUse happens *)
(* to a deque, and of the rings whose tail was not set back.                   *)
EXTENDS DequeUse, LogRing, WorkDequeProofs, SequenceTheorems

-----------------------------------------------------------------------------
(* The deque: TakenOnce, NothingLost, up to the first clash.                  *)

\* Inside of deque_push; of deque_pop while bottom is lowered.
PushPcs == {"push_top", "push_write", "push_publish"}
LoweredPcs == {"pop_array", "pop_top", "pop_read", "pop_cas", "pop_won", "pop_lost", "pop_empty"}

\* The slot of an index, and the indices that are queued.
Slot(d, i) == buf[d][array[d]][i % Cap[array[d]]]
Live(d, i) == top[d] <= i /\ i < bottom[d]

\* Only the owner pops, and nobody pushes meanwhile.
PopsApart ==
  /\ use \in Uses
  /\ \A p \in Procs : op[p].pc \in PopPcs => p = use.owner[op[p].d] /\ ownerLock[op[p].d] = NoProc

\* The indices are in order, except inside a pop that found the deque empty or
\* competes for its last task.
Bounded(d) ==
  /\ bottom[d] - top[d] <= Cap[array[d]]
  /\ top[d] <= bottom[d] \/ \E p \in Procs : op[p].d = d /\ op[p].pc \in LoweredPcs

\* What the locals of a call say about the deque, which others use meanwhile.
CallTrue(p) ==
  LET o == op[p]
      d == op[p].d
  IN
  /\ o.pc \in PushPcs => ownerLock[d] = p /\ o.b = bottom[d]
  /\ o.pc = "push_write" => o.t <= top[d] /\ o.b - o.t <= Cap[array[d]]
  /\ o.pc = "push_publish" => o.b - top[d] < Cap[array[d]] /\ Slot(d, o.b) = o.task
  /\ o.pc = "pop_store" => o.b = bottom[d] - 1
  /\ o.pc \in LoweredPcs => o.b = bottom[d] /\ top[d] <= o.b + 1
  /\ o.pc \in {"pop_top", "pop_read"} => o.gen = array[d]
  /\ o.pc = "pop_read" => o.t <= o.b /\ (o.t # o.b => top[d] <= o.b)
  /\ o.pc = "pop_cas" => o.t = o.b /\ (top[d] = o.b => o.task = Slot(d, o.b))
  /\ o.pc \in {"pop_read", "pop_cas"} => o.t <= top[d]
  /\ o.pc = "pop_won" => o.t = o.b /\ top[d] = o.b + 1
  /\ o.pc = "pop_empty" => o.t = top[d] /\ o.t = o.b + 1
  /\ o.pc # "pop_lost"
  /\ o.pc \in {"steal_bottom", "steal_read", "steal_cas"} => o.t <= top[d]
  /\ o.pc = "steal_cas" /\ o.t = top[d] => o.task = Slot(d, o.t)

\* The pop of p is after the task at index i, and will compete for it.
Contends(p, d, i) ==
  /\ op[p].d = d /\ op[p].pc \in {"pop_array", "pop_top", "pop_read", "pop_cas"} /\ op[p].b = i
  /\ op[p].pc = "pop_read" => op[p].t = i

\* A thief that may still win is after a task that is queued, or that a pop
\* will compete for: never after one that a pop took for itself.
InReach(p) ==
  op[p].pc \in {"steal_read", "steal_cas"} /\ op[p].t = top[op[p].d] =>
    \/ op[p].t < bottom[op[p].d]
    \/ \E q \in Procs : Contends(q, op[p].d, op[p].t)

\* The task that a call has taken from its caller or from the deque.
Load(p) ==
  IF op[p].pc \in PushPcs \cup {"pop_won", "got"} THEN {op[p].task}
  ELSE IF /\ op[p].pc \in {"pop_array", "pop_top", "pop_read", "pop_cas"}
          /\ top[op[p].d] <= op[p].b
       THEN {Slot(op[p].d, op[p].b)}
  ELSE {}

\* The places where a task is: at indices of deques, with calls, among those
\* that were taken.
Queue(t) == {x \in Deques \X Int : Live(x[1], x[2]) /\ Slot(x[1], x[2]) = t}
Calls(t) == {p \in Procs : t \in Load(p)}
Takes(t) == {k \in 1..Len(taken) : taken[k] = t}

OnePlace(t) ==
  \/ (\E x \in Deques \X Int : Queue(t) = {x}) /\ Calls(t) = {} /\ Takes(t) = {}
  \/ Queue(t) = {} /\ (\E p \in Procs : Calls(t) = {p}) /\ Takes(t) = {}
  \/ Queue(t) = {} /\ Calls(t) = {} /\ \E k \in 1..Len(taken) : Takes(t) = {k}

\* Every task that was pushed is at one place, and nothing else is anywhere.
Placed ==
  /\ \A t \in submitted : OnePlace(t)
  /\ \A t \in (Tasks \cup {NoTask}) \ submitted : Queue(t) = {} /\ Calls(t) = {} /\ Takes(t) = {}

\* The invariant of a deque that is not spoiled.
DequeUseInv ==
  /\ DequeTypeOK
  /\ submitted \in SUBSET Tasks /\ taken \in Seq(Tasks)
  /\ PopsApart
  /\ \A d \in Deques : Bounded(d)
  /\ \A p \in Procs : CallTrue(p)
  /\ \A p \in Procs : InReach(p)
  /\ Placed

-----------------------------------------------------------------------------
(* Who is at the bottom of a deque, and masked positions stay apart.          *)

\* Inside of a pop one is alone with the owner's end of the deque: nobody else
\* pops it, and nobody pushes to it.
LEMMA BottomApart ==
  ASSUME DequeUseInv, NEW p \in Procs, NEW q \in Procs, op[p].pc \in PopPcs, q # p,
         op[q].pc \in PopPcs \cup PushPcs
  PROVE  op[q].d # op[p].d
<1>1. CASE op[q].pc \in PopPcs
  BY <1>1 DEF DequeUseInv, PopsApart
<1>2. CASE op[q].pc \in PushPcs
  <2>1. ownerLock[op[q].d] = q
    BY <1>2 DEF DequeUseInv, CallTrue
  <2>2. ownerLock[op[p].d] = NoProc
    BY DEF DequeUseInv, PopsApart
  <2> QED
    BY <2>1, <2>2, DequeAssumption
<1> QED
  BY <1>1, <1>2

\* Numbers: division, and indices that are close to each other.
LEMMA Division ==
  ASSUME NEW c \in Nat \ {0}, NEW i \in Int
  PROVE  i \div c \in Int /\ i % c \in 0..c - 1 /\ i = c * (i \div c) + (i % c)
OBVIOUS

LEMMA Multiples ==
  ASSUME NEW c \in Nat \ {0}, NEW k \in Int, k >= 1
  PROVE  c * k \in Int /\ c * k >= c
OBVIOUS

LEMMA Distributes ==
  ASSUME NEW c \in Nat, NEW k \in Int, NEW m \in Int
  PROVE  c * k - c * m = c * (k - m)
OBVIOUS

LEMMA MaskedApart ==
  ASSUME NEW c \in Nat \ {0}, NEW i \in Int, NEW j \in Int, i < j, j - i < c
  PROVE  i % c # j % c
<1> SUFFICES ASSUME i % c = j % c PROVE FALSE
  OBVIOUS
<1> DEFINE k == i \div c
<1> DEFINE m == j \div c
<1>1. k \in Int /\ m \in Int /\ i % c \in Int /\ i = c * k + (i % c) /\ j = c * m + (j % c)
  BY Division
<1> HIDE DEF k, m
<1>2. c * k \in Int /\ c * m \in Int
  BY <1>1
<1>3. j - i = c * m - c * k
  BY <1>1, <1>2
<1>4. j - i = c * (m - k)
  BY <1>1, <1>3, Distributes
<1>5. CASE m - k >= 1
  BY <1>1, <1>4, <1>5, Multiples
<1>6. CASE m - k <= 0
  <2>1. c * (k - m) >= 0
    BY <1>1, <1>6
  <2>2. c * (m - k) = 0 - c * (k - m) /\ c * (k - m) \in Int
    BY <1>1
  <2> QED
    BY <1>4, <2>1, <2>2
<1> QED
  BY <1>1, <1>5, <1>6

LEMMA Capacities ==
  ASSUME NEW g \in Gens
  PROVE  /\ Cap[g] \in Nat \ {0}
         /\ g < MaxGrow => g + 1 \in Gens /\ Cap[g + 1] = 2 * Cap[g] /\ Cap[g + 1] \in Nat \ {0}
BY DequeAssumption DEF Gens

\* A doubled array has what was queued, at the slots of the new mask.
LEMMA CopiedSlot ==
  ASSUME NEW d \in Deques, NEW g \in Gens, g < MaxGrow, NEW b \in Int, NEW t \in Int,
         b - t <= Cap[g], NEW i \in t..b - 1
  PROVE  Copied(d, g, b, t)[i % Cap[g + 1]] = buf[d][g][i % Cap[g]]
<1> DEFINE c == Cap[g + 1]
<1>1. c \in Nat \ {0} /\ Cap[g] \in Nat \ {0} /\ b - t < c /\ g + 1 \in Gens
  BY Capacities
<1>2. \A j \in t..b - 1 : j % c = i % c => j = i
  <2> SUFFICES ASSUME NEW j \in t..b - 1, j # i PROVE j % c # i % c
    OBVIOUS
  <2>1. CASE j < i
    BY <1>1, <2>1, MaskedApart
  <2>2. CASE i < j
    BY <1>1, <2>2, MaskedApart
  <2> QED
    BY <2>1, <2>2
<1>3. (CHOOSE j \in t..b - 1 : j % c = i % c) = i
  BY <1>2
<1>4. i % c \in Slots
  BY <1>1, MaskedIndex
<1> QED
  BY <1>3, <1>4 DEF Copied

-----------------------------------------------------------------------------
(* How tasks move: not at all, from a caller into a call, from a call to an   *)
(* index, from an index to a call, from a call to another, and from a call to *)
(* its caller.                                                                *)

AnyTask == Tasks \cup {NoTask}

\* Only the task t may have moved, and only into or out of a call of p.
OnlyMoves(p, t) ==
  /\ \A s \in AnyTask \ {t}, d \in Deques, i \in Int :
       Live(d, i)' /\ Slot(d, i)' = s <=> Live(d, i) /\ Slot(d, i) = s
  /\ \A q \in Procs \ {p} : Load(q)' = Load(q)
  /\ Load(p) \subseteq {t} /\ Load(p)' \subseteq {t}

LEMMA OthersStay ==
  ASSUME NEW p \in Procs, NEW t \in AnyTask, OnlyMoves(p, t), taken \in Seq(Tasks),
         taken' = taken \/ taken' = Append(taken, t)
  PROVE  \A s \in AnyTask \ {t} : Queue(s)' = Queue(s) /\ Calls(s)' = Calls(s) /\ Takes(s)' = Takes(s)
<1> SUFFICES ASSUME NEW s \in AnyTask \ {t}
             PROVE  Queue(s)' = Queue(s) /\ Calls(s)' = Calls(s) /\ Takes(s)' = Takes(s)
  OBVIOUS
<1>1. Queue(s)' = Queue(s)
  BY DEF OnlyMoves, Queue
<1>2. Calls(s)' = Calls(s)
  BY DEF OnlyMoves, Calls
<1>3. Takes(s)' = Takes(s)
  <2>1. CASE taken' = taken
    BY <2>1 DEF Takes
  <2>2. CASE taken' = Append(taken, t)
    <3>1. /\ Len(taken') = Len(taken) + 1 /\ Len(taken) \in Nat /\ taken'[Len(taken) + 1] = t
          /\ \A k \in 1..Len(taken) : taken'[k] = taken[k]
      BY <2>2
    <3> QED
      BY <3>1 DEF Takes
  <2> QED
    BY <2>1, <2>2
<1> QED
  BY <1>1, <1>2, <1>3

LEMMA QueuedAt ==
  ASSUME NEW t, NEW d \in Deques, NEW i \in Int
  PROVE  Live(d, i) /\ Slot(d, i) = t <=> <<d, i>> \in Queue(t)
BY DEF Queue

LEMMA PlacedAgain ==
  ASSUME Placed, NEW p \in Procs, NEW t \in AnyTask, OnlyMoves(p, t), taken \in Seq(Tasks),
         taken' = taken \/ taken' = Append(taken, t),
         submitted \subseteq AnyTask, submitted' = submitted \cup {t}, OnePlace(t)'
  PROVE  Placed'
<1>1. \A s \in AnyTask \ {t} : Queue(s)' = Queue(s) /\ Calls(s)' = Calls(s) /\ Takes(s)' = Takes(s)
  BY OthersStay
<1>2. Len(taken') = Len(taken) \/ Len(taken') = Len(taken) + 1
  OBVIOUS
<1>3. \A s \in AnyTask \ {t} : OnePlace(s) => OnePlace(s)'
  <2>1. \A k \in 1..Len(taken) : k \in 1..Len(taken')
    BY <1>2
  <2> QED
    BY <1>1, <2>1 DEF OnePlace
<1> QED
  BY <1>1, <1>3 DEF Placed, AnyTask

\* Nothing has moved.
QueuesSame ==
  \A d \in Deques, i \in Int : (Live(d, i)' <=> Live(d, i)) /\ (Live(d, i) => Slot(d, i)' = Slot(d, i))

LEMMA NothingMoves ==
  ASSUME Placed, QueuesSame, \A q \in Procs : Load(q)' = Load(q), UNCHANGED <<submitted, taken>>
  PROVE  Placed'
<1>1. \A t \in AnyTask : Queue(t)' = Queue(t) /\ Calls(t)' = Calls(t) /\ Takes(t)' = Takes(t)
  <2> SUFFICES ASSUME NEW t \in AnyTask
               PROVE  Queue(t)' = Queue(t) /\ Calls(t)' = Calls(t) /\ Takes(t)' = Takes(t)
    OBVIOUS
  <2>1. Queue(t)' = Queue(t)
    BY DEF QueuesSame, Queue
  <2>2. Calls(t)' = Calls(t)
    BY DEF Calls
  <2>3. Takes(t)' = Takes(t)
    BY DEF Takes
  <2> QED
    BY <2>1, <2>2, <2>3
<1>2. ASSUME NEW t \in submitted PROVE OnePlace(t)'
  <2>1. CASE t \in AnyTask
    BY <1>1, <2>1 DEF OnePlace, Placed
  <2>2. CASE t \notin AnyTask
    <3>1. Queue(t)' = Queue(t) /\ Calls(t)' = Calls(t) /\ Takes(t)' = Takes(t)
      BY DEF QueuesSame, Queue, Calls, Takes
    <3> QED
      BY <3>1 DEF OnePlace, Placed
  <2> QED
    BY <2>1, <2>2
<1> QED
  BY <1>1, <1>2 DEF Placed, AnyTask

\* A task that is with a call is nowhere else; one that is queued, neither.
LEMMA InCall ==
  ASSUME Placed, NEW p \in Procs, NEW t \in AnyTask, t \in Load(p)
  PROVE  t \in submitted /\ Calls(t) = {p} /\ Queue(t) = {} /\ Takes(t) = {}
<1>1. p \in Calls(t)
  BY DEF Calls
<1>2. t \in submitted
  BY <1>1 DEF Placed, AnyTask
<1> QED
  BY <1>1, <1>2 DEF Placed, OnePlace

LEMMA InQueue ==
  ASSUME Placed, NEW d \in Deques, NEW i \in Int, NEW t \in AnyTask, Live(d, i), Slot(d, i) = t
  PROVE  t \in submitted /\ Calls(t) = {} /\ Queue(t) = {<<d, i>>} /\ Takes(t) = {}
<1>1. <<d, i>> \in Queue(t)
  BY DEF Queue
<1>2. t \in submitted
  BY <1>1 DEF Placed, AnyTask
<1> QED
  BY <1>1, <1>2 DEF Placed, OnePlace

\* A new task comes with a call.
LEMMA TaskSubmitted ==
  ASSUME Placed, QueuesSame, NEW p \in Procs, NEW t \in Tasks \ submitted, taken \in Seq(Tasks),
         submitted \subseteq Tasks, \A q \in Procs \ {p} : Load(q)' = Load(q),
         Load(p) = {}, Load(p)' = {t}, submitted' = submitted \cup {t}, taken' = taken
  PROVE  Placed'
<1>1. t \in AnyTask /\ OnlyMoves(p, t)
  BY DEF OnlyMoves, QueuesSame, AnyTask
<1>2. Queue(t) = {} /\ Calls(t) = {} /\ Takes(t) = {}
  BY DEF Placed
<1>3. Queue(t)' = {} /\ Calls(t)' = {p} /\ Takes(t)' = {}
  <2>1. Queue(t)' = {}
    BY <1>2 DEF Queue, QueuesSame
  <2>2. Calls(t)' = {p}
    BY <1>2 DEF Calls
  <2>3. Takes(t)' = {}
    BY <1>2 DEF Takes
  <2> QED
    BY <2>1, <2>2, <2>3
<1>4. OnePlace(t)'
  BY <1>3 DEF OnePlace
<1> QED
  BY <1>1, <1>4, PlacedAgain DEF AnyTask

\* A call puts its task at an index that was not queued.
LEMMA TaskQueued ==
  ASSUME Placed, NEW p \in Procs, NEW t \in Tasks, NEW d \in Deques, NEW i \in Int, taken \in Seq(Tasks),
         submitted \subseteq Tasks, \A q \in Procs \ {p} : Load(q)' = Load(q),
         Load(p) = {t}, Load(p)' = {}, ~Live(d, i), Live(d, i)', Slot(d, i)' = t,
         \A e \in Deques, j \in Int : e # d \/ j # i =>
           (Live(e, j)' <=> Live(e, j)) /\ (Live(e, j) => Slot(e, j)' = Slot(e, j)),
         UNCHANGED <<submitted, taken>>
  PROVE  Placed'
<1>1. t \in AnyTask
  BY DEF AnyTask
<1>2. OnlyMoves(p, t)
  BY DEF OnlyMoves
<1>3. t \in submitted /\ Queue(t) = {} /\ Calls(t) = {p} /\ Takes(t) = {}
  BY <1>1, InCall
<1>4. Queue(t)' = {<<d, i>>}
  <2>1. \A e \in Deques, j \in Int : e # d \/ j # i => ~(Live(e, j)' /\ Slot(e, j)' = t)
    BY <1>3, QueuedAt
  <2> QED
    BY <2>1 DEF Queue
<1>5. Calls(t)' = {}
  BY <1>3 DEF Calls
<1>6. Takes(t)' = {}
  BY <1>3 DEF Takes
<1>7. OnePlace(t)'
  BY <1>4, <1>5, <1>6 DEF OnePlace
<1>8. submitted' = submitted \cup {t} /\ submitted \subseteq AnyTask
  BY <1>3 DEF AnyTask
<1> QED
  BY <1>1, <1>2, <1>7, <1>8, PlacedAgain

\* A call takes the task from an index.
LEMMA TaskTaken ==
  ASSUME Placed, NEW p \in Procs, NEW t \in AnyTask, NEW d \in Deques, NEW i \in Int, taken \in Seq(Tasks),
         submitted \subseteq Tasks, \A q \in Procs \ {p} : Load(q)' = Load(q),
         Load(p) = {}, Load(p)' = {t}, Live(d, i), ~Live(d, i)', Slot(d, i) = t,
         \A e \in Deques, j \in Int : e # d \/ j # i =>
           (Live(e, j)' <=> Live(e, j)) /\ (Live(e, j) => Slot(e, j)' = Slot(e, j)),
         UNCHANGED <<submitted, taken>>
  PROVE  Placed'
<1>1. OnlyMoves(p, t)
  BY DEF OnlyMoves
<1>2. t \in submitted /\ Queue(t) = {<<d, i>>} /\ Calls(t) = {} /\ Takes(t) = {}
  BY InQueue
<1>3. Queue(t)' = {}
  <2>1. ASSUME NEW e \in Deques, NEW j \in Int, e # d \/ j # i, Live(e, j), Slot(e, j) = t
        PROVE  FALSE
    <3>1. <<e, j>> \in Queue(t)
      BY <2>1, QueuedAt
    <3>2. <<e, j>> = <<d, i>>
      BY <1>2, <3>1
    <3> QED
      BY <2>1, <3>2
  <2> QED
    BY <2>1 DEF Queue
<1>4. Calls(t)' = {p}
  BY <1>2 DEF Calls
<1>5. Takes(t)' = {}
  BY <1>2 DEF Takes
<1>6. OnePlace(t)'
  BY <1>3, <1>4, <1>5 DEF OnePlace
<1>7. submitted' = submitted \cup {t} /\ submitted \subseteq AnyTask
  BY <1>2 DEF AnyTask
<1> QED
  BY <1>1, <1>6, <1>7, PlacedAgain

\* A thief takes the task that a pop was after.
LEMMA TaskPassed ==
  ASSUME Placed, QueuesSame, NEW p \in Procs, NEW q \in Procs \ {p}, NEW t \in AnyTask,
         \A r \in Procs \ {p, q} : Load(r)' = Load(r),
         Load(p) = {}, Load(p)' = {t}, Load(q) = {t}, Load(q)' = {},
         UNCHANGED <<submitted, taken>>
  PROVE  Placed'
<1>1. t \in submitted /\ Queue(t) = {} /\ Calls(t) = {q} /\ Takes(t) = {}
  BY InCall
<1>2. \A x : Queue(x)' = Queue(x) /\ Takes(x)' = Takes(x)
  BY DEF QueuesSame, Queue, Takes
<1>3. Calls(t)' = {p}
  BY <1>1 DEF Calls
<1>4. \A x : x # t => Calls(x)' = Calls(x)
  BY DEF Calls
<1>5. OnePlace(t)'
  BY <1>1, <1>2, <1>3 DEF OnePlace
<1>6. \A x : x # t /\ OnePlace(x) => OnePlace(x)'
  BY <1>2, <1>4 DEF OnePlace
<1> QED
  BY <1>1, <1>2, <1>4, <1>5, <1>6 DEF Placed

\* A call hands its task to its caller.
LEMMA TaskReturned ==
  ASSUME Placed, QueuesSame, NEW p \in Procs, NEW t \in AnyTask, taken \in Seq(Tasks),
         submitted \subseteq Tasks, \A q \in Procs \ {p} : Load(q)' = Load(q),
         Load(p) = {t}, Load(p)' = {}, submitted' = submitted, taken' = Append(taken, t)
  PROVE  Placed'
<1>1. OnlyMoves(p, t)
  BY DEF OnlyMoves, QueuesSame
<1>2. t \in submitted /\ Queue(t) = {} /\ Calls(t) = {p} /\ Takes(t) = {}
  BY InCall
<1>3. Queue(t)' = {}
  BY <1>2 DEF Queue, QueuesSame
<1>4. Calls(t)' = {}
  BY <1>2 DEF Calls
<1>5. Takes(t)' = {Len(taken) + 1}
  <2>1. /\ Len(taken') = Len(taken) + 1 /\ Len(taken) \in Nat /\ taken'[Len(taken) + 1] = t
        /\ \A k \in 1..Len(taken) : taken'[k] = taken[k]
    OBVIOUS
  <2>2. \A k \in 1..Len(taken) : taken[k] # t
    BY <1>2 DEF Takes
  <2> QED
    BY <2>1, <2>2 DEF Takes
<1>6. Len(taken) + 1 \in 1..Len(taken')
  OBVIOUS
<1>7. OnePlace(t)'
  BY <1>3, <1>4, <1>5, <1>6 DEF OnePlace
<1>8. submitted' = submitted \cup {t} /\ submitted \subseteq AnyTask
  BY <1>2 DEF AnyTask
<1> QED
  BY <1>1, <1>7, <1>8, PlacedAgain

-----------------------------------------------------------------------------
(* Steps that change nothing of the deque but the locals of a call.           *)

Ops == [pc: OpPcs, d: Deques, b: Int, t: Int, gen: Gens, task: Tasks \cup {NoTask}]

LEMMA DequeTyped ==
  ASSUME DequeTypeOK
  PROVE  /\ op \in [Procs -> Ops] /\ \A p \in Procs : op[p] \in Ops /\ op[p].d \in Deques
         /\ top \in [Deques -> Int] /\ bottom \in [Deques -> Int]
         /\ array \in [Deques -> Gens]
         /\ \A d \in Deques : Cap[array[d]] \in Nat \ {0}
         /\ \A d \in Deques, i \in Int : Slot(d, i) \in AnyTask
<1>1. \A d \in Deques, i \in Int : i % Cap[array[d]] \in Slots
  BY MaskedIndex DEF DequeTypeOK
<1> QED
  BY <1>1, Capacities DEF DequeTypeOK, Slot, AnyTask, Ops

\* A call whose deque stays as it is; who pushes to a deque matters to those
\* that push.
LEMMA ElsewhereTrue ==
  ASSUME NEW q \in Procs, CallTrue(q), op'[q] = op[q],
         top'[op[q].d] = top[op[q].d], bottom'[op[q].d] = bottom[op[q].d],
         array'[op[q].d] = array[op[q].d], buf'[op[q].d] = buf[op[q].d],
         op[q].pc \in PushPcs => ownerLock'[op[q].d] = ownerLock[op[q].d]
  PROVE  CallTrue(q)' /\ Load(q)' = Load(q)
<1>1. \A i : Slot(op[q].d, i)' = Slot(op[q].d, i)
  BY DEF Slot
<1>2. Load(q)' = Load(q)
  BY DEF Load, Slot
<1>3. /\ op'[q].pc \in PushPcs => ownerLock'[op'[q].d] = q /\ op'[q].b = bottom'[op'[q].d]
      /\ op'[q].pc \in LoweredPcs => op'[q].b = bottom'[op'[q].d] /\ top'[op'[q].d] <= op'[q].b + 1
  BY DEF CallTrue
<1>4. ASSUME op[q].pc \in PushPcs \union PopPcs PROVE CallTrue(q)'
  BY <1>1, <1>3, <1>4 DEF CallTrue, PushPcs, PopPcs, LoweredPcs, Slot
<1>5. ASSUME op[q].pc \notin PushPcs \union PopPcs PROVE CallTrue(q)'
  BY <1>1, <1>5 DEF CallTrue, PushPcs, PopPcs, LoweredPcs, Slot
<1> QED
  BY <1>2, <1>4, <1>5

LEMMA StillTrue ==
  ASSUME NEW q \in Procs, CallTrue(q), op'[q] = op[q], UNCHANGED <<top, bottom, array, buf, ownerLock>>
  PROVE  CallTrue(q)' /\ Load(q)' = Load(q)
BY ElsewhereTrue

LEMMA QueuesUnchanged ==
  ASSUME UNCHANGED <<top, bottom, array, buf>>
  PROVE  QueuesSame
BY DEF QueuesSame, Live, Slot

\* Who pops what, after a step of p.
LEMMA ApartKept ==
  ASSUME DequeUseInv, NEW p \in Procs, use' = use, \A q \in Procs \ {p} : op'[q] = op[q],
         op'[p].pc \in PopPcs => p = use.owner[op'[p].d] /\ ownerLock'[op'[p].d] = NoProc,
         \A q \in Procs \ {p} : op[q].pc \in PopPcs => ownerLock'[op[q].d] = ownerLock[op[q].d]
  PROVE  PopsApart'
BY DEF DequeUseInv, PopsApart

\* The deques that a step of p leaves alone.
LEMMA BoundsElsewhere ==
  ASSUME DequeUseInv, NEW p \in Procs, NEW d \in Deques, op[p].d = d \/ op[p].pc \notin LoweredPcs,
         \A q \in Procs \ {p} : op'[q] = op[q],
         \A e \in Deques \ {d} : top'[e] = top[e] /\ bottom'[e] = bottom[e] /\ array'[e] = array[e]
  PROVE  \A e \in Deques \ {d} : Bounded(e)'
<1> SUFFICES ASSUME NEW e \in Deques \ {d} PROVE Bounded(e)'
  OBVIOUS
<1>1. Bounded(e)
  BY DEF DequeUseInv
<1>2. ASSUME NEW q \in Procs, op[q].d = e, op[q].pc \in LoweredPcs
      PROVE  op'[q].d = e /\ op'[q].pc \in LoweredPcs
  BY <1>2
<1> QED
  BY <1>1, <1>2 DEF Bounded

\* What thieves may be after, where p has not stepped away from a contest and
\* both indices stay.
LEMMA ReachElsewhere ==
  ASSUME DequeUseInv, NEW p \in Procs, NEW q \in Procs \ {p}, \A r \in Procs \ {p} : op'[r] = op[r],
         NEW e \in Deques, op[q].d = e, top'[e] = top[e], bottom'[e] = bottom[e],
         \A i \in Int : Contends(p, e, i) /\ i = top[e] => Contends(p, e, i)'
  PROVE  InReach(q)'
<1>1. InReach(q) /\ op[q].t \in Int
  BY DequeTyped DEF DequeUseInv, Ops
<1>2. ASSUME NEW r \in Procs \ {p}, NEW i, Contends(r, e, i) PROVE Contends(r, e, i)'
  BY <1>2 DEF Contends
<1>3. PICK i \in Int : i = op[q].t
  BY <1>1
<1>4. ASSUME NEW r \in Procs, Contends(r, e, i), i = top[e] PROVE Contends(r, e, i)'
  BY <1>2, <1>4
<1>5. op'[q] = op[q]
  OBVIOUS
<1> QED
  BY <1>1, <1>3, <1>4, <1>5 DEF InReach

\* A step of p that only changes its own call.
LEMMA OwnStep ==
  ASSUME DequeUseInv, NEW p \in Procs, DequeTypeOK',
         UNCHANGED <<top, bottom, array, buf, ownerLock, use, submitted, taken>>,
         \A q \in Procs \ {p} : op'[q] = op[q],
         op'[p].pc \in PopPcs => p = use.owner[op'[p].d] /\ ownerLock[op'[p].d] = NoProc,
         op[p].pc \in LoweredPcs => \/ op'[p].pc \in LoweredPcs /\ op'[p].d = op[p].d
                                    \/ top[op[p].d] <= bottom[op[p].d],
         \A e \in Deques, i \in Int : Contends(p, e, i) /\ i = top[e] => Contends(p, e, i)',
         CallTrue(p)', InReach(p)', Load(p)' = Load(p)
  PROVE  DequeUseInv'
<1>1. \A q \in Procs \ {p} : CallTrue(q)' /\ Load(q)' = Load(q)
  BY StillTrue DEF DequeUseInv
<1>2. Placed'
  BY <1>1, QueuesUnchanged, NothingMoves DEF DequeUseInv
<1>3. \A d \in Deques : Bounded(d)'
  <2> SUFFICES ASSUME NEW d \in Deques PROVE Bounded(d)'
    OBVIOUS
  <2>1. Bounded(d)
    BY DEF DequeUseInv
  <2>2. CASE top[d] <= bottom[d]
    BY <2>1, <2>2 DEF Bounded
  <2>3. CASE ~(top[d] <= bottom[d])
    <3>1. PICK q \in Procs : op[q].d = d /\ op[q].pc \in LoweredPcs
      BY <2>1, <2>3 DEF Bounded
    <3>2. op'[q].d = d /\ op'[q].pc \in LoweredPcs
      BY <2>3, <3>1
    <3> QED
      BY <2>1, <3>2 DEF Bounded
  <2> QED
    BY <2>2, <2>3
<1>4. PopsApart'
  BY ApartKept
<1>5. \A q \in Procs \ {p} : InReach(q)'
  BY ReachElsewhere, DequeTyped DEF DequeUseInv
<1> QED
  BY <1>1, <1>2, <1>3, <1>4, <1>5 DEF DequeUseInv

\* What is known of a call of p and of its deque.
LEMMA CallTyped ==
  ASSUME DequeUseInv, NEW p \in Procs
  PROVE  /\ op \in [Procs -> Ops] /\ op[p] \in Ops /\ op[p].d \in Deques /\ op[p].b \in Int /\ op[p].t \in Int
         /\ op[p].gen \in Gens /\ op[p].task \in AnyTask
         /\ top[op[p].d] \in Int /\ bottom[op[p].d] \in Int /\ array[op[p].d] \in Gens
         /\ Cap[array[op[p].d]] \in Nat \ {0}
         /\ CallTrue(p) /\ InReach(p)
         /\ bottom[op[p].d] - top[op[p].d] <= Cap[array[op[p].d]]
         /\ op[p].pc \in PopPcs => p = use.owner[op[p].d] /\ ownerLock[op[p].d] = NoProc
<1>1. DequeTypeOK /\ CallTrue(p) /\ InReach(p) /\ PopsApart /\ \A d \in Deques : Bounded(d)
  BY DEF DequeUseInv
<1>2. op[p].b \in Int /\ op[p].t \in Int /\ op[p].gen \in Gens /\ op[p].task \in AnyTask
  BY <1>1, DequeTyped DEF Ops, AnyTask
<1> QED
  BY <1>1, <1>2, DequeTyped DEF Bounded, PopsApart

\* Where no pop has lowered bottom the indices are in order; so they are during
\* a push.
LEMMA InOrder ==
  ASSUME DequeUseInv, NEW d \in Deques, \A q \in Procs : op[q].pc \in LoweredPcs => op[q].d # d
  PROVE  top[d] <= bottom[d]
BY DEF DequeUseInv, Bounded

LEMMA NoPopThere ==
  ASSUME DequeUseInv, NEW p \in Procs, op[p].pc \in PushPcs
  PROVE  /\ \A q \in Procs : op[q].pc \in PopPcs => op[q].d # op[p].d
         /\ top[op[p].d] <= bottom[op[p].d]
<1>1. \A q \in Procs : op[q].pc \in PopPcs => op[q].d # op[p].d
  <2> SUFFICES ASSUME NEW q \in Procs, op[q].pc \in PopPcs PROVE op[q].d # op[p].d
    OBVIOUS
  <2>1. q # p
    BY DEF PushPcs, PopPcs
  <2> QED
    BY <2>1, BottomApart
<1>2. \A q \in Procs : op[q].pc \in LoweredPcs => op[q].d # op[p].d
  BY <1>1 DEF LoweredPcs, PopPcs
<1> QED
  BY <1>1, <1>2, InOrder, CallTyped

LEMMA PushTopKeeps ==
  ASSUME DequeUseInv, NEW p \in Procs, PushTop(p), UNCHANGED <<use, submitted, taken>>
  PROVE  DequeUseInv'
<1>1. DequeTypeOK'
  BY DequeType DEF DequeUseInv, DequeAction, DequeStep
<1>2. /\ op[p].pc = "push_top" /\ op' = [op EXCEPT ![p].pc = "push_write", ![p].t = top[op[p].d]]
      /\ UNCHANGED <<top, bottom, array, buf, ownerLock>>
  BY DEF PushTop, At
<1>3. /\ op'[p].pc = "push_write" /\ op'[p].t = top[op[p].d]
      /\ op'[p].b = op[p].b /\ op'[p].d = op[p].d /\ op'[p].task = op[p].task
  BY <1>2, CallTyped DEF Ops
<1>4. \A q \in Procs \ {p} : op'[q] = op[q]
  BY <1>2, CallTyped
<1>5. CallTrue(p)'
  BY <1>2, <1>3, CallTyped DEF CallTrue, PushPcs, LoweredPcs
<1>6. Load(p)' = Load(p)
  BY <1>2, <1>3 DEF Load, PushPcs
<1>7. InReach(p)'
  BY <1>3 DEF InReach
<1>8. \A e, i : ~Contends(p, e, i)
  BY <1>2 DEF Contends
<1> QED
  BY <1>1, <1>2, <1>3, <1>4, <1>5, <1>6, <1>7, <1>8, OwnStep DEF PopPcs, LoweredPcs

LEMMA PopArrayKeeps ==
  ASSUME DequeUseInv, NEW p \in Procs, PopArray(p), UNCHANGED <<use, submitted, taken>>
  PROVE  DequeUseInv'
<1>1. DequeTypeOK'
  BY DequeType DEF DequeUseInv, DequeAction, DequeStep
<1>2. /\ op[p].pc = "pop_array" /\ op' = [op EXCEPT ![p].pc = "pop_top", ![p].gen = array[op[p].d]]
      /\ UNCHANGED <<top, bottom, array, buf, ownerLock>>
  BY DEF PopArray, At
<1>3. op'[p].pc = "pop_top" /\ op'[p].gen = array[op[p].d] /\ op'[p].b = op[p].b /\ op'[p].d = op[p].d
  BY <1>2, CallTyped DEF Ops
<1>4. \A q \in Procs \ {p} : op'[q] = op[q]
  BY <1>2, CallTyped
<1>5. CallTrue(p)'
  BY <1>2, <1>3, CallTyped DEF CallTrue, PushPcs, LoweredPcs
<1>6. Load(p)' = Load(p)
  BY <1>2, <1>3 DEF Load, PushPcs, Slot
<1>7. InReach(p)'
  BY <1>3 DEF InReach
<1>8. \A e \in Deques, i \in Int : Contends(p, e, i) => Contends(p, e, i)'
  BY <1>2, <1>3 DEF Contends
<1>9. p = use.owner[op[p].d] /\ ownerLock[op[p].d] = NoProc
  BY <1>2, CallTyped DEF PopPcs
<1> QED
  BY <1>1, <1>2, <1>3, <1>4, <1>5, <1>6, <1>7, <1>8, <1>9, OwnStep DEF PopPcs, LoweredPcs

LEMMA PopTopKeeps ==
  ASSUME DequeUseInv, NEW p \in Procs, PopTop(p), UNCHANGED <<use, submitted, taken>>
  PROVE  DequeUseInv'
<1>1. DequeTypeOK'
  BY DequeType DEF DequeUseInv, DequeAction, DequeStep
<1>2. /\ op[p].pc = "pop_top"
      /\ op' = [op EXCEPT ![p].t = top[op[p].d],
                          ![p].pc = IF top[op[p].d] <= op[p].b THEN "pop_read" ELSE "pop_empty"]
      /\ UNCHANGED <<top, bottom, array, buf, ownerLock>>
  BY DEF PopTop, At
<1>3. /\ op'[p].pc = IF top[op[p].d] <= op[p].b THEN "pop_read" ELSE "pop_empty"
      /\ op'[p].t = top[op[p].d] /\ op'[p].gen = op[p].gen /\ op'[p].b = op[p].b /\ op'[p].d = op[p].d
  BY <1>2, CallTyped DEF Ops
<1>4. \A q \in Procs \ {p} : op'[q] = op[q]
  BY <1>2, CallTyped
<1>5. /\ top[op[p].d] \in Int /\ op[p].b \in Int
      /\ op[p].gen = array[op[p].d] /\ op[p].b = bottom[op[p].d] /\ top[op[p].d] <= op[p].b + 1
  BY <1>2, CallTyped DEF CallTrue, LoweredPcs
<1>6. CallTrue(p)' /\ Load(p)' = Load(p)
  <2>1. CASE top[op[p].d] <= op[p].b
    <3>1. op'[p].pc = "pop_read"
      BY <1>3, <2>1
    <3>2. CallTrue(p)'
      BY <1>2, <1>3, <1>5, <2>1, <3>1 DEF CallTrue, PushPcs, LoweredPcs
    <3>3. Load(p)' = Load(p)
      BY <1>2, <1>3, <2>1, <3>1 DEF Load, PushPcs, Slot
    <3> QED
      BY <3>2, <3>3
  <2>2. CASE ~(top[op[p].d] <= op[p].b)
    <3>1. op'[p].pc = "pop_empty"
      BY <1>3, <2>2
    <3>2. top[op[p].d] = op[p].b + 1
      BY <1>5, <2>2
    <3>3. CallTrue(p)'
      BY <1>2, <1>3, <1>5, <3>1, <3>2 DEF CallTrue, PushPcs, LoweredPcs
    <3>4. Load(p)' = Load(p)
      BY <1>2, <1>3, <2>2, <3>1 DEF Load, PushPcs
    <3> QED
      BY <3>3, <3>4
  <2> QED
    BY <2>1, <2>2
<1>7. InReach(p)'
  BY <1>3 DEF InReach
<1>8. ASSUME NEW e \in Deques, NEW i \in Int, Contends(p, e, i), i = top[e] PROVE Contends(p, e, i)'
  <2>1. op[p].d = e /\ op[p].b = i
    BY <1>8 DEF Contends
  <2>2. op'[p].pc = "pop_read" /\ op'[p].t = i /\ op'[p].d = e /\ op'[p].b = i
    BY <1>3, <1>5, <1>8, <2>1
  <2> QED
    BY <2>2 DEF Contends
<1>9. p = use.owner[op[p].d] /\ ownerLock[op[p].d] = NoProc
  BY <1>2, CallTyped DEF PopPcs
<1> QED
  BY <1>1, <1>2, <1>3, <1>4, <1>6, <1>7, <1>8, <1>9, OwnStep DEF PopPcs, LoweredPcs

LEMMA PopReadKeeps ==
  ASSUME DequeUseInv, NEW p \in Procs, PopRead(p), UNCHANGED <<use, submitted, taken>>
  PROVE  DequeUseInv'
<1>1. DequeTypeOK'
  BY DequeType DEF DequeUseInv, DequeAction, DequeStep
<1> DEFINE o == op[p]
<1>2. /\ o.pc = "pop_read"
      /\ op' = [op EXCEPT ![p].task = buf[o.d][o.gen][o.b % Cap[o.gen]],
                          ![p].pc = IF o.t = o.b THEN "pop_cas" ELSE "got"]
      /\ UNCHANGED <<top, bottom, array, buf, ownerLock>>
  BY DEF PopRead, At
<1>3. /\ op'[p].pc = IF o.t = o.b THEN "pop_cas" ELSE "got"
      /\ op'[p].task = buf[o.d][o.gen][o.b % Cap[o.gen]]
      /\ op'[p].t = o.t /\ op'[p].b = o.b /\ op'[p].d = o.d
  BY <1>2, CallTyped DEF Ops
<1>4. \A q \in Procs \ {p} : op'[q] = op[q]
  BY <1>2, CallTyped
<1>5. /\ o.gen = array[o.d] /\ o.t <= o.b /\ bottom[o.d] = o.b /\ o.t <= top[o.d]
      /\ (o.t # o.b => top[o.d] <= o.b) /\ top[o.d] <= o.b + 1
  BY <1>2, CallTyped DEF CallTrue, LoweredPcs
<1>6. op'[p].task = Slot(o.d, o.b)
  BY <1>3, <1>5 DEF Slot
<1>7. CallTrue(p)' /\ Load(p)' = Load(p)
  <2>1. CASE o.t = o.b
    <3>1. op'[p].pc = "pop_cas"
      BY <1>3, <2>1
    <3>2. CallTrue(p)'
      BY <1>2, <1>3, <1>5, <1>6, <2>1, <3>1, CallTyped DEF CallTrue, PushPcs, LoweredPcs, Slot
    <3>3. Load(p)' = Load(p)
      BY <1>2, <1>3, <3>1 DEF Load, PushPcs, Slot
    <3> QED
      BY <3>2, <3>3
  <2>2. CASE o.t # o.b
    <3>1. op'[p].pc = "got"
      BY <1>3, <2>2
    <3>2. CallTrue(p)'
      BY <3>1 DEF CallTrue, PushPcs, LoweredPcs
    <3>3. Load(p)' = Load(p)
      BY <1>2, <1>5, <1>6, <2>2, <3>1 DEF Load, PushPcs
    <3> QED
      BY <3>2, <3>3
  <2> QED
    BY <2>1, <2>2
<1>8. InReach(p)'
  BY <1>3 DEF InReach
<1>9. ASSUME NEW e \in Deques, NEW i \in Int, Contends(p, e, i), i = top[e] PROVE Contends(p, e, i)'
  <2>1. o.d = e /\ o.b = i /\ o.t = i
    BY <1>2, <1>9 DEF Contends
  <2>2. op'[p].pc = "pop_cas" /\ op'[p].d = e /\ op'[p].b = i
    BY <1>3, <2>1
  <2> QED
    BY <2>2 DEF Contends
<1>10. p = use.owner[op[p].d] /\ ownerLock[op[p].d] = NoProc
  BY <1>2, CallTyped DEF PopPcs
<1>11. \/ op'[p].pc \in LoweredPcs /\ op'[p].d = op[p].d
       \/ top[op[p].d] <= bottom[op[p].d]
  BY <1>3, <1>5 DEF LoweredPcs
<1>12. op'[p].d = op[p].d
  BY <1>3
<1> QED
  BY <1>1, <1>2, <1>4, <1>7, <1>8, <1>9, <1>10, <1>11, <1>12, OwnStep

LEMMA StealBottomKeeps ==
  ASSUME DequeUseInv, NEW p \in Procs, StealBottom(p), UNCHANGED <<use, submitted, taken>>
  PROVE  DequeUseInv'
<1>1. DequeTypeOK'
  BY DequeType DEF DequeUseInv, DequeAction, DequeStep
<1>2. /\ op[p].pc = "steal_bottom"
      /\ op' = [op EXCEPT ![p].b = bottom[op[p].d],
                          ![p].pc = IF op[p].t >= bottom[op[p].d] THEN "none" ELSE "steal_read"]
      /\ UNCHANGED <<top, bottom, array, buf, ownerLock>>
  BY DEF StealBottom, At
<1>3. /\ op'[p].pc = IF op[p].t >= bottom[op[p].d] THEN "none" ELSE "steal_read"
      /\ op'[p].t = op[p].t /\ op'[p].d = op[p].d
  BY <1>2, CallTyped DEF Ops
<1>4. \A q \in Procs \ {p} : op'[q] = op[q]
  BY <1>2, CallTyped
<1>5. CallTrue(p)' /\ InReach(p)'
  <2>0. op[p].t <= top[op[p].d] /\ op[p].t \in Int /\ bottom[op[p].d] \in Int
    BY <1>2, CallTyped DEF CallTrue
  <2>1. CASE op[p].t >= bottom[op[p].d]
    <3>1. op'[p].pc = "none"
      BY <1>3, <2>1
    <3> QED
      BY <3>1 DEF CallTrue, InReach, PushPcs, LoweredPcs
  <2>2. CASE ~(op[p].t >= bottom[op[p].d])
    <3>1. op'[p].pc = "steal_read" /\ op[p].t < bottom[op[p].d]
      BY <1>3, <2>0, <2>2
    <3>2. CallTrue(p)'
      BY <1>2, <1>3, <2>0, <3>1 DEF CallTrue, PushPcs, LoweredPcs
    <3>3. InReach(p)'
      BY <1>2, <1>3, <3>1 DEF InReach
    <3> QED
      BY <3>2, <3>3
  <2> QED
    BY <2>1, <2>2
<1>6. op'[p].pc \in {"none", "steal_read"}
  BY <1>3
<1>7. Load(p)' = Load(p)
  BY <1>2, <1>6 DEF Load, PushPcs
<1>8. \A e, i : ~Contends(p, e, i)
  BY <1>2 DEF Contends
<1> QED
  BY <1>1, <1>2, <1>4, <1>5, <1>6, <1>7, <1>8, OwnStep DEF PopPcs, LoweredPcs

LEMMA StealReadKeeps ==
  ASSUME DequeUseInv, NEW p \in Procs, StealRead(p), UNCHANGED <<use, submitted, taken>>
  PROVE  DequeUseInv'
<1>1. DequeTypeOK'
  BY DequeType DEF DequeUseInv, DequeAction, DequeStep
<1>2. /\ op[p].pc = "steal_read"
      /\ op' = [op EXCEPT ![p].task = Slot(op[p].d, op[p].t), ![p].pc = "steal_cas"]
      /\ UNCHANGED <<top, bottom, array, buf, ownerLock>>
  BY DEF StealRead, At, Slot
<1>3. /\ op'[p].pc = "steal_cas" /\ op'[p].task = Slot(op[p].d, op[p].t)
      /\ op'[p].t = op[p].t /\ op'[p].d = op[p].d
  BY <1>2, CallTyped DEF Ops
<1>4. \A q \in Procs \ {p} : op'[q] = op[q]
  BY <1>2, CallTyped
<1>5. CallTrue(p)'
  BY <1>2, <1>3, CallTyped DEF CallTrue, PushPcs, LoweredPcs, Slot
<1>6. Load(p)' = Load(p)
  BY <1>2, <1>3 DEF Load, PushPcs
<1>7. \A e, i : ~Contends(p, e, i)
  BY <1>2 DEF Contends
<1>8. InReach(p)'
  <2>1. InReach(p) /\ op[p].d \in Deques /\ op[p].t \in Int
    BY CallTyped
  <2>2. PICK d \in Deques, t \in Int : d = op[p].d /\ t = op[p].t
    BY <2>1
  <2>3. \A q \in Procs : Contends(q, d, t) => Contends(q, d, t)'
    BY <1>4, <1>7 DEF Contends
  <2> QED
    BY <1>2, <1>3, <2>1, <2>2, <2>3 DEF InReach
<1> QED
  BY <1>1, <1>2, <1>3, <1>4, <1>5, <1>6, <1>7, <1>8, OwnStep DEF PopPcs, LoweredPcs

\* The fields of a call that begins.
LEMMA FreshCall ==
  ASSUME NEW pc, NEW d, NEW b, NEW t, NEW task
  PROVE  /\ LET o == [IdleOp EXCEPT !.pc = pc, !.d = d, !.b = b] IN o.pc = pc /\ o.d = d /\ o.b = b
         /\ LET o == [IdleOp EXCEPT !.pc = pc, !.d = d, !.t = t] IN o.pc = pc /\ o.d = d /\ o.t = t
         /\ LET o == [IdleOp EXCEPT !.pc = pc, !.d = d, !.b = b, !.task = task]
            IN  o.pc = pc /\ o.d = d /\ o.b = b /\ o.task = task
         /\ IdleOp.pc = "idle"
BY DEF IdleOp

\* A pop that begins when nobody pushes to the deque.
LEMMA PopBeginKeeps ==
  ASSUME DequeUseInv, NEW d \in Deques, NEW p \in Procs, p = use.owner[d], ownerLock[d] = NoProc,
         PopBegin(p, d), UNCHANGED <<use, submitted, taken>>
  PROVE  DequeUseInv'
<1>1. DequeTypeOK'
  BY DequeType DEF DequeUseInv, DequeAction
<1>2. /\ op[p].pc = "idle"
      /\ op' = [op EXCEPT ![p] = [IdleOp EXCEPT !.pc = "pop_store", !.d = d, !.b = bottom[d] - 1]]
      /\ UNCHANGED <<top, bottom, array, buf, ownerLock>>
  BY DEF PopBegin, At
<1>3. op'[p].pc = "pop_store" /\ op'[p].d = d /\ op'[p].b = bottom[d] - 1
  BY <1>2, CallTyped, FreshCall
<1>4. \A q \in Procs \ {p} : op'[q] = op[q]
  BY <1>2, CallTyped
<1>5. CallTrue(p)'
  BY <1>2, <1>3 DEF CallTrue, PushPcs, LoweredPcs
<1>6. Load(p)' = Load(p)
  BY <1>2, <1>3 DEF Load, PushPcs
<1>7. InReach(p)'
  BY <1>3 DEF InReach
<1>8. \A e, i : ~Contends(p, e, i)
  BY <1>2 DEF Contends
<1> QED
  BY <1>1, <1>2, <1>3, <1>4, <1>5, <1>6, <1>7, <1>8, OwnStep DEF PopPcs, LoweredPcs

LEMMA StealBeginKeeps ==
  ASSUME DequeUseInv, NEW d \in Deques, NEW p \in Procs, StealBegin(p, d),
         UNCHANGED <<use, submitted, taken>>
  PROVE  DequeUseInv'
<1>1. DequeTypeOK'
  BY DequeType DEF DequeUseInv, DequeAction
<1>2. /\ op[p].pc = "idle"
      /\ op' = [op EXCEPT ![p] = [IdleOp EXCEPT !.pc = "steal_bottom", !.d = d, !.t = top[d]]]
      /\ UNCHANGED <<top, bottom, array, buf, ownerLock>>
  BY DEF StealBegin, At
<1>3. op'[p].pc = "steal_bottom" /\ op'[p].d = d /\ op'[p].t = top[d]
  BY <1>2, CallTyped, FreshCall
<1>4. \A q \in Procs \ {p} : op'[q] = op[q]
  BY <1>2, CallTyped
<1>5. top[d] \in Int
  BY DEF DequeUseInv, DequeTypeOK
<1>6. CallTrue(p)'
  BY <1>2, <1>3, <1>5 DEF CallTrue, PushPcs, LoweredPcs
<1>7. Load(p)' = Load(p)
  BY <1>2, <1>3 DEF Load, PushPcs
<1>8. InReach(p)'
  BY <1>3 DEF InReach
<1>9. \A e, i : ~Contends(p, e, i)
  BY <1>2 DEF Contends
<1> QED
  BY <1>1, <1>2, <1>3, <1>4, <1>6, <1>7, <1>8, <1>9, OwnStep DEF PopPcs, LoweredPcs

LEMMA ReturnKeeps ==
  ASSUME DequeUseInv, NEW p \in Procs, Return(p)
  PROVE  DequeUseInv'
<1>1. DequeTypeOK'
  BY DequeType DEF DequeUseInv, DequeAction, Return
<1>2. /\ op[p].pc \in {"got", "none"} /\ op' = [op EXCEPT ![p] = IdleOp]
      /\ UNCHANGED <<top, bottom, array, buf, ownerLock, use, submitted>>
      /\ taken' = IF op[p].pc = "got" THEN Append(taken, op[p].task) ELSE taken
  BY DEF Return, DequeReturn, Returned, At
<1>3. op'[p].pc = "idle"
  BY <1>2, CallTyped, FreshCall
<1>4. \A q \in Procs \ {p} : op'[q] = op[q]
  BY <1>2, CallTyped
<1>5. CallTrue(p)' /\ InReach(p)'
  BY <1>3 DEF CallTrue, InReach, PushPcs, LoweredPcs
<1>6. \A e, i : ~Contends(p, e, i)
  BY <1>2 DEF Contends
<1>7. CASE op[p].pc = "none"
  <2>1. Load(p)' = Load(p)
    BY <1>3, <1>7 DEF Load, PushPcs
  <2> QED
    BY <1>1, <1>2, <1>3, <1>4, <1>5, <1>6, <1>7, <2>1, OwnStep DEF PopPcs, LoweredPcs
<1>8. CASE op[p].pc = "got"
  <2> DEFINE t == op[p].task
  <2>1. t \in AnyTask /\ taken \in Seq(Tasks) /\ submitted \subseteq Tasks /\ Placed
    BY CallTyped DEF DequeUseInv
  <2>2. Load(p) = {t} /\ Load(p)' = {}
    BY <1>3, <1>8 DEF Load, PushPcs
  <2>3. \A q \in Procs \ {p} : CallTrue(q)' /\ Load(q)' = Load(q)
    BY <1>2, <1>4, StillTrue DEF DequeUseInv
  <2>4. QueuesSame
    BY <1>2, QueuesUnchanged
  <2>5. taken' = Append(taken, t)
    BY <1>2, <1>8
  <2>6. t \in Tasks
    BY <2>1, <2>2, InCall
  <2>7. Placed'
    <3> HIDE DEF t
    <3> QED
      BY <1>2, <2>1, <2>2, <2>3, <2>4, <2>5, TaskReturned
  <2>8. \A d \in Deques : Bounded(d)'
    <3>1. op[p].d \in Deques /\ op[p].pc \notin LoweredPcs
      BY <1>8, CallTyped DEF LoweredPcs
    <3>2. \A e \in Deques \ {op[p].d} : Bounded(e)'
      BY <1>2, <1>4, <3>1, BoundsElsewhere
    <3>3. ASSUME NEW q \in Procs, op[q].pc \in LoweredPcs PROVE op'[q] = op[q]
      BY <1>4, <3>1, <3>3
    <3>4. Bounded(op[p].d)
      BY <3>1 DEF DequeUseInv
    <3>5. PICK d \in Deques : d = op[p].d
      BY <3>1
    <3>6. Bounded(d)'
      BY <1>2, <3>3, <3>4, <3>5 DEF Bounded
    <3> QED
      BY <3>2, <3>5, <3>6
  <2>9. PopsApart'
    BY <1>2, <1>3, <1>4, ApartKept DEF PopPcs
  <2>10. taken' \in Seq(Tasks) /\ submitted' \in SUBSET Tasks
    BY <1>2, <2>1, <2>5, <2>6
  <2>11. \A q \in Procs \ {p} : InReach(q)'
    BY <1>2, <1>4, <1>6, ReachElsewhere, DequeTyped DEF DequeUseInv
  <2> QED
    BY <1>1, <1>5, <2>3, <2>7, <2>8, <2>9, <2>10, <2>11 DEF DequeUseInv
<1> QED
  BY <1>2, <1>7, <1>8

-----------------------------------------------------------------------------
(* Steps that move a task, or may.                                            *)

\* Producers of the same deque exclude each other.
LEMMA OneProducer ==
  ASSUME DequeUseInv, NEW p \in Procs, NEW q \in Procs, q # p, op[p].pc \in PushPcs, op[q].pc \in PushPcs
  PROVE  op[q].d # op[p].d
BY DEF DequeUseInv, CallTrue

\* Who else is at the deque of a push or a pop is neither.
LEMMA AloneAtBottom ==
  ASSUME DequeUseInv, NEW p \in Procs, NEW q \in Procs, q # p, op[p].pc \in PushPcs \cup PopPcs,
         op[q].pc \in PushPcs \cup PopPcs
  PROVE  op[q].d # op[p].d
<1>1. CASE op[p].pc \in PopPcs
  BY <1>1, BottomApart
<1>2. CASE op[q].pc \in PopPcs
  BY <1>2, BottomApart
<1>3. CASE op[p].pc \in PushPcs /\ op[q].pc \in PushPcs
  BY <1>3, OneProducer
<1> QED
  BY <1>1, <1>2, <1>3

\* The calls of others, when p moves bottom or the lock.
LEMMA BottomMoves ==
  ASSUME DequeUseInv, NEW p \in Procs, NEW q \in Procs \ {p}, op[p].pc \in PushPcs \cup PopPcs, op'[q] = op[q],
         UNCHANGED <<top, array, buf>>,
         \A e \in Deques \ {op[p].d} : bottom'[e] = bottom[e] /\ ownerLock'[e] = ownerLock[e]
  PROVE  CallTrue(q)' /\ Load(q)' = Load(q)
<1>1. CallTrue(q) /\ op[q].d \in Deques
  BY CallTyped
<1>2. CASE op[q].d # op[p].d
  BY <1>1, <1>2, ElsewhereTrue
<1>3. CASE op[q].d = op[p].d
  <2>1. op[q].pc \notin PushPcs \cup PopPcs
    BY <1>3, AloneAtBottom
  <2>2. Load(q)' = Load(q)
    BY <2>1 DEF Load, PushPcs, PopPcs
  <2>3. CallTrue(q)'
    BY <1>1, <2>1 DEF CallTrue, PushPcs, PopPcs, LoweredPcs, Slot
  <2> QED
    BY <2>2, <2>3
<1> QED
  BY <1>2, <1>3

\* The calls of others, when p moves top, except a pop of the same deque.
LEMMA TopMoves ==
  ASSUME DequeUseInv, NEW p \in Procs, NEW q \in Procs \ {p}, op'[q] = op[q], NEW d \in Deques,
         UNCHANGED <<bottom, array, buf, ownerLock>>, top'[d] = top[d] + 1,
         \A e \in Deques \ {d} : top'[e] = top[e],
         op[q].d # d \/ op[q].pc \notin PopPcs
  PROVE  CallTrue(q)' /\ Load(q)' = Load(q)
<1>1. CallTrue(q) /\ op[q].d \in Deques /\ op[q].t \in Int /\ op[q].b \in Int /\ top[op[q].d] \in Int
      /\ Cap[array[op[q].d]] \in Nat
  BY CallTyped
<1>2. CASE op[q].d # d
  BY <1>1, <1>2, ElsewhereTrue
<1>3. CASE op[q].d = d
  <2>1. op[q].pc \notin PopPcs
    BY <1>3
  <2>2. Load(q)' = Load(q)
    BY <2>1 DEF Load, PopPcs
  <2>3. op[q].pc \in {"steal_bottom", "steal_read", "steal_cas"} => op[q].t <= top[d]
    BY <1>1, <1>3 DEF CallTrue
  <2>4. op[q].pc = "push_write" => op[q].t <= top[d]
    BY <1>1, <1>3 DEF CallTrue
  <2>5. op[q].pc = "push_publish" => op[q].b - (top[d] + 1) < Cap[array[d]]
    BY <1>1, <1>3 DEF CallTrue
  <2>6. CallTrue(q)'
    BY <1>1, <1>3, <2>1, <2>3, <2>4, <2>5 DEF CallTrue, PushPcs, PopPcs, LoweredPcs, Slot
  <2> QED
    BY <2>2, <2>6
<1> QED
  BY <1>2, <1>3

\* A thief that was behind top, or level with it, is behind it once it moved.
LEMMA TopLeavesBehind ==
  ASSUME DequeUseInv, NEW p \in Procs, \A r \in Procs \ {p} : op'[r] = op[r], NEW d \in Deques,
         UNCHANGED bottom, top'[d] = top[d] + 1, \A e \in Deques \ {d} : top'[e] = top[e],
         op[p].d = d \/ op[p].pc \notin PopPcs
  PROVE  \A q \in Procs \ {p} : InReach(q)'
<1> SUFFICES ASSUME NEW q \in Procs \ {p} PROVE InReach(q)'
  OBVIOUS
<1>1. CallTrue(q) /\ op[q].t \in Int /\ top[op[q].d] \in Int
  BY CallTyped
<1>2. PICK e \in Deques : op[q].d = e
  BY CallTyped
<1>3. CASE e = d
  <2>1. op[q].pc \in {"steal_read", "steal_cas"} => op[q].t # top[d] + 1
    BY <1>1, <1>2, <1>3 DEF CallTrue
  <2> QED
    BY <1>2, <1>3, <2>1 DEF InReach
<1>4. CASE e # d
  <2>1. \A i \in Int : ~Contends(p, e, i)
    BY <1>4 DEF Contends, PopPcs
  <2> QED
    BY <1>2, <1>4, <2>1, ReachElsewhere
<1> QED
  BY <1>3, <1>4

\* A push that begins when nobody pops the deque.
LEMMA PushBeginKeeps ==
  ASSUME DequeUseInv, NEW d \in Deques, NEW p \in Procs, NEW task \in Tasks \ submitted, ~Popping(d),
         PushBegin(p, d, task), submitted' = submitted \cup {task}, UNCHANGED <<use, taken>>
  PROVE  DequeUseInv'
<1>1. DequeTypeOK'
  BY DequeType DEF DequeUseInv, DequeAction
<1>2. /\ op[p].pc = "idle" /\ ownerLock[d] = NoProc /\ ownerLock' = [ownerLock EXCEPT ![d] = p]
      /\ op' = [op EXCEPT ![p] = [IdleOp EXCEPT !.pc = "push_top", !.d = d, !.b = bottom[d], !.task = task]]
      /\ UNCHANGED <<top, bottom, array, buf>>
  BY DEF PushBegin, At
<1>3. op'[p].pc = "push_top" /\ op'[p].d = d /\ op'[p].b = bottom[d] /\ op'[p].task = task
  BY <1>2, CallTyped, FreshCall
<1>4. \A q \in Procs \ {p} : op'[q] = op[q]
  BY <1>2, CallTyped
<1>5. ownerLock'[d] = p /\ \A e \in Deques \ {d} : ownerLock'[e] = ownerLock[e]
  BY <1>2 DEF DequeUseInv, DequeTypeOK
<1>6. CallTrue(p)'
  BY <1>2, <1>3, <1>5 DEF CallTrue, PushPcs, LoweredPcs
<1>7. ASSUME NEW q \in Procs \ {p} PROVE CallTrue(q)' /\ Load(q)' = Load(q)
  <2>1. op'[q] = op[q] /\ CallTrue(q) /\ op[q].d \in Deques
    BY <1>4, CallTyped
  <2>2. op[q].pc \in PushPcs => op[q].d # d
    BY <1>2, <2>1, DequeAssumption DEF CallTrue
  <2>3. op[q].pc \in PushPcs => ownerLock'[op[q].d] = ownerLock[op[q].d]
    BY <1>5, <2>1, <2>2
  <2> QED
    BY <1>2, <2>1, <2>3, ElsewhereTrue
<1>8. Load(p) = {} /\ Load(p)' = {task}
  BY <1>2, <1>3 DEF Load, PushPcs
<1>9. Placed'
  BY <1>2, <1>7, <1>8, QueuesUnchanged, TaskSubmitted DEF DequeUseInv
<1>10. \A e \in Deques : Bounded(e)'
  <2>1. op[p].pc \notin LoweredPcs
    BY <1>2 DEF LoweredPcs
  <2>2. ASSUME NEW q \in Procs, op[q].pc \in LoweredPcs PROVE op'[q] = op[q]
    BY <1>4, <2>1, <2>2
  <2> SUFFICES ASSUME NEW e \in Deques PROVE Bounded(e)'
    OBVIOUS
  <2>3. Bounded(e)
    BY DEF DequeUseInv
  <2>4. \A q \in Procs : op[q].d = e /\ op[q].pc \in LoweredPcs => op'[q].d = e /\ op'[q].pc \in LoweredPcs
    BY <2>2
  <2> QED
    BY <1>2, <2>3, <2>4 DEF Bounded
<1>11. PopsApart'
  <2>1. \A q \in Procs : op[q].pc \in PopPcs => op[q].d # d
    BY DEF Popping
  <2>2. \A q \in Procs \ {p} : op[q].pc \in PopPcs => ownerLock'[op[q].d] = ownerLock[op[q].d]
    BY <1>5, <2>1, CallTyped
  <2> QED
    BY <1>3, <1>4, <2>2, ApartKept DEF PopPcs
<1>12. submitted' \in SUBSET Tasks /\ taken' \in Seq(Tasks)
  BY DEF DequeUseInv
<1>13. \A q \in Procs : InReach(q)'
  <2>1. InReach(p)'
    BY <1>3 DEF InReach
  <2>2. \A e, i : ~Contends(p, e, i)
    BY <1>2 DEF Contends
  <2>3. \A q \in Procs \ {p} : InReach(q)'
    BY <1>2, <1>4, <2>2, ReachElsewhere, CallTyped
  <2> QED
    BY <2>1, <2>3
<1> QED
  BY <1>1, <1>6, <1>7, <1>9, <1>10, <1>11, <1>12, <1>13 DEF DequeUseInv

\* The thieves at a deque whose array grows or whose free slot is written.
LEMMA ThiefTrue ==
  ASSUME DequeUseInv, NEW q \in Procs, op'[q] = op[q], op[q].pc \notin PushPcs \cup PopPcs,
         UNCHANGED <<top, bottom>>, QueuesSame,
         \A r \in Procs : op[r].pc \in PopPcs => op[r].d # op[q].d
  PROVE  CallTrue(q)' /\ Load(q)' = Load(q)
<1>1. CallTrue(q) /\ InReach(q) /\ op[q].d \in Deques /\ op[q].t \in Int /\ top[op[q].d] \in Int
  BY CallTyped
<1>2. Load(q)' = Load(q)
  BY DEF Load, PopPcs, PushPcs
<1>3. CASE op[q].pc = "steal_cas"
  <2>1. \A r \in Procs : ~Contends(r, op[q].d, op[q].t)
    BY DEF Contends, PopPcs
  <2>2. op[q].t = top[op[q].d] => op[q].t < bottom[op[q].d]
    BY <1>1, <1>3, <2>1 DEF InReach
  <2>3. op[q].t = top[op[q].d] => Live(op[q].d, op[q].t) /\ Slot(op[q].d, op[q].t)' = Slot(op[q].d, op[q].t)
    BY <1>1, <2>2 DEF Live, QueuesSame
  <2> QED
    BY <1>1, <1>2, <1>3, <2>3 DEF CallTrue, PushPcs, LoweredPcs
<1>4. CASE op[q].pc # "steal_cas"
  BY <1>1, <1>2, <1>4 DEF CallTrue, PushPcs, LoweredPcs, PopPcs
<1> QED
  BY <1>3, <1>4

LEMMA PushWriteKeeps ==
  ASSUME DequeUseInv, NEW p \in Procs, PushWrite(p), UNCHANGED <<use, submitted, taken>>
  PROVE  DequeUseInv' /\ QueuesSame
<1>0. PICK d \in Deques, b \in Int, t \in Int, g \in Gens, x \in AnyTask :
        op[p].d = d /\ op[p].b = b /\ op[p].t = t /\ array[d] = g /\ op[p].task = x
  BY CallTyped
<1>1. DequeTypeOK'
  BY DequeType DEF DequeUseInv, DequeAction, DequeStep
<1>2. /\ op[p].pc = "push_write" /\ op' = [op EXCEPT ![p].pc = "push_publish"]
      /\ UNCHANGED <<top, bottom, ownerLock>>
  BY DEF PushWrite, At, Goto
<1>3. op'[p].pc = "push_publish" /\ op'[p].d = d /\ op'[p].b = b /\ op'[p].task = x
  BY <1>0, <1>2, CallTyped DEF Ops
<1>4. \A q \in Procs \ {p} : op'[q] = op[q]
  BY <1>0, <1>2, CallTyped
<1>5. /\ d \in Deques /\ b \in Int /\ t \in Int /\ g \in Gens /\ x \in AnyTask
      /\ top[d] \in Int /\ Cap[g] \in Nat \ {0}
      /\ ownerLock[d] = p /\ b = bottom[d] /\ t <= top[d] /\ b - t <= Cap[g] /\ top[d] <= b
  <2>1. top[d] <= bottom[d]
    BY <1>0, <1>2, NoPopThere DEF PushPcs
  <2>2. CallTrue(p)
    BY DEF DequeUseInv
  <2>3. ownerLock[d] = p /\ b = bottom[d] /\ t <= top[d] /\ b - t <= Cap[g]
    BY <1>0, <1>2, <2>2 DEF CallTrue, PushPcs
  <2> QED
    BY <1>0, <2>1, <2>3, CallTyped
<1>6. /\ array \in [Deques -> Gens] /\ array' \in [Deques -> Gens]
      /\ buf \in [Deques -> [Gens -> [Slots -> AnyTask]]] /\ buf' \in [Deques -> [Gens -> [Slots -> AnyTask]]]
  BY <1>0, <1>1 DEF DequeUseInv, DequeTypeOK, AnyTask
<1>7. /\ \A e \in Deques \ {d} : array'[e] = array[e] /\ buf'[e] = buf[e]
      /\ \A i \in Int : Live(d, i) => Slot(d, i)' = Slot(d, i)
      /\ Slot(d, b)' = x
      /\ b - top[d] < Cap[array'[d]] /\ Cap[array'[d]] \in Nat /\ Cap[array'[d]] >= Cap[g]
  <2>1. CASE MustGrow(b, t, g)
    <3>1. /\ g < MaxGrow /\ array' = [array EXCEPT ![d] = g + 1]
          /\ buf' = [buf EXCEPT ![d][g + 1] = [Copied(d, g, b, t) EXCEPT ![b % Cap[g + 1]] = x]]
      BY <1>0, <2>1 DEF PushWrite
    <3>2. g + 1 \in Gens /\ Cap[g + 1] = 2 * Cap[g] /\ Cap[g + 1] \in Nat \ {0}
      BY <1>0, <1>5, <3>1, Capacities
    <3>3. array'[d] = g + 1 /\ \A e \in Deques \ {d} : array'[e] = array[e] /\ buf'[e] = buf[e]
      BY <1>0, <1>5, <1>6, <3>1, <3>2
    <3>4. buf'[d][g + 1] = [Copied(d, g, b, t) EXCEPT ![b % Cap[g + 1]] = x]
      BY <1>0, <1>5, <1>6, <3>1, <3>2
    <3>5. b % Cap[g + 1] \in Slots
      BY <1>0, <1>5, <3>2, MaskedIndex
    <3>6. Slot(d, b)' = x
      BY <1>0, <3>3, <3>4, <3>5 DEF Slot, Copied
    <3>7. ASSUME NEW i \in Int, Live(d, i) PROVE Slot(d, i)' = Slot(d, i)
      <4>1. top[d] <= i /\ i < b /\ b - i < Cap[g + 1]
        BY <1>0, <1>5, <3>2, <3>7 DEF Live
      <4>2. i % Cap[g + 1] # b % Cap[g + 1]
        BY <1>0, <1>5, <3>2, <4>1, MaskedApart
      <4>3. i % Cap[g + 1] \in Slots
        BY <3>2, MaskedIndex
      <4>4. i \in t..b - 1
        BY <1>0, <1>5, <4>1
      <4>5. Copied(d, g, b, t)[i % Cap[g + 1]] = buf[d][g][i % Cap[g]]
        BY <1>0, <1>5, <3>1, <4>4, CopiedSlot
      <4>6. buf'[d][g + 1][i % Cap[g + 1]] = Copied(d, g, b, t)[i % Cap[g + 1]]
        BY <3>4, <4>2, <4>3 DEF Copied
      <4> QED
        BY <1>0, <3>3, <4>5, <4>6 DEF Slot
    <3>8. b - top[d] < Cap[g + 1] /\ Cap[g + 1] >= Cap[g]
      BY <1>0, <1>5, <3>2
    <3> QED
      BY <3>2, <3>3, <3>6, <3>7, <3>8
  <2>2. CASE ~MustGrow(b, t, g)
    <3>1. array' = array /\ buf' = [buf EXCEPT ![d][g][b % Cap[g]] = x]
      BY <1>0, <2>2 DEF PushWrite
    <3>2. b % Cap[g] \in Slots
      BY <1>0, <1>5, MaskedIndex
    <3>3. \A e \in Deques \ {d} : buf'[e] = buf[e]
      BY <1>0, <1>6, <3>1
    <3>4. buf'[d][g][b % Cap[g]] = x
      BY <1>0, <1>5, <1>6, <3>1, <3>2
    <3>5. b - t < Cap[g]
      BY <1>0, <1>5, <2>2 DEF MustGrow
    <3>6. ASSUME NEW i \in Int, Live(d, i) PROVE Slot(d, i)' = Slot(d, i)
      <4>1. i < b /\ b - i < Cap[g]
        BY <1>0, <1>5, <3>5, <3>6 DEF Live
      <4>2. i % Cap[g] # b % Cap[g]
        BY <1>0, <1>5, <4>1, MaskedApart
      <4>3. i % Cap[g] \in Slots
        BY <1>0, <1>5, MaskedIndex
      <4>4. buf'[d][g][i % Cap[g]] = buf[d][g][i % Cap[g]]
        BY <1>0, <1>5, <1>6, <3>1, <3>2, <4>2, <4>3
      <4> QED
        BY <1>0, <3>1, <4>4 DEF Slot
    <3> QED
      BY <1>0, <1>5, <3>1, <3>3, <3>4, <3>5, <3>6 DEF Slot
  <2> QED
    BY <2>1, <2>2
<1>8. QueuesSame
  <2> SUFFICES ASSUME NEW e \in Deques, NEW i \in Int
               PROVE  (Live(e, i)' <=> Live(e, i)) /\ (Live(e, i) => Slot(e, i)' = Slot(e, i))
    BY DEF QueuesSame
  <2>1. CASE e = d
    BY <1>0, <1>2, <1>7, <2>1 DEF Live
  <2>2. CASE e # d
    BY <1>0, <1>2, <1>7, <2>2 DEF Live, Slot
  <2> QED
    BY <2>1, <2>2
<1>9. CallTrue(p)'
  BY <1>0, <1>2, <1>3, <1>5, <1>7 DEF CallTrue, PushPcs, LoweredPcs
<1>10. \A r \in Procs : op[r].pc \in PopPcs => op[r].d # d
  BY <1>0, <1>2, NoPopThere DEF PushPcs
<1>11. ASSUME NEW q \in Procs \ {p} PROVE CallTrue(q)' /\ Load(q)' = Load(q)
  <2>1. op[q].d \in Deques /\ CallTrue(q) /\ op'[q] = op[q]
    BY <1>4, CallTyped
  <2>2. CASE op[q].d # d
    BY <1>2, <1>7, <2>1, <2>2, ElsewhereTrue
  <2>3. CASE op[q].d = d
    <3>1. op[q].pc \notin PushPcs \cup PopPcs
      BY <1>0, <1>2, <2>3, AloneAtBottom DEF PushPcs
    <3> QED
      BY <1>2, <1>8, <1>10, <2>1, <2>3, <3>1, ThiefTrue
  <2> QED
    BY <2>2, <2>3
<1>12. Load(p)' = Load(p)
  BY <1>0, <1>2, <1>3 DEF Load, PushPcs
<1>13. Placed'
  BY <1>0, <1>8, <1>11, <1>12, NothingMoves DEF DequeUseInv
<1>14. \A e \in Deques : Bounded(e)'
  <2>1. \A e \in Deques \ {d} : Bounded(e)'
    BY <1>0, <1>2, <1>4, <1>7, BoundsElsewhere
  <2>2. Bounded(d)'
    BY <1>2, <1>5, <1>7 DEF Bounded
  <2> QED
    BY <2>1, <2>2
<1>15. PopsApart'
  BY <1>2, <1>3, <1>4, ApartKept DEF PopPcs
<1>16. \A q \in Procs : InReach(q)'
  <2>1. InReach(p)'
    BY <1>3 DEF InReach
  <2>2. \A e, i : ~Contends(p, e, i)
    BY <1>2 DEF Contends
  <2>3. \A q \in Procs \ {p} : InReach(q)'
    BY <1>2, <1>4, <2>2, ReachElsewhere, CallTyped
  <2> QED
    BY <2>1, <2>3
<1> QED
  BY <1>1, <1>8, <1>9, <1>11, <1>13, <1>14, <1>15, <1>16 DEF DequeUseInv

LEMMA PushPublishKeeps ==
  ASSUME DequeUseInv, NEW p \in Procs, PushPublish(p), UNCHANGED <<use, submitted, taken>>
  PROVE  DequeUseInv'
<1>0. PICK d \in Deques, b \in Int, x \in AnyTask : op[p].d = d /\ op[p].b = b /\ op[p].task = x
  BY CallTyped
<1>1. DequeTypeOK'
  BY DequeType DEF DequeUseInv, DequeAction, DequeStep
<1>2. /\ op[p].pc = "push_publish" /\ op' = [op EXCEPT ![p] = IdleOp]
      /\ bottom' = [bottom EXCEPT ![d] = b + 1] /\ ownerLock' = [ownerLock EXCEPT ![d] = NoProc]
      /\ UNCHANGED <<top, array, buf>>
  BY <1>0 DEF PushPublish, At
<1>3. op'[p].pc = "idle" /\ \A q \in Procs \ {p} : op'[q] = op[q]
  BY <1>2, CallTyped, FreshCall
<1>4. /\ top[d] \in Int /\ Cap[array[d]] \in Nat /\ b = bottom[d]
      /\ b - top[d] < Cap[array[d]] /\ Slot(d, b) = x /\ top[d] <= bottom[d]
  <2>1. CallTrue(p) /\ top[d] \in Int /\ Cap[array[d]] \in Nat
    BY <1>0, CallTyped
  <2>2. top[d] <= bottom[d]
    BY <1>0, <1>2, NoPopThere DEF PushPcs
  <2> QED
    BY <1>0, <1>2, <2>1, <2>2 DEF CallTrue, PushPcs
<1>5. bottom'[d] = b + 1 /\ \A e \in Deques \ {d} : bottom'[e] = bottom[e] /\ ownerLock'[e] = ownerLock[e]
  BY <1>2 DEF DequeUseInv, DequeTypeOK
<1>6. Load(p) = {x} /\ Load(p)' = {}
  BY <1>0, <1>2, <1>3 DEF Load, PushPcs
<1>7. x \in Tasks
  BY <1>6, InCall DEF DequeUseInv
<1>8. \A r \in Procs : op[r].pc \in PopPcs => op[r].d # d
  BY <1>0, <1>2, NoPopThere DEF PushPcs
<1>9. ASSUME NEW q \in Procs \ {p} PROVE CallTrue(q)' /\ Load(q)' = Load(q)
  <2>1. op[p].pc \in PushPcs \cup PopPcs
    BY <1>2 DEF PushPcs
  <2> QED
    BY <1>0, <1>2, <1>3, <1>5, <2>1, BottomMoves
<1>10. ~Live(d, b) /\ Live(d, b)' /\ Slot(d, b)' = x
  BY <1>2, <1>4, <1>5 DEF Live, Slot
<1>11. ASSUME NEW e \in Deques, NEW j \in Int, e # d \/ j # b
       PROVE  (Live(e, j)' <=> Live(e, j)) /\ (Live(e, j) => Slot(e, j)' = Slot(e, j))
  BY <1>2, <1>4, <1>5, <1>11 DEF Live, Slot
<1>12. Placed'
  BY <1>6, <1>7, <1>9, <1>10, <1>11, TaskQueued DEF DequeUseInv
<1>13. CallTrue(p)'
  BY <1>3 DEF CallTrue, PushPcs, LoweredPcs
<1>14. \A e \in Deques : Bounded(e)'
  <2>1. \A e \in Deques \ {d} : Bounded(e)'
    BY <1>0, <1>2, <1>3, <1>5, BoundsElsewhere
  <2>2. Bounded(d)'
    BY <1>2, <1>4, <1>5 DEF Bounded
  <2> QED
    BY <2>1, <2>2
<1>15. PopsApart'
  <2>1. \A q \in Procs \ {p} : op[q].pc \in PopPcs => ownerLock'[op[q].d] = ownerLock[op[q].d]
    BY <1>5, <1>8, CallTyped
  <2> QED
    BY <1>3, <2>1, ApartKept DEF PopPcs
<1>16. ASSUME NEW q \in Procs PROVE InReach(q)'
  <2>1. CASE q = p
    BY <1>3, <2>1 DEF InReach
  <2>2. CASE q # p
    <3>1. PICK e \in Deques : op[q].d = e
      BY CallTyped
    <3>2. CASE e = d
      <4>1. \A r \in Procs : ~Contends(r, d, op[q].t)
        BY <1>8 DEF Contends, PopPcs
      <4>2. InReach(q) /\ op[q].t \in Int /\ op'[q] = op[q]
        BY <1>3, <2>2, CallTyped
      <4>3. op[q].pc \in {"steal_read", "steal_cas"} /\ op[q].t = top[d] => op[q].t < bottom'[d]
        BY <1>4, <1>5, <3>1, <3>2, <4>1, <4>2 DEF InReach
      <4> QED
        BY <1>2, <3>1, <3>2, <4>2, <4>3 DEF InReach
    <3>3. CASE e # d
      <4>1. \A i : ~Contends(p, e, i)
        BY <1>2 DEF Contends
      <4> QED
        BY <1>2, <1>3, <1>5, <2>2, <3>1, <3>3, <4>1, ReachElsewhere
    <3> QED
      BY <3>2, <3>3
  <2> QED
    BY <2>1, <2>2
<1> QED
  BY <1>1, <1>9, <1>12, <1>13, <1>14, <1>15, <1>16 DEF DequeUseInv

LEMMA PopStoreKeeps ==
  ASSUME DequeUseInv, NEW p \in Procs, PopStore(p), UNCHANGED <<use, submitted, taken>>
  PROVE  DequeUseInv'
<1>0. PICK d \in Deques, b \in Int : op[p].d = d /\ op[p].b = b
  BY CallTyped
<1>1. DequeTypeOK'
  BY DequeType DEF DequeUseInv, DequeAction, DequeStep
<1>2. /\ op[p].pc = "pop_store" /\ op' = [op EXCEPT ![p].pc = "pop_array"]
      /\ bottom' = [bottom EXCEPT ![d] = b] /\ UNCHANGED <<top, array, buf, ownerLock>>
  BY <1>0 DEF PopStore, At, Goto
<1>3. op'[p].pc = "pop_array" /\ op'[p].d = d /\ op'[p].b = b /\ \A q \in Procs \ {p} : op'[q] = op[q]
  BY <1>0, <1>2, CallTyped DEF Ops
<1>4. op[p].pc \in PopPcs
  BY <1>2 DEF PopPcs
<1>5. /\ top[d] \in Int /\ bottom[d] \in Int /\ Cap[array[d]] \in Nat /\ b = bottom[d] - 1
      /\ top[d] <= bottom[d] /\ bottom[d] - top[d] <= Cap[array[d]]
  <2>1. \A q \in Procs : op[q].pc \in LoweredPcs => op[q].d # d
    <3> SUFFICES ASSUME NEW q \in Procs, op[q].pc \in LoweredPcs PROVE op[q].d # d
      OBVIOUS
    <3>1. q # p /\ op[q].pc \in PopPcs
      BY <1>2 DEF LoweredPcs, PopPcs
    <3> QED
      BY <1>0, <1>4, <3>1, BottomApart
  <2>2. top[d] <= bottom[d]
    BY <2>1, InOrder
  <2>3. b = bottom[d] - 1
    BY <1>0, <1>2, CallTyped DEF CallTrue
  <2> QED
    BY <1>0, <2>2, <2>3, CallTyped
<1>6. bottom'[d] = b /\ \A e \in Deques \ {d} : bottom'[e] = bottom[e]
  BY <1>2 DEF DequeUseInv, DequeTypeOK
<1>7. CallTrue(p)'
  BY <1>2, <1>3, <1>5, <1>6 DEF CallTrue, PushPcs, LoweredPcs
<1>8. \A e \in Deques : Bounded(e)'
  <2>1. \A e \in Deques \ {d} : Bounded(e)'
    BY <1>0, <1>2, <1>3, <1>6, BoundsElsewhere
  <2>2. op'[p].d = d /\ op'[p].pc \in LoweredPcs
    BY <1>3 DEF LoweredPcs
  <2>3. Bounded(d)'
    BY <1>2, <1>5, <1>6, <2>2 DEF Bounded
  <2> QED
    BY <2>1, <2>3
<1>9. ASSUME NEW q \in Procs \ {p} PROVE CallTrue(q)' /\ Load(q)' = Load(q)
  BY <1>0, <1>2, <1>3, <1>4, <1>6, BottomMoves
<1>10. Load(p) = {}
  BY <1>2 DEF Load, PushPcs
<1>11. Placed'
  <2>1. CASE top[d] <= b
    <3>1. PICK x \in AnyTask : Slot(d, b) = x
      BY DequeTyped DEF DequeUseInv
    <3>2. Live(d, b) /\ ~Live(d, b)'
      BY <1>2, <1>5, <1>6, <2>1 DEF Live
    <3>3. Load(p)' = {x}
      BY <1>2, <1>3, <2>1, <3>1 DEF Load, PushPcs, Slot
    <3>4. ASSUME NEW e \in Deques, NEW j \in Int, e # d \/ j # b
          PROVE  (Live(e, j)' <=> Live(e, j)) /\ (Live(e, j) => Slot(e, j)' = Slot(e, j))
      BY <1>2, <1>5, <1>6, <3>4 DEF Live, Slot
    <3> QED
      BY <1>9, <1>10, <3>1, <3>2, <3>3, <3>4, TaskTaken DEF DequeUseInv
  <2>2. CASE ~(top[d] <= b)
    <3>1. Load(p)' = Load(p)
      BY <1>2, <1>3, <1>10, <2>2 DEF Load, PushPcs
    <3>2. QueuesSame
      BY <1>2, <1>5, <1>6, <2>2 DEF QueuesSame, Live, Slot
    <3> QED
      BY <1>9, <3>1, <3>2, NothingMoves DEF DequeUseInv
  <2> QED
    BY <2>1, <2>2
<1>12. PopsApart'
  <2>1. p = use.owner[d] /\ ownerLock[d] = NoProc
    BY <1>0, <1>4, CallTyped
  <2> QED
    BY <1>2, <1>3, <2>1, ApartKept
<1>13. ASSUME NEW q \in Procs PROVE InReach(q)'
  <2>1. CASE q = p
    BY <1>3, <2>1 DEF InReach
  <2>2. CASE q # p
    <3>1. PICK e \in Deques : op[q].d = e
      BY CallTyped
    <3>2. CASE e = d
      <4>1. InReach(q) /\ op[q].t \in Int /\ op'[q] = op[q]
        BY <1>3, <2>2, CallTyped
      <4>2. \A r \in Procs : ~Contends(r, d, op[q].t)
        <5> SUFFICES ASSUME NEW r \in Procs, Contends(r, d, op[q].t) PROVE FALSE
          OBVIOUS
        <5>1. op[r].d = d /\ op[r].pc \in PopPcs /\ r # p
          BY <1>2 DEF Contends, PopPcs
        <5> QED
          BY <1>0, <1>4, <5>1, BottomApart
      <4>3. op[q].pc \in {"steal_read", "steal_cas"} /\ op[q].t = top[d] => op[q].t < b \/ op[q].t = b
        BY <1>5, <3>1, <3>2, <4>1, <4>2 DEF InReach
      <4>4. Contends(p, d, b)'
        BY <1>3 DEF Contends
      <4> QED
        BY <1>2, <1>6, <3>1, <3>2, <4>1, <4>3, <4>4 DEF InReach
    <3>3. CASE e # d
      <4>1. \A i : ~Contends(p, e, i)
        BY <1>2 DEF Contends
      <4> QED
        BY <1>2, <1>3, <1>6, <2>2, <3>1, <3>3, <4>1, ReachElsewhere
    <3> QED
      BY <3>2, <3>3
  <2> QED
    BY <2>1, <2>2
<1> QED
  BY <1>1, <1>7, <1>8, <1>9, <1>11, <1>12, <1>13 DEF DequeUseInv

\* A pop that wins the last task.
LEMMA PopCasKeeps ==
  ASSUME DequeUseInv, NEW p \in Procs, PopCas(p), ~LosesLast(p), UNCHANGED <<use, submitted, taken>>
  PROVE  DequeUseInv'
<1>0. PICK d \in Deques, b \in Int : op[p].d = d /\ op[p].b = b
  BY CallTyped
<1>1. DequeTypeOK'
  BY DequeType DEF DequeUseInv, DequeAction, DequeStep
<1>2. op[p].pc = "pop_cas" /\ UNCHANGED <<bottom, array, buf, ownerLock>>
  BY DEF PopCas, At
<1>3. op[p].t = b /\ top[d] = b /\ bottom[d] = b /\ op[p].task = Slot(d, b)
  BY <1>0, <1>2, CallTyped DEF CallTrue, LoweredPcs, LosesLast, At
<1>4. op' = [op EXCEPT ![p].pc = "pop_won"] /\ top' = [top EXCEPT ![d] = @ + 1]
  BY <1>0, <1>3 DEF PopCas, Goto
<1>5. /\ op'[p].pc = "pop_won" /\ op'[p].d = d /\ op'[p].b = b /\ op'[p].t = b /\ op'[p].task = op[p].task
      /\ \A q \in Procs \ {p} : op'[q] = op[q]
  BY <1>0, <1>3, <1>4, CallTyped DEF Ops
<1>6. top'[d] = b + 1 /\ \A e \in Deques \ {d} : top'[e] = top[e]
  BY <1>3, <1>4 DEF DequeUseInv, DequeTypeOK
<1>7. op[p].pc \in PopPcs
  BY <1>2 DEF PopPcs
<1>8. CallTrue(p)'
  BY <1>2, <1>3, <1>5, <1>6 DEF CallTrue, PushPcs, LoweredPcs
<1>9. \A e \in Deques : Bounded(e)'
  <2>1. \A e \in Deques \ {d} : Bounded(e)'
    BY <1>0, <1>2, <1>5, <1>6, BoundsElsewhere
  <2>2. op'[p].d = d /\ op'[p].pc \in LoweredPcs
    BY <1>5 DEF LoweredPcs
  <2>3. Cap[array[d]] \in Nat
    BY <1>0, CallTyped
  <2>4. Bounded(d)'
    BY <1>2, <1>3, <1>6, <2>2, <2>3 DEF Bounded
  <2> QED
    BY <2>1, <2>4
<1>10. ASSUME NEW q \in Procs \ {p} PROVE CallTrue(q)' /\ Load(q)' = Load(q)
  <2>1. op[q].d # d \/ op[q].pc \notin PopPcs
    BY <1>0, <1>7, BottomApart
  <2> QED
    BY <1>2, <1>3, <1>5, <1>6, <2>1, TopMoves
<1>11. Load(p)' = Load(p)
  BY <1>0, <1>2, <1>3, <1>5 DEF Load, PushPcs
<1>12. QueuesSame
  BY <1>2, <1>3, <1>6 DEF QueuesSame, Live, Slot
<1>13. Placed'
  BY <1>10, <1>11, <1>12, NothingMoves DEF DequeUseInv
<1>14. PopsApart'
  <2>1. p = use.owner[d] /\ ownerLock[d] = NoProc
    BY <1>0, <1>7, CallTyped
  <2> QED
    BY <1>2, <1>5, <2>1, ApartKept
<1>15. \A q \in Procs : InReach(q)'
  <2>1. InReach(p)'
    BY <1>5 DEF InReach
  <2>2. \A q \in Procs \ {p} : InReach(q)'
    BY <1>0, <1>2, <1>3, <1>5, <1>6, TopLeavesBehind
  <2> QED
    BY <2>1, <2>2
<1> QED
  BY <1>1, <1>8, <1>9, <1>10, <1>13, <1>14, <1>15 DEF DequeUseInv

LEMMA PopRestoreKeeps ==
  ASSUME DequeUseInv, NEW p \in Procs, PopRestore(p), UNCHANGED <<use, submitted, taken>>
  PROVE  DequeUseInv'
<1>0. PICK d \in Deques, b \in Int, t \in Int : op[p].d = d /\ op[p].b = b /\ op[p].t = t
  BY CallTyped
<1>1. DequeTypeOK'
  BY DequeType DEF DequeUseInv, DequeAction, DequeStep
<1>2. CallTrue(p) /\ top[d] \in Int /\ Cap[array[d]] \in Nat
  BY <1>0, CallTyped
<1>3. /\ op[p].pc \in {"pop_won", "pop_empty"} /\ UNCHANGED <<top, array, buf, ownerLock>>
      /\ bottom' = [bottom EXCEPT ![d] = IF op[p].pc = "pop_empty" THEN t ELSE t + 1]
      /\ op' = [op EXCEPT ![p].pc = IF op[p].pc = "pop_won" THEN "got" ELSE "none"]
  BY <1>0, <1>2 DEF PopRestore, RestoredBottom, At, Goto, CallTrue
<1>4. bottom[d] = b /\ top[d] = b + 1
  BY <1>0, <1>2, <1>3 DEF CallTrue, LoweredPcs
<1>5. (op[p].pc = "pop_won" => t + 1 = b + 1) /\ (op[p].pc = "pop_empty" => t = b + 1)
  BY <1>0, <1>2, <1>3 DEF CallTrue
<1>6. bottom'[d] = top[d] /\ \A e \in Deques \ {d} : bottom'[e] = bottom[e]
  BY <1>3, <1>4, <1>5 DEF DequeUseInv, DequeTypeOK
<1>7. /\ op'[p].pc = IF op[p].pc = "pop_won" THEN "got" ELSE "none"
      /\ op'[p].task = op[p].task /\ \A q \in Procs \ {p} : op'[q] = op[q]
  BY <1>3, CallTyped DEF Ops
<1>8. op[p].pc \in PopPcs
  BY <1>3 DEF PopPcs
<1>9. op'[p].pc \in {"got", "none"}
  BY <1>7
<1>10. CallTrue(p)' /\ InReach(p)'
  BY <1>9 DEF CallTrue, InReach, PushPcs, LoweredPcs
<1>11. \A e \in Deques : Bounded(e)'
  <2>1. \A e \in Deques \ {d} : Bounded(e)'
    BY <1>0, <1>3, <1>6, <1>7, BoundsElsewhere
  <2>2. Bounded(d)'
    BY <1>2, <1>3, <1>6 DEF Bounded
  <2> QED
    BY <2>1, <2>2
<1>12. ASSUME NEW q \in Procs \ {p} PROVE CallTrue(q)' /\ Load(q)' = Load(q)
  BY <1>0, <1>3, <1>6, <1>7, <1>8, BottomMoves
<1>13. Load(p)' = Load(p)
  <2>1. CASE op[p].pc = "pop_won"
    BY <1>7, <2>1 DEF Load, PushPcs
  <2>2. CASE op[p].pc = "pop_empty"
    BY <1>7, <2>2 DEF Load, PushPcs
  <2> QED
    BY <1>3, <2>1, <2>2
<1>14. QueuesSame
  BY <1>3, <1>4, <1>6 DEF QueuesSame, Live, Slot
<1>15. Placed'
  BY <1>12, <1>13, <1>14, NothingMoves DEF DequeUseInv
<1>16. PopsApart'
  BY <1>3, <1>7, <1>9, ApartKept DEF PopPcs
<1>17. ASSUME NEW q \in Procs \ {p} PROVE InReach(q)'
  <2>1. PICK e \in Deques : op[q].d = e
    BY CallTyped
  <2>2. CASE e = d
    <3>1. InReach(q) /\ op[q].t \in Int
      BY CallTyped
    <3>2. ASSUME NEW r \in Procs, Contends(r, d, op[q].t), op[q].t = top[d] PROVE FALSE
      <4>1. op[r].d = d /\ op[r].pc \in PopPcs /\ r # p
        BY <1>3, <3>2 DEF Contends, PopPcs
      <4> QED
        BY <1>0, <1>8, <4>1, BottomApart
    <3>3. ~(op[q].pc \in {"steal_read", "steal_cas"} /\ op[q].t = top[d])
      BY <1>4, <2>1, <2>2, <3>1, <3>2 DEF InReach
    <3> QED
      BY <1>3, <1>7, <2>1, <2>2, <3>3 DEF InReach
  <2>3. CASE e # d
    <3>1. \A i : ~Contends(p, e, i)
      BY <1>3 DEF Contends
    <3> QED
      BY <1>3, <1>6, <1>7, <2>1, <2>3, <3>1, ReachElsewhere
  <2> QED
    BY <2>2, <2>3
<1> QED
  BY <1>1, <1>10, <1>11, <1>12, <1>15, <1>16, <1>17 DEF DequeUseInv


\* A thief that wins: the pop of the same deque was after another task, or is
\* too late.
LEMMA StealCasKeeps ==
  ASSUME DequeUseInv, NEW p \in Procs, StealCas(p), UNCHANGED <<use, submitted, taken>>
  PROVE  DequeUseInv'
<1>0. PICK d \in Deques, t \in Int, x \in AnyTask : op[p].d = d /\ op[p].t = t /\ op[p].task = x
  BY CallTyped
<1>1. DequeTypeOK'
  BY DequeType DEF DequeUseInv, DequeAction, DequeStep
<1>2. op[p].pc = "steal_cas" /\ UNCHANGED <<bottom, array, buf, ownerLock>>
  BY DEF StealCas, At
<1>3. CallTrue(p) /\ InReach(p) /\ top[d] \in Int /\ bottom[d] \in Int /\ Cap[array[d]] \in Nat
  BY <1>0, CallTyped
<1>4. op[p].pc \notin PopPcs \cup LoweredPcs /\ \A e, i : ~Contends(p, e, i)
  BY <1>2 DEF PopPcs, LoweredPcs, Contends
<1>5. CASE top[d] # t
  <2>1. op' = [op EXCEPT ![p].pc = "none"] /\ top' = top
    BY <1>0, <1>5 DEF StealCas, Goto
  <2>2. op'[p].pc = "none" /\ \A q \in Procs \ {p} : op'[q] = op[q]
    BY <2>1, CallTyped DEF Ops
  <2>3. CallTrue(p)' /\ Load(p)' = Load(p) /\ InReach(p)'
    BY <1>2, <2>2 DEF CallTrue, Load, InReach, PushPcs, LoweredPcs
  <2> QED
    BY <1>1, <1>2, <1>4, <2>1, <2>2, <2>3, OwnStep DEF PopPcs
<1>6. CASE top[d] = t
  <2>1. op' = [op EXCEPT ![p].pc = "got"] /\ top' = [top EXCEPT ![d] = @ + 1]
    BY <1>0, <1>6 DEF StealCas, Goto
  <2>2. op'[p].pc = "got" /\ op'[p].task = x /\ \A q \in Procs \ {p} : op'[q] = op[q]
    BY <1>0, <2>1, CallTyped DEF Ops
  <2>3. top'[d] = t + 1 /\ \A e \in Deques \ {d} : top'[e] = top[e]
    BY <1>6, <2>1 DEF DequeUseInv, DequeTypeOK
  <2>4. Slot(d, t) = x
    BY <1>0, <1>2, <1>3, <1>6 DEF CallTrue
  <2>5. CallTrue(p)' /\ InReach(p)'
    BY <2>2 DEF CallTrue, InReach, PushPcs, LoweredPcs
  <2>6. Load(p) = {} /\ Load(p)' = {x}
    BY <1>2, <2>2 DEF Load, PushPcs
  <2>7. ASSUME NEW q \in Procs \ {p}, op[q].d # d \/ op[q].pc \notin PopPcs
        PROVE  CallTrue(q)' /\ Load(q)' = Load(q)
    BY <1>2, <1>6, <2>2, <2>3, <2>7, TopMoves
  <2>8. /\ \A e \in Deques \ {d} : Bounded(e)'
        /\ PopsApart'
        /\ \A q \in Procs : InReach(q)'
    <3>1. \A e \in Deques \ {d} : Bounded(e)'
      BY <1>2, <1>4, <2>2, <2>3, BoundsElsewhere
    <3>2. PopsApart'
      BY <1>2, <2>2, ApartKept DEF PopPcs
    <3>3. \A q \in Procs \ {p} : InReach(q)'
      BY <1>2, <1>4, <1>6, <2>2, <2>3, TopLeavesBehind
    <3> QED
      BY <2>5, <3>1, <3>2, <3>3
  <2>9. ASSUME \A q \in Procs \ {p} : CallTrue(q)', Placed', Bounded(d)' PROVE DequeUseInv'
    <3>1. submitted' \in SUBSET Tasks /\ taken' \in Seq(Tasks)
      BY DEF DequeUseInv
    <3>2. \A q \in Procs : CallTrue(q)'
      BY <2>5, <2>9
    <3>3. \A e \in Deques : Bounded(e)'
      BY <2>8, <2>9
    <3> QED
      BY <1>1, <2>8, <2>9, <3>1, <3>2, <3>3 DEF DequeUseInv
  <2>10. CASE t < bottom[d]
    <3>1. ASSUME NEW q \in Procs \ {p} PROVE CallTrue(q)' /\ Load(q)' = Load(q)
      <4>1. CASE op[q].d # d \/ op[q].pc \notin PopPcs
        BY <2>7, <4>1
      <4>2. CASE op[q].d = d /\ op[q].pc \in PopPcs
        <5>1. CallTrue(q) /\ op[q].b \in Int /\ op[q].t \in Int /\ op'[q] = op[q]
          BY <2>2, CallTyped
        <5>2. op[q].pc \in {"pop_store", "pop_array", "pop_top", "pop_read"}
          BY <1>3, <1>6, <2>10, <4>2, <5>1 DEF CallTrue, PopPcs, LoweredPcs
        <5>3. op[q].pc \in LoweredPcs => t + 1 <= op[q].b
          BY <1>3, <2>10, <4>2, <5>1 DEF CallTrue
        <5>4. Load(q)' = Load(q)
          <6>1. op[q].pc # "pop_store" => op[q].pc \in LoweredPcs
            BY <5>2 DEF LoweredPcs
          <6>2. op[q].pc # "pop_store" => top[d] <= op[q].b /\ top'[d] <= op[q].b
            BY <1>6, <2>3, <5>1, <5>3, <6>1
          <6>3. Slot(d, op[q].b)' = Slot(d, op[q].b)
            BY <1>2, <5>1 DEF Slot
          <6>4. CASE op[q].pc = "pop_store"
            BY <5>1, <6>4 DEF Load, PushPcs
          <6>5. CASE op[q].pc # "pop_store"
            BY <4>2, <5>1, <5>2, <6>2, <6>3, <6>5 DEF Load, PushPcs, Slot
          <6> QED
            BY <6>4, <6>5
        <5>5. CallTrue(q)'
          BY <1>2, <1>6, <2>3, <4>2, <5>1, <5>2, <5>3 DEF CallTrue, LoweredPcs, PushPcs
        <5> QED
          BY <5>4, <5>5
      <4> QED
        BY <4>1, <4>2
    <3>2. Live(d, t) /\ ~Live(d, t)'
      BY <1>2, <1>6, <2>3, <2>10 DEF Live
    <3>3. ASSUME NEW e \in Deques, NEW j \in Int, e # d \/ j # t
          PROVE  (Live(e, j)' <=> Live(e, j)) /\ (Live(e, j) => Slot(e, j)' = Slot(e, j))
      BY <1>2, <1>6, <2>3, <3>3 DEF Live, Slot
    <3>4. Placed'
      BY <2>4, <2>6, <3>1, <3>2, <3>3, TaskTaken DEF DequeUseInv
    <3>5. Bounded(d)'
      <4>1. bottom[d] - top[d] <= Cap[array[d]]
        BY DEF DequeUseInv, Bounded
      <4> QED
        BY <1>2, <1>3, <1>6, <2>3, <2>10, <4>1 DEF Bounded
    <3> QED
      BY <2>9, <3>1, <3>4, <3>5
  <2>11. CASE ~(t < bottom[d])
    <3>1. PICK q \in Procs : Contends(q, d, t)
      BY <1>0, <1>2, <1>3, <1>6, <2>11 DEF InReach
    <3>2. /\ q # p /\ op[q].d = d /\ op[q].b = t /\ op[q].pc \in PopPcs \cap LoweredPcs
          /\ op[q].pc \in {"pop_array", "pop_top", "pop_read", "pop_cas"}
          /\ op[q].pc = "pop_read" => op[q].t = t
      BY <1>4, <3>1 DEF Contends, PopPcs, LoweredPcs
    <3>3. CallTrue(q) /\ op[q].t \in Int /\ op'[q] = op[q]
      BY <2>2, <3>2, CallTyped
    <3>4. bottom[d] = t
      BY <3>2, <3>3 DEF CallTrue
    <3>5. Load(q) = {x} /\ Load(q)' = {}
      <4>1. Load(q) = {x}
        BY <1>6, <2>4, <3>2 DEF Load, PushPcs
      <4>2. Load(q)' = {}
        BY <2>3, <3>2, <3>3 DEF Load, PushPcs
      <4> QED
        BY <4>1, <4>2
    <3>6. CallTrue(q)'
      BY <1>2, <1>6, <2>3, <3>2, <3>3, <3>4 DEF CallTrue, LoweredPcs, PushPcs
    <3>7. \A r \in Procs \ {p, q} : op[r].d # d \/ op[r].pc \notin PopPcs
      BY <3>2, BottomApart
    <3>8. \A r \in Procs \ {p, q} : CallTrue(r)' /\ Load(r)' = Load(r)
      BY <2>7, <3>7
    <3>9. QueuesSame
      BY <1>2, <1>6, <2>3, <3>4 DEF QueuesSame, Live, Slot
    <3>10. Placed'
      BY <2>6, <3>2, <3>5, <3>8, <3>9, TaskPassed DEF DequeUseInv
    <3>11. Bounded(d)'
      <4>1. op'[q].d = d /\ op'[q].pc \in LoweredPcs
        BY <3>2, <3>3
      <4> QED
        BY <1>2, <1>3, <1>6, <2>3, <3>4, <4>1 DEF Bounded
    <3> QED
      BY <2>9, <3>6, <3>8, <3>10, <3>11
  <2> QED
    BY <2>10, <2>11
<1> QED
  BY <1>5, <1>6

-----------------------------------------------------------------------------
(* The invariant is kept until the first clash, and what follows from it.     *)

LEMMA DequeUseInit ==
  Init => DequeUseInv /\ clashed = FALSE
<1> SUFFICES ASSUME Init PROVE DequeUseInv /\ clashed = FALSE
  OBVIOUS
<1>1. DequeTypeOK
  BY InitDequeType DEF Init
<1>2. /\ submitted = {} /\ taken = <<>> /\ use \in Uses /\ clashed = FALSE
      /\ \A d \in Deques : top[d] = 0 /\ bottom[d] = 0
      /\ \A p \in Procs : op[p].pc = "idle"
  BY DEF Init, DequeInit, IdleOp
<1>3. \A p \in Procs : CallTrue(p) /\ InReach(p) /\ Load(p) = {}
  BY <1>2 DEF CallTrue, InReach, Load, PushPcs, LoweredPcs
<1>4. \A d \in Deques : Bounded(d)
  BY <1>1, <1>2, DequeTyped DEF Bounded
<1>5. PopsApart
  BY <1>2 DEF PopsApart, PopPcs
<1>6. \A t : Queue(t) = {} /\ Calls(t) = {} /\ Takes(t) = {}
  BY <1>2, <1>3 DEF Queue, Live, Calls, Takes
<1>7. Placed
  BY <1>2, <1>6 DEF Placed
<1> QED
  BY <1>1, <1>2, <1>3, <1>4, <1>5, <1>7 DEF DequeUseInv

LEMMA DequeUseStep ==
  ASSUME DequeUseInv, clashed \in BOOLEAN, [Next]_vars, ~clashed'
  PROVE  DequeUseInv' /\ clashed' = clashed
<1>0. /\ use.pushers \subseteq Procs /\ use.thieves \subseteq Procs
  BY UseAssumption DEF DequeUseInv, PopsApart
<1>1. ASSUME NEW d \in Deques, NEW p \in use.pushers, Push(p, d) PROVE DequeUseInv' /\ clashed' = clashed
  <2>1. PICK task \in Tasks \ submitted :
          /\ PushBegin(p, d, task) /\ submitted' = submitted \cup {task} /\ UNCHANGED <<use, taken>>
          /\ clashed' = (clashed \/ Popping(d))
    BY <1>1 DEF Push
  <2> QED
    BY <1>0, <2>1, PushBeginKeeps
<1>2. ASSUME NEW d \in Deques, NEW p \in Procs, p = use.owner[d], Pop(p, d)
      PROVE  DequeUseInv' /\ clashed' = clashed
  <2>1. ownerLock[d] = NoProc /\ clashed' = clashed
    BY <1>2 DEF Pop
  <2> QED
    BY <1>2, <2>1, PopBeginKeeps DEF Pop
<1>3. ASSUME NEW d \in Deques, NEW p \in use.thieves, Steal(p, d) PROVE DequeUseInv' /\ clashed' = clashed
  BY <1>0, <1>3, StealBeginKeeps DEF Steal
<1>4. ASSUME NEW p \in Procs, Step(p) PROVE DequeUseInv' /\ clashed' = clashed
  <2>0. /\ DequeStep(p) /\ UNCHANGED <<use, submitted, taken>>
        /\ ~LosesLast(p) /\ clashed' = clashed
    BY <1>4 DEF Step
  <2>1. CASE PushTop(p)
    BY <2>0, <2>1, PushTopKeeps
  <2>2. CASE PushWrite(p)
    BY <2>0, <2>2, PushWriteKeeps
  <2>3. CASE PushPublish(p)
    BY <2>0, <2>3, PushPublishKeeps
  <2>4. CASE PopStore(p)
    BY <2>0, <2>4, PopStoreKeeps
  <2>5. CASE PopArray(p)
    BY <2>0, <2>5, PopArrayKeeps
  <2>6. CASE PopTop(p)
    BY <2>0, <2>6, PopTopKeeps
  <2>7. CASE PopRead(p)
    BY <2>0, <2>7, PopReadKeeps
  <2>8. CASE PopCas(p)
    BY <2>0, <2>8, PopCasKeeps
  <2>9. CASE PopRestore(p)
    BY <2>0, <2>9, PopRestoreKeeps
  <2>10. CASE StealBottom(p)
    BY <2>0, <2>10, StealBottomKeeps
  <2>11. CASE StealRead(p)
    BY <2>0, <2>11, StealReadKeeps
  <2>12. CASE StealCas(p)
    BY <2>0, <2>12, StealCasKeeps
  <2> QED
    BY <2>0, <2>1, <2>2, <2>3, <2>4, <2>5, <2>6, <2>7, <2>8, <2>9, <2>10, <2>11, <2>12 DEF DequeStep
<1>5. ASSUME NEW p \in Procs, Return(p) PROVE DequeUseInv' /\ clashed' = clashed
  BY <1>5, ReturnKeeps DEF Return
<1>6. CASE UNCHANGED vars
  <2>1. UNCHANGED <<top, bottom, array, buf, ownerLock, op, use, submitted, taken, clashed>>
    BY <1>6 DEF vars, dequeVars
  <2>2. \A p \in Procs : CallTrue(p)' /\ Load(p)' = Load(p)
    BY <2>1, StillTrue DEF DequeUseInv
  <2>3. Placed'
    BY <2>1, <2>2, QueuesUnchanged, NothingMoves DEF DequeUseInv
  <2>4. DequeTypeOK' /\ PopsApart' /\ (\A d \in Deques : Bounded(d)') /\ \A p \in Procs : InReach(p)'
    BY <2>1 DEF DequeUseInv, DequeTypeOK, PopsApart, Bounded, InReach, Contends
  <2> QED
    BY <2>1, <2>2, <2>3, <2>4 DEF DequeUseInv
<1> QED
  BY <1>1, <1>2, <1>3, <1>4, <1>5, <1>6 DEF Next

\* After a clash nothing is claimed, and a clash is not undone.
UnlessClashed == clashed \in BOOLEAN /\ (~clashed => DequeUseInv)

LEMMA ClashStays ==
  ASSUME clashed \in BOOLEAN, [Next]_vars
  PROVE  clashed' \in BOOLEAN /\ (clashed => clashed')
BY DEF Next, Push, Pop, Steal, Step, Return, vars

LEMMA DequeUseIsKept ==
  Spec => []UnlessClashed
<1>1. Init => UnlessClashed
  BY DequeUseInit DEF UnlessClashed
<1>2. UnlessClashed /\ [Next]_vars => UnlessClashed'
  BY DequeUseStep, ClashStays DEF UnlessClashed
<1> QED
  BY <1>1, <1>2, PTL DEF Spec

LEMMA DequeTakesOnce ==
  UnlessClashed => TakenOnce
<1> SUFFICES ASSUME ~clashed, DequeUseInv PROVE TakenOnce
  BY DEF UnlessClashed, TakenOnce
<1>1. Placed /\ taken \in Seq(Tasks) /\ submitted \subseteq Tasks /\ DequeTypeOK
  BY DEF DequeUseInv
<1>2. DOMAIN taken = 1..Len(taken) /\ \A i \in 1..Len(taken) : taken[i] \in Tasks
  BY <1>1
<1>3. ASSUME NEW i \in DOMAIN taken, NEW j \in DOMAIN taken, i # j PROVE taken[i] # taken[j]
  <2> SUFFICES ASSUME taken[i] = taken[j] PROVE FALSE
    OBVIOUS
  <2>1. PICK t \in Tasks : t = taken[i] /\ t = taken[j]
    BY <1>2
  <2>2. i \in Takes(t) /\ j \in Takes(t)
    BY <1>2, <2>1 DEF Takes
  <2>3. t \in submitted
    BY <1>1, <2>2 DEF Placed
  <2>4. OnePlace(t)
    BY <1>1, <2>3 DEF Placed
  <2> QED
    BY <1>3, <2>2, <2>4 DEF OnePlace
<1>4. \A i \in DOMAIN taken : taken[i] # NoTask
  BY <1>2, DequeAssumption
<1>5. ASSUME NEW p \in InHand
      PROVE  /\ op[p].task # NoTask
             /\ \A i \in DOMAIN taken : taken[i] # op[p].task
             /\ \A q \in InHand \ {p} : op[q].task # op[p].task
  <2>1. PICK t \in AnyTask : t = op[p].task
    BY <1>1, DequeTyped DEF InHand, Ops, AnyTask
  <2>2. \A q \in InHand : q \in Procs /\ Load(q) = {op[q].task}
    BY DEF InHand, At, Load
  <2>3. t \in submitted /\ Calls(t) = {p} /\ Takes(t) = {}
    BY <1>1, <2>1, <2>2, InCall
  <2>4. op[p].task # NoTask
    BY <1>1, <2>1, <2>3, DequeAssumption
  <2>5. \A i \in DOMAIN taken : taken[i] # op[p].task
    BY <1>2, <2>1, <2>3 DEF Takes
  <2>6. \A q \in InHand \ {p} : op[q].task # op[p].task
    BY <2>1, <2>2, <2>3 DEF Calls
  <2> QED
    BY <2>4, <2>5, <2>6
<1> QED
  BY <1>3, <1>4, <1>5 DEF TakenOnce

LEMMA DequeLosesNothing ==
  UnlessClashed => NothingLost
<1> SUFFICES ASSUME DequeUseInv, Settled, NEW t \in submitted
             PROVE  t \in Queued \cup {taken[i] : i \in DOMAIN taken}
  BY DEF NothingLost, UnlessClashed
<1>1. OnePlace(t) /\ taken \in Seq(Tasks) /\ DequeTypeOK
  BY DEF DequeUseInv, Placed
<1>2. Calls(t) = {}
  BY DEF Settled, At, Calls, Load, PushPcs
<1>3. CASE \E k \in 1..Len(taken) : Takes(t) = {k}
  BY <1>1, <1>3 DEF Takes
<1>4. CASE \E x \in Deques \X Int : Queue(t) = {x}
  <2>1. PICK d \in Deques, i \in Int : Live(d, i) /\ Slot(d, i) = t
    BY <1>4 DEF Queue
  <2>2. top[d] \in Int /\ bottom[d] \in Int
    BY <1>1, DequeTyped
  <2>3. i - top[d] + 1 \in 1..(bottom[d] - top[d]) /\ top[d] + (i - top[d] + 1) - 1 = i
    BY <2>1, <2>2 DEF Live
  <2>4. i - top[d] + 1 \in DOMAIN Window(d) /\ Window(d)[i - top[d] + 1] = t
    BY <2>1, <2>3 DEF Window, Slot
  <2> QED
    BY <2>4 DEF Queued
<1> QED
  BY <1>1, <1>2, <1>3, <1>4 DEF OnePlace

\* A task that was pushed comes out of deque_pop or deque_steal at most once, and
\* nothing else comes out, whoever pushes, owns and steals, in whatever order the
\* accesses to top, bottom, the array and its slots are made, for any number of
\* threads, tasks and doublings: until a push meets a pop of the same deque, or
\* a pop loses the last task.
THEOREM DequeTakenOnce ==
  Spec => []TakenOnce
BY DequeUseIsKept, DequeTakesOnce, PTL

\* Until then, when no call is in progress each pushed task is in a deque or was
\* taken: none was overwritten or left behind in an array that was outgrown. With
\* the traces of the two clashes (runs pool_early_wait and pool_wait_hangs) these
\* are the only ways in which a deque begins to fail.
THEOREM DequeNothingLost ==
  Spec => []NothingLost
BY DequeUseIsKept, DequeLosesNothing, PTL

-----------------------------------------------------------------------------
(* The refinement: one deque is a sequence.                                   *)

OneDeque == \E d : Deques = {d}

\* What a deque holds, and what was ever appended.
Appended == submitted \ Pushing
Carries(p) == IF op[p].pc \in PushPcs THEN {op[p].task} ELSE {}
Stays == Window(TheDeque)' = Window(TheDeque) /\ Appended' = Appended

LEMMA TheOnlyDeque ==
  ASSUME OneDeque
  PROVE  Deques = {TheDeque}
BY DEF OneDeque, TheDeque

LEMMA AppendedKept ==
  ASSUME NEW p \in Procs, \A q \in Procs \ {p} : op'[q] = op[q],
         Carries(p)' = Carries(p), submitted' = submitted
  PROVE  Appended' = Appended
<1>1. \A q \in Procs : Carries(q)' = Carries(q)
  BY DEF Carries
<1>2. Pushing' = Pushing
  <2>1. \A t : t \in Pushing <=> \E q \in Procs : t \in Carries(q)
    BY DEF Pushing, Carries, PushPcs
  <2>2. \A t : t \in Pushing' <=> \E q \in Procs : t \in Carries(q)'
    BY DEF Pushing, Carries, PushPcs
  <2> QED
    BY <1>1, <2>1, <2>2
<1> QED
  BY <1>2 DEF Appended

\* The window as a sequence.
LEMMA WindowIs ==
  ASSUME DequeTypeOK, NEW d \in Deques, NEW n \in Nat, n = bottom[d] - top[d]
  PROVE  /\ Window(d) \in Seq(AnyTask) /\ Len(Window(d)) = n
         /\ \A i \in 1..n : Window(d)[i] = Slot(d, top[d] + i - 1)
<1>1. top[d] \in Int /\ \A i \in Int : Slot(d, i) \in AnyTask
  BY DequeTyped
<1>2. Window(d) = [i \in 1..n |-> Slot(d, top[d] + i - 1)]
  BY DEF Window, Slot
<1> QED
  BY <1>1, <1>2

LEMMA WindowEmpty ==
  ASSUME DequeTypeOK, NEW d \in Deques, bottom[d] <= top[d]
  PROVE  Window(d) = <<>>
<1>1. top[d] \in Int /\ bottom[d] \in Int
  BY DequeTyped
<1>2. 1..(bottom[d] - top[d]) = {}
  BY <1>1
<1> QED
  BY <1>2 DEF Window

LEMMA WindowKept ==
  ASSUME DequeTypeOK, NEW d \in Deques, QueuesSame, UNCHANGED <<top, bottom>>
  PROVE  Window(d)' = Window(d)
<1>1. top[d] \in Int /\ bottom[d] \in Int
  BY DequeTyped
<1>2. ASSUME NEW i \in 1..(bottom[d] - top[d])
      PROVE  Slot(d, top[d] + i - 1)' = Slot(d, top[d] + i - 1)
  <2>1. top[d] + i - 1 \in Int /\ Live(d, top[d] + i - 1)
    BY <1>1 DEF Live
  <2>2. PICK j \in Int : j = top[d] + i - 1
    BY <2>1
  <2>3. Slot(d, j)' = Slot(d, j) /\ top'[d] = top[d]
    BY <2>1, <2>2 DEF QueuesSame
  <2> QED
    BY <2>2, <2>3 DEF Slot
<1>3. Window(d) = [i \in 1..(bottom[d] - top[d]) |-> Slot(d, top[d] + i - 1)]
  BY DEF Window, Slot
<1>4. Window(d)' = [i \in 1..(bottom[d] - top[d]) |-> Slot(d, top[d] + i - 1)']
  BY DEF Window, Slot
<1> QED
  BY <1>2, <1>3, <1>4

\* A push: the task of the call is appended when bottom is stored.
LEMMA PublishAppends ==
  ASSUME OneDeque, DequeUseInv, NEW p \in Procs, PushPublish(p),
         UNCHANGED <<use, submitted, taken>>
  PROVE  \E x \in Tasks \ Appended : /\ Window(TheDeque)' = Append(Window(TheDeque), x)
                                     /\ Appended' = Appended \cup {x}
<1>0. PICK d \in Deques, b \in Int, x \in AnyTask : op[p].d = d /\ op[p].b = b /\ op[p].task = x
  BY CallTyped
<1>1. DequeTypeOK /\ DequeTypeOK'
  BY DequeType DEF DequeUseInv, DequeAction, DequeStep
<1>2. /\ op[p].pc = "push_publish" /\ op' = [op EXCEPT ![p] = IdleOp]
      /\ bottom' = [bottom EXCEPT ![d] = b + 1] /\ UNCHANGED <<top, array, buf>>
  BY <1>0 DEF PushPublish, At
<1>3. op'[p].pc = "idle" /\ \A q \in Procs \ {p} : op'[q] = op[q]
  BY <1>2, CallTyped, FreshCall
<1>4. x \in submitted /\ Calls(x) = {p} /\ x \in Tasks
  <2>1. x \in Load(p)
    BY <1>0, <1>2 DEF Load, PushPcs
  <2> QED
    BY <2>1, InCall DEF DequeUseInv
<1>5. Appended' = Appended \cup {x} /\ x \notin Appended
  <2>1. \A t : t \in Pushing <=> \E q \in Procs : t \in Carries(q)
    BY DEF Pushing, Carries, PushPcs
  <2>2. \A t : t \in Pushing' <=> \E q \in Procs : t \in Carries(q)'
    BY DEF Pushing, Carries, PushPcs
  <2>3. Carries(p) = {x} /\ Carries(p)' = {}
    BY <1>0, <1>2, <1>3 DEF Carries, PushPcs
  <2>4. \A q \in Procs \ {p} : Carries(q)' = Carries(q) /\ x \notin Carries(q)
    BY <1>3, <1>4 DEF Carries, Calls, Load
  <2>5. \A t : t \in Pushing' <=> t \in Pushing /\ t # x
    BY <2>1, <2>2, <2>3, <2>4
  <2> QED
    BY <1>4, <2>1, <2>3, <2>5 DEF Appended
<1>6. top[d] \in Int /\ b = bottom[d] /\ Slot(d, b) = x /\ top[d] <= bottom[d]
  <2>1. CallTrue(p) /\ top[d] \in Int
    BY <1>0, CallTyped
  <2>2. top[d] <= bottom[d]
    BY <1>0, <1>2, NoPopThere DEF PushPcs
  <2> QED
    BY <1>0, <1>2, <2>1, <2>2 DEF CallTrue, PushPcs
<1>7. bottom'[d] = b + 1 /\ top'[d] = top[d] /\ \A i \in Int : Slot(d, i)' = Slot(d, i)
  BY <1>2, DequeTyped DEF DequeUseInv, DequeTypeOK, Slot
<1>8. PICK n \in Nat : n = bottom[d] - top[d]
  BY <1>6
<1>9. /\ Window(d) \in Seq(AnyTask) /\ Len(Window(d)) = n
      /\ \A i \in 1..n : Window(d)[i] = Slot(d, top[d] + i - 1)
  BY <1>1, <1>8, WindowIs
<1>10. /\ Window(d)' \in Seq(AnyTask) /\ Len(Window(d)') = n + 1
       /\ \A i \in 1..n + 1 : Window(d)'[i] = Slot(d, top[d] + i - 1)
  <2>1. Window(d)' = [i \in 1..(bottom'[d] - top'[d]) |-> Slot(d, top[d] + i - 1)]
    BY <1>7, <1>2 DEF Window, Slot
  <2>2. bottom'[d] - top'[d] = n + 1
    BY <1>6, <1>7, <1>8
  <2>3. \A i \in 1..n + 1 : Slot(d, top[d] + i - 1) \in AnyTask
    BY <1>1, <1>6, DequeTyped
  <2> QED
    BY <2>1, <2>2, <2>3
<1>11. PICK v, w : v = Window(d) /\ w = Window(d)'
  OBVIOUS
<1>12. w = Append(v, x)
  <2>1. w[n + 1] = x
    BY <1>6, <1>8, <1>10, <1>11
  <2>2. Len(w) = Len(Append(v, x)) /\ w \in Seq(AnyTask) /\ Append(v, x) \in Seq(AnyTask)
    BY <1>0, <1>9, <1>10, <1>11
  <2>3. \A i \in 1..n : w[i] = Append(v, x)[i]
    BY <1>9, <1>10, <1>11
  <2>4. \A i \in 1..Len(w) : w[i] = Append(v, x)[i]
    BY <1>9, <1>10, <1>11, <2>1, <2>3
  <2> QED
    BY <2>2, <2>4, SeqEqual
<1>13. d = TheDeque
  BY TheOnlyDeque
<1> QED
  BY <1>4, <1>5, <1>11, <1>12, <1>13

\* The indices are in order when a pop lowers bottom.
LEMMA StoreInOrder ==
  ASSUME DequeUseInv, NEW p \in Procs, op[p].pc = "pop_store"
  PROVE  top[op[p].d] <= bottom[op[p].d]
<1>1. \A q \in Procs : op[q].pc \in LoweredPcs => op[q].d # op[p].d
  <2> SUFFICES ASSUME NEW q \in Procs, op[q].pc \in LoweredPcs PROVE op[q].d # op[p].d
    OBVIOUS
  <2>1. q # p /\ op[p].pc \in PopPcs /\ op[q].pc \in PopPcs
    BY DEF LoweredPcs, PopPcs
  <2> QED
    BY <2>1, BottomApart
<1> QED
  BY <1>1, InOrder, CallTyped

\* A pop that finds something takes the newest when it lowers bottom.
LEMMA StoreTakesNewest ==
  ASSUME OneDeque, DequeUseInv, NEW p \in Procs, PopStore(p),
         UNCHANGED <<use, submitted, taken>>
  PROVE  \/ Stays
         \/ /\ Window(TheDeque) # <<>>
            /\ Window(TheDeque)' = SubSeq(Window(TheDeque), 1, Len(Window(TheDeque)) - 1)
            /\ Appended' = Appended
<1>0. PICK d \in Deques, b \in Int : op[p].d = d /\ op[p].b = b
  BY CallTyped
<1>1. DequeTypeOK /\ DequeTypeOK'
  BY DequeType DEF DequeUseInv, DequeAction, DequeStep
<1>2. /\ op[p].pc = "pop_store" /\ op' = [op EXCEPT ![p].pc = "pop_array"]
      /\ bottom' = [bottom EXCEPT ![d] = b] /\ UNCHANGED <<top, array, buf>>
  BY <1>0 DEF PopStore, At, Goto
<1>3. op'[p].pc = "pop_array" /\ \A q \in Procs \ {p} : op'[q] = op[q]
  BY <1>2, CallTyped DEF Ops
<1>4. Appended' = Appended
  <2>1. Carries(p)' = Carries(p)
    BY <1>2, <1>3 DEF Carries, PushPcs
  <2> QED
    BY <1>3, <2>1, AppendedKept
<1>5. d = TheDeque
  BY TheOnlyDeque
<1>6. top[d] \in Int /\ bottom[d] \in Int /\ b = bottom[d] - 1 /\ top[d] <= bottom[d]
  <2>1. top[d] <= bottom[d]
    BY <1>0, <1>2, StoreInOrder
  <2> QED
    BY <1>0, <1>2, <2>1, CallTyped DEF CallTrue
<1>7. bottom'[d] = b /\ top'[d] = top[d] /\ \A i \in Int : Slot(d, i)' = Slot(d, i)
  BY <1>2, DequeTyped DEF DequeUseInv, DequeTypeOK, Slot
<1>8. CASE top[d] = bottom[d]
  <2>1. Window(d) = <<>>
    BY <1>1, <1>6, <1>8, WindowEmpty
  <2>2. Window(d)' = <<>>
    <3>1. 1..(bottom'[d] - top'[d]) = {}
      BY <1>6, <1>7, <1>8
    <3> QED
      BY <3>1 DEF Window
  <2> QED
    BY <1>4, <1>5, <2>1, <2>2 DEF Stays
<1>9. CASE top[d] < bottom[d]
  <2>1. PICK n \in Nat : n + 1 = bottom[d] - top[d] /\ n + 1 \in Nat
    <3>1. b - top[d] \in Nat /\ (b - top[d]) + 1 = bottom[d] - top[d]
      BY <1>6, <1>9
    <3> QED
      BY <3>1
  <2>2. /\ Window(d) \in Seq(AnyTask) /\ Len(Window(d)) = n + 1
        /\ \A i \in 1..n + 1 : Window(d)[i] = Slot(d, top[d] + i - 1)
    BY <1>1, <2>1, WindowIs
  <2>3. /\ Window(d)' \in Seq(AnyTask) /\ Len(Window(d)') = n
        /\ \A i \in 1..n : Window(d)'[i] = Slot(d, top[d] + i - 1)
    <3>1. Window(d)' = [i \in 1..(bottom'[d] - top'[d]) |-> Slot(d, top[d] + i - 1)]
      BY <1>7, <1>2 DEF Window, Slot
    <3>2. bottom'[d] - top'[d] = n
      BY <1>6, <1>7, <2>1
    <3>3. \A i \in 1..n : Slot(d, top[d] + i - 1) \in AnyTask
      BY <1>1, <1>6, DequeTyped
    <3> QED
      BY <3>1, <3>2, <3>3
  <2>4. PICK v, w : v = Window(d) /\ w = Window(d)'
    OBVIOUS
  <2>5. w = SubSeq(v, 1, Len(v) - 1)
    <3>1. /\ SubSeq(v, 1, n) \in Seq(AnyTask) /\ Len(SubSeq(v, 1, n)) = n
          /\ \A i \in 1..n : SubSeq(v, 1, n)[i] = v[i]
      BY <2>2, <2>4
    <3>2. \A i \in 1..Len(w) : w[i] = SubSeq(v, 1, n)[i]
      BY <2>2, <2>3, <2>4, <3>1
    <3>3. w = SubSeq(v, 1, n)
      BY <2>3, <2>4, <3>1, <3>2, SeqEqual
    <3>4. Len(v) - 1 = n
      BY <2>2, <2>4
    <3> QED
      BY <3>3, <3>4
  <2>6. v # <<>>
    BY <2>2, <2>4
  <2> QED
    BY <1>4, <1>5, <2>4, <2>5, <2>6
<1> QED
  BY <1>6, <1>8, <1>9

\* A step of a call that touches neither index nor slot.
LEMMA CallStays ==
  ASSUME OneDeque, DequeTypeOK, NEW p \in Procs, UNCHANGED <<top, bottom, array, buf, submitted>>,
         \A q \in Procs \ {p} : op'[q] = op[q], Carries(p)' = Carries(p)
  PROVE  Stays
<1>1. QueuesSame
  BY QueuesUnchanged
<1>2. TheDeque \in Deques
  BY TheOnlyDeque
<1> QED
  BY <1>1, <1>2, WindowKept, AppendedKept DEF Stays

\* The end of a pop that found nothing, or had to compete: the deque is empty.
LEMMA EmptyStays ==
  ASSUME OneDeque, NEW p \in Procs, DequeTypeOK, DequeTypeOK',
         \A d \in Deques : bottom[d] <= top[d] /\ bottom'[d] <= top'[d],
         \A q \in Procs \ {p} : op'[q] = op[q],
         Carries(p)' = Carries(p), submitted' = submitted
  PROVE  Stays
<1>1. TheDeque \in Deques
  BY TheOnlyDeque
<1>2. Window(TheDeque) = <<>>
  BY <1>1, WindowEmpty
<1>3. Window(TheDeque)' = <<>>
  <2>1. top'[TheDeque] \in Int /\ bottom'[TheDeque] \in Int
    BY <1>1 DEF DequeTypeOK
  <2>2. 1..(bottom'[TheDeque] - top'[TheDeque]) = {}
    BY <1>1, <2>1
  <2> QED
    BY <2>2 DEF Window
<1> QED
  BY <1>2, <1>3, AppendedKept DEF Stays

\* A thief that wins takes the oldest, unless a pop has lowered bottom for that
\* task already: then the sequence lost it at that moment.
LEMMA CasTakesOldest ==
  ASSUME OneDeque, DequeUseInv, NEW p \in Procs, StealCas(p),
         UNCHANGED <<use, submitted, taken>>
  PROVE  \/ Stays
         \/ /\ Window(TheDeque) # <<>>
            /\ Window(TheDeque)' = Tail(Window(TheDeque))
            /\ Appended' = Appended
<1>0. PICK d \in Deques, t \in Int : op[p].d = d /\ op[p].t = t
  BY CallTyped
<1>1. DequeTypeOK /\ DequeTypeOK'
  BY DequeType DEF DequeUseInv, DequeAction, DequeStep
<1>2. op[p].pc = "steal_cas" /\ UNCHANGED <<bottom, array, buf>>
  BY DEF StealCas, At
<1>3. op'[p].pc \in {"got", "none"} /\ \A q \in Procs \ {p} : op'[q] = op[q]
  BY CallTyped DEF StealCas, Goto, Ops
<1>4. Appended' = Appended
  <2>1. Carries(p)' = Carries(p)
    BY <1>2, <1>3 DEF Carries, PushPcs
  <2> QED
    BY <1>3, <2>1, AppendedKept
<1>5. d = TheDeque
  BY TheOnlyDeque
<1>6. top[d] \in Int /\ bottom[d] \in Int
  BY <1>0, CallTyped
<1>7. CASE top[d] # t
  <2>1. top' = top
    BY <1>0, <1>7 DEF StealCas
  <2>2. QueuesSame
    BY <1>2, <2>1, QueuesUnchanged
  <2> QED
    BY <1>1, <1>2, <1>4, <1>5, <2>1, <2>2, WindowKept DEF Stays
<1>9. CASE top[d] = t /\ ~(t < bottom[d])
  <2>1. top' = [top EXCEPT ![d] = @ + 1]
    BY <1>0, <1>9 DEF StealCas
  <2>2. top'[d] = top[d] + 1 /\ bottom'[d] = bottom[d]
    BY <1>2, <2>1, <1>1 DEF DequeTypeOK
  <2>3. bottom[d] <= top[d] /\ bottom'[d] <= top'[d]
    BY <1>6, <1>9, <2>2
  <2>4. Deques = {d}
    BY DEF OneDeque
  <2>5. Carries(p)' = Carries(p)
    BY <1>2, <1>3 DEF Carries, PushPcs
  <2> QED
    BY <1>1, <1>3, <2>3, <2>4, <2>5, EmptyStays
<1>8. CASE top[d] = t /\ t < bottom[d]
  <2>1. top' = [top EXCEPT ![d] = @ + 1]
    BY <1>0, <1>8 DEF StealCas
  <2>2. top'[d] = top[d] + 1 /\ bottom'[d] = bottom[d] /\ \A i \in Int : Slot(d, i)' = Slot(d, i)
    BY <1>2, <2>1, <1>1 DEF DequeTypeOK, Slot
  <2>3. PICK n \in Nat : n + 1 = bottom[d] - top[d] /\ n + 1 \in Nat
    <3>1. (bottom[d] - top[d]) - 1 \in Nat /\ ((bottom[d] - top[d]) - 1) + 1 = bottom[d] - top[d]
      BY <1>6, <1>8
    <3> QED
      BY <3>1
  <2>4. /\ Window(d) \in Seq(AnyTask) /\ Len(Window(d)) = n + 1
        /\ \A i \in 1..n + 1 : Window(d)[i] = Slot(d, top[d] + i - 1)
    BY <1>1, <2>3, WindowIs
  <2>5. /\ Window(d)' \in Seq(AnyTask) /\ Len(Window(d)') = n
        /\ \A i \in 1..n : Window(d)'[i] = Slot(d, (top[d] + 1) + i - 1)
    <3>1. Window(d)' = [i \in 1..(bottom'[d] - top'[d]) |-> Slot(d, (top[d] + 1) + i - 1)]
      BY <1>2, <2>2 DEF Window, Slot
    <3>2. bottom'[d] - top'[d] = n
      BY <1>6, <2>2, <2>3
    <3>3. \A i \in 1..n : Slot(d, (top[d] + 1) + i - 1) \in AnyTask
      BY <1>1, <1>6, DequeTyped
    <3> QED
      BY <3>1, <3>2, <3>3
  <2>6. PICK v, w : v = Window(d) /\ w = Window(d)'
    OBVIOUS
  <2>7. v # <<>>
    BY <2>4, <2>6
  <2>8. w = Tail(v)
    <3>1. Tail(v) \in Seq(AnyTask) /\ Len(Tail(v)) = n /\ \A i \in 1..n : Tail(v)[i] = v[i + 1]
      BY <2>4, <2>6, <2>7
    <3>2. ASSUME NEW i \in 1..n PROVE w[i] = v[i + 1]
      <4>1. (top[d] + 1) + i - 1 = top[d] + (i + 1) - 1 /\ i + 1 \in 1..n + 1
        BY <1>6
      <4> QED
        BY <2>4, <2>5, <2>6, <4>1
    <3>3. \A i \in 1..Len(w) : w[i] = Tail(v)[i]
      BY <2>5, <2>6, <3>1, <3>2
    <3> QED
      BY <2>5, <2>6, <3>1, <3>3, SeqEqual
  <2> QED
    BY <1>4, <1>5, <2>6, <2>7, <2>8
<1> QED
  BY <1>7, <1>8, <1>9

LEMMA BeginStays ==
  ASSUME OneDeque, DequeUseInv, NEW d \in Deques, NEW p \in Procs,
         \/ \E task \in Tasks \ submitted : PushBegin(p, d, task) /\ submitted' = submitted \cup {task}
         \/ (PopBegin(p, d) \/ StealBegin(p, d)) /\ submitted' = submitted
  PROVE  Stays
<1>1. DequeTypeOK
  BY DEF DequeUseInv
<1>2. CASE \E task \in Tasks \ submitted : PushBegin(p, d, task) /\ submitted' = submitted \cup {task}
  <2>1. PICK task \in Tasks \ submitted : PushBegin(p, d, task) /\ submitted' = submitted \cup {task}
    BY <1>2
  <2>2. /\ op[p].pc = "idle" /\ UNCHANGED <<top, bottom, array, buf>>
        /\ op' = [op EXCEPT ![p] = [IdleOp EXCEPT !.pc = "push_top", !.d = d, !.b = bottom[d], !.task = task]]
    BY <2>1 DEF PushBegin, At
  <2>3. op'[p].pc = "push_top" /\ op'[p].task = task /\ \A q \in Procs \ {p} : op'[q] = op[q]
    BY <2>2, CallTyped, FreshCall
  <2>4. \A t : t \in Pushing <=> \E q \in Procs : t \in Carries(q)
    BY DEF Pushing, Carries, PushPcs
  <2>5. \A t : t \in Pushing' <=> \E q \in Procs : t \in Carries(q)'
    BY DEF Pushing, Carries, PushPcs
  <2>6. Carries(p) = {} /\ Carries(p)' = {task} /\ \A q \in Procs \ {p} : Carries(q)' = Carries(q)
    BY <2>2, <2>3 DEF Carries, PushPcs
  <2>7. Appended' = Appended
    BY <2>1, <2>4, <2>5, <2>6 DEF Appended
  <2>8. TheDeque \in Deques
    BY TheOnlyDeque
  <2> QED
    BY <1>1, <2>2, <2>7, <2>8, QueuesUnchanged, WindowKept DEF Stays
<1>3. CASE (PopBegin(p, d) \/ StealBegin(p, d)) /\ submitted' = submitted
  <2>1. op[p].pc = "idle" /\ UNCHANGED <<top, bottom, array, buf>>
    BY <1>3 DEF PopBegin, StealBegin, At
  <2>2. op'[p].pc \in {"pop_store", "steal_bottom"} /\ \A q \in Procs \ {p} : op'[q] = op[q]
    <3>1. CASE PopBegin(p, d)
      <4>1. op' = [op EXCEPT ![p] = [IdleOp EXCEPT !.pc = "pop_store", !.d = d, !.b = bottom[d] - 1]]
        BY <3>1 DEF PopBegin
      <4> QED
        BY <4>1, CallTyped, FreshCall
    <3>2. CASE StealBegin(p, d)
      <4>1. op' = [op EXCEPT ![p] = [IdleOp EXCEPT !.pc = "steal_bottom", !.d = d, !.t = top[d]]]
        BY <3>2 DEF StealBegin
      <4> QED
        BY <4>1, CallTyped, FreshCall
    <3> QED
      BY <1>3, <3>1, <3>2
  <2>3. Carries(p)' = Carries(p)
    BY <2>1, <2>2 DEF Carries, PushPcs
  <2> QED
    BY <1>1, <1>3, <2>1, <2>2, <2>3, CallStays
<1> QED
  BY <1>2, <1>3

LEMMA LocalStays ==
  ASSUME OneDeque, DequeUseInv, NEW p \in Procs, submitted' = submitted,
         \/ PushTop(p) \/ PopArray(p) \/ PopTop(p) \/ PopRead(p)
         \/ StealBottom(p) \/ StealRead(p) \/ DequeReturn(p)
  PROVE  Stays
<1>1. UNCHANGED <<top, bottom, array, buf>> /\ \A q \in Procs \ {p} : op'[q] = op[q]
  BY CallTyped DEF PushTop, PopArray, PopTop, PopRead, StealBottom, StealRead, DequeReturn
<1>2. Carries(p)' = Carries(p)
  <2>1. CASE PushTop(p)
    <3>1. op[p].pc = "push_top" /\ op'[p].pc = "push_write" /\ op'[p].task = op[p].task
      BY <2>1, CallTyped DEF PushTop, At, Ops
    <3> QED
      BY <3>1 DEF Carries, PushPcs
  <2>2. CASE PopArray(p) \/ PopTop(p) \/ PopRead(p) \/ StealBottom(p) \/ StealRead(p)
    <3>1. op[p].pc \in {"pop_array", "pop_top", "pop_read", "steal_bottom", "steal_read"}
      BY <2>2 DEF PopArray, PopTop, PopRead, StealBottom, StealRead, At
    <3>2. PopArray(p) => op'[p].pc = "pop_top"
      BY CallTyped DEF PopArray, Ops
    <3>3. PopTop(p) => op'[p].pc = (IF top[op[p].d] <= op[p].b THEN "pop_read" ELSE "pop_empty")
      BY CallTyped DEF PopTop, Ops
    <3>4. PopRead(p) => op'[p].pc = (IF op[p].t = op[p].b THEN "pop_cas" ELSE "got")
      <4> SUFFICES ASSUME PopRead(p) PROVE op'[p].pc = (IF op[p].t = op[p].b THEN "pop_cas" ELSE "got")
        OBVIOUS
      <4>1. PICK x : op' = [op EXCEPT ![p].task = x, ![p].pc = IF op[p].t = op[p].b THEN "pop_cas" ELSE "got"]
        BY DEF PopRead
      <4> QED
        BY <4>1, CallTyped DEF Ops
    <3>5. StealBottom(p) => op'[p].pc = (IF op[p].t >= bottom[op[p].d] THEN "none" ELSE "steal_read")
      BY CallTyped DEF StealBottom, Ops
    <3>6. StealRead(p) => op'[p].pc = "steal_cas"
      BY CallTyped DEF StealRead, Ops
    <3>7. op'[p].pc \notin PushPcs
      BY <2>2, <3>2, <3>3, <3>4, <3>5, <3>6 DEF PushPcs
    <3> QED
      BY <3>1, <3>7 DEF Carries, PushPcs
  <2>3. CASE DequeReturn(p)
    <3>1. op[p].pc \in {"got", "none"} /\ op'[p].pc = "idle"
      BY <2>3, CallTyped, FreshCall DEF DequeReturn, Returned
    <3> QED
      BY <3>1 DEF Carries, PushPcs
  <2> QED
    BY <2>1, <2>2, <2>3
<1> QED
  BY <1>1, <1>2, CallStays DEF DequeUseInv

LEMMA WriteStays ==
  ASSUME OneDeque, DequeUseInv, NEW p \in Procs, PushWrite(p),
         UNCHANGED <<use, submitted, taken>>
  PROVE  Stays
<1>1. QueuesSame /\ TheDeque \in Deques /\ DequeTypeOK
  BY PushWriteKeeps, TheOnlyDeque DEF DequeUseInv
<1>2. /\ op[p].pc = "push_write" /\ op'[p].pc = "push_publish" /\ op'[p].task = op[p].task
      /\ \A q \in Procs \ {p} : op'[q] = op[q] /\ UNCHANGED <<top, bottom>>
  BY CallTyped DEF PushWrite, Goto, At, Ops
<1>3. UNCHANGED <<top, bottom>>
  BY DEF PushWrite
<1>4. Carries(p)' = Carries(p)
  BY <1>2 DEF Carries, PushPcs
<1>5. Appended' = Appended
  BY <1>2, <1>4, AppendedKept
<1> QED
  BY <1>1, <1>3, <1>5, WindowKept DEF Stays

LEMMA PopEndStays ==
  ASSUME OneDeque, DequeUseInv, NEW p \in Procs, PopCas(p) \/ PopRestore(p), ~LosesLast(p),
         UNCHANGED <<use, submitted, taken>>
  PROVE  Stays
<1>0. PICK d \in Deques, b \in Int, t \in Int : op[p].d = d /\ op[p].b = b /\ op[p].t = t
  BY CallTyped
<1>1. DequeTypeOK /\ DequeTypeOK' /\ Deques = {d}
  BY DequeType DEF DequeUseInv, DequeAction, DequeStep, OneDeque
<1>2. CallTrue(p) /\ op[p] \in Ops /\ op \in [Procs -> Ops] /\ top[d] \in Int
  BY <1>0, CallTyped
<1>3. CASE PopCas(p)
  <2>1. op[p].pc = "pop_cas" /\ top[d] = b /\ t = b /\ bottom[d] = b
    BY <1>0, <1>2, <1>3 DEF PopCas, At, CallTrue, LoweredPcs, LosesLast
  <2>2. /\ op' = [op EXCEPT ![p].pc = "pop_won"] /\ top' = [top EXCEPT ![d] = @ + 1] /\ bottom' = bottom
    BY <1>0, <1>3, <2>1 DEF PopCas, Goto
  <2>3. op'[p].pc = "pop_won" /\ (\A q \in Procs \ {p} : op'[q] = op[q]) /\ top'[d] = b + 1
    BY <1>1, <1>2, <2>1, <2>2 DEF Ops, DequeTypeOK
  <2>4. Carries(p)' = Carries(p)
    BY <2>1, <2>3 DEF Carries, PushPcs
  <2>5. bottom[d] <= top[d] /\ bottom'[d] <= top'[d]
    BY <2>1, <2>2, <2>3
  <2> QED
    BY <1>1, <2>3, <2>4, <2>5, EmptyStays
<1>4. CASE PopRestore(p)
  <2>1. op[p].pc \in {"pop_won", "pop_empty"} /\ top' = top
    BY <1>2, <1>4 DEF PopRestore, CallTrue
  <2>2. bottom[d] = b /\ top[d] = b + 1
    BY <1>0, <1>2, <2>1 DEF CallTrue, LoweredPcs
  <2>3. bottom' = [bottom EXCEPT ![d] = RestoredBottom(op[p])] /\ RestoredBottom(op[p]) = b + 1
    BY <1>0, <1>2, <1>4, <2>1, <2>2 DEF PopRestore, RestoredBottom, CallTrue
  <2>4. op'[p].pc \in {"got", "none"} /\ \A q \in Procs \ {p} : op'[q] = op[q]
    BY <1>2, <1>4 DEF PopRestore, Goto, At, Ops
  <2>5. Carries(p)' = Carries(p)
    BY <2>1, <2>4 DEF Carries, PushPcs
  <2>6. bottom'[d] = b + 1
    BY <1>1, <2>3 DEF DequeTypeOK
  <2>7. bottom[d] <= top[d] /\ bottom'[d] <= top'[d]
    BY <2>1, <2>2, <2>6
  <2> QED
    BY <1>1, <2>4, <2>5, <2>7, EmptyStays
<1> QED
  BY <1>3, <1>4

LEMMA AbstractStep ==
  ASSUME OneDeque, UnlessClashed, [Next]_vars
  PROVE  [Abstract!Next]_<<Window(TheDeque), submitted \ Pushing, clashed>>
<1> DEFINE Goal == [Abstract!Next]_<<Window(TheDeque), submitted \ Pushing, clashed>>
<1>0. CASE clashed'
  <2>1. clashed' = TRUE
    BY <1>0, ClashStays DEF UnlessClashed
  <2> QED
    BY <2>1 DEF Abstract!Next, Abstract!Spoil
<1>1. CASE ~clashed'
  <2>0. DequeUseInv /\ clashed' = clashed /\ UnlessClashed
    BY <1>1, ClashStays, DequeUseStep DEF UnlessClashed
  <2>1. Stays => Goal
    BY <2>0 DEF Stays, Appended
  <2>2. ASSUME NEW x \in Tasks \ Appended, Window(TheDeque)' = Append(Window(TheDeque), x),
               Appended' = Appended \cup {x}
        PROVE  Goal
    BY <2>0, <2>2 DEF Appended, Abstract!Next, Abstract!Append1
  <2>3. ASSUME Window(TheDeque) # <<>>, Window(TheDeque)' = Tail(Window(TheDeque)), Appended' = Appended
        PROVE  Goal
    BY <2>0, <2>3 DEF Appended, Abstract!Next, Abstract!TakeTop
  <2>4. ASSUME Window(TheDeque) # <<>>, Appended' = Appended,
               Window(TheDeque)' = SubSeq(Window(TheDeque), 1, Len(Window(TheDeque)) - 1)
        PROVE  Goal
    BY <2>0, <2>4 DEF Appended, Abstract!Next, Abstract!TakeBottom, Abstract!Front
  <2> HIDE DEF Goal
  <2>5. ASSUME NEW d \in Deques, NEW p \in Procs, Push(p, d) \/ Pop(p, d) \/ Steal(p, d) PROVE Goal
    BY <2>0, <2>1, <2>5, BeginStays DEF Push, Pop, Steal
  <2>6. ASSUME NEW p \in Procs, Step(p) PROVE Goal
    <3>0. DequeStep(p) /\ ~LosesLast(p) /\ UNCHANGED <<use, submitted, taken>>
      BY <1>1, <2>6 DEF Step
    <3>1. CASE PushTop(p) \/ PopArray(p) \/ PopTop(p) \/ PopRead(p) \/ StealBottom(p) \/ StealRead(p)
      BY <2>0, <2>1, <3>0, <3>1, LocalStays
    <3>2. CASE PushWrite(p)
      BY <2>0, <2>1, <3>0, <3>2, WriteStays
    <3>3. CASE PushPublish(p)
      BY <2>0, <2>2, <3>0, <3>3, PublishAppends
    <3>4. CASE PopStore(p)
      BY <2>0, <2>1, <2>4, <3>0, <3>4, StoreTakesNewest
    <3>5. CASE PopCas(p) \/ PopRestore(p)
      BY <2>0, <2>1, <3>0, <3>5, PopEndStays
    <3>6. CASE StealCas(p)
      BY <2>0, <2>1, <2>3, <3>0, <3>6, CasTakesOldest
    <3> QED
      BY <3>0, <3>1, <3>2, <3>3, <3>4, <3>5, <3>6 DEF DequeStep
  <2>7. ASSUME NEW p \in Procs, Return(p) PROVE Goal
    BY <2>0, <2>1, <2>7, LocalStays DEF Return
  <2>8. ASSUME UNCHANGED vars PROVE Goal
    <3>1. UNCHANGED <<top, bottom, array, buf, op, submitted>>
      BY <2>8 DEF vars, dequeVars
    <3>2. Window(TheDeque)' = Window(TheDeque)
      BY <3>1 DEF Window
    <3>3. Appended' = Appended
      BY <3>1 DEF Appended, Pushing
    <3> QED
      BY <2>1, <3>2, <3>3 DEF Stays
  <2>9. use.pushers \subseteq Procs /\ use.thieves \subseteq Procs
    BY <2>0, UseAssumption DEF DequeUseInv, PopsApart
  <2>10. Goal
    BY <2>5, <2>6, <2>7, <2>8, <2>9 DEF Next
  <2> QED
    BY <2>10 DEF Goal
<1> QED
  BY <1>0, <1>1

\* The deque of a worker implements a sequence until its first clash: deque_push
\* appends at one end, a steal that wins takes the oldest task and a pop the
\* newest, each at one access to top or bottom, for any capacity, and for the
\* owner beside any number of producers and thieves.
THEOREM DequeIsSequence ==
  OneDeque /\ Spec => Linearizable
<1> SUFFICES ASSUME OneDeque PROVE Spec => Linearizable
  OBVIOUS
<1>1. Init => Abstract!Init
  <2> SUFFICES ASSUME Init PROVE Window(TheDeque) = <<>> /\ submitted \ Pushing = {} /\ clashed = FALSE
    BY DEF Abstract!Init
  <2>1. DequeUseInv /\ clashed = FALSE /\ TheDeque \in Deques
    BY DequeUseInit, TheOnlyDeque
  <2>2. bottom[TheDeque] <= top[TheDeque]
    BY <2>1 DEF Init, DequeInit
  <2> QED
    BY <2>1, <2>2, WindowEmpty DEF Init, DequeUseInv
<1>2. UnlessClashed /\ [Next]_vars => [Abstract!Next]_<<Window(TheDeque), submitted \ Pushing, clashed>>
  BY AbstractStep
<1> QED
  BY <1>1, <1>2, DequeUseIsKept, PTL DEF Spec, Linearizable, Abstract!Spec

-----------------------------------------------------------------------------
(* The logger: LinesKept.                                                     *)

\* Where a thread may be, and where it reads a ring.
Doings == {"idle", "enter", "reserve", "store", "check", "flush", "tail", "head", "print"}
Reading == {"tail", "head", "print"}
Walks == [i : Nat, count : Nat, tail : Nat, head : Nat]

RingTyped ==
  /\ logging \in BOOLEAN
  /\ rings \in [Rings -> Loggers \cup {NoLogger}]
  /\ nrings \in Nat
  /\ ring \in [Loggers -> Nat]
  /\ head \in [Loggers -> Nat] /\ tail \in [Loggers -> Nat]
  /\ entry \in [Loggers -> [RingPos -> Nat]]
  /\ doing \in [Loggers -> Doings]
  /\ at \in [Loggers -> Walks]
  /\ closing \in Loggers \cup {NoLogger}

\* A thread has one place and its ring is found there once it was entered.
Places ==
  /\ \A s \in Loggers : ring[s] <= nrings
  /\ \A s, u \in Loggers : ring[s] = ring[u] /\ ring[s] # 0 => s = u
  /\ \A r \in Rings : rings[r] # NoLogger => ring[rings[r]] = r
  /\ \A s \in Loggers : ring[s] \in Rings /\ doing[s] # "enter" => rings[ring[s]] = s
  /\ \A s \in Loggers : ring[s] = 0 => head[s] = 0 /\ doing[s] \notin {"enter", "reserve", "store", "check"}
  /\ \A s \in Loggers : tail[s] <= head[s]

\* While u flushes, s writes nothing: it is u itself, or u shuts the logger down.
Still(u, s) == u = s \/ closing = u

\* A flush has counted the ring of a thread that is still.
Counts(u) ==
  doing[u] \in Reading =>
    /\ at[u].count <= MaxRings /\ at[u].i >= 1
    /\ \A s \in Loggers : Still(u, s) /\ ring[s] \in Rings => ring[s] <= at[u].count

\* A line that a flush has passed.
Done(s, n) == <<s, n>> \in printed \cup raced

\* What a flush has read of a ring.
Reads(u) ==
  doing[u] \in {"head", "print"} =>
    /\ at[u].i \in Rings /\ Flushed(u) \in Loggers
    /\ at[u].tail <= at[u].head /\ at[u].head <= head[Flushed(u)]
    /\ Flushed(u) \in Orderly => \A n \in 1..at[u].tail : Done(Flushed(u), n)
    /\ doing[u] = "head" => at[u].tail = at[u].head
    /\ doing[u] = "print" =>
         /\ at[u].head = head[Flushed(u)] /\ doing[Flushed(u)] = "store" =>
              <<Flushed(u), head[Flushed(u)]>> \in raced
         /\ Still(u, Flushed(u)) => at[u].head = head[Flushed(u)]

\* Lines up to the tail were passed, those after it are in their slots.
InRing(s) ==
  s \in Orderly =>
    /\ \A n \in 1..tail[s] : Done(s, n)
    /\ \A n \in Stored(s) : n > tail[s] => entry[s][Pos(n - 1)] = n

\* A ring is never full: a thread flushes before it writes again.
RoomIn(s) ==
  s \in Orderly =>
    /\ head[s] - tail[s] <= FlushAt + 1
    /\ doing[s] \in {"idle", "enter", "reserve"} => head[s] - tail[s] <= FlushAt

\* A flush by its own thread, or at shutdown, leaves a ring empty.
Emptied(s) ==
  s \in Orderly =>
    /\ \A u \in Loggers : doing[u] \in Reading /\ Still(u, s) /\ at[u].i > ring[s] => tail[s] = head[s]
    /\ ~logging => tail[s] = head[s]

\* Once a thread shuts the logger down nobody else does anything.
ShuttingDown ==
  /\ ~logging => closing # NoLogger
  /\ closing # NoLogger =>
       /\ \A s \in Loggers \ {closing} : doing[s] = "idle"
       /\ IF logging THEN doing[closing] \in Reading \cup {"flush"} ELSE doing[closing] = "idle"

\* The inductive invariant.
LogInv ==
  /\ RingTyped
  /\ Places
  /\ \A u \in Loggers : Counts(u) /\ Reads(u)
  /\ \A s \in Loggers : InRing(s) /\ RoomIn(s) /\ Emptied(s)
  /\ ShuttingDown

LEMMA RingBounds ==
  /\ RingSize \in Nat \ {0} /\ FlushAt \in Nat /\ FlushAt >= 1 /\ FlushAt + 1 < RingSize /\ MaxRings \in Nat
  /\ \A n \in Int : Pos(n) \in RingPos
<1>1. RingSize \in Nat \ {0} /\ FlushAt \in Nat /\ FlushAt >= 1 /\ FlushAt + 1 < RingSize /\ MaxRings \in Nat
  BY RingAssumption
<1>2. \A n \in Int : Pos(n) \in RingPos
  BY <1>1 DEF Pos, RingPos
<1> QED
  BY <1>1, <1>2

\* Lines that are less than a ring apart have slots of their own.
LEMMA NearSlots ==
  ASSUME NEW m \in Int, NEW n \in Int, m < n, n - m < RingSize
  PROVE  Pos(m) # Pos(n)
BY RingBounds, MaskedApart DEF Pos

\* A ring that is not full is not taken for an empty one.
LEMMA SmallUsed ==
  ASSUME NEW n \in Nat, n <= FlushAt + 1
  PROVE  Pos(n) = n
BY RingBounds DEF Pos

LEMMA NowhereType == Nowhere \in Walks
BY DEF Walks, Nowhere

LEMMA LogInvInit ==
  LogInit => LogInv
<1> SUFFICES ASSUME LogInit PROVE LogInv
  OBVIOUS
<1>1. /\ \A s \in Loggers : ring[s] = 0 /\ head[s] = 0 /\ tail[s] = 0 /\ doing[s] = "idle"
      /\ logging = TRUE /\ closing = NoLogger /\ nrings = 0 /\ \A r \in Rings : rings[r] = NoLogger
  BY DEF LogInit
<1>2. RingTyped
  BY NowhereType DEF LogInit, RingTyped, Doings
<1>3. Places /\ ShuttingDown
  BY <1>1 DEF Places, ShuttingDown, Rings
<1>4. \A u \in Loggers : Counts(u) /\ Reads(u)
  BY <1>1 DEF Counts, Reads, Reading
<1>5. \A s \in Loggers : s \notin Orderly
  BY <1>1 DEF Orderly, Rings
<1> QED
  BY <1>2, <1>3, <1>4, <1>5 DEF LogInv, InRing, RoomIn, Emptied

-----------------------------------------------------------------------------
(* The steps of a thread that logs and of one that flushes.                   *)

LEMMA EnterRingKeeps ==
  ASSUME LogInv, NEW t \in Loggers, EnterRing(t)
  PROVE  LogInv'
<1>0. /\ RingTyped /\ Places /\ ShuttingDown
      /\ \A s \in Loggers : Counts(s) /\ Reads(s) /\ InRing(s) /\ RoomIn(s) /\ Emptied(s)
  BY DEF LogInv
<1>1. /\ doing[t] = "enter"
      /\ doing'[t] = "reserve"
      /\ (\A s \in Loggers : s # t => doing'[s] = doing[s])
      /\ rings' = IF ring[t] <= MaxRings THEN [rings EXCEPT ![ring[t]] = t] ELSE rings
      /\ UNCHANGED <<logging, nrings, ring, head, tail, entry, at, closing, printed, raced, setback>>
  BY <1>0 DEF EnterRing, Moves, RingTyped
<1>2. \A s \in Loggers : s \in Orderly' <=> s \in Orderly
  BY <1>1 DEF Orderly
<1>3. RingTyped'
  BY <1>0 DEF EnterRing, Moves, RingTyped, Doings
<1>4. Places'
  <2>1. ring[t] # 0 /\ ring[t] \in Nat
    BY <1>0, <1>1 DEF Places, RingTyped
  <2>2. CASE ring[t] <= MaxRings
    <3>1. ring[t] \in Rings
      BY <2>1, <2>2 DEF Rings
    <3>2. rings'[ring[t]] = t /\ \A r \in Rings \ {ring[t]} : rings'[r] = rings[r]
      BY <1>0, <1>1, <2>2, <3>1 DEF RingTyped
    <3> QED
      BY <1>0, <1>1, <2>1, <3>1, <3>2 DEF Places
  <2>3. CASE ~(ring[t] <= MaxRings)
    <3>1. rings' = rings /\ ring[t] \notin Rings
      BY <1>1, <2>3 DEF Rings
    <3> QED
      BY <1>0, <1>1, <3>1 DEF Places
  <2> QED
    BY <2>2, <2>3
<1>5. \A u \in Loggers : Counts(u)'
  BY <1>0, <1>1 DEF Counts, Still, Reading
<1>6. \A u \in Loggers : Reads(u)'
  <2>1. ASSUME NEW r \in Rings, rings[r] \in Loggers PROVE rings'[r] = rings[r]
    <3>1. ring[rings[r]] = r
      BY <1>0, <2>1, LoggersAssumption DEF Places
    <3>2. ring[t] = r /\ r # 0 => rings[r] = t
      BY <1>0, <2>1, <3>1 DEF Places
    <3>3. rings' = rings \/ rings' = [rings EXCEPT ![ring[t]] = t]
      BY <1>1
    <3>4. r # 0
      BY RingBounds DEF Rings
    <3> QED
      BY <1>0, <2>1, <3>2, <3>3, <3>4 DEF RingTyped
  <2> SUFFICES ASSUME NEW u \in Loggers PROVE Reads(u)'
    OBVIOUS
  <2>2. CASE doing[u] \in {"head", "print"}
    <3>1. at[u].i \in Rings /\ Flushed(u) \in Loggers /\ Flushed(u)' = Flushed(u)
      BY <1>0, <1>1, <2>1, <2>2 DEF Reads, Flushed
    <3> QED
      BY <1>0, <1>1, <1>2, <2>2, <3>1 DEF Reads, Still, Done
  <2>3. CASE doing[u] \notin {"head", "print"}
    BY <1>1, <2>3 DEF Reads
  <2> QED
    BY <2>2, <2>3
<1>7. \A s \in Loggers : InRing(s)'
  BY <1>0, <1>1, <1>2 DEF InRing, Stored, Done
<1>8. \A s \in Loggers : RoomIn(s)'
  BY <1>0, <1>1, <1>2 DEF RoomIn
<1>9. \A s \in Loggers : Emptied(s)'
  BY <1>0, <1>1, <1>2 DEF Emptied, Still, Reading
<1>10. ShuttingDown'
  BY <1>0, <1>1 DEF ShuttingDown, Reading
<1> QED
  BY <1>3, <1>4, <1>5, <1>6, <1>7, <1>8, <1>9, <1>10 DEF LogInv

LEMMA ReserveKeeps ==
  ASSUME LogInv, NEW t \in Loggers, Reserve(t)
  PROVE  LogInv'
<1>0. /\ RingTyped /\ Places /\ ShuttingDown
      /\ \A s \in Loggers : Counts(s) /\ Reads(s) /\ InRing(s) /\ RoomIn(s) /\ Emptied(s)
  BY DEF LogInv
<1>1. /\ doing[t] = "reserve"
      /\ doing'[t] = "store"
      /\ (\A s \in Loggers : s # t => doing'[s] = doing[s])
      /\ head'[t] = head[t] + 1
      /\ (\A s \in Loggers : s # t => head'[s] = head[s])
      /\ UNCHANGED <<logging, rings, nrings, ring, tail, entry, at, closing, printed, raced, setback>>
  BY <1>0 DEF ringVars, Reserve, Moves, RingTyped
<1>2. \A s \in Loggers : s \in Orderly' <=> s \in Orderly
  BY <1>1 DEF Orderly
<1>11. closing # NoLogger => FALSE
  BY <1>0, <1>1 DEF ShuttingDown, Reading
<1>3. RingTyped'
  <2>1. head' \in [Loggers -> Nat] /\ doing' \in [Loggers -> Doings]
    BY <1>0 DEF RingTyped, Reserve, Moves, Doings
  <2> QED
    BY <1>0, <1>1, <2>1 DEF RingTyped
<1>4. Places'
  <2>1. ring[t] # 0 /\ \A s \in Loggers : head[s] \in Nat /\ tail[s] \in Nat
    BY <1>0, <1>1 DEF Places, RingTyped
  <2>2. \A s \in Loggers : tail'[s] <= head'[s]
    BY <1>0, <1>1, <2>1 DEF Places
  <2> QED
    BY <1>0, <1>1, <2>1, <2>2 DEF Places
<1>5. \A u \in Loggers : Counts(u)'
  BY <1>0, <1>1 DEF Counts, Still, Reading
<1>6. \A u \in Loggers : Reads(u)'
  <2> SUFFICES ASSUME NEW u \in Loggers, doing[u] \in {"head", "print"} PROVE Reads(u)'
    BY <1>1 DEF Reads
  <2>1. doing'[u] = doing[u] /\ u # t /\ Flushed(u)' = Flushed(u) /\ Flushed(u) \in Loggers
    BY <1>0, <1>1 DEF Flushed, Reads
  <2>2. at[u].tail \in Nat /\ at[u].head \in Nat /\ head[Flushed(u)] \in Nat /\ Reads(u)
    BY <1>0, <2>1 DEF RingTyped, Walks
  <2>3. CASE Flushed(u) = t
    <3>1. ~Still(u, t) /\ ~Still(u, t)'
      BY <1>1, <1>11, <2>1, LoggersAssumption DEF Still
    <3>2. at[u].head < head'[t] /\ at[u].head <= head'[t]
      BY <1>1, <2>2, <2>3 DEF Reads
    <3>3. at[u].head # head'[t]
      BY <1>1, <2>2, <2>3, <3>2
    <3> QED
      BY <1>1, <1>2, <2>1, <2>2, <2>3, <3>1, <3>2, <3>3 DEF Reads, Done
  <2>4. CASE Flushed(u) # t
    BY <1>1, <1>2, <2>1, <2>2, <2>4 DEF Reads, Done, Still
  <2> QED
    BY <2>3, <2>4
<1>7. \A s \in Loggers : InRing(s)'
  <2> SUFFICES ASSUME NEW s \in Loggers, s \in Orderly PROVE InRing(s)'
    BY <1>2 DEF InRing
  <2>1. head[s] \in Nat /\ tail[s] \in Nat /\ InRing(s)
    BY <1>0 DEF RingTyped
  <2>2. Stored(s)' = Stored(s)
    <3>1. CASE s = t
      <4>1. Stored(s) = 1..head[s]
        BY <1>1, <3>1 DEF Stored
      <4>2. Stored(s)' = 1..head[s]
        BY <1>1, <2>1, <3>1 DEF Stored
      <4> QED
        BY <4>1, <4>2
    <3>2. CASE s # t
      BY <1>1, <3>2 DEF Stored
    <3> QED
      BY <3>1, <3>2
  <2> QED
    BY <1>1, <2>1, <2>2 DEF InRing, Done
<1>8. \A s \in Loggers : RoomIn(s)'
  <2> SUFFICES ASSUME NEW s \in Loggers, s \in Orderly PROVE RoomIn(s)'
    BY <1>2 DEF RoomIn
  <2>1. head[s] \in Nat /\ tail[s] \in Nat /\ RoomIn(s)
    BY <1>0 DEF RingTyped
  <2>2. CASE s = t
    BY <1>1, <2>1, <2>2, RingBounds DEF RoomIn
  <2>3. CASE s # t
    BY <1>1, <2>1, <2>3 DEF RoomIn
  <2> QED
    BY <2>2, <2>3
<1>9. \A s \in Loggers : Emptied(s)'
  <2> SUFFICES ASSUME NEW s \in Loggers, s \in Orderly PROVE Emptied(s)'
    BY <1>2 DEF Emptied
  <2>1. CASE s = t
    <3>1. logging
      BY <1>0, <1>11 DEF ShuttingDown
    <3>2. \A u \in Loggers : Still(u, t)' => u = t
      BY <1>1, <1>11, LoggersAssumption DEF Still
    <3> QED
      BY <1>1, <2>1, <3>1, <3>2 DEF Emptied, Reading
  <2>2. CASE s # t
    BY <1>0, <1>1, <2>2 DEF Emptied, Still, Reading
  <2> QED
    BY <2>1, <2>2
<1>10. ShuttingDown'
  BY <1>0, <1>1 DEF ShuttingDown, Reading
<1> QED
  BY <1>3, <1>4, <1>5, <1>6, <1>7, <1>8, <1>9, <1>10 DEF LogInv

LEMMA StoreLineKeeps ==
  ASSUME LogInv, NEW t \in Loggers, StoreLine(t)
  PROVE  LogInv'
<1>0. /\ RingTyped /\ Places /\ ShuttingDown
      /\ \A s \in Loggers : Counts(s) /\ Reads(s) /\ InRing(s) /\ RoomIn(s) /\ Emptied(s)
  BY DEF LogInv
<1>1. /\ doing[t] = "store"
      /\ doing'[t] = "check"
      /\ (\A s \in Loggers : s # t => doing'[s] = doing[s])
      /\ entry'[t] = [entry[t] EXCEPT ![Pos(head[t] - 1)] = head[t]]
      /\ (\A s \in Loggers : s # t => entry'[s] = entry[s])
      /\ UNCHANGED <<logging, rings, nrings, ring, head, tail, at, closing, printed, raced, setback>>
  BY <1>0 DEF ringVars, StoreLine, Moves, RingTyped
<1>2. \A s \in Loggers : s \in Orderly' <=> s \in Orderly
  BY <1>1 DEF Orderly
<1>3. RingTyped'
  BY <1>0 DEF ringVars, StoreLine, Moves, RingTyped, Doings
<1>4. Places'
  BY <1>0, <1>1 DEF Places
<1>5. \A u \in Loggers : Counts(u)'
  BY <1>0, <1>1 DEF Counts, Still, Reading
<1>6. \A u \in Loggers : Reads(u)'
  BY <1>0, <1>1, <1>2 DEF Reads, Still, Flushed, Done
<1>7. \A s \in Loggers : InRing(s)'
  <2> SUFFICES ASSUME NEW s \in Loggers, s \in Orderly PROVE InRing(s)'
    BY <1>2 DEF InRing
  <2>1. head[s] \in Nat /\ tail[s] \in Nat /\ InRing(s) /\ RoomIn(s)
    BY <1>0 DEF RingTyped
  <2>2. CASE s # t
    <3>1. Stored(s)' = Stored(s)
      BY <1>1, <2>2 DEF Stored
    <3> QED
      BY <1>1, <2>1, <2>2, <3>1 DEF InRing, Done
  <2>3. CASE s = t
    <3> SUFFICES ASSUME NEW n \in 1..head[t], n > tail[t] PROVE entry'[t][Pos(n - 1)] = n
      BY <1>1, <2>1, <2>3 DEF InRing, Stored, Done
    <3>1. Pos(n - 1) \in RingPos /\ entry[t] \in [RingPos -> Nat]
      BY <1>0, RingBounds DEF RingTyped
    <3>2. CASE n = head[t]
      BY <1>1, <3>1, <3>2
    <3>3. CASE n # head[t]
      <4>1. n - 1 < head[t] - 1 /\ (head[t] - 1) - (n - 1) < RingSize
        BY <2>1, <2>3, <3>3, RingBounds DEF RoomIn
      <4>2. Pos(n - 1) # Pos(head[t] - 1)
        BY <2>1, <2>3, <4>1, NearSlots
      <4>3. entry[t][Pos(n - 1)] = n
        BY <1>1, <2>1, <2>3, <3>3 DEF InRing, Stored
      <4> QED
        BY <1>1, <3>1, <4>2, <4>3
    <3> QED
      BY <3>2, <3>3
  <2> QED
    BY <2>2, <2>3
<1>8. \A s \in Loggers : RoomIn(s)'
  BY <1>0, <1>1, <1>2 DEF RoomIn
<1>9. \A s \in Loggers : Emptied(s)'
  BY <1>0, <1>1, <1>2 DEF Emptied, Still, Reading
<1>10. ShuttingDown'
  BY <1>0, <1>1 DEF ShuttingDown, Reading
<1> QED
  BY <1>3, <1>4, <1>5, <1>6, <1>7, <1>8, <1>9, <1>10 DEF LogInv

LEMMA CheckRingKeeps ==
  ASSUME LogInv, NEW t \in Loggers, CheckRing(t)
  PROVE  LogInv'
<1>0. /\ RingTyped /\ Places /\ ShuttingDown
      /\ \A s \in Loggers : Counts(s) /\ Reads(s) /\ InRing(s) /\ RoomIn(s) /\ Emptied(s)
  BY DEF LogInv
<1>1. /\ doing[t] = "check"
      /\ doing'[t] = "flush" \/ (doing'[t] = "idle" /\ ~GettingFull(t))
      /\ (\A s \in Loggers : s # t => doing'[s] = doing[s])
      /\ UNCHANGED <<logging, rings, nrings, ring, head, tail, entry, at, closing, printed, raced, setback>>
  BY <1>0 DEF ringVars, CheckRing, Moves, RingTyped
<1>2. \A s \in Loggers : s \in Orderly' <=> s \in Orderly
  BY <1>1 DEF Orderly
<1>3. RingTyped'
  BY <1>0 DEF ringVars, CheckRing, Moves, RingTyped, Doings
<1>4. Places'
  BY <1>0, <1>1 DEF Places
<1>5. \A u \in Loggers : Counts(u)'
  BY <1>0, <1>1 DEF Counts, Still, Reading
<1>6. \A u \in Loggers : Reads(u)'
  BY <1>0, <1>1, <1>2 DEF Reads, Still, Flushed, Done
<1>7. \A s \in Loggers : InRing(s)'
  BY <1>0, <1>1, <1>2 DEF InRing, Stored, Done
<1>8. \A s \in Loggers : RoomIn(s)'
  <2> SUFFICES ASSUME NEW s \in Loggers, s \in Orderly PROVE RoomIn(s)'
    BY <1>2 DEF RoomIn
  <2>1. head[s] \in Nat /\ tail[s] \in Nat /\ tail[s] <= head[s] /\ RoomIn(s)
    BY <1>0 DEF RingTyped, Places
  <2>2. CASE s = t /\ ~GettingFull(t)
    <3>1. head[t] - tail[t] \in Nat /\ head[t] - tail[t] <= FlushAt + 1
      BY <2>1, <2>2 DEF RoomIn
    <3>2. head[t] - tail[t] <= FlushAt
      BY <2>2, <3>1, SmallUsed, RingBounds DEF GettingFull
    <3> QED
      BY <1>1, <2>1, <2>2, <3>2 DEF RoomIn
  <2>3. CASE s # t \/ GettingFull(t)
    BY <1>1, <2>1, <2>3 DEF RoomIn
  <2> QED
    BY <2>2, <2>3
<1>9. \A s \in Loggers : Emptied(s)'
  BY <1>0, <1>1, <1>2 DEF Emptied, Still, Reading
<1>10. ShuttingDown'
  BY <1>0, <1>1 DEF ShuttingDown, Reading
<1> QED
  BY <1>3, <1>4, <1>5, <1>6, <1>7, <1>8, <1>9, <1>10 DEF LogInv

LEMMA FlushKeeps ==
  ASSUME LogInv, NEW t \in Loggers, Flush(t)
  PROVE  LogInv'
<1>0. /\ RingTyped /\ Places /\ ShuttingDown
      /\ \A s \in Loggers : Counts(s) /\ Reads(s) /\ InRing(s) /\ RoomIn(s) /\ Emptied(s)
  BY DEF LogInv
<1>1. /\ logging
      /\ closing = NoLogger
      /\ doing[t] = "idle"
      /\ doing'[t] = "flush"
      /\ (\A s \in Loggers : s # t => doing'[s] = doing[s])
      /\ UNCHANGED <<logging, rings, nrings, ring, head, tail, entry, at, closing, printed, raced, setback>>
  BY <1>0 DEF ringVars, Flush, Moves, RingTyped
<1>2. \A s \in Loggers : s \in Orderly' <=> s \in Orderly
  BY <1>1 DEF Orderly
<1>3. RingTyped'
  BY <1>0 DEF ringVars, Flush, Moves, RingTyped, Doings
<1>4. Places'
  BY <1>0, <1>1 DEF Places
<1>5. \A u \in Loggers : Counts(u)'
  BY <1>0, <1>1 DEF Counts, Still, Reading
<1>6. \A u \in Loggers : Reads(u)'
  BY <1>0, <1>1, <1>2 DEF Reads, Still, Flushed, Done
<1>7. \A s \in Loggers : InRing(s)'
  BY <1>0, <1>1, <1>2 DEF InRing, Stored, Done
<1>8. \A s \in Loggers : RoomIn(s)'
  BY <1>0, <1>1, <1>2 DEF RoomIn
<1>9. \A s \in Loggers : Emptied(s)'
  BY <1>0, <1>1, <1>2 DEF Emptied, Still, Reading
<1>10. ShuttingDown'
  BY <1>0, <1>1 DEF ShuttingDown
<1> QED
  BY <1>3, <1>4, <1>5, <1>6, <1>7, <1>8, <1>9, <1>10 DEF LogInv

LEMMA FlushBeginsKeeps ==
  ASSUME LogInv, NEW t \in Loggers, FlushBegins(t)
  PROVE  LogInv'
<1>0. /\ RingTyped /\ Places /\ ShuttingDown
      /\ \A s \in Loggers : Counts(s) /\ Reads(s) /\ InRing(s) /\ RoomIn(s) /\ Emptied(s)
  BY DEF LogInv
<1>1. /\ doing[t] = "flush"
      /\ doing'[t] = "tail"
      /\ (\A s \in Loggers : s # t => doing'[s] = doing[s])
      /\ at'[t].i = 1
      /\ at'[t].count = IF nrings < MaxRings THEN nrings ELSE MaxRings
      /\ (\A s \in Loggers : s # t => at'[s] = at[s])
      /\ at'[t] \in Walks
      /\ UNCHANGED <<logging, rings, nrings, ring, head, tail, entry, closing, printed, raced, setback>>
  <2>1. PICK w \in Walks, a \in Nat, c \in Nat :
          w = Nowhere /\ a = 1 /\ c = IF nrings < MaxRings THEN nrings ELSE MaxRings
    BY <1>0, RingBounds DEF RingTyped, Walks, Nowhere
  <2>2. (\A s \in Loggers : s # t => at'[s] = at[s]) /\ at'[t] = [w EXCEPT !.i = a, !.count = c]
    BY <1>0, <2>1 DEF FlushBegins, RingTyped
  <2>3. at'[t] \in Walks /\ at'[t].i = a /\ at'[t].count = c
    BY <2>2 DEF Walks
  <2> QED
    BY <1>0, <2>1, <2>2, <2>3 DEF ringVars, FlushBegins, Moves, RingTyped
<1>2. \A s \in Loggers : s \in Orderly' <=> s \in Orderly
  BY <1>1 DEF Orderly
<1>3. RingTyped'
  <2>1. at' \in [Loggers -> Walks]
    BY <1>0, <1>1 DEF RingTyped, FlushBegins
  <2>2. doing' \in [Loggers -> Doings]
    BY <1>0 DEF RingTyped, FlushBegins, Moves, Doings
  <2> QED
    BY <1>0, <1>1, <2>1, <2>2 DEF RingTyped
<1>4. Places'
  BY <1>0, <1>1 DEF Places
<1>5. \A u \in Loggers : Counts(u)'
  <2> SUFFICES ASSUME NEW u \in Loggers PROVE Counts(u)'
    OBVIOUS
  <2>1. CASE u = t
    <3>1. \A s \in Loggers : ring[s] \in Rings => ring[s] <= nrings /\ ring[s] <= MaxRings
      BY <1>0 DEF Places, Rings
    <3>2. nrings \in Nat /\ MaxRings \in Nat /\ at'[t].count <= MaxRings
      BY <1>0, <1>1, RingBounds DEF RingTyped
    <3> QED
      BY <1>1, <2>1, <3>1, <3>2 DEF Counts
  <2>2. CASE u # t
    BY <1>0, <1>1, <2>2 DEF Counts, Still
  <2> QED
    BY <2>1, <2>2
<1>6. \A u \in Loggers : Reads(u)'
  <2> SUFFICES ASSUME NEW u \in Loggers, doing'[u] \in {"head", "print"} PROVE Reads(u)'
    BY DEF Reads
  <2>1. /\ u # t /\ doing'[u] = doing[u] /\ at'[u] = at[u]
        /\ Flushed(u)' = Flushed(u) /\ Reads(u) /\ Flushed(u) \in Loggers
    BY <1>0, <1>1 DEF Flushed, Reads
  <2>2. doing'[Flushed(u)] = "store" => doing[Flushed(u)] = "store"
    BY <1>1, <2>1
  <2> QED
    BY <1>1, <1>2, <2>1, <2>2 DEF Reads, Still, Done
<1>7. \A s \in Loggers : InRing(s)'
  BY <1>0, <1>1, <1>2 DEF InRing, Stored, Done
<1>8. \A s \in Loggers : RoomIn(s)'
  BY <1>0, <1>1, <1>2 DEF RoomIn
<1>9. \A s \in Loggers : Emptied(s)'
  <2> SUFFICES ASSUME NEW s \in Loggers, s \in Orderly PROVE Emptied(s)'
    BY <1>2 DEF Emptied
  <2>1. ring[s] \in Nat /\ ring[s] >= 1
    BY <1>0 DEF Orderly, Rings
  <2>2. ~(at'[t].i > ring[s])
    BY <1>1, <2>1
  <2> QED
    BY <1>0, <1>1, <2>2 DEF Emptied, Still, Reading
<1>10. ShuttingDown'
  BY <1>0, <1>1 DEF ShuttingDown, Reading
<1> QED
  BY <1>3, <1>4, <1>5, <1>6, <1>7, <1>8, <1>9, <1>10 DEF LogInv

LEMMA SkipsRingKeeps ==
  ASSUME LogInv, NEW t \in Loggers, SkipsRing(t)
  PROVE  LogInv'
<1>0. /\ RingTyped /\ Places /\ ShuttingDown
      /\ \A s \in Loggers : Counts(s) /\ Reads(s) /\ InRing(s) /\ RoomIn(s) /\ Emptied(s)
  BY DEF LogInv
<1>1. /\ doing[t] = "tail"
      /\ doing' = doing
      /\ at[t].i <= at[t].count
      /\ rings[at[t].i] = NoLogger
      /\ at'[t].i = at[t].i + 1
      /\ at'[t].count = at[t].count
      /\ (\A s \in Loggers : s # t => at'[s] = at[s])
      /\ at'[t] \in Walks
      /\ UNCHANGED <<logging, rings, nrings, ring, head, tail, entry, closing, printed, raced, setback>>
  <2>1. PICK w \in Walks, a \in Nat : w = at[t] /\ a = at[t].i + 1
    BY <1>0 DEF RingTyped, Walks
  <2>2. (\A s \in Loggers : s # t => at'[s] = at[s]) /\ at'[t] = [w EXCEPT !.i = a]
    BY <1>0, <2>1 DEF SkipsRing, RingTyped
  <2>3. at'[t] \in Walks /\ at'[t].i = a /\ at'[t].count = w.count
    BY <2>2 DEF Walks
  <2> QED
    BY <1>0, <2>1, <2>2, <2>3 DEF ringVars, SkipsRing, Moves
<1>2. \A s \in Loggers : s \in Orderly' <=> s \in Orderly
  BY <1>1 DEF Orderly
<1>3. RingTyped'
  <2>1. at' \in [Loggers -> Walks]
    BY <1>0, <1>1 DEF RingTyped, SkipsRing
  <2>2. doing' \in [Loggers -> Doings]
    BY <1>0 DEF RingTyped, SkipsRing, Moves, Doings
  <2> QED
    BY <1>0, <1>1, <2>1, <2>2 DEF RingTyped
<1>4. Places'
  BY <1>0, <1>1 DEF Places
<1>5. \A u \in Loggers : Counts(u)'
  <2>1. at[t].i \in Nat /\ at[t].i >= 1 => at'[t].i >= 1
    BY <1>1
  <2>2. at[t].i \in Nat
    BY <1>0 DEF RingTyped, Walks
  <2> QED
    BY <1>0, <1>1, <2>1, <2>2 DEF Counts, Still, Reading
<1>6. \A u \in Loggers : Reads(u)'
  BY <1>0, <1>1, <1>2, RingBounds DEF Reads, Still, Flushed, Done
<1>7. \A s \in Loggers : InRing(s)'
  BY <1>0, <1>1, <1>2 DEF InRing, Stored, Done
<1>8. \A s \in Loggers : RoomIn(s)'
  BY <1>0, <1>1, <1>2 DEF RoomIn
<1>9. \A s \in Loggers : Emptied(s)'
  <2> SUFFICES ASSUME NEW s \in Loggers, s \in Orderly PROVE Emptied(s)'
    BY <1>2 DEF Emptied
  <2>1. ring[s] \in Nat /\ ring[s] \in Rings /\ at[t].i \in Nat
    BY <1>0 DEF RingTyped, Orderly, Walks
  <2>2. ASSUME Still(t, s) PROVE at[t].i # ring[s]
    <3>1. doing[s] # "enter"
      <4>1. CASE s = t
        BY <1>1, <4>1
      <4>2. CASE closing = t /\ s # t
        BY <1>0, <4>2, LoggersAssumption DEF ShuttingDown
      <4> QED
        BY <2>2, <4>1, <4>2 DEF Still
    <3> QED
      BY <1>0, <1>1, <2>1, <3>1, LoggersAssumption DEF Places
  <2>3. Still(t, s) /\ at'[t].i > ring[s] => at[t].i > ring[s]
    BY <1>1, <2>1, <2>2
  <2> QED
    BY <1>0, <1>1, <2>3 DEF Emptied, Still, Reading
<1>10. ShuttingDown'
  BY <1>0, <1>1 DEF ShuttingDown
<1> QED
  BY <1>3, <1>4, <1>5, <1>6, <1>7, <1>8, <1>9, <1>10 DEF LogInv

LEMMA ReadTailKeeps ==
  ASSUME LogInv, NEW t \in Loggers, ReadTail(t)
  PROVE  LogInv'
<1>0. /\ RingTyped /\ Places /\ ShuttingDown
      /\ \A s \in Loggers : Counts(s) /\ Reads(s) /\ InRing(s) /\ RoomIn(s) /\ Emptied(s)
  BY DEF LogInv
<1>1. /\ doing[t] = "tail"
      /\ doing'[t] = "head"
      /\ (\A s \in Loggers : s # t => doing'[s] = doing[s])
      /\ at[t].i <= at[t].count
      /\ Flushed(t) # NoLogger
      /\ at'[t].i = at[t].i
      /\ at'[t].count = at[t].count
      /\ at'[t].tail = tail[Flushed(t)]
      /\ at'[t].head = tail[Flushed(t)]
      /\ (\A s \in Loggers : s # t => at'[s] = at[s])
      /\ at'[t] \in Walks
      /\ UNCHANGED <<logging, rings, nrings, ring, head, tail, entry, closing, printed, raced, setback>>
  <2>1. PICK w \in Walks, a \in Nat : w = at[t] /\ a = tail[Flushed(t)]
    <3>1. at[t].i \in Rings
      BY <1>0, RingBounds DEF RingTyped, Walks, ReadTail, Counts, Rings, Reading, Moves
    <3>2. Flushed(t) \in Loggers
      BY <1>0, <3>1 DEF RingTyped, ReadTail, Flushed
    <3> QED
      BY <1>0, <3>2 DEF RingTyped
  <2>2. (\A s \in Loggers : s # t => at'[s] = at[s]) /\ at'[t] = [w EXCEPT !.tail = a, !.head = a]
    BY <1>0, <2>1 DEF ReadTail, RingTyped
  <2>3. at'[t] \in Walks /\ at'[t].i = w.i /\ at'[t].count = w.count /\ at'[t].tail = a /\ at'[t].head = a
    BY <2>2 DEF Walks
  <2> QED
    BY <1>0, <2>1, <2>2, <2>3 DEF ringVars, ReadTail, Moves, RingTyped
<1>2. \A s \in Loggers : s \in Orderly' <=> s \in Orderly
  BY <1>1 DEF Orderly
<1>3. RingTyped'
  <2>1. at' \in [Loggers -> Walks]
    BY <1>0, <1>1 DEF RingTyped, ReadTail
  <2>2. doing' \in [Loggers -> Doings]
    BY <1>0 DEF RingTyped, ReadTail, Moves, Doings
  <2> QED
    BY <1>0, <1>1, <2>1, <2>2 DEF RingTyped
<1>4. Places'
  BY <1>0, <1>1 DEF Places
<1>5. \A u \in Loggers : Counts(u)'
  BY <1>0, <1>1 DEF Counts, Still, Reading
<1>6. \A u \in Loggers : Reads(u)'
  <2> SUFFICES ASSUME NEW u \in Loggers PROVE Reads(u)'
    OBVIOUS
  <2>1. CASE u = t
    <3>1. at[t].i \in Rings
      BY <1>0, <1>1, RingBounds DEF Walks, Counts, Reading, Rings
    <3>2. Flushed(t) \in Loggers /\ Flushed(t)' = Flushed(t)
      BY <1>0, <1>1, <3>1 DEF RingTyped, Flushed
    <3>3. tail[Flushed(t)] \in Nat /\ tail[Flushed(t)] <= head[Flushed(t)] /\ InRing(Flushed(t))
      BY <1>0, <3>2 DEF RingTyped, Places
    <3> QED
      BY <1>1, <1>2, <2>1, <3>1, <3>2, <3>3 DEF Reads, InRing, Done
  <2>2. CASE u # t
    BY <1>0, <1>1, <1>2, <2>2 DEF Reads, Still, Flushed, Done
  <2> QED
    BY <2>1, <2>2
<1>7. \A s \in Loggers : InRing(s)'
  BY <1>0, <1>1, <1>2 DEF InRing, Stored, Done
<1>8. \A s \in Loggers : RoomIn(s)'
  BY <1>0, <1>1, <1>2 DEF RoomIn
<1>9. \A s \in Loggers : Emptied(s)'
  BY <1>0, <1>1, <1>2 DEF Emptied, Still, Reading
<1>10. ShuttingDown'
  BY <1>0, <1>1 DEF ShuttingDown, Reading
<1> QED
  BY <1>3, <1>4, <1>5, <1>6, <1>7, <1>8, <1>9, <1>10 DEF LogInv

LEMMA ReadHeadKeeps ==
  ASSUME LogInv, NEW t \in Loggers, ReadHead(t)
  PROVE  LogInv'
<1>0. /\ RingTyped /\ Places /\ ShuttingDown
      /\ \A s \in Loggers : Counts(s) /\ Reads(s) /\ InRing(s) /\ RoomIn(s) /\ Emptied(s)
  BY DEF LogInv
<1>1. /\ doing[t] = "head"
      /\ doing'[t] = "print"
      /\ (\A s \in Loggers : s # t => doing'[s] = doing[s])
      /\ at'[t].i = at[t].i
      /\ at'[t].count = at[t].count
      /\ at'[t].tail = at[t].tail
      /\ at'[t].head = head[Flushed(t)]
      /\ (\A s \in Loggers : s # t => at'[s] = at[s])
      /\ raced' = IF doing[Flushed(t)] = "store" THEN raced \cup {<<Flushed(t), head[Flushed(t)]>>} ELSE raced
      /\ at'[t] \in Walks
      /\ UNCHANGED <<logging, rings, nrings, ring, head, tail, entry, closing, printed, setback>>
  <2>1. PICK w \in Walks, a \in Nat : w = at[t] /\ a = head[Flushed(t)]
    BY <1>0 DEF RingTyped, Walks, ReadHead, Reads, Moves
  <2>2. (\A s \in Loggers : s # t => at'[s] = at[s]) /\ at'[t] = [w EXCEPT !.head = a]
    BY <1>0, <2>1 DEF ReadHead, RingTyped
  <2>3. at'[t] \in Walks /\ at'[t].i = w.i /\ at'[t].count = w.count /\ at'[t].tail = w.tail /\ at'[t].head = a
    BY <2>2 DEF Walks
  <2> QED
    BY <1>0, <2>1, <2>2, <2>3 DEF ringVars, ReadHead, Moves, RingTyped
<1>2. \A s \in Loggers : s \in Orderly' <=> s \in Orderly
  BY <1>1 DEF Orderly
<1>3. RingTyped'
  <2>1. at' \in [Loggers -> Walks]
    BY <1>0, <1>1 DEF RingTyped, ReadHead
  <2>2. doing' \in [Loggers -> Doings]
    BY <1>0 DEF RingTyped, ReadHead, Moves, Doings
  <2> QED
    BY <1>0, <1>1, <2>1, <2>2 DEF RingTyped
<1>4. Places'
  BY <1>0, <1>1 DEF Places
<1>5. \A u \in Loggers : Counts(u)'
  BY <1>0, <1>1 DEF Counts, Still, Reading
<1>6. \A u \in Loggers : Reads(u)'
  <2> SUFFICES ASSUME NEW u \in Loggers PROVE Reads(u)'
    OBVIOUS
  <2>1. raced \subseteq raced'
    BY <1>1
  <2>2. CASE u = t
    <3>1. at[t].i \in Rings /\ Flushed(t) \in Loggers /\ Flushed(t)' = Flushed(t) /\ Reads(t)
      BY <1>0, <1>1 DEF Reads, Flushed
    <3>2. at[t].tail \in Nat /\ head[Flushed(t)] \in Nat /\ at[t].tail <= head[Flushed(t)]
      BY <1>0, <1>1, <3>1 DEF Reads, Walks
    <3>3. doing[Flushed(t)] = "store" => <<Flushed(t), head[Flushed(t)]>> \in raced'
      BY <1>1
    <3>4. doing'[Flushed(t)] = "store" => doing[Flushed(t)] = "store"
      BY <1>1, <3>1
    <3> QED
      BY <1>1, <1>2, <2>1, <2>2, <3>1, <3>2, <3>3, <3>4 DEF Reads, Done
  <2>3. CASE u # t
    <3> SUFFICES ASSUME doing[u] \in {"head", "print"} PROVE Reads(u)'
      BY <1>1, <2>3 DEF Reads
    <3>1. Flushed(u)' = Flushed(u) /\ at'[u] = at[u] /\ doing'[u] = doing[u] /\ Flushed(u) \in Loggers
      BY <1>0, <1>1, <2>3 DEF Flushed, Reads
    <3>2. doing'[Flushed(u)] = "store" => doing[Flushed(u)] = "store"
      BY <1>1, <3>1
    <3> QED
      BY <1>0, <1>1, <1>2, <2>1, <3>1, <3>2 DEF Reads, Still, Done
  <2> QED
    BY <2>2, <2>3
<1>7. \A s \in Loggers : InRing(s)'
  BY <1>0, <1>1, <1>2 DEF InRing, Stored, Done
<1>8. \A s \in Loggers : RoomIn(s)'
  BY <1>0, <1>1, <1>2 DEF RoomIn
<1>9. \A s \in Loggers : Emptied(s)'
  BY <1>0, <1>1, <1>2 DEF Emptied, Still, Reading
<1>10. ShuttingDown'
  BY <1>0, <1>1 DEF ShuttingDown, Reading
<1> QED
  BY <1>3, <1>4, <1>5, <1>6, <1>7, <1>8, <1>9, <1>10 DEF LogInv

LEMMA FlushEndsKeeps ==
  ASSUME LogInv, NEW t \in Loggers, FlushEnds(t)
  PROVE  LogInv'
<1>0. /\ RingTyped /\ Places /\ ShuttingDown
      /\ \A s \in Loggers : Counts(s) /\ Reads(s) /\ InRing(s) /\ RoomIn(s) /\ Emptied(s)
  BY DEF LogInv
<1>1. /\ at[t].i > at[t].count
      /\ doing[t] = "tail"
      /\ doing'[t] = "idle"
      /\ (\A s \in Loggers : s # t => doing'[s] = doing[s])
      /\ at'[t] = Nowhere
      /\ (\A s \in Loggers : s # t => at'[s] = at[s])
      /\ logging' = (closing # t)
      /\ UNCHANGED <<rings, nrings, ring, head, tail, entry, closing, printed, raced, setback>>
  BY <1>0 DEF ringVars, FlushEnds, Moves, RingTyped
<1>2. \A s \in Loggers : s \in Orderly' <=> s \in Orderly
  BY <1>1 DEF Orderly
<1>11. \A s \in Loggers : s \in Orderly /\ Still(t, s) => tail[s] = head[s]
  <2> SUFFICES ASSUME NEW s \in Loggers, s \in Orderly, Still(t, s) PROVE tail[s] = head[s]
    OBVIOUS
  <2>1. ring[s] \in Rings /\ ring[s] \in Nat /\ at[t].i \in Nat /\ at[t].count \in Nat
    BY <1>0 DEF RingTyped, Orderly, Walks
  <2>2. ring[s] <= at[t].count
    BY <1>0, <1>1, <2>1 DEF Counts, Reading
  <2>3. at[t].i > ring[s]
    BY <1>1, <2>1, <2>2
  <2> QED
    BY <1>0, <1>1, <2>3 DEF Emptied, Reading
<1>3. RingTyped'
  BY <1>0, NowhereType DEF ringVars, FlushEnds, Moves, RingTyped, Doings
<1>4. Places'
  BY <1>0, <1>1 DEF Places
<1>5. \A u \in Loggers : Counts(u)'
  BY <1>0, <1>1 DEF Counts, Still, Reading
<1>6. \A u \in Loggers : Reads(u)'
  BY <1>0, <1>1, <1>2, RingBounds DEF Reads, Still, Flushed, Done
<1>7. \A s \in Loggers : InRing(s)'
  BY <1>0, <1>1, <1>2 DEF InRing, Stored, Done
<1>8. \A s \in Loggers : RoomIn(s)'
  <2> SUFFICES ASSUME NEW s \in Loggers, s \in Orderly PROVE RoomIn(s)'
    BY <1>2 DEF RoomIn
  <2>1. head[s] \in Nat /\ tail[s] \in Nat /\ RoomIn(s)
    BY <1>0 DEF RingTyped
  <2>2. CASE s = t
    BY <1>1, <1>11, <2>1, <2>2, RingBounds DEF RoomIn, Still
  <2>3. CASE s # t
    BY <1>1, <2>1, <2>3 DEF RoomIn
  <2> QED
    BY <2>2, <2>3
<1>9. \A s \in Loggers : Emptied(s)'
  <2> SUFFICES ASSUME NEW s \in Loggers, s \in Orderly PROVE Emptied(s)'
    BY <1>2 DEF Emptied
  <2>1. ~logging' => tail[s] = head[s]
    BY <1>1, <1>11 DEF Still
  <2>2. \A u \in Loggers : doing'[u] \in Reading => u # t /\ doing[u] \in Reading /\ at'[u] = at[u]
    BY <1>1 DEF Reading
  <2> QED
    BY <1>0, <1>1, <2>1, <2>2 DEF Emptied, Still
<1>10. ShuttingDown'
  <2>1. CASE closing = t
    <3>1. logging' = FALSE /\ closing' = t /\ doing'[t] = "idle"
      BY <1>1, <2>1
    <3>2. \A s \in Loggers \ {t} : doing'[s] = "idle"
      BY <1>0, <1>1, <2>1, LoggersAssumption DEF ShuttingDown
    <3> QED
      BY <3>1, <3>2, LoggersAssumption DEF ShuttingDown
  <2>2. CASE closing # t
    <3>1. closing = NoLogger /\ logging' = TRUE
      BY <1>0, <1>1, <2>2 DEF ShuttingDown
    <3> QED
      BY <1>1, <3>1 DEF ShuttingDown
  <2> QED
    BY <2>1, <2>2
<1> QED
  BY <1>3, <1>4, <1>5, <1>6, <1>7, <1>8, <1>9, <1>10 DEF LogInv

LEMMA ShutdownKeeps ==
  ASSUME LogInv, NEW t \in Loggers, Shutdown(t)
  PROVE  LogInv'
<1>0. /\ RingTyped /\ Places /\ ShuttingDown
      /\ \A s \in Loggers : Counts(s) /\ Reads(s) /\ InRing(s) /\ RoomIn(s) /\ Emptied(s)
  BY DEF LogInv
<1>1. /\ logging
      /\ closing = NoLogger
      /\ (\A s \in Loggers \ {t} : doing[s] = "idle")
      /\ doing[t] = "idle"
      /\ doing'[t] = "flush"
      /\ (\A s \in Loggers : s # t => doing'[s] = doing[s])
      /\ closing' = t
      /\ UNCHANGED <<logging, rings, nrings, ring, head, tail, entry, at, printed, raced, setback>>
  BY <1>0 DEF ringVars, Shutdown, Moves, RingTyped
<1>2. \A s \in Loggers : s \in Orderly' <=> s \in Orderly
  BY <1>1 DEF Orderly
<1>3. RingTyped'
  BY <1>0 DEF ringVars, Shutdown, Moves, RingTyped, Doings
<1>4. Places'
  BY <1>0, <1>1 DEF Places
<1>5. \A u \in Loggers : Counts(u)'
  BY <1>0, <1>1 DEF Counts, Reading
<1>6. \A u \in Loggers : Reads(u)'
  BY <1>0, <1>1 DEF Reads, Flushed, Done
<1>7. \A s \in Loggers : InRing(s)'
  BY <1>0, <1>1, <1>2 DEF InRing, Stored, Done
<1>8. \A s \in Loggers : RoomIn(s)'
  <2> SUFFICES ASSUME NEW s \in Loggers PROVE RoomIn(s)'
    OBVIOUS
  <2>1. doing'[s] \in {"idle", "enter", "reserve"} => doing'[s] = doing[s]
    BY <1>1
  <2> QED
    BY <1>0, <1>1, <1>2, <2>1 DEF RoomIn
<1>9. \A s \in Loggers : Emptied(s)'
  <2>1. \A u \in Loggers : doing'[u] \notin Reading
    BY <1>1 DEF Reading
  <2> QED
    BY <1>1, <2>1 DEF Emptied
<1>10. ShuttingDown'
  <2>1. \A s \in Loggers \ {t} : doing'[s] = "idle"
    BY <1>1
  <2> QED
    BY <1>1, <2>1 DEF ShuttingDown
<1> QED
  BY <1>3, <1>4, <1>5, <1>6, <1>7, <1>8, <1>9, <1>10 DEF LogInv

LEMMA LogWriteKeeps ==
  ASSUME LogInv, NEW t \in Loggers, LogWrite(t)
  PROVE  LogInv'
<1>0. /\ RingTyped /\ Places /\ ShuttingDown
      /\ \A s \in Loggers : Counts(s) /\ Reads(s) /\ InRing(s) /\ RoomIn(s) /\ Emptied(s)
  BY DEF LogInv
<1>1. /\ logging /\ closing = NoLogger /\ doing[t] = "idle" /\ doing'[t] \in {"enter", "reserve"}
      /\ \A s \in Loggers : s # t => doing'[s] = doing[s]
      /\ UNCHANGED <<logging, rings, head, tail, entry, at, closing, printed, raced, setback>>
  BY <1>0 DEF LogWrite, Moves, RingTyped
<1>2. \/ ring[t] # 0 /\ doing'[t] = "reserve" /\ nrings' = nrings /\ ring' = ring
      \/ /\ ring[t] = 0 /\ doing'[t] = "enter" /\ nrings' = nrings + 1 /\ ring'[t] = nrings + 1
         /\ \A s \in Loggers : s # t => ring'[s] = ring[s]
  BY <1>0 DEF LogWrite, Moves, RingTyped
<1>3. \A u \in Loggers : Still(u, t)' => u = t
  BY <1>1, LoggersAssumption DEF Still
<1>4. \A s \in Loggers : s # t => (s \in Orderly' <=> s \in Orderly)
  BY <1>1, <1>2 DEF Orderly
<1>5. ring[t] = 0 => head[t] = 0 /\ tail[t] = 0
  BY <1>0 DEF Places, RingTyped
<1>6. ring[t] # 0 => (t \in Orderly' <=> t \in Orderly)
  BY <1>1, <1>2 DEF Orderly
<1>7. RingTyped'
  <2>1. nrings' \in Nat /\ ring' \in [Loggers -> Nat]
    BY <1>0 DEF LogWrite, RingTyped
  <2>2. doing' \in [Loggers -> Doings]
    BY <1>0 DEF LogWrite, Moves, RingTyped, Doings
  <2> QED
    BY <1>0, <1>1, <2>1, <2>2 DEF RingTyped
<1>8. Places'
  <2>1. CASE ring[t] # 0
    <3>1. ring' = ring /\ nrings' = nrings /\ doing'[t] = "reserve"
      BY <1>2, <2>1
    <3>2. \A s \in Loggers : ring[s] \in Rings /\ doing'[s] # "enter" => rings[ring[s]] = s
      BY <1>0, <1>1 DEF Places
    <3>3. \A s \in Loggers :
            ring[s] = 0 => head[s] = 0 /\ doing'[s] \notin {"enter", "reserve", "store", "check"}
      BY <1>0, <1>1, <2>1 DEF Places
    <3> QED
      BY <1>0, <1>1, <3>1, <3>2, <3>3 DEF Places
  <2>2. CASE ring[t] = 0
    <3>1. \A s \in Loggers : ring[s] \in Nat /\ ring[s] <= nrings /\ nrings \in Nat
      BY <1>0 DEF Places, RingTyped
    <3>2. \A r \in Rings : rings[r] # NoLogger => rings[r] \in Loggers /\ rings[r] # t
      BY <1>0, <2>2, RingBounds DEF Places, RingTyped, Rings
    <3> QED
      BY <1>0, <1>1, <1>2, <1>5, <2>2, <3>1, <3>2 DEF Places
  <2> QED
    BY <2>1, <2>2
<1>9. \A u \in Loggers : Counts(u)'
  <2> SUFFICES ASSUME NEW u \in Loggers, doing'[u] \in Reading PROVE Counts(u)'
    BY DEF Counts
  <2>1. u # t /\ doing[u] \in Reading
    BY <1>1 DEF Reading
  <2> QED
    BY <1>0, <1>1, <1>2, <1>3, <2>1 DEF Counts, Still
<1>10. \A u \in Loggers : Reads(u)'
  <2> SUFFICES ASSUME NEW u \in Loggers, doing'[u] \in {"head", "print"} PROVE Reads(u)'
    BY DEF Reads
  <2>1. u # t /\ doing[u] \in {"head", "print"} /\ doing'[u] = doing[u]
    BY <1>1
  <2>2. at[u].i \in Rings /\ Flushed(u) \in Loggers /\ Flushed(u)' = Flushed(u) /\ Reads(u)
    BY <1>0, <1>1, <2>1 DEF Reads, Flushed
  <2>3. Flushed(u) = t => ring[t] # 0
    BY <1>0, <2>2, LoggersAssumption DEF Places, Flushed, Rings
  <2>4. Flushed(u) \in Orderly' => Flushed(u) \in Orderly
    BY <1>4, <1>6, <2>2, <2>3
  <2>5. doing'[Flushed(u)] = "store" => doing[Flushed(u)] = "store"
    BY <1>1, <2>2
  <2> QED
    BY <1>1, <2>1, <2>2, <2>4, <2>5 DEF Reads, Still, Done
<1>11. \A s \in Loggers : InRing(s)'
  <2> SUFFICES ASSUME NEW s \in Loggers, s \in Orderly' PROVE InRing(s)'
    BY DEF InRing
  <2>1. CASE s = t /\ ring[t] = 0
    BY <1>1, <1>5, <2>1 DEF InRing, Stored
  <2>2. CASE s # t \/ ring[t] # 0
    <3>1. s \in Orderly /\ InRing(s)
      BY <1>0, <1>4, <1>6, <2>2
    <3>2. Stored(s)' = Stored(s)
      BY <1>1 DEF Stored
    <3> QED
      BY <1>1, <3>1, <3>2 DEF InRing, Done
  <2> QED
    BY <2>1, <2>2
<1>12. \A s \in Loggers : RoomIn(s)'
  <2> SUFFICES ASSUME NEW s \in Loggers, s \in Orderly' PROVE RoomIn(s)'
    BY DEF RoomIn
  <2>1. CASE s = t /\ ring[t] = 0
    BY <1>1, <1>5, <2>1, RingBounds DEF RoomIn
  <2>2. CASE s # t \/ ring[t] # 0
    <3>1. s \in Orderly /\ RoomIn(s)
      BY <1>0, <1>4, <1>6, <2>2
    <3> QED
      BY <1>1, <3>1 DEF RoomIn
  <2> QED
    BY <2>1, <2>2
<1>13. \A s \in Loggers : Emptied(s)'
  <2> SUFFICES ASSUME NEW s \in Loggers, s \in Orderly' PROVE Emptied(s)'
    BY DEF Emptied
  <2>1. CASE s = t
    BY <1>1, <1>3, <2>1 DEF Emptied, Reading
  <2>2. CASE s # t
    <3>1. s \in Orderly /\ Emptied(s) /\ ring'[s] = ring[s]
      BY <1>0, <1>2, <1>4, <2>2
    <3> QED
      BY <1>1, <2>2, <3>1 DEF Emptied, Still, Reading
  <2> QED
    BY <2>1, <2>2
<1>14. ShuttingDown'
  BY <1>1 DEF ShuttingDown
<1> QED
  BY <1>7, <1>8, <1>9, <1>10, <1>11, <1>12, <1>13, <1>14 DEF LogInv

LEMMA Print1Keeps ==
  ASSUME LogInv, NEW t \in Loggers, Print1(t)
  PROVE  LogInv'
<1>0. /\ RingTyped /\ Places /\ ShuttingDown
      /\ \A s \in Loggers : Counts(s) /\ Reads(s) /\ InRing(s) /\ RoomIn(s) /\ Emptied(s)
  BY DEF LogInv
<1>1. /\ doing[t] = "print" /\ at[t].tail # at[t].head
      /\ UNCHANGED <<logging, rings, nrings, ring, head, tail, entry, doing, closing, raced, setback>>
  BY DEF ringVars, Print1
<1>2. PICK w \in Walks, a \in Nat : w = at[t] /\ a = at[t].tail + 1
  BY <1>0 DEF RingTyped, Walks
<1>3. (\A s \in Loggers : s # t => at'[s] = at[s]) /\ at' = [at EXCEPT ![t] = [w EXCEPT !.tail = a]]
  BY <1>0, <1>2 DEF Print1
<1>4. /\ at'[t] \in Walks /\ at'[t].i = at[t].i /\ at'[t].count = at[t].count /\ at'[t].head = at[t].head
      /\ at'[t].tail = at[t].tail + 1
  <2>1. at'[t] = [w EXCEPT !.tail = a]
    BY <1>0, <1>3 DEF RingTyped
  <2> QED
    BY <1>2, <2>1 DEF Walks
<1>5. PICK s \in Loggers : s = Flushed(t) /\ at[t].i \in Rings
  BY <1>0, <1>1 DEF Reads
<1>6. PICK n \in Found(s, Pos(at[t].tail)) : printed' = IF n = 0 THEN printed ELSE printed \cup {<<s, n>>}
  BY <1>5 DEF Print1
<1>7. printed \subseteq printed' /\ (\A x \in Loggers : x \in Orderly' <=> x \in Orderly)
  BY <1>1, <1>6 DEF Orderly
<1>8. /\ tail[s] \in Nat /\ head[s] \in Nat /\ at[t].tail \in Nat /\ at[t].head \in Nat
      /\ at[t].tail <= at[t].head /\ at[t].head <= head[s]
      /\ at[t].head = head[s] /\ doing[s] = "store" => <<s, head[s]>> \in raced
  <2>1. at[t] \in Walks /\ Reads(t)
    BY <1>0 DEF RingTyped
  <2>2. at[t].tail \in Nat /\ at[t].head \in Nat
    BY <2>1 DEF Walks
  <2>3. tail[s] \in Nat /\ head[s] \in Nat
    BY <1>0 DEF RingTyped
  <2> QED
    BY <1>1, <1>5, <2>1, <2>2, <2>3 DEF Reads
<1>k. PICK k \in Nat : k = at[t].tail + 1 /\ k \in 1..head[s] /\ k <= at[t].head
  BY <1>1, <1>8
<1>d. s \in Orderly => Done(s, k)'
  <2> SUFFICES ASSUME s \in Orderly PROVE Done(s, k)'
    OBVIOUS
  <2>1. Done(s, k) => Done(s, k)'
    BY <1>1, <1>7 DEF Done
  <2>3. CASE k <= tail[s]
    <3>1. Done(s, k)
      BY <1>0, <1>8, <1>k, <2>3 DEF InRing
    <3> QED
      BY <2>1, <3>1
  <2>4. CASE k > tail[s] /\ k \notin Stored(s)
    <3>1. k = head[s] /\ doing[s] = "store" /\ at[t].head = head[s]
      BY <1>8, <1>k, <2>4 DEF Stored
    <3>2. <<s, k>> \in raced'
      BY <1>1, <1>8, <3>1
    <3> QED
      BY <3>2 DEF Done
  <2>5. CASE k > tail[s] /\ k \in Stored(s)
    <3>1. entry[s][Pos(k - 1)] = k /\ k - 1 = at[t].tail
      BY <1>0, <1>8, <1>k, <2>5 DEF InRing
    <3>2. ASSUME doing[s] = "store" PROVE Pos(head[s] - 1) # Pos(k - 1)
      <4>1. k # head[s]
        BY <2>5, <3>2 DEF Stored
      <4>2. k - 1 < head[s] - 1 /\ (head[s] - 1) - (k - 1) < RingSize
        BY <1>0, <1>8, <1>k, <2>5, <4>1, RingBounds DEF RoomIn
      <4> QED
        BY <1>8, <1>k, <4>2, NearSlots
    <3>3. n = k
      BY <3>1, <3>2 DEF Found
    <3>4. <<s, k>> \in printed'
      BY <1>6, <1>k, <3>3
    <3> QED
      BY <3>4 DEF Done
  <2> QED
    BY <1>8, <1>k, <2>3, <2>4, <2>5
<1>9. RingTyped'
  <2>1. at' \in [Loggers -> Walks]
    BY <1>0, <1>3 DEF RingTyped, Walks
  <2> QED
    BY <1>0, <1>1, <2>1 DEF RingTyped
<1>10. Places'
  BY <1>0, <1>1 DEF Places
<1>11. \A u \in Loggers : Counts(u)'
  BY <1>0, <1>1, <1>3, <1>4 DEF Counts, Still
<1>12. \A u \in Loggers : Reads(u)'
  <2> SUFFICES ASSUME NEW u \in Loggers PROVE Reads(u)'
    OBVIOUS
  <2>1. CASE u = t
    <3>1. Flushed(t)' = s /\ Reads(t) /\ Flushed(t) = s
      BY <1>0, <1>1, <1>4, <1>5 DEF Flushed
    <3>3. s \in Orderly' => \A m \in 1..k : Done(s, m)'
      <4> SUFFICES ASSUME s \in Orderly, NEW m \in 1..k PROVE Done(s, m)'
        BY <1>7
      <4>1. CASE m = k
        BY <1>d, <4>1
      <4>2. CASE m # k
        <5>1. m \in 1..at[t].tail
          BY <1>8, <1>k, <4>2
        <5>2. Done(s, m)
          BY <1>1, <3>1, <5>1 DEF Reads
        <5> QED
          BY <1>1, <1>7, <5>2 DEF Done
      <4> QED
        BY <4>1, <4>2
    <3>4. at'[t].tail = k /\ at'[t].head = at[t].head /\ at'[t].i = at[t].i
      BY <1>4, <1>k
    <3> QED
      BY <1>1, <1>5, <1>8, <1>k, <2>1, <3>1, <3>3, <3>4 DEF Reads, Still
  <2>2. CASE u # t
    <3>1. Flushed(u)' = Flushed(u) /\ Reads(u) /\ at'[u] = at[u]
      BY <1>0, <1>1, <1>3, <2>2 DEF Flushed
    <3> QED
      BY <1>1, <1>7, <3>1 DEF Reads, Still, Done
  <2> QED
    BY <2>1, <2>2
<1>13. \A x \in Loggers : InRing(x)'
  BY <1>0, <1>1, <1>7 DEF InRing, Stored, Done
<1>14. \A x \in Loggers : RoomIn(x)'
  BY <1>0, <1>1, <1>7 DEF RoomIn
<1>15. \A x \in Loggers : Emptied(x)'
  BY <1>0, <1>1, <1>3, <1>4, <1>7 DEF Emptied, Still
<1>16. ShuttingDown'
  BY <1>0, <1>1 DEF ShuttingDown
<1> QED
  BY <1>9, <1>10, <1>11, <1>12, <1>13, <1>14, <1>15, <1>16 DEF LogInv

LEMMA SaveTailKeeps ==
  ASSUME LogInv, NEW t \in Loggers, SaveTail(t)
  PROVE  LogInv'
<1>0. /\ RingTyped /\ Places /\ ShuttingDown
      /\ \A s \in Loggers : Counts(s) /\ Reads(s) /\ InRing(s) /\ RoomIn(s) /\ Emptied(s)
  BY DEF LogInv
<1>1. /\ doing[t] = "print" /\ doing'[t] = "tail" /\ (\A x \in Loggers : x # t => doing'[x] = doing[x])
      /\ at[t].tail = at[t].head
      /\ UNCHANGED <<logging, rings, nrings, ring, head, entry, closing, printed, raced>>
  BY <1>0 DEF ringVars, SaveTail, Moves, RingTyped
<1>2. PICK s \in Loggers : s = Flushed(t) /\ at[t].i \in Rings
  BY <1>0, <1>1 DEF Reads
<1>3. PICK w \in Walks, a \in Nat, c \in Nat : w = Nowhere /\ a = at[t].i + 1 /\ c = at[t].count
  <2>1. at[t].i + 1 \in Nat /\ at[t].count \in Nat
    BY <1>0 DEF RingTyped, Walks
  <2>2. Nowhere \in Walks
    BY DEF Walks, Nowhere
  <2> QED
    BY <2>1, <2>2
<1>4. (\A x \in Loggers : x # t => at'[x] = at[x]) /\ at' = [at EXCEPT ![t] = [w EXCEPT !.i = a, !.count = c]]
  BY <1>0, <1>3 DEF SaveTail
<1>5. at' \in [Loggers -> Walks] /\ at'[t].i = at[t].i + 1 /\ at'[t].count = at[t].count
  <2>1. at'[t] = [w EXCEPT !.i = a, !.count = c]
    BY <1>0, <1>4 DEF RingTyped
  <2>2. at'[t] \in Walks /\ at'[t].i = a /\ at'[t].count = c
    BY <1>3, <2>1 DEF Walks
  <2> QED
    BY <1>0, <1>3, <1>4, <2>2 DEF RingTyped
<1>6. PICK k \in Nat : /\ k = at[t].tail /\ k = at[t].head /\ k <= head[s]
                       /\ head[s] \in Nat /\ tail[s] \in Nat /\ tail[s] <= head[s]
                       /\ (Still(t, s) => k = head[s])
                       /\ s \in Orderly => \A n \in 1..k : Done(s, n)
  <2>1. at[t] \in Walks /\ Reads(t) /\ Flushed(t) = s
    BY <1>0, <1>2 DEF RingTyped
  <2>2. at[t].tail \in Nat
    BY <2>1 DEF Walks
  <2>3. tail[s] \in Nat /\ head[s] \in Nat /\ tail[s] <= head[s]
    BY <1>0 DEF RingTyped, Places
  <2>4. at[t].head <= head[s] /\ (Still(t, s) => at[t].head = head[s])
    BY <1>1, <2>1 DEF Reads
  <2>5. s \in Orderly => \A n \in 1..at[t].tail : Done(s, n)
    BY <1>1, <2>1 DEF Reads
  <2> QED
    BY <1>1, <2>2, <2>3, <2>4, <2>5
<1>7. tail'[s] = k /\ (\A x \in Loggers : x # s => tail'[x] = tail[x]) /\ tail' \in [Loggers -> Nat]
  BY <1>0, <1>2, <1>6 DEF SaveTail, RingTyped
<1>8. (\A x \in Loggers : x \in Orderly' => x \in Orderly) /\ (s \in Orderly' => tail[s] <= k)
  <2>1. setback' = IF k < tail[s] THEN setback \cup {s} ELSE setback
    BY <1>2, <1>6 DEF SaveTail
  <2> QED
    BY <1>1, <1>6, <2>1 DEF Orderly
<1>9. RingTyped'
  <2>1. doing' \in [Loggers -> Doings]
    BY <1>0 DEF SaveTail, Moves, RingTyped, Doings
  <2> QED
    BY <1>0, <1>1, <1>5, <1>7, <2>1 DEF RingTyped
<1>10. Places'
  <2>1. \A x \in Loggers : tail'[x] <= head'[x]
    BY <1>0, <1>1, <1>6, <1>7 DEF Places
  <2>2. \A x \in Loggers :
          doing'[x] \in {"enter", "reserve", "store", "check"}
            <=> doing[x] \in {"enter", "reserve", "store", "check"}
    BY <1>1
  <2>3. \A x \in Loggers : doing'[x] # "enter" => doing[x] # "enter"
    BY <1>1
  <2> QED
    BY <1>0, <1>1, <2>1, <2>2, <2>3 DEF Places
<1>11. \A u \in Loggers : Counts(u)'
  <2> SUFFICES ASSUME NEW u \in Loggers PROVE Counts(u)'
    OBVIOUS
  <2>1. CASE u = t
    <3>1. Counts(t) /\ at[t].i \in Nat
      BY <1>0 DEF RingTyped, Walks
    <3> QED
      BY <1>1, <1>5, <2>1, <3>1 DEF Counts, Still, Reading
  <2>2. CASE u # t
    BY <1>0, <1>1, <1>4, <2>2 DEF Counts, Still
  <2> QED
    BY <2>1, <2>2
<1>12. \A u \in Loggers : Reads(u)'
  <2> SUFFICES ASSUME NEW u \in Loggers, doing'[u] \in {"head", "print"} PROVE Reads(u)'
    BY DEF Reads
  <2>1. /\ u # t /\ doing'[u] = doing[u] /\ at'[u] = at[u]
        /\ Flushed(u)' = Flushed(u) /\ Reads(u) /\ Flushed(u) \in Loggers
    BY <1>0, <1>1, <1>4 DEF Flushed, Reads
  <2>2. doing'[Flushed(u)] = "store" => doing[Flushed(u)] = "store"
    BY <1>1, <2>1
  <2>3. Flushed(u) \in Orderly' => Flushed(u) \in Orderly
    BY <1>8, <2>1
  <2> QED
    BY <1>1, <2>1, <2>2, <2>3 DEF Reads, Still, Done
<1>13. \A x \in Loggers : InRing(x)'
  <2> SUFFICES ASSUME NEW x \in Loggers, x \in Orderly' PROVE InRing(x)'
    BY DEF InRing
  <2>1. x \in Orderly /\ InRing(x) /\ tail[x] \in Nat /\ head[x] \in Nat
    BY <1>0, <1>8 DEF RingTyped
  <2>2. Stored(x)' = Stored(x) /\ Stored(x) \subseteq 1..head[x]
    BY <1>1 DEF Stored
  <2>3. CASE x = s
    BY <1>1, <1>6, <1>7, <1>8, <2>1, <2>2, <2>3 DEF InRing, Done
  <2>4. CASE x # s
    BY <1>1, <1>7, <2>1, <2>2, <2>4 DEF InRing, Done
  <2> QED
    BY <2>3, <2>4
<1>14. \A x \in Loggers : RoomIn(x)'
  <2> SUFFICES ASSUME NEW x \in Loggers, x \in Orderly' PROVE RoomIn(x)'
    BY DEF RoomIn
  <2>1. x \in Orderly /\ RoomIn(x) /\ tail[x] \in Nat /\ head[x] \in Nat
    BY <1>0, <1>8 DEF RingTyped
  <2>2. doing'[x] \in {"idle", "enter", "reserve"} => doing[x] \in {"idle", "enter", "reserve"}
    BY <1>1
  <2>3. tail[x] <= tail'[x] /\ tail'[x] \in Nat
    BY <1>7, <1>8, <2>1
  <2> QED
    BY <1>1, <2>1, <2>2, <2>3, RingBounds DEF RoomIn
<1>15. \A x \in Loggers : Emptied(x)'
  <2> SUFFICES ASSUME NEW x \in Loggers, x \in Orderly' PROVE Emptied(x)'
    BY DEF Emptied
  <2>1. /\ x \in Orderly /\ Emptied(x) /\ tail[x] \in Nat /\ head[x] \in Nat
        /\ ring[x] \in Nat /\ ring[x] \in Rings /\ at[t].i \in Nat
    BY <1>0, <1>8 DEF RingTyped, Orderly, Walks
  <2>2. tail[x] = head[x] => tail'[x] = head'[x]
    BY <1>1, <1>6, <1>7, <1>8, <2>1
  <2>3. ~logging' => tail'[x] = head'[x]
    BY <1>1, <2>1, <2>2 DEF Emptied
  <2>4. ASSUME NEW u \in Loggers, doing'[u] \in Reading, Still(u, x)', at'[u].i > ring'[x]
        PROVE  tail'[x] = head'[x]
    <3>1. CASE u # t
      BY <1>1, <1>4, <2>1, <2>2, <2>4, <3>1 DEF Emptied, Still
    <3>2. CASE u = t /\ at[t].i > ring[x]
      BY <1>1, <2>1, <2>2, <2>4, <3>2 DEF Emptied, Still, Reading
    <3>3. CASE u = t /\ ~(at[t].i > ring[x])
      <4>1. at[t].i = ring[x] /\ Still(t, x)
        BY <1>1, <1>5, <2>1, <2>4, <3>3 DEF Still
      <4>2. doing[x] # "enter"
        <5>1. CASE x = t
          BY <1>1, <5>1
        <5>2. CASE closing = t /\ x # t
          BY <1>0, <5>2, LoggersAssumption DEF ShuttingDown
        <5> QED
          BY <4>1, <5>1, <5>2 DEF Still
      <4>3. x = s
        BY <1>0, <1>2, <2>1, <4>1, <4>2 DEF Places, Flushed
      <4> QED
        BY <1>1, <1>6, <1>7, <4>1, <4>3
    <3> QED
      BY <3>1, <3>2, <3>3
  <2> QED
    BY <2>3, <2>4 DEF Emptied
<1>16. ShuttingDown'
  <2>1. \A x \in Loggers : x # t => (doing'[x] = doing[x])
    BY <1>1
  <2>2. closing # NoLogger => closing = t /\ logging
    BY <1>0, <1>1 DEF ShuttingDown
  <2>3. ~logging => closing # NoLogger
    BY <1>0 DEF ShuttingDown
  <2> QED
    BY <1>0, <1>1, <2>1, <2>2, <2>3 DEF ShuttingDown, Reading
<1> QED
  BY <1>9, <1>10, <1>11, <1>12, <1>13, <1>14, <1>15, <1>16 DEF LogInv

-----------------------------------------------------------------------------
(* The invariant is kept, and what follows from it.                           *)

LEMMA LogInvStep ==
  LogInv /\ [LogNext]_logVars => LogInv'
<1> SUFFICES ASSUME LogInv, [LogNext]_logVars PROVE LogInv'
  OBVIOUS
<1>1. CASE UNCHANGED logVars
  BY <1>1 DEF logVars, ringVars, LogInv, RingTyped, Places, Counts, Reads, InRing, RoomIn, Emptied,
              ShuttingDown, Still, Done, Flushed, Orderly, Stored
<1>2. ASSUME NEW t \in Loggers, LogWrite(t) PROVE LogInv'
  BY <1>2, LogWriteKeeps
<1>3. ASSUME NEW t \in Loggers, EnterRing(t) PROVE LogInv'
  BY <1>3, EnterRingKeeps
<1>4. ASSUME NEW t \in Loggers, Reserve(t) PROVE LogInv'
  BY <1>4, ReserveKeeps
<1>5. ASSUME NEW t \in Loggers, StoreLine(t) PROVE LogInv'
  BY <1>5, StoreLineKeeps
<1>6. ASSUME NEW t \in Loggers, CheckRing(t) PROVE LogInv'
  BY <1>6, CheckRingKeeps
<1>7. ASSUME NEW t \in Loggers, Flush(t) PROVE LogInv'
  BY <1>7, FlushKeeps
<1>8. ASSUME NEW t \in Loggers, FlushBegins(t) PROVE LogInv'
  BY <1>8, FlushBeginsKeeps
<1>9. ASSUME NEW t \in Loggers, SkipsRing(t) PROVE LogInv'
  BY <1>9, SkipsRingKeeps
<1>10. ASSUME NEW t \in Loggers, ReadTail(t) PROVE LogInv'
  BY <1>10, ReadTailKeeps
<1>11. ASSUME NEW t \in Loggers, ReadHead(t) PROVE LogInv'
  BY <1>11, ReadHeadKeeps
<1>12. ASSUME NEW t \in Loggers, Print1(t) PROVE LogInv'
  BY <1>12, Print1Keeps
<1>13. ASSUME NEW t \in Loggers, SaveTail(t) PROVE LogInv'
  BY <1>13, SaveTailKeeps
<1>14. ASSUME NEW t \in Loggers, FlushEnds(t) PROVE LogInv'
  BY <1>14, FlushEndsKeeps
<1>15. ASSUME NEW t \in Loggers, Shutdown(t) PROVE LogInv'
  BY <1>15, ShutdownKeeps
<1> QED
  BY <1>1, <1>2, <1>3, <1>4, <1>5, <1>6, <1>7, <1>8, <1>9, <1>10, <1>11, <1>12, <1>13, <1>14, <1>15 DEF
     LogNext

\* A line of an orderly ring is before the tail, and was passed by a flush, or
\* after it, and is in its slot; once the rings are freed there is none after it.
LEMMA KeptByInv ==
  LogInv => LinesKept
<1> SUFFICES ASSUME LogInv, NEW t \in Orderly, NEW n \in Stored(t)
             PROVE  <<t, n>> \in printed \/ (logging /\ n \in Kept(t)) \/ <<t, n>> \in raced
  BY DEF LinesKept
<1>1. t \in Loggers
  BY DEF Orderly
<1>2. InRing(t) /\ Emptied(t) /\ head[t] \in Nat /\ tail[t] \in Nat /\ logging \in BOOLEAN
  BY <1>1 DEF LogInv, RingTyped
<1>3. n \in 1..head[t]
  BY DEF Stored
<1>4. CASE n <= tail[t]
  BY <1>2, <1>3, <1>4 DEF InRing, Done
<1>5. CASE n > tail[t]
  BY <1>2, <1>3, <1>5 DEF InRing, Emptied, Kept
<1> QED
  BY <1>2, <1>3, <1>4, <1>5

\* In a ring whose tail never went back, what a thread has written stays until a
\* flush has passed it, however often the ring wraps and whoever flushes it. Two
\* flushes of a ring that overlap may set its tail back: of such a ring, which
\* then prints lines again and may overwrite some, nothing is claimed. For any
\* number of threads, lines, rings and slots.
THEOREM LinesAreKept ==
  LogSpec => []LinesKept
<1>1. LogSpec => []LogInv
  BY LogInvInit, LogInvStep, PTL DEF LogSpec
<1> QED
  BY <1>1, KeptByInv, PTL
=============================================================================
