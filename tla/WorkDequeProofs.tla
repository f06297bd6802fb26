--------------------------- MODULE WorkDequeProofs ---------------------------
(***************************************************************************)
(* Every access of deque_push, deque_pop and deque_steal keeps the deques' *)
(* types: in particular every slot index is inside the array, and an array *)
(* is only outgrown by the next generation.                                *)
(***************************************************************************)
EXTENDS WorkDeque, TLAPS

\* An index masked with the capacity of any generation is a slot.
LEMMA MaskedIndex ==
    ASSUME NEW g \in Gens, NEW i \in Int
    PROVE  i % Cap[g] \in Slots
<1>1. Cap[g] \in Nat \ {0} /\ Cap[g] <= Cap[MaxGrow] /\ Cap[MaxGrow] \in Nat
  BY DequeAssumption DEF Gens
<1>2. i % Cap[g] \in 0..Cap[g] - 1
  BY <1>1
<1>3. QED
  BY <1>1, <1>2 DEF Slots

LEMMA IdleOpType ==
    IdleOp \in [pc: OpPcs, d: Deques, b: Int, t: Int, gen: Gens,
                task: Tasks \cup {NoTask}]
<1>1. (CHOOSE d \in Deques : TRUE) \in Deques
  BY DequeAssumption
<1>2. 0 \in Gens
  BY DequeAssumption DEF Gens
<1>3. QED
  BY <1>1, <1>2 DEF IdleOp, OpPcs

LEMMA InitDequeType == DequeInit => DequeTypeOK
  BY DequeAssumption, IdleOpType DEF DequeInit, DequeTypeOK, Gens

LEMMA CopiedType ==
    ASSUME DequeTypeOK, NEW d \in Deques, NEW g \in Gens, g < MaxGrow,
           NEW b \in Int, NEW t \in Int
    PROVE  Copied(d, g, b, t) \in [Slots -> Tasks \cup {NoTask}]
<1>1. SUFFICES ASSUME NEW s \in Slots, \E i \in t..b - 1 : i % Cap[g + 1] = s
              PROVE buf[d][g][(CHOOSE i \in t..b - 1 : i % Cap[g + 1] = s) % Cap[g]]
                       \in Tasks \cup {NoTask}
  BY DEF Copied
<1> DEFINE j == CHOOSE i \in t..b - 1 : i % Cap[g + 1] = s
<1>2. j \in t..b - 1
  BY <1>1
<1>3. j \in Int
  BY <1>2
<1>4. j % Cap[g] \in Slots
  BY <1>3, MaskedIndex
<1>5. QED
  BY <1>4 DEF DequeTypeOK

\* What a caller or a step does to a deque.
DequeAction(p) ==
    \/ \E d \in Deques, task \in Tasks \cup {NoTask} : PushBegin(p, d, task)
    \/ \E d \in Deques : PopBegin(p, d) \/ StealBegin(p, d)
    \/ DequeStep(p)
    \/ DequeReturn(p)

LEMMA DequeType ==
    ASSUME DequeTypeOK, NEW p \in Procs, DequeAction(p)
    PROVE  DequeTypeOK'
<1> DEFINE Ops == [pc: OpPcs, d: Deques, b: Int, t: Int, gen: Gens,
                   task: Tasks \cup {NoTask}]
<1>0. /\ op \in [Procs -> Ops] /\ op[p] \in Ops
      /\ IdleOp \in Ops
      /\ top \in [Deques -> Int] /\ bottom \in [Deques -> Int]
      /\ array \in [Deques -> Gens]
  BY IdleOpType DEF DequeTypeOK
<1>1. ASSUME NEW d \in Deques, NEW task \in Tasks \cup {NoTask},
             PushBegin(p, d, task)
      PROVE  DequeTypeOK'
  <2>1. op' \in [Procs -> Ops]
    BY <1>0, <1>1 DEF PushBegin, OpPcs
  <2>2. QED
    BY <2>1, <1>1 DEF PushBegin, DequeTypeOK
<1>2. ASSUME NEW d \in Deques, PopBegin(p, d) PROVE DequeTypeOK'
  <2>0. bottom[d] - 1 \in Int /\ "pop_store" \in OpPcs
    BY <1>0 DEF OpPcs
  <2> DEFINE b == bottom[d] - 1
  <2> HIDE DEF b
  <2>1. [IdleOp EXCEPT !.pc = "pop_store", !.d = d, !.b = b] \in Ops
    BY <1>0, <2>0 DEF b
  <2>2. op' \in [Procs -> Ops]
    BY <1>0, <1>2, <2>1 DEF PopBegin, b
  <2>3. QED
    BY <2>2, <1>2 DEF PopBegin, DequeTypeOK
<1>3. ASSUME NEW d \in Deques, StealBegin(p, d) PROVE DequeTypeOK'
  <2>1. op' \in [Procs -> Ops]
    BY <1>0, <1>3 DEF StealBegin, OpPcs
  <2>2. QED
    BY <2>1, <1>3 DEF StealBegin, DequeTypeOK
<1>4. CASE PushTop(p)
  <2>1. op' \in [Procs -> Ops]
    BY <1>0, <1>4 DEF PushTop, OpPcs
  <2>2. QED
    BY <2>1, <1>4 DEF PushTop, DequeTypeOK
<1>5. CASE PushWrite(p)
  <2> DEFINE d == op[p].d
             g == array[d]
             b == op[p].b
  <2>0. d \in Deques /\ g \in Gens /\ b \in Int /\ op[p].t \in Int
        /\ op[p].task \in Tasks \cup {NoTask}
    BY <1>0
  <2>1. op' \in [Procs -> Ops]
    BY <1>0, <1>5 DEF PushWrite, Goto, OpPcs
  <2>2. CASE MustGrow(b, op[p].t, g)
    <3>1. g < MaxGrow /\ g + 1 \in Gens
      BY <1>5, <2>0, <2>2, DequeAssumption DEF PushWrite, Gens
    <3>2. b % Cap[g + 1] \in Slots
      BY <2>0, <3>1, MaskedIndex
    <3>3. Copied(d, g, b, op[p].t) \in [Slots -> Tasks \cup {NoTask}]
      BY <2>0, <3>1, CopiedType
    <3>4. array' \in [Deques -> Gens]
      BY <1>0, <1>5, <2>2, <3>1 DEF PushWrite
    <3>5. buf' = [buf EXCEPT ![d][g + 1] =
                    [Copied(d, g, b, op[p].t) EXCEPT
                        ![b % Cap[g + 1]] = op[p].task]]
      BY <1>5, <2>2 DEF PushWrite
    <3>6. buf' \in [Deques -> [Gens -> [Slots -> Tasks \cup {NoTask}]]]
      <4> DEFINE fresh == [Copied(d, g, b, op[p].t) EXCEPT
                              ![b % Cap[g + 1]] = op[p].task]
      <4>1. fresh \in [Slots -> Tasks \cup {NoTask}]
        BY <2>0, <3>2, <3>3
      <4> HIDE DEF fresh
      <4>2. QED
        BY <3>5, <4>1, <2>0, <3>1 DEF DequeTypeOK, fresh
    <3>7. QED
      BY <1>5, <2>1, <3>4, <3>6 DEF PushWrite, DequeTypeOK
  <2>3. CASE ~MustGrow(b, op[p].t, g)
    <3>1. b % Cap[g] \in Slots
      BY <2>0, MaskedIndex
    <3>2. buf' = [buf EXCEPT ![d][g][b % Cap[g]] = op[p].task]
      BY <1>5, <2>3 DEF PushWrite
    <3>3. buf' \in [Deques -> [Gens -> [Slots -> Tasks \cup {NoTask}]]]
      BY <3>1, <3>2, <2>0 DEF DequeTypeOK
    <3>4. QED
      BY <1>5, <2>1, <2>3, <3>3 DEF PushWrite, DequeTypeOK
  <2>4. QED
    BY <2>2, <2>3
<1>6. CASE PushPublish(p)
  <2>1. bottom' \in [Deques -> Int]
    BY <1>0, <1>6 DEF PushPublish
  <2>2. QED
    BY <1>0, <1>6, <2>1 DEF PushPublish, DequeTypeOK
<1>7. CASE PopStore(p)
  <2>1. op' \in [Procs -> Ops] /\ bottom' \in [Deques -> Int]
    BY <1>0, <1>7 DEF PopStore, Goto, OpPcs
  <2>2. QED
    BY <1>7, <2>1 DEF PopStore, DequeTypeOK
<1>8. CASE PopArray(p)
  <2>1. op' \in [Procs -> Ops]
    BY <1>0, <1>8 DEF PopArray, OpPcs
  <2>2. QED
    BY <1>8, <2>1 DEF PopArray, DequeTypeOK
<1>9. CASE PopTop(p)
  <2>1. op' \in [Procs -> Ops]
    BY <1>0, <1>9 DEF PopTop, OpPcs
  <2>2. QED
    BY <1>9, <2>1 DEF PopTop, DequeTypeOK
<1>10. CASE PopRead(p)
  <2>1. op[p].b % Cap[op[p].gen] \in Slots
    BY <1>0, MaskedIndex
  <2>2. buf[op[p].d][op[p].gen][op[p].b % Cap[op[p].gen]] \in Tasks \cup {NoTask}
    BY <1>0, <2>1 DEF DequeTypeOK
  <2>3. op' \in [Procs -> Ops]
    BY <1>0, <1>10, <2>2 DEF PopRead, OpPcs
  <2>4. QED
    BY <1>10, <2>3 DEF PopRead, DequeTypeOK
<1>11. CASE PopCas(p)
  <2>1. op' \in [Procs -> Ops] /\ top' \in [Deques -> Int]
    BY <1>0, <1>11 DEF PopCas, Goto, OpPcs
  <2>2. QED
    BY <1>11, <2>1 DEF PopCas, DequeTypeOK
<1>12. CASE PopRestore(p)
  <2>1. op' \in [Procs -> Ops] /\ bottom' \in [Deques -> Int]
    BY <1>0, <1>12 DEF PopRestore, RestoredBottom, Goto, OpPcs
  <2>2. QED
    BY <1>12, <2>1 DEF PopRestore, DequeTypeOK
<1>13. CASE StealBottom(p)
  <2>1. op' \in [Procs -> Ops]
    BY <1>0, <1>13 DEF StealBottom, OpPcs
  <2>2. QED
    BY <1>13, <2>1 DEF StealBottom, DequeTypeOK
<1>14. CASE StealRead(p)
  <2>1. op[p].t % Cap[array[op[p].d]] \in Slots
    BY <1>0, MaskedIndex
  <2>2. buf[op[p].d][array[op[p].d]][op[p].t % Cap[array[op[p].d]]]
           \in Tasks \cup {NoTask}
    BY <1>0, <2>1 DEF DequeTypeOK
  <2>3. op' \in [Procs -> Ops]
    BY <1>0, <1>14, <2>2 DEF StealRead, OpPcs
  <2>4. QED
    BY <1>14, <2>3 DEF StealRead, DequeTypeOK
<1>15. CASE StealCas(p)
  <2>1. op' \in [Procs -> Ops] /\ top' \in [Deques -> Int]
    BY <1>0, <1>15 DEF StealCas, Goto, OpPcs
  <2>2. QED
    BY <1>15, <2>1 DEF StealCas, DequeTypeOK
<1>16. CASE DequeReturn(p)
  BY <1>0, <1>16 DEF DequeReturn, DequeTypeOK
<1>17. QED
  BY <1>1, <1>2, <1>3, <1>4, <1>5, <1>6, <1>7, <1>8, <1>9, <1>10, <1>11, <1>12,
     <1>13, <1>14, <1>15, <1>16 DEF DequeAction, DequeStep
=============================================================================
