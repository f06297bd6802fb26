--------------------------- MODULE WorkPoolProofs ----------------------------
(***************************************************************************)
(* No wakeup of the pool's two condition variables is lost, for any number *)
(* of workers, clients and tasks and whatever the deques do.               *)
(***************************************************************************)
EXTENDS WorkPool, WorkDequeProofs

\* The part of the type invariant the argument uses.
SyncTypeOK ==
    /\ pc \in [Procs -> WorkerPcs \cup ClientPcs]
    /\ \A w \in Workers : pc[w] \in WorkerPcs
    /\ \A c \in Clients : pc[c] \in ClientPcs
    /\ pending \in Int
    /\ submitIdx \in Int
    /\ target \in [Clients -> Int]

\* While the pool is being created nobody else uses it.
Creating ==
    pc[Owner] = "create" => /\ target[Owner] >= 0
                            /\ \A c \in Clients \ {Owner} : pc[c] = "unborn"

\* A worker between its look at the count and its sleep holds wake_mutex.
WakeHolder ==
    \A w \in Workers : pc[w] \in {"sleep_check", "sleep_wait"} => wakeMutex = w

\* What it saw is still true, or a submit is on its way to the mutex.
CheckedIdle ==
    \A w \in Workers : pc[w] = "sleep_wait" /\ pending > 0 => Submitting # {}

\* The same on the other side, with wait_mutex.
WaitHolder ==
    \A c \in Clients : pc[c] \in {"wait_check", "wait_sleep"} => waitMutex = c

BroadcastDue ==
    (\E c \in Clients : pc[c] \in {"wait_sleep", "wait_asleep"})
        => pending > 0 \/ \E w \in Workers : pc[w] = "broadcast"

IInv == SyncTypeOK /\ Creating /\ WakeHolder /\ CheckedIdle /\ NoLostWakeup
        /\ WaitHolder /\ BroadcastDue

LEMMA Parties ==
    /\ Workers # {} /\ Workers \subseteq Procs /\ Clients \subseteq Procs
    /\ Workers \cap Clients = {}
    /\ Procs = Workers \cup Clients
    /\ NoProc \notin Procs
    /\ Owner \in Clients
    /\ 0 \in Workers
  BY PoolAssumption, DequeAssumption DEF Workers

LEMMA InitIInv == Init => IInv
  BY Parties DEF Init, Submitting, IInv, SyncTypeOK, Creating, WakeHolder, CheckedIdle, NoLostWakeup,
     WaitHolder, BroadcastDue, WorkerPcs, ClientPcs

LEMMA StepIInv == IInv /\ [Next]_vars => IInv'
<1> SUFFICES ASSUME IInv, [Next]_vars PROVE IInv'
  OBVIOUS
<1> USE Parties DEF IInv, SyncTypeOK, Creating, WakeHolder, CheckedIdle, NoLostWakeup,
     WaitHolder, BroadcastDue, WorkerPcs, ClientPcs, Submitting, Move,
     syncVars, ownVars, historyVars
<1>1. ASSUME NEW w \in Workers, LoopCheck(w) PROVE IInv'
  BY <1>1 DEF LoopCheck
<1>2. ASSUME NEW w \in Workers, StartPop(w) PROVE IInv'
  BY <1>2 DEF StartPop
<1>3. ASSUME NEW w \in Workers, FinishPop(w) PROVE IInv'
  BY <1>3 DEF FinishPop, Finish
<1>4. ASSUME NEW w \in Workers, ChooseVictim(w) PROVE IInv'
  BY <1>4 DEF ChooseVictim
<1>5. ASSUME NEW w \in Workers, FinishSteal(w) PROVE IInv'
  BY <1>5 DEF FinishSteal, Finish
<1>6. ASSUME NEW w \in Workers, Spin(w) PROVE IInv'
  BY <1>6 DEF Spin
<1>7. ASSUME NEW w \in Workers, RunTask(w) PROVE IInv'
  BY <1>7 DEF RunTask
<1>8. ASSUME NEW w \in Workers, Count(w) PROVE IInv'
  BY <1>8 DEF Count
<1>9. ASSUME NEW w \in Workers, Broadcast(w) PROVE IInv'
  <2>1. /\ pc[w] = "broadcast" /\ waitMutex = NoProc
        /\ \A p \in Procs : pc'[p] = IF p = w THEN "loop" ELSE IF pc[p] = "wait_asleep" THEN "wait_woken" ELSE pc[p]
        /\ pc' \in [Procs -> WorkerPcs \cup ClientPcs]
        /\ UNCHANGED <<pending, submitIdx, target, wakeMutex, waitMutex>>
    BY <1>9 DEF Broadcast
  <2>2. \A v \in Workers : pc'[v] = IF v = w THEN "loop" ELSE pc[v]
    BY <2>1
  <2>3. \A c \in Clients : pc'[c] = IF pc[c] = "wait_asleep" THEN "wait_woken" ELSE pc[c]
    BY <2>1
  <2>4. Submitting' = Submitting
    BY <2>3
  <2>5. SyncTypeOK' /\ Creating' /\ WakeHolder' /\ CheckedIdle'
    BY <2>1, <2>2, <2>3, <2>4
  <2>6. NoLostWakeup' /\ WaitHolder' /\ BroadcastDue'
    BY <2>1, <2>2, <2>3, <2>4
  <2> QED
    BY <2>5, <2>6
<1>10. ASSUME NEW w \in Workers, SleepLock(w) PROVE IInv'
  BY <1>10 DEF SleepLock
<1>11. ASSUME NEW w \in Workers, SleepCheck(w) PROVE IInv'
  BY <1>11 DEF SleepCheck
<1>12. ASSUME NEW w \in Workers, SleepWait(w) PROVE IInv'
  BY <1>12 DEF SleepWait
<1>13. ASSUME NEW w \in Workers, SleepWake(w) PROVE IInv'
  BY <1>13 DEF SleepWake
<1>14. ASSUME NEW c \in Clients, NEW t \in Tasks, Submit(c, t) PROVE IInv'
  BY <1>14 DEF Submit
<1>15. ASSUME NEW c \in Clients, SubmitCount(c) PROVE IInv'
  BY <1>15, PoolAssumption DEF SubmitCount, NextIdx, CRem
<1>16. ASSUME NEW c \in Clients, SubmitPush(c) PROVE IInv'
  BY <1>16 DEF SubmitPush
<1>17. ASSUME NEW c \in Clients, SubmitSignal(c) PROVE IInv'
  BY <1>17 DEF SubmitSignal
<1>18. ASSUME NEW c \in Clients, Wait(c) PROVE IInv'
  BY <1>18 DEF Wait
<1>19. ASSUME NEW c \in Clients, WaitLoad(c) PROVE IInv'
  BY <1>19 DEF WaitLoad
<1>20. ASSUME NEW c \in Clients, WaitLock(c) PROVE IInv'
  BY <1>20 DEF WaitLock
<1>21. ASSUME NEW c \in Clients, WaitCheck(c) PROVE IInv'
  BY <1>21 DEF WaitCheck
<1>22. ASSUME NEW c \in Clients, WaitSleep(c) PROVE IInv'
  BY <1>22 DEF WaitSleep
<1>23. ASSUME NEW c \in Clients, WaitWake(c) PROVE IInv'
  BY <1>23 DEF WaitWake
<1>24. CASE Spawn
  <2> DEFINE w == target[Owner]
  <2>1. w \in Workers /\ pc[Owner] = "create" /\ w \in Int
    BY <1>24, PoolAssumption DEF Spawn, Workers
  <2>2. Submitting = {} /\ \A c \in Clients : pc[c] \in {"create", "unborn"}
    BY <2>1
  <2>3. \A v \in Workers : pc'[v] = IF v = w THEN "loop" ELSE pc[v]
    BY <1>24 DEF Spawn
  <2>4. \A c \in Clients : pc'[c] \in {"idle", "create", "unborn"}
    BY <1>24, <2>1, <2>2 DEF Spawn
  <2>5. pc' \in [Procs -> WorkerPcs \cup ClientPcs]
    BY <1>24 DEF Spawn
  <2>6. UNCHANGED <<pending, submitIdx, wakeMutex, waitMutex>>
    BY <1>24 DEF Spawn
  <2>7. target' = [target EXCEPT ![Owner] = w + 1]
    BY <1>24 DEF Spawn
  <2>8. Submitting' = {}
    BY <2>4
  <2>9. SyncTypeOK' /\ Creating'
    <3>1. \A c \in Clients \ {Owner} : pc'[c] \in {"unborn", "idle"}
      BY <1>24, <2>1, <2>2 DEF Spawn
    <3>2. pc'[Owner] = "create" => \A c \in Clients \ {Owner} : pc'[c] = "unborn"
      BY <1>24, <2>1, <2>2 DEF Spawn
    <3>3. QED
      BY <2>1, <2>3, <2>4, <2>5, <2>6, <2>7, <3>2
  <2>10. WakeHolder' /\ CheckedIdle' /\ NoLostWakeup'
    BY <2>1, <2>2, <2>3, <2>6, <2>8
  <2>11. WaitHolder' /\ BroadcastDue'
    BY <2>4
  <2>12. QED
    BY <2>9, <2>10, <2>11
<1>25. CASE SpawnFails
  BY <1>25 DEF SpawnFails
<1>26. CASE FailWake
  BY <1>26 DEF FailWake, WokenUp
<1>27. CASE FailJoin
  BY <1>27 DEF FailJoin
<1>28. CASE Destroy
  BY <1>28 DEF Destroy
<1>29. CASE Shutdown
  BY <1>29 DEF Shutdown
<1>30. CASE WakeAll
  BY <1>30 DEF WakeAll, WokenUp
<1>31. CASE JoinAndFree
  BY <1>31 DEF JoinAndFree
<1>32. ASSUME NEW p \in Procs, SpuriousWake(p) PROVE IInv'
  BY <1>32 DEF SpuriousWake
<1>33. ASSUME UNCHANGED poolVars PROVE IInv'
  BY <1>33 DEF poolVars
<1>34. CASE Next
  BY <1>1, <1>2, <1>3, <1>4, <1>5, <1>6, <1>7, <1>8, <1>9, <1>10, <1>11, <1>12,
     <1>13, <1>14, <1>15, <1>16, <1>17, <1>18, <1>19, <1>20, <1>21, <1>22,
     <1>23, <1>24, <1>25, <1>26, <1>27, <1>28, <1>29, <1>30, <1>31, <1>32,
     <1>33, <1>34 DEF Next, Step, Worker, Client, OwnerStep
<1>35. CASE UNCHANGED vars
  BY <1>35, <1>33 DEF vars
<1>36. QED
  BY <1>34, <1>35

\* No lost wakeup on wake_cond: whenever a task is outstanding, some worker is
\* not asleep or the submit that counted it has still to signal.
THEOREM WorkersWake == Spec => []NoLostWakeup
  BY InitIInv, StepIInv, PTL DEF Spec, IInv

\* No lost wakeup on wait_cond: a client asleep in bf_pool_wait has something
\* outstanding to wait for, or a worker is about to broadcast.
THEOREM WaitersWake == Spec => []WaitersWoken
<1>1. IInv => WaitersWoken
  BY DEF IInv, BroadcastDue, WaitersWoken
<1>2. QED
  BY <1>1, InitIInv, StepIInv, PTL DEF Spec
-----------------------------------------------------------------------------
(* Types *)

\* A client inside bf_pool_submit carries the task it was called with.
SubmitJob ==
    \A c \in Clients : pc[c] \in {"submit_count", "submit_push", "submit_pushing"}
                        => job[c] \in Tasks


LEMMA InitTypeOK == Init => TypeOK /\ SubmitJob
<1> SUFFICES ASSUME Init PROVE TypeOK /\ SubmitJob
  OBVIOUS
<1>1. DequeTypeOK
  BY InitDequeType DEF Init
<1>2. PoolTypeOK
  <2>1. /\ pc \in [Procs -> WorkerPcs \cup ClientPcs]
        /\ \A w \in Workers : pc[w] \in WorkerPcs
        /\ \A c \in Clients : pc[c] \in ClientPcs
    BY Parties DEF Init, WorkerPcs, ClientPcs
  <2>2. submitIdx \in -IdxMax - 1..IdxMax
    BY PoolAssumption DEF Init
  <2>3. /\ spins \in [Workers -> Nat]
        /\ job \in [Procs -> Tasks \cup {NoTask}]
        /\ target \in [Clients -> Int]
        /\ awaited \in [Clients -> SUBSET Tasks]
        /\ runs \in [Tasks \cup {NoTask} -> Nat]
    BY DEF Init
  <2>4. shutdown \in BOOLEAN /\ destroying \in BOOLEAN
    BY Zenon DEF Init
  <2>5. /\ pending \in Int
        /\ wakeMutex \in Workers \cup {NoProc}
        /\ waitMutex \in Clients \cup {NoProc}
        /\ submitted \in SUBSET Tasks /\ accepted \in SUBSET Tasks
        /\ promised \in SUBSET Tasks
    BY DEF Init
  <2>6. QED
    BY <2>1, <2>2, <2>3, <2>4, <2>5 DEF PoolTypeOK
<1>3. SubmitJob
  BY Parties DEF Init, SubmitJob
<1>4. QED
  BY <1>1, <1>2, <1>3 DEF TypeOK

\* A step of the pool changes the deques through one of their operations only.
LEMMA StepDeques ==
    ASSUME TypeOK, Next PROVE DequeTypeOK'
<1> USE Parties DEF PoolTypeOK, TypeOK, DequeAction
<1>1. ASSUME NEW p \in Procs, DequeAction(p) PROVE DequeTypeOK'
  BY <1>1, DequeType
<1>2. ASSUME UNCHANGED dequeVars PROVE DequeTypeOK'
  BY <1>2 DEF dequeVars, DequeTypeOK
<1>3. ASSUME NEW w \in Workers, Worker(w) PROVE DequeTypeOK'
  <2>1. w \in Deques /\ w \in Procs /\ Workers = Deques
    BY PoolAssumption
  <2>2. CASE StartPop(w)
    BY <1>1, <2>1, <2>2 DEF StartPop
  <2>3. CASE FinishPop(w) \/ FinishSteal(w)
    BY <1>1, <2>1, <2>3 DEF FinishPop, FinishSteal, Finish
  <2>4. CASE ChooseVictim(w)
    BY <1>1, <1>2, <2>1, <2>4 DEF ChooseVictim
  <2>5. CASE ~(StartPop(w) \/ FinishPop(w) \/ FinishSteal(w) \/ ChooseVictim(w))
    BY <1>2, <1>3, <2>5 DEF Worker, LoopCheck, Spin, RunTask, Count, Broadcast,
       SleepLock, SleepCheck, SleepWait, SleepWake
  <2>6. QED
    BY <2>2, <2>3, <2>4, <2>5
<1>4. ASSUME NEW c \in Clients, Client(c) PROVE DequeTypeOK'
  <2>1. CASE SubmitPush(c)
    BY <1>1, <2>1, PoolAssumption DEF SubmitPush
  <2>2. CASE ~SubmitPush(c)
    BY <1>2, <1>4, <2>2 DEF Client, Submit, SubmitCount, SubmitSignal, Wait,
       WaitLoad, WaitLock, WaitCheck, WaitSleep, WaitWake
  <2>3. QED
    BY <2>1, <2>2
<1>5. CASE OwnerStep
  BY <1>2, <1>5 DEF OwnerStep, Spawn, SpawnFails, FailWake, FailJoin, Destroy,
     Shutdown, WakeAll, JoinAndFree
<1>6. ASSUME NEW p \in Procs, SpuriousWake(p) PROVE DequeTypeOK'
  BY <1>2, <1>6 DEF SpuriousWake
<1>7. ASSUME NEW p \in Procs, DequeStep(p) PROVE DequeTypeOK'
  BY <1>1, <1>7
<1>8. QED
  BY <1>3, <1>4, <1>5, <1>6, <1>7 DEF Next, Step

LEMMA StepPool ==
    IInv /\ TypeOK /\ SubmitJob /\ [Next]_vars => PoolTypeOK' /\ SubmitJob'
<1> DEFINE Typed == PoolTypeOK /\ SubmitJob
<1> SUFFICES ASSUME IInv, TypeOK, SubmitJob, [Next]_vars PROVE Typed'
  OBVIOUS
<1>0. \A p \in Procs : op[p].task \in Tasks \cup {NoTask}
  BY DEF TypeOK, DequeTypeOK
<1> USE Parties, PoolAssumption DEF IInv, Creating, TypeOK, PoolTypeOK, SubmitJob, WorkerPcs, ClientPcs,
     Move, syncVars, ownVars, historyVars
<1>1. ASSUME NEW w \in Workers, LoopCheck(w) PROVE Typed'
  BY <1>1 DEF LoopCheck
<1>2. ASSUME NEW w \in Workers, StartPop(w) PROVE Typed'
  BY <1>2 DEF StartPop
<1>3. ASSUME NEW w \in Workers, FinishPop(w) PROVE Typed'
  BY <1>3, <1>0 DEF FinishPop, Finish
<1>4. ASSUME NEW w \in Workers, ChooseVictim(w) PROVE Typed'
  BY <1>4 DEF ChooseVictim
<1>5. ASSUME NEW w \in Workers, FinishSteal(w) PROVE Typed'
  BY <1>5, <1>0 DEF FinishSteal, Finish
<1>6. ASSUME NEW w \in Workers, Spin(w) PROVE Typed'
  BY <1>6 DEF Spin
<1>7. ASSUME NEW w \in Workers, RunTask(w) PROVE Typed'
  BY <1>7 DEF RunTask
<1>8. ASSUME NEW w \in Workers, Count(w) PROVE Typed'
  BY <1>8 DEF Count
<1>9. ASSUME NEW w \in Workers, Broadcast(w) PROVE Typed'
  BY <1>9 DEF Broadcast
<1>10. ASSUME NEW w \in Workers, SleepLock(w) PROVE Typed'
  BY <1>10 DEF SleepLock
<1>11. ASSUME NEW w \in Workers, SleepCheck(w) PROVE Typed'
  BY <1>11 DEF SleepCheck
<1>12. ASSUME NEW w \in Workers, SleepWait(w) PROVE Typed'
  BY <1>12 DEF SleepWait
<1>13. ASSUME NEW w \in Workers, SleepWake(w) PROVE Typed'
  BY <1>13 DEF SleepWake
<1>14. ASSUME NEW c \in Clients, NEW t \in Tasks, Submit(c, t) PROVE Typed'
  BY <1>14 DEF Submit
<1>15. ASSUME NEW c \in Clients, SubmitCount(c) PROVE Typed'
  BY <1>15 DEF SubmitCount, NextIdx, CRem
<1>16. ASSUME NEW c \in Clients, SubmitPush(c) PROVE Typed'
  BY <1>16 DEF SubmitPush, PushBegin
<1>17. ASSUME NEW c \in Clients, SubmitSignal(c) PROVE Typed'
  <2>1. pc[c] = "submit_pushing" /\ job[c] \in Tasks
    BY <1>17 DEF SubmitSignal
  <2>2. pc' \in [Procs -> WorkerPcs \cup ClientPcs]
    BY <1>17 DEF SubmitSignal
  <2>3. \A w \in Workers : pc'[w] \in {"woken", pc[w]}
    BY <1>17 DEF SubmitSignal
  <2>4. \A d \in Clients : pc'[d] \in {"idle", pc[d]}
    BY <1>17 DEF SubmitSignal
  <2>5. pc'[c] = "idle"
    BY <1>17 DEF SubmitSignal
  <2>6. /\ accepted' \in SUBSET Tasks
        /\ job' = [job EXCEPT ![c] = NoTask]
        /\ UNCHANGED <<pending, syncVars, ownVars, spins, runs, submitted,
                       awaited, promised>>
    BY <1>17, <2>1 DEF SubmitSignal
  <2>7. QED
    BY <2>2, <2>3, <2>4, <2>5, <2>6
<1>18. ASSUME NEW c \in Clients, Wait(c) PROVE Typed'
  BY <1>18 DEF Wait
<1>19. ASSUME NEW c \in Clients, WaitLoad(c) PROVE Typed'
  BY <1>19 DEF WaitLoad
<1>20. ASSUME NEW c \in Clients, WaitLock(c) PROVE Typed'
  BY <1>20 DEF WaitLock
<1>21. ASSUME NEW c \in Clients, WaitCheck(c) PROVE Typed'
  BY <1>21 DEF WaitCheck
<1>22. ASSUME NEW c \in Clients, WaitSleep(c) PROVE Typed'
  BY <1>22 DEF WaitSleep
<1>23. ASSUME NEW c \in Clients, WaitWake(c) PROVE Typed'
  BY <1>23 DEF WaitWake
<1>24. CASE Spawn
  <2> DEFINE w == target[Owner]
  <2>1. w \in Workers /\ w \in Int /\ w \notin Clients
    BY <1>24 DEF Spawn, Workers
  <2>2. pc' \in [Procs -> WorkerPcs \cup ClientPcs]
    BY <1>24 DEF Spawn
  <2>3. \A v \in Workers : pc'[v] \in {"loop", pc[v]}
    BY <1>24 DEF Spawn
  <2>4. \A c \in Clients : pc'[c] \in {"idle", pc[c]}
    BY <1>24, <2>1 DEF Spawn
  <2>5. target' \in [Clients -> Int]
    BY <1>24, <2>1 DEF Spawn
  <2>6. UNCHANGED <<pending, syncVars, submitIdx, destroying, spins, job,
                    runs, historyVars>>
    BY <1>24 DEF Spawn
  <2>7. QED
    BY <2>2, <2>3, <2>4, <2>5, <2>6
<1>25. CASE SpawnFails
  BY <1>25 DEF SpawnFails
<1>26. CASE FailWake
  <2>1. pc' \in [Procs -> WorkerPcs \cup ClientPcs]
    BY <1>26 DEF FailWake, WokenUp
  <2>2. \A w \in Workers : pc'[w] \in {"woken", pc[w]}
    BY <1>26 DEF FailWake, WokenUp
  <2>3. \A c \in Clients : pc'[c] \in {"done", "fail_join", pc[c]}
    BY <1>26 DEF FailWake, WokenUp
  <2>4. UNCHANGED <<pending, syncVars, submitIdx, target, destroying, spins, job,
                    runs, historyVars>>
    BY <1>26 DEF FailWake
  <2>5. QED
    BY <2>1, <2>2, <2>3, <2>4
<1>27. CASE FailJoin
  BY <1>27 DEF FailJoin
<1>28. CASE Destroy
  BY <1>28 DEF Destroy
<1>29. CASE Shutdown
  BY <1>29 DEF Shutdown
<1>30. CASE WakeAll
  BY <1>30 DEF WakeAll, WokenUp
<1>31. CASE JoinAndFree
  BY <1>31 DEF JoinAndFree
<1>32. ASSUME NEW p \in Procs, SpuriousWake(p) PROVE Typed'
  BY <1>32 DEF SpuriousWake
<1>33. ASSUME UNCHANGED poolVars PROVE Typed'
  BY <1>33 DEF poolVars
<1>34. CASE Next
  BY <1>1, <1>2, <1>3, <1>4, <1>5, <1>6, <1>7, <1>8, <1>9, <1>10, <1>11, <1>12,
     <1>13, <1>14, <1>15, <1>16, <1>17, <1>18, <1>19, <1>20, <1>21, <1>22,
     <1>23, <1>24, <1>25, <1>26, <1>27, <1>28, <1>29, <1>30, <1>31, <1>32,
     <1>33, <1>34 DEF Next, Step, Worker, Client, OwnerStep
<1>35. CASE UNCHANGED vars
  BY <1>35, <1>33 DEF vars
<1>36. QED
  BY <1>34, <1>35

\* Every variable keeps its type, the slots of the deques' arrays included.
THEOREM TypeCorrect == Spec => []TypeOK
<1>1. IInv /\ TypeOK /\ SubmitJob /\ [Next]_vars => (TypeOK /\ SubmitJob)'
  <2>1. ASSUME TypeOK, UNCHANGED vars PROVE DequeTypeOK'
    BY <2>1 DEF TypeOK, DequeTypeOK, vars, dequeVars
  <2>2. QED
    BY <2>1, StepDeques, StepPool DEF TypeOK
<1>2. QED
  BY <1>1, InitTypeOK, InitIInv, StepIInv, PTL DEF Spec

-----------------------------------------------------------------------------
(* Shutdown reaches the workers, when every pthread_create succeeded. *)

\* Without a failed pthread_create the owner never takes the failure path, and
\* whoever is about to sleep, or asleep, once shutdown is set has been there
\* since before: the owner has not broadcast yet.
ShutdownIInv ==
    /\ pc[Owner] \notin {"fail_wake", "fail_join"}
    /\ \A w \in Workers : shutdown /\ pc[w] \in {"sleep_wait", "asleep"}
                            => pc[Owner] = "wake_all"

LEMMA InitShutdown == Init => ShutdownIInv
  BY Parties DEF Init, ShutdownIInv

LEMMA StepShutdown ==
    SpawnMayFail = FALSE /\ IInv /\ ShutdownIInv /\ [Next]_vars => ShutdownIInv'
<1> SUFFICES ASSUME SpawnMayFail = FALSE, IInv, ShutdownIInv, [Next]_vars
             PROVE ShutdownIInv'
  OBVIOUS
<1> USE Parties DEF IInv, SyncTypeOK, WakeHolder, ShutdownIInv, WorkerPcs,
     ClientPcs, Move, syncVars, ownVars, historyVars
<1>1. ASSUME NEW w \in Workers, LoopCheck(w) PROVE ShutdownIInv'
  BY <1>1 DEF LoopCheck
<1>2. ASSUME NEW w \in Workers, StartPop(w) PROVE ShutdownIInv'
  BY <1>2 DEF StartPop
<1>3. ASSUME NEW w \in Workers, FinishPop(w) PROVE ShutdownIInv'
  BY <1>3 DEF FinishPop, Finish
<1>4. ASSUME NEW w \in Workers, ChooseVictim(w) PROVE ShutdownIInv'
  BY <1>4 DEF ChooseVictim
<1>5. ASSUME NEW w \in Workers, FinishSteal(w) PROVE ShutdownIInv'
  BY <1>5 DEF FinishSteal, Finish
<1>6. ASSUME NEW w \in Workers, Spin(w) PROVE ShutdownIInv'
  BY <1>6 DEF Spin
<1>7. ASSUME NEW w \in Workers, RunTask(w) PROVE ShutdownIInv'
  BY <1>7 DEF RunTask
<1>8. ASSUME NEW w \in Workers, Count(w) PROVE ShutdownIInv'
  BY <1>8 DEF Count
<1>9. ASSUME NEW w \in Workers, Broadcast(w) PROVE ShutdownIInv'
  BY <1>9 DEF Broadcast
<1>10. ASSUME NEW w \in Workers, SleepLock(w) PROVE ShutdownIInv'
  BY <1>10 DEF SleepLock
<1>11. ASSUME NEW w \in Workers, SleepCheck(w) PROVE ShutdownIInv'
  BY <1>11 DEF SleepCheck
<1>12. ASSUME NEW w \in Workers, SleepWait(w) PROVE ShutdownIInv'
  BY <1>12 DEF SleepWait
<1>13. ASSUME NEW w \in Workers, SleepWake(w) PROVE ShutdownIInv'
  BY <1>13 DEF SleepWake
<1>14. ASSUME NEW c \in Clients, NEW t \in Tasks, Submit(c, t) PROVE ShutdownIInv'
  BY <1>14 DEF Submit
<1>15. ASSUME NEW c \in Clients, SubmitCount(c) PROVE ShutdownIInv'
  BY <1>15 DEF SubmitCount
<1>16. ASSUME NEW c \in Clients, SubmitPush(c) PROVE ShutdownIInv'
  BY <1>16 DEF SubmitPush
<1>17. ASSUME NEW c \in Clients, SubmitSignal(c) PROVE ShutdownIInv'
  BY <1>17 DEF SubmitSignal
<1>18. ASSUME NEW c \in Clients, Wait(c) PROVE ShutdownIInv'
  BY <1>18 DEF Wait
<1>19. ASSUME NEW c \in Clients, WaitLoad(c) PROVE ShutdownIInv'
  BY <1>19 DEF WaitLoad
<1>20. ASSUME NEW c \in Clients, WaitLock(c) PROVE ShutdownIInv'
  BY <1>20 DEF WaitLock
<1>21. ASSUME NEW c \in Clients, WaitCheck(c) PROVE ShutdownIInv'
  BY <1>21 DEF WaitCheck
<1>22. ASSUME NEW c \in Clients, WaitSleep(c) PROVE ShutdownIInv'
  BY <1>22 DEF WaitSleep
<1>23. ASSUME NEW c \in Clients, WaitWake(c) PROVE ShutdownIInv'
  BY <1>23 DEF WaitWake
<1>24. CASE Spawn
  BY <1>24 DEF Spawn
<1>25. CASE SpawnFails
  BY <1>25 DEF SpawnFails
<1>26. CASE FailWake
  BY <1>26 DEF FailWake, WokenUp, Started
<1>27. CASE FailJoin
  BY <1>27 DEF FailJoin
<1>28. CASE Destroy
  BY <1>28 DEF Destroy
<1>29. CASE Shutdown
  BY <1>29 DEF Shutdown
<1>30. CASE WakeAll
  BY <1>30 DEF WakeAll, WokenUp
<1>31. CASE JoinAndFree
  BY <1>31 DEF JoinAndFree
<1>32. ASSUME NEW p \in Procs, SpuriousWake(p) PROVE ShutdownIInv'
  BY <1>32 DEF SpuriousWake
<1>33. ASSUME UNCHANGED poolVars PROVE ShutdownIInv'
  BY <1>33 DEF poolVars
<1>34. CASE Next
  BY <1>1, <1>2, <1>3, <1>4, <1>5, <1>6, <1>7, <1>8, <1>9, <1>10, <1>11, <1>12,
     <1>13, <1>14, <1>15, <1>16, <1>17, <1>18, <1>19, <1>20, <1>21, <1>22,
     <1>23, <1>24, <1>25, <1>26, <1>27, <1>28, <1>29, <1>30, <1>31, <1>32,
     <1>33, <1>34 DEF Next, Step, Worker, Client, OwnerStep
<1>35. CASE UNCHANGED vars
  BY <1>35, <1>33 DEF vars
<1>36. QED
  BY <1>34, <1>35

\* A worker asleep when shutdown is set still has the broadcast to come: with no
\* failed pthread_create, bf_pool_destroy joins threads that will end.
THEOREM WorkersSeeShutdown == SpawnMayFail = FALSE /\ Spec => []ShutdownSeen
<1>1. ASSUME SpawnMayFail = FALSE PROVE Spec => []ShutdownSeen
  <2>1. ShutdownIInv => ShutdownSeen
    BY DEF ShutdownIInv, ShutdownSeen
  <2>2. IInv /\ ShutdownIInv /\ [Next]_vars => ShutdownIInv'
    BY <1>1, StepShutdown
  <2>3. QED
    BY <2>1, <2>2, InitIInv, StepIInv, InitShutdown, PTL DEF Spec
<1>2. QED
  BY <1>1

=============================================================================
