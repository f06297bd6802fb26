------------------------------ MODULE WorkPool -------------------------------
(***************************************************************************)
(* The work-stealing thread pool, bf_pool.c: creation, submit, wait and    *)
(* destroy by client threads, the loop of the workers, and the two         *)
(* condition variables, over the deques of WorkDeque at the grain of       *)
(* single memory accesses.  One client, the owner, creates the pool and    *)
(* destroys it; the others start when it exists.                           *)
(*                                                                         *)
(* A thread asleep on a condition variable is at "asleep" (wake_cond) or   *)
(* "wait_asleep" (wait_cond); a signal or broadcast moves it to "woken" or *)
(* "wait_woken", from where it must take the mutex again.  A critical      *)
(* section without another shared access in it is one step.                *)
(***************************************************************************)
EXTENDS WorkDeque

CONSTANTS NWorkers,     \* n_threads
          Clients,      \* threads that call the API
          Owner,        \* the client that creates and destroys the pool
          SpinLimit,    \* failed rounds before sleeping (64 in the code)
          IdxMax,       \* the largest int (2^31 - 1 in the code)
          SpawnMayFail, \* whether pthread_create may fail
          MayDestroy,   \* whether the owner ever calls bf_pool_destroy
          QuietDestroy  \* whether destroy is only called when no other client
                        \* is inside a call, and none calls afterwards

Workers == 0..NWorkers - 1

ASSUME PoolAssumption ==
    /\ NWorkers \in Nat \ {0}
    /\ SpinLimit \in Nat \ {0}
    /\ IdxMax \in Nat
    /\ Owner \in Clients
    /\ {SpawnMayFail, MayDestroy, QuietDestroy} \subseteq BOOLEAN
    /\ Clients \cap Workers = {}
    /\ Procs = Workers \cup Clients
    /\ Deques = Workers

VARIABLES pc,          \* control of every thread
          pending,     \* outstanding task count
          submitIdx,   \* round-robin submission index
          shutdown,
          wakeMutex, waitMutex,
          spins,       \* each worker's idle_spins
          job,         \* the task a thread submits or runs
          target,      \* the deque a submit goes to; the next worker to spawn
                       \* or to join
          destroying,  \* the owner is inside bf_pool_destroy
          submitted,   \* history: tasks whose submit was not refused
          accepted,    \* history: tasks whose submit returned 0
          awaited,     \* history: tasks accepted when a client's wait began
          promised,    \* history: tasks some wait has returned for
          runs         \* history: how often each task ran to its end

historyVars == <<submitted, accepted, awaited, promised>>
syncVars == <<shutdown, wakeMutex, waitMutex>>
ownVars == <<submitIdx, target, destroying>>
poolVars == <<pc, pending, syncVars, ownVars, spins, job, runs, historyVars>>
vars == <<dequeVars, poolVars>>

WorkerPcs == {"unborn", "loop", "pop", "popping", "victim", "stealing",
              "run", "count", "broadcast", "spin", "sleep_lock", "sleep_check",
              "sleep_wait", "asleep", "woken", "drain", "draining", "exit"}
ClientPcs == {"unborn", "create", "fail_wake", "fail_join", "idle",
              "submit_count", "submit_push", "submit_pushing",
              "wait_load", "wait_lock", "wait_check", "wait_sleep",
              "wait_asleep", "wait_woken",
              "shutdown", "wake_all", "join", "done"}

PoolTypeOK ==
    /\ pc \in [Procs -> WorkerPcs \cup ClientPcs]
    /\ \A w \in Workers : pc[w] \in WorkerPcs
    /\ \A c \in Clients : pc[c] \in ClientPcs
    /\ pending \in Int
    /\ submitIdx \in -IdxMax - 1..IdxMax
    /\ shutdown \in BOOLEAN
    /\ wakeMutex \in Workers \cup {NoProc}
    /\ waitMutex \in Clients \cup {NoProc}
    /\ spins \in [Workers -> Nat]
    /\ job \in [Procs -> Tasks \cup {NoTask}]
    /\ target \in [Clients -> Int]
    /\ destroying \in BOOLEAN
    /\ submitted \in SUBSET Tasks
    /\ accepted \in SUBSET Tasks
    /\ awaited \in [Clients -> SUBSET Tasks]
    /\ promised \in SUBSET Tasks
    /\ runs \in [Tasks \cup {NoTask} -> Nat]

\* The variables have their types; every thread is at a point of its own code.
TypeOK == DequeTypeOK /\ PoolTypeOK

Init ==
    /\ DequeInit
    /\ pc = [p \in Procs |-> IF p = Owner THEN "create" ELSE "unborn"]
    /\ pending = 0
    /\ submitIdx = 0
    /\ shutdown = FALSE
    /\ wakeMutex = NoProc
    /\ waitMutex = NoProc
    /\ spins = [w \in Workers |-> 0]
    /\ job = [p \in Procs |-> NoTask]
    /\ target = [c \in Clients |-> 0]
    /\ destroying = FALSE
    /\ submitted = {}
    /\ accepted = {}
    /\ awaited = [c \in Clients |-> {}]
    /\ promised = {}
    /\ runs = [t \in Tasks \cup {NoTask} |-> 0]

Move(p, from, to) == pc[p] = from /\ pc' = [pc EXCEPT ![p] = to]

-----------------------------------------------------------------------------
(* worker_main and execute_task *)

LoopCheck(w) ==
    /\ Move(w, "loop", IF shutdown THEN "drain" ELSE "pop")
    /\ UNCHANGED <<dequeVars, pending, syncVars, ownVars, spins, job, runs,
                   historyVars>>

\* Pop the own deque, in the loop and when draining it after shutdown.
StartPop(w) ==
    /\ \/ Move(w, "pop", "popping")
       \/ Move(w, "drain", "draining")
    /\ PopBegin(w, w)
    /\ UNCHANGED <<pending, syncVars, ownVars, spins, job, runs, historyVars>>

\* The call returns: run the task it took, or go on to `otherwise'.
Finish(w, from, otherwise) ==
    /\ DequeReturn(w)
    /\ \/ /\ At(w, "got")
          /\ Move(w, from, "run")
          /\ job' = [job EXCEPT ![w] = op[w].task]
          /\ spins' = [spins EXCEPT ![w] = 0]
       \/ /\ At(w, "none")
          /\ Move(w, from, otherwise)
          /\ UNCHANGED <<job, spins>>
    /\ UNCHANGED <<pending, syncVars, ownVars, runs, historyVars>>

FinishPop(w) == Finish(w, "popping", "victim") \/ Finish(w, "draining", "exit")

\* A random peer; choosing oneself costs the round.
ChooseVictim(w) ==
    /\ \/ /\ Move(w, "victim", "spin")
          /\ UNCHANGED dequeVars
       \/ \E v \in Workers \ {w} : /\ Move(w, "victim", "stealing")
                                   /\ StealBegin(w, v)
    /\ UNCHANGED <<pending, syncVars, ownVars, spins, job, runs, historyVars>>

FinishSteal(w) == Finish(w, "stealing", "spin")

Spin(w) ==
    /\ spins' = [spins EXCEPT ![w] = @ + 1]
    /\ Move(w, "spin", IF spins[w] + 1 < SpinLimit THEN "loop" ELSE "sleep_lock")
    /\ UNCHANGED <<dequeVars, pending, syncVars, ownVars, job, runs, historyVars>>

\* The task's own code, up to its return.
RunTask(w) ==
    /\ Move(w, "run", "count")
    /\ runs' = [runs EXCEPT ![job[w]] = @ + 1]
    /\ job' = [job EXCEPT ![w] = NoTask]
    /\ UNCHANGED <<dequeVars, pending, syncVars, ownVars, spins, historyVars>>

\* Whoever brings the count from one to zero has to wake the waiters.
Count(w) ==
    /\ Move(w, "count", IF pending = 1 THEN "broadcast" ELSE "loop")
    /\ pending' = pending - 1
    /\ UNCHANGED <<dequeVars, syncVars, ownVars, spins, job, runs, historyVars>>

\* Faulty: broadcasts without wait_mutex.
BroadcastUnlocked(w) ==
    /\ pc[w] = "broadcast"
    /\ pc' = [p \in Procs |-> IF p = w THEN "loop"
                              ELSE IF pc[p] = "wait_asleep" THEN "wait_woken"
                              ELSE pc[p]]
    /\ UNCHANGED <<dequeVars, pending, syncVars, ownVars, spins, job, runs,
                   historyVars>>

Broadcast(w) ==
    /\ pc[w] = "broadcast"
    /\ waitMutex = NoProc
    /\ pc' = [p \in Procs |-> IF p = w THEN "loop"
                              ELSE IF pc[p] = "wait_asleep" THEN "wait_woken"
                              ELSE pc[p]]
    /\ UNCHANGED <<dequeVars, pending, syncVars, ownVars, spins, job, runs,
                   historyVars>>

SleepLock(w) ==
    /\ Move(w, "sleep_lock", "sleep_check")
    /\ wakeMutex = NoProc
    /\ wakeMutex' = w
    /\ UNCHANGED <<dequeVars, pending, shutdown, waitMutex, ownVars, spins, job,
                   runs, historyVars>>

\* Faulty: does not look at the count again under the mutex.
SleepUnchecked(w) ==
    /\ Move(w, "sleep_check", IF shutdown THEN "loop" ELSE "sleep_wait")
    /\ wakeMutex' = IF shutdown THEN NoProc ELSE wakeMutex
    /\ UNCHANGED <<dequeVars, pending, shutdown, waitMutex, ownVars, spins, job,
                   runs, historyVars>>

\* Faulty: does not look at shutdown again under the mutex.
SleepUnlessBusy(w) ==
    /\ \/ /\ pending = 0
          /\ Move(w, "sleep_check", "sleep_wait")
          /\ UNCHANGED <<wakeMutex, spins>>
       \/ /\ pending # 0
          /\ Move(w, "sleep_check", "loop")
          /\ wakeMutex' = NoProc
          /\ spins' = [spins EXCEPT ![w] = 0]
    /\ UNCHANGED <<dequeVars, pending, shutdown, waitMutex, ownVars, job, runs,
                   historyVars>>

\* Under the mutex: sleep only with nothing outstanding and no shutdown.
SleepCheck(w) ==
    /\ \/ /\ ~shutdown /\ pending = 0
          /\ Move(w, "sleep_check", "sleep_wait")
          /\ UNCHANGED <<wakeMutex, spins>>
       \/ /\ shutdown \/ pending # 0
          /\ Move(w, "sleep_check", "loop")
          /\ wakeMutex' = NoProc
          /\ spins' = [spins EXCEPT ![w] = 0]
    /\ UNCHANGED <<dequeVars, pending, shutdown, waitMutex, ownVars, job, runs,
                   historyVars>>

SleepWait(w) ==
    /\ Move(w, "sleep_wait", "asleep")
    /\ wakeMutex' = NoProc
    /\ UNCHANGED <<dequeVars, pending, shutdown, waitMutex, ownVars, spins, job,
                   runs, historyVars>>

SleepWake(w) ==
    /\ Move(w, "woken", "loop")
    /\ wakeMutex = NoProc
    /\ spins' = [spins EXCEPT ![w] = 0]
    /\ UNCHANGED <<dequeVars, pending, syncVars, ownVars, job, runs, historyVars>>

\* A condition variable may wake a thread nobody signalled.
SpuriousWake(p) ==
    /\ Move(p, "asleep", "woken") \/ Move(p, "wait_asleep", "wait_woken")
    /\ UNCHANGED <<dequeVars, pending, syncVars, ownVars, spins, job, runs,
                   historyVars>>

Worker(w) ==
    \/ LoopCheck(w) \/ StartPop(w) \/ FinishPop(w) \/ ChooseVictim(w)
    \/ FinishSteal(w) \/ Spin(w) \/ RunTask(w) \/ Count(w) \/ Broadcast(w)
    \/ SleepLock(w) \/ SleepCheck(w) \/ SleepWait(w) \/ SleepWake(w)

-----------------------------------------------------------------------------
(* bf_pool_submit *)

Submit(c, t) ==
    /\ t \notin submitted
    /\ pc[c] = "idle"
    /\ QuietDestroy => ~destroying
    /\ ~shutdown
    /\ pc' = [pc EXCEPT ![c] = "submit_count"]
    /\ job' = [job EXCEPT ![c] = t]
    /\ submitted' = submitted \cup {t}
    /\ UNCHANGED <<dequeVars, pending, syncVars, ownVars, spins, runs, accepted,
                   awaited, promised>>

\* An atomic int wraps around; the remainder of C has the dividend's sign.
NextIdx(i) == IF i = IdxMax THEN -IdxMax - 1 ELSE i + 1
CRem(i, n) == IF i >= 0 THEN i % n ELSE -((-i) % n)

SubmitCount(c) ==
    /\ Move(c, "submit_count", "submit_push")
    /\ target' = [target EXCEPT ![c] = CRem(submitIdx, NWorkers)]
    /\ submitIdx' = NextIdx(submitIdx)
    /\ pending' = pending + 1
    /\ UNCHANGED <<dequeVars, syncVars, destroying, spins, job, runs,
                   historyVars>>

SubmitPush(c) ==
    /\ Move(c, "submit_push", "submit_pushing")
    /\ target[c] \in Workers
    /\ PushBegin(c, target[c], job[c])
    /\ UNCHANGED <<pending, syncVars, ownVars, spins, job, runs, historyVars>>

\* The push is over: signal one sleeping worker, if there is one, and return.
SubmitSignal(c) ==
    LET sleepers == {w \in Workers : pc[w] = "asleep"} IN
    /\ pc[c] = "submit_pushing"
    /\ At(c, "idle")
    /\ wakeMutex = NoProc
    /\ \/ /\ sleepers = {}
          /\ pc' = [pc EXCEPT ![c] = "idle"]
       \/ \E w \in sleepers : pc' = [pc EXCEPT ![c] = "idle", ![w] = "woken"]
    /\ accepted' = accepted \cup {job[c]}
    /\ job' = [job EXCEPT ![c] = NoTask]
    /\ UNCHANGED <<dequeVars, pending, syncVars, ownVars, spins, runs, submitted,
                   awaited, promised>>

-----------------------------------------------------------------------------
(* bf_pool_wait, called directly and by bf_pool_destroy *)

Wait(c) ==
    /\ QuietDestroy => ~destroying
    /\ Move(c, "idle", "wait_load")
    /\ awaited' = [awaited EXCEPT ![c] = accepted]
    /\ UNCHANGED <<dequeVars, pending, syncVars, ownVars, spins, job, runs,
                   submitted, accepted, promised>>

Destroy ==
    /\ MayDestroy
    /\ ~destroying
    /\ QuietDestroy => \A c \in Clients : pc[c] = "idle"
    /\ Move(Owner, "idle", "wait_load")
    /\ destroying' = TRUE
    /\ awaited' = [awaited EXCEPT ![Owner] = accepted]
    /\ UNCHANGED <<dequeVars, pending, syncVars, submitIdx, target, spins,
                   job, runs, submitted, accepted, promised>>

WaitLoad(c) ==
    /\ \/ /\ pending > 0
          /\ Move(c, "wait_load", "wait_lock")
          /\ UNCHANGED promised
       \/ /\ pending <= 0
          /\ Move(c, "wait_load",
                  IF c = Owner /\ destroying THEN "shutdown" ELSE "idle")
          /\ promised' = promised \cup awaited[c]
    /\ UNCHANGED <<dequeVars, pending, syncVars, ownVars, spins, job, runs,
                   submitted, accepted, awaited>>

WaitLock(c) ==
    /\ Move(c, "wait_lock", "wait_check")
    /\ waitMutex = NoProc
    /\ waitMutex' = c
    /\ UNCHANGED <<dequeVars, pending, shutdown, wakeMutex, ownVars, spins, job,
                   runs, historyVars>>

WaitCheck(c) ==
    /\ \/ /\ pending > 0
          /\ Move(c, "wait_check", "wait_sleep")
          /\ UNCHANGED waitMutex
       \/ /\ pending <= 0
          /\ Move(c, "wait_check", "wait_load")
          /\ waitMutex' = NoProc
    /\ UNCHANGED <<dequeVars, pending, shutdown, wakeMutex, ownVars, spins, job,
                   runs, historyVars>>

WaitSleep(c) ==
    /\ Move(c, "wait_sleep", "wait_asleep")
    /\ waitMutex' = NoProc
    /\ UNCHANGED <<dequeVars, pending, shutdown, wakeMutex, ownVars, spins, job,
                   runs, historyVars>>

WaitWake(c) ==
    /\ Move(c, "wait_woken", "wait_load")
    /\ waitMutex = NoProc
    /\ UNCHANGED <<dequeVars, pending, syncVars, ownVars, spins, job, runs,
                   historyVars>>

-----------------------------------------------------------------------------
(* bf_pool_create and the rest of bf_pool_destroy: the owner *)

\* pthread_create for worker `target'; with the last one the pool exists.
Spawn ==
    LET w == target[Owner] IN
    /\ pc[Owner] = "create"
    /\ w < NWorkers
    /\ target' = [target EXCEPT ![Owner] = w + 1]
    /\ pc' = [p \in Procs |->
                 IF p = w THEN "loop"
                 ELSE IF w + 1 = NWorkers /\ p \in Clients THEN "idle"
                 ELSE pc[p]]
    /\ UNCHANGED <<dequeVars, pending, syncVars, submitIdx, destroying,
                   spins, job, runs, historyVars>>

\* pthread_create fails: the workers started so far are stopped one by one,
\* from worker 0 up, each with a broadcast and a join.
SpawnFails ==
    /\ SpawnMayFail
    /\ Move(Owner, "create", "fail_wake")
    /\ shutdown' = TRUE
    /\ target' = [target EXCEPT ![Owner] = 0]
    /\ UNCHANGED <<dequeVars, pending, wakeMutex, waitMutex, submitIdx,
                   destroying, spins, job, runs, historyVars>>

Started(w) == w \in Workers /\ pc[w] # "unborn"
WokenUp(p) == IF pc[p] = "asleep" THEN "woken" ELSE pc[p]

\* This broadcast is made without wake_mutex.
FailWake ==
    /\ pc[Owner] = "fail_wake"
    /\ \/ /\ ~Started(target[Owner])
          /\ pc' = [pc EXCEPT ![Owner] = "done"]
             \/ /\ Started(target[Owner])
          /\ pc' = [p \in Procs |->
                       IF p = Owner THEN "fail_join" ELSE WokenUp(p)]
    /\ UNCHANGED <<dequeVars, pending, syncVars, submitIdx, target, destroying,
                   spins, job, runs, historyVars>>

FailJoin ==
    /\ Move(Owner, "fail_join", "fail_wake")
    /\ pc[target[Owner]] = "exit"
    /\ target' = [target EXCEPT ![Owner] = @ + 1]
    /\ UNCHANGED <<dequeVars, pending, syncVars, submitIdx, destroying,
                   spins, job, runs, historyVars>>

Shutdown ==
    /\ Move(Owner, "shutdown", "wake_all")
    /\ shutdown' = TRUE
    /\ UNCHANGED <<dequeVars, pending, wakeMutex, waitMutex, ownVars, spins, job,
                   runs, historyVars>>

\* Faulty: broadcasts without wake_mutex.
WakeAllUnlocked ==
    /\ pc[Owner] = "wake_all"
    /\ pc' = [p \in Procs |-> IF p = Owner THEN "join" ELSE WokenUp(p)]
    /\ UNCHANGED <<dequeVars, pending, syncVars, ownVars, spins, job, runs,
                   historyVars>>

WakeAll ==
    /\ pc[Owner] = "wake_all"
    /\ wakeMutex = NoProc
    /\ pc' = [p \in Procs |-> IF p = Owner THEN "join" ELSE WokenUp(p)]
    /\ UNCHANGED <<dequeVars, pending, syncVars, ownVars, spins, job, runs,
                   historyVars>>

\* The process may go on without the pool: every worker is joined, the memory freed.
JoinAndFree ==
    /\ \A w \in Workers : pc[w] = "exit"
    /\ Move(Owner, "join", "done")
    /\ UNCHANGED <<dequeVars, pending, syncVars, submitIdx, target, destroying,
                   spins, job, runs, historyVars>>

Client(c) ==
    \/ \E t \in Tasks : Submit(c, t)
    \/ SubmitCount(c) \/ SubmitPush(c) \/ SubmitSignal(c)
    \/ Wait(c) \/ WaitLoad(c) \/ WaitLock(c) \/ WaitCheck(c) \/ WaitSleep(c)
    \/ WaitWake(c)

OwnerStep ==
    \/ Spawn \/ SpawnFails \/ FailWake \/ FailJoin
    \/ Destroy \/ Shutdown \/ WakeAll \/ JoinAndFree

\* A null function ends the process, and with it every thread.
Crashed == \E w \in Workers : pc[w] = "run" /\ job[w] = NoTask

Step ==
    \/ \E w \in Workers : Worker(w)
    \/ \E c \in Clients : Client(c)
    \/ OwnerStep
    \/ \E p \in Procs : SpuriousWake(p)
    \/ \E p \in Procs : DequeStep(p) /\ UNCHANGED poolVars

Next == ~Crashed /\ Step

Spec == Init /\ [][Next]_vars

\* Every thread inside a call or inside its loop is scheduled again and again;
\* nobody has to call the pool, and no wakeup is spurious on demand.
InsideCall(c) ==
    \/ SubmitCount(c) \/ SubmitPush(c) \/ SubmitSignal(c)
    \/ WaitLoad(c) \/ WaitLock(c) \/ WaitCheck(c) \/ WaitSleep(c) \/ WaitWake(c)
InsideOwner ==
    \/ Spawn \/ SpawnFails \/ FailWake \/ FailJoin
    \/ Shutdown \/ WakeAll \/ JoinAndFree
Fairness ==
    /\ \A w \in Workers : WF_vars(~Crashed /\ Worker(w))
    /\ \A c \in Clients : WF_vars(~Crashed /\ InsideCall(c))
    /\ \A p \in Procs : WF_vars(~Crashed /\ DequeStep(p) /\ UNCHANGED poolVars)
    /\ WF_vars(~Crashed /\ InsideOwner)

FairSpec == Spec /\ Fairness

-----------------------------------------------------------------------------

Submitting == {c \in Clients : pc[c] \in {"submit_push", "submit_pushing"}}

\* No lost wakeup on wake_cond: the workers are never all asleep with a task
\* outstanding, unless the submit that counted it has yet to signal.
NoLostWakeup ==
    (\A w \in Workers : pc[w] = "asleep") /\ pending > 0 => Submitting # {}

\* No lost wakeup on wait_cond: a client asleep in bf_pool_wait has either
\* something outstanding to wait for, or a worker about to broadcast.
WaitersWoken ==
    (\E c \in Clients : pc[c] = "wait_asleep")
        => pending > 0 \/ \E w \in Workers : pc[w] = "broadcast"

\* A worker asleep after bf_pool_destroy set shutdown still has the broadcast
\* to come, so the owner does not join it for ever. (The way out of a failed
\* bf_pool_create has no such guarantee.)
ShutdownSeen ==
    \A w \in Workers : shutdown /\ pc[w] = "asleep" =>
        pc[Owner] \in {"wake_all", "fail_wake", "fail_join"}

Done == {t \in Tasks : runs[t] > 0}

\* When bf_pool_wait has returned, every task submitted before the call is
\* complete.
WaitMeansDone == promised \subseteq Done

\* Once bf_pool_destroy has announced the shutdown it ends, wherever it met the
\* workers: between their look at the flag and their sleep, asleep, stealing, or
\* with tasks left to drain; unless one of them ran a task that never was.
DestroyEnds ==
    pc[Owner] = "wake_all" ~> pc[Owner] = "done" \/ Crashed

\* bf_pool_wait ends.
WaitReturns ==
    \A c \in Clients : pc[c] = "wait_load" ~> pc[c] \in {"idle", "shutdown"}
=============================================================================
