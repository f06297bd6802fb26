--------------------------- MODULE JobQueueProofs ---------------------------
(* What holds of the job queue for any number of daemons, threads, clients    *)
(* and jobs, with crashes and failing writes.                                 *)
EXTENDS JobQueue, FiniteSetTheorems, TLAPS

(* Types.                                                                     *)

LEMMA IdsAreNumbers == Ids \subseteq Nat
  BY DEF Ids

LEMMA InitTypeOK == Init => TypeOK
  BY HomeAssumption, LimitAssumption DEF Init, TypeOK, Statuses, Finished, Outcomes, Event, Idle, NoNote

LEMMA Increment ==
  ASSUME NEW S, NEW f \in [S -> Nat], NEW j
  PROVE  [f EXCEPT ![j] = @ + 1] \in [S -> Nat]
<1>1. CASE j \in S
  <2>1. f[j] + 1 \in Nat
    BY <1>1
  <2>2. QED
    BY <2>1
<1>2. CASE j \notin S
  BY <1>2
<1>3. QED
  BY <1>1, <1>2

LEMMA SetStatusType ==
  ASSUME TypeOK, NEW j, NEW s \in Statuses, SetStatus(j, s)
  PROVE  status' \in [Ids -> Statuses] /\ changes' \in [Ids -> Nat]
<1>1. status \in [Ids -> Statuses] /\ changes \in [Ids -> Nat]
  BY DEF TypeOK
<1>2. status' \in [Ids -> Statuses]
  BY <1>1 DEF SetStatus
<1>3. changes' \in [Ids -> Nat]
  BY <1>1, Increment DEF SetStatus
<1>4. QED
  BY <1>2, <1>3

LEMMA HandType ==
  ASSUME TypeOK, NEW w \in Workers
  PROVE  /\ hand[w].job \in Nat
         /\ hand[w].tries \in Nat
         /\ hand[w].outcome \in Outcomes \union {"none"}
<1>1. hand[w] \in [job : Ids \union {0}, tries : Nat, outcome : Outcomes \union {"none"}]
  BY DEF TypeOK
<1>2. /\ hand[w].job \in Ids \union {0}
      /\ hand[w].tries \in Nat
      /\ hand[w].outcome \in Outcomes \union {"none"}
  BY <1>1
<1>3. QED
  BY <1>2 DEF Ids

LEMMA EmitEventType ==
  ASSUME TypeOK, NEW j \in Nat, NEW e \in {"queued", "running"} \union Outcomes, EmitEvent(j, e)
  PROVE  events' \in SUBSET Event /\ lastEvent' \in Nat
<1>1. events \in SUBSET Event /\ lastEvent \in Nat
  BY DEF TypeOK
<1>2. [id |-> lastEvent + 1, job |-> j, event |-> e] \in Event
  BY <1>1 DEF Event
<1>3. QED
  BY <1>1, <1>2 DEF EmitEvent, NewEventId, logVars

\* A thread that is about to report an outcome has one.
Decided == \A w \in Workers : pc[w] = "report" => hand[w].outcome \in Outcomes

LEMMA StepTypeOK == TypeOK /\ Decided /\ [Next]_vars => TypeOK'
<1> SUFFICES ASSUME TypeOK, Decided, [Next]_vars PROVE TypeOK'
  OBVIOUS
<1> USE HomeAssumption, PrioritiesAssumption, IdsAreNumbers
    DEF TypeOK, Idle, NoNote, Purged, jobVars, logVars, workerVars, clientVars, followVars
<1>1. ASSUME NEW w \in Workers, Select(w) PROVE TypeOK'
  <2>1. PICK j \in Ids :
          hand' = [hand EXCEPT ![w] = [job |-> j, tries |-> attempts[j], outcome |-> "none"]]
    BY <1>1 DEF Select
  <2>2. QED
    BY <1>1, <2>1 DEF Select, Goto
<1>2. ASSUME NEW w \in Workers, PollEmpty(w) PROVE TypeOK'
  BY <1>2 DEF PollEmpty, vars
<1>3. ASSUME NEW w \in Workers, Claim(w) PROVE TypeOK'
  <2>1. /\ mutex' = [mutex EXCEPT ![Home[w]] = NoWorker]
        /\ UNCHANGED <<priority, old, manual, logVars, running, clientVars, followVars>>
    BY <1>3 DEF Claim
  <2>2. CASE /\ SetStatus(hand[w].job, "running")
             /\ attempts' = [attempts EXCEPT ![hand[w].job] = @ + 1]
             /\ pc' = [pc EXCEPT ![w] = "claimed"]
             /\ hand' = hand
    <3>1. status' \in [Ids -> Statuses] /\ changes' \in [Ids -> Nat]
      BY <2>2, SetStatusType DEF Statuses
    <3>2. attempts' \in [Ids -> Nat]
      BY <2>2, Increment
    <3>3. pc' \in [Workers -> {"poll", "selected", "claimed", "executing", "report", "notify", "stopped"}]
      BY <2>2
    <3>4. QED
      BY <2>1, <2>2, <3>1, <3>2, <3>3
  <2>3. CASE /\ pc' = [pc EXCEPT ![w] = "poll"]
             /\ hand' = [hand EXCEPT ![w] = Idle]
             /\ UNCHANGED <<status, changes, attempts>>
    BY <2>1, <2>3
  <2>4. QED
    BY <1>3, <2>2, <2>3 DEF Claim
<1>4. ASSUME NEW w \in Workers, Announce(w) PROVE TypeOK'
  <2>1. hand[w].job \in Nat
    BY HandType
  <2>2. events' \in SUBSET Event /\ lastEvent' \in Nat
    BY <1>4, <2>1, EmitEventType DEF Announce
  <2>3. QED
    BY <1>4, <2>2 DEF Announce, Goto
<1>5. ASSUME NEW w \in Workers, Finish(w) PROVE TypeOK'
  <2>1. PICK e \in Results(w), ok \in Written :
          /\ hand' = [hand EXCEPT ![w] = [job |-> hand[w].job, tries |-> hand[w].tries, outcome |-> e]]
          /\ IF ok
             THEN SetStatus(hand[w].job, StatusOf(e)) /\ old' = old \ {hand[w].job}
             ELSE UNCHANGED <<status, changes, old>>
    BY <1>5 DEF Finish
  <2>2. e \in Outcomes
    BY DEF Results, Outcomes
  <2>3. hand' \in [Workers -> [job : Ids \union {0}, tries : Nat, outcome : Outcomes \union {"none"}]]
    BY <2>1, <2>2
  <2>4. /\ status' \in [Ids -> Statuses]
        /\ changes' \in [Ids -> Nat]
        /\ old' \in SUBSET Ids
    <3>1. CASE ok
      <4>1. StatusOf(e) \in Statuses
        BY <2>2 DEF StatusOf, Statuses, Outcomes, Finished
      <4>2. QED
        BY <2>1, <3>1, <4>1, SetStatusType
    <3>2. CASE ~ok
      BY <2>1, <3>2
    <3>3. QED
      BY <3>1, <3>2
  <2>5. QED
    BY <1>5, <2>3, <2>4 DEF Finish, Goto
<1>6. ASSUME NEW w \in Workers, Report(w) PROVE TypeOK'
  <2>1. hand[w].job \in Nat /\ hand[w].outcome \in Outcomes
    BY <1>6, HandType DEF Report, Decided
  <2>2. /\ EmitEvent(hand[w].job, hand[w].outcome)
        /\ \/ pc' = [pc EXCEPT ![w] = "poll"] /\ hand' = [hand EXCEPT ![w] = Idle]
           \/ pc' = [pc EXCEPT ![w] = "notify"] /\ hand' = hand
        /\ UNCHANGED <<jobVars, mutex, running, clientVars, followVars>>
    BY <1>6 DEF Report
  <2>3. events' \in SUBSET Event /\ lastEvent' \in Nat
    BY <2>1, <2>2, EmitEventType
  <2>4. hand' \in [Workers -> [job : Ids \union {0}, tries : Nat, outcome : Outcomes \union {"none"}]]
    BY <2>2
  <2>5. pc' \in [Workers -> {"poll", "selected", "claimed", "executing", "report", "notify", "stopped"}]
    BY <2>2
  <2>6. QED
    BY <2>2, <2>3, <2>4, <2>5
<1>7. ASSUME NEW w \in Workers, Notify(w) PROVE TypeOK'
  BY <1>7 DEF Notify, Goto
<1>8. ASSUME NEW w \in Workers, Stop(w) PROVE TypeOK'
  BY <1>8 DEF Stop, Goto
<1>9. ASSUME NEW d \in Daemons, Signal(d) PROVE TypeOK'
  BY <1>9 DEF Signal
<1>10. ASSUME NEW d \in Daemons, Exit(d) PROVE TypeOK'
  BY <1>10 DEF Exit
<1>11. ASSUME NEW d \in Daemons, Crash(d) PROVE TypeOK'
  BY <1>11 DEF Crash
<1>12. ASSUME NEW d \in Daemons, Start(d) PROVE TypeOK'
  BY <1>12 DEF Start
<1>13. ASSUME NEW c \in Clients, Enqueue(c) PROVE TypeOK'
  <2>1. PICK j \in Ids, p \in Priorities, ok \in Written :
          IF ok
          THEN /\ Insert(j, p)
               /\ note' = [note EXCEPT ![c] = [job |-> j, event |-> "queued"]]
               /\ rowid' = [rowid EXCEPT ![c] = Remembered(c, j)]
          ELSE /\ note' = [note EXCEPT ![c] = [job |-> rowid[c], event |-> "queued"]]
               /\ UNCHANGED <<status, changes, priority, rowid>>
    BY <1>13 DEF Enqueue
  <2>2. UNCHANGED <<attempts, old, manual, logVars, workerVars, running, followVars>>
    BY <1>13 DEF Enqueue
  <2>3. CASE ok
    <3>1. status' \in [Ids -> Statuses] /\ changes' \in [Ids -> Nat]
      BY <2>1, <2>3, SetStatusType DEF Insert, Statuses
    <3>2. priority' \in [Ids -> Int]
      BY <2>1, <2>3 DEF Insert
    <3>3. rowid' \in [Clients -> Nat]
      BY <2>1, <2>3 DEF Remembered
    <3>4. note' \in [Clients -> [job : Nat, event : {"none", "purge", "queued", "retry"}]]
      BY <2>1, <2>3
    <3>5. QED
      BY <2>2, <3>1, <3>2, <3>3, <3>4
  <2>4. CASE ~ok
    <3>1. note' \in [Clients -> [job : Nat, event : {"none", "purge", "queued", "retry"}]]
      BY <2>1, <2>4
    <3>2. QED
      BY <2>1, <2>2, <2>4, <3>1
  <2>5. QED
    BY <2>3, <2>4
<1>14. ASSUME NEW c \in Clients, Retry(c) PROVE TypeOK'
  <2>1. PICK j \in Ids :
          /\ SetStatus(j, "queued")
          /\ old' = old \ {j}
          /\ manual' = [manual EXCEPT ![j] = @ + 1]
          /\ note' = [note EXCEPT ![c] = [job |-> j, event |-> "retry"]]
    BY <1>14 DEF Retry
  <2>2. status' \in [Ids -> Statuses] /\ changes' \in [Ids -> Nat]
    BY <2>1, SetStatusType DEF Statuses
  <2>3. note' \in [Clients -> [job : Nat, event : {"none", "purge", "queued", "retry"}]]
    BY <2>1
  <2>4. manual' \in [Ids -> Nat]
    BY <2>1
  <2>5. QED
    BY <1>14, <2>1, <2>2, <2>3, <2>4 DEF Retry
<1>15. ASSUME NEW c \in Clients, Tell(c) PROVE TypeOK'
  <2>1. note[c].job \in Nat
    OBVIOUS
  <2>2. EmitEvent(note[c].job, note[c].event) /\ note[c].event \in {"queued", "running"} \union Outcomes
    BY <1>15 DEF Tell, Outcomes
  <2>5. events' \in SUBSET Event /\ lastEvent' \in Nat
    BY <2>1, <2>2, EmitEventType
  <2>3. rowid' \in [Clients -> Nat]
    BY <1>15, <2>5 DEF Tell, Remembered
  <2>4. QED
    BY <1>15, <2>5, <2>3 DEF Tell
<1>16. ASSUME NEW c \in Clients, PurgeEvents(c) PROVE TypeOK'
  BY <1>16 DEF PurgeEvents, Written, Purgeable
<1>17. ASSUME NEW c \in Clients, PurgeJobs(c) PROVE TypeOK'
  <2>1. status' \in [Ids -> Statuses] /\ old' \in SUBSET Ids
    BY <1>17 DEF PurgeJobs, Statuses
  <2>2. QED
    BY <1>17, <2>1 DEF PurgeJobs
<1>18. ASSUME NEW j \in Ids, Age(j) PROVE TypeOK'
  BY <1>18 DEF Age
<1>19. ASSUME Follow PROVE TypeOK'
  <2>1. PICK e \in events : LastOf(NextBatch, e) /\ since' = e.id
    BY <1>19 DEF Follow
  <2>2. e.id \in Nat
    BY DEF Event
  <2>3. seen' \in SUBSET Event
    BY <1>19 DEF Follow, NextBatch
  <2>4. QED
    BY <1>19, <2>1, <2>2, <2>3 DEF Follow
<1>20. CASE UNCHANGED vars
  BY <1>20 DEF vars
<1>21. QED
  BY <1>1, <1>2, <1>3, <1>4, <1>5, <1>6, <1>7, <1>8, <1>9, <1>10, <1>11, <1>12, <1>13, <1>14, <1>15,
     <1>16, <1>17, <1>18, <1>19, <1>20 DEF Next, WorkerStep

LEMMA StepDecided == TypeOK /\ Decided /\ [Next]_vars => Decided'
<1> SUFFICES ASSUME TypeOK, Decided, [Next]_vars PROVE Decided'
  OBVIOUS
<1> USE DEF TypeOK, Decided, Idle, jobVars, logVars, workerVars, clientVars, followVars
<1>1. ASSUME NEW w \in Workers, Select(w) PROVE Decided'
  BY <1>1 DEF Select, Goto, Unlocked, IsNext
<1>2. ASSUME NEW w \in Workers, PollEmpty(w) PROVE Decided'
  BY <1>2 DEF PollEmpty, vars
<1>3. ASSUME NEW w \in Workers, Claim(w) PROVE Decided'
  BY <1>3 DEF Claim, SetStatus, Claimable, Written
<1>4. ASSUME NEW w \in Workers, Announce(w) PROVE Decided'
  BY <1>4 DEF Announce, Goto, EmitEvent, NewEventId, Written
<1>5. ASSUME NEW w \in Workers, Finish(w) PROVE Decided'
  <2>1. PICK e \in Results(w) :
          hand' = [hand EXCEPT ![w] = [job |-> hand[w].job, tries |-> hand[w].tries, outcome |-> e]]
    BY <1>5 DEF Finish
  <2>2. e \in Outcomes
    BY DEF Results, Outcomes
  <2>3. QED
    BY <1>5, <2>1, <2>2 DEF Finish, Goto
<1>6. ASSUME NEW w \in Workers, Report(w) PROVE Decided'
  BY <1>6 DEF Report, EmitEvent, NewEventId, Written
<1>7. ASSUME NEW w \in Workers, Notify(w) PROVE Decided'
  BY <1>7 DEF Notify, Goto
<1>8. ASSUME NEW w \in Workers, Stop(w) PROVE Decided'
  BY <1>8 DEF Stop, Goto
<1>9. ASSUME NEW d \in Daemons, Signal(d) PROVE Decided'
  BY <1>9 DEF Signal
<1>10. ASSUME NEW d \in Daemons, Exit(d) PROVE Decided'
  BY <1>10 DEF Exit
<1>11. ASSUME NEW d \in Daemons, Crash(d) PROVE Decided'
  BY <1>11 DEF Crash
<1>12. ASSUME NEW d \in Daemons, Start(d) PROVE Decided'
  BY <1>12 DEF Start
<1>13. ASSUME NEW c \in Clients, Enqueue(c) PROVE Decided'
  BY <1>13 DEF Enqueue, Insert, SetStatus, Remembered, Written
<1>14. ASSUME NEW c \in Clients, Retry(c) PROVE Decided'
  BY <1>14 DEF Retry, SetStatus
<1>15. ASSUME NEW c \in Clients, Tell(c) PROVE Decided'
  BY <1>15 DEF Tell, EmitEvent, NewEventId, Remembered, Written
<1>16. ASSUME NEW c \in Clients, PurgeEvents(c) PROVE Decided'
  BY <1>16 DEF PurgeEvents, Written, Purgeable
<1>17. ASSUME NEW c \in Clients, PurgeJobs(c) PROVE Decided'
  BY <1>17 DEF PurgeJobs, Written, Purgeable
<1>18. ASSUME NEW j \in Ids, Age(j) PROVE Decided'
  BY <1>18 DEF Age
<1>19. ASSUME Follow PROVE Decided'
  BY <1>19 DEF Follow, NextBatch, LastOf
<1>20. CASE UNCHANGED vars
  BY <1>20 DEF vars
<1>21. QED
  BY <1>1, <1>2, <1>3, <1>4, <1>5, <1>6, <1>7, <1>8, <1>9, <1>10, <1>11, <1>12, <1>13, <1>14, <1>15,
     <1>16, <1>17, <1>18, <1>19, <1>20 DEF Next, WorkerStep

\* Every row, every local variable of a thread and every cursor has the type
\* the code gives it.
THEOREM RowsTyped == Spec => []TypeOK
<1>1. Init => TypeOK /\ Decided
  BY InitTypeOK DEF Init, Decided
<1>2. TypeOK /\ Decided /\ [Next]_vars => TypeOK' /\ Decided'
  BY StepTypeOK, StepDecided
<1>3. QED
  BY <1>1, <1>2, PTL DEF Spec

(* Exclusive execution.                                                       *)

\* A thread that has claimed a job, or is about to, has the id of a job.
InHand == \A w \in Workers : pc[w] \in {"selected", "claimed", "executing"} => hand[w].job \in Ids

RunnerInv == TypeOK /\ Decided /\ InHand /\ OneRunner

LEMMA StepRunner == RunnerInv /\ [Next]_vars => InHand' /\ OneRunner'
<1> SUFFICES ASSUME RunnerInv, [Next]_vars PROVE InHand' /\ OneRunner'
  OBVIOUS
<1> USE DEF RunnerInv, TypeOK, InHand, OneRunner, Holds, Idle, Finished, Outcomes, jobVars, logVars, workerVars,
        clientVars, followVars
<1>1. ASSUME NEW w \in Workers, Select(w) PROVE InHand' /\ OneRunner'
  BY <1>1 DEF Select, Goto, Unlocked, IsNext
<1>2. ASSUME NEW w \in Workers, PollEmpty(w) PROVE InHand' /\ OneRunner'
  BY <1>2 DEF PollEmpty, vars
<1>3. ASSUME NEW w \in Workers, Claim(w) PROVE InHand' /\ OneRunner'
  <2>1. CASE /\ status[hand[w].job] = "queued"
             /\ status' = [status EXCEPT ![hand[w].job] = "running"]
             /\ pc' = [pc EXCEPT ![w] = "claimed"]
             /\ hand' = hand
    BY <1>3, <2>1 DEF Claim
  <2>2. CASE /\ pc' = [pc EXCEPT ![w] = "poll"]
             /\ hand' = [hand EXCEPT ![w] = Idle]
             /\ status' = status
    BY <2>2
  <2>3. QED
    BY <1>3, <2>1, <2>2 DEF Claim, Claimable, SetStatus
<1>4. ASSUME NEW w \in Workers, Announce(w) PROVE InHand' /\ OneRunner'
  BY <1>4 DEF Announce, Goto, EmitEvent, NewEventId, Written
<1>5. ASSUME NEW w \in Workers, Finish(w) PROVE InHand' /\ OneRunner'
  <2>1. PICK e : hand' = [hand EXCEPT ![w] = [job |-> hand[w].job, tries |-> hand[w].tries, outcome |-> e]]
    BY <1>5 DEF Finish
  <2>2. /\ pc[w] = "executing"
        /\ pc' = [pc EXCEPT ![w] = "report"]
        /\ \A j \in Ids : j # hand[w].job => status'[j] = status[j]
    BY <1>5 DEF Finish, Goto, SetStatus
  <2>3. \A v \in Workers, j \in Ids : Holds(v, j)' => Holds(v, j) /\ v # w
    BY <2>1, <2>2
  <2>4. \A v \in Workers, j \in Ids : Holds(v, j)' => status'[j] = status[j]
    BY <2>2, <2>3
  <2>5. InHand'
    BY <2>1, <2>2
  <2>6. ASSUME NEW j \in Ids, NEW v \in Workers, Holds(v, j)'
        PROVE  status'[j] = "running" /\ \A u \in Workers : Holds(u, j)' => u = v
    <3>1. Holds(v, j) /\ status'[j] = status[j] /\ \A u \in Workers : Holds(u, j)' => Holds(u, j)
      BY <2>3, <2>4, <2>6
    <3>2. status[j] = "running" /\ \A u \in Workers : Holds(u, j) => u = v
      BY <3>1
    <3>3. QED
      BY <3>1, <3>2
  <2>7. QED
    BY <2>5, <2>6
<1>6. ASSUME NEW w \in Workers, Report(w) PROVE InHand' /\ OneRunner'
  <2>1. /\ pc[w] = "report"
        /\ \/ pc' = [pc EXCEPT ![w] = "poll"] /\ hand' = [hand EXCEPT ![w] = Idle]
           \/ pc' = [pc EXCEPT ![w] = "notify"] /\ hand' = hand
        /\ status' = status
    BY <1>6 DEF Report
  <2>2. QED
    BY <2>1
<1>7. ASSUME NEW w \in Workers, Notify(w) PROVE InHand' /\ OneRunner'
  BY <1>7 DEF Notify, Goto
<1>8. ASSUME NEW w \in Workers, Stop(w) PROVE InHand' /\ OneRunner'
  BY <1>8 DEF Stop, Goto
<1>9. ASSUME NEW d \in Daemons, Signal(d) PROVE InHand' /\ OneRunner'
  BY <1>9 DEF Signal
<1>10. ASSUME NEW d \in Daemons, Exit(d) PROVE InHand' /\ OneRunner'
  BY <1>10 DEF Exit
<1>11. ASSUME NEW d \in Daemons, Crash(d) PROVE InHand' /\ OneRunner'
  BY <1>11 DEF Crash
<1>12. ASSUME NEW d \in Daemons, Start(d) PROVE InHand' /\ OneRunner'
  BY <1>12 DEF Start
<1>13. ASSUME NEW c \in Clients, Enqueue(c) PROVE InHand' /\ OneRunner'
  <2>1. /\ UNCHANGED <<pc, hand>>
        /\ \A j \in Ids : status[j] = "running" => status'[j] = "running"
    BY <1>13 DEF Enqueue, Insert, SetStatus
  <2>2. QED
    BY <2>1
<1>14. ASSUME NEW c \in Clients, Retry(c) PROVE InHand' /\ OneRunner'
  BY <1>14 DEF Retry, SetStatus
<1>15. ASSUME NEW c \in Clients, Tell(c) PROVE InHand' /\ OneRunner'
  BY <1>15 DEF Tell, EmitEvent, NewEventId, Remembered, Written
<1>16. ASSUME NEW c \in Clients, PurgeEvents(c) PROVE InHand' /\ OneRunner'
  BY <1>16 DEF PurgeEvents, Written, Purgeable
<1>17. ASSUME NEW c \in Clients, PurgeJobs(c) PROVE InHand' /\ OneRunner'
  <2>1. /\ UNCHANGED <<pc, hand>>
        /\ \A j \in Ids : status[j] = "running" => status'[j] = "running"
    BY <1>17 DEF PurgeJobs, Purgeable
  <2>2. QED
    BY <2>1
<1>18. ASSUME NEW j \in Ids, Age(j) PROVE InHand' /\ OneRunner'
  BY <1>18 DEF Age
<1>19. ASSUME Follow PROVE InHand' /\ OneRunner'
  BY <1>19 DEF Follow, NextBatch, LastOf
<1>20. CASE UNCHANGED vars
  BY <1>20 DEF vars
<1>21. QED
  BY <1>1, <1>2, <1>3, <1>4, <1>5, <1>6, <1>7, <1>8, <1>9, <1>10, <1>11, <1>12, <1>13, <1>14, <1>15,
     <1>16, <1>17, <1>18, <1>19, <1>20 DEF Next, WorkerStep

LEMMA RunnerInvariant == Spec => []RunnerInv
<1>1. Init => RunnerInv
  BY InitTypeOK DEF Init, RunnerInv, Decided, InHand, OneRunner, Holds
<1>2. RunnerInv /\ [Next]_vars => RunnerInv'
  BY StepRunner, StepTypeOK, StepDecided DEF RunnerInv
<1>3. QED
  BY <1>1, <1>2, PTL DEF Spec

\* No job is executed by two workers, and nothing but its worker changes its
\* status meanwhile.
THEOREM ExecutionIsExclusive == Spec => []OneRunner
  BY RunnerInvariant, PTL DEF RunnerInv

(* Implementation of JobLifecycle.                                            *)

LEMMA StepLifecycle == RunnerInv /\ [Next]_vars => [Lifecycle!Next]_status
<1> SUFFICES ASSUME RunnerInv, [Next]_vars PROVE [Lifecycle!Next]_status
  OBVIOUS
<1> USE DEF jobVars, logVars, workerVars, clientVars, followVars, Lifecycle!Next, Lifecycle!Move
<1>1. ASSUME NEW w \in Workers, Select(w) PROVE [Lifecycle!Next]_status
  BY <1>1 DEF Select
<1>2. ASSUME NEW w \in Workers, PollEmpty(w) PROVE [Lifecycle!Next]_status
  BY <1>2 DEF PollEmpty, vars
<1>3. ASSUME NEW w \in Workers, Claim(w) PROVE [Lifecycle!Next]_status
  <2>1. pc[w] = "selected" /\ hand[w].job \in Ids
    BY <1>3 DEF Claim, RunnerInv, InHand
  <2>2. CASE status' = status
    BY <2>2
  <2>3. CASE status' # status
    <3>1. Lifecycle!Claim(hand[w].job)
      BY <1>3, <2>3 DEF Claim, Claimable, SetStatus, Lifecycle!Claim
    <3>2. QED
      BY <2>1, <3>1
  <2>4. QED
    BY <2>2, <2>3
<1>4. ASSUME NEW w \in Workers, Announce(w) PROVE [Lifecycle!Next]_status
  BY <1>4 DEF Announce
<1>5. ASSUME NEW w \in Workers, Finish(w) PROVE [Lifecycle!Next]_status
  <2>1. hand[w].job \in Ids /\ status[hand[w].job] = "running"
    BY <1>5 DEF Finish, Goto, RunnerInv, InHand, OneRunner, Holds
  <2>2. PICK e \in Results(w), ok \in Written :
          IF ok THEN SetStatus(hand[w].job, StatusOf(e)) ELSE status' = status
    BY <1>5 DEF Finish
  <2>3. CASE ~ok
    BY <2>2, <2>3
  <2>4. CASE ok /\ e = "retry"
    <3>1. Lifecycle!Requeue(hand[w].job)
      BY <2>1, <2>2, <2>4 DEF SetStatus, StatusOf, Lifecycle!Requeue
    <3>2. QED
      BY <2>1, <3>1
  <2>5. CASE ok /\ e # "retry"
    <3>1. e \in {"completed", "failed"} /\ StatusOf(e) = e
      BY <2>5 DEF Results, Finished, StatusOf
    <3>2. Lifecycle!End(hand[w].job)
      BY <2>1, <2>2, <2>5, <3>1 DEF SetStatus, Lifecycle!End
    <3>3. QED
      BY <2>1, <3>2
  <2>6. QED
    BY <2>3, <2>4, <2>5
<1>6. ASSUME NEW w \in Workers, Report(w) PROVE [Lifecycle!Next]_status
  BY <1>6 DEF Report
<1>7. ASSUME NEW w \in Workers, Notify(w) PROVE [Lifecycle!Next]_status
  BY <1>7 DEF Notify
<1>8. ASSUME NEW w \in Workers, Stop(w) PROVE [Lifecycle!Next]_status
  BY <1>8 DEF Stop
<1>9. ASSUME NEW d \in Daemons, Signal(d) PROVE [Lifecycle!Next]_status
  BY <1>9 DEF Signal
<1>10. ASSUME NEW d \in Daemons, Exit(d) PROVE [Lifecycle!Next]_status
  BY <1>10 DEF Exit
<1>11. ASSUME NEW d \in Daemons, Crash(d) PROVE [Lifecycle!Next]_status
  BY <1>11 DEF Crash
<1>12. ASSUME NEW d \in Daemons, Start(d) PROVE [Lifecycle!Next]_status
  BY <1>12 DEF Start
<1>13. ASSUME NEW c \in Clients, Enqueue(c) PROVE [Lifecycle!Next]_status
  <2>1. PICK j \in Ids, ok \in Written :
          /\ status[j] = "absent"
          /\ \A i \in 1..j - 1 : status[i] # "absent"
          /\ IF ok THEN SetStatus(j, "queued") ELSE status' = status
    BY <1>13 DEF Enqueue, Insert
  <2>2. CASE ~ok
    BY <2>1, <2>2
  <2>3. CASE ok
    <3>1. \A i \in Ids : i < j => i \in 1..j - 1
      BY DEF Ids
    <3>2. Lifecycle!Enqueue(j)
      BY <2>1, <2>3, <3>1 DEF SetStatus, Lifecycle!Enqueue
    <3>3. QED
      BY <3>2
  <2>4. QED
    BY <2>2, <2>3
<1>14. ASSUME NEW c \in Clients, Retry(c) PROVE [Lifecycle!Next]_status
  <2>1. PICK j \in Ids : status[j] \in Finished /\ SetStatus(j, "queued")
    BY <1>14 DEF Retry
  <2>2. Lifecycle!Requeue(j)
    BY <2>1 DEF SetStatus, Finished, Lifecycle!Requeue
  <2>3. QED
    BY <2>2
<1>15. ASSUME NEW c \in Clients, Tell(c) PROVE [Lifecycle!Next]_status
  BY <1>15 DEF Tell
<1>16. ASSUME NEW c \in Clients, PurgeEvents(c) PROVE [Lifecycle!Next]_status
  BY <1>16 DEF PurgeEvents
<1>17. ASSUME NEW c \in Clients, PurgeJobs(c) PROVE [Lifecycle!Next]_status
  <2>1. CASE status' = status
    BY <2>1
  <2>2. CASE status' # status
    <3>1. Purgeable \in SUBSET {j \in Ids : status[j] \in {"completed", "failed"}}
      BY DEF Purgeable, Finished, RunnerInv, TypeOK
    <3>2. status' = [j \in Ids |-> IF j \in Purgeable THEN "deleted" ELSE status[j]]
      BY <1>17, <2>2 DEF PurgeJobs
    <3>3. Lifecycle!Purge
      BY <3>1, <3>2 DEF Lifecycle!Purge
    <3>4. QED
      BY <3>3
  <2>3. QED
    BY <2>1, <2>2
<1>18. ASSUME NEW j \in Ids, Age(j) PROVE [Lifecycle!Next]_status
  BY <1>18 DEF Age
<1>19. ASSUME Follow PROVE [Lifecycle!Next]_status
  BY <1>19 DEF Follow
<1>20. CASE UNCHANGED vars
  BY <1>20 DEF vars
<1>21. QED
  BY <1>1, <1>2, <1>3, <1>4, <1>5, <1>6, <1>7, <1>8, <1>9, <1>10, <1>11, <1>12, <1>13, <1>14, <1>15,
     <1>16, <1>17, <1>18, <1>19, <1>20 DEF Next, WorkerStep

\* The jobs table implements JobLifecycle, although the UPDATE that ends a job
\* does not look at the status it replaces.
THEOREM TableIsLifecycle == Spec => LifecycleSpec
<1>1. Init => Lifecycle!Init
  BY DEF Init, Lifecycle!Init
<1>2. QED
  BY <1>1, RunnerInvariant, StepLifecycle, PTL DEF Spec, LifecycleSpec, Lifecycle!Spec

(* The retry limit, with one daemon.                                          *)

OneDaemon == \A v, w \in Workers : Home[v] = Home[w]

\* A thread between SELECT and claim holds the mutex, and what it read is so.
FreshSelect ==
  \A w \in Workers : pc[w] = "selected" =>
    /\ mutex[Home[w]] = w
    /\ hand[w].job \in Ids
    /\ hand[w].tries = attempts[hand[w].job]

\* The attempts a thread compares with the limit are those of the row, less the
\* one it is making.
FreshTries ==
  \A w \in Workers : pc[w] \in {"claimed", "executing"} =>
    hand[w].tries + 1 = attempts[hand[w].job]

\* A job that waits may be attempted once more.
RoomForOne ==
  \A j \in Ids : /\ status[j] = "absent" => attempts[j] = 0
                 /\ status[j] = "queued" => attempts[j] < MaxRetries + manual[j]

RetryInv == FreshSelect /\ FreshTries /\ RoomForOne /\ RetryBound

LEMMA FinishEffect ==
  ASSUME NEW w \in Workers, Finish(w)
  PROVE  \E e \in Results(w), ok \in Written :
           /\ hand' = [hand EXCEPT ![w] = [job |-> hand[w].job, tries |-> hand[w].tries, outcome |-> e]]
           /\ IF ok THEN SetStatus(hand[w].job, StatusOf(e)) ELSE status' = status
  BY DEF Finish

LEMMA StepRetry ==
  ASSUME OneDaemon, RunnerInv, RetryInv, [Next]_vars
  PROVE  RetryInv'
<1> USE HomeAssumption, LimitAssumption
    DEF RetryInv, FreshSelect, FreshTries, RoomForOne, RetryBound, OneDaemon, RunnerInv, TypeOK, OneRunner, InHand, Holds,
        Idle, jobVars, logVars, workerVars, clientVars, followVars
<1>1. ASSUME NEW w \in Workers, Select(w) PROVE RetryInv'
  BY <1>1 DEF Select, Goto, Unlocked, IsNext
<1>2. ASSUME NEW w \in Workers, PollEmpty(w) PROVE RetryInv'
  BY <1>2 DEF PollEmpty, vars
<1>3. ASSUME NEW w \in Workers, Claim(w) PROVE RetryInv'
  <2>1. /\ pc[w] = "selected"
        /\ mutex' = [mutex EXCEPT ![Home[w]] = NoWorker]
        /\ manual' = manual
    BY <1>3 DEF Claim
  <2>2. \A v \in Workers : pc[v] = "selected" => v = w
    BY <2>1
  <2>3. CASE /\ status[hand[w].job] = "queued"
             /\ status' = [status EXCEPT ![hand[w].job] = "running"]
             /\ attempts' = [attempts EXCEPT ![hand[w].job] = @ + 1]
             /\ pc' = [pc EXCEPT ![w] = "claimed"]
             /\ hand' = hand
    <3>1. FreshSelect'
      BY <2>1, <2>2, <2>3
    <3>2. \A v \in Workers : pc[v] \in {"claimed", "executing"} => hand[v].job # hand[w].job
      BY <2>1, <2>3
    <3>3. FreshTries'
      BY <2>1, <2>3, <3>2
    <3>4. RoomForOne' /\ RetryBound'
      BY <2>1, <2>3
    <3>5. QED
      BY <3>1, <3>3, <3>4
  <2>4. CASE /\ pc' = [pc EXCEPT ![w] = "poll"]
             /\ hand' = [hand EXCEPT ![w] = Idle]
             /\ UNCHANGED <<status, attempts>>
    <3>1. FreshSelect' /\ FreshTries'
      BY <2>1, <2>2, <2>4
    <3>2. RoomForOne' /\ RetryBound'
      BY <2>1, <2>4
    <3>3. QED
      BY <3>1, <3>2
  <2>5. QED
    BY <1>3, <2>3, <2>4 DEF Claim, Claimable, SetStatus
<1>4. ASSUME NEW w \in Workers, Announce(w) PROVE RetryInv'
  BY <1>4 DEF Announce, Goto, EmitEvent, NewEventId, Written
<1>5. ASSUME NEW w \in Workers, Finish(w) PROVE RetryInv'
  <2>1. PICK e \in Results(w), ok \in Written :
          /\ hand' = [hand EXCEPT ![w] = [job |-> hand[w].job, tries |-> hand[w].tries, outcome |-> e]]
          /\ IF ok THEN SetStatus(hand[w].job, StatusOf(e)) ELSE status' = status
    BY <1>5, FinishEffect
  <2>2. /\ pc[w] = "executing"
        /\ pc' = [pc EXCEPT ![w] = "report"]
        /\ UNCHANGED <<attempts, manual, mutex>>
    BY <1>5 DEF Finish, Goto
  <2>3. hand[w].job \in Ids /\ attempts[hand[w].job] = hand[w].tries + 1
    BY <2>2
  <2>4. FreshSelect' /\ FreshTries'
    BY <2>1, <2>2
  <2>5. StatusOf(e) = "queued" => hand[w].tries + 1 < MaxRetries
    BY DEF StatusOf, Results, ShouldRetry, Finished
  <2>6. StatusOf(e) # "absent"
    BY DEF StatusOf, Results, Finished
  <2>7. RoomForOne'
    <3>1. SUFFICES ASSUME NEW j \in Ids
                   PROVE /\ status'[j] = "absent" => attempts[j] = 0
                         /\ status'[j] = "queued" => attempts[j] < MaxRetries + manual[j]
      BY <2>2
    <3>2. CASE j = hand[w].job /\ ok
      <4>1. status'[j] = StatusOf(e)
        BY <2>1, <3>2 DEF SetStatus
      <4>2. QED
        BY <2>3, <2>5, <2>6, <3>2, <4>1
    <3>3. CASE ~(j = hand[w].job /\ ok)
      <4>1. status'[j] = status[j]
        BY <2>1, <3>3 DEF SetStatus
      <4>2. QED
        BY <4>1
    <3>4. QED
      BY <3>2, <3>3
  <2>8. RetryBound'
    BY <2>2
  <2>9. QED
    BY <2>4, <2>7, <2>8
<1>6. ASSUME NEW w \in Workers, Report(w) PROVE RetryInv'
  BY <1>6 DEF Report, EmitEvent, NewEventId, Written
<1>7. ASSUME NEW w \in Workers, Notify(w) PROVE RetryInv'
  BY <1>7 DEF Notify, Goto
<1>8. ASSUME NEW w \in Workers, Stop(w) PROVE RetryInv'
  BY <1>8 DEF Stop, Goto
<1>9. ASSUME NEW d \in Daemons, Signal(d) PROVE RetryInv'
  BY <1>9 DEF Signal
<1>10. ASSUME NEW d \in Daemons, Exit(d) PROVE RetryInv'
  BY <1>10 DEF Exit
<1>11. ASSUME NEW d \in Daemons, Crash(d) PROVE RetryInv'
  BY <1>11 DEF Crash
<1>12. ASSUME NEW d \in Daemons, Start(d) PROVE RetryInv'
  BY <1>12 DEF Start
<1>13. ASSUME NEW c \in Clients, Enqueue(c) PROVE RetryInv'
  BY <1>13 DEF Enqueue, Insert, SetStatus, Remembered, Written
<1>14. ASSUME NEW c \in Clients, Retry(c) PROVE RetryInv'
  BY <1>14 DEF Retry, SetStatus
<1>15. ASSUME NEW c \in Clients, Tell(c) PROVE RetryInv'
  BY <1>15 DEF Tell, EmitEvent, NewEventId, Remembered, Written
<1>16. ASSUME NEW c \in Clients, PurgeEvents(c) PROVE RetryInv'
  BY <1>16 DEF PurgeEvents, Written, Purgeable
<1>17. ASSUME NEW c \in Clients, PurgeJobs(c) PROVE RetryInv'
  BY <1>17 DEF PurgeJobs, Written, Purgeable
<1>18. ASSUME NEW j \in Ids, Age(j) PROVE RetryInv'
  BY <1>18 DEF Age
<1>19. ASSUME Follow PROVE RetryInv'
  BY <1>19 DEF Follow, NextBatch, LastOf
<1>20. CASE UNCHANGED vars
  BY <1>20 DEF vars
<1>21. QED
  BY <1>1, <1>2, <1>3, <1>4, <1>5, <1>6, <1>7, <1>8, <1>9, <1>10, <1>11, <1>12, <1>13, <1>14, <1>15,
     <1>16, <1>17, <1>18, <1>19, <1>20 DEF Next, WorkerStep

\* With one daemon a job is attempted at most max_retries times, and once more
\* for each manual retry.
THEOREM RetriesAreBounded == OneDaemon /\ Spec => []RetryBound
<1> SUFFICES ASSUME OneDaemon PROVE Spec => []RetryBound
  OBVIOUS
<1>1. Init => RetryInv
  BY LimitAssumption DEF Init, RetryInv, FreshSelect, FreshTries, RoomForOne, RetryBound
<1>2. RunnerInv /\ RetryInv /\ [Next]_vars => RetryInv'
  BY StepRetry
<1>3. RetryInv => RetryBound
  BY DEF RetryInv
<1>4. QED
  BY <1>1, <1>2, <1>3, RunnerInvariant, PTL DEF Spec

(* The follower.                                                              *)

\* What a step does to the log: a row with the next id is added, or rows are
\* taken away, or the follower reads.
LEMMA LogSteps ==
  ASSUME TypeOK, [Next]_vars
  PROVE  \/ /\ \E r : r.id = lastEvent + 1 /\ events' = events \union {r}
            /\ lastEvent' = lastEvent + 1
            /\ UNCHANGED followVars
         \/ events' \subseteq events /\ UNCHANGED <<lastEvent, followVars>>
         \/ Follow
<1> DEFINE Adds == /\ \E r : r.id = lastEvent + 1 /\ events' = events \union {r}
                   /\ lastEvent' = lastEvent + 1
           Takes == events' \subseteq events /\ lastEvent' = lastEvent
<1>1. ASSUME NEW j, NEW e, EmitEvent(j, e) PROVE Adds \/ Takes
  <2>1. [id |-> NewEventId, job |-> j, event |-> e].id = lastEvent + 1
    BY DEF NewEventId
  <2>2. QED
    BY <1>1, <2>1 DEF EmitEvent, NewEventId, logVars
<1> USE DEF jobVars, logVars, workerVars, clientVars, followVars
<1>2. ASSUME NEW w \in Workers, WorkerStep(w) PROVE (Adds \/ Takes) /\ UNCHANGED followVars
  <2>1. CASE Select(w) \/ PollEmpty(w) \/ Claim(w) \/ Finish(w) \/ Notify(w) \/ Stop(w)
    BY <2>1 DEF Select, PollEmpty, Claim, Finish, Notify, Stop, vars
  <2>2. CASE Announce(w) \/ Report(w)
    BY <1>1, <2>2 DEF Announce, Report
  <2>3. QED
    BY <1>2, <2>1, <2>2 DEF WorkerStep
<1>3. ASSUME NEW d \in Daemons, Signal(d) \/ Exit(d) \/ Crash(d) \/ Start(d) PROVE Takes /\ UNCHANGED followVars
  BY <1>3 DEF Signal, Exit, Crash, Start
<1>4. ASSUME NEW c \in Clients, Enqueue(c) \/ Retry(c) \/ PurgeJobs(c) PROVE Takes /\ UNCHANGED followVars
  BY <1>4 DEF Enqueue, Retry, PurgeJobs
<1>5. ASSUME NEW c \in Clients, Tell(c) PROVE (Adds \/ Takes) /\ UNCHANGED followVars
  BY <1>1, <1>5 DEF Tell
<1>6. ASSUME NEW c \in Clients, PurgeEvents(c) PROVE Takes /\ UNCHANGED followVars
  BY <1>6 DEF PurgeEvents
<1>7. ASSUME NEW j \in Ids, Age(j) PROVE Takes /\ UNCHANGED followVars
  BY <1>7 DEF Age
<1>8. ASSUME UNCHANGED vars PROVE Takes /\ UNCHANGED followVars
  BY <1>8 DEF vars
<1> HIDE DEF Adds, Takes
<1>9. (Adds /\ UNCHANGED followVars) \/ (Takes /\ UNCHANGED followVars) \/ Follow
  BY <1>2, <1>3, <1>4, <1>5, <1>6, <1>7, <1>8 DEF Next
<1>10. QED
  BY <1>9 DEF Adds, Takes

\* Ids are handed out in order and the cursor is not ahead of them.
CursorBehind ==
  /\ IsFiniteSet(events)
  /\ since <= lastEvent
  /\ \A e \in events : e.id <= lastEvent

FollowInv == TypeOK /\ CursorBehind /\ FollowerComplete

\* A batch has no gap: whatever row lies before its last is in it.
LEMMA BatchHasNoGap ==
  ASSUME TypeOK, IsFiniteSet(events),
         NEW last \in NextBatch, NEW e \in events, since < e.id, e.id <= last.id
  PROVE  e \in NextBatch
<1> DEFINE UpTo(f) == {g \in events : since < g.id /\ g.id <= f.id}
<1>1. last \in events /\ Cardinality(UpTo(last)) <= Batch
  BY DEF NextBatch
<1>2. since \in Nat /\ \A g \in events : g.id \in Nat
  BY DEF TypeOK, Event
<1>3. UpTo(e) \in SUBSET UpTo(last)
  BY <1>1, <1>2
<1>4. IsFiniteSet(UpTo(last))
  BY FS_Subset
<1> HIDE DEF UpTo
<1>5. /\ Cardinality(UpTo(e)) <= Cardinality(UpTo(last))
      /\ IsFiniteSet(UpTo(e))
  BY <1>3, <1>4, FS_Subset
<1>6. Cardinality(UpTo(e)) \in Nat /\ Cardinality(UpTo(last)) \in Nat
  BY <1>4, <1>5, FS_CardinalityType
<1>7. Cardinality(UpTo(e)) <= Batch
  BY <1>1, <1>5, <1>6, LimitAssumption
<1>8. QED
  BY <1>2, <1>7 DEF NextBatch, UpTo

LEMMA StepFollow ==
  ASSUME FollowInv, [Next]_vars
  PROVE  CursorBehind' /\ FollowerComplete'
<1> USE DEF FollowInv, CursorBehind, FollowerComplete, followVars
<1>1. /\ since \in Nat /\ lastEvent \in Nat
      /\ \A e \in events : e.id \in Nat
  BY DEF TypeOK, Event
<1>2. ASSUME NEW r, r.id = lastEvent + 1, events' = events \union {r},
             lastEvent' = lastEvent + 1, UNCHANGED followVars
      PROVE  CursorBehind' /\ FollowerComplete'
  <2>1. IsFiniteSet(events')
    BY <1>2, FS_AddElement
  <2>2. QED
    BY <1>1, <1>2, <2>1
<1>3. ASSUME events' \subseteq events, UNCHANGED <<lastEvent, followVars>>
      PROVE  CursorBehind' /\ FollowerComplete'
  <2>1. IsFiniteSet(events')
    BY <1>3, FS_Subset
  <2>2. QED
    BY <1>1, <1>3, <2>1
<1>4. ASSUME Follow PROVE CursorBehind' /\ FollowerComplete'
  <2>1. PICK last \in NextBatch : \A f \in NextBatch : f.id <= last.id /\ since' = last.id
    BY <1>4 DEF Follow, LastOf
  <2>2. /\ events' = events /\ lastEvent' = lastEvent
        /\ seen' = seen \union NextBatch
        /\ since' = last.id /\ last \in events
    BY <1>4, <2>1 DEF Follow, logVars, NextBatch
  <2>3. ASSUME NEW e \in events, e.id <= last.id PROVE e \in seen'
    <3>1. CASE e.id <= since
      BY <2>2, <3>1
    <3>2. CASE since < e.id
      <4>1. e \in NextBatch
        BY <2>3, <3>2, BatchHasNoGap
      <4>2. QED
        BY <2>2, <4>1
    <3>3. QED
      BY <1>1, <3>1, <3>2
  <2>4. CursorBehind'
    BY <2>2
  <2>5. FollowerComplete'
    BY <2>2, <2>3
  <2>6. QED
    BY <2>4, <2>5
<1>5. QED
  BY <1>2, <1>3, <1>4, LogSteps

LEMMA FollowInvariant == Spec => []FollowInv
<1>1. Init => CursorBehind /\ FollowerComplete
  BY FS_EmptySet DEF Init, CursorBehind, FollowerComplete
<1>2. FollowInv /\ [Next]_vars => CursorBehind' /\ FollowerComplete'
  BY StepFollow
<1>3. QED
  BY <1>1, <1>2, RowsTyped, PTL DEF Spec, FollowInv

\* Every row up to the cursor of a follower was printed, however many rows a
\* batch may have, over purges, kills and failing writes.
THEOREM FollowerMissesNothing == Spec => []FollowerComplete
  BY FollowInvariant, PTL DEF FollowInv

(* Jobs in progress.                                                          *)

\* Nothing is killed and every write is made.
NoFaults == ~MayCrash /\ ~MayFail

\* A daemon that ended by itself has no thread in its loop.
ThreadsJoined ==
  \A w \in Workers : running[Home[w]] = "exited" => pc[w] = "stopped"

LEMMA StepNoOrphan ==
  ASSUME NoFaults, RunnerInv, ThreadsJoined, NoOrphan, [Next]_vars
  PROVE  ThreadsJoined' /\ NoOrphan'
<1> USE HomeAssumption
    DEF NoFaults, RunnerInv, TypeOK, ThreadsJoined, NoOrphan, InHand, OneRunner, Holds, Idle, jobVars, logVars, workerVars,
        clientVars, followVars
<1>1. ASSUME NEW w \in Workers, Select(w) PROVE ThreadsJoined' /\ NoOrphan'
  BY <1>1 DEF Select, Goto, Unlocked, IsNext
<1>2. ASSUME NEW w \in Workers, PollEmpty(w) PROVE ThreadsJoined' /\ NoOrphan'
  BY <1>2 DEF PollEmpty, vars
<1>3. ASSUME NEW w \in Workers, Claim(w) PROVE ThreadsJoined' /\ NoOrphan'
  <2>1. CASE /\ status' = [status EXCEPT ![hand[w].job] = "running"]
             /\ pc' = [pc EXCEPT ![w] = "claimed"]
             /\ hand' = hand
    <3>1. hand[w].job \in Ids /\ pc[w] = "selected"
      BY <1>3 DEF Claim
    <3>2. Holds(w, hand[w].job)'
      BY <2>1
    <3>3. \A v \in Workers, j \in Ids : Holds(v, j) => Holds(v, j)'
      BY <2>1, <3>1
    <3>4. QED
      BY <1>3, <2>1, <3>1, <3>2, <3>3 DEF Claim
  <2>2. CASE /\ pc' = [pc EXCEPT ![w] = "poll"]
             /\ hand' = [hand EXCEPT ![w] = Idle]
             /\ status' = status
    BY <1>3, <2>2 DEF Claim
  <2>3. QED
    BY <1>3, <2>1, <2>2 DEF Claim, SetStatus
<1>4. ASSUME NEW w \in Workers, Announce(w) PROVE ThreadsJoined' /\ NoOrphan'
  BY <1>4 DEF Announce, Goto, EmitEvent, NewEventId, Written
<1>5. ASSUME NEW w \in Workers, Finish(w) PROVE ThreadsJoined' /\ NoOrphan'
  <2>1. PICK e \in Results(w) :
          /\ hand' = [hand EXCEPT ![w] = [job |-> hand[w].job, tries |-> hand[w].tries, outcome |-> e]]
          /\ SetStatus(hand[w].job, StatusOf(e))
    BY <1>5 DEF Finish, Written
  <2>2. StatusOf(e) # "running"
    BY DEF StatusOf, Results, Finished
  <2>3. pc[w] = "executing" /\ pc' = [pc EXCEPT ![w] = "report"] /\ running' = running
    BY <1>5 DEF Finish, Goto
  <2>4. \A v \in Workers, j \in Ids : Holds(v, j) /\ v # w => Holds(v, j)'
    BY <2>1, <2>3
  <2>5. \A j \in Ids : status'[j] = "running" => j # hand[w].job /\ status[j] = "running"
    BY <2>1, <2>2 DEF SetStatus
  <2>6. ASSUME NEW j \in Ids, status'[j] = "running" PROVE \E v \in Workers : Holds(v, j)'
    <3>1. j # hand[w].job /\ status[j] = "running"
      BY <2>5, <2>6
    <3>2. PICK v \in Workers : Holds(v, j)
      BY <3>1
    <3>3. v # w
      BY <3>1, <3>2
    <3> HIDE DEF Holds, RunnerInv, TypeOK, InHand, OneRunner
    <3>4. Holds(v, j)'
      BY <2>4, <3>2, <3>3
    <3>5. QED
      BY <3>4
  <2>7. QED
    BY <2>3, <2>6
<1>6. ASSUME NEW w \in Workers, Report(w) PROVE ThreadsJoined' /\ NoOrphan'
  <2>1. /\ pc[w] = "report"
        /\ \/ pc' = [pc EXCEPT ![w] = "poll"] /\ hand' = [hand EXCEPT ![w] = Idle]
           \/ pc' = [pc EXCEPT ![w] = "notify"] /\ hand' = hand
        /\ status' = status /\ running' = running
    BY <1>6 DEF Report
  <2>2. ThreadsJoined'
    BY <2>1
  <2>3. \A v \in Workers, j \in Ids : Holds(v, j) => Holds(v, j)'
    BY <2>1
  <2>4. NoOrphan'
    BY <2>1, <2>3
  <2>5. QED
    BY <2>2, <2>4
<1>7. ASSUME NEW w \in Workers, Notify(w) PROVE ThreadsJoined' /\ NoOrphan'
  BY <1>7 DEF Notify, Goto
<1>8. ASSUME NEW w \in Workers, Stop(w) PROVE ThreadsJoined' /\ NoOrphan'
  BY <1>8 DEF Stop, Goto
<1>9. ASSUME NEW d \in Daemons, Signal(d) PROVE ThreadsJoined' /\ NoOrphan'
  BY <1>9 DEF Signal
<1>10. ASSUME NEW d \in Daemons, Exit(d) PROVE ThreadsJoined' /\ NoOrphan'
  BY <1>10 DEF Exit, Threads
<1>11. ASSUME NEW d \in Daemons, Crash(d) PROVE ThreadsJoined' /\ NoOrphan'
  BY <1>11 DEF Crash
<1>12. ASSUME NEW d \in Daemons, Start(d) PROVE ThreadsJoined' /\ NoOrphan'
  BY <1>12 DEF Start
<1>13. ASSUME NEW c \in Clients, Enqueue(c) PROVE ThreadsJoined' /\ NoOrphan'
  <2>1. /\ UNCHANGED <<pc, hand, running>>
        /\ \A j \in Ids : status'[j] = "running" => status[j] = "running"
    BY <1>13 DEF Enqueue, Insert, SetStatus
  <2>2. QED
    BY <2>1
<1>14. ASSUME NEW c \in Clients, Retry(c) PROVE ThreadsJoined' /\ NoOrphan'
  BY <1>14 DEF Retry, SetStatus
<1>15. ASSUME NEW c \in Clients, Tell(c) PROVE ThreadsJoined' /\ NoOrphan'
  BY <1>15 DEF Tell, EmitEvent, NewEventId, Remembered, Written
<1>16. ASSUME NEW c \in Clients, PurgeEvents(c) PROVE ThreadsJoined' /\ NoOrphan'
  BY <1>16 DEF PurgeEvents, Written, Purgeable
<1>17. ASSUME NEW c \in Clients, PurgeJobs(c) PROVE ThreadsJoined' /\ NoOrphan'
  <2>1. /\ UNCHANGED <<pc, hand, running>>
        /\ \A j \in Ids : status'[j] = "running" => status[j] = "running"
    BY <1>17 DEF PurgeJobs
  <2>2. QED
    BY <2>1
<1>18. ASSUME NEW j \in Ids, Age(j) PROVE ThreadsJoined' /\ NoOrphan'
  BY <1>18 DEF Age
<1>19. ASSUME Follow PROVE ThreadsJoined' /\ NoOrphan'
  BY <1>19 DEF Follow
<1>20. ASSUME UNCHANGED vars PROVE ThreadsJoined' /\ NoOrphan'
  BY <1>20 DEF vars
<1>21. QED
  BY <1>1, <1>2, <1>3, <1>4, <1>5, <1>6, <1>7, <1>8, <1>9, <1>10, <1>11, <1>12, <1>13, <1>14, <1>15,
     <1>16, <1>17, <1>18, <1>19, <1>20 DEF Next, WorkerStep

LEMMA JoinedInvariant == NoFaults /\ Spec => [](ThreadsJoined /\ NoOrphan)
<1> SUFFICES ASSUME NoFaults PROVE Spec => [](ThreadsJoined /\ NoOrphan)
  OBVIOUS
<1>1. Init => ThreadsJoined /\ NoOrphan
  BY HomeAssumption DEF Init, ThreadsJoined, NoOrphan
<1>2. RunnerInv /\ ThreadsJoined /\ NoOrphan /\ [Next]_vars => ThreadsJoined' /\ NoOrphan'
  BY StepNoOrphan
<1>3. QED
  BY <1>1, <1>2, RunnerInvariant, PTL DEF Spec

\* A job that is marked running is being run, for any daemons and threads, as
\* long as none is killed and the writes succeed.
THEOREM NoJobIsOrphaned == NoFaults /\ Spec => []NoOrphan
  BY JoinedInvariant, PTL

(* Names in hand.                                                             *)

\* The job that a thread or a client is about to write an event of is in the
\* table, and no client purges.
Present == Statuses \ {"absent", "deleted"}

Named ==
  /\ \A w \in Workers : pc[w] \in {"claimed", "executing", "report"} =>
       hand[w].job \in Ids /\ status[hand[w].job] \in Present
  /\ \A c \in Clients : note[c].event \in {"queued", "retry"} =>
       note[c].job \in Ids /\ status[note[c].job] \in Present
  /\ \A c \in Clients : note[c].event # "purge"

Guarded == ~MayFail /\ ~Purging

LEMMA StepNamed ==
  ASSUME Guarded, RunnerInv, Named, [Next]_vars
  PROVE  Named'
<1> USE HomeAssumption
    DEF Guarded, RunnerInv, TypeOK, Named, InHand, Present, Statuses, Finished, Idle, jobVars, logVars,
        workerVars, clientVars, followVars
<1>1. ASSUME NEW w \in Workers, Select(w) PROVE Named'
  BY <1>1 DEF Select, Goto, Unlocked, IsNext
<1>2. ASSUME NEW w \in Workers, PollEmpty(w) PROVE Named'
  BY <1>2 DEF PollEmpty, vars
<1>3. ASSUME NEW w \in Workers, Claim(w) PROVE Named'
  <2>1. CASE /\ status' = [status EXCEPT ![hand[w].job] = "running"]
             /\ pc' = [pc EXCEPT ![w] = "claimed"]
             /\ hand' = hand
    BY <1>3, <2>1 DEF Claim
  <2>2. CASE /\ pc' = [pc EXCEPT ![w] = "poll"]
             /\ hand' = [hand EXCEPT ![w] = Idle]
             /\ status' = status
    BY <1>3, <2>2 DEF Claim
  <2>3. QED
    BY <1>3, <2>1, <2>2 DEF Claim, SetStatus
<1>4. ASSUME NEW w \in Workers, Announce(w) PROVE Named'
  <2>1. pc[w] = "claimed" /\ pc' = [pc EXCEPT ![w] = "executing"] /\ UNCHANGED <<status, hand, note>>
    BY <1>4 DEF Announce, Goto
  <2>3. QED
    BY <2>1
<1>5. ASSUME NEW w \in Workers, Finish(w) PROVE Named'
  <2>1. PICK e \in Results(w), ok \in Written :
          /\ hand' = [hand EXCEPT ![w] = [job |-> hand[w].job, tries |-> hand[w].tries, outcome |-> e]]
          /\ IF ok THEN SetStatus(hand[w].job, StatusOf(e)) ELSE status' = status
    BY <1>5, FinishEffect
  <2>2. pc[w] = "executing" /\ pc' = [pc EXCEPT ![w] = "report"] /\ UNCHANGED <<events, note>>
    BY <1>5 DEF Finish, Goto, logVars
  <2>3. StatusOf(e) \in Present
    BY DEF StatusOf, Results, Finished
  <2>4. \A j \in Ids : status[j] \in Present => status'[j] \in Present
    BY <2>1, <2>3 DEF SetStatus
  <2>5. \A v \in Workers : hand'[v].job = hand[v].job
    BY <2>1
  <2>6. \A v \in Workers : pc'[v] \in {"claimed", "executing", "report"} => pc[v] \in {"claimed", "executing", "report"}
    BY <2>2
  <2>7. QED
    BY <2>2, <2>4, <2>5, <2>6
<1>6. ASSUME NEW w \in Workers, Report(w) PROVE Named'
  <2>1. /\ pc[w] = "report"
        /\ EmitEvent(hand[w].job, hand[w].outcome)
        /\ \/ pc' = [pc EXCEPT ![w] = "poll"] /\ hand' = [hand EXCEPT ![w] = Idle]
           \/ pc' = [pc EXCEPT ![w] = "notify"] /\ hand' = hand
        /\ UNCHANGED <<status, note>>
    BY <1>6 DEF Report
  <2>3. QED
    BY <2>1
<1>7. ASSUME NEW w \in Workers, Notify(w) PROVE Named'
  BY <1>7 DEF Notify, Goto
<1>8. ASSUME NEW w \in Workers, Stop(w) PROVE Named'
  BY <1>8 DEF Stop, Goto
<1>9. ASSUME NEW d \in Daemons, Signal(d) PROVE Named'
  BY <1>9 DEF Signal
<1>10. ASSUME NEW d \in Daemons, Exit(d) PROVE Named'
  BY <1>10 DEF Exit, Threads
<1>11. ASSUME NEW d \in Daemons, Crash(d) PROVE Named'
  BY <1>11 DEF Crash
<1>12. ASSUME NEW d \in Daemons, Start(d) PROVE Named'
  BY <1>12 DEF Start
<1>13. ASSUME NEW c \in Clients, Enqueue(c) PROVE Named'
  <2>1. PICK j \in Ids :
          /\ status' = [status EXCEPT ![j] = "queued"]
          /\ note' = [note EXCEPT ![c] = [job |-> j, event |-> "queued"]]
    BY <1>13 DEF Enqueue, Insert, SetStatus, Written
  <2>2. UNCHANGED <<pc, hand, events>>
    BY <1>13 DEF Enqueue
  <2>3. \A i \in Ids : status[i] \in Present => status'[i] \in Present
    BY <2>1
  <2>4. QED
    BY <2>1, <2>2, <2>3
<1>14. ASSUME NEW c \in Clients, Retry(c) PROVE Named'
  <2>1. PICK j \in Ids :
          /\ status' = [status EXCEPT ![j] = "queued"]
          /\ note' = [note EXCEPT ![c] = [job |-> j, event |-> "retry"]]
    BY <1>14 DEF Retry, SetStatus
  <2>2. UNCHANGED <<pc, hand, events>>
    BY <1>14 DEF Retry
  <2>3. \A i \in Ids : status[i] \in Present => status'[i] \in Present
    BY <2>1
  <2>4. QED
    BY <2>1, <2>2, <2>3
<1>15. ASSUME NEW c \in Clients, Tell(c) PROVE Named'
  <2>1. /\ note[c].event \in {"queued", "retry"}
        /\ EmitEvent(note[c].job, note[c].event)
        /\ note' = [note EXCEPT ![c] = NoNote]
        /\ UNCHANGED <<status, pc, hand>>
    BY <1>15 DEF Tell
  <2>3. QED
    BY <2>1 DEF NoNote
<1>16. ASSUME NEW c \in Clients, PurgeEvents(c) PROVE Named'
  BY <1>16 DEF PurgeEvents, Guarded
<1>17. ASSUME NEW c \in Clients, PurgeJobs(c) PROVE Named'
  BY <1>17 DEF PurgeJobs, Purged
<1>18. ASSUME NEW j \in Ids, Age(j) PROVE Named'
  BY <1>18 DEF Age
<1>19. ASSUME Follow PROVE Named'
  BY <1>19 DEF Follow
<1>20. ASSUME UNCHANGED vars PROVE Named'
  BY <1>20 DEF vars
<1>21. QED
  BY <1>1, <1>2, <1>3, <1>4, <1>5, <1>6, <1>7, <1>8, <1>9, <1>10, <1>11, <1>12, <1>13, <1>14, <1>15,
     <1>16, <1>17, <1>18, <1>19, <1>20 DEF Next, WorkerStep

LEMMA NamedInvariant == Guarded /\ Spec => []Named
<1> SUFFICES ASSUME Guarded PROVE Spec => []Named
  OBVIOUS
<1>1. Init => Named
  BY DEF Init, Named, NoNote
<1>2. RunnerInv /\ Named /\ [Next]_vars => Named'
  BY StepNamed
<1>3. QED
  BY <1>1, <1>2, RunnerInvariant, PTL DEF Spec

(* Changes and the log.                                                       *)

\* What the count of rows needs of the constants: threads and clients are
\* finitely many and not the same things.
Countable == IsFiniteSet(Workers) /\ IsFiniteSet(Clients) /\ Workers \intersect Clients = {}

Rows(j) == {e \in events : e.job = j}

\* What a step does to the account of a job: a change is made that x has to
\* log, x logs one, or nothing.
Opens(j, x) ==
  /\ x \in Workers \union Clients /\ x \notin Pending(j)
  /\ changes' = [changes EXCEPT ![j] = @ + 1]
  /\ events' = events
  /\ \A i \in Ids : Pending(i)' = IF i = j THEN Pending(i) \union {x} ELSE Pending(i)

Logs(j) == \E r : r.job = j /\ r \notin events /\ events' = events \union {r}

Writes(j, x) ==
  /\ x \in Pending(j)
  /\ changes' = changes
  /\ Logs(j)
  /\ \A i \in Ids : Pending(i)' = IF i = j THEN Pending(i) \ {x} ELSE Pending(i)

Keeps ==
  /\ changes' = changes
  /\ events' = events
  /\ \A i \in Ids : Pending(i)' = Pending(i)

Accounted == Keeps \/ \E j \in Ids, x \in Workers \union Clients : Opens(j, x) \/ Writes(j, x)

LEMMA EmitLogs ==
  ASSUME CursorBehind, TypeOK, NoFaults, NEW j, NEW e, EmitEvent(j, e)
  PROVE  Logs(j)
<1> DEFINE r == [id |-> lastEvent + 1, job |-> j, event |-> e]
<1>1. events' = events \union {r}
  BY DEF EmitEvent, NewEventId, Written, NoFaults
<1>2. r \notin events
  BY DEF CursorBehind, TypeOK
<1>3. r.job = j
  OBVIOUS
<1>4. QED
  BY <1>1, <1>2, <1>3 DEF Logs

LEMMA StepsAccounted ==
  ASSUME NoFaults, Guarded, Countable, RunnerInv, CursorBehind, Named, ThreadsJoined, [Next]_vars
  PROVE  Accounted
<1> USE HomeAssumption
    DEF NoFaults, Guarded, Countable, RunnerInv, TypeOK, Named, ThreadsJoined, InHand, Idle, jobVars, logVars,
        workerVars, clientVars, followVars
<1>1. ASSUME NEW w \in Workers, Select(w) PROVE Accounted
  BY <1>1 DEF Select, Goto, Accounted, Keeps, Pending
<1>2. ASSUME NEW w \in Workers, PollEmpty(w) PROVE Accounted
  BY <1>2 DEF PollEmpty, vars, Accounted, Keeps, Pending
<1>3. ASSUME NEW w \in Workers, Claim(w) PROVE Accounted
  <2>1. pc[w] = "selected" /\ hand[w].job \in Ids
    BY <1>3 DEF Claim
  <2>2. CASE /\ SetStatus(hand[w].job, "running")
             /\ pc' = [pc EXCEPT ![w] = "claimed"]
             /\ hand' = hand
    <3>1. /\ w \notin Pending(hand[w].job)
          /\ \A i \in Ids : Pending(i)' = IF i = hand[w].job THEN Pending(i) \union {w} ELSE Pending(i)
      BY <1>3, <2>1, <2>2 DEF Claim, Pending
    <3>2. Opens(hand[w].job, w)
      BY <1>3, <2>1, <2>2, <3>1 DEF Claim, SetStatus, Opens
    <3>3. QED
      BY <2>1, <3>2 DEF Accounted
  <2>3. CASE /\ pc' = [pc EXCEPT ![w] = "poll"]
             /\ hand' = [hand EXCEPT ![w] = Idle]
             /\ changes' = changes
    <3>1. Keeps
      BY <1>3, <2>1, <2>3 DEF Claim, Keeps, Pending
    <3>2. QED
      BY <3>1 DEF Accounted
  <2>4. QED
    BY <1>3, <2>2, <2>3 DEF Claim
<1>4. ASSUME NEW w \in Workers, Announce(w) PROVE Accounted
  <2>1. /\ pc[w] = "claimed" /\ pc' = [pc EXCEPT ![w] = "executing"]
        /\ UNCHANGED <<hand, note, changes>>
    BY <1>4 DEF Announce, Goto
  <2>2. hand[w].job \in Ids
    BY <2>1
  <2>3. Writes(hand[w].job, w)
    <3>1. Logs(hand[w].job)
      BY <1>4, EmitLogs DEF Announce
    <3>2. \A i \in Ids : Pending(i)' = IF i = hand[w].job THEN Pending(i) \ {w} ELSE Pending(i)
      BY <2>1, <2>2 DEF Pending
    <3>3. w \in Pending(hand[w].job)
      BY <2>1 DEF Pending
    <3>4. QED
      BY <2>1, <3>1, <3>2, <3>3 DEF Writes
  <2>4. QED
    BY <2>2, <2>3 DEF Accounted
<1>5. ASSUME NEW w \in Workers, Finish(w) PROVE Accounted
  <2>1. PICK e \in Results(w) :
          /\ hand' = [hand EXCEPT ![w] = [job |-> hand[w].job, tries |-> hand[w].tries, outcome |-> e]]
          /\ changes' = [changes EXCEPT ![hand[w].job] = @ + 1]
    BY <1>5 DEF Finish, Written, SetStatus
  <2>2. /\ pc[w] = "executing" /\ pc' = [pc EXCEPT ![w] = "report"]
        /\ UNCHANGED <<events, note>>
    BY <1>5 DEF Finish, Goto
  <2>3. hand[w].job \in Ids
    BY <2>2
  <2>4. \A v \in Workers : hand'[v].job = hand[v].job
    BY <2>1
  <2>5. \A i \in Ids : Pending(i)' = IF i = hand[w].job THEN Pending(i) \union {w} ELSE Pending(i)
    BY <2>2, <2>3, <2>4 DEF Pending
  <2>6. Opens(hand[w].job, w)
    BY <2>1, <2>2, <2>3, <2>5 DEF Opens, Pending
  <2>7. QED
    BY <2>3, <2>6 DEF Accounted
<1>6. ASSUME NEW w \in Workers, Report(w) PROVE Accounted
  <2>1. /\ pc[w] = "report"
        /\ EmitEvent(hand[w].job, hand[w].outcome)
        /\ \/ pc' = [pc EXCEPT ![w] = "poll"] /\ hand' = [hand EXCEPT ![w] = Idle]
           \/ pc' = [pc EXCEPT ![w] = "notify"] /\ hand' = hand
        /\ UNCHANGED <<changes, note>>
    BY <1>6 DEF Report
  <2>2. hand[w].job \in Ids
    BY <2>1
  <2>3. Writes(hand[w].job, w)
    <3>1. Logs(hand[w].job)
      BY <2>1, EmitLogs
    <3>2. \A i \in Ids : Pending(i)' = IF i = hand[w].job THEN Pending(i) \ {w} ELSE Pending(i)
      BY <2>1, <2>2 DEF Pending
    <3>3. w \in Pending(hand[w].job)
      BY <2>1 DEF Pending
    <3>4. QED
      BY <2>1, <3>1, <3>2, <3>3 DEF Writes
  <2>4. QED
    BY <2>2, <2>3 DEF Accounted
<1>7. ASSUME NEW w \in Workers, Notify(w) PROVE Accounted
  BY <1>7 DEF Notify, Goto, Accounted, Keeps, Pending
<1>8. ASSUME NEW w \in Workers, Stop(w) PROVE Accounted
  BY <1>8 DEF Stop, Goto, Accounted, Keeps, Pending
<1>9. ASSUME NEW d \in Daemons, Signal(d) PROVE Accounted
  BY <1>9 DEF Signal, Accounted, Keeps, Pending
<1>10. ASSUME NEW d \in Daemons, Exit(d) PROVE Accounted
  BY <1>10 DEF Exit, Accounted, Keeps, Pending
<1>11. ASSUME NEW d \in Daemons, Crash(d) PROVE Accounted
  BY <1>11 DEF Crash, NoFaults
<1>12. ASSUME NEW d \in Daemons, Start(d) PROVE Accounted
  <2>1. \A w \in Workers : Home[w] = d => pc[w] = "stopped" /\ pc'[w] = "poll"
    BY <1>12 DEF Start
  <2>2. \A w \in Workers : Home[w] # d => pc'[w] = pc[w]
    BY <1>12 DEF Start
  <2>3. Keeps
    BY <1>12, <2>1, <2>2 DEF Start, Keeps, Pending
  <2>4. QED
    BY <2>3 DEF Accounted
<1>13. ASSUME NEW c \in Clients, Enqueue(c) PROVE Accounted
  <2>1. PICK j \in Ids :
          /\ changes' = [changes EXCEPT ![j] = @ + 1]
          /\ note' = [note EXCEPT ![c] = [job |-> j, event |-> "queued"]]
    BY <1>13 DEF Enqueue, Insert, SetStatus, Written, NoNote
  <2>2. note[c].event = "none" /\ UNCHANGED <<pc, hand, events>>
    BY <1>13 DEF Enqueue, NoNote
  <2>3. \A i \in Ids : Pending(i)' = IF i = j THEN Pending(i) \union {c} ELSE Pending(i)
    BY <2>1, <2>2 DEF Pending
  <2>4. Opens(j, c)
    BY <2>1, <2>2, <2>3 DEF Opens, Pending
  <2>5. QED
    BY <2>4 DEF Accounted
<1>14. ASSUME NEW c \in Clients, Retry(c) PROVE Accounted
  <2>1. PICK j \in Ids :
          /\ changes' = [changes EXCEPT ![j] = @ + 1]
          /\ note' = [note EXCEPT ![c] = [job |-> j, event |-> "retry"]]
    BY <1>14 DEF Retry, SetStatus, NoNote
  <2>2. note[c].event = "none" /\ UNCHANGED <<pc, hand, events>>
    BY <1>14 DEF Retry, NoNote
  <2>3. \A i \in Ids : Pending(i)' = IF i = j THEN Pending(i) \union {c} ELSE Pending(i)
    BY <2>1, <2>2 DEF Pending
  <2>4. Opens(j, c)
    BY <2>1, <2>2, <2>3 DEF Opens, Pending
  <2>5. QED
    BY <2>4 DEF Accounted
<1>15. ASSUME NEW c \in Clients, Tell(c) PROVE Accounted
  <2>1. /\ note[c].event \in {"queued", "retry"}
        /\ EmitEvent(note[c].job, note[c].event)
        /\ note' = [note EXCEPT ![c] = NoNote]
        /\ UNCHANGED <<changes, pc, hand>>
    BY <1>15 DEF Tell
  <2>2. note[c].job \in Ids
    BY <2>1
  <2>3. Writes(note[c].job, c)
    <3>1. Logs(note[c].job)
      BY <2>1, EmitLogs
    <3>2. QED
      BY <2>1, <2>2, <3>1 DEF NoNote, Pending, Writes
  <2>4. QED
    BY <2>2, <2>3 DEF Accounted
<1>16. ASSUME NEW c \in Clients, PurgeEvents(c) PROVE Accounted
  BY <1>16 DEF PurgeEvents, Guarded
<1>17. ASSUME NEW c \in Clients, PurgeJobs(c) PROVE Accounted
  BY <1>17 DEF PurgeJobs, Purged
<1>18. ASSUME NEW j \in Ids, Age(j) PROVE Accounted
  BY <1>18 DEF Age, Accounted, Keeps, Pending
<1>19. ASSUME Follow PROVE Accounted
  BY <1>19 DEF Follow, Accounted, Keeps, Pending
<1>20. ASSUME UNCHANGED vars PROVE Accounted
  BY <1>20 DEF vars, Accounted, Keeps, Pending
<1>21. QED
  BY <1>1, <1>2, <1>3, <1>4, <1>5, <1>6, <1>7, <1>8, <1>9, <1>10, <1>11, <1>12, <1>13, <1>14, <1>15,
     <1>16, <1>17, <1>18, <1>19, <1>20 DEF Next, WorkerStep

\* The account is balanced: what Opens and Writes do to its two sides.
LEMMA PendingFinite ==
  ASSUME Countable, NEW j
  PROVE  IsFiniteSet(Pending(j)) /\ Cardinality(Pending(j)) \in Nat
<1>1. IsFiniteSet(Workers \union Clients)
  BY FS_Union DEF Countable
<1>2. Pending(j) \in SUBSET (Workers \union Clients)
  BY DEF Pending
<1>3. QED
  BY <1>1, <1>2, FS_Subset, FS_CardinalityType

LEMMA RowsFinite ==
  ASSUME CursorBehind, NEW j
  PROVE  IsFiniteSet(Rows(j)) /\ Cardinality(Rows(j)) \in Nat
<1>1. Rows(j) \in SUBSET events
  BY DEF Rows
<1>2. QED
  BY <1>1, FS_Subset, FS_CardinalityType DEF CursorBehind

LEMMA StepLogged ==
  ASSUME Countable, TypeOK, CursorBehind, EveryChangeLogged, Accounted
  PROVE  EveryChangeLogged'
<1> SUFFICES ASSUME NEW i \in Ids
             PROVE  Cardinality(Rows(i)') + Cardinality(Pending(i)') = changes'[i]
  BY DEF EveryChangeLogged, Rows
<1>1. Cardinality(Rows(i)) + Cardinality(Pending(i)) = changes[i]
  BY DEF EveryChangeLogged, Rows
<1>2. /\ IsFiniteSet(Rows(i)) /\ Cardinality(Rows(i)) \in Nat
      /\ IsFiniteSet(Pending(i)) /\ Cardinality(Pending(i)) \in Nat
  BY RowsFinite, PendingFinite
<1>3. CASE Keeps
  BY <1>1, <1>3 DEF Keeps, Rows
<1>4. ASSUME NEW j \in Ids, NEW x \in Workers \union Clients, Opens(j, x)
      PROVE  Cardinality(Rows(i)') + Cardinality(Pending(i)') = changes'[i]
  <2>1. Rows(i)' = Rows(i)
    BY <1>4 DEF Opens, Rows
  <2>2. CASE i = j
    <3>1. Pending(i)' = Pending(i) \union {x} /\ x \notin Pending(i)
      BY <1>4, <2>2 DEF Opens
    <3>2. Cardinality(Pending(i)') = Cardinality(Pending(i)) + 1
      BY <1>2, <3>1, FS_AddElement
    <3>3. changes'[i] = changes[i] + 1
      BY <1>4, <2>2 DEF Opens, TypeOK
    <3>4. QED
      BY <1>1, <1>2, <2>1, <3>2, <3>3
  <2>3. CASE i # j
    <3>1. Pending(i)' = Pending(i) /\ changes'[i] = changes[i]
      BY <1>4, <2>3 DEF Opens, TypeOK
    <3>2. QED
      BY <1>1, <2>1, <3>1
  <2>4. QED
    BY <2>2, <2>3
<1>5. ASSUME NEW j \in Ids, NEW x \in Workers \union Clients, Writes(j, x)
      PROVE  Cardinality(Rows(i)') + Cardinality(Pending(i)') = changes'[i]
  <2>1. PICK r : r.job = j /\ r \notin events /\ events' = events \union {r}
    BY <1>5 DEF Writes, Logs
  <2>2. changes' = changes
    BY <1>5 DEF Writes
  <2>3. CASE i = j
    <3>1. Rows(i)' = Rows(i) \union {r} /\ r \notin Rows(i)
      BY <2>1, <2>3 DEF Rows
    <3>2. Cardinality(Rows(i)') = Cardinality(Rows(i)) + 1
      BY <1>2, <3>1, FS_AddElement
    <3>3. Pending(i)' = Pending(i) \ {x} /\ x \in Pending(i)
      BY <1>5, <2>3 DEF Writes
    <3>4. Cardinality(Pending(i)') = Cardinality(Pending(i)) - 1
      BY <1>2, <3>3, FS_RemoveElement
    <3>5. QED
      BY <1>1, <1>2, <2>2, <3>2, <3>4
  <2>4. CASE i # j
    <3>1. Pending(i)' = Pending(i) /\ Rows(i)' = Rows(i)
      BY <1>5, <2>1, <2>4 DEF Writes, Rows
    <3>2. QED
      BY <1>1, <2>2, <3>1
  <2>5. QED
    BY <2>3, <2>4
<1>6. QED
  BY <1>3, <1>4, <1>5 DEF Accounted

\* Every change of a status has its row in the log, or the thread or client
\* that made it is about to write it; for any number of daemons, threads and
\* clients, as long as nothing is killed, the writes succeed and nobody purges.
THEOREM ChangesAreLogged == NoFaults /\ Guarded /\ Countable /\ Spec => []EveryChangeLogged
<1> SUFFICES ASSUME NoFaults, Guarded, Countable PROVE Spec => []EveryChangeLogged
  OBVIOUS
<1>1. Init => EveryChangeLogged
  <2> SUFFICES ASSUME Init PROVE EveryChangeLogged
    OBVIOUS
  <2>1. \A j \in Ids : {e \in events : e.job = j} = {} /\ Pending(j) = {} /\ changes[j] = 0
    BY DEF Init, Pending, Idle, NoNote
  <2>2. QED
    BY <2>1, FS_EmptySet DEF EveryChangeLogged
<1>2. ASSUME RunnerInv, FollowInv, ThreadsJoined, Named, EveryChangeLogged, [Next]_vars
      PROVE  EveryChangeLogged'
  <2>1. Accounted
    BY <1>2, StepsAccounted DEF FollowInv
  <2>2. QED
    BY <1>2, <2>1, StepLogged DEF FollowInv
<1>3. Spec => [](RunnerInv /\ FollowInv /\ ThreadsJoined /\ Named)
  BY RunnerInvariant, FollowInvariant, JoinedInvariant, NamedInvariant, PTL
<1>4. QED
  BY <1>1, <1>2, <1>3, PTL DEF Spec

(* The retry limit, with many daemons.                                        *)

Populated == IsFiniteSet(Workers) /\ IsFiniteSet(Daemons) /\ Daemons # {}

\* The threads that have selected or run a job and will put it back if its
\* program fails, by the attempts that they read.
Capable(j) ==
  {w \in Workers : /\ pc[w] \in {"selected", "claimed", "executing"}
                   /\ hand[w].job = j
                   /\ hand[w].tries + 1 < MaxRetries}

Waiting == {"absent", "queued"}

\* Each of them may cause one more attempt. While a job waits the bound is one
\* less, for the claim that takes it.
Room(j) ==
  attempts[j] + Cardinality(Capable(j))
    <= MaxRetries + manual[j] + Cardinality(Daemons) - (IF status[j] \in Waiting THEN 2 ELSE 1)

RoomLeft == \A j \in Ids : Room(j)

MutexHeld == \A w \in Workers : pc[w] = "selected" => mutex[Home[w]] = w

LEMMA OneLess ==
  ASSUME NEW S, IsFiniteSet(S), NEW x \in S
  PROVE  Cardinality(S \ {x}) = Cardinality(S) - 1
  BY FS_RemoveElement

LEMMA CapableCount ==
  ASSUME Populated
  PROVE  /\ Cardinality(Daemons) \in Nat \ {0}
         /\ \A j : /\ IsFiniteSet(Capable(j)) /\ Cardinality(Capable(j)) \in Nat
                   /\ IsFiniteSet(Capable(j)') /\ Cardinality(Capable(j)') \in Nat
<1>1. Cardinality(Daemons) \in Nat /\ Cardinality(Daemons) # 0
  BY FS_CardinalityType, FS_EmptySet DEF Populated
<1>2. \A j : Capable(j) \in SUBSET Workers /\ Capable(j)' \in SUBSET Workers
  BY DEF Capable
<1>3. \A j : IsFiniteSet(Capable(j)) /\ IsFiniteSet(Capable(j)')
  BY <1>2, FS_Subset DEF Populated
<1>4. QED
  BY <1>1, <1>3, FS_CardinalityType

\* Of the threads of a daemon one at most is between SELECT and claim.
LEMMA OneEachDaemon ==
  ASSUME Populated, NEW j, MutexHeld', \A v \in Capable(j)' : pc'[v] = "selected"
  PROVE  Cardinality(Capable(j)') <= Cardinality(Daemons)
<1> DEFINE f == [w \in Capable(j)' |-> Home[w]]
<1>1. \A w \in Capable(j)' : w \in Workers
  BY DEF Capable
<1>2. f \in [Capable(j)' -> Daemons]
  BY <1>1, HomeAssumption
<1>3. \A v, w \in Capable(j)' : f[v] = f[w] => v = w
  BY <1>1 DEF MutexHeld
<1>4. f \in Injection(Capable(j)', Daemons)
  BY <1>2, <1>3 DEF Injection, IsInjective
<1>5. QED
  BY <1>4, FS_Injection DEF Populated

\* A step that makes nobody capable, and lets no job wait, keeps the room.
LEMMA RoomSame ==
  ASSUME Populated, TypeOK, RoomLeft, NEW j \in Ids, Capable(j)' \subseteq Capable(j),
         attempts'[j] = attempts[j], manual'[j] = manual[j],
         status'[j] \in Waiting => status[j] \in Waiting
  PROVE  Room(j)'
<1>1. /\ Cardinality(Capable(j)) \in Nat /\ Cardinality(Capable(j)') \in Nat
      /\ IsFiniteSet(Capable(j)) /\ Cardinality(Daemons) \in Nat
  BY CapableCount
<1>2. Cardinality(Capable(j)') <= Cardinality(Capable(j))
  BY <1>1, FS_Subset
<1>3. attempts[j] \in Nat /\ manual[j] \in Nat
  BY DEF TypeOK
<1>4. Room(j)
  BY DEF RoomLeft
<1>5. QED
  BY <1>1, <1>2, <1>3, <1>4, LimitAssumption DEF Room

LEMMA RoomKept ==
  ASSUME Populated, TypeOK, RoomLeft, \A j \in Ids : Capable(j)' \subseteq Capable(j),
         UNCHANGED <<attempts, manual>>,
         \A j \in Ids : status'[j] \in Waiting => status[j] \in Waiting
  PROVE  RoomLeft'
  BY RoomSame DEF RoomLeft

LEMMA StepRoom ==
  ASSUME Populated, RunnerInv, RoomLeft, MutexHeld, [Next]_vars
  PROVE  RoomLeft' /\ MutexHeld'
<1> USE HomeAssumption, LimitAssumption
    DEF RunnerInv, TypeOK, InHand, OneRunner, Holds, Idle, Waiting, jobVars, logVars, workerVars,
        clientVars, followVars
<1>1. ASSUME NEW w \in Workers, Select(w) PROVE RoomLeft' /\ MutexHeld'
  <2>1. PICK j \in Ids :
          /\ status[j] = "queued"
          /\ hand' = [hand EXCEPT ![w] = [job |-> j, tries |-> attempts[j], outcome |-> "none"]]
    BY <1>1 DEF Select, IsNext
  <2>2. /\ pc[w] = "poll" /\ pc' = [pc EXCEPT ![w] = "selected"]
        /\ mutex[Home[w]] = NoWorker /\ mutex' = [mutex EXCEPT ![Home[w]] = w]
        /\ UNCHANGED <<status, attempts, manual>>
    BY <1>1 DEF Select, Goto, Unlocked
  <2>3. MutexHeld'
    BY <2>2 DEF MutexHeld
  <2>4. \A i \in Ids \ {j} : Capable(i)' = Capable(i)
    BY <2>1, <2>2 DEF Capable
  <2>5. \A i \in Ids \ {j} : Room(i)'
    BY <2>2, <2>4 DEF RoomLeft, Room
  <2>6. Room(j)'
    <3>1. CASE attempts[j] + 1 < MaxRetries
      <4>1. \A v \in Capable(j)' : pc'[v] = "selected"
        BY <2>1, <2>2 DEF Capable, OneRunner, Holds
      <4>2. Cardinality(Capable(j)') <= Cardinality(Daemons)
        BY <2>3, <4>1, OneEachDaemon
      <4>3. Cardinality(Capable(j)') \in Nat
        BY <4>1, CapableCount
      <4>4. attempts[j] \in Nat /\ manual[j] \in Nat /\ Cardinality(Daemons) \in Nat
        BY CapableCount
      <4>5. attempts[j] + Cardinality(Capable(j)') <= MaxRetries + manual[j] + Cardinality(Daemons) - 2
        BY <3>1, <4>2, <4>3, <4>4
      <4>6. QED
        BY <2>1, <2>2, <4>5 DEF Room
    <3>2. CASE ~(attempts[j] + 1 < MaxRetries)
      <4>1. Capable(j)' = Capable(j)
        BY <2>1, <2>2, <3>2 DEF Capable
      <4>2. QED
        BY <2>2, <4>1 DEF RoomLeft, Room
    <3>3. QED
      BY <3>1, <3>2
  <2>7. QED
    BY <2>3, <2>5, <2>6 DEF RoomLeft
<1>2. ASSUME NEW w \in Workers, PollEmpty(w) PROVE RoomLeft' /\ MutexHeld'
  <2>1. /\ MutexHeld'
        /\ \A j \in Ids : Capable(j)' \subseteq Capable(j)
    BY <1>2 DEF PollEmpty, vars, Capable, MutexHeld
  <2>2. UNCHANGED <<status, attempts, manual>>
    BY <1>2 DEF PollEmpty, vars
  <2>3. QED
    BY <2>1, <2>2, RoomKept
<1>3. ASSUME NEW w \in Workers, Claim(w) PROVE RoomLeft' /\ MutexHeld'
  <2>1. /\ pc[w] = "selected" /\ hand[w].job \in Ids
        /\ mutex' = [mutex EXCEPT ![Home[w]] = NoWorker]
        /\ manual' = manual
    BY <1>3 DEF Claim
  <2>2. \A v \in Workers : pc[v] = "selected" /\ Home[v] = Home[w] => v = w
    BY <2>1 DEF MutexHeld
  <2>3. CASE /\ status[hand[w].job] = "queued"
             /\ status' = [status EXCEPT ![hand[w].job] = "running"]
             /\ attempts' = [attempts EXCEPT ![hand[w].job] = @ + 1]
             /\ pc' = [pc EXCEPT ![w] = "claimed"]
             /\ hand' = hand
    <3>1. MutexHeld'
      BY <2>1, <2>2, <2>3 DEF MutexHeld
    <3>2. \A j \in Ids : Capable(j)' = Capable(j)
      BY <2>1, <2>3 DEF Capable
    <3>3. ASSUME NEW j \in Ids PROVE Room(j)'
      <4>1. Cardinality(Capable(j)) \in Nat /\ Cardinality(Daemons) \in Nat
        BY CapableCount
      <4>2. QED
        BY <2>1, <2>3, <3>2, <4>1 DEF RoomLeft, Room
    <3>4. QED
      BY <3>1, <3>3 DEF RoomLeft
  <2>4. CASE /\ pc' = [pc EXCEPT ![w] = "poll"]
             /\ hand' = [hand EXCEPT ![w] = Idle]
             /\ UNCHANGED <<status, attempts>>
    <3>1. MutexHeld'
      BY <2>1, <2>2, <2>4 DEF MutexHeld
    <3>2. \A j \in Ids : Capable(j)' \subseteq Capable(j)
      BY <2>4 DEF Capable
    <3>3. QED
      BY <2>1, <2>4, <3>1, <3>2, RoomKept
  <2>5. QED
    BY <1>3, <2>3, <2>4 DEF Claim, Claimable, SetStatus
<1>4. ASSUME NEW w \in Workers, Announce(w) PROVE RoomLeft' /\ MutexHeld'
  <2>1. /\ MutexHeld'
        /\ \A j \in Ids : Capable(j)' \subseteq Capable(j)
    BY <1>4 DEF Announce, Goto, Capable, MutexHeld
  <2>2. UNCHANGED <<status, attempts, manual>>
    BY <1>4 DEF Announce
  <2>3. QED
    BY <2>1, <2>2, RoomKept
<1>5. ASSUME NEW w \in Workers, Finish(w) PROVE RoomLeft' /\ MutexHeld'
  <2>1. PICK e \in Results(w), ok \in Written :
          /\ hand' = [hand EXCEPT ![w] = [job |-> hand[w].job, tries |-> hand[w].tries, outcome |-> e]]
          /\ IF ok THEN SetStatus(hand[w].job, StatusOf(e)) ELSE status' = status
    BY <1>5, FinishEffect
  <2>2. /\ pc[w] = "executing" /\ pc' = [pc EXCEPT ![w] = "report"]
        /\ UNCHANGED <<attempts, manual, mutex>>
    BY <1>5 DEF Finish, Goto
  <2>3. MutexHeld'
    BY <2>1, <2>2 DEF MutexHeld
  <2>4. \A i \in Ids : Capable(i)' = Capable(i) \ {w}
    <3>1. \A v \in Workers : v # w => hand'[v] = hand[v] /\ pc'[v] = pc[v]
      BY <2>1, <2>2
    <3>2. pc'[w] = "report"
      BY <2>2
    <3>3. QED
      BY <3>1, <3>2 DEF Capable
  <2>5. CASE ok /\ e = "retry"
    <3>1. PICK j \in Ids : j = hand[w].job
      BY <2>2
    <3>2. status' = [status EXCEPT ![j] = "queued"]
      BY <2>1, <2>5, <3>1 DEF SetStatus, StatusOf
    <3>3. \A i \in Ids \ {j} : Room(i)'
      BY <2>2, <2>4, <3>2, RoomSame
    <3>4. w \in Capable(j)
      <4>1. hand[w].tries + 1 < MaxRetries
        BY <2>5 DEF Results, Finished, ShouldRetry
      <4>2. QED
        BY <2>2, <3>1, <4>1 DEF Capable
    <3>5. Cardinality(Capable(j)') = Cardinality(Capable(j)) - 1
      <4>1. Capable(j)' = Capable(j) \ {w} /\ IsFiniteSet(Capable(j))
        BY <2>4, CapableCount
      <4>2. Cardinality(Capable(j) \ {w}) = Cardinality(Capable(j)) - 1
        BY <3>4, <4>1, OneLess
      <4>3. QED
        BY <4>1, <4>2
    <3>6. Room(j)'
      <4>1. Cardinality(Capable(j)) \in Nat /\ Cardinality(Daemons) \in Nat
        BY CapableCount
      <4>2. attempts[j] \in Nat /\ manual[j] \in Nat /\ status'[j] = "queued"
        BY <3>2
      <4>3. attempts[j] + Cardinality(Capable(j)) <= MaxRetries + manual[j] + Cardinality(Daemons) - 1
        BY <4>1, <4>2 DEF RoomLeft, Room
      <4>4. QED
        BY <2>2, <3>5, <4>1, <4>2, <4>3 DEF Room
    <3>7. QED
      BY <2>3, <3>3, <3>6 DEF RoomLeft
  <2>6. CASE ~(ok /\ e = "retry")
    <3>1. StatusOf(e) \in Finished \/ ~ok
      BY <2>6 DEF StatusOf, Results
    <3>2. \A j \in Ids : status'[j] \in Waiting => status[j] \in Waiting
      BY <2>1, <3>1 DEF SetStatus, Finished
    <3>3. QED
      BY <2>2, <2>3, <2>4, <3>2, RoomKept
  <2>7. QED
    BY <2>5, <2>6
<1>6. ASSUME NEW w \in Workers, Report(w) PROVE RoomLeft' /\ MutexHeld'
  <2>1. /\ pc[w] = "report"
        /\ \/ pc' = [pc EXCEPT ![w] = "poll"] /\ hand' = [hand EXCEPT ![w] = Idle]
           \/ pc' = [pc EXCEPT ![w] = "notify"] /\ hand' = hand
        /\ UNCHANGED <<status, attempts, manual, mutex>>
    BY <1>6 DEF Report
  <2>2. MutexHeld'
    BY <2>1 DEF MutexHeld
  <2>3. \A j \in Ids : Capable(j)' \subseteq Capable(j)
    BY <2>1 DEF Capable
  <2>4. QED
    BY <2>1, <2>2, <2>3, RoomKept
<1>7. ASSUME NEW w \in Workers, Notify(w) PROVE RoomLeft' /\ MutexHeld'
  <2>1. /\ MutexHeld'
        /\ \A j \in Ids : Capable(j)' \subseteq Capable(j)
    BY <1>7 DEF Notify, Goto, Capable, MutexHeld
  <2>2. UNCHANGED <<status, attempts, manual>>
    BY <1>7 DEF Notify
  <2>3. QED
    BY <2>1, <2>2, RoomKept
<1>8. ASSUME NEW w \in Workers, Stop(w) PROVE RoomLeft' /\ MutexHeld'
  <2>1. /\ MutexHeld'
        /\ \A j \in Ids : Capable(j)' \subseteq Capable(j)
    BY <1>8 DEF Stop, Goto, Capable, MutexHeld
  <2>2. UNCHANGED <<status, attempts, manual>>
    BY <1>8 DEF Stop
  <2>3. QED
    BY <2>1, <2>2, RoomKept
<1>9. ASSUME NEW d \in Daemons, Signal(d) PROVE RoomLeft' /\ MutexHeld'
  <2>1. /\ MutexHeld'
        /\ \A j \in Ids : Capable(j)' \subseteq Capable(j)
    BY <1>9 DEF Signal, Capable, MutexHeld
  <2>2. UNCHANGED <<status, attempts, manual>>
    BY <1>9 DEF Signal
  <2>3. QED
    BY <2>1, <2>2, RoomKept
<1>10. ASSUME NEW d \in Daemons, Exit(d) PROVE RoomLeft' /\ MutexHeld'
  <2>1. /\ MutexHeld'
        /\ \A j \in Ids : Capable(j)' \subseteq Capable(j)
    BY <1>10 DEF Exit, Capable, MutexHeld
  <2>2. UNCHANGED <<status, attempts, manual>>
    BY <1>10 DEF Exit
  <2>3. QED
    BY <2>1, <2>2, RoomKept
<1>11. ASSUME NEW d \in Daemons, Crash(d) PROVE RoomLeft' /\ MutexHeld'
  <2>1. \A w \in Workers : Home[w] = d => pc'[w] = "stopped"
    BY <1>11 DEF Crash
  <2>2. \A w \in Workers : Home[w] # d => pc'[w] = pc[w] /\ hand'[w] = hand[w] /\ mutex'[Home[w]] = mutex[Home[w]]
    BY <1>11 DEF Crash
  <2>3. MutexHeld'
    BY <2>1, <2>2 DEF MutexHeld
  <2>4. \A j \in Ids : Capable(j)' \subseteq Capable(j)
    BY <2>1, <2>2 DEF Capable
  <2>5. UNCHANGED <<status, attempts, manual>>
    BY <1>11 DEF Crash
  <2>6. QED
    BY <2>3, <2>4, <2>5, RoomKept
<1>12. ASSUME NEW d \in Daemons, Start(d) PROVE RoomLeft' /\ MutexHeld'
  <2>1. /\ MutexHeld'
        /\ \A j \in Ids : Capable(j)' \subseteq Capable(j)
    BY <1>12 DEF Start, Capable, MutexHeld
  <2>2. UNCHANGED <<status, attempts, manual>>
    BY <1>12 DEF Start
  <2>3. QED
    BY <2>1, <2>2, RoomKept
<1>13. ASSUME NEW c \in Clients, Enqueue(c) PROVE RoomLeft' /\ MutexHeld'
  <2>1. UNCHANGED <<pc, hand, mutex, attempts, manual>>
    BY <1>13 DEF Enqueue
  <2>2. \A j \in Ids : status'[j] \in Waiting => status[j] \in Waiting
    BY <1>13 DEF Enqueue, Insert, SetStatus, Waiting
  <2>3. MutexHeld' /\ \A j \in Ids : Capable(j)' = Capable(j)
    BY <2>1 DEF MutexHeld, Capable
  <2>4. QED
    BY <2>1, <2>2, <2>3, RoomKept
<1>14. ASSUME NEW c \in Clients, Retry(c) PROVE RoomLeft' /\ MutexHeld'
  <2>1. PICK j \in Ids : /\ status[j] \in Finished
                         /\ status' = [status EXCEPT ![j] = "queued"]
                         /\ manual' = [manual EXCEPT ![j] = @ + 1]
    BY <1>14 DEF Retry, SetStatus
  <2>2. UNCHANGED <<pc, hand, mutex, attempts>>
    BY <1>14 DEF Retry
  <2>3. MutexHeld' /\ \A i \in Ids : Capable(i)' = Capable(i)
    BY <2>2 DEF MutexHeld, Capable
  <2>4. ASSUME NEW i \in Ids PROVE Room(i)'
    <3>1. Cardinality(Capable(i)) \in Nat /\ Cardinality(Daemons) \in Nat
      BY CapableCount
    <3>2. QED
      BY <2>1, <2>2, <2>3, <3>1 DEF RoomLeft, Room, Waiting
  <2>5. QED
    BY <2>3, <2>4 DEF RoomLeft
<1>15. ASSUME NEW c \in Clients, Tell(c) PROVE RoomLeft' /\ MutexHeld'
  <2>1. /\ MutexHeld'
        /\ \A j \in Ids : Capable(j)' \subseteq Capable(j)
    BY <1>15 DEF Tell, Capable, MutexHeld
  <2>2. UNCHANGED <<status, attempts, manual>>
    BY <1>15 DEF Tell
  <2>3. QED
    BY <2>1, <2>2, RoomKept
<1>16. ASSUME NEW c \in Clients, PurgeEvents(c) PROVE RoomLeft' /\ MutexHeld'
  <2>1. /\ MutexHeld'
        /\ \A j \in Ids : Capable(j)' \subseteq Capable(j)
    BY <1>16 DEF PurgeEvents, Capable, MutexHeld
  <2>2. UNCHANGED <<status, attempts, manual>>
    BY <1>16 DEF PurgeEvents
  <2>3. QED
    BY <2>1, <2>2, RoomKept
<1>17. ASSUME NEW c \in Clients, PurgeJobs(c) PROVE RoomLeft' /\ MutexHeld'
  <2>1. UNCHANGED <<pc, hand, mutex, attempts, manual>>
    BY <1>17 DEF PurgeJobs
  <2>2. \A j \in Ids : status'[j] \in Waiting => status[j] \in Waiting
    BY <1>17 DEF PurgeJobs, Waiting
  <2>3. MutexHeld' /\ \A j \in Ids : Capable(j)' = Capable(j)
    BY <2>1 DEF MutexHeld, Capable
  <2>4. QED
    BY <2>1, <2>2, <2>3, RoomKept
<1>18. ASSUME NEW j \in Ids, Age(j) PROVE RoomLeft' /\ MutexHeld'
  <2>1. /\ MutexHeld'
        /\ \A i \in Ids : Capable(i)' \subseteq Capable(i)
    BY <1>18 DEF Age, Capable, MutexHeld
  <2>2. UNCHANGED <<status, attempts, manual>>
    BY <1>18 DEF Age
  <2>3. QED
    BY <2>1, <2>2, RoomKept
<1>19. ASSUME Follow PROVE RoomLeft' /\ MutexHeld'
  <2>1. /\ MutexHeld'
        /\ \A j \in Ids : Capable(j)' \subseteq Capable(j)
    BY <1>19 DEF Follow, Capable, MutexHeld
  <2>2. UNCHANGED <<status, attempts, manual>>
    BY <1>19 DEF Follow
  <2>3. QED
    BY <2>1, <2>2, RoomKept
<1>20. ASSUME UNCHANGED vars PROVE RoomLeft' /\ MutexHeld'
  <2>1. /\ MutexHeld'
        /\ \A j \in Ids : Capable(j)' \subseteq Capable(j)
    BY <1>20 DEF vars, Capable, MutexHeld
  <2>2. UNCHANGED <<status, attempts, manual>>
    BY <1>20 DEF vars
  <2>3. QED
    BY <2>1, <2>2, RoomKept
<1>21. QED
  BY <1>1, <1>2, <1>3, <1>4, <1>5, <1>6, <1>7, <1>8, <1>9, <1>10, <1>11, <1>12, <1>13, <1>14, <1>15,
     <1>16, <1>17, <1>18, <1>19, <1>20 DEF Next, WorkerStep

\* Daemons that share the database attempt a job at most max_retries times,
\* once more for each manual retry, and once more for each other daemon; for
\* any number of daemons and threads, over kills and failing writes.
THEOREM ExcessIsBounded == Populated /\ Spec => []RetryExcess
<1> SUFFICES ASSUME Populated PROVE Spec => []RetryExcess
  OBVIOUS
<1>1. Init => RoomLeft /\ MutexHeld
  <2> SUFFICES ASSUME Init PROVE RoomLeft /\ MutexHeld
    OBVIOUS
  <2>1. MutexHeld
    BY DEF Init, MutexHeld
  <2>2. \A j \in Ids : Capable(j) = {} /\ attempts[j] = 0 /\ manual[j] = 0
    BY DEF Init, Capable
  <2>3. RoomLeft
    BY <2>2, CapableCount, FS_EmptySet, LimitAssumption DEF RoomLeft, Room
  <2>4. QED
    BY <2>1, <2>3
<1>2. RunnerInv /\ RoomLeft /\ MutexHeld /\ [Next]_vars => RoomLeft' /\ MutexHeld'
  BY StepRoom
<1>3. RunnerInv /\ RoomLeft => RetryExcess
  <2> SUFFICES ASSUME RunnerInv, RoomLeft, NEW j \in Ids
               PROVE  attempts[j] <= MaxRetries + manual[j] + Cardinality(Daemons) - 1
    BY DEF RetryExcess
  <2>1. attempts[j] \in Nat /\ manual[j] \in Nat /\ Room(j)
    BY DEF RunnerInv, TypeOK, RoomLeft
  <2>2. Cardinality(Capable(j)) \in Nat /\ Cardinality(Daemons) \in Nat
    BY CapableCount
  <2>3. QED
    BY <2>1, <2>2, LimitAssumption DEF Room
<1>4. QED
  BY <1>1, <1>2, <1>3, RunnerInvariant, PTL DEF Spec
=============================================================================
