------------------------------ MODULE JobQueue ------------------------------
(* The SQLite job queue: cmd/AkaiQueue/src/main.c, with the submission of     *)
(* jobs and the event stream of cmd/AkaiAPI/src/main.c.                       *)
(*                                                                            *)
(* Daemons are `akai-queue work` processes, whose threads (Workers) share one *)
(* g_db_mutex. Clients insert and change jobs: an API server, or a shell that *)
(* runs one command (enqueue, retry, purge) after another. Processes share    *)
(* only the database, so between them one SQL statement is what is atomic.    *)
(* The follower reads the event log (`events --follow`, GET /api/events).     *)
(*                                                                            *)
(* Abstracted: paths, results, log lines, the search index, webhooks, and     *)
(* timestamps except "completed_at is before the purge limit". Bounds:        *)
(* MaxJobs, MaxManual (manual retries of a job), MaxTries (attempts of a job) *)
(* and MaxEvents (rows ever written to the log).                              *)
EXTENDS Integers, FiniteSets

CONSTANTS
  Daemons, Workers, Clients,
  Home,        \* the daemon that a worker thread belongs to
  Servers,     \* the clients that keep one database connection
  NoWorker,
  Priorities,
  MaxJobs, MaxManual, MaxTries, MaxEvents,
  MaxRetries,  \* jobs.max_retries
  Batch,       \* LIMIT of the readers of the event log; 0 where nobody reads
  MayStop,     \* daemons may be told to stop, and be started again
  MayCrash,    \* daemons may be killed
  MayFail,     \* a write statement may fail (SQLITE_BUSY, a full disk)
  Purging      \* clients run `purge`

ASSUME HomeAssumption == Home \in [Workers -> Daemons] /\ NoWorker \notin Workers
ASSUME ServersAssumption == Servers \subseteq Clients
ASSUME PrioritiesAssumption == Priorities \subseteq Int
ASSUME BoundAssumption == MaxJobs \in Nat /\ MaxManual \in Nat /\ MaxTries \in Nat /\ MaxEvents \in Nat
ASSUME LimitAssumption == MaxRetries \in Nat \ {0} /\ Batch \in Nat
ASSUME SwitchAssumption == {MayStop, MayCrash, MayFail, Purging} \subseteq BOOLEAN

VARIABLES
  status,     \* jobs.status; "absent" for an id not yet given out
  priority,   \* jobs.priority
  attempts,   \* jobs.attempts
  old,        \* the jobs whose completed_at is before the purge limit
  events,     \* the rows of the events table
  lastEvent,  \* its AUTOINCREMENT counter
  mutex,      \* g_db_mutex, where it is held over two statements
  running,    \* g_running of a daemon, and whether there is a process at all
  pc,         \* where a worker thread is
  hand,       \* its job_id, the attempts it read, and the outcome of the job
  note,       \* what a client's command still has to do
  rowid,      \* sqlite3_last_insert_rowid of a client's connection
  since,      \* the follower's cursor
  seen,       \* the rows the follower has printed
  manual,     \* history: how often a job was retried by hand
  changes     \* history: how often the status of a job changed

jobVars == <<status, priority, attempts, old, manual, changes>>
logVars == <<events, lastEvent>>
workerVars == <<mutex, pc, hand>>
clientVars == <<note, rowid>>
followVars == <<since, seen>>
vars == <<jobVars, logVars, workerVars, running, clientVars, followVars>>

Ids      == 1..MaxJobs
Finished == {"completed", "failed"}
Outcomes == Finished \union {"retry"}
Statuses == {"absent", "deleted", "queued", "running"} \union Finished
Event    == [id : Nat, job : Nat, event : {"queued", "running"} \union Outcomes]
Idle     == [job |-> 0, tries |-> 0, outcome |-> "none"]
NoNote   == [job |-> 0, event |-> "none"]
Purged   == [job |-> 0, event |-> "purge"]

TypeOK ==
  /\ status \in [Ids -> Statuses]
  /\ priority \in [Ids -> Int]
  /\ attempts \in [Ids -> Nat]
  /\ old \in SUBSET Ids
  /\ events \in SUBSET Event
  /\ lastEvent \in Nat
  /\ mutex \in [Daemons -> Workers \union {NoWorker}]
  /\ running \in [Daemons -> {"yes", "no", "exited"}]
  /\ pc \in [Workers -> {"poll", "selected", "claimed", "executing", "report", "notify", "stopped"}]
  /\ hand \in [Workers -> [job : Ids \union {0}, tries : Nat, outcome : Outcomes \union {"none"}]]
  /\ note \in [Clients -> [job : Nat, event : {"none", "purge", "queued", "retry"}]]
  /\ rowid \in [Clients -> Nat]
  /\ since \in Nat
  /\ seen \in SUBSET Event
  /\ manual \in [Ids -> Nat]
  /\ changes \in [Ids -> Nat]

Init ==
  /\ status = [j \in Ids |-> "absent"]
  /\ priority = [j \in Ids |-> 0]
  /\ attempts = [j \in Ids |-> 0]
  /\ old = {}
  /\ events = {}
  /\ lastEvent = 0
  /\ mutex = [d \in Daemons |-> NoWorker]
  /\ running = [d \in Daemons |-> "yes"]
  /\ pc = [w \in Workers |-> "poll"]
  /\ hand = [w \in Workers |-> Idle]
  /\ note = [c \in Clients |-> NoNote]
  /\ rowid = [c \in Clients |-> 0]
  /\ since = 0
  /\ seen = {}
  /\ manual = [j \in Ids |-> 0]
  /\ changes = [j \in Ids |-> 0]

-----------------------------------------------------------------------------
(* Statements on the database.                                                *)

\* Whether a write takes effect. The code looks at the result of one write
\* only (the claim); elsewhere it goes on as if the write had been made.
Written == IF MayFail THEN BOOLEAN ELSE {TRUE}

SetStatus(j, s) ==
  /\ status' = [status EXCEPT ![j] = s]
  /\ changes' = [changes EXCEPT ![j] = @ + 1]

\* Faulty: a plain rowid, which starts again from the largest one left.
NewEventIdReused == IF events = {} THEN 1 ELSE 1 + (CHOOSE i \in {e.id : e \in events} : \A e \in events : e.id <= i)

NewEventId == lastEvent + 1

EmitEvent(j, e) ==
  /\ lastEvent < MaxEvents
  /\ \E ok \in Written :
       IF ok
       THEN /\ events' = events \union {[id |-> NewEventId, job |-> j, event |-> e]}
            /\ lastEvent' = NewEventId
       ELSE UNCHANGED logVars

Before(i, j) == priority[i] < priority[j] \/ (priority[i] = priority[j] /\ i < j)

\* ORDER BY priority ASC, id ASC LIMIT 1
IsNext(j) ==
  /\ status[j] = "queued"
  /\ \A i \in Ids \ {j} : status[i] = "queued" => Before(j, i)

-----------------------------------------------------------------------------
(* worker_thread.                                                             *)

Goto(w, from, to) == pc[w] = from /\ pc' = [pc EXCEPT ![w] = to]

Unlocked(w) == mutex[Home[w]] = NoWorker

\* The SELECT of the next job; the mutex is kept until the claim.
Select(w) ==
  /\ Goto(w, "poll", "selected")
  /\ running[Home[w]] = "yes"
  /\ Unlocked(w)
  /\ \E j \in Ids :
       /\ IsNext(j)
       /\ attempts[j] < MaxTries
       /\ hand' = [hand EXCEPT ![w] = [job |-> j, tries |-> attempts[j], outcome |-> "none"]]
  /\ mutex' = [mutex EXCEPT ![Home[w]] = w]
  /\ UNCHANGED <<jobVars, logVars, running, clientVars, followVars>>

\* The SELECT finds nothing: the thread sleeps and polls again.
PollEmpty(w) ==
  /\ pc[w] = "poll"
  /\ running[Home[w]] = "yes"
  /\ Unlocked(w)
  /\ \A j \in Ids : status[j] # "queued"
  /\ UNCHANGED vars

\* Faulty: the claim does not look at the status.
ClaimableBlind(j) == status[j] # "absent"

\* WHERE id=? AND status='queued'
Claimable(j) == status[j] = "queued"

\* The UPDATE that claims the job; it counts only if it changed the row.
Claim(w) ==
  LET j == hand[w].job IN
  /\ pc[w] = "selected"
  /\ mutex' = [mutex EXCEPT ![Home[w]] = NoWorker]
  /\ \E ok \in Written :
       IF ok /\ Claimable(j)
       THEN /\ SetStatus(j, "running")
            /\ attempts' = [attempts EXCEPT ![j] = @ + 1]
            /\ pc' = [pc EXCEPT ![w] = "claimed"]
            /\ hand' = hand
       ELSE /\ pc' = [pc EXCEPT ![w] = "poll"]
            /\ hand' = [hand EXCEPT ![w] = Idle]
            /\ UNCHANGED <<status, changes, attempts>>
  /\ UNCHANGED <<priority, old, manual, logVars, running, clientVars, followVars>>

\* emit_event(job_id, "running"); then run_binary starts the program.
Announce(w) ==
  /\ Goto(w, "claimed", "executing")
  /\ Unlocked(w)
  /\ EmitEvent(hand[w].job, "running")
  /\ UNCHANGED <<jobVars, mutex, hand, running, clientVars, followVars>>

\* Faulty: the attempt that just ended is not counted.
ShouldRetryOnceMore(w) == hand[w].tries < MaxRetries

\* The attempts compared are those of the SELECT.
ShouldRetry(w) == hand[w].tries + 1 < MaxRetries

\* The program ends well, in a failure that may be retried, or with 127.
Results(w) == Finished \union IF ShouldRetry(w) THEN {"retry"} ELSE {}

\* Faulty: a job to be tried again is given the name of its event as status.
StatusOfEvent(e) == e

StatusOf(e) == IF e = "retry" THEN "queued" ELSE e

\* run_binary returns; one UPDATE by id records the result and completed_at.
Finish(w) ==
  LET j == hand[w].job IN
  /\ Goto(w, "executing", "report")
  /\ Unlocked(w)
  /\ \E e \in Results(w), ok \in Written :
       /\ hand' = [hand EXCEPT ![w] = [job |-> j, tries |-> hand[w].tries, outcome |-> e]]
       /\ IF ok
          THEN SetStatus(j, StatusOf(e)) /\ old' = old \ {j}
          ELSE UNCHANGED <<status, changes, old>>
  /\ UNCHANGED <<priority, attempts, manual, logVars, mutex, running, clientVars, followVars>>

\* Faulty: only a final outcome is logged.
ReportOutcomeOnly(w) ==
  /\ pc[w] = "report"
  /\ Unlocked(w)
  /\ IF hand[w].outcome = "retry"
     THEN pc' = [pc EXCEPT ![w] = "poll"] /\ hand' = [hand EXCEPT ![w] = Idle] /\ UNCHANGED logVars
     ELSE pc' = [pc EXCEPT ![w] = "notify"] /\ hand' = hand /\ EmitEvent(hand[w].job, hand[w].outcome)
  /\ UNCHANGED <<jobVars, mutex, running, clientVars, followVars>>

\* The event of the outcome. Only a final one is also indexed and notified.
Report(w) ==
  /\ pc[w] = "report"
  /\ Unlocked(w)
  /\ EmitEvent(hand[w].job, hand[w].outcome)
  /\ IF hand[w].outcome = "retry"
     THEN pc' = [pc EXCEPT ![w] = "poll"] /\ hand' = [hand EXCEPT ![w] = Idle]
     ELSE pc' = [pc EXCEPT ![w] = "notify"] /\ hand' = hand
  /\ UNCHANGED <<jobVars, mutex, running, clientVars, followVars>>

\* fts_sync_job and dispatch_webhooks leave jobs and events as they are.
Notify(w) ==
  /\ Goto(w, "notify", "poll")
  /\ Unlocked(w)
  /\ hand' = [hand EXCEPT ![w] = Idle]
  /\ UNCHANGED <<jobVars, logVars, mutex, running, clientVars, followVars>>

\* Faulty: the flag is also looked at after the claim.
StopAfterClaim(w) ==
  /\ pc[w] \in {"poll", "claimed"}
  /\ pc' = [pc EXCEPT ![w] = "stopped"]
  /\ running[Home[w]] = "no"
  /\ UNCHANGED <<jobVars, logVars, mutex, hand, running, clientVars, followVars>>

\* while (g_running) ends.
Stop(w) ==
  /\ Goto(w, "poll", "stopped")
  /\ running[Home[w]] = "no"
  /\ UNCHANGED <<jobVars, logVars, mutex, hand, running, clientVars, followVars>>

-----------------------------------------------------------------------------
(* The process of a daemon: cmd_work and handle_signal.                       *)

Threads(d) == {w \in Workers : Home[w] = d}

Signal(d) ==
  /\ MayStop
  /\ running[d] = "yes"
  /\ running' = [running EXCEPT ![d] = "no"]
  /\ UNCHANGED <<jobVars, logVars, workerVars, clientVars, followVars>>

\* Every thread is joined and the process ends.
Exit(d) ==
  /\ running[d] = "no"
  /\ \A w \in Threads(d) : pc[w] = "stopped"
  /\ running' = [running EXCEPT ![d] = "exited"]
  /\ UNCHANGED <<jobVars, logVars, workerVars, clientVars, followVars>>

\* The process is killed: what its threads held is gone.
Crash(d) ==
  /\ MayCrash
  /\ running[d] # "exited"
  /\ running' = [running EXCEPT ![d] = "exited"]
  /\ mutex' = [mutex EXCEPT ![d] = NoWorker]
  /\ pc' = [w \in Workers |-> IF Home[w] = d THEN "stopped" ELSE pc[w]]
  /\ hand' = [w \in Workers |-> IF Home[w] = d THEN Idle ELSE hand[w]]
  /\ UNCHANGED <<jobVars, logVars, clientVars, followVars>>

\* Faulty: a new daemon puts back every job it finds running.
StartRequeuing(d) ==
  /\ running[d] = "exited"
  /\ running' = [running EXCEPT ![d] = "yes"]
  /\ pc' = [w \in Workers |-> IF Home[w] = d THEN "poll" ELSE pc[w]]
  /\ status' = [j \in Ids |-> IF status[j] = "running" THEN "queued" ELSE status[j]]
  /\ UNCHANGED <<priority, attempts, old, manual, changes, logVars, mutex, hand, clientVars, followVars>>

\* cmd_work in a new process; open_db changes no row.
Start(d) ==
  /\ running[d] = "exited"
  /\ running' = [running EXCEPT ![d] = "yes"]
  /\ pc' = [w \in Workers |-> IF Home[w] = d THEN "poll" ELSE pc[w]]
  /\ UNCHANGED <<jobVars, logVars, mutex, hand, clientVars, followVars>>

-----------------------------------------------------------------------------
(* Clients.                                                                   *)

Insert(j, p) ==
  /\ SetStatus(j, "queued")
  /\ priority' = [priority EXCEPT ![j] = p]

\* A connection remembers the row it inserted last, in whatever table; a shell
\* command opens a new connection, which has inserted nothing.
Remembered(c, id) == IF c \in Servers THEN id ELSE 0

\* INSERT INTO jobs, then last_insert_rowid, which is taken for the job's id.
Enqueue(c) ==
  /\ note[c] = NoNote
  /\ \E j \in Ids, p \in Priorities, ok \in Written :
       /\ status[j] = "absent"
       /\ \A i \in 1..j - 1 : status[i] # "absent"
       /\ IF ok
          THEN /\ Insert(j, p)
               /\ note' = [note EXCEPT ![c] = [job |-> j, event |-> "queued"]]
               /\ rowid' = [rowid EXCEPT ![c] = Remembered(c, j)]
          ELSE /\ note' = [note EXCEPT ![c] = [job |-> rowid[c], event |-> "queued"]]
               /\ UNCHANGED <<status, changes, priority, rowid>>
  /\ UNCHANGED <<attempts, old, manual, logVars, workerVars, running, followVars>>

\* cmd_retry: the UPDATE clears completed_at and keeps attempts. A statement
\* that changed nothing ends the command.
Retry(c) ==
  /\ note[c] = NoNote
  /\ \E j \in Ids :
       /\ status[j] \in Finished
       /\ manual[j] < MaxManual
       /\ SetStatus(j, "queued")
       /\ old' = old \ {j}
       /\ manual' = [manual EXCEPT ![j] = @ + 1]
       /\ note' = [note EXCEPT ![c] = [job |-> j, event |-> "retry"]]
  /\ UNCHANGED <<priority, attempts, logVars, workerVars, running, rowid, followVars>>

\* emit_event after enqueue and retry.
Tell(c) ==
  /\ note[c].event \in {"queued", "retry"}
  /\ EmitEvent(note[c].job, note[c].event)
  /\ rowid' = [rowid EXCEPT ![c] = IF events' = events THEN @ ELSE Remembered(c, lastEvent')]
  /\ note' = [note EXCEPT ![c] = NoNote]
  /\ UNCHANGED <<jobVars, workerVars, running, followVars>>

Purgeable == {j \in old : status[j] \in Finished}

\* cmd_purge: first the events of the old finished jobs, ...
PurgeEvents(c) ==
  /\ Purging
  /\ note[c] = NoNote
  /\ note' = [note EXCEPT ![c] = Purged]
  /\ \E ok \in Written : events' = IF ok THEN {e \in events : e.job \notin Purgeable} ELSE events
  /\ UNCHANGED <<jobVars, lastEvent, workerVars, running, rowid, followVars>>

\* ... then, in a statement of its own, the jobs.
PurgeJobs(c) ==
  /\ note[c] = Purged
  /\ note' = [note EXCEPT ![c] = NoNote]
  /\ \E ok \in Written :
       IF ok
       THEN /\ status' = [j \in Ids |-> IF j \in Purgeable THEN "deleted" ELSE status[j]]
            /\ old' = old \ Purgeable
       ELSE UNCHANGED <<status, old>>
  /\ UNCHANGED <<priority, attempts, manual, changes, logVars, workerVars, running, rowid, followVars>>

\* Time passes.
Age(j) ==
  /\ Purging
  /\ status[j] \in Finished
  /\ j \notin old
  /\ old' = old \union {j}
  /\ UNCHANGED <<status, priority, attempts, manual, changes, logVars, workerVars, running, clientVars, followVars>>

-----------------------------------------------------------------------------
(* The follower.                                                              *)

\* WHERE id > since ORDER BY id ASC LIMIT Batch
NextBatch ==
  {e \in events : /\ e.id > since
                  /\ Cardinality({f \in events : since < f.id /\ f.id <= e.id}) <= Batch}

\* Faulty: the cursor skips what LIMIT cut off.
LastEver(rows, e) == e \in events /\ \A f \in events : f.id <= e.id

LastOf(rows, e) == e \in rows /\ \A f \in rows : f.id <= e.id

Follow ==
  /\ NextBatch # {}
  /\ seen' = seen \union NextBatch
  /\ \E e \in events : LastOf(NextBatch, e) /\ since' = e.id
  /\ UNCHANGED <<jobVars, logVars, workerVars, running, clientVars>>

-----------------------------------------------------------------------------
WorkerStep(w) ==
  \/ Select(w) \/ PollEmpty(w) \/ Claim(w) \/ Announce(w) \/ Finish(w)
  \/ Report(w) \/ Notify(w) \/ Stop(w)

Next ==
  \/ \E w \in Workers : WorkerStep(w)
  \/ \E d \in Daemons : Signal(d) \/ Exit(d) \/ Crash(d) \/ Start(d)
  \/ \E c \in Clients : Enqueue(c) \/ Retry(c) \/ Tell(c) \/ PurgeEvents(c) \/ PurgeJobs(c)
  \/ \E j \in Ids : Age(j)
  \/ Follow

Spec == Init /\ [][Next]_vars

\* Threads are scheduled and every program a job runs ends; clients finish the
\* command they began; the follower keeps polling. Nobody has to submit
\* anything, and no daemon has to be started again.
Fairness ==
  /\ \A w \in Workers : WF_vars(WorkerStep(w))
  /\ \A c \in Clients : WF_vars(Tell(c)) /\ WF_vars(PurgeJobs(c))
  /\ WF_vars(Follow)

FairSpec == Spec /\ Fairness

-----------------------------------------------------------------------------
(* Properties.                                                                *)

Holds(w, j) == hand[w].job = j /\ pc[w] \in {"claimed", "executing"}

\* No job is executed by two workers at once, of one daemon or of several, and
\* nothing but its worker moves it on while it runs: the claim of worker_thread
\* is exclusive although the UPDATE that ends a job does not look at its status.
OneRunner ==
  \A j \in Ids, w \in Workers :
    Holds(w, j) => /\ status[j] = "running"
                   /\ \A v \in Workers : Holds(v, j) => v = w

\* A job that is marked running is being run: the way every worker leaves its
\* loop, and a clean shutdown of the daemon, put no job out of reach of `retry`
\* and of the other workers.
NoOrphan == \A j \in Ids : status[j] = "running" => \E w \in Workers : Holds(w, j)

\* A job is attempted at most max_retries times, and once more for each time
\* that somebody retried it by hand ("Retry: ... with max_retries per job").
RetryBound == \A j \in Ids : attempts[j] <= MaxRetries + manual[j]

\* Daemons that share the database go beyond that by one attempt for each other
\* daemon and no more: a thread that claims with a count of attempts that has
\* grown old puts the job back once too often, and then reads the count again.
RetryExcess ==
  \A j \in Ids : attempts[j] <= MaxRetries + manual[j] + Cardinality(Daemons) - 1

\* The events that a worker or a client is about to write for a job.
Pending(j) ==
  {w \in Workers : hand[w].job = j /\ pc[w] \in {"claimed", "report"}}
    \union {c \in Clients : note[c].job = j /\ note[c].event \in {"queued", "retry"}}

\* "Event log: every state change emits a row": the rows of a job and those
\* about to be written are as many as the changes of its status.
EveryChangeLogged ==
  \A j \in Ids : Cardinality({e \in events : e.job = j}) + Cardinality(Pending(j)) = changes[j]

\* A follower misses nothing: every event up to its cursor was printed, over
\* batches, purges and restarts of the daemons.
FollowerComplete == \A e \in events : e.id <= since => e \in seen

\* The jobs table goes through the stages that JobLifecycle allows.
Lifecycle == INSTANCE JobLifecycle WITH stage <- status
LifecycleSpec == Lifecycle!Spec

Overtaken(j) == \E i \in Ids : status[i] = "queued" /\ Before(i, j)

\* A queued job is finished, over its retries and those of others, while the
\* daemons run and unless more urgent jobs go on arriving before it: the order
\* of the SELECT is strict, so such a job may wait for ever.
Settles ==
  \A j \in Ids : <>[]~Overtaken(j) => (status[j] = "queued" ~> status[j] \in Finished)

Has(log, i) == \E e \in log : e.id = i

\* The follower catches up: it prints every event, unless a purge is faster.
Delivered == \A i \in 1..MaxEvents : Has(events, i) ~> Has(seen, i) \/ ~Has(events, i)
=============================================================================
