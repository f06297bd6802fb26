------------------------------ MODULE Resolver ------------------------------
(* The asynchronous resolver: lib/libbonfyre/bf_dns.c without c-ares. Callers *)
(* queue names, worker threads take them and call getaddrinfo, and a result   *)
(* goes to the list of completed results and, where there is no reactor, to   *)
(* the callback of the query.                                                 *)
(*                                                                            *)
(* A section under r->lock or r->comp_lock is one action. Abstracted: the     *)
(* addresses and the wake-up pipe, which tells nobody anything (its reading   *)
(* end is not handed out). The cache is read and written without a lock, by   *)
(* workers that share cache_idx, and forgets with time: a name that was       *)
(* stored may be found in it or not.                                          *)
EXTENDS Integers, Sequences, FiniteSets

CONSTANTS
  Queries,  \* calls of bf_dns_resolve
  HostOf,   \* the name that a query asks for
  Workers,  \* r->workers
  NoQuery

ASSUME QueriesAssumption == NoQuery \notin Queries

\* worker_count threads are created.
ASSUME WorkersAssumption == IsFiniteSet(Workers)

VARIABLES
  reactor,    \* reactor_fd >= 0
  resolving,  \* r->running
  pending,    \* r->pending, the newest first
  step,       \* where a worker is
  query,      \* the query of a worker
  stored,     \* names that were stored in the cache
  completed,  \* r->completed: the queries that the results belong to
  state,      \* where a query is
  answers,    \* history: the calls of its callback
  stop        \* bf_dns_destroy: "not", "joining", "destroyed"

resolverVars == <<reactor, resolving, pending, step, query, stored, completed, state, answers, stop>>

Hosts == {HostOf[q] : q \in Queries}

ResolverTypeOK ==
  /\ reactor \in BOOLEAN
  /\ resolving \in BOOLEAN
  /\ pending \in Seq(Queries)
  /\ step \in [Workers -> {"test", "take", "asleep", "resolve", "post", "call", "ended"}]
  /\ query \in [Workers -> Queries \union {NoQuery}]
  /\ stored \in SUBSET Hosts
  /\ completed \in Seq(Queries)
  /\ state \in [Queries -> {"new", "queued", "taken", "freed", "hit"}]
  /\ answers \in [Queries -> Nat]
  /\ stop \in {"not", "joining", "destroyed"}

\* bf_dns_create
ResolverInit ==
  /\ reactor \in BOOLEAN
  /\ resolving = TRUE
  /\ pending = <<>>
  /\ step = [w \in Workers |-> "test"]
  /\ query = [w \in Workers |-> NoQuery]
  /\ stored = {}
  /\ completed = <<>>
  /\ state = [q \in Queries |-> "new"]
  /\ answers = [q \in Queries |-> 0]
  /\ stop = "not"

Answer(q) == answers' = [answers EXCEPT ![q] = @ + 1]

-----------------------------------------------------------------------------
(* bf_dns_resolve.                                                            *)

\* The callback is called at once with what the cache has.
Hit(q) ==
  /\ stop = "not"
  /\ state[q] = "new"
  /\ HostOf[q] \in stored
  /\ state' = [state EXCEPT ![q] = "hit"]
  /\ Answer(q)
  /\ UNCHANGED <<reactor, resolving, pending, step, query, stored, completed, stop>>

Asleep == {w \in Workers : step[w] = "asleep"}

\* Faulty: a signal only for the query that finds the list empty.
SignalsFirst ==
  IF Asleep = {} \/ pending # <<>> THEN step' = step ELSE \E w \in Asleep : step' = [step EXCEPT ![w] = "take"]

\* pthread_cond_signal: a sleeper, if there is one, goes for the lock again.
Signals ==
  IF Asleep = {} THEN step' = step ELSE \E w \in Asleep : step' = [step EXCEPT ![w] = "take"]

\* A query that there is no memory for is refused.
Enqueue(q) ==
  /\ stop = "not"
  /\ state[q] = "new"
  /\ pending' = <<q>> \o pending
  /\ state' = [state EXCEPT ![q] = "queued"]
  /\ Signals
  /\ UNCHANGED <<reactor, resolving, query, stored, completed, answers, stop>>

-----------------------------------------------------------------------------
(* worker_thread and do_resolve.                                              *)

Turns(w, from, to) == step[w] = from /\ step' = [step EXCEPT ![w] = to]

\* while (r->running)
TestRunning(w) ==
  /\ Turns(w, "test", IF resolving THEN "take" ELSE "ended")
  /\ UNCHANGED <<reactor, resolving, pending, query, stored, completed, state, answers, stop>>

\* pthread_cond_wait
FallAsleep(w) ==
  /\ resolving
  /\ pending = <<>>
  /\ Turns(w, "take", "asleep")
  /\ UNCHANGED <<reactor, resolving, pending, query, stored, completed, state, answers, stop>>

WakeUnasked(w) ==
  /\ Turns(w, "asleep", "take")
  /\ UNCHANGED <<reactor, resolving, pending, query, stored, completed, state, answers, stop>>

LeaveLoop(w) ==
  /\ ~resolving
  /\ Turns(w, "take", "ended")
  /\ UNCHANGED <<reactor, resolving, pending, query, stored, completed, state, answers, stop>>

\* Faulty: the query stays in the list until it is resolved.
TakeLeaving(w) ==
  /\ resolving
  /\ pending # <<>>
  /\ Turns(w, "take", "resolve")
  /\ query' = [query EXCEPT ![w] = Head(pending)]
  /\ pending' = pending
  /\ state' = [state EXCEPT ![Head(pending)] = "taken"]
  /\ UNCHANGED <<reactor, resolving, stored, completed, answers, stop>>

Take(w) ==
  /\ resolving
  /\ pending # <<>>
  /\ Turns(w, "take", "resolve")
  /\ query' = [query EXCEPT ![w] = Head(pending)]
  /\ pending' = Tail(pending)
  /\ state' = [state EXCEPT ![Head(pending)] = "taken"]
  /\ UNCHANGED <<reactor, resolving, stored, completed, answers, stop>>

\* getaddrinfo returns; what it found is stored in the cache.
Resolved(w) ==
  /\ Turns(w, "resolve", "post")
  /\ stored' \in {stored, stored \union {HostOf[query[w]]}}
  /\ UNCHANGED <<reactor, resolving, pending, query, completed, state, answers, stop>>

\* Under comp_lock; the result is dropped where the list cannot grow.
Post(w) ==
  /\ Turns(w, "post", "call")
  /\ completed' \in {completed, Append(completed, query[w])}
  /\ UNCHANGED <<reactor, resolving, pending, query, stored, state, answers, stop>>

\* The callback, where there is no reactor, and free(q).
CallBack(w) ==
  /\ Turns(w, "call", "test")
  /\ IF reactor THEN UNCHANGED answers ELSE Answer(query[w])
  /\ state' = [state EXCEPT ![query[w]] = "freed"]
  /\ query' = [query EXCEPT ![w] = NoQuery]
  /\ UNCHANGED <<reactor, resolving, pending, stored, completed, stop>>

-----------------------------------------------------------------------------
\* Faulty: the callbacks of the completed results are called, as they once were.
ProcessCalling ==
  /\ stop = "not"
  /\ completed # <<>>
  /\ completed' = <<>>
  /\ answers' = [q \in Queries |-> answers[q] + Cardinality({i \in DOMAIN completed : completed[i] = q})]
  /\ UNCHANGED <<reactor, resolving, pending, step, query, stored, state, stop>>

\* bf_dns_process: the completed results are thrown away, if there is memory to
\* copy them first.
Process ==
  /\ stop = "not"
  /\ completed # <<>>
  /\ completed' = <<>>
  /\ UNCHANGED <<reactor, resolving, pending, step, query, stored, state, answers, stop>>

\* Faulty: nobody is woken.
DestroySilently ==
  /\ stop = "not"
  /\ stop' = "joining"
  /\ resolving' = FALSE
  /\ UNCHANGED <<reactor, pending, step, query, stored, completed, state, answers>>

\* bf_dns_destroy, when nobody is in another call: running = 0 and a broadcast, ...
Destroy ==
  /\ stop = "not"
  /\ stop' = "joining"
  /\ resolving' = FALSE
  /\ step' = [w \in Workers |-> IF w \in Asleep THEN "take" ELSE step[w]]
  /\ UNCHANGED <<reactor, pending, query, stored, completed, state, answers>>

\* ... and, when the workers are joined, everything is freed.
FreeAll ==
  /\ stop = "joining"
  /\ \A w \in Workers : step[w] = "ended"
  /\ stop' = "destroyed"
  /\ state' = [q \in Queries |-> IF \E i \in DOMAIN pending : pending[i] = q THEN "freed" ELSE state[q]]
  /\ pending' = <<>>
  /\ completed' = <<>>
  /\ UNCHANGED <<reactor, resolving, step, query, stored, answers>>

-----------------------------------------------------------------------------
WorkerStep(w) ==
  \/ TestRunning(w) \/ FallAsleep(w) \/ LeaveLoop(w)
  \/ Take(w) \/ Resolved(w) \/ Post(w) \/ CallBack(w)

ResolverNext ==
  \/ \E q \in Queries : Hit(q) \/ Enqueue(q)
  \/ \E w \in Workers : WorkerStep(w) \/ WakeUnasked(w)
  \/ Process \/ Destroy \/ FreeAll

ResolverSpec == ResolverInit /\ [][ResolverNext]_resolverVars

\* The workers are scheduled, getaddrinfo returns, and so does the join.
ResolverFairness == WF_resolverVars(FreeAll) /\ \A w \in Workers : WF_resolverVars(WorkerStep(w))

-----------------------------------------------------------------------------
\* A callback is called at most once ("to avoid double-calls"), whether a query
\* is answered from the cache, by a worker or not at all, and not for a query
\* that is still in the list.
CalledOnce ==
  \A q \in Queries : /\ answers[q] <= 1
                     /\ answers[q] = 1 => state[q] \in {"hit", "freed"}

Holding(q) == {w \in Workers : query[w] = q}
Listed(q) == {i \in DOMAIN pending : pending[i] = q}

\* A query belongs to one worker, or to the list, until it is freed, once: by
\* its worker, or by bf_dns_destroy if no worker took it.
OneHolder ==
  \A q \in Queries :
    Cardinality(Holding(q)) + Cardinality(Listed(q)) = IF state[q] \in {"queued", "taken"} THEN 1 ELSE 0

AtList == {w \in Workers : step[w] = "take"}

\* No query waits for a worker that sleeps: while one is asleep in
\* pthread_cond_wait the others that are at the list are at least as many as the
\* queries in it (one signal for each query is enough, also for a worker that
\* found the list emptied by another and slept again), and nobody sleeps after
\* bf_dns_destroy has set running to 0, so that every join ends.
NobodySleepsOver ==
  Asleep # {} => resolving /\ Len(pending) <= Cardinality(AtList)

\* Without a reactor every query is answered, unless the resolver is destroyed;
\* and a destroy that has begun frees every query: no worker sleeps through a
\* query or through the end. (There are finitely many queries: the list is a
\* stack, and the oldest waits while new ones keep coming.)
Answered ==
  \A q \in Queries :
    state[q] \in {"queued", "taken"} ~> answers[q] = 1 \/ (reactor /\ state[q] = "freed") \/ stop = "destroyed"
=============================================================================
