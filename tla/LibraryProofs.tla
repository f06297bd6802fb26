---------------------------- MODULE LibraryProofs ---------------------------
(* Proofs about two components of the library that share nothing: the         *)
(* resolver, for any queries, names and workers, and the event loop, for any   *)
(* clients, connections and sizes.                                            *)
EXTENDS Resolver, Reactor, FiniteSetTheorems, WellFoundedInduction, TLAPS

-----------------------------------------------------------------------------
(* The resolver: CalledOnce, OneHolder, NobodySleepsOver.                      *)

\* A worker has a query exactly while it works on it, and nobody else has it.
Busy == {"resolve", "post", "call"}

Held ==
  /\ \A w \in Workers : query[w] \in Queries <=> step[w] \in Busy
  /\ \A w \in Workers : query[w] \in Queries => state[query[w]] = "taken"
  /\ \A v, w \in Workers : query[v] = query[w] /\ query[v] \in Queries => v = w
  /\ \A q \in Queries : state[q] = "taken" => \E w \in Workers : query[w] = q

\* The list has the queries that are queued, each once.
InList ==
  /\ \A i \in 1..Len(pending) : state[pending[i]] = "queued"
  /\ \A i, j \in 1..Len(pending) : pending[i] = pending[j] => i = j
  /\ \A q \in Queries : state[q] = "queued" => \E i \in 1..Len(pending) : pending[i] = q

ResolverInv == ResolverTypeOK /\ Held /\ InList /\ CalledOnce

-----------------------------------------------------------------------------
\* Lists: what is put in front of a list, and what is behind its head.
LEMMA Consed ==
  ASSUME NEW S, NEW s \in Seq(S), NEW x \in S
  PROVE  /\ <<x>> \o s \in Seq(S)
         /\ Len(<<x>> \o s) = Len(s) + 1
         /\ (<<x>> \o s)[1] = x
         /\ \A i \in 1..Len(s) : (<<x>> \o s)[i + 1] = s[i]
         /\ \A i \in 2..Len(s) + 1 : (<<x>> \o s)[i] = s[i - 1]
  OBVIOUS

LEMMA Beheaded ==
  ASSUME NEW S, NEW s \in Seq(S), s # <<>>
  PROVE  /\ Tail(s) \in Seq(S)
         /\ Len(s) \in Nat \ {0}
         /\ Len(Tail(s)) = Len(s) - 1
         /\ Head(s) = s[1] /\ Head(s) \in S
         /\ \A i \in 1..Len(s) - 1 : Tail(s)[i] = s[i + 1]
  OBVIOUS

\* A step that changes neither the list nor who has which query, and no state,
\* but where a worker is.
LEMMA MovesKeep ==
  ASSUME ResolverInv, NEW w \in Workers,
         NEW to \in {"test", "take", "asleep", "resolve", "post", "call", "ended"},
         step' = [step EXCEPT ![w] = to], step[w] \in Busy <=> to \in Busy,
         UNCHANGED <<pending, query, state>>
  PROVE  Held' /\ InList' /\ step' \in [Workers -> {"test", "take", "asleep", "resolve", "post", "call", "ended"}]
  BY DEF ResolverInv, ResolverTypeOK, Held, InList

LEMMA InitHolds == ResolverInit => ResolverInv
<1> SUFFICES ASSUME ResolverInit PROVE ResolverInv
  OBVIOUS
<1>1. ResolverTypeOK
  BY DEF ResolverInit, ResolverTypeOK
<1>2. Held
  BY QueriesAssumption DEF ResolverInit, Held, Busy
<1>3. InList
  BY DEF ResolverInit, InList
<1>4. CalledOnce
  BY DEF ResolverInit, CalledOnce
<1> QED
  BY <1>1, <1>2, <1>3, <1>4 DEF ResolverInv

LEMMA HitKeeps ==
  ASSUME ResolverInv, NEW q \in Queries, Hit(q)
  PROVE  ResolverInv'
<1>1. ResolverTypeOK'
  BY DEF ResolverInv, ResolverTypeOK, Hit, Answer
<1>2. Held'
  BY DEF ResolverInv, ResolverTypeOK, Hit, Held
<1>3. InList'
  BY DEF ResolverInv, ResolverTypeOK, Hit, InList
<1>4. CalledOnce'
  BY DEF ResolverInv, ResolverTypeOK, Hit, Answer, CalledOnce
<1> QED
  BY <1>1, <1>2, <1>3, <1>4 DEF ResolverInv

\* A sleeper that is signalled goes for the lock, without a query.
LEMMA SignalsKeep ==
  ASSUME ResolverTypeOK, Signals
  PROVE  /\ step' \in [Workers -> {"test", "take", "asleep", "resolve", "post", "call", "ended"}]
         /\ \A w \in Workers : step'[w] \in Busy <=> step[w] \in Busy
  BY DEF ResolverTypeOK, Signals, Asleep, Busy

LEMMA EnqueueKeeps ==
  ASSUME ResolverInv, NEW q \in Queries, Enqueue(q)
  PROVE  ResolverInv'
<1>1. pending \in Seq(Queries) /\ pending' = <<q>> \o pending
  BY DEF ResolverInv, ResolverTypeOK, Enqueue
<1>2. /\ pending' \in Seq(Queries)
      /\ Len(pending) \in Nat /\ Len(pending') = Len(pending) + 1
      /\ pending'[1] = q
      /\ \A i \in 1..Len(pending) : pending'[i + 1] = pending[i]
      /\ \A i \in 2..Len(pending) + 1 : pending'[i] = pending[i - 1]
  BY <1>1, Consed
<1>3. /\ state' = [state EXCEPT ![q] = "queued"] /\ state[q] = "new"
      /\ state \in [Queries -> {"new", "queued", "taken", "freed", "hit"}]
  BY DEF ResolverInv, ResolverTypeOK, Enqueue
<1>4. /\ step' \in [Workers -> {"test", "take", "asleep", "resolve", "post", "call", "ended"}]
      /\ \A w \in Workers : step'[w] \in Busy <=> step[w] \in Busy
  BY SignalsKeep DEF ResolverInv, Enqueue
<1>5. ResolverTypeOK'
  BY <1>2, <1>3, <1>4 DEF ResolverInv, ResolverTypeOK, Enqueue
<1>6. Held'
  BY <1>3, <1>4 DEF ResolverInv, ResolverTypeOK, Held, Enqueue
<1>7. InList'
  <2>1. \A i \in 1..Len(pending) : pending[i] # q /\ pending[i] \in Queries
    BY <1>1, <1>3 DEF ResolverInv, InList
  <2>2. \A i \in 1..Len(pending') : state'[pending'[i]] = "queued"
    BY <1>2, <1>3, <2>1 DEF ResolverInv, InList
  <2>3. \A i, j \in 1..Len(pending') : pending'[i] = pending'[j] => i = j
    <3> SUFFICES ASSUME NEW i \in 1..Len(pending'), NEW j \in 1..Len(pending'), pending'[i] = pending'[j]
                 PROVE  i = j
      OBVIOUS
    <3>0. /\ i \in Int /\ j \in Int
          /\ i # 1 => i - 1 \in 1..Len(pending) /\ pending'[i] = pending[i - 1]
          /\ j # 1 => j - 1 \in 1..Len(pending) /\ pending'[j] = pending[j - 1]
      BY <1>2
    <3>1. CASE i = 1 \/ j = 1
      <4>1. i # 1 => pending'[i] # q
        BY <2>1, <3>0
      <4>2. j # 1 => pending'[j] # q
        BY <2>1, <3>0
      <4> QED
        BY <1>2, <3>1, <4>1, <4>2
    <3>2. CASE i # 1 /\ j # 1
      <4>1. pending[i - 1] = pending[j - 1]
        BY <3>0, <3>2
      <4>2. i - 1 = j - 1
        BY <3>0, <3>2, <4>1 DEF ResolverInv, InList
      <4> QED
        BY <3>0, <4>2
    <3> QED
      BY <3>1, <3>2
  <2>4. ASSUME NEW p \in Queries, state'[p] = "queued"
        PROVE  \E i \in 1..Len(pending') : pending'[i] = p
    <3>1. CASE p = q
      BY <1>2, <3>1
    <3>2. CASE p # q
      <4>1. PICK i \in 1..Len(pending) : pending[i] = p
        BY <1>3, <2>4, <3>2 DEF ResolverInv, InList
      <4> QED
        BY <1>2, <4>1
    <3> QED
      BY <3>1, <3>2
  <2> QED
    BY <2>2, <2>3, <2>4 DEF InList
<1>8. CalledOnce'
  BY <1>3 DEF ResolverInv, ResolverTypeOK, CalledOnce, Enqueue
<1> QED
  BY <1>5, <1>6, <1>7, <1>8 DEF ResolverInv

\* The steps of a worker between two queries, and of resolving one, except for
\* taking and freeing it.
LEMMA WorkerMovesKeep ==
  ASSUME ResolverInv, NEW w \in Workers,
         TestRunning(w) \/ FallAsleep(w) \/ WakeUnasked(w) \/ LeaveLoop(w) \/ Resolved(w) \/ Post(w)
  PROVE  ResolverInv'
<1>1. PICK to \in {"test", "take", "asleep", "resolve", "post", "call", "ended"} :
        step' = [step EXCEPT ![w] = to] /\ (step[w] \in Busy <=> to \in Busy)
  BY DEF TestRunning, FallAsleep, WakeUnasked, LeaveLoop, Resolved, Post, Turns, Busy
<1>2. UNCHANGED <<reactor, resolving, pending, query, state, answers, stop>>
  BY DEF TestRunning, FallAsleep, WakeUnasked, LeaveLoop, Resolved, Post
<1>3. Held' /\ InList' /\ step' \in [Workers -> {"test", "take", "asleep", "resolve", "post", "call", "ended"}]
  BY <1>1, <1>2, MovesKeep
<1>4. stored' \in SUBSET Hosts
  <2>1. CASE Resolved(w)
    <3>1. query[w] \in Queries
      BY <2>1 DEF Resolved, Turns, ResolverInv, Held, Busy
    <3> QED
      BY <2>1, <3>1 DEF Resolved, Hosts, ResolverInv, ResolverTypeOK
  <2>2. CASE ~Resolved(w)
    BY <2>2 DEF TestRunning, FallAsleep, WakeUnasked, LeaveLoop, Post, ResolverInv, ResolverTypeOK
  <2> QED
    BY <2>1, <2>2
<1>5. completed' \in Seq(Queries)
  <2>1. CASE Post(w)
    <3>1. query[w] \in Queries /\ completed \in Seq(Queries)
      BY <2>1 DEF Post, Turns, ResolverInv, ResolverTypeOK, Held, Busy
    <3>2. Append(completed, query[w]) \in Seq(Queries)
      BY <3>1
    <3> QED
      BY <2>1, <3>1, <3>2 DEF Post
  <2>2. CASE ~Post(w)
    BY <2>2 DEF TestRunning, FallAsleep, WakeUnasked, LeaveLoop, Resolved, ResolverInv, ResolverTypeOK
  <2> QED
    BY <2>1, <2>2
<1>6. ResolverTypeOK' /\ CalledOnce'
  BY <1>2, <1>3, <1>4, <1>5 DEF ResolverInv, ResolverTypeOK, CalledOnce
<1> QED
  BY <1>3, <1>6 DEF ResolverInv

LEMMA TakeKeeps ==
  ASSUME ResolverInv, NEW w \in Workers, Take(w)
  PROVE  ResolverInv'
<1> DEFINE q == Head(pending)
<1>1. pending \in Seq(Queries) /\ pending # <<>> /\ pending' = Tail(pending)
  BY DEF ResolverInv, ResolverTypeOK, Take
<1>2. /\ pending' \in Seq(Queries)
      /\ Len(pending) \in Nat \ {0} /\ Len(pending') = Len(pending) - 1
      /\ q = pending[1] /\ q \in Queries
      /\ \A i \in 1..Len(pending) - 1 : pending'[i] = pending[i + 1]
  BY <1>1, Beheaded
<1>3. /\ query' = [query EXCEPT ![w] = q]
      /\ state' = [state EXCEPT ![q] = "taken"]
      /\ step' = [step EXCEPT ![w] = "resolve"] /\ step[w] = "take"
  BY DEF Take, Turns
<1> HIDE DEF q
<1>4. state[q] = "queued" /\ query[w] \notin Queries
  BY <1>2, <1>3 DEF ResolverInv, InList, Held, Busy
<1>5. ResolverTypeOK'
  BY <1>2, <1>3 DEF ResolverInv, ResolverTypeOK, Take
<1>6. Held'
  <2>1. /\ step \in [Workers -> {"test", "take", "asleep", "resolve", "post", "call", "ended"}]
        /\ query \in [Workers -> Queries \union {NoQuery}]
        /\ state \in [Queries -> {"new", "queued", "taken", "freed", "hit"}]
    BY DEF ResolverInv, ResolverTypeOK
  <2>2. \A v \in Workers : query[v] # q
    BY <1>2, <1>4 DEF ResolverInv, Held
  <2>3. \A v \in Workers : query'[v] \in Queries <=> step'[v] \in Busy
    BY <1>2, <1>3, <2>1 DEF ResolverInv, Held, Busy
  <2>4. \A v \in Workers : query'[v] \in Queries => state'[query'[v]] = "taken"
    BY <1>2, <1>3, <2>1, <2>2 DEF ResolverInv, Held
  <2>5. \A u, v \in Workers : query'[u] = query'[v] /\ query'[u] \in Queries => u = v
    BY <1>2, <1>3, <2>1, <2>2 DEF ResolverInv, Held
  <2>6. ASSUME NEW p \in Queries, state'[p] = "taken" PROVE \E v \in Workers : query'[v] = p
    <3>1. CASE p = q
      BY <1>3, <2>1, <3>1
    <3>2. CASE p # q
      <4>1. PICK v \in Workers : query[v] = p
        BY <1>2, <1>3, <2>1, <2>6, <3>2 DEF ResolverInv, Held
      <4>2. v # w
        BY <1>4, <4>1
      <4> QED
        BY <1>3, <2>1, <4>1, <4>2
    <3> QED
      BY <3>1, <3>2
  <2> QED
    BY <2>3, <2>4, <2>5, <2>6 DEF Held
<1>7. InList'
  <2>1. state \in [Queries -> {"new", "queued", "taken", "freed", "hit"}]
    BY DEF ResolverInv, ResolverTypeOK
  <2>2. \A i \in 1..Len(pending') : i + 1 \in 1..Len(pending) /\ pending'[i] = pending[i + 1]
    BY <1>2
  <2>3. \A i \in 1..Len(pending') : pending'[i] # q /\ pending'[i] \in Queries
    BY <1>1, <1>2, <2>2 DEF ResolverInv, InList
  <2>4. \A i \in 1..Len(pending') : state'[pending'[i]] = "queued"
    BY <1>2, <1>3, <2>1, <2>2, <2>3 DEF ResolverInv, InList
  <2>5. \A i, j \in 1..Len(pending') : pending'[i] = pending'[j] => i = j
    <3> SUFFICES ASSUME NEW i \in 1..Len(pending'), NEW j \in 1..Len(pending'), pending'[i] = pending'[j]
                 PROVE  i = j
      OBVIOUS
    <3>1. i + 1 \in 1..Len(pending) /\ j + 1 \in 1..Len(pending) /\ pending[i + 1] = pending[j + 1]
      BY <2>2
    <3>2. i + 1 = j + 1
      BY <3>1 DEF ResolverInv, InList
    <3> QED
      BY <1>2, <3>2
  <2>6. ASSUME NEW p \in Queries, state'[p] = "queued" PROVE \E i \in 1..Len(pending') : pending'[i] = p
    <3>1. p # q /\ state[p] = "queued"
      BY <1>2, <1>3, <2>1, <2>6
    <3>2. PICK i \in 1..Len(pending) : pending[i] = p
      BY <3>1 DEF ResolverInv, InList
    <3>3. i # 1 /\ i - 1 \in 1..Len(pending')
      BY <1>2, <3>1, <3>2
    <3>4. pending'[i - 1] = pending[i]
      BY <1>2, <2>2, <3>3
    <3> QED
      BY <3>2, <3>3, <3>4
  <2> QED
    BY <2>4, <2>5, <2>6 DEF InList
<1>8. CalledOnce'
  BY <1>2, <1>3, <1>4 DEF ResolverInv, ResolverTypeOK, CalledOnce, Take
<1> QED
  BY <1>5, <1>6, <1>7, <1>8 DEF ResolverInv

LEMMA CallBackKeeps ==
  ASSUME ResolverInv, NEW w \in Workers, CallBack(w)
  PROVE  ResolverInv'
<1> DEFINE q == query[w]
<1>1. /\ step[w] = "call" /\ step' = [step EXCEPT ![w] = "test"]
      /\ state' = [state EXCEPT ![q] = "freed"]
      /\ query' = [query EXCEPT ![w] = NoQuery]
      /\ answers' = answers \/ answers' = [answers EXCEPT ![q] = @ + 1]
      /\ pending' = pending
  BY DEF CallBack, Turns, Answer
<1>2. q \in Queries /\ state[q] = "taken"
  BY <1>1 DEF ResolverInv, Held, Busy
<1>3. NoQuery \notin Queries
  BY QueriesAssumption
<1> HIDE DEF q
<1>4. /\ step \in [Workers -> {"test", "take", "asleep", "resolve", "post", "call", "ended"}]
      /\ query \in [Workers -> Queries \union {NoQuery}]
      /\ state \in [Queries -> {"new", "queued", "taken", "freed", "hit"}]
      /\ answers \in [Queries -> Nat]
  BY DEF ResolverInv, ResolverTypeOK
<1>5. ResolverTypeOK'
  BY <1>1, <1>2, <1>4 DEF ResolverInv, ResolverTypeOK, CallBack
<1>6. \A v \in Workers : query[v] = q <=> v = w
  BY <1>2 DEF q, ResolverInv, Held
<1>7. Held'
  BY <1>1, <1>2, <1>3, <1>4, <1>6 DEF ResolverInv, Held, Busy
<1>8. InList'
  BY <1>1, <1>2, <1>4 DEF ResolverInv, ResolverTypeOK, InList
<1>9. CalledOnce'
  BY <1>1, <1>2, <1>4 DEF ResolverInv, CalledOnce
<1> QED
  BY <1>5, <1>7, <1>8, <1>9 DEF ResolverInv

LEMMA ProcessKeeps ==
  ASSUME ResolverInv, Process
  PROVE  ResolverInv'
  BY DEF ResolverInv, ResolverTypeOK, Held, InList, CalledOnce, Process

LEMMA DestroyKeeps ==
  ASSUME ResolverInv, Destroy
  PROVE  ResolverInv'
<1>1. \A w \in Workers : step'[w] \in Busy <=> step[w] \in Busy
  BY DEF Destroy, Asleep, Busy
<1>2. ResolverTypeOK'
  BY DEF ResolverInv, ResolverTypeOK, Destroy
<1> QED
  BY <1>1, <1>2 DEF ResolverInv, Held, InList, CalledOnce, Destroy

\* When every worker has ended, nobody has a query, and what is freed is what
\* the list has.
LEMMA FreeAllKeeps ==
  ASSUME ResolverInv, FreeAll
  PROVE  ResolverInv'
<1>1. \A w \in Workers : query[w] \notin Queries
  BY DEF ResolverInv, Held, Busy, FreeAll
<1>2. /\ state \in [Queries -> {"new", "queued", "taken", "freed", "hit"}]
      /\ pending \in Seq(Queries)
  BY DEF ResolverInv, ResolverTypeOK
<1>3. /\ state' \in [Queries -> {"new", "queued", "taken", "freed", "hit"}]
      /\ \A q \in Queries : state'[q] \in {state[q], "freed"}
      /\ \A q \in Queries : state'[q] # "queued" /\ state'[q] # "taken"
  <2>1. DOMAIN pending = 1..Len(pending)
    BY <1>2
  <2>2. \A q \in Queries : state[q] # "taken"
    BY <1>1 DEF ResolverInv, Held
  <2> QED
    BY <1>2, <2>1, <2>2 DEF FreeAll, ResolverInv, InList
<1>4. pending' = <<>> /\ completed' = <<>> /\ UNCHANGED <<reactor, resolving, step, query, stored, answers>> /\ stop' = "destroyed"
  BY DEF FreeAll
<1>5. ResolverTypeOK'
  BY <1>3, <1>4 DEF ResolverInv, ResolverTypeOK
<1>6. Held'
  BY <1>1, <1>3, <1>4 DEF ResolverInv, Held
<1>7. InList'
  BY <1>3, <1>4 DEF InList
<1>8. CalledOnce'
  BY <1>3, <1>4 DEF ResolverInv, CalledOnce
<1> QED
  BY <1>5, <1>6, <1>7, <1>8 DEF ResolverInv

LEMMA ResolverInvariant == ResolverSpec => []ResolverInv
<1>1. ResolverInv /\ [ResolverNext]_resolverVars => ResolverInv'
  <2> SUFFICES ASSUME ResolverInv, [ResolverNext]_resolverVars PROVE ResolverInv'
    OBVIOUS
  <2>1. CASE \E q \in Queries : Hit(q) \/ Enqueue(q)
    BY <2>1, HitKeeps, EnqueueKeeps
  <2>2. CASE \E w \in Workers : WorkerStep(w) \/ WakeUnasked(w)
    BY <2>2, WorkerMovesKeep, TakeKeeps, CallBackKeeps DEF WorkerStep
  <2>3. CASE Process \/ Destroy \/ FreeAll
    BY <2>3, ProcessKeeps, DestroyKeeps, FreeAllKeeps
  <2>4. CASE UNCHANGED resolverVars
    BY <2>4 DEF resolverVars, ResolverInv, ResolverTypeOK, Held, InList, CalledOnce
  <2> QED
    BY <2>1, <2>2, <2>3, <2>4 DEF ResolverNext
<1> QED
  BY <1>1, InitHolds, PTL DEF ResolverSpec

-----------------------------------------------------------------------------
\* No callback is called twice, and none for a query that waits or is being
\* resolved: bf_dns_resolve, the workers and bf_dns_process together.
THEOREM CallbacksAreCalledOnce == ResolverSpec => []CalledOnce
<1>1. ResolverInv => CalledOnce
  BY DEF ResolverInv
<1> QED
  BY <1>1, ResolverInvariant, PTL

\* A query is in the list once or with one worker, until it is freed.
THEOREM QueriesHaveOneHolder == ResolverSpec => []OneHolder
<1>1. ASSUME ResolverInv PROVE OneHolder
  <2> SUFFICES ASSUME NEW q \in Queries
               PROVE  Cardinality(Holding(q)) + Cardinality(Listed(q)) = IF state[q] \in {"queued", "taken"} THEN 1 ELSE 0
    BY DEF OneHolder
  <2>1. DOMAIN pending = 1..Len(pending)
    BY <1>1 DEF ResolverInv, ResolverTypeOK
  <2>2. (Holding(q) # {} => state[q] = "taken") /\ (Listed(q) # {} => state[q] = "queued")
    BY <1>1, <2>1 DEF ResolverInv, Held, InList, Holding, Listed
  <2>3. Cardinality({}) = 0
    BY FS_EmptySet
  <2>4. CASE state[q] = "taken"
    <3>1. PICK w \in Workers : query[w] = q
      BY <1>1, <2>4 DEF ResolverInv, Held
    <3>2. Holding(q) = {w} /\ Listed(q) = {}
      BY <1>1, <2>2, <2>4, <3>1 DEF ResolverInv, Held, Holding
    <3>3. Cardinality({w}) = 1
      BY FS_Singleton
    <3> QED
      BY <2>3, <2>4, <3>2, <3>3
  <2>5. CASE state[q] = "queued"
    <3>1. PICK i \in 1..Len(pending) : pending[i] = q
      BY <1>1, <2>5 DEF ResolverInv, InList
    <3>2. Listed(q) = {i} /\ Holding(q) = {}
      BY <1>1, <2>1, <2>2, <2>5, <3>1 DEF ResolverInv, InList, Listed
    <3>3. Cardinality({i}) = 1
      BY FS_Singleton
    <3> QED
      BY <2>3, <2>5, <3>2, <3>3
  <2>6. CASE state[q] \notin {"queued", "taken"}
    BY <2>2, <2>3, <2>6
  <2> QED
    BY <2>4, <2>5, <2>6
<1> QED
  BY <1>1, ResolverInvariant, PTL

-----------------------------------------------------------------------------
(* NobodySleepsOver, for any finite number of workers.                        *)

\* A worker that comes to the list, or leaves it, is one more or one less.
LEMMA ComesToList ==
  ASSUME ResolverTypeOK, NEW w \in Workers, step[w] # "take", step' = [step EXCEPT ![w] = "take"]
  PROVE  /\ Cardinality(AtList') = Cardinality(AtList) + 1
         /\ Asleep' = Asleep \ {w}
<1>1. AtList' = AtList \union {w} /\ w \notin AtList
  BY DEF ResolverTypeOK, AtList
<1>2. IsFiniteSet(AtList)
  BY WorkersAssumption, FS_Subset DEF AtList
<1>3. Cardinality(AtList \union {w}) = Cardinality(AtList) + 1
  BY <1>1, <1>2, FS_AddElement
<1> QED
  BY <1>1, <1>3 DEF ResolverTypeOK, Asleep

LEMMA LeavesList ==
  ASSUME ResolverTypeOK, NEW w \in Workers, NEW to, step[w] = "take", to # "take", step' = [step EXCEPT ![w] = to]
  PROVE  Cardinality(AtList') = Cardinality(AtList) - 1
<1>1. AtList' = AtList \ {w} /\ w \in AtList
  BY DEF ResolverTypeOK, AtList
<1>2. IsFiniteSet(AtList)
  BY WorkersAssumption, FS_Subset DEF AtList
<1>3. Cardinality(AtList \ {w}) = Cardinality(AtList) - 1
  BY <1>1, <1>2, FS_RemoveElement
<1> QED
  BY <1>1, <1>3

LEMMA AtListCounted == Cardinality(AtList) \in Nat /\ Cardinality(AtList)' \in Nat
<1>1. IsFiniteSet(AtList) /\ IsFiniteSet(AtList')
  BY WorkersAssumption, FS_Subset DEF AtList
<1> QED
  BY <1>1, FS_CardinalityType

\* A step that changes neither the list nor the flag, and by which no worker
\* comes to the list, leaves it, or falls asleep.
LEMMA SleepersKeep ==
  ASSUME NobodySleepsOver, UNCHANGED <<resolving, pending>>, AtList' = AtList, Asleep' \subseteq Asleep
  PROVE  NobodySleepsOver'
BY DEF NobodySleepsOver

LEMMA EnqueueWakes ==
  ASSUME ResolverInv, NobodySleepsOver, NEW q \in Queries, Enqueue(q)
  PROVE  NobodySleepsOver'
<1>1. ResolverTypeOK /\ Signals /\ resolving' = resolving
  BY DEF ResolverInv, Enqueue
<1>2. Len(pending') = Len(pending) + 1 /\ Len(pending) \in Nat
  BY Consed DEF ResolverInv, ResolverTypeOK, Enqueue
<1>3. CASE Asleep = {}
  <2>1. step' = step
    BY <1>1, <1>3 DEF Signals
  <2> QED
    BY <1>3, <2>1 DEF NobodySleepsOver, Asleep
<1>4. CASE Asleep # {}
  <2>1. PICK w \in Asleep : step' = [step EXCEPT ![w] = "take"]
    BY <1>1, <1>4 DEF Signals
  <2>2. w \in Workers /\ step[w] # "take"
    BY DEF Asleep
  <2>3. Cardinality(AtList') = Cardinality(AtList) + 1
    BY <1>1, <2>1, <2>2, ComesToList
  <2>4. resolving /\ Len(pending) <= Cardinality(AtList)
    BY <1>4 DEF NobodySleepsOver
  <2> QED
    BY <1>1, <1>2, <2>3, <2>4, AtListCounted DEF NobodySleepsOver
<1> QED
  BY <1>3, <1>4

LEMMA WorkerSleepsOverNone ==
  ASSUME ResolverInv, NobodySleepsOver, NEW w \in Workers, WorkerStep(w) \/ WakeUnasked(w)
  PROVE  NobodySleepsOver'
<1>1. ResolverTypeOK /\ resolving' = resolving
  BY DEF ResolverInv, WorkerStep, WakeUnasked, TestRunning, FallAsleep, LeaveLoop, Take, Resolved, Post, CallBack
<1>2. CASE TestRunning(w) \/ WakeUnasked(w)
  <2>1. pending' = pending /\ step[w] \in {"test", "asleep"}
    BY <1>2 DEF TestRunning, WakeUnasked, Turns
  <2>2. CASE step' = [step EXCEPT ![w] = "take"]
    <3>1. Cardinality(AtList') = Cardinality(AtList) + 1 /\ Asleep' \subseteq Asleep
      BY <1>1, <2>1, <2>2, ComesToList
    <3>2. Len(pending) \in Nat
      BY <1>1 DEF ResolverTypeOK
    <3> QED
      BY <1>1, <2>1, <3>1, <3>2, AtListCounted DEF NobodySleepsOver
  <2>3. CASE step' # [step EXCEPT ![w] = "take"]
    <3>1. step[w] = "test" /\ step' = [step EXCEPT ![w] = "ended"]
      BY <1>2, <2>3 DEF TestRunning, WakeUnasked, Turns
    <3>2. AtList' = AtList /\ Asleep' = Asleep
      BY <1>1, <3>1 DEF ResolverTypeOK, AtList, Asleep
    <3> QED
      BY <1>1, <2>1, <3>2, SleepersKeep
  <2> QED
    BY <2>2, <2>3
<1>3. CASE FallAsleep(w)
  <2>1. resolving /\ resolving' /\ Len(pending') = 0
    BY <1>1, <1>3 DEF FallAsleep
  <2> QED
    BY <2>1, AtListCounted DEF NobodySleepsOver
<1>4. CASE LeaveLoop(w)
  <2>1. ~resolving /\ step[w] = "take" /\ step' = [step EXCEPT ![w] = "ended"]
    BY <1>4 DEF LeaveLoop, Turns
  <2>2. Asleep = {} /\ Asleep' = {}
    BY <1>1, <2>1 DEF NobodySleepsOver, Asleep, ResolverTypeOK
  <2> QED
    BY <2>2 DEF NobodySleepsOver
<1>5. CASE Take(w)
  <2>1. step[w] = "take" /\ step' = [step EXCEPT ![w] = "resolve"]
    BY <1>5 DEF Take, Turns
  <2>2. Len(pending) \in Nat \ {0} /\ Len(pending') = Len(pending) - 1
    BY <1>1, <1>5, Beheaded DEF ResolverTypeOK, Take
  <2>3. Cardinality(AtList') = Cardinality(AtList) - 1
    BY <1>1, <2>1, LeavesList
  <2>4. Asleep' = Asleep
    BY <1>1, <2>1 DEF ResolverTypeOK, Asleep
  <2> QED
    BY <1>1, <2>2, <2>3, <2>4, AtListCounted DEF NobodySleepsOver
<1>6. CASE Resolved(w) \/ Post(w) \/ CallBack(w)
  <2>1. /\ pending' = pending /\ step[w] \in {"resolve", "post", "call"}
        /\ \E to \in {"post", "call", "test"} : step' = [step EXCEPT ![w] = to]
    BY <1>6 DEF Resolved, Post, CallBack, Turns
  <2>2. AtList' = AtList /\ Asleep' = Asleep
    BY <1>1, <2>1 DEF ResolverTypeOK, AtList, Asleep
  <2> QED
    BY <1>1, <2>1, <2>2, SleepersKeep
<1> QED
  BY <1>2, <1>3, <1>4, <1>5, <1>6 DEF WorkerStep

\* While a worker is asleep the others at the list can take every query that is
\* in it, and nobody sleeps once bf_dns_destroy has begun.
THEOREM QueriesAreNotSleptOver == ResolverSpec => []NobodySleepsOver
<1>1. ResolverInit => NobodySleepsOver
  BY DEF ResolverInit, NobodySleepsOver, Asleep
<1>2. ResolverInv /\ NobodySleepsOver /\ [ResolverNext]_resolverVars => NobodySleepsOver'
  <2> SUFFICES ASSUME ResolverInv, NobodySleepsOver, [ResolverNext]_resolverVars PROVE NobodySleepsOver'
    OBVIOUS
  <2>1. ASSUME NEW q \in Queries, Hit(q) PROVE NobodySleepsOver'
    BY <2>1, SleepersKeep DEF Hit, AtList, Asleep
  <2>2. ASSUME NEW q \in Queries, Enqueue(q) PROVE NobodySleepsOver'
    BY <2>2, EnqueueWakes
  <2>3. ASSUME NEW w \in Workers, WorkerStep(w) \/ WakeUnasked(w) PROVE NobodySleepsOver'
    BY <2>3, WorkerSleepsOverNone
  <2>4. CASE Process \/ UNCHANGED resolverVars
    BY <2>4, SleepersKeep DEF Process, resolverVars, AtList, Asleep
  <2>5. CASE Destroy
    BY <2>5 DEF Destroy, NobodySleepsOver, Asleep
  <2>6. CASE FreeAll
    BY <2>6 DEF FreeAll, NobodySleepsOver, Asleep
  <2> QED
    BY <2>1, <2>2, <2>3, <2>4, <2>5, <2>6 DEF ResolverNext
<1> QED
  BY <1>1, <1>2, ResolverInvariant, PTL DEF ResolverSpec

-----------------------------------------------------------------------------
(* EntriesMatch: the array of connections, for any number of them.            *)

\* The entries stand for different open descriptors, every open descriptor has
\* one, and the descriptors stand for the clients that are connected.
Entries ==
  /\ \A i, j \in 1..Len(conns) : conns[i].fd = conns[j].fd => i = j
  /\ \A j \in 1..Len(conns) : descs[conns[j].fd] \in Clients
  /\ \A n \in Descs : descs[n] # NoClient => \E j \in 1..Len(conns) : conns[j].fd = n
  /\ \A m, n \in Descs : descs[m] = descs[n] /\ descs[m] # NoClient => m = n
  /\ \A c \in Clients : place[c] = "conn" <=> \E n \in Descs : descs[n] = c

\* The walks over the array stay inside of it.
WalkInside == turn \in {"push", "clean"} => index \in 1..Len(conns)

ReactorInv ==
  /\ ReactorTypeOK
  /\ said \in [Clients -> Nat] /\ inbox \in [Clients -> Nat]
  /\ Entries
  /\ WalkInside

\* A set of numbers has a least one, and a greatest one if it has a bound.
LEMMA LeastIsIn ==
  ASSUME NEW S \in SUBSET Nat, S # {}
  PROVE  Least(S) \in S
<1> DEFINE T == {0..i : i \in S}
<1>1. T \subseteq FiniteSubsetsOf(Nat) /\ T # {}
  <2>1. ASSUME NEW i \in S
        PROVE  0..i \in SUBSET Nat /\ IsFiniteSet(0..i)
    <3>1. i \in Nat
      OBVIOUS
    <3>2. IsFiniteSet(0..i)
      BY <3>1, FS_Interval
    <3> QED
      BY <3>1, <3>2
  <2> QED
    BY <2>1, Zenon DEF FiniteSubsetsOf
<1>2. PICK x \in T : \A y \in T : ~ (<<y, x>> \in StrictSubsetOrdering(Nat))
  <2>1. IsWellFoundedOn(StrictSubsetOrdering(Nat), FiniteSubsetsOf(Nat))
    BY FS_StrictSubsetOrderingWellFounded
  <2> HIDE DEF T
  <2> QED
    BY <1>1, <2>1, WFMin
<1>3. PICK i \in S : x = 0..i
  OBVIOUS
<1>4. ASSUME NEW j \in S, ~ (i <= j)
      PROVE  FALSE
  <2>1. 0..j \in SUBSET Nat /\ 0..i \in SUBSET Nat /\ 0..j \subseteq 0..i /\ 0..j # 0..i
    BY <1>4
  <2>2. <<0..j, 0..i>> \in StrictSubsetOrdering(Nat)
    BY <2>1 DEF StrictSubsetOrdering
  <2> QED
    BY <1>2, <1>3, <2>2
<1>5. \E k \in S : \A j \in S : k <= j
  BY <1>4
<1> QED
  BY <1>5 DEF Least

LEMMA GreatestIsIn ==
  ASSUME NEW k \in Nat, NEW S \in SUBSET (1..k), S # {}
  PROVE  Greatest(S) \in S
<1> DEFINE T == {i..k : i \in S}
<1>1. T \subseteq FiniteSubsetsOf(Nat) /\ T # {}
  <2>1. ASSUME NEW i \in S
        PROVE  i..k \in SUBSET Nat /\ IsFiniteSet(i..k)
    <3>1. i \in Int /\ k \in Int /\ i >= 1
      OBVIOUS
    <3>2. IsFiniteSet(i..k)
      BY <3>1, FS_Interval
    <3> QED
      BY <3>1, <3>2
  <2> QED
    BY <2>1, Zenon DEF FiniteSubsetsOf
<1>2. PICK x \in T : \A y \in T : ~ (<<y, x>> \in StrictSubsetOrdering(Nat))
  <2>1. IsWellFoundedOn(StrictSubsetOrdering(Nat), FiniteSubsetsOf(Nat))
    BY FS_StrictSubsetOrderingWellFounded
  <2> HIDE DEF T
  <2> QED
    BY <1>1, <2>1, WFMin
<1>3. PICK i \in S : x = i..k
  OBVIOUS
<1>4. ASSUME NEW j \in S, ~ (i >= j)
      PROVE  FALSE
  <2>1. j..k \in SUBSET Nat /\ i..k \in SUBSET Nat /\ j..k \subseteq i..k /\ j..k # i..k
    BY <1>4
  <2>2. <<j..k, i..k>> \in StrictSubsetOrdering(Nat)
    BY <2>1 DEF StrictSubsetOrdering
  <2> QED
    BY <1>2, <1>3, <2>2
<1>5. \E m \in S : \A j \in S : m >= j
  BY <1>4
<1> QED
  BY <1>5 DEF Greatest

-----------------------------------------------------------------------------
\* Where the loop goes from a walk, or from the events.
LEMMA CleanGoes ==
  ASSUME NEW cs, NEW i \in Nat, CleanFrom(cs, i)
  PROVE  \/ turn' = "wait" /\ index' = 0
         \/ turn' = "clean" /\ index' \in 1..i
<1> DEFINE closing == {j \in 1..i : cs[j].mode = "closing"}
<1>1. closing # {} => Greatest(closing) \in closing
  <2>1. closing \in SUBSET (1..i)
    OBVIOUS
  <2> HIDE DEF closing
  <2> QED
    BY <2>1, GreatestIsIn
<1>2. Greatest(closing) \in closing => Greatest(closing) \in 1..i
  OBVIOUS
<1>3. IF closing = {} THEN turn' = "wait" /\ index' = 0 ELSE turn' = "clean" /\ index' = Greatest(closing)
  BY DEF CleanFrom
<1> HIDE DEF closing
<1> QED
  BY <1>1, <1>2, <1>3

LEMMA PushGoes ==
  ASSUME NEW cs, Len(cs) \in Nat, NEW i \in Nat \ {0}, PushFrom(cs, i)
  PROVE  \/ turn' = "wait" /\ index' = 0
         \/ turn' \in {"push", "clean"} /\ index' \in 1..Len(cs)
<1> DEFINE streams == {j \in i..Len(cs) : cs[j].mode = "sse"}
<1>1. streams # {} => Least(streams) \in streams
  <2>1. streams \in SUBSET Nat
    OBVIOUS
  <2> HIDE DEF streams
  <2> QED
    BY <2>1, LeastIsIn
<1>2. Least(streams) \in streams => Least(streams) \in 1..Len(cs)
  OBVIOUS
<1>3. IF streams = {} THEN CleanFrom(cs, Len(cs)) ELSE turn' = "push" /\ index' = Least(streams)
  BY DEF PushFrom
<1> HIDE DEF streams
<1>4. CASE streams = {}
  BY <1>3, <1>4, CleanGoes
<1>5. CASE streams # {}
  BY <1>1, <1>2, <1>3, <1>5
<1> QED
  BY <1>4, <1>5

LEMMA LoopGoes ==
  ASSUME NEW cs, Len(cs) \in 0..MaxConns, Proceeds(cs)
  PROVE  /\ turn' \in {"wait", "handle", "push", "clean"}
         /\ index' \in 0..MaxConns
         /\ turn' \in {"push", "clean"} => index' \in 1..Len(cs)
<1>1. CASE events' = {}
  <2>1. PushFrom(cs, 1) /\ Len(cs) \in Nat
    BY <1>1, SizesAssumption DEF Proceeds
  <2>2. \/ turn' = "wait" /\ index' = 0
        \/ turn' \in {"push", "clean"} /\ index' \in 1..Len(cs)
    BY <2>1, PushGoes
  <2> QED
    BY <2>2, SizesAssumption
<1>2. CASE events' # {}
  BY <1>2, SizesAssumption DEF Proceeds
<1> QED
  BY <1>1, <1>2

-----------------------------------------------------------------------------
(* Single entries of the array.                                               *)

\* One entry is changed and keeps its descriptor.
LEMMA EntryChanged ==
  ASSUME NEW cs \in Seq(Conn), NEW j \in 1..Len(cs), NEW r \in Conn, r.fd = cs[j].fd
  PROVE  /\ [cs EXCEPT ![j] = r] \in Seq(Conn)
         /\ Len([cs EXCEPT ![j] = r]) = Len(cs)
         /\ \A i \in 1..Len(cs) : [cs EXCEPT ![j] = r][i].fd = cs[i].fd
OBVIOUS

\* An entry is removed: the last one is in its place.
LEMMA EntryRemoved ==
  ASSUME conns \in Seq(Conn), NEW j \in 1..Len(conns)
  PROVE  /\ Removed(j) \in Seq(Conn)
         /\ Len(Removed(j)) = Len(conns) - 1
         /\ \A i \in 1..Len(conns) - 1 : Removed(j)[i] = IF i = j THEN conns[Len(conns)] ELSE conns[i]
<1> DEFINE cs == [conns EXCEPT ![j] = conns[Len(conns)]]
<1>1. cs \in Seq(Conn) /\ Len(cs) = Len(conns) /\ \A i \in 1..Len(conns) : cs[i] = IF i = j THEN conns[Len(conns)] ELSE conns[i]
  OBVIOUS
<1>2. Removed(j) = SubSeq(cs, 1, Len(conns) - 1)
  BY DEF Removed
<1> HIDE DEF cs
<1> QED
  BY <1>1, <1>2

\* The entries still match if they keep their descriptors.
LEMMA EntriesKept ==
  ASSUME Entries, Len(conns') = Len(conns), \A i \in 1..Len(conns) : conns'[i].fd = conns[i].fd,
         conns' \in Seq(Conn), descs' = descs,
         \A c \in Clients : place'[c] = "conn" <=> place[c] = "conn"
  PROVE  Entries'
BY DEF Entries, Descs

\* What a step leaves alone that is no step of the loop.
LEMMA OthersKeep ==
  ASSUME ReactorInv, UNCHANGED <<turn, index, conns, descs>>,
         \A c \in Clients : place'[c] = "conn" <=> place[c] = "conn"
  PROVE  Entries' /\ WalkInside'
<1>1. conns' \in Seq(Conn) /\ Len(conns') = Len(conns) /\ \A i \in 1..Len(conns) : conns'[i].fd = conns[i].fd
  BY DEF ReactorInv, ReactorTypeOK
<1>2. Entries'
  BY <1>1, EntriesKept DEF ReactorInv
<1> QED
  BY <1>2 DEF ReactorInv, WalkInside

LEMMA ReactorInitInv == ReactorInit => ReactorInv
<1> SUFFICES ASSUME ReactorInit PROVE ReactorInv
  OBVIOUS
<1>1. ReactorTypeOK
  BY SizesAssumption DEF ReactorInit, ReactorTypeOK
<1> QED
  BY <1>1, ClientsAssumption DEF ReactorInit, ReactorInv, Entries, WalkInside

LEMMA DialKeeps ==
  ASSUME ReactorInv, NEW c \in Clients, Dial(c)
  PROVE  ReactorInv'
<1>1. ReactorTypeOK' /\ said' = said /\ inbox' = inbox
  BY DEF ReactorInv, ReactorTypeOK, Dial, loopState, kernelState
<1>2. Entries' /\ WalkInside'
  BY OthersKeep DEF Dial, loopState, kernelState, ReactorInv, ReactorTypeOK
<1> QED
  BY <1>1, <1>2 DEF ReactorInv

LEMMA SayKeeps ==
  ASSUME ReactorInv, NEW c \in Clients, Say(c)
  PROVE  ReactorInv'
<1>1. armed' \in SUBSET Descs
  BY DEF Say, Wakes, DescsOf, ReactorInv, ReactorTypeOK
<1>2. said' \in [Clients -> Nat] /\ inbox' \in [Clients -> Nat]
  BY DEF Say, ReactorInv
<1>3. ASSUME NEW d \in Clients
      PROVE  said'[d] \in 0..MaxSay[d] /\ inbox'[d] \in 0..said'[d]
  <2>1. said[d] \in Nat /\ inbox[d] \in Nat /\ MaxSay[d] \in Nat /\ said[d] <= MaxSay[d] /\ inbox[d] <= said[d]
    BY SizesAssumption DEF ReactorInv, ReactorTypeOK
  <2>2. CASE d = c
    <3>1. said'[d] = said[d] + 1 /\ inbox'[d] = inbox[d] + 1 /\ said[d] < MaxSay[d]
      BY <2>2 DEF Say, ReactorInv
    <3> QED
      BY <2>1, <3>1
  <2>3. CASE d # c
    <3>1. said'[d] = said[d] /\ inbox'[d] = inbox[d]
      BY <2>3 DEF Say, ReactorInv
    <3> QED
      BY <2>1, <3>1
  <2> QED
    BY <2>2, <2>3
<1>4. ReactorTypeOK'
  BY <1>1, <1>3 DEF ReactorInv, ReactorTypeOK, Say, Unmoved, loopState
<1>5. Entries' /\ WalkInside'
  BY OthersKeep DEF Say, Unmoved, loopState
<1> QED
  BY <1>2, <1>4, <1>5 DEF ReactorInv

LEMMA ClientKeeps ==
  ASSUME ReactorInv, NEW c \in Clients, Listen(c) \/ Leave(c) \/ ResetArrives(c)
  PROVE  ReactorInv'
<1>1. armed' \in SUBSET Descs /\ room' \in [Clients -> 0..Window]
  BY SizesAssumption DEF Listen, Leave, ResetArrives, Wakes, DescsOf, ReactorInv, ReactorTypeOK
<1>2. link' \in [Clients -> {"open", "fin", "doomed", "pipe", "rst"}]
  BY DEF Listen, Leave, ResetArrives, ReactorInv, ReactorTypeOK
<1>3. UNCHANGED <<place, inbox, said>> /\ Unmoved
  BY DEF Listen, Leave, ResetArrives
<1>4. ReactorTypeOK'
  BY <1>1, <1>2, <1>3 DEF ReactorInv, ReactorTypeOK, Unmoved, loopState
<1>5. Entries' /\ WalkInside'
  BY <1>3, OthersKeep DEF Unmoved, loopState
<1> QED
  BY <1>3, <1>4, <1>5 DEF ReactorInv

-----------------------------------------------------------------------------
\* The changes that handling one connection makes to what is not its entry.
LEMMA SentKeeps ==
  ASSUME ReactorInv, NEW c \in Clients, NEW n \in Nat, n <= room[c], Sent(c, n)
  PROVE  /\ room' \in [Clients -> 0..Window]
         /\ link' \in [Clients -> {"open", "fin", "doomed", "pipe", "rst"}]
<1>1. room[c] - n \in 0..Window
  BY SizesAssumption DEF ReactorInv, ReactorTypeOK
<1> QED
  BY <1>1 DEF Sent, ReactorInv, ReactorTypeOK

\* What is true of one entry while it is handled.
LEMMA AtEntry ==
  ASSUME ReactorInv, NEW j \in 1..Len(conns)
  PROVE  /\ conns \in Seq(Conn) /\ conns[j] \in Conn /\ conns[j].fd \in Descs
         /\ conns[j].got \in 0..BufSize /\ conns[j].left \in 0..MaxBody
         /\ descs[conns[j].fd] \in Clients
         /\ Fetched(j) \in Nat /\ Fetched(j) <= inbox[descs[conns[j].fd]]
         /\ conns[j].got + Fetched(j) \in 0..BufSize
<1>1. conns[j] \in Conn /\ conns \in Seq(Conn)
  BY DEF ReactorInv, ReactorTypeOK
<1>2. conns[j].fd \in Descs /\ conns[j].got \in 0..BufSize /\ conns[j].left \in 0..MaxBody
  BY <1>1 DEF Conn
<1>3. descs[conns[j].fd] \in Clients
  BY DEF ReactorInv, Entries
<1>4. inbox[descs[conns[j].fd]] \in Nat /\ BufSize \in Nat
  BY <1>3, SizesAssumption DEF ReactorInv
<1>5. /\ Fetched(j) \in Nat /\ Fetched(j) <= inbox[descs[conns[j].fd]]
      /\ conns[j].got + Fetched(j) \in 0..BufSize
  BY <1>2, <1>4 DEF Fetched, Lesser
<1> QED
  BY <1>1, <1>2, <1>3, <1>5

\* How an entry and the client behind it are left when the entry was handled.
Handled(j) ==
  /\ \E r \in Conn : r.fd = conns[j].fd /\ conns' = [conns EXCEPT ![j] = r]
  /\ room' \in [Clients -> 0..Window]
  /\ link' \in [Clients -> {"open", "fin", "doomed", "pipe", "rst"}]
  /\ interest' \in [Descs -> {"in", "out"}]
  /\ armed' \in SUBSET Descs

LEMMA EntryReset ==
  ASSUME NEW e \in Conn, NEW m \in {"reading", "writing", "sse", "closing"}, NEW g \in 0..BufSize,
         NEW l \in 0..MaxBody
  PROVE  /\ [e EXCEPT !.mode = m, !.left = l, !.got = g] \in Conn
         /\ [e EXCEPT !.mode = m, !.left = l, !.got = g].fd = e.fd
BY DEF Conn

LEMMA EntrySent ==
  ASSUME NEW e \in Conn, NEW m \in {"reading", "writing", "sse", "closing"}, NEW l \in 0..MaxBody
  PROVE  /\ [e EXCEPT !.left = l, !.mode = m] \in Conn
         /\ [e EXCEPT !.left = l, !.mode = m].fd = e.fd
BY DEF Conn

LEMMA EndsHandles ==
  ASSUME ReactorInv, NEW j \in 1..Len(conns), Ends(j)
  PROVE  Handled(j)
<1> DEFINE r == [conns[j] EXCEPT !.mode = "closing"]
<1>1. r \in Conn /\ r.fd = conns[j].fd /\ conns' = [conns EXCEPT ![j] = r]
  BY AtEntry DEF Ends, Conn
<1> QED
  BY <1>1 DEF Ends, Handled, ReactorInv, ReactorTypeOK

LEMMA AnswersHandles ==
  ASSUME ReactorInv, NEW j \in 1..Len(conns), NEW body \in 1..MaxBody, Answers(j, body)
  PROVE  Handled(j)
<1> DEFINE r == [conns[j] EXCEPT !.mode = "writing", !.left = body, !.got = 0]
<1>1. r \in Conn /\ r.fd = conns[j].fd
  <2>1. conns[j] \in Conn
    BY AtEntry
  <2>2. 0 \in 0..BufSize /\ body \in 0..MaxBody
    BY SizesAssumption
  <2> QED
    BY <2>1, <2>2, EntryReset
<1>2. conns' = [conns EXCEPT ![j] = r]
  BY AtEntry DEF Answers
<1>3. interest' \in [Descs -> {"in", "out"}] /\ armed' \in SUBSET Descs
  BY AtEntry DEF Answers, Watched, ReactorInv, ReactorTypeOK
<1> QED
  BY <1>1, <1>2, <1>3 DEF Answers, Handled, ReactorInv, ReactorTypeOK

LEMMA StreamsHandles ==
  ASSUME ReactorInv, NEW j \in 1..Len(conns), Streams(j)
  PROVE  Handled(j)
<1> DEFINE r == [conns[j] EXCEPT !.mode = "sse", !.left = 0, !.got = 0]
<1> DEFINE c == descs[conns[j].fd]
<1>1. r \in Conn /\ r.fd = conns[j].fd
  <2>1. conns[j] \in Conn
    BY AtEntry
  <2>2. 0 \in 0..BufSize /\ 0 \in 0..MaxBody
    BY SizesAssumption
  <2> QED
    BY <2>1, <2>2, EntryReset
<1>2. conns' = [conns EXCEPT ![j] = r]
  BY AtEntry DEF Streams
<1>3. c \in Clients
  BY AtEntry
<1>4. room' \in [Clients -> 0..Window] /\ link' \in [Clients -> {"open", "fin", "doomed", "pipe", "rst"}]
  <2>1. CASE Gone(c)
    BY <1>3, <2>1 DEF Streams, ReactorInv, ReactorTypeOK
  <2>2. CASE ~Gone(c) /\ room[c] = 0
    BY <1>3, <2>2 DEF Streams, ReactorInv, ReactorTypeOK
  <2>3. CASE ~Gone(c) /\ room[c] > 0
    <3>1. Sent(c, 1) /\ 1 <= room[c]
      BY <1>3, <2>3, SizesAssumption DEF Streams, ReactorInv, ReactorTypeOK
    <3> QED
      BY <1>3, <3>1, SentKeeps
  <2>4. room[c] = 0 \/ room[c] > 0
    BY <1>3, SizesAssumption DEF ReactorInv, ReactorTypeOK
  <2> QED
    BY <2>1, <2>2, <2>3, <2>4
<1> QED
  BY <1>1, <1>2, <1>4 DEF Streams, Handled, ReactorInv, ReactorTypeOK

LEMMA ReadHandles ==
  ASSUME ReactorInv, NEW j \in 1..Len(conns), HandleRead(j)
  PROVE  /\ Handled(j)
         /\ inbox' \in [Clients -> Nat]
         /\ \A c \in Clients : inbox'[c] \in 0..said[c]
<1> DEFINE c == descs[conns[j].fd]
<1>1. c \in Clients /\ Fetched(j) \in Nat /\ Fetched(j) <= inbox[c]
  BY AtEntry
<1>2. inbox' = [inbox EXCEPT ![c] = @ - Fetched(j)]
  BY DEF HandleRead
<1>3. inbox' \in [Clients -> Nat] /\ \A d \in Clients : inbox'[d] \in 0..said[d]
  BY <1>1, <1>2, SizesAssumption DEF ReactorInv, ReactorTypeOK
<1>4. Handled(j)
  <2>1. CASE Ends(j)
    BY <2>1, EndsHandles
  <2>2. CASE Streams(j)
    BY <2>2, StreamsHandles
  <2>3. ASSUME NEW body \in 1..MaxBody, Answers(j, body) PROVE Handled(j)
    BY <2>3, AnswersHandles
  <2>4. CASE /\ conns' = [conns EXCEPT ![j].got = conns[j].got + Fetched(j)]
             /\ UNCHANGED <<interest, armed, link, room>>
    <3> DEFINE r == [conns[j] EXCEPT !.got = conns[j].got + Fetched(j)]
    <3>1. r \in Conn /\ r.fd = conns[j].fd
      BY AtEntry DEF Conn
    <3>2. conns' = [conns EXCEPT ![j] = r]
      BY <2>4, AtEntry
    <3> QED
      BY <2>4, <3>1, <3>2 DEF Handled, ReactorInv, ReactorTypeOK
  <2> QED
    BY <2>1, <2>2, <2>3, <2>4 DEF HandleRead
<1> QED
  BY <1>3, <1>4

LEMMA WriteHandles ==
  ASSUME ReactorInv, NEW j \in 1..Len(conns), HandleWrite(j)
  PROVE  Handled(j) /\ inbox' = inbox
<1> DEFINE c == descs[conns[j].fd]
<1> DEFINE n == Lesser(room[c], conns[j].left)
<1>1. c \in Clients /\ conns[j] \in Conn /\ conns[j].left \in 0..MaxBody /\ conns \in Seq(Conn)
  BY AtEntry
<1>2. room[c] \in 0..Window /\ Window \in Nat /\ MaxBody \in Nat
  BY <1>1, SizesAssumption DEF ReactorInv, ReactorTypeOK
<1>3. n \in Nat /\ n <= room[c] /\ n <= conns[j].left
  BY <1>1, <1>2 DEF Lesser
<1>4. CASE Gone(c) \/ n = 0
  <2> DEFINE r == [conns[j] EXCEPT !.mode = "closing"]
  <2>1. r \in Conn /\ r.fd = conns[j].fd
    BY <1>1 DEF Conn
  <2>2. conns' = [conns EXCEPT ![j] = r] /\ UNCHANGED <<link, room, inbox, interest, armed>>
    BY <1>1, <1>4 DEF HandleWrite
  <2> QED
    BY <2>1, <2>2 DEF Handled, ReactorInv, ReactorTypeOK
<1>5. CASE ~(Gone(c) \/ n = 0)
  <2> DEFINE r == [conns[j] EXCEPT !.left = @ - n, !.mode = IF n = conns[j].left THEN "closing" ELSE @]
  <2>1. r \in Conn /\ r.fd = conns[j].fd
    <3>1. /\ conns[j] \in Conn
          /\ conns[j].left - n \in 0..MaxBody /\ conns[j].mode \in {"reading", "writing", "sse", "closing"}
      BY <1>1, <1>2, <1>3 DEF Conn
    <3> DEFINE l == conns[j].left - n
    <3> DEFINE m == IF n = conns[j].left THEN "closing" ELSE conns[j].mode
    <3>3. r = [conns[j] EXCEPT !.left = l, !.mode = m]
      OBVIOUS
    <3>4. l \in 0..MaxBody /\ m \in {"reading", "writing", "sse", "closing"}
      BY <3>1
    <3> HIDE DEF n, l, m, r
    <3>5. [conns[j] EXCEPT !.left = l, !.mode = m] \in Conn /\ [conns[j] EXCEPT !.left = l, !.mode = m].fd = conns[j].fd
      <4>1. ASSUME NEW e \in Conn PROVE [e EXCEPT !.left = l, !.mode = m] \in Conn /\ [e EXCEPT !.left = l, !.mode = m].fd = e.fd
        BY <3>4, EntrySent
      <4> QED
        BY <3>1, <4>1
    <3> QED
      BY <3>3, <3>5, Zenon
  <2>2. conns' = [conns EXCEPT ![j] = r] /\ Sent(c, n) /\ UNCHANGED <<inbox, interest, armed>>
    BY <1>1, <1>5 DEF HandleWrite
  <2>3. room' \in [Clients -> 0..Window] /\ link' \in [Clients -> {"open", "fin", "doomed", "pipe", "rst"}]
    BY <1>1, <1>3, <2>2, SentKeeps
  <2> QED
    BY <2>1, <2>2, <2>3 DEF Handled, ReactorInv, ReactorTypeOK
<1> QED
  BY <1>4, <1>5

-----------------------------------------------------------------------------
(* Steps of the loop.                                                         *)

LEMMA WaitKeeps ==
  ASSUME ReactorInv, Wait
  PROVE  ReactorInv'
<1>1. Len(conns) \in 0..MaxConns /\ Proceeds(conns) /\ conns' = conns
  BY SizesAssumption DEF Wait, ReactorInv, ReactorTypeOK
<1>2. /\ turn' \in {"wait", "handle", "push", "clean"} /\ index' \in 0..MaxConns
      /\ turn' \in {"push", "clean"} => index' \in 1..Len(conns)
  BY <1>1, LoopGoes
<1>3. WalkInside'
  BY <1>1, <1>2 DEF WalkInside
<1>4. events' \in SUBSET (Descs \union {0}) /\ armed' = {}
  BY DEF Wait, ReactorInv, ReactorTypeOK
<1>5. ReactorTypeOK' /\ said' = said /\ inbox' = inbox
  BY <1>1, <1>2, <1>4 DEF Wait, clientState, ReactorInv, ReactorTypeOK
<1>6. Entries'
  BY DEF Wait, clientState, ReactorInv, Entries
<1> QED
  BY <1>3, <1>5, <1>6 DEF ReactorInv

\* A connection is appended, for a descriptor and a client that had none.
LEMMA EntryAdded ==
  ASSUME ReactorInv, NEW n \in Descs, NEW c \in Clients, NEW r \in Conn,
         descs[n] = NoClient, place[c] # "conn", r.fd = n,
         conns' = Append(conns, r), descs' = [descs EXCEPT ![n] = c],
         place' = [place EXCEPT ![c] = "conn"]
  PROVE  conns' \in Seq(Conn) /\ Len(conns') = Len(conns) + 1 /\ Entries'
<1>1. conns \in Seq(Conn) /\ Len(conns) \in Nat
  BY DEF ReactorInv, ReactorTypeOK
<1>2. /\ conns' \in Seq(Conn) /\ Len(conns') = Len(conns) + 1
      /\ \A i \in 1..Len(conns) : conns'[i] = conns[i]
      /\ conns'[Len(conns) + 1] = r
  BY <1>1
<1>3. \A m \in Descs : descs'[m] = IF m = n THEN c ELSE descs[m]
  BY DEF ReactorInv, ReactorTypeOK
<1>4. \A i \in 1..Len(conns) : conns[i].fd \in Descs /\ conns[i].fd # n /\ descs[conns[i].fd] \in Clients
  BY AtEntry, ClientsAssumption
<1>5. \A m \in Descs : descs[m] # c
  BY DEF ReactorInv, Entries
<1>6. \A i \in 1..Len(conns) + 1 : i \in 1..Len(conns) \/ i = Len(conns) + 1
  BY <1>1
<1>7. \A i, j \in 1..Len(conns') : conns'[i].fd = conns'[j].fd => i = j
  BY <1>2, <1>4, <1>6 DEF ReactorInv, Entries
<1>8. \A j \in 1..Len(conns') : descs'[conns'[j].fd] \in Clients
  BY <1>2, <1>3, <1>4, <1>6
<1>9. ASSUME NEW m \in Descs, descs'[m] # NoClient
      PROVE  \E j \in 1..Len(conns') : conns'[j].fd = m
  <2>1. CASE m = n
    BY <1>1, <1>2, <2>1
  <2>2. CASE m # n
    <3>1. PICK j \in 1..Len(conns) : conns[j].fd = m
      BY <1>3, <1>9, <2>2 DEF ReactorInv, Entries
    <3> QED
      BY <1>1, <1>2, <3>1
  <2> QED
    BY <2>1, <2>2
<1>10. \A m, k \in Descs : descs'[m] = descs'[k] /\ descs'[m] # NoClient => m = k
  BY <1>3, <1>5 DEF ReactorInv, Entries
<1>11. \A d \in Clients : place'[d] = "conn" <=> \E m \in Descs : descs'[m] = d
  <2> SUFFICES ASSUME NEW d \in Clients PROVE place'[d] = "conn" <=> \E m \in Descs : descs'[m] = d
    OBVIOUS
  <2>1. CASE d = c
    BY <1>3, <2>1 DEF ReactorInv, ReactorTypeOK
  <2>2. CASE d # c
    <3>1. place'[d] = place[d]
      BY <2>2 DEF ReactorInv, ReactorTypeOK
    <3>2. \A m \in Descs : descs'[m] = d <=> descs[m] = d
      BY <1>3, <2>2, ClientsAssumption
    <3> QED
      BY <3>1, <3>2 DEF ReactorInv, Entries
  <2> QED
    BY <2>1, <2>2
<1> QED
  BY <1>2, <1>7, <1>8, <1>9, <1>10, <1>11 DEF Entries, Descs

LEMMA AcceptsKeep ==
  ASSUME ReactorInv, Accepts
  PROVE  ReactorInv'
<1> DEFINE Goal ==
      /\ conns' \in Seq(Conn) /\ Len(conns') \in 0..MaxConns
      /\ Entries'
      /\ descs' \in [Descs -> Clients \union {NoClient}]
      /\ interest' \in [Descs -> {"in", "out"}]
      /\ armed' \in SUBSET Descs
      /\ place' \in [Clients -> {"away", "backlog", "conn", "closed"}]
<1>1. Goal
  <2>0. conns \in Seq(Conn) /\ Len(conns) \in 0..MaxConns /\ MaxConns \in Nat
    BY SizesAssumption DEF ReactorInv, ReactorTypeOK
  <2>1. CASE UNCHANGED <<conns, kernelState, place>>
    BY <2>0, <2>1 DEF ReactorInv, ReactorTypeOK, Entries, kernelState
  <2>2. ASSUME NEW c \in Backlog, place' = [place EXCEPT ![c] = "closed"], UNCHANGED <<conns, kernelState>>
        PROVE  Goal
    <3>1. c \in Clients /\ place[c] = "backlog"
      BY DEF Backlog
    <3>2. \A d \in Clients : place'[d] = "conn" <=> place[d] = "conn"
      BY <2>2, <3>1 DEF ReactorInv, ReactorTypeOK
    <3>3. Entries'
      BY <2>0, <2>2, <3>2, EntriesKept DEF ReactorInv, kernelState
    <3> QED
      BY <2>0, <2>2, <3>1, <3>3 DEF ReactorInv, ReactorTypeOK, kernelState
  <2>3. ASSUME NEW n \in FreeDescs, NEW c \in Backlog, Len(conns) < MaxConns,
               place' = [place EXCEPT ![c] = "conn"],
               conns' = Append(conns, [fd |-> n, mode |-> "reading", got |-> 0, left |-> 0]),
               descs' = [descs EXCEPT ![n] = c],
               interest' = [interest EXCEPT ![n] = "in"],
               armed' = IF Readable(c) THEN armed \union {n} ELSE armed
        PROVE  Goal
    <3>1. c \in Clients /\ place[c] # "conn" /\ n \in Descs /\ descs[n] = NoClient
      BY DEF Backlog, FreeDescs
    <3>2. [fd |-> n, mode |-> "reading", got |-> 0, left |-> 0] \in Conn
      BY <3>1, SizesAssumption DEF Conn
    <3>3. conns' \in Seq(Conn) /\ Len(conns') = Len(conns) + 1 /\ Entries'
      BY <2>3, <3>1, <3>2, EntryAdded
    <3> QED
      BY <2>0, <2>3, <3>1, <3>3 DEF ReactorInv, ReactorTypeOK
  <2> HIDE DEF Goal
  <2>4. \/ UNCHANGED <<conns, kernelState, place>>
        \/ \E c \in Backlog : place' = [place EXCEPT ![c] = "closed"] /\ UNCHANGED <<conns, kernelState>>
        \/ \E n \in FreeDescs, c \in Backlog :
             /\ Len(conns) < MaxConns
             /\ place' = [place EXCEPT ![c] = "conn"]
             /\ conns' = Append(conns, [fd |-> n, mode |-> "reading", got |-> 0, left |-> 0])
             /\ descs' = [descs EXCEPT ![n] = c]
             /\ interest' = [interest EXCEPT ![n] = "in"]
             /\ armed' = IF Readable(c) THEN armed \union {n} ELSE armed
    BY DEF Accepts
  <2> QED
    BY <2>1, <2>2, <2>3, <2>4
<1>2. /\ turn' \in {"wait", "handle", "push", "clean"} /\ index' \in 0..MaxConns
      /\ turn' \in {"push", "clean"} => index' \in 1..Len(conns')
  BY <1>1, LoopGoes DEF Accepts
<1>3. events' \in SUBSET (Descs \union {0}) /\ UNCHANGED <<serving, link, inbox, said, room>>
  BY DEF Accepts, ReactorInv, ReactorTypeOK
<1>4. ReactorTypeOK'
  BY <1>1, <1>2, <1>3, SizesAssumption DEF ReactorInv, ReactorTypeOK
<1> QED
  BY <1>1, <1>2, <1>3, <1>4 DEF ReactorInv, WalkInside

LEMMA HandlesKeep ==
  ASSUME ReactorInv, NEW n \in Descs, Handles(n)
  PROVE  ReactorInv'
<1>1. PICK j \in 1..Len(conns) : HandleRead(j) \/ HandleWrite(j)
  BY DEF Handles, IsConn
<1>2. Handled(j) /\ inbox' \in [Clients -> Nat] /\ \A c \in Clients : inbox'[c] \in 0..said[c]
  BY <1>1, ReadHandles, WriteHandles DEF ReactorInv, ReactorTypeOK
<1>3. conns \in Seq(Conn) /\ Len(conns) \in 0..MaxConns /\ MaxConns \in Nat
  BY SizesAssumption DEF ReactorInv, ReactorTypeOK
<1>4. conns' \in Seq(Conn) /\ Len(conns') = Len(conns) /\ \A i \in 1..Len(conns) : conns'[i].fd = conns[i].fd
  BY <1>2, <1>3, EntryChanged DEF Handled
<1>5. /\ turn' \in {"wait", "handle", "push", "clean"} /\ index' \in 0..MaxConns
      /\ turn' \in {"push", "clean"} => index' \in 1..Len(conns')
  BY <1>3, <1>4, LoopGoes DEF Handles
<1>6. events' \in SUBSET (Descs \union {0}) /\ UNCHANGED <<serving, descs, place, said>>
  BY DEF Handles, ReactorInv, ReactorTypeOK
<1>7. Entries'
  BY <1>4, <1>6, EntriesKept DEF ReactorInv
<1>8. ReactorTypeOK'
  BY <1>2, <1>3, <1>4, <1>5, <1>6 DEF ReactorInv, ReactorTypeOK, Handled
<1> QED
  BY <1>2, <1>5, <1>6, <1>7, <1>8 DEF ReactorInv, WalkInside

LEMMA PushKeeps ==
  ASSUME ReactorInv, Push
  PROVE  ReactorInv'
<1> DEFINE c == descs[conns[index].fd]
<1>1. index \in 1..Len(conns) /\ conns \in Seq(Conn) /\ Len(conns) \in 0..MaxConns /\ MaxConns \in Nat
  BY SizesAssumption DEF Push, ReactorInv, ReactorTypeOK, WalkInside
<1>2. c \in Clients /\ conns[index] \in Conn
  BY <1>1, AtEntry
<1>3. /\ conns' \in Seq(Conn) /\ Len(conns') = Len(conns)
      /\ \A i \in 1..Len(conns) : conns'[i].fd = conns[i].fd
      /\ room' \in [Clients -> 0..Window] /\ link' \in [Clients -> {"open", "fin", "doomed", "pipe", "rst"}]
  <2>1. CASE UNCHANGED <<conns, link, room>>
    BY <1>1, <2>1 DEF ReactorInv, ReactorTypeOK
  <2>2. CASE conns' = [conns EXCEPT ![index].mode = "closing"] /\ UNCHANGED <<link, room>>
    <3> DEFINE r == [conns[index] EXCEPT !.mode = "closing"]
    <3>1. r \in Conn /\ r.fd = conns[index].fd /\ conns' = [conns EXCEPT ![index] = r]
      BY <1>2, <2>2 DEF Conn
    <3> QED
      BY <1>1, <2>2, <3>1, EntryChanged DEF ReactorInv, ReactorTypeOK
  <2>3. CASE room[c] > 0 /\ Sent(c, 1) /\ UNCHANGED conns
    <3>1. 1 <= room[c]
      BY <1>2, <2>3, SizesAssumption DEF ReactorInv, ReactorTypeOK
    <3> QED
      BY <1>1, <1>2, <2>3, <3>1, SentKeeps
  <2> QED
    BY <2>1, <2>2, <2>3 DEF Push
<1>4. /\ turn' \in {"wait", "push", "clean"} /\ index' \in 0..MaxConns
      /\ turn' \in {"push", "clean"} => index' \in 1..Len(conns')
  <2>1. PushFrom(conns', index + 1) /\ Len(conns') \in Nat /\ index + 1 \in Nat \ {0}
    BY <1>1, <1>3 DEF Push
  <2>2. \/ turn' = "wait" /\ index' = 0
        \/ turn' \in {"push", "clean"} /\ index' \in 1..Len(conns')
    BY <2>1, PushGoes
  <2> QED
    BY <1>1, <1>3, <2>2
<1>5. UNCHANGED <<serving, descs, interest, armed, events, place, inbox, said>>
  BY DEF Push, kernelState
<1>6. Entries'
  BY <1>3, <1>5, EntriesKept DEF ReactorInv
<1>7. ReactorTypeOK'
  BY <1>1, <1>3, <1>4, <1>5 DEF ReactorInv, ReactorTypeOK
<1> QED
  BY <1>4, <1>5, <1>6, <1>7 DEF ReactorInv, WalkInside

\* The entry of the index is removed, its descriptor closed.
LEMMA CleanKeeps ==
  ASSUME ReactorInv, Clean
  PROVE  ReactorInv'
<1> DEFINE n == conns[index].fd
<1>1. index \in 1..Len(conns) /\ conns \in Seq(Conn) /\ Len(conns) \in 0..MaxConns /\ MaxConns \in Nat
  BY SizesAssumption DEF Clean, ReactorInv, ReactorTypeOK, WalkInside
<1>2. n \in Descs /\ descs[n] \in Clients
  BY <1>1, AtEntry
<1>3. /\ conns' \in Seq(Conn) /\ Len(conns') = Len(conns) - 1
      /\ \A i \in 1..Len(conns) - 1 : conns'[i] = IF i = index THEN conns[Len(conns)] ELSE conns[i]
  BY <1>1, EntryRemoved DEF Clean
<1>4. \A m \in Descs : descs'[m] = IF m = n THEN NoClient ELSE descs[m]
  BY DEF Clean, ReactorInv, ReactorTypeOK
<1>5. \A d \in Clients : place'[d] = IF d = descs[n] THEN "closed" ELSE place[d]
  BY <1>2 DEF Clean, ReactorInv, ReactorTypeOK
<1>6. \A i \in 1..Len(conns') : \E k \in 1..Len(conns) : k # index /\ conns'[i] = conns[k] /\
                                                       (i # index => k = i) /\ (i = index => k = Len(conns))
  <2> SUFFICES ASSUME NEW i \in 1..Len(conns')
               PROVE  \E k \in 1..Len(conns) : k # index /\ conns'[i] = conns[k] /\
                                               (i # index => k = i) /\ (i = index => k = Len(conns))
    OBVIOUS
  <2>1. i \in 1..Len(conns) - 1
    BY <1>3
  <2>2. CASE i = index
    <3>1. Len(conns) \in 1..Len(conns) /\ Len(conns) # index /\ conns'[i] = conns[Len(conns)]
      BY <1>1, <1>3, <2>1, <2>2
    <3> QED
      BY <2>2, <3>1
  <2>3. CASE i # index
    <3>1. i \in 1..Len(conns) /\ conns'[i] = conns[i]
      BY <1>1, <1>3, <2>1, <2>3
    <3> QED
      BY <2>3, <3>1
  <2> QED
    BY <2>2, <2>3
<1>7. \A k \in 1..Len(conns) : k # index => \E i \in 1..Len(conns') : conns'[i] = conns[k]
  <2> SUFFICES ASSUME NEW k \in 1..Len(conns), k # index
               PROVE  \E i \in 1..Len(conns') : conns'[i] = conns[k]
    OBVIOUS
  <2>1. CASE k = Len(conns)
    <3>1. index \in 1..Len(conns') /\ conns'[index] = conns[k]
      BY <1>1, <1>3, <2>1
    <3> QED
      BY <3>1
  <2>2. CASE k # Len(conns)
    <3>1. k \in 1..Len(conns') /\ conns'[k] = conns[k]
      BY <1>1, <1>3, <2>2
    <3> QED
      BY <3>1
  <2> QED
    BY <2>1, <2>2
<1>8. \A k \in 1..Len(conns) : k # index => conns[k].fd # n /\ descs[conns[k].fd] \in Clients /\ conns[k].fd \in Descs
  BY <1>1, AtEntry DEF ReactorInv, Entries
<1>9. \A i, j \in 1..Len(conns') : conns'[i].fd = conns'[j].fd => i = j
  <2> SUFFICES ASSUME NEW i \in 1..Len(conns'), NEW j \in 1..Len(conns'), conns'[i].fd = conns'[j].fd
               PROVE  i = j
    OBVIOUS
  <2>1. PICK k \in 1..Len(conns) : conns'[i] = conns[k] /\ (i # index => k = i) /\ (i = index => k = Len(conns))
    BY <1>6
  <2>2. PICK l \in 1..Len(conns) : conns'[j] = conns[l] /\ (j # index => l = j) /\ (j = index => l = Len(conns))
    BY <1>6
  <2>3. k = l
    BY <2>1, <2>2 DEF ReactorInv, Entries
  <2>4. i < Len(conns) /\ j < Len(conns)
    BY <1>1, <1>3
  <2> QED
    BY <2>1, <2>2, <2>3, <2>4
<1>10. \A j \in 1..Len(conns') : descs'[conns'[j].fd] \in Clients
  BY <1>4, <1>6, <1>8
<1>11. ASSUME NEW m \in Descs, descs'[m] # NoClient
       PROVE  \E j \in 1..Len(conns') : conns'[j].fd = m
  <2>1. m # n /\ descs[m] # NoClient
    BY <1>4, <1>11
  <2>2. PICK k \in 1..Len(conns) : conns[k].fd = m
    BY <2>1 DEF ReactorInv, Entries
  <2> QED
    BY <1>7, <2>1, <2>2
<1>12. \A m, k \in Descs : descs'[m] = descs'[k] /\ descs'[m] # NoClient => m = k
  BY <1>4 DEF ReactorInv, Entries
<1>13. \A d \in Clients : place'[d] = "conn" <=> \E m \in Descs : descs'[m] = d
  <2> SUFFICES ASSUME NEW d \in Clients PROVE place'[d] = "conn" <=> \E m \in Descs : descs'[m] = d
    OBVIOUS
  <2>1. CASE d = descs[n]
    <3>1. \A m \in Descs : descs'[m] # d
      BY <1>2, <1>4, <2>1, ClientsAssumption DEF ReactorInv, Entries
    <3> QED
      BY <1>5, <2>1, <3>1
  <2>2. CASE d # descs[n]
    <3>1. \A m \in Descs : descs'[m] = d <=> descs[m] = d
      BY <1>4, <2>2, ClientsAssumption
    <3> QED
      BY <1>5, <2>2, <3>1 DEF ReactorInv, Entries
  <2> QED
    BY <2>1, <2>2
<1>14. Entries'
  BY <1>9, <1>10, <1>11, <1>12, <1>13 DEF Entries, Descs
<1>15. /\ turn' \in {"wait", "clean"} /\ index' \in 0..MaxConns
       /\ turn' = "clean" => index' \in 1..Len(conns')
  <2>1. CleanFrom(conns', index - 1) /\ index - 1 \in Nat
    BY <1>1 DEF Clean
  <2>2. \/ turn' = "wait" /\ index' = 0
        \/ turn' = "clean" /\ index' \in 1..index - 1
    BY <2>1, CleanGoes
  <2> QED
    BY <1>1, <1>3, <2>2
<1>16. /\ descs' \in [Descs -> Clients \union {NoClient}] /\ armed' \in SUBSET Descs
       /\ place' \in [Clients -> {"away", "backlog", "conn", "closed"}]
       /\ UNCHANGED <<serving, interest, events, link, inbox, said, room>>
  BY DEF Clean, ReactorInv, ReactorTypeOK
<1>17. ReactorTypeOK'
  BY <1>1, <1>3, <1>15, <1>16 DEF ReactorInv, ReactorTypeOK
<1> QED
  BY <1>14, <1>15, <1>16, <1>17 DEF ReactorInv, WalkInside

\* bf_reactor_stop closes what is open: nothing is left.
LEMMA JoinsKeeps ==
  ASSUME ReactorInv, Joins
  PROVE  ReactorInv'
<1> DEFINE held == {conns[j].fd : j \in 1..Len(conns)}
<1>1. \A n \in Descs : descs[n] # NoClient => n \in held
  BY DEF ReactorInv, Entries
<1>2. descs' = [n \in Descs |-> IF n \in held THEN NoClient ELSE descs[n]]
  BY DEF Joins
<1>3. place' = [c \in Clients |-> IF \E n \in held : descs[n] = c THEN "closed" ELSE place[c]]
  BY DEF Joins
<1>4. \A n \in Descs : descs'[n] = NoClient
  BY <1>1, <1>2
<1>5. \A c \in Clients : place'[c] # "conn"
  <2> SUFFICES ASSUME NEW c \in Clients, place[c] = "conn" PROVE \E n \in held : descs[n] = c
    BY <1>3
  <2>1. PICK n \in Descs : descs[n] = c
    BY DEF ReactorInv, Entries
  <2> QED
    BY <1>1, <2>1, ClientsAssumption
<1>6. conns' = <<>> /\ armed' = {} /\ turn' = "freed" /\ UNCHANGED <<serving, index, interest, events, link, inbox, said, room>>
  BY DEF Joins
<1>7. Entries'
  BY <1>4, <1>5, <1>6, ClientsAssumption DEF Entries, Descs
<1>8. /\ descs' \in [Descs -> Clients \union {NoClient}]
      /\ place' \in [Clients -> {"away", "backlog", "conn", "closed"}]
  BY <1>2, <1>3 DEF ReactorInv, ReactorTypeOK
<1>9. ReactorTypeOK'
  BY <1>6, <1>8, SizesAssumption DEF ReactorInv, ReactorTypeOK
<1> QED
  BY <1>6, <1>7, <1>9 DEF ReactorInv, WalkInside

LEMMA StopsKeep ==
  ASSUME ReactorInv, LoopEnds \/ Stops \/ (\E n \in Descs : Sigpipe(n)) \/ UNCHANGED reactorVars
  PROVE  ReactorInv'
<1>1. UNCHANGED <<index, conns, kernelState, events, clientState>>
  BY DEF LoopEnds, Stops, Sigpipe, reactorVars, loopState
<1>2. \/ turn' = turn
      \/ turn' \in {"ended", "killed"}
  BY DEF LoopEnds, Stops, Sigpipe, reactorVars, loopState
<1>3. serving' \in BOOLEAN
  BY DEF LoopEnds, Stops, Sigpipe, reactorVars, loopState, ReactorInv, ReactorTypeOK
<1>4. ReactorTypeOK'
  BY <1>1, <1>2, <1>3 DEF ReactorInv, ReactorTypeOK, kernelState, clientState
<1>5. Entries' /\ WalkInside'
  BY <1>1, <1>2 DEF ReactorInv, Entries, WalkInside, kernelState, clientState
<1> QED
  BY <1>1, <1>4, <1>5 DEF ReactorInv, clientState

LEMMA ReactorKeeps == ReactorInv /\ [ReactorNext]_reactorVars => ReactorInv'
BY WaitKeeps, AcceptsKeep, HandlesKeep, PushKeeps, CleanKeeps, JoinsKeeps, StopsKeep, DialKeeps, SayKeeps,
   ClientKeeps DEF ReactorNext, ReactorStep

\* Array, descriptors and clients agree, for any number of connections, however
\* entries are moved while the loop walks over them.
THEOREM ConnectionsMatch == ReactorSpec => []EntriesMatch
<1>1. ReactorInv => EntriesMatch
  <2> SUFFICES ASSUME ReactorInv PROVE EntriesMatch
    OBVIOUS
  <2>1. {conns[j].fd : j \in 1..Len(conns)} = {n \in Descs : descs[n] # NoClient}
    BY AtEntry, ClientsAssumption DEF ReactorInv, Entries
  <2>2. ASSUME NEW c \in Clients, place[c] = "conn"
        PROVE  Cardinality(DescsOf(c)) = 1
    <3>1. PICK n \in Descs : descs[n] = c
      BY <2>2 DEF ReactorInv, Entries
    <3>2. DescsOf(c) = {n}
      BY <3>1, ClientsAssumption DEF ReactorInv, Entries, DescsOf
    <3> QED
      BY <3>2, FS_Singleton
  <2>3. ASSUME NEW c \in Clients, place[c] # "conn"
        PROVE  Cardinality(DescsOf(c)) = 0
    <3>1. DescsOf(c) = {}
      BY <2>3 DEF ReactorInv, Entries, DescsOf
    <3> QED
      BY <3>1, FS_EmptySet
  <2> QED
    BY <2>1, <2>2, <2>3 DEF EntriesMatch, ReactorInv, Entries
<1> QED
  BY <1>1, ReactorInitInv, ReactorKeeps, PTL DEF ReactorSpec

-----------------------------------------------------------------------------
(* EdgesKept: what edge-triggered readiness has to remember.                  *)

\* The kernel watches for what an entry waits for, and has it on its list or
\* has reported it if it may go on.
Attended(j) ==
  LET n == conns[j].fd
      c == descs[n]
  IN
  /\ conns[j].mode = "reading" => interest[n] = "in" /\ (inbox[c] > 0 => n \in armed \union events)
  /\ conns[j].mode = "writing" => interest[n] = "out" /\ (Writable(c) => n \in armed \union events)

EdgesInv ==
  /\ \A j \in 1..Len(conns) : Attended(j)
  /\ turn \in {"wait", "push", "clean"} => events = {}

\* A client that does something wakes those who wait for it.
LEMMA ClientsAttend ==
  ASSUME ReactorInv, EdgesInv, NEW c \in Clients,
         Dial(c) \/ Say(c) \/ Listen(c) \/ Leave(c) \/ ResetArrives(c)
  PROVE  EdgesInv'
<1>1. UNCHANGED <<turn, conns, descs, interest, events>>
  BY DEF Dial, Say, Listen, Leave, ResetArrives, Unmoved, loopState, kernelState
<1>2. conns \in Seq(Conn)
  BY DEF ReactorInv, ReactorTypeOK
<1>3. ASSUME NEW j \in 1..Len(conns) PROVE Attended(j)'
  <2> DEFINE n == conns[j].fd
  <2> DEFINE d == descs[n]
  <2>1. n \in Descs /\ d \in Clients /\ Attended(j)
    BY AtEntry DEF EdgesInv
  <2>2. armed \subseteq armed'
    BY DEF Dial, Say, Listen, Leave, ResetArrives, Wakes, kernelState
  <2>3. CASE d # c \/ Dial(c)
    <3>1. inbox'[d] = inbox[d] /\ room'[d] = room[d] /\ link'[d] = link[d]
      BY <2>1, <2>3 DEF Dial, Say, Listen, Leave, ResetArrives, ReactorInv, ReactorTypeOK
    <3> HIDE DEF n, d
    <3> QED
      BY <1>1, <2>1, <2>2, <3>1 DEF Attended, Writable, Gone, n, d
  <2>4. CASE d = c /\ Say(c)
    <3>1. interest[n] = "in" => n \in armed'
      BY <2>1, <2>4 DEF Say, Wakes, DescsOf
    <3>2. room' = room /\ link' = link
      BY <2>4 DEF Say
    <3> QED
      BY <1>1, <2>1, <2>2, <3>1, <3>2 DEF Attended, Writable, Gone
  <2>5. CASE d = c /\ Listen(c)
    <3>1. inbox' = inbox /\ link' = link /\ (room[c] = 0 /\ interest[n] = "out" => n \in armed')
      BY <2>1, <2>5 DEF Listen, Wakes, DescsOf
    <3>2. room[c] \in Nat
      BY SizesAssumption DEF ReactorInv, ReactorTypeOK
    <3>3. room[c] > 0 \/ room[c] = 0
      BY <3>2
    <3> QED
      BY <1>1, <2>1, <2>2, <2>5, <3>1, <3>3 DEF Attended, Writable, Gone
  <2>6. CASE d = c /\ (Leave(c) \/ ResetArrives(c))
    <3>1. inbox' = inbox /\ room' = room
      BY <2>6 DEF Leave, ResetArrives
    <3>2. n \in armed'
      BY <2>1, <2>6 DEF Leave, ResetArrives, Wakes, DescsOf, ReactorInv, ReactorTypeOK
    <3> QED
      BY <1>1, <2>1, <3>1, <3>2 DEF Attended
  <2> QED
    BY <2>3, <2>4, <2>5, <2>6
<1> QED
  BY <1>1, <1>3 DEF EdgesInv

\* The kernel reports all that may go on; what it drops is not ready.
LEMMA WaitAttends ==
  ASSUME ReactorInv, EdgesInv, Wait
  PROVE  EdgesInv'
<1>1. UNCHANGED <<conns, descs, interest, inbox, room, link>> /\ events = {}
  BY DEF Wait, clientState, EdgesInv
<1>2. ASSUME NEW j \in 1..Len(conns) PROVE Attended(j)'
  <2> DEFINE n == conns[j].fd
  <2>1. n \in Descs /\ descs[n] \in Clients /\ Attended(j)
    BY AtEntry DEF EdgesInv
  <2>2. n \in armed /\ Ready(n) => n \in events'
    BY DEF Wait
  <2> QED
    BY <1>1, <2>1, <2>2 DEF Attended, Ready, Readable, Writable, Gone
<1>3. turn' \in {"wait", "push", "clean"} => events' = {}
  BY DEF Wait, Proceeds
<1> QED
  BY <1>1, <1>2, <1>3 DEF EdgesInv

\* A new connection is watched for reading, and listed if its client has spoken.
LEMMA AcceptsAttend ==
  ASSUME ReactorInv, EdgesInv, Accepts
  PROVE  EdgesInv'
<1>1. /\ UNCHANGED <<inbox, room, link>> /\ events' = events \ {0}
      /\ conns \in Seq(Conn) /\ MaxConns \in Nat /\ descs \in [Descs -> Clients \union {NoClient}]
      /\ interest \in [Descs -> {"in", "out"}] /\ inbox \in [Clients -> Nat]
  BY SizesAssumption DEF Accepts, ReactorInv, ReactorTypeOK
<1>2. turn' \in {"wait", "push", "clean"} => events' = {}
  BY DEF Accepts, Proceeds
<1>3. CASE UNCHANGED <<conns, kernelState>>
  <2>1. ASSUME NEW j \in 1..Len(conns) PROVE Attended(j)'
    <3>1. conns[j].fd \in Descs /\ Attended(j)
      BY AtEntry DEF EdgesInv
    <3>2. conns[j].fd # 0
      BY <1>1, <3>1 DEF Descs
    <3> QED
      BY <1>1, <1>3, <3>1, <3>2 DEF Attended, Writable, Gone, kernelState
  <2> QED
    BY <1>2, <1>3, <2>1 DEF EdgesInv
<1>4. ASSUME NEW n \in FreeDescs, NEW c \in Backlog,
             conns' = Append(conns, [fd |-> n, mode |-> "reading", got |-> 0, left |-> 0]),
             descs' = [descs EXCEPT ![n] = c],
             interest' = [interest EXCEPT ![n] = "in"],
             armed' = IF Readable(c) THEN armed \union {n} ELSE armed
      PROVE  EdgesInv'
  <2>1. n \in Descs /\ descs[n] = NoClient /\ c \in Clients
    BY DEF FreeDescs, Backlog
  <2>2. Len(conns') = Len(conns) + 1 /\ Len(conns) \in Nat
    BY <1>1, <1>4
  <2>3. ASSUME NEW j \in 1..Len(conns) PROVE Attended(j)'
    <3> DEFINE m == conns[j].fd
    <3>1. m \in Descs /\ descs[m] \in Clients /\ Attended(j)
      BY AtEntry DEF EdgesInv
    <3>2. m # n /\ m # 0
      BY <1>1, <2>1, <3>1, ClientsAssumption DEF Descs
    <3>3. conns'[j] = conns[j]
      BY <1>1, <1>4
    <3>4. descs'[m] = descs[m] /\ interest'[m] = interest[m]
      BY <1>1, <1>4, <3>1, <3>2
    <3>5. m \in armed \union events => m \in armed' \union events'
      BY <1>1, <1>4, <3>2
    <3> QED
      BY <1>1, <3>1, <3>3, <3>4, <3>5 DEF Attended, Writable, Gone
  <2>4. ASSUME NEW l, l = Len(conns) + 1 PROVE Attended(l)'
    <3>1. conns'[l] = [fd |-> n, mode |-> "reading", got |-> 0, left |-> 0]
      BY <1>1, <1>4, <2>4
    <3>2. descs'[n] = c /\ interest'[n] = "in"
      BY <1>1, <1>4, <2>1
    <3>3. inbox'[c] > 0 => n \in armed'
      BY <1>1, <1>4 DEF Readable
    <3> QED
      BY <3>1, <3>2, <3>3 DEF Attended
  <2>5. ASSUME NEW j \in 1..Len(conns') PROVE Attended(j)'
    <3>1. j \in 1..Len(conns) \/ j = Len(conns) + 1
      BY <2>2
    <3> QED
      BY <2>3, <2>4, <3>1
  <2> QED
    BY <1>2, <2>5 DEF EdgesInv
<1>5. \/ UNCHANGED <<conns, kernelState>>
      \/ \E n \in FreeDescs, c \in Backlog :
           /\ conns' = Append(conns, [fd |-> n, mode |-> "reading", got |-> 0, left |-> 0])
           /\ descs' = [descs EXCEPT ![n] = c]
           /\ interest' = [interest EXCEPT ![n] = "in"]
           /\ armed' = IF Readable(c) THEN armed \union {n} ELSE armed
  BY DEF Accepts
<1> QED
  BY <1>3, <1>4, <1>5

\* Handling the entry j touches nothing of the other entries.
Apart(j) ==
  /\ Len(conns') = Len(conns) /\ \A i \in 1..Len(conns) : i # j => conns'[i] = conns[i]
  /\ \A c \in Clients \ {descs[conns[j].fd]} : inbox'[c] = inbox[c] /\ room'[c] = room[c] /\ link'[c] = link[c]
  /\ \A m \in Descs \ {conns[j].fd} : interest'[m] = interest[m]
  /\ armed \subseteq armed'

\* One send makes nothing writable, neither for its client nor for another.
LEMMA SentLeaves ==
  ASSUME ReactorInv, NEW c \in Clients, NEW n \in Nat, n <= room[c], Sent(c, n)
  PROVE  /\ \A d \in Clients \ {c} : room'[d] = room[d] /\ link'[d] = link[d]
         /\ room'[c] = room[c] - n
         /\ link'[c] \in {"pipe", "rst"} => Gone(c)
BY DEF Sent, Gone, ReactorInv, ReactorTypeOK

LEMMA OneAttended ==
  ASSUME ReactorInv, EdgesInv, NEW j \in 1..Len(conns), Apart(j), Attended(j)', descs' = descs,
         events' = events \ {conns[j].fd}
  PROVE  \A i \in 1..Len(conns') : Attended(i)'
<1> SUFFICES ASSUME NEW i \in 1..Len(conns), i # j PROVE Attended(i)'
  BY DEF Apart
<1> DEFINE n == conns[i].fd
<1> DEFINE c == descs[n]
<1>1. n \in Descs /\ c \in Clients /\ Attended(i)
  BY AtEntry DEF EdgesInv
<1>2. n # conns[j].fd
  BY DEF ReactorInv, Entries
<1>3. c # descs[conns[j].fd]
  <2>1. conns[j].fd \in Descs /\ c # NoClient
    BY <1>1, AtEntry, ClientsAssumption
  <2>2. \A m, k \in Descs : descs[m] = descs[k] /\ descs[m] # NoClient => m = k
    BY DEF ReactorInv, Entries
  <2> HIDE DEF n
  <2> QED
    BY <1>1, <1>2, <2>1, <2>2
<1>4. conns'[i] = conns[i] /\ interest'[n] = interest[n]
  BY <1>1, <1>2 DEF Apart
<1>5. inbox'[c] = inbox[c] /\ room'[c] = room[c] /\ link'[c] = link[c]
  BY <1>1, <1>3 DEF Apart
<1>6. n \in armed \union events => n \in armed' \union events'
  BY <1>2 DEF Apart
<1> QED
  BY <1>1, <1>4, <1>5, <1>6 DEF Attended, Writable, Gone

LEMMA EntryPut ==
  ASSUME conns \in Seq(Conn), NEW j \in 1..Len(conns), NEW r, conns' = [conns EXCEPT ![j] = r]
  PROVE  /\ conns'[j] = r
         /\ Len(conns') = Len(conns) /\ \A i \in 1..Len(conns) : i # j => conns'[i] = conns[i]
OBVIOUS

\* A request that is still incomplete has been read as far as it has come; an
\* answer waits for what the kernel reports from now on.
LEMMA ReadAttends ==
  ASSUME ReactorInv, EdgesInv, NEW j \in 1..Len(conns), HandleRead(j), interest[conns[j].fd] = "in",
         descs' = descs
  PROVE  Apart(j) /\ Attended(j)'
<1> DEFINE n == conns[j].fd
<1> DEFINE c == descs[n]
<1>1. /\ conns \in Seq(Conn) /\ conns[j] \in Conn /\ n \in Descs /\ c \in Clients /\ Attended(j)
      /\ Fetched(j) \in Nat /\ conns[j].got \in Nat
  BY AtEntry, SizesAssumption DEF EdgesInv
<1>2. inbox' = [inbox EXCEPT ![c] = @ - Fetched(j)]
  BY DEF HandleRead
<1>3. inbox'[c] = inbox[c] - Fetched(j) /\ \A d \in Clients \ {c} : inbox'[d] = inbox[d]
  BY <1>1, <1>2 DEF ReactorInv
<1>4. CASE Ends(j)
  <2> DEFINE r == [conns[j] EXCEPT !.mode = "closing"]
  <2>1. conns' = [conns EXCEPT ![j] = r] /\ UNCHANGED <<interest, armed, link, room>>
    BY <1>1, <1>4 DEF Ends
  <2>2. r.mode = "closing"
    BY <1>1 DEF Conn
  <2>3. conns'[j] = r /\ Apart(j)
    <3> HIDE DEF r
    <3>1. /\ conns'[j] = r
          /\ Len(conns') = Len(conns) /\ \A i \in 1..Len(conns) : i # j => conns'[i] = conns[i]
      BY <1>1, <2>1, EntryPut
    <3> QED
      BY <1>3, <2>1, <3>1 DEF Apart
  <2> QED
    BY <2>2, <2>3 DEF Attended
<1>5. CASE Streams(j)
  <2> DEFINE r == [conns[j] EXCEPT !.mode = "sse", !.left = 0, !.got = 0]
  <2>1. conns' = [conns EXCEPT ![j] = r] /\ UNCHANGED <<interest, armed>>
    BY <1>1, <1>5 DEF Streams
  <2>2. r.mode = "sse"
    BY <1>1 DEF Conn
  <2>3. \A d \in Clients \ {c} : room'[d] = room[d] /\ link'[d] = link[d]
    <3>1. CASE Sent(c, 1)
      BY <3>1 DEF Sent, ReactorInv, ReactorTypeOK
    <3>2. CASE ~Sent(c, 1)
      BY <1>1, <1>5, <3>2 DEF Streams, ReactorInv, ReactorTypeOK
    <3> QED
      BY <3>1, <3>2
  <2>4. conns'[j] = r /\ Apart(j)
    <3> HIDE DEF r
    <3>1. /\ conns'[j] = r
          /\ Len(conns') = Len(conns) /\ \A i \in 1..Len(conns) : i # j => conns'[i] = conns[i]
      BY <1>1, <2>1, EntryPut
    <3> QED
      BY <1>3, <2>1, <2>3, <3>1 DEF Apart
  <2> QED
    BY <2>2, <2>4 DEF Attended
<1>6. ASSUME NEW body \in 1..MaxBody, Answers(j, body) PROVE Apart(j) /\ Attended(j)'
  <2> DEFINE r == [conns[j] EXCEPT !.mode = "writing", !.left = body, !.got = 0]
  <2>1. conns' = [conns EXCEPT ![j] = r] /\ UNCHANGED <<link, room>> /\ Watched(n)
    BY <1>1, <1>6 DEF Answers
  <2>2. r.mode = "writing" /\ r.fd = n
    BY <1>1 DEF Conn
  <2>3. /\ interest'[n] = "out" /\ \A m \in Descs \ {n} : interest'[m] = interest[m]
        /\ armed \subseteq armed' /\ (Writable(c) => n \in armed')
    BY <1>1, <2>1 DEF Watched, ReactorInv, ReactorTypeOK
  <2>4. conns'[j] = r /\ Apart(j)
    <3> HIDE DEF r
    <3>1. /\ conns'[j] = r
          /\ Len(conns') = Len(conns) /\ \A i \in 1..Len(conns) : i # j => conns'[i] = conns[i]
      BY <1>1, <2>1, EntryPut
    <3> QED
      BY <1>3, <2>1, <2>3, <3>1 DEF Apart
  <2> HIDE DEF r
  <2>5. conns'[j].mode = "writing" /\ conns'[j].fd = n /\ descs'[n] = c
    BY <2>2, <2>4
  <2>6. room'[c] = room[c] /\ link'[c] = link[c]
    BY <2>1
  <2> QED
    BY <2>3, <2>4, <2>5, <2>6 DEF Attended, Writable, Gone
<1>7. CASE /\ conns[j].got + Fetched(j) < HeadSize
           /\ conns' = [conns EXCEPT ![j].got = conns[j].got + Fetched(j)]
           /\ UNCHANGED <<interest, armed, link, room>>
  <2> DEFINE r == [conns[j] EXCEPT !.got = conns[j].got + Fetched(j)]
  <2>1. conns' = [conns EXCEPT ![j] = r]
    BY <1>1, <1>7
  <2>2. r.mode = conns[j].mode /\ r.fd = n
    BY <1>1 DEF Conn
  <2>3. conns'[j] = r /\ Apart(j)
    <3> HIDE DEF r
    <3>1. /\ conns'[j] = r
          /\ Len(conns') = Len(conns) /\ \A i \in 1..Len(conns) : i # j => conns'[i] = conns[i]
      BY <1>1, <2>1, EntryPut
    <3> QED
      BY <1>3, <1>7, <2>1, <3>1 DEF Apart
  <2>4. inbox'[c] = 0
    <3>1. inbox[c] \in Nat
      BY <1>1 DEF ReactorInv
    <3>2. Fetched(j) = IF inbox[c] < BufSize - conns[j].got THEN inbox[c] ELSE BufSize - conns[j].got
      BY DEF Fetched, Lesser
    <3>3. conns[j].got + Fetched(j) < BufSize /\ BufSize \in Nat
      BY <1>1, <1>7, SizesAssumption
    <3>4. Fetched(j) # BufSize - conns[j].got
      BY <1>1, <3>3
    <3>5. Fetched(j) = inbox[c]
      BY <3>2, <3>4
    <3> QED
      BY <1>3, <3>1, <3>5
  <2>5. conns[j].mode # "writing"
    BY <1>1 DEF Attended
  <2> HIDE DEF r
  <2>6. conns'[j].mode = conns[j].mode /\ conns'[j].fd = n /\ descs'[n] = c
    BY <2>2, <2>3
  <2> QED
    BY <1>7, <2>3, <2>4, <2>5, <2>6 DEF Attended
<1> QED
  BY <1>4, <1>5, <1>6, <1>7 DEF HandleRead

\* What is left of a response waits for a client that has no room for it.
LEMMA WriteAttends ==
  ASSUME ReactorInv, EdgesInv, NEW j \in 1..Len(conns), HandleWrite(j), interest[conns[j].fd] # "in",
         descs' = descs
  PROVE  Apart(j) /\ Attended(j)'
<1> DEFINE n == conns[j].fd
<1> DEFINE c == descs[n]
<1> DEFINE k == Lesser(room[c], conns[j].left)
<1>1. /\ conns \in Seq(Conn) /\ conns[j] \in Conn /\ n \in Descs /\ c \in Clients /\ Attended(j)
      /\ conns[j].left \in Nat /\ room[c] \in Nat
  BY AtEntry, SizesAssumption DEF EdgesInv, ReactorInv, ReactorTypeOK
<1>2. UNCHANGED <<inbox, interest, armed>>
  BY DEF HandleWrite
<1>3. CASE Gone(c) \/ k = 0
  <2> DEFINE r == [conns[j] EXCEPT !.mode = "closing"]
  <2>1. conns' = [conns EXCEPT ![j] = r] /\ UNCHANGED <<link, room>>
    BY <1>1, <1>3 DEF HandleWrite
  <2>2. r.mode = "closing"
    BY <1>1 DEF Conn
  <2>3. conns'[j] = r /\ Apart(j)
    <3> HIDE DEF r
    <3>1. /\ conns'[j] = r
          /\ Len(conns') = Len(conns) /\ \A i \in 1..Len(conns) : i # j => conns'[i] = conns[i]
      BY <1>1, <2>1, EntryPut
    <3> QED
      BY <1>2, <2>1, <3>1 DEF Apart
  <2> QED
    BY <2>2, <2>3 DEF Attended
<1>4. CASE ~(Gone(c) \/ k = 0)
  <2> DEFINE mode == IF k = conns[j].left THEN "closing" ELSE conns[j].mode
  <2> DEFINE r == [conns[j] EXCEPT !.left = conns[j].left - k, !.mode = mode]
  <2>1. conns' = [conns EXCEPT ![j] = r] /\ Sent(c, k)
    BY <1>1, <1>4 DEF HandleWrite
  <2>2. r.mode = mode /\ r.fd = n
    BY <1>1 DEF Conn
  <2>3. k \in Nat /\ k <= room[c] /\ (k = conns[j].left \/ k = room[c])
    BY <1>1 DEF Lesser
  <2> HIDE DEF k
  <2>4. /\ \A d \in Clients \ {c} : room'[d] = room[d] /\ link'[d] = link[d]
        /\ room'[c] = room[c] - k
        /\ link'[c] \in {"pipe", "rst"} => Gone(c)
    BY <1>1, <2>1, <2>3, SentLeaves
  <2>5. conns'[j] = r /\ Apart(j)
    <3> HIDE DEF r
    <3>1. /\ conns'[j] = r
          /\ Len(conns') = Len(conns) /\ \A i \in 1..Len(conns) : i # j => conns'[i] = conns[i]
      BY <1>1, <2>1, EntryPut
    <3> QED
      BY <1>2, <2>1, <2>4, <3>1 DEF Apart
  <2> HIDE DEF r
  <2>6. conns'[j].mode = mode /\ conns'[j].fd = n /\ descs'[n] = c
    BY <2>2, <2>5
  <2>7. mode # "reading"
    BY <1>1 DEF Attended
  <2>8. mode = "writing" => interest[n] = "out" /\ room'[c] = 0 /\ link'[c] \notin {"pipe", "rst"}
    BY <1>1, <1>4, <2>3, <2>4 DEF Attended
  <2> HIDE DEF mode
  <2> QED
    BY <1>2, <2>5, <2>6, <2>7, <2>8 DEF Attended, Writable, Gone
<1> QED
  BY <1>3, <1>4

LEMMA HandlesAttend ==
  ASSUME ReactorInv, EdgesInv, NEW n \in Descs, Handles(n)
  PROVE  EdgesInv'
<1>1. PICK j \in 1..Len(conns) :
        conns[j].fd = n /\ IF interest[n] = "in" THEN HandleRead(j) ELSE HandleWrite(j)
  BY DEF Handles, IsConn
<1>2. descs' = descs /\ events' = events \ {n}
  BY DEF Handles
<1>3. Apart(j) /\ Attended(j)'
  BY <1>1, <1>2, ReadAttends, WriteAttends
<1>4. \A i \in 1..Len(conns') : Attended(i)'
  BY <1>1, <1>2, <1>3, OneAttended
<1>5. turn' \in {"wait", "push", "clean"} => events' = {}
  BY DEF Handles, Proceeds
<1> QED
  BY <1>4, <1>5 DEF EdgesInv

\* A stream takes nothing from the others.
LEMMA PushAttends ==
  ASSUME ReactorInv, EdgesInv, Push
  PROVE  EdgesInv'
<1> DEFINE n == conns[index].fd
<1> DEFINE c == descs[n]
<1>1. index \in 1..Len(conns) /\ conns \in Seq(Conn) /\ conns[index] \in Conn /\ c \in Clients /\ Attended(index)
  BY AtEntry DEF Push, ReactorInv, WalkInside, EdgesInv
<1>2. UNCHANGED <<descs, interest, armed, events, inbox>> /\ events = {}
  BY DEF Push, kernelState, EdgesInv
<1>3. ASSUME UNCHANGED conns,
             \A d \in Clients : room'[d] > 0 \/ link'[d] \in {"pipe", "rst"} => Writable(d)
      PROVE  EdgesInv'
  <2>1. ASSUME NEW j \in 1..Len(conns) PROVE Attended(j)'
    <3>1. descs[conns[j].fd] \in Clients /\ Attended(j)
      BY AtEntry DEF EdgesInv
    <3> QED
      BY <1>2, <1>3, <3>1 DEF Attended, Writable, Gone
  <2> QED
    BY <1>2, <1>3, <2>1 DEF EdgesInv
<1>4. CASE UNCHANGED <<conns, link, room>>
  BY <1>3, <1>4 DEF Writable, Gone
<1>5. CASE conns' = [conns EXCEPT ![index].mode = "closing"] /\ UNCHANGED <<link, room>>
  <2> DEFINE r == [conns[index] EXCEPT !.mode = "closing"]
  <2>1. conns' = [conns EXCEPT ![index] = r] /\ r.mode = "closing"
    BY <1>1, <1>5 DEF Conn
  <2> HIDE DEF r
  <2>2. /\ conns'[index] = r
        /\ Len(conns') = Len(conns) /\ \A i \in 1..Len(conns) : i # index => conns'[i] = conns[i]
    BY <1>1, <2>1, EntryPut
  <2>3. ASSUME NEW j \in 1..Len(conns) PROVE Attended(j)'
    <3>1. CASE j = index
      BY <2>1, <2>2, <3>1 DEF Attended
    <3>2. CASE j # index
      <4>1. Attended(j) /\ conns'[j] = conns[j]
        BY <2>2, <3>2 DEF EdgesInv
      <4> QED
        BY <1>2, <1>5, <4>1 DEF Attended, Writable, Gone
    <3> QED
      BY <3>1, <3>2
  <2> QED
    BY <1>2, <2>2, <2>3 DEF EdgesInv
<1>6. CASE room[c] > 0 /\ Sent(c, 1) /\ UNCHANGED conns
  <2>1. room[c] \in Nat
    BY <1>1, SizesAssumption DEF ReactorInv, ReactorTypeOK
  <2>2. /\ \A d \in Clients \ {c} : room'[d] = room[d] /\ link'[d] = link[d]
        /\ link'[c] \in {"pipe", "rst"} => Gone(c)
    BY <1>1, <1>6, <2>1, SentLeaves
  <2>3. \A d \in Clients : room'[d] > 0 \/ link'[d] \in {"pipe", "rst"} => Writable(d)
    BY <1>6, <2>2 DEF Writable, Gone
  <2> QED
    BY <1>3, <1>6, <2>3
<1> QED
  BY <1>4, <1>5, <1>6 DEF Push

\* The kernel forgets the descriptor that is closed, and no other.
LEMMA CleanAttends ==
  ASSUME ReactorInv, EdgesInv, Clean
  PROVE  EdgesInv'
<1> DEFINE n == conns[index].fd
<1>1. index \in 1..Len(conns) /\ conns \in Seq(Conn) /\ n \in Descs /\ descs \in [Descs -> Clients \union {NoClient}]
  BY AtEntry DEF Clean, ReactorInv, ReactorTypeOK, WalkInside
<1>2. /\ Len(conns') = Len(conns) - 1
      /\ \A i \in 1..Len(conns) - 1 : conns'[i] = IF i = index THEN conns[Len(conns)] ELSE conns[i]
  BY <1>1, EntryRemoved DEF Clean
<1>3. /\ UNCHANGED <<interest, events, inbox, room, link>> /\ events = {}
      /\ armed' = armed \ {n} /\ descs' = [descs EXCEPT ![n] = NoClient]
  BY DEF Clean, EdgesInv
<1>4. ASSUME NEW j \in 1..Len(conns') PROVE Attended(j)'
  <2>1. PICK i \in 1..Len(conns) : i # index /\ conns'[j] = conns[i]
    <3>1. j \in 1..Len(conns) - 1 /\ Len(conns) \in Nat
      BY <1>1, <1>2
    <3>2. CASE j = index
      <4>1. Len(conns) \in 1..Len(conns) /\ Len(conns) # index /\ conns'[j] = conns[Len(conns)]
        BY <1>1, <1>2, <3>1, <3>2
      <4> QED
        BY <4>1
    <3>3. CASE j # index
      BY <1>2, <3>1, <3>3
    <3> QED
      BY <3>2, <3>3
  <2> DEFINE m == conns[i].fd
  <2> DEFINE c == descs[m]
  <2>2. m \in Descs /\ c \in Clients /\ Attended(i)
    BY AtEntry DEF EdgesInv
  <2>3. m # n
    BY <1>1, <2>1 DEF ReactorInv, Entries
  <2>4. descs'[m] = c /\ (m \in armed => m \in armed')
    BY <1>1, <1>3, <2>2, <2>3
  <2> QED
    BY <1>3, <2>1, <2>2, <2>4 DEF Attended, Writable, Gone
<1> QED
  BY <1>3, <1>4 DEF EdgesInv

LEMMA RestAttends ==
  ASSUME EdgesInv, Joins \/ LoopEnds \/ Stops \/ (\E n \in Descs : Sigpipe(n)) \/ UNCHANGED reactorVars
  PROVE  EdgesInv'
<1>1. CASE Joins
  BY <1>1 DEF Joins, EdgesInv
<1>2. CASE LoopEnds \/ Stops \/ (\E n \in Descs : Sigpipe(n)) \/ UNCHANGED reactorVars
  <2>1. UNCHANGED <<conns, kernelState, events, clientState>> /\ (turn' = turn \/ turn' \in {"ended", "killed"})
    BY <1>2 DEF LoopEnds, Stops, Sigpipe, reactorVars, loopState
  <2> QED
    BY <2>1 DEF EdgesInv, Attended, Writable, Gone, kernelState, clientState
<1> QED
  BY <1>1, <1>2

LEMMA EdgesHold == ReactorSpec => []EdgesInv
<1>1. ReactorInit => EdgesInv
  BY DEF ReactorInit, EdgesInv
<1>2. ReactorInv /\ EdgesInv /\ [ReactorNext]_reactorVars => EdgesInv'
  BY ClientsAttend, WaitAttends, AcceptsAttend, HandlesAttend, PushAttends, CleanAttends, RestAttends
  DEF ReactorNext, ReactorStep
<1> QED
  BY <1>1, <1>2, ReactorInitInv, ReactorKeeps, PTL DEF ReactorSpec

\* No edge is lost, whatever the sizes and the number of clients: handle_read
\* takes all that has come or has a complete request, handle_write fills the
\* window or is done, and a switch to writing reports what is writable already.
THEOREM EdgesAreKept == ReactorSpec => []EdgesKept
<1>1. EdgesInv => EdgesKept
  BY DEF EdgesInv, EdgesKept, Attended
<1> QED
  BY <1>1, EdgesHold, PTL
=============================================================================
