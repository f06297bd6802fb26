---------------------------- MODULE GatewayProofs ----------------------------
(* Proofs about the two servers, for any finite set of connections, whatever  *)
(* they ask for, and any limits on threads and descriptors; and about the     *)
(* rate limiter that one of them has, for any number of keys, any table, any  *)
(* capacity, refill and price, and any bound on time.                         *)
EXTENDS Gateway, FiniteSetTheorems, TLAPS

GateTypes ==
  /\ server \in {"api", "proxy"}
  /\ loop \in Admitting \union {"test", "accept", "exited"}
  /\ cfd \in Conns \union {NoConn}
  /\ threads \in Nat
  /\ client \in [Conns -> {"away", "ready", "stalled", "gone", "reset"}]
  /\ stage \in [Conns -> Stages]
  /\ sock \in [Fds -> Conns \union {NoConn}]
  /\ fd \in [Conns -> Fds \union {0}]

\* The accept loop has the one connection that is not yet anybody else's; who
\* has not connected has no place on the server's side.
LoopHas ==
  /\ loop \in Admitting => cfd \in Conns /\ stage[cfd] = "admit"
  /\ loop \notin Admitting => cfd = NoConn
  /\ \A c \in Conns : stage[c] = "admit" => c = cfd
  /\ \A c \in Conns : client[c] = "away" => stage[c] = "none"
  /\ \A c \in Conns : stage[c] = "start" => server = "proxy"

\* The stages in which a connection has its descriptor.
Holding == (Threads \ {"uncount"}) \union {"admit", "lost"}

\* Descriptors and the connections that hold them point at each other.
Paired ==
  /\ \A c \in Conns : stage[c] \in Holding => fd[c] \in Fds /\ sock[fd[c]] = c
  /\ \A n \in Fds : sock[n] # NoConn => stage[sock[n]] \in Holding /\ fd[sock[n]] = n

Begun == {c \in Live : stage[c] # "start"}

Counted ==
  /\ threads = IF server = "api"
               THEN Cardinality(Live) + Cardinality(Lost) + (IF loop = "spawn" THEN 1 ELSE 0)
               ELSE Cardinality(Begun)
  /\ loop = "count" => server = "api"

GateInv == GateTypes /\ LoopHas /\ Paired /\ Counted

\* What the invariant speaks of.
coreVars == <<server, loop, cfd, threads, client, stage, sock, fd>>

-----------------------------------------------------------------------------
(* Counting.                                                                  *)

LEMMA SetsFinite ==
  /\ IsFiniteSet(Live) /\ IsFiniteSet(Lost) /\ IsFiniteSet(Begun)
  /\ Cardinality(Live) \in Nat /\ Cardinality(Lost) \in Nat /\ Cardinality(Begun) \in Nat
<1>1. Live \subseteq Conns /\ Lost \subseteq Conns /\ Begun \subseteq Conns
  BY DEF Live, Lost, Begun
<1> QED
  BY <1>1, ConnsAssumption, FS_Subset, FS_CardinalityType

\* A connection joins a set, or leaves it.
LEMMA Joins ==
  ASSUME NEW A, NEW x, IsFiniteSet(A), x \notin A
  PROVE  Cardinality(A \union {x}) = Cardinality(A) + 1
  BY FS_AddElement

LEMMA Leaves ==
  ASSUME NEW A, NEW x, IsFiniteSet(A), x \in A
  PROVE  Cardinality(A) \in Nat \ {0} /\ Cardinality(A \ {x}) = Cardinality(A) - 1
<1>1. IsFiniteSet(A \ {x}) /\ x \notin A \ {x} /\ A = (A \ {x}) \union {x}
  BY FS_Subset
<1>2. Cardinality(A \ {x}) \in Nat /\ Cardinality(A) = Cardinality(A \ {x}) + 1
  BY <1>1, Joins, FS_CardinalityType
<1> QED
  BY <1>2

\* A step that neither moves a connection across the bounds of these sets nor
\* counts keeps the count.
LEMMA SameCount ==
  ASSUME Counted, Live' = Live, Lost' = Lost, Begun' = Begun,
         UNCHANGED <<server, threads>>, loop' = "spawn" <=> loop = "spawn",
         loop' = "count" => loop = "count"
  PROVE  Counted'
  BY DEF Counted

-----------------------------------------------------------------------------
(* Threads.                                                                   *)

\* The stages of a thread that is counted and has its descriptor.
Working == Threads \ {"start", "uncount"}

LEMMA WorkingKeeps ==
  ASSUME GateInv, NEW c \in Conns, stage[c] \in Working, NEW to \in Working,
         stage' = [stage EXCEPT ![c] = to],
         UNCHANGED <<server, loop, cfd, threads, client, sock, fd>>
  PROVE  GateInv'
<1>1. GateTypes'
  BY DEF GateInv, GateTypes, Working, Stages, Threads
<1>2. LoopHas'
  BY DEF GateInv, GateTypes, LoopHas, Admitting, Working, Threads
<1>3. Paired'
  BY DEF GateInv, GateTypes, Paired, Holding, Working, Threads
<1>4. Live' = Live /\ Lost' = Lost /\ Begun' = Begun
  BY DEF GateInv, GateTypes, Live, Lost, Begun, Working, Threads
<1>5. Counted'
  BY <1>4, SameCount DEF GateInv
<1> QED
  BY <1>1, <1>2, <1>3, <1>5 DEF GateInv

LEMMA CoreSame ==
  ASSUME GateInv, UNCHANGED coreVars
  PROVE  GateInv'
<1>1. Live' = Live /\ Lost' = Lost /\ Begun' = Begun
  BY DEF coreVars, Live, Lost, Begun
<1>2. Counted'
  BY <1>1, SameCount DEF GateInv, coreVars
<1> QED
  BY <1>2 DEF GateInv, coreVars, GateTypes, LoopHas, Paired

LEMMA WaitsKeep ==
  ASSUME GateInv, NEW c \in Conns, Waits(c)
  PROVE  GateInv'
<1>1. CASE StreamWrite(c)
  BY <1>1, CoreSame DEF StreamWrite, coreVars, loopVars, connVars, fdVars
<1>2. CASE ~StreamWrite(c)
  <2>1. UNCHANGED <<server, loop, cfd, threads, client, sock, fd>>
    BY <1>2 DEF Waits, Authenticate, Work, Emit, StreamSelect, Log, Parse, ParseFails, Respond,
       loopVars, connVars, fdVars
  <2>2. PICK to \in Working : stage[c] \in Working /\ stage' = [stage EXCEPT ![c] = to]
    BY <1>2 DEF Waits, Authenticate, Work, Emit, StreamSelect, Log, Parse, ParseFails, Respond, Moves,
       FirstStage, Working, Threads
  <2> QED
    BY <2>1, <2>2, WorkingKeeps
<1> QED
  BY <1>1, <1>2

LEMMA StartKeeps ==
  ASSUME GateInv, NEW c \in Conns, Start(c)
  PROVE  GateInv'
<1>1. /\ stage[c] = "start" /\ stage' = [stage EXCEPT ![c] = "parse"] /\ threads' = threads + 1
      /\ UNCHANGED <<server, loop, cfd, client, sock, fd>>
  BY DEF Start, Moves, loopVars, fdVars
<1>2. GateTypes'
  BY <1>1 DEF GateInv, GateTypes, Stages, Threads
<1>3. LoopHas'
  BY <1>1 DEF GateInv, GateTypes, LoopHas, Admitting
<1>4. Paired'
  BY <1>1 DEF GateInv, GateTypes, Paired, Holding, Threads
<1>5. server = "proxy"
  BY <1>1 DEF GateInv, LoopHas
<1>6. Begun' = Begun \union {c} /\ c \notin Begun
  BY <1>1 DEF GateInv, GateTypes, Live, Begun, Threads
<1>7. Cardinality(Begun') = Cardinality(Begun) + 1
  BY <1>6, Joins, SetsFinite
<1>8. Counted'
  BY <1>1, <1>5, <1>7 DEF GateInv, Counted
<1> QED
  BY <1>2, <1>3, <1>4, <1>8 DEF GateInv

\* The socket of a connection is closed when it leaves the stages that hold one.
LEMMA ClosesKeeps ==
  ASSUME GateInv, NEW c \in Conns, stage[c] \in Holding, NEW to \in Stages \ Holding,
         stage' = [stage EXCEPT ![c] = to], Closes(c)
  PROVE  Paired' /\ sock' \in [Fds -> Conns \union {NoConn}] /\ fd' = fd
<1>1. /\ sock \in [Fds -> Conns \union {NoConn}] /\ fd \in [Conns -> Fds \union {0}]
      /\ stage \in [Conns -> Stages]
  BY DEF GateInv, GateTypes
<1>2. fd[c] \in Fds /\ sock[fd[c]] = c
  BY DEF GateInv, Paired
<1>3. sock' = [sock EXCEPT ![fd[c]] = NoConn] /\ fd' = fd
  BY DEF Closes
<1>4. ASSUME NEW d \in Conns, stage'[d] \in Holding PROVE fd'[d] \in Fds /\ sock'[fd'[d]] = d
  <2>1. d # c /\ stage[d] \in Holding
    BY <1>1, <1>4
  <2>2. fd[d] \in Fds /\ sock[fd[d]] = d
    BY <2>1 DEF GateInv, Paired
  <2> QED
    BY <1>1, <1>2, <1>3, <2>1, <2>2
<1>5. ASSUME NEW n \in Fds, sock'[n] # NoConn PROVE stage'[sock'[n]] \in Holding /\ fd'[sock'[n]] = n
  <2>1. n # fd[c] /\ sock'[n] = sock[n]
    BY <1>1, <1>2, <1>3, <1>5
  <2>2. sock[n] \in Conns /\ stage[sock[n]] \in Holding /\ fd[sock[n]] = n
    BY <1>1, <1>5, <2>1 DEF GateInv, Paired
  <2>3. sock[n] # c
    BY <2>1, <2>2
  <2> QED
    BY <1>1, <1>3, <2>1, <2>2, <2>3
<1> QED
  BY <1>1, <1>3, <1>4, <1>5 DEF Paired

LEMMA CloseKeeps ==
  ASSUME GateInv, NEW c \in Conns, Close(c)
  PROVE  GateInv'
<1>1. /\ stage[c] = "close" /\ stage' = [stage EXCEPT ![c] = "uncount"] /\ Closes(c)
      /\ UNCHANGED <<server, loop, cfd, threads, client>>
  BY DEF Close, Moves, loopVars
<1>2. Paired' /\ sock' \in [Fds -> Conns \union {NoConn}] /\ fd' = fd
  BY <1>1, ClosesKeeps DEF Holding, Threads, Stages
<1>3. GateTypes'
  BY <1>1, <1>2 DEF GateInv, GateTypes, Stages, Threads
<1>4. LoopHas'
  BY <1>1 DEF GateInv, GateTypes, LoopHas, Admitting
<1>5. Live' = Live /\ Lost' = Lost /\ Begun' = Begun
  BY <1>1 DEF GateInv, GateTypes, Live, Lost, Begun, Threads
<1>6. Counted'
  BY <1>1, <1>5, SameCount DEF GateInv
<1> QED
  BY <1>2, <1>3, <1>4, <1>6 DEF GateInv

LEMMA UncountKeeps ==
  ASSUME GateInv, NEW c \in Conns, Uncount(c)
  PROVE  GateInv'
<1>1. /\ stage[c] = "uncount" /\ stage' = [stage EXCEPT ![c] = "done"] /\ threads' = threads - 1
      /\ UNCHANGED <<server, loop, cfd, client, sock, fd>>
  BY DEF Uncount, Moves, loopVars, fdVars
<1>2. /\ Live' = Live \ {c} /\ c \in Live /\ Lost' = Lost
      /\ Begun' = Begun \ {c} /\ c \in Begun
  BY <1>1 DEF GateInv, GateTypes, Live, Lost, Begun, Threads
<1>3. /\ Cardinality(Live') = Cardinality(Live) - 1 /\ Cardinality(Live) \in Nat \ {0}
      /\ Cardinality(Begun') = Cardinality(Begun) - 1 /\ Cardinality(Begun) \in Nat \ {0}
      /\ Cardinality(Lost) \in Nat
  BY <1>2, Leaves, SetsFinite
<1>4. threads' \in Nat
  BY <1>1, <1>3 DEF GateInv, Counted
<1>5. GateTypes'
  BY <1>1, <1>4 DEF GateInv, GateTypes, Stages, Admitting
<1>6. LoopHas'
  BY <1>1 DEF GateInv, GateTypes, LoopHas, Admitting
<1>7. Paired'
  BY <1>1 DEF GateInv, GateTypes, Paired, Holding, Threads
<1>8. Counted'
  BY <1>1, <1>2, <1>3, LimitAssumption DEF GateInv, GateTypes, Counted
<1> QED
  BY <1>5, <1>6, <1>7, <1>8 DEF GateInv

LEMMA LocalKeeps ==
  ASSUME GateInv, NEW c \in Conns, Local(c)
  PROVE  GateInv'
<1>1. CASE Limit(c) \/ StreamGoes(c) \/ StreamBroken(c) \/ StreamPause(c) \/ StreamEnd(c)
  <2>1. UNCHANGED <<server, loop, cfd, threads, client, sock, fd>>
    BY <1>1 DEF Limit, StreamGoes, StreamBroken, StreamPause, StreamEnd, loopVars, fdVars
  <2>2. PICK to \in Working : stage[c] \in Working /\ stage' = [stage EXCEPT ![c] = to]
    BY <1>1 DEF Limit, StreamGoes, StreamBroken, StreamPause, StreamEnd, Moves, AfterLimit, Working, Threads
  <2> QED
    BY <2>1, <2>2, WorkingKeeps
<1> QED
  BY <1>1, StartKeeps, CloseKeeps, UncountKeeps DEF Local

LEMMA ClientKeeps ==
  ASSUME GateInv, NEW c \in Conns, ClientStep(c)
  PROVE  GateInv'
<1>1. /\ UNCHANGED <<server, loop, cfd, threads, sock, fd>>
      /\ client' \in [Conns -> {"away", "ready", "stalled", "gone", "reset"}]
      /\ \A d \in Conns : client'[d] = "away" => client[d] = "away" /\ d # c
  BY DEF GateInv, GateTypes, ClientStep, Connect, Stall, Resume, Hangup, Reset, ClientGoes, loopVars, fdVars
<1>2. CASE Connect(c)
  <2>1. stage' = [stage EXCEPT ![c] = "backlog"] /\ stage[c] = "none"
    BY <1>2 DEF GateInv, LoopHas, Connect, ClientGoes
  <2>2. GateTypes'
    BY <1>1, <2>1 DEF GateInv, GateTypes, Stages, Early
  <2>3. LoopHas'
    BY <1>1, <2>1 DEF GateInv, GateTypes, LoopHas, Admitting
  <2>4. Paired'
    BY <1>1, <2>1 DEF GateInv, GateTypes, Paired, Holding, Threads
  <2>5. Live' = Live /\ Lost' = Lost /\ Begun' = Begun
    BY <2>1 DEF GateInv, GateTypes, Live, Lost, Begun, Threads
  <2>6. Counted'
    BY <1>1, <2>5, SameCount DEF GateInv
  <2> QED
    BY <2>2, <2>3, <2>4, <2>6 DEF GateInv
<1>3. CASE ~Connect(c)
  <2>1. stage' = stage
    BY <1>3 DEF ClientStep, Stall, Resume, Hangup, Reset
  <2>2. Live' = Live /\ Lost' = Lost /\ Begun' = Begun
    BY <2>1 DEF Live, Lost, Begun
  <2>3. Counted'
    BY <1>1, <2>2, SameCount DEF GateInv
  <2> QED
    BY <1>1, <2>1, <2>3 DEF GateInv, GateTypes, LoopHas, Paired
<1> QED
  BY <1>2, <1>3

-----------------------------------------------------------------------------
(* The accept loop.                                                           *)

LEMMA TestKeeps ==
  ASSUME GateInv, LoopTest \/ AcceptFails \/ Signal
  PROVE  GateInv'
<1>1. /\ loop' \in {"test", "accept", "exited", loop}
      /\ loop' \in Admitting <=> loop \in Admitting
      /\ loop' \in Admitting => loop' = loop
      /\ UNCHANGED <<server, cfd, threads, client, stage, sock, fd>>
  BY DEF LoopTest, AcceptFails, Signal, Admitting, connVars, fdVars
<1>2. Live' = Live /\ Lost' = Lost /\ Begun' = Begun
  BY <1>1 DEF Live, Lost, Begun
<1>3. Counted'
  BY <1>1, <1>2, SameCount DEF GateInv, Admitting
<1>4. GateTypes'
  BY <1>1 DEF GateInv, GateTypes
<1>5. LoopHas'
  BY <1>1 DEF GateInv, LoopHas
<1>6. Paired'
  BY <1>1 DEF GateInv, Paired
<1> QED
  BY <1>3, <1>4, <1>5, <1>6 DEF GateInv

LEMMA AcceptKeeps ==
  ASSUME GateInv, NEW c \in Conns, Accept(c)
  PROVE  GateInv'
<1>1. PICK n \in Fds : sock[n] = NoConn /\ sock' = [sock EXCEPT ![n] = c] /\ fd' = [fd EXCEPT ![c] = n]
  BY DEF Accept, Opens, FreeFds
<1>2. /\ loop = "accept" /\ loop' = "admit" /\ cfd' = c
      /\ stage[c] = "backlog" /\ stage' = [stage EXCEPT ![c] = "admit"]
      /\ UNCHANGED <<server, threads, client>>
  BY DEF Accept
<1>3. GateTypes'
  BY <1>1, <1>2 DEF GateInv, GateTypes, Stages, Admitting
<1>4. cfd = NoConn /\ NoConn \notin Conns
  BY <1>2, ConnsAssumption DEF GateInv, LoopHas, Admitting
<1>5. LoopHas'
  BY <1>2, <1>4 DEF GateInv, GateTypes, LoopHas, Admitting
<1>6. Paired'
  <2>1. ASSUME NEW d \in Conns, stage'[d] \in Holding PROVE fd'[d] \in Fds /\ sock'[fd'[d]] = d
    <3>1. CASE d = c
      BY <1>1, <3>1 DEF GateInv, GateTypes
    <3>2. CASE d # c
      <4>1. fd[d] \in Fds /\ sock[fd[d]] = d /\ fd'[d] = fd[d]
        BY <1>1, <1>2, <2>1, <3>2 DEF GateInv, GateTypes, Paired
      <4>2. fd[d] # n
        BY <1>1, <1>4, <4>1
      <4> QED
        BY <1>1, <4>1, <4>2 DEF GateInv, GateTypes
    <3> QED
      BY <3>1, <3>2
  <2>2. ASSUME NEW m \in Fds, sock'[m] # NoConn PROVE stage'[sock'[m]] \in Holding /\ fd'[sock'[m]] = m
    <3>1. CASE m = n
      BY <1>1, <1>2, <3>1 DEF GateInv, GateTypes, Holding
    <3>2. CASE m # n
      <4>1. sock'[m] = sock[m] /\ sock[m] \in Conns /\ stage[sock[m]] \in Holding /\ fd[sock[m]] = m
        BY <1>1, <2>2, <3>2 DEF GateInv, GateTypes, Paired
      <4>2. sock[m] # c
        BY <1>2, <4>1 DEF Holding, Threads
      <4> QED
        BY <1>1, <1>2, <4>1, <4>2 DEF GateInv, GateTypes
    <3> QED
      BY <3>1, <3>2
  <2> QED
    BY <2>1, <2>2 DEF Paired
<1>7. Live' = Live /\ Lost' = Lost /\ Begun' = Begun
  BY <1>2 DEF GateInv, GateTypes, Live, Lost, Begun, Threads
<1>8. Counted'
  BY <1>2, <1>7, SameCount DEF GateInv
<1> QED
  BY <1>3, <1>5, <1>6, <1>8 DEF GateInv

\* The connection is closed by the loop: refused, or without its thread.
LEMMA DropKeeps ==
  ASSUME GateInv, loop \in {"admit", "spawn"}, loop = "spawn" => server = "proxy",
         Closes(cfd), stage' = [stage EXCEPT ![cfd] = "done"], loop' = "test", cfd' = NoConn,
         UNCHANGED <<server, threads, client>>
  PROVE  GateInv'
<1> DEFINE c == cfd
<1>1. c \in Conns /\ stage[c] = "admit"
  BY DEF GateInv, LoopHas, Admitting
<1>2. Paired' /\ sock' \in [Fds -> Conns \union {NoConn}] /\ fd' = fd
  BY <1>1, ClosesKeeps DEF Holding, Threads, Stages
<1>3. GateTypes'
  BY <1>1, <1>2 DEF GateInv, GateTypes, Stages, Admitting
<1>4. LoopHas'
  BY <1>1 DEF GateInv, GateTypes, LoopHas, Admitting
<1>5. Live' = Live /\ Lost' = Lost /\ Begun' = Begun
  BY <1>1 DEF GateInv, GateTypes, Live, Lost, Begun, Threads
<1>6. Counted'
  BY <1>5 DEF GateInv, GateTypes, Counted
<1> QED
  BY <1>2, <1>3, <1>4, <1>6 DEF GateInv

LEMMA AdmitKeeps ==
  ASSUME GateInv, Admit
  PROVE  GateInv'
<1>1. /\ loop = "admit" /\ loop' = IF server = "api" THEN "count" ELSE "spawn"
      /\ UNCHANGED <<server, cfd, threads, client, stage, sock, fd>>
  BY DEF Admit, connVars, fdVars
<1>2. Live' = Live /\ Lost' = Lost /\ Begun' = Begun
  BY <1>1 DEF Live, Lost, Begun
<1>3. Counted'
  BY <1>1, <1>2 DEF GateInv, Counted
<1>4. GateTypes' /\ LoopHas' /\ Paired'
  BY <1>1 DEF GateInv, GateTypes, LoopHas, Paired, Admitting
<1> QED
  BY <1>3, <1>4 DEF GateInv

LEMMA CountInKeeps ==
  ASSUME GateInv, CountIn
  PROVE  GateInv'
<1>1. /\ loop = "count" /\ loop' = "spawn" /\ threads' = threads + 1 /\ server = "api"
      /\ UNCHANGED <<server, cfd, client, stage, sock, fd>>
  BY DEF CountIn, connVars, fdVars, GateInv, Counted
<1>2. Live' = Live /\ Lost' = Lost /\ Begun' = Begun
  BY <1>1 DEF Live, Lost, Begun
<1>3. Counted'
  BY <1>1, <1>2, SetsFinite DEF GateInv, Counted
<1>4. GateTypes' /\ LoopHas' /\ Paired'
  BY <1>1 DEF GateInv, GateTypes, LoopHas, Paired, Admitting
<1> QED
  BY <1>3, <1>4 DEF GateInv

LEMMA SpawnKeeps ==
  ASSUME GateInv, Spawn \/ SpawnFails
  PROVE  GateInv'
<1>1. loop = "spawn" /\ loop' = "test" /\ cfd' = NoConn /\ UNCHANGED <<server, threads, client>>
  BY DEF Spawn, SpawnFails
<1>2. cfd \in Conns /\ stage[cfd] = "admit"
  BY <1>1 DEF GateInv, LoopHas, Admitting
<1>3. CASE SpawnFails /\ server # "api"
  <2>1. server = "proxy"
    BY <1>3 DEF GateInv, GateTypes
  <2>2. Closes(cfd) /\ stage' = [stage EXCEPT ![cfd] = "done"]
    BY <1>3 DEF SpawnFails
  <2> QED
    BY <1>1, <2>1, <2>2, DropKeeps
<1>4. CASE Spawn \/ server = "api"
  <2>1. PICK to \in {"parse", "start", "lost"} :
          /\ stage' = [stage EXCEPT ![cfd] = to] /\ UNCHANGED <<sock, fd>>
          /\ server = "api" <=> to # "start"
    BY <1>4 DEF Spawn, SpawnFails, fdVars
  <2>2. GateTypes'
    BY <1>1, <2>1 DEF GateInv, GateTypes, Stages, Threads
  <2>3. LoopHas'
    BY <1>1, <1>2, <2>1 DEF GateInv, GateTypes, LoopHas, Admitting
  <2>4. Paired'
    BY <1>2, <2>1 DEF GateInv, GateTypes, Paired, Holding, Threads
  <2>5. Counted'
    <3>1. CASE to = "start"
      <4>1. Begun' = Begun
        BY <1>2, <2>1, <3>1 DEF GateInv, GateTypes, Live, Begun, Threads
      <4> QED
        BY <1>1, <2>1, <3>1, <4>1 DEF GateInv, Counted
    <3>2. CASE to = "parse"
      <4>1. Live' = Live \union {cfd} /\ cfd \notin Live /\ Lost' = Lost
        BY <1>2, <2>1, <3>2 DEF GateInv, GateTypes, Live, Lost, Threads
      <4>2. Cardinality(Live') = Cardinality(Live) + 1
        BY <4>1, Joins, SetsFinite
      <4> QED
        BY <1>1, <2>1, <3>2, <4>1, <4>2, SetsFinite DEF GateInv, Counted
    <3>3. CASE to = "lost"
      <4>1. Lost' = Lost \union {cfd} /\ cfd \notin Lost /\ Live' = Live
        BY <1>2, <2>1, <3>3 DEF GateInv, GateTypes, Live, Lost, Threads
      <4>2. Cardinality(Lost') = Cardinality(Lost) + 1
        BY <4>1, Joins, SetsFinite
      <4> QED
        BY <1>1, <2>1, <3>3, <4>1, <4>2, SetsFinite DEF GateInv, Counted
    <3> QED
      BY <3>1, <3>2, <3>3
  <2> QED
    BY <2>2, <2>3, <2>4, <2>5 DEF GateInv
<1> QED
  BY <1>3, <1>4

LEMMA LoopKeeps ==
  ASSUME GateInv, LoopStep
  PROVE  GateInv'
<1>1. CASE Refuse
  BY <1>1, DropKeeps DEF Refuse
<1> QED
  BY <1>1, TestKeeps, AcceptKeeps, AdmitKeeps, CountInKeeps, SpawnKeeps DEF LoopStep

-----------------------------------------------------------------------------
LEMMA InitHolds == Init => GateInv
<1> SUFFICES ASSUME Init PROVE GateInv
  OBVIOUS
<1>1. GateTypes
  BY ServersAssumption DEF Init, GateTypes, Stages, Early
<1>2. LoopHas
  BY DEF Init, LoopHas, Admitting
<1>3. Paired
  BY DEF Init, Paired, Holding, Threads
<1>4. Live = {} /\ Lost = {} /\ Begun = {}
  BY DEF Init, Live, Lost, Begun, Threads
<1>5. Counted
  BY <1>4, FS_EmptySet, LimitAssumption DEF Init, Counted
<1> QED
  BY <1>1, <1>2, <1>3, <1>5 DEF GateInv

LEMMA GateInvariant == Spec => []GateInv
<1>1. GateInv /\ [Next]_vars => GateInv'
  <2> SUFFICES ASSUME GateInv, [Next]_vars PROVE GateInv'
    OBVIOUS
  <2>1. CASE LoopStep \/ Signal
    BY <2>1, LoopKeeps, TestKeeps
  <2>2. CASE Clock \/ UNCHANGED vars
    BY <2>2, CoreSame DEF Clock, vars, gateVars, loopVars, connVars, fdVars, coreVars
  <2>3. CASE \E c \in Conns : ClientStep(c) \/ Waits(c) \/ Local(c)
    BY <2>3, ClientKeeps, WaitsKeep, LocalKeeps
  <2> QED
    BY <2>1, <2>2, <2>3 DEF Next
<1> QED
  BY <1>1, InitHolds, PTL DEF Spec

\* g_thread_count is exact on every way through the loop and the threads.
THEOREM ThreadsAreCounted == Spec => []CountExact
<1>1. GateInv => CountExact
  BY DEF GateInv, Counted, CountExact, Begun
<1> QED
  BY <1>1, GateInvariant, PTL

\* A thread's descriptor stands for the socket of its own client until it has
\* closed it, and no open socket is forgotten but the lost ones.
THEOREM SocketsAreOwned == Spec => []OwnSocket
<1>1. ASSUME GateInv PROVE OwnSocket
  <2>1. ASSUME NEW c \in Live, stage[c] # "uncount" PROVE fd[c] # 0 /\ sock[fd[c]] = c
    <3>1. c \in Conns /\ stage[c] \in Holding
      BY <2>1 DEF Live, Holding
    <3>2. fd[c] \in Fds /\ sock[fd[c]] = c
      BY <1>1, <3>1 DEF GateInv, Paired
    <3> QED
      BY <3>2, LimitAssumption DEF Fds
  <2>2. ASSUME NEW n \in Fds, sock[n] # NoConn PROVE sock[n] = cfd \/ sock[n] \in Live \union Lost
    <3>1. sock[n] \in Conns /\ stage[sock[n]] \in Holding
      BY <1>1, <2>2 DEF GateInv, GateTypes, Paired
    <3> QED
      BY <1>1, <3>1 DEF GateInv, LoopHas, Holding, Live, Lost
  <2> QED
    BY <2>1, <2>2 DEF OwnSocket
<1> QED
  BY <1>1, GateInvariant, PTL

-----------------------------------------------------------------------------
(* The rate limiter: KeyRate, FreshOnce.                                      *)

\* What a key may have been granted that got a full bucket f times and was
\* refilled for d units of time.
Due(f, d) == f * Capacity + d * Refill

\* What a bucket is worth: its key has all of the refill up to its last use.
Worth(s) ==
  LET k == buckets[s].key IN
  /\ k \in Keys
  /\ fresh[k] > 0
  /\ born[k] <= buckets[s].last
  /\ buckets[s].tokens + granted[k] <= Due(fresh[k], buckets[s].last - born[k])

OneEach == \A s, t \in Taken : buckets[s].key = buckets[t].key => s = t

RateInv ==
  /\ RateTypeOK
  /\ \A s \in Entries : buckets[s].last <= now
  /\ OneEach
  /\ \A s \in Taken : Worth(s)
  /\ \A k \in Keys : born[k] <= now
  /\ \A k \in Keys : fresh[k] = 0 => granted[k] = 0
  /\ \A k \in Keys : granted[k] <= Due(fresh[k], now - born[k])

\* The arithmetic of Due, the only place where products occur.
LEMMA DueGrows ==
  ASSUME NEW f \in Nat, NEW d \in Nat, NEW e \in Nat
  PROVE  /\ Due(f, d) \in Nat
         /\ Due(f + 1, d) = Due(f, d) + Capacity
         /\ Due(f, d + e) = Due(f, d) + Refill * e
         /\ Refill * e \in Nat
<1>1. Capacity \in Nat /\ Refill \in Nat
  BY BucketAssumption
<1>2. \A a, b \in Nat : a * b \in Nat /\ b * a = a * b
  BY SMT
<1>3. \A a, b, c \in Nat : (a + b) * c = a * c + b * c
  BY SMT
<1>4. (f + 1) * Capacity = f * Capacity + 1 * Capacity /\ 1 * Capacity = Capacity
  BY <1>1, <1>3
<1>5. (d + e) * Refill = d * Refill + e * Refill /\ e * Refill = Refill * e
  BY <1>1, <1>2, <1>3
<1>6. f * Capacity \in Nat /\ d * Refill \in Nat /\ e * Refill \in Nat
  BY <1>1, <1>2
<1>7. /\ Due(f, d) = f * Capacity + d * Refill
      /\ Due(f + 1, d) = (f + 1) * Capacity + d * Refill
      /\ Due(f, d + e) = f * Capacity + (d + e) * Refill
  BY DEF Due
<1> DEFINE F == f * Capacity
           D == d * Refill
           E == e * Refill
<1>8. F \in Nat /\ D \in Nat /\ E \in Nat /\ Refill * e = E
  BY <1>5, <1>6
<1>9. Due(f, d) = F + D /\ Due(f + 1, d) = (F + Capacity) + D /\ Due(f, d + e) = F + (D + E)
  BY <1>4, <1>5, <1>7
<1> HIDE DEF F, D, E
<1> QED
  BY <1>1, <1>8, <1>9

\* A spending takes what it grants out of the bucket.
LEMMA RateTyped ==
  ASSUME RateTypeOK
  PROVE  /\ granted \in [Keys -> Nat] /\ fresh \in [Keys -> Nat] /\ born \in [Keys -> Nat] /\ now \in Nat
         /\ buckets \in [Entries -> [key : Keys \union {NoKey}, tokens : Nat, last : Nat]]
         /\ Taken \subseteq Entries
<1>1. nbuckets \in 0..MaxKeys /\ MaxKeys \in Nat
  BY BucketAssumption DEF RateTypeOK
<1>2. Taken \subseteq Entries
  BY <1>1 DEF Taken, Entries
<1> QED
  BY <1>2 DEF RateTypeOK

LEMMA SpendingSplits ==
  ASSUME NEW k \in Keys, NEW s \in Entries, NEW tokens \in Nat, RateTypeOK, Spend(k, s, tokens)
  PROVE  \E u, g \in Nat :
           /\ u + g = tokens
           /\ buckets' = [buckets EXCEPT ![s] = [key |-> k, tokens |-> u, last |-> now]]
           /\ granted' = [granted EXCEPT ![k] = granted[k] + g]
<1>1. CASE tokens >= Cost
  <2>1. tokens - Cost \in Nat /\ Cost \in Nat /\ (tokens - Cost) + Cost = tokens
    BY <1>1, BucketAssumption
  <2> QED
    BY <1>1, <2>1 DEF Spend
<1>2. CASE ~(tokens >= Cost)
  <2>1. granted' = [granted EXCEPT ![k] = granted[k] + 0]
    BY <1>2 DEF Spend, RateTypeOK
  <2>2. buckets' = [buckets EXCEPT ![s] = [key |-> k, tokens |-> tokens, last |-> now]]
    BY <1>2 DEF Spend
  <2>3. tokens + 0 = tokens /\ 0 \in Nat
    OBVIOUS
  <2> QED
    BY <2>1, <2>2, <2>3
<1> QED
  BY <1>1, <1>2

\* What holds after a spending by a key whose books are in order, in a bucket
\* that is its own or that it takes over.
LEMMA SpendingKeepsBooks ==
  ASSUME RateInv, NEW k \in Keys, NEW s \in Entries, NEW tokens \in Nat,
         Spend(k, s, tokens), now' = now,
         nbuckets' \in 0..MaxKeys, 1..nbuckets \subseteq 1..nbuckets', s \in 1..nbuckets',
         \A t \in 1..nbuckets' : t # s => t \in Taken /\ buckets[t].key # k,
         fresh' \in [Keys -> Nat], fresh'[k] > 0,
         \A j \in Keys \ {k} : fresh'[j] = fresh[j] /\ born'[j] = born[j],
         born' \in [Keys -> Nat], born'[k] <= now,
         tokens + granted[k] <= Due(fresh'[k], now - born'[k])
  PROVE  RateInv'
<1>1. PICK u \in Nat, g \in Nat :
        /\ u + g = tokens
        /\ buckets' = [buckets EXCEPT ![s] = [key |-> k, tokens |-> u, last |-> now]]
        /\ granted' = [granted EXCEPT ![k] = granted[k] + g]
  BY SpendingSplits DEF RateInv
<1>0. /\ granted \in [Keys -> Nat] /\ fresh \in [Keys -> Nat] /\ born \in [Keys -> Nat] /\ now \in Nat
      /\ buckets \in [Entries -> [key : Keys \union {NoKey}, tokens : Nat, last : Nat]]
      /\ Taken \subseteq Entries
  BY RateTyped DEF RateInv
<1>2. RateTypeOK'
  BY <1>1 DEF RateInv, RateTypeOK
<1>3. (\A t \in Entries : buckets[t].last <= now)'
  BY <1>1 DEF RateInv, RateTypeOK
<1>4. OneEach'
  <2>1. buckets'[s].key = k /\ \A t \in Entries : t # s => buckets'[t].key = buckets[t].key
    BY <1>0, <1>1
  <2>2. \A t \in Taken' : t # s => t \in Taken /\ t \in Entries /\ buckets[t].key # k
    BY <1>0 DEF Taken
  <2>3. \A a, b \in Taken' : buckets'[a].key = buckets'[b].key => a = b
    BY <2>1, <2>2 DEF RateInv, OneEach
  <2> QED
    BY <2>3 DEF OneEach
<1>5. ASSUME NEW t \in 1..nbuckets' PROVE Worth(t)'
  <2>1. CASE t = s
    <3>1. buckets'[s] = [key |-> k, tokens |-> u, last |-> now] /\ granted'[k] = granted[k] + g
      BY <1>0, <1>1
    <3>2. granted[k] \in Nat
      BY <1>0
    <3>3. u + (granted[k] + g) = tokens + granted[k]
      BY <1>1, <3>2
    <3> QED
      BY <2>1, <3>1, <3>3 DEF Worth, Due
  <2>2. CASE t # s
    <3>1. t \in Taken /\ buckets[t].key # k /\ Worth(t)
      BY <2>2 DEF RateInv
    <3>2. t \in Entries /\ buckets'[t] = buckets[t]
      BY <1>0, <1>1, <2>2, <3>1
    <3>3. granted'[buckets[t].key] = granted[buckets[t].key]
      BY <1>0, <1>1, <3>1 DEF Worth
    <3>4. fresh'[buckets[t].key] = fresh[buckets[t].key] /\ born'[buckets[t].key] = born[buckets[t].key]
      BY <3>1 DEF Worth
    <3> QED
      BY <3>1, <3>2, <3>3, <3>4 DEF Worth, Due
  <2> QED
    BY <2>1, <2>2
<1>6. (\A j \in Keys : born[j] <= now)'
  BY DEF RateInv
<1>7. (\A j \in Keys : fresh[j] = 0 => granted[j] = 0)'
  BY <1>1 DEF RateInv, RateTypeOK
<1>8. ASSUME NEW j \in Keys PROVE (granted[j] <= Due(fresh[j], now - born[j]))'
  <2>1. CASE j = k
    <3>1. granted'[k] = granted[k] + g /\ granted[k] \in Nat
      BY <1>1 DEF RateInv, RateTypeOK
    <3>2. fresh'[k] \in Nat /\ now - born'[k] \in Nat
      BY DEF RateInv, RateTypeOK
    <3>3. Due(fresh'[k], now - born'[k]) \in Nat
      BY <3>2, DueGrows
    <3>4. granted[k] + g <= Due(fresh'[k], now - born'[k])
      BY <1>1, <3>1, <3>3
    <3> QED
      BY <2>1, <3>1, <3>4 DEF Due
  <2>2. CASE j # k
    BY <1>1, <2>2 DEF RateInv, RateTypeOK, Due
  <2> QED
    BY <2>1, <2>2
<1> QED
  BY <1>2, <1>3, <1>4, <1>5, <1>6, <1>7, <1>8 DEF RateInv, Taken

LEMMA RateInvInit == RateInit => RateInv
<1> SUFFICES ASSUME RateInit PROVE RateInv
  OBVIOUS
<1>1. RateTypeOK /\ Taken = {}
  BY BucketAssumption, SMT DEF RateInit, RateTypeOK, Entries, Taken
<1>2. \A k \in Keys : granted[k] = 0 /\ fresh[k] = 0 /\ born[k] = 0 /\ now = 0
  BY DEF RateInit
<1>3. Due(0, 0) \in Nat
  BY DueGrows
<1>4. \A k \in Keys : granted[k] <= Due(fresh[k], now - born[k])
  BY <1>2, <1>3
<1> QED
  BY <1>1, <1>2, <1>4 DEF RateInit, RateInv, OneEach

\* A known key: its bucket is refilled for the time since its last use.
LEMMA KnownKeepsBooks ==
  ASSUME RateInv, NEW k \in Keys, CheckKnown(k)
  PROVE  RateInv'
<1>1. PICK s \in Entries : s \in Taken /\ buckets[s].key = k /\ Spend(k, s, Refilled(buckets[s]))
  BY DEF CheckKnown, BucketOf
<1>2. /\ buckets[s].tokens \in Nat /\ buckets[s].last \in Nat /\ now \in Nat
      /\ fresh[k] \in Nat /\ born[k] \in Nat /\ granted[k] \in Nat /\ nbuckets \in 0..MaxKeys
      /\ fresh \in [Keys -> Nat] /\ born \in [Keys -> Nat]
  BY <1>1 DEF RateInv, RateTypeOK
<1> DEFINE e == now - buckets[s].last
           d == buckets[s].last - born[k]
<1>3. e \in Nat /\ d \in Nat /\ d + e = now - born[k]
  BY <1>1, <1>2 DEF RateInv, Worth
<1>4. /\ Due(fresh[k], now - born[k]) = Due(fresh[k], d) + Refill * e
      /\ Refill * e \in Nat /\ Due(fresh[k], d) \in Nat
  BY <1>2, <1>3, DueGrows
<1>5. Refilled(buckets[s]) \in Nat /\ Refilled(buckets[s]) <= buckets[s].tokens + Refill * e
  BY <1>2, <1>4, BucketAssumption DEF Refilled, AtMost
<1>6. buckets[s].tokens + granted[k] <= Due(fresh[k], d)
  BY <1>1 DEF RateInv, Worth
<1>7. Refilled(buckets[s]) + granted[k] <= Due(fresh[k], now - born[k])
  BY <1>2, <1>4, <1>5, <1>6
<1>8. \A t \in Taken : t # s => buckets[t].key # k
  BY <1>1 DEF RateInv, OneEach
<1>9. nbuckets' = nbuckets /\ now' = now /\ fresh' = fresh /\ born' = born
  BY DEF CheckKnown
<1>10. fresh[k] > 0 /\ born[k] <= now
  BY <1>1 DEF RateInv, Worth
<1> HIDE DEF e, d
<1> QED
  BY <1>1, <1>2, <1>5, <1>7, <1>8, <1>9, <1>10, SpendingKeepsBooks DEF Taken

\* A new key: a full bucket, once more.
LEMMA NewKeepsBooks ==
  ASSUME RateInv, NEW k \in Keys, CheckNew(k)
  PROVE  RateInv'
<1>1. PICK s \in Entries : /\ s = IF nbuckets < MaxKeys THEN nbuckets + 1 ELSE 1
                           /\ Spend(k, s, Capacity)
  BY DEF CheckNew, BucketOf
<1>2. /\ now \in Nat /\ fresh[k] \in Nat /\ born[k] \in Nat /\ granted[k] \in Nat /\ nbuckets \in 0..MaxKeys
      /\ fresh \in [Keys -> Nat] /\ born \in [Keys -> Nat] /\ Capacity \in Nat /\ MaxKeys \in Nat \ {0}
  BY BucketAssumption DEF RateInv, RateTypeOK
<1>3. /\ nbuckets' = IF nbuckets < MaxKeys THEN nbuckets + 1 ELSE nbuckets
      /\ now' = now /\ fresh' = [fresh EXCEPT ![k] = fresh[k] + 1]
      /\ born' = IF fresh[k] = 0 THEN [born EXCEPT ![k] = now] ELSE born
  BY DEF CheckNew
<1>4. fresh' \in [Keys -> Nat] /\ born' \in [Keys -> Nat] /\ fresh'[k] = fresh[k] + 1
  BY <1>2, <1>3
<1>5. \A t \in Taken : buckets[t].key # k
  BY DEF CheckNew, HasBucket
<1>6. born'[k] <= now /\ \A j \in Keys \ {k} : fresh'[j] = fresh[j] /\ born'[j] = born[j]
  BY <1>2, <1>3 DEF RateInv
<1>7. granted[k] <= Due(fresh[k], now - born'[k])
  <2>1. CASE fresh[k] = 0
    <3>1. born'[k] = now /\ granted[k] = 0 /\ Due(fresh[k], 0) \in Nat
      BY <1>2, <1>3, <2>1, DueGrows DEF RateInv
    <3> QED
      BY <1>2, <3>1
  <2>2. CASE fresh[k] # 0
    BY <1>3, <2>2 DEF RateInv
  <2> QED
    BY <2>1, <2>2
<1>8. Capacity + granted[k] <= Due(fresh'[k], now - born'[k])
  <2>1. now - born'[k] \in Nat
    BY <1>2, <1>4, <1>6
  <2>2. Due(fresh[k] + 1, now - born'[k]) = Due(fresh[k], now - born'[k]) + Capacity
    BY <1>2, <2>1, DueGrows
  <2>3. Due(fresh[k], now - born'[k]) \in Nat
    BY <1>2, <2>1, DueGrows
  <2> QED
    BY <1>2, <1>4, <1>7, <2>2, <2>3
<1>9. /\ nbuckets' \in 0..MaxKeys /\ 1..nbuckets \subseteq 1..nbuckets' /\ s \in 1..nbuckets'
      /\ \A t \in 1..nbuckets' : t # s => t \in Taken
  BY <1>1, <1>2, <1>3 DEF Taken
<1> QED
  BY <1>1, <1>2, <1>3, <1>4, <1>5, <1>6, <1>8, <1>9, SpendingKeepsBooks

LEMMA RateInvNext == RateInv /\ [RateNext]_rateVars => RateInv'
<1> SUFFICES ASSUME RateInv, [RateNext]_rateVars PROVE RateInv'
  OBVIOUS
<1>0. /\ now \in Nat /\ \A k \in Keys : fresh[k] \in Nat /\ born[k] \in Nat /\ granted[k] \in Nat /\ born[k] <= now
      /\ \A k \in Keys : granted[k] <= Due(fresh[k], now - born[k])
  BY DEF RateInv, RateTypeOK
<1>1. CASE Tick
  <2>1. /\ now' = now + 1 /\ buckets' = buckets /\ nbuckets' = nbuckets
        /\ granted' = granted /\ fresh' = fresh /\ born' = born
    BY <1>1 DEF Tick
  <2>2. ASSUME NEW k \in Keys PROVE granted[k] <= Due(fresh[k], (now + 1) - born[k])
    <3>1. /\ now - born[k] \in Nat /\ fresh[k] \in Nat /\ granted[k] \in Nat
          /\ (now + 1) - born[k] = (now - born[k]) + 1
      BY <1>0
    <3>2. /\ Due(fresh[k], (now + 1) - born[k]) = Due(fresh[k], now - born[k]) + Refill * 1
          /\ Refill * 1 \in Nat /\ Due(fresh[k], now - born[k]) \in Nat
      <4> DEFINE d == now - born[k]
      <4>1. d \in Nat /\ 1 \in Nat /\ (now + 1) - born[k] = d + 1 /\ fresh[k] \in Nat
        BY <3>1
      <4> HIDE DEF d
      <4>2. /\ Due(fresh[k], d + 1) = Due(fresh[k], d) + Refill * 1
            /\ Refill * 1 \in Nat /\ Due(fresh[k], d) \in Nat
        BY <4>1, DueGrows
      <4> QED
        BY <4>1, <4>2 DEF d
    <3>3. \A a, b, c \in Nat : a <= b => a <= b + c
      OBVIOUS
    <3> QED
      BY <1>0, <3>1, <3>2, <3>3
  <2>3. RateTypeOK' /\ OneEach' /\ (\A s \in Taken : Worth(s))'
    BY <2>1 DEF RateInv, RateTypeOK, OneEach, Worth, Due, Taken
  <2>4. (\A s \in Entries : buckets[s].last <= now)' /\ (\A k \in Keys : born[k] <= now)'
    BY <2>1 DEF RateInv, RateTypeOK
  <2> QED
    BY <2>1, <2>2, <2>3, <2>4 DEF RateInv, Due
<1>2. ASSUME NEW k \in Keys, RateCheck(k) PROVE RateInv'
  BY <1>2, KnownKeepsBooks, NewKeepsBooks DEF RateCheck
<1>3. CASE UNCHANGED rateVars
  BY <1>3 DEF rateVars, RateInv, RateTypeOK, OneEach, Worth, Due, Taken
<1> QED
  BY <1>1, <1>2, <1>3 DEF RateNext

LEMMA RateInvAlways == RateSpec => []RateInv
  BY RateInvInit, RateInvNext, PTL DEF RateSpec

\* A key is granted at most what its full buckets and the time since its first
\* request give, however keys push each other out of the table (KeyRate).
THEOREM KeysAreLimited == RateSpec => []KeyRate
<1>1. RateInv => KeyRate
  BY DEF RateInv, KeyRate, Due
<1> QED
  BY <1>1, RateInvAlways, PTL

-----------------------------------------------------------------------------
(* The table.                                                                 *)

Seen == {k \in Keys : fresh[k] > 0}
InTable == {buckets[s].key : s \in Taken}

\* A key that once had a bucket has it still, while there are entries left; and
\* two full buckets for one key take more keys than the table has entries.
FreshInv ==
  /\ RateInv
  /\ IsFiniteSet(Seen)
  /\ nbuckets < MaxKeys => Seen \subseteq InTable
  /\ FreshOnce

\* The table holds as many keys as it has entries in use.
LEMMA TableSize ==
  ASSUME RateInv
  PROVE  IsFiniteSet(InTable) /\ Cardinality(InTable) = nbuckets /\ InTable \subseteq Seen
<1>1. nbuckets \in Nat /\ 0 \in Nat
  BY BucketAssumption DEF RateInv, RateTypeOK
<1>2. IsFiniteSet(1..nbuckets) /\ Cardinality(1..nbuckets) = nbuckets
  BY <1>1, FS_Interval
<1> DEFINE f == [s \in 1..nbuckets |-> buckets[s].key]
<1>3. f \in [1..nbuckets -> InTable] /\ \A x \in InTable : \E s \in 1..nbuckets : f[s] = x
  BY DEF InTable, Taken
<1>4. \A s, t \in 1..nbuckets : f[s] = f[t] => s = t
  BY DEF RateInv, OneEach, Taken
<1>5. f \in Bijection(1..nbuckets, InTable)
  BY <1>3, <1>4 DEF Bijection, Injection, Surjection, IsInjective
<1>6. ExistsBijection(1..nbuckets, InTable)
  BY <1>5 DEF ExistsBijection
<1>7. InTable \subseteq Seen
  BY DEF RateInv, Worth, InTable, Seen
<1> QED
  BY <1>2, <1>6, <1>7, FS_Bijection

LEMMA FreshInvInit == RateInit => FreshInv
<1> SUFFICES ASSUME RateInit PROVE FreshInv
  OBVIOUS
<1>1. Seen = {} /\ \A k \in Keys : fresh[k] = 0
  BY DEF RateInit, Seen
<1> QED
  BY <1>1, RateInvInit, FS_EmptySet DEF FreshInv, FreshOnce

LEMMA FreshInvNew ==
  ASSUME FreshInv, NEW k \in Keys, CheckNew(k)
  PROVE  FreshInv'
<1>1. RateInv /\ RateInv'
  BY NewKeepsBooks DEF FreshInv
<1>2. /\ fresh \in [Keys -> Nat] /\ nbuckets \in 0..MaxKeys /\ MaxKeys \in Nat \ {0}
      /\ buckets \in [Entries -> [key : Keys \union {NoKey}, tokens : Nat, last : Nat]]
  BY <1>1, BucketAssumption DEF RateInv, RateTypeOK
<1>3. fresh' = [fresh EXCEPT ![k] = fresh[k] + 1]
  BY DEF CheckNew
<1>4. Seen' = Seen \union {k}
  BY <1>2, <1>3 DEF Seen
<1>5. IsFiniteSet(Seen) /\ IsFiniteSet(Seen')
  BY <1>4, FS_AddElement DEF FreshInv
<1>6. k \notin InTable
  BY DEF CheckNew, HasBucket, InTable
<1>7. ASSUME nbuckets' < MaxKeys PROVE Seen' \subseteq InTable'
  <2>1. nbuckets < MaxKeys /\ nbuckets' = nbuckets + 1
    BY <1>2, <1>7 DEF CheckNew
  <2>2. PICK s \in Entries : s = nbuckets + 1 /\ Spend(k, s, Capacity)
    BY <2>1 DEF CheckNew, BucketOf
  <2>3. buckets'[s].key = k /\ \A t \in Entries : t # s => buckets'[t] = buckets[t]
    BY <1>2, <2>2 DEF Spend
  <2>4. Taken' = Taken \union {s} /\ s \notin Taken /\ Taken \subseteq Entries
    <3>1. s = nbuckets + 1 /\ nbuckets' = nbuckets + 1 /\ nbuckets \in Nat /\ nbuckets < MaxKeys /\ MaxKeys \in Nat
      BY <1>2, <2>1, <2>2
    <3> QED
      BY ONLY <3>1 DEF Taken, Entries
  <2>5. InTable' = InTable \union {k}
    BY <2>3, <2>4 DEF InTable
  <2> QED
    BY <1>4, <2>1, <2>5 DEF FreshInv
<1>8. FreshOnce'
  <2> SUFFICES ASSUME Cardinality(Seen') <= MaxKeys PROVE \A j \in Keys : fresh'[j] <= 1
    BY DEF FreshOnce, Seen
  <2>1. Cardinality(Seen) \in Nat /\ Cardinality(Seen') \in Nat /\ Cardinality(Seen) <= Cardinality(Seen')
    BY <1>4, <1>5, FS_Subset, FS_CardinalityType
  <2>2. \A j \in Keys : fresh[j] <= 1
    BY <1>2, <2>1 DEF FreshInv, FreshOnce, Seen
  <2>3. CASE fresh[k] = 0
    BY <1>2, <1>3, <2>2, <2>3
  <2>4. CASE fresh[k] # 0
    <3>1. k \in Seen /\ Seen' = Seen
      BY <1>2, <1>4, <2>4 DEF Seen
    <3>2. nbuckets = MaxKeys
      BY <1>2, <1>6, <3>1 DEF FreshInv
    <3>3. IsFiniteSet(InTable) /\ Cardinality(InTable) = MaxKeys /\ InTable \union {k} \subseteq Seen
      BY <1>1, <3>1, <3>2, TableSize
    <3>4. Cardinality(InTable \union {k}) = MaxKeys + 1
      BY <1>6, <3>3, FS_AddElement
    <3>5. Cardinality(InTable \union {k}) <= Cardinality(Seen)
      BY <1>5, <3>3, FS_Subset
    <3> QED
      BY <1>2, <2>1, <3>1, <3>4, <3>5
  <2> QED
    BY <2>3, <2>4
<1> QED
  BY <1>1, <1>5, <1>7, <1>8 DEF FreshInv

LEMMA FreshInvKnown ==
  ASSUME FreshInv, NEW k \in Keys, CheckKnown(k)
  PROVE  FreshInv'
<1>1. RateInv /\ RateInv'
  BY KnownKeepsBooks DEF FreshInv
<1>2. PICK s \in Entries : s \in Taken /\ buckets[s].key = k /\ Spend(k, s, Refilled(buckets[s]))
  BY DEF CheckKnown, BucketOf
<1>3. nbuckets' = nbuckets /\ fresh' = fresh
  BY DEF CheckKnown
<1>4. buckets \in [Entries -> [key : Keys \union {NoKey}, tokens : Nat, last : Nat]] /\ Taken \subseteq Entries
  BY <1>1, RateTyped DEF RateInv
<1>5. \A t \in Taken : buckets'[t].key = buckets[t].key
  BY <1>2, <1>4 DEF Spend
<1>6. InTable' = InTable /\ Seen' = Seen
  BY <1>3, <1>5 DEF InTable, Seen, Taken
<1> QED
  BY <1>1, <1>3, <1>6 DEF FreshInv, FreshOnce

LEMMA FreshInvNext == FreshInv /\ [RateNext]_rateVars => FreshInv'
<1> SUFFICES ASSUME FreshInv, [RateNext]_rateVars PROVE FreshInv'
  OBVIOUS
<1>1. RateInv'
  BY RateInvNext DEF FreshInv
<1>2. CASE Tick \/ UNCHANGED rateVars
  <2>1. buckets' = buckets /\ nbuckets' = nbuckets /\ fresh' = fresh
    BY <1>2 DEF Tick, rateVars
  <2> QED
    BY <1>1, <2>1 DEF FreshInv, FreshOnce, Seen, InTable, Taken
<1>3. ASSUME NEW k \in Keys, RateCheck(k) PROVE FreshInv'
  BY <1>3, FreshInvNew, FreshInvKnown DEF RateCheck
<1> QED
  BY <1>2, <1>3 DEF RateNext

\* While no more keys are used than the table has entries, no key is given a
\* second full bucket (FreshOnce).
THEOREM BucketsAreKept == RateSpec => []FreshOnce
<1>1. FreshInv => FreshOnce
  BY DEF FreshInv
<1> QED
  BY <1>1, FreshInvInit, FreshInvNext, PTL DEF RateSpec

-----------------------------------------------------------------------------
(* g_db_mutex, and what the threads ask of the rate limiter.                  *)

Served ==
  /\ running \in BOOLEAN
  /\ server \in Servers
  /\ request \in [Conns -> Request]
  /\ dbMutex \in Conns \union {NoConn}
  /\ rows \in [Conns -> 0..MaxRows]

\* The limiter is asked about requests that carry a key.
KeyShown == \A c \in Conns : stage[c] \in {"auth", "limit"} => request[c].key \in Keys

ServedInv == GateInv /\ Served /\ MutexGivenBack /\ KeyShown

\* What is added to the invariant speaks of these besides the stages.
servedVars == <<running, server, request, dbMutex, rows>>

\* Nobody enters or leaves the writing of rows, or shows a key.
LEMMA MutexStays ==
  ASSUME ServedInv, UNCHANGED servedVars,
         \A c \in Conns : stage'[c] = "write" <=> stage[c] = "write",
         \A c \in Conns : stage'[c] \in {"auth", "limit"} => stage[c] \in {"auth", "limit"}
  PROVE  Served' /\ MutexGivenBack' /\ KeyShown'
  BY DEF ServedInv, Served, MutexGivenBack, KeyShown, servedVars

LEMMA LoopServes ==
  ASSUME ServedInv, LoopStep
  PROVE  Served' /\ MutexGivenBack' /\ KeyShown'
<1>1. UNCHANGED servedVars
  BY DEF LoopStep, LoopTest, Accept, AcceptFails, Refuse, Admit, CountIn, Spawn, SpawnFails,
     connVars, dbVars, servedVars
<1>2. stage \in [Conns -> Stages]
  BY DEF ServedInv, GateInv, GateTypes
<1>3. CASE stage' = stage
  BY <1>1, <1>3, MutexStays
<1>4. CASE \E c \in Conns : Accept(c)
  <2>1. PICK c \in Conns : stage[c] = "backlog" /\ stage' = [stage EXCEPT ![c] = "admit"]
    BY <1>4 DEF Accept
  <2> QED
    BY <1>1, <1>2, <2>1, MutexStays
<1>5. CASE Refuse \/ Spawn \/ SpawnFails
  <2>1. cfd \in Conns /\ stage[cfd] = "admit"
    BY <1>5 DEF ServedInv, GateInv, LoopHas, Refuse, Spawn, SpawnFails, Admitting
  <2>2. PICK to \in {"done", "parse", "start", "lost"} : stage' = [stage EXCEPT ![cfd] = to]
    BY <1>5 DEF Refuse, Spawn, SpawnFails
  <2> QED
    BY <1>1, <1>2, <2>1, <2>2, MutexStays
<1> QED
  BY <1>3, <1>4, <1>5 DEF LoopStep, LoopTest, AcceptFails, Admit, CountIn, connVars

LEMMA ClientServes ==
  ASSUME ServedInv, NEW c \in Conns, ClientStep(c)
  PROVE  Served' /\ MutexGivenBack' /\ KeyShown'
<1>1. UNCHANGED servedVars
  BY DEF ClientStep, Connect, Stall, Resume, Hangup, Reset, ClientGoes, loopVars, dbVars, servedVars
<1>2. stage \in [Conns -> Stages]
  BY DEF ServedInv, GateInv, GateTypes
<1>3. CASE stage' = stage
  BY <1>1, <1>3, MutexStays
<1>4. CASE Connect(c)
  <2>1. stage[c] = "none" /\ stage' = [stage EXCEPT ![c] = "backlog"]
    BY <1>4 DEF ServedInv, GateInv, LoopHas, Connect, ClientGoes
  <2> QED
    BY <1>1, <1>2, <2>1, MutexStays
<1> QED
  BY <1>3, <1>4 DEF ClientStep, Stall, Resume, Hangup, Reset

\* A step of a thread that neither takes the mutex nor gives it back.
LEMMA ThreadServes ==
  ASSUME ServedInv, NEW c \in Conns,
         \/ Authenticate(c) \/ Work(c) \/ Emit(c) \/ Log(c) \/ ParseFails(c) \/ Respond(c)
         \/ Start(c) \/ Limit(c) \/ StreamGoes(c) \/ StreamEnd(c) \/ Uncount(c)
  PROVE  Served' /\ MutexGivenBack' /\ KeyShown'
<1>1. UNCHANGED servedVars
  BY DEF Authenticate, Work, Emit, Log, ParseFails, Respond, Start, Limit, StreamGoes, StreamEnd, Uncount,
     loopVars, dbVars, servedVars
<1>2. PICK to \in Stages \ {"write", "auth"} :
        /\ stage[c] # "write" /\ stage' = [stage EXCEPT ![c] = to]
        /\ to = "limit" => stage[c] = "auth"
  BY DEF Authenticate, Work, Emit, Log, ParseFails, Respond, Start, Limit, StreamGoes, StreamEnd, Uncount,
     Moves, AfterLimit, Stages, Threads
<1>3. stage \in [Conns -> Stages]
  BY DEF ServedInv, GateInv, GateTypes
<1> QED
  BY <1>1, <1>2, <1>3, MutexStays

\* Only a request that carries a key is looked up.
LEMMA ParseServes ==
  ASSUME ServedInv, NEW c \in Conns, Parse(c)
  PROVE  Served' /\ MutexGivenBack' /\ KeyShown'
<1>1. PICK r \in Requests[c] :
        /\ stage[c] = "parse" /\ stage' = [stage EXCEPT ![c] = FirstStage(r)]
        /\ request' = [request EXCEPT ![c] = r]
  BY DEF Parse, Moves
<1>2. UNCHANGED <<running, server, dbMutex, rows>>
  BY DEF Parse, loopVars, dbVars
<1>3. stage \in [Conns -> Stages] /\ request \in [Conns -> Request] /\ r \in Request
  BY RequestsAssumption DEF ServedInv, GateInv, GateTypes, Served
<1>4. FirstStage(r) \in {"respond", "auth", "stream", "work"} /\ (FirstStage(r) = "auth" => r.key \in Keys)
  BY <1>3 DEF FirstStage, Request
<1>5. Served'
  BY <1>1, <1>2, <1>3 DEF ServedInv, Served
<1>6. MutexGivenBack'
  BY <1>1, <1>2, <1>3, <1>4 DEF ServedInv, MutexGivenBack
<1>7. KeyShown'
  BY <1>1, <1>3, <1>4 DEF ServedInv, KeyShown
<1> QED
  BY <1>5, <1>6, <1>7

\* The socket is closed and the request is forgotten.
LEMMA CloseServes ==
  ASSUME ServedInv, NEW c \in Conns, Close(c)
  PROVE  Served' /\ MutexGivenBack' /\ KeyShown'
<1>1. /\ stage[c] = "close" /\ stage' = [stage EXCEPT ![c] = "uncount"]
      /\ request' = [request EXCEPT ![c] = NoRequest]
      /\ UNCHANGED <<running, server, dbMutex, rows>>
  BY DEF Close, Moves, loopVars, dbVars
<1>2. stage \in [Conns -> Stages] /\ request \in [Conns -> Request] /\ NoRequest \in Request
  BY DEF ServedInv, GateInv, GateTypes, Served, NoRequest, Request, Kinds
<1>3. Served'
  BY <1>1, <1>2 DEF ServedInv, Served
<1>4. MutexGivenBack'
  BY <1>1, <1>2 DEF ServedInv, MutexGivenBack
<1>5. KeyShown'
  BY <1>1, <1>2 DEF ServedInv, KeyShown
<1> QED
  BY <1>3, <1>4, <1>5

\* The event stream takes the mutex when it is free, writes rows while it has
\* it, and gives it back when there are none left and when its client is gone.
LEMMA StreamServes ==
  ASSUME ServedInv, NEW c \in Conns,
         StreamSelect(c) \/ StreamWrite(c) \/ StreamBroken(c) \/ StreamPause(c)
  PROVE  Served' /\ MutexGivenBack' /\ KeyShown'
<1>1. /\ stage \in [Conns -> Stages] /\ rows \in [Conns -> 0..MaxRows]
      /\ NoConn \notin Conns /\ MaxRows \in Nat
  BY ConnsAssumption, LimitAssumption DEF ServedInv, GateInv, GateTypes, Served
<1>2. UNCHANGED <<running, server, request>>
  BY DEF StreamSelect, StreamWrite, StreamBroken, StreamPause, loopVars, connVars
<1>3. CASE StreamSelect(c)
  <2>1. PICK n \in 0..MaxRows : rows' = [rows EXCEPT ![c] = n]
    BY <1>3 DEF StreamSelect
  <2>2. /\ dbMutex = NoConn /\ dbMutex' = c
        /\ stage[c] = "select" /\ stage' = [stage EXCEPT ![c] = "write"]
    BY <1>3 DEF StreamSelect, DbFree, Moves
  <2>3. \A d \in Conns : stage[d] # "write"
    BY <1>1, <2>2 DEF ServedInv, MutexGivenBack
  <2>4. Served'
    BY <1>1, <1>2, <2>1, <2>2 DEF ServedInv, Served
  <2>5. MutexGivenBack'
    BY <1>1, <2>2, <2>3 DEF MutexGivenBack
  <2>6. KeyShown'
    BY <1>1, <1>2, <2>2 DEF ServedInv, KeyShown
  <2> QED
    BY <2>4, <2>5, <2>6
<1>4. CASE StreamWrite(c)
  <2>1. UNCHANGED <<stage, dbMutex>> /\ rows[c] > 0 /\ rows' = [rows EXCEPT ![c] = rows[c] - 1]
    BY <1>4 DEF StreamWrite, connVars
  <2>2. rows' \in [Conns -> 0..MaxRows]
    BY <1>1, <2>1
  <2> QED
    BY <1>2, <2>1, <2>2 DEF ServedInv, Served, MutexGivenBack, KeyShown
<1>5. CASE StreamBroken(c) \/ StreamPause(c)
  <2>1. PICK to \in {"log", "stream"} :
          stage[c] = "write" /\ stage' = [stage EXCEPT ![c] = to] /\ dbMutex' = NoConn
    BY <1>5 DEF StreamBroken, StreamPause, Moves
  <2>2. rows' \in [Conns -> 0..MaxRows]
    BY <1>1, <1>5 DEF StreamBroken, StreamPause
  <2>3. \A d \in Conns : d # c => stage[d] # "write"
    BY <2>1 DEF ServedInv, MutexGivenBack
  <2>4. Served'
    BY <1>2, <2>1, <2>2 DEF ServedInv, Served
  <2>5. MutexGivenBack'
    BY <1>1, <2>1, <2>3 DEF MutexGivenBack
  <2>6. KeyShown'
    BY <1>1, <1>2, <2>1 DEF ServedInv, KeyShown
  <2> QED
    BY <2>4, <2>5, <2>6
<1> QED
  BY <1>3, <1>4, <1>5

LEMMA ServedInitially == Init => ServedInv
<1> SUFFICES ASSUME Init PROVE ServedInv
  OBVIOUS
<1>1. Served
  <2>1. NoRequest \in Request /\ 0 \in 0..MaxRows
    BY LimitAssumption DEF NoRequest, Request, Kinds
  <2> QED
    BY <2>1 DEF Init, Served
<1>2. MutexGivenBack /\ KeyShown
  BY ConnsAssumption DEF Init, MutexGivenBack, KeyShown
<1> QED
  BY <1>1, <1>2, InitHolds DEF ServedInv

LEMMA ServedInvariant == Spec => []ServedInv
<1>1. ServedInv /\ GateInv' /\ [Next]_vars => ServedInv'
  <2> SUFFICES ASSUME ServedInv, GateInv', [Next]_vars PROVE Served' /\ MutexGivenBack' /\ KeyShown'
    BY DEF ServedInv
  <2>1. CASE LoopStep
    BY <2>1, LoopServes
  <2>2. CASE Signal
    BY <2>2 DEF Signal, connVars, dbVars, ServedInv, Served, MutexGivenBack, KeyShown
  <2>3. CASE Clock \/ UNCHANGED vars
    <3>1. UNCHANGED servedVars /\ stage' = stage
      BY <2>3 DEF Clock, vars, gateVars, loopVars, connVars, dbVars, servedVars
    <3> QED
      BY <3>1, MutexStays
  <2>4. ASSUME NEW c \in Conns, ClientStep(c) \/ Waits(c) \/ Local(c)
        PROVE  Served' /\ MutexGivenBack' /\ KeyShown'
    BY <2>4, ClientServes, ThreadServes, ParseServes, CloseServes, StreamServes DEF Waits, Local
  <2> QED
    BY <2>1, <2>2, <2>3, <2>4 DEF Next
<1> QED
  BY <1>1, ServedInitially, GateInvariant, PTL DEF Spec

\* g_db_mutex is held between two steps only by the thread that writes rows of
\* the event stream (MutexGivenBack), for any clients that stall or hang up.
THEOREM MutexIsGivenBack == Spec => []MutexGivenBack
<1>1. ServedInv => MutexGivenBack
  BY DEF ServedInv
<1> QED
  BY <1>1, ServedInvariant, PTL

-----------------------------------------------------------------------------
(* The API server and its limiter together.                                   *)

\* A step of the server is a check of the limiter for a key that a request
\* carries, the clock, or leaves the limiter alone.
LEMMA GatewayLimits ==
  ASSUME ServedInv, [Next]_vars
  PROVE  [RateNext]_rateVars
<1>1. CASE LoopStep \/ Signal \/ UNCHANGED vars
  <2>1. UNCHANGED rateVars
    BY <1>1 DEF LoopStep, LoopTest, Accept, AcceptFails, Refuse, Admit, CountIn, Spawn, SpawnFails, Signal, vars
  <2> QED
    BY <2>1
<1>2. CASE Clock
  BY <1>2 DEF Clock, RateNext
<1>3. ASSUME NEW c \in Conns, Limit(c) PROVE RateNext
  <2>1. stage[c] = "limit" /\ RateCheck(request[c].key)
    BY <1>3 DEF Limit
  <2>2. request[c].key \in Keys
    BY <2>1 DEF ServedInv, KeyShown
  <2> QED
    BY <2>1, <2>2 DEF RateNext
<1>4. ASSUME NEW c \in Conns, ClientStep(c) \/ Waits(c) \/ (Local(c) /\ ~Limit(c)) PROVE UNCHANGED rateVars
  <2>1. CASE ClientStep(c)
    BY <2>1 DEF ClientStep, Connect, Stall, Resume, Hangup, Reset, ClientGoes
  <2>2. CASE Waits(c)
    BY <2>2 DEF Waits, Authenticate, Work, Emit, StreamSelect, Log, Parse, ParseFails, StreamWrite, Respond
  <2>3. CASE Local(c) /\ ~Limit(c)
    BY <2>3 DEF Local, Start, StreamGoes, StreamBroken, StreamPause, StreamEnd, Close, Uncount
  <2> QED
    BY <1>4, <2>1, <2>2, <2>3
<1> QED
  BY <1>1, <1>2, <1>3, <1>4 DEF Next

\* The API server uses its limiter as TokenBuckets says, whatever the threads
\* do between two requests of a key.
THEOREM ServerUsesBuckets == Spec => RateSpec
<1>1. Init => RateInit
  BY DEF Init
<1>2. ServedInv /\ [Next]_vars => [RateNext]_rateVars
  BY GatewayLimits
<1> QED
  BY <1>1, <1>2, ServedInvariant, PTL DEF Spec, RateSpec

\* So what is proved of the limiter alone is true of the server (KeyRate).
THEOREM ServerLimitsKeys == Spec => []KeyRate
  BY ServerUsesBuckets, KeysAreLimited, PTL

\* The variables of both servers keep their types.
THEOREM ServersTyped == Spec => []TypeOK
<1>1. ServedInv /\ RateInv => TypeOK
  BY DEF ServedInv, GateInv, GateTypes, Served, RateInv, TypeOK
<1> QED
  BY <1>1, ServedInvariant, ServerUsesBuckets, RateInvAlways, PTL
=============================================================================
