------------------------------ MODULE Gateway -------------------------------
(* The two HTTP servers: cmd/AkaiAPI/src/main.c (start_server,                *)
(* connection_handler, route_request and the handlers behind it) and          *)
(* cmd/AkaiProxy/src/main.c (cmd_serve, conn_thread, handle_request). Which   *)
(* of the two runs is chosen at the start.                                    *)
(*                                                                            *)
(* One accept loop starts a detached thread for each connection. The threads  *)
(* share the descriptor table of the process, g_thread_count and, in the API  *)
(* server, g_db_mutex and the rate limiter. Each connection carries one       *)
(* request. Abstracted: what is parsed, answered and stored (JobQueue has the *)
(* tables). A section under g_db_mutex that waits for nobody is one action;   *)
(* the event stream writes to its client inside the section.                  *)
EXTENDS TokenBuckets

CONSTANTS
  Servers,     \* which of "api" and "proxy" may run
  Conns,       \* the connections that clients may make
  NoConn,
  Requests,    \* what the client of a connection may ask for
  Fickle,      \* the clients that may stall, or hang up
  MaxThreads,  \* MAX_THREADS
  MaxFds,      \* descriptors that the process may have for connections
  MaxRows,     \* rows that one SELECT of the event stream finds
  SpawnMayFail

ASSUME ConnsAssumption == IsFiniteSet(Conns) /\ NoConn \notin Conns
ASSUME ServersAssumption == Servers \subseteq {"api", "proxy"}
ASSUME LimitAssumption == {MaxThreads, MaxFds, MaxRows} \subseteq Nat /\ SpawnMayFail \in BOOLEAN

Kinds == {"plain", "binary", "query", "submit", "events"}
Request == [kind : Kinds, key : Keys \union {NoKey}]
ASSUME RequestsAssumption == Requests \in [Conns -> SUBSET Request] /\ Fickle \subseteq Conns

VARIABLES
  server,   \* which of the two programs this is
  running,  \* g_running
  loop,     \* where the accept loop is
  cfd,      \* its connection
  threads,  \* g_thread_count
  client,   \* what the client of a connection does
  stage,    \* where the connection is on the server's side
  request,  \* the request that was parsed
  sock,     \* the descriptor table: the connection that a number stands for
  fd,       \* the number that the thread of a connection was given
  dbMutex,  \* the thread that holds g_db_mutex
  rows      \* rows the event stream has still to write

loopVars == <<running, loop, cfd>>
connVars == <<client, stage, request>>
fdVars == <<sock, fd>>
dbVars == <<dbMutex, rows>>
gateVars == <<server, loopVars, threads, connVars, fdVars, dbVars>>
vars == <<gateVars, rateVars>>

Fds       == 1..MaxFds
NoRequest == [kind |-> "plain", key |-> NoKey]
Early     == {"none", "backlog"}
Threads   == {"start", "parse", "auth", "limit", "work", "stream", "select", "write", "event", "respond", "log", "close", "uncount"}
Admitting == {"admit", "count", "spawn"}
Stages    == Early \union Threads \union {"admit", "lost", "done"}

TypeOK ==
  /\ RateTypeOK
  /\ server \in Servers
  /\ running \in BOOLEAN
  /\ loop \in Admitting \union {"test", "accept", "exited"}
  /\ cfd \in Conns \union {NoConn}
  /\ threads \in Nat
  /\ client \in [Conns -> {"away", "ready", "stalled", "gone", "reset"}]
  /\ stage \in [Conns -> Stages]
  /\ request \in [Conns -> Request]
  /\ sock \in [Fds -> Conns \union {NoConn}]
  /\ fd \in [Conns -> Fds \union {0}]
  /\ dbMutex \in Conns \union {NoConn}
  /\ rows \in [Conns -> 0..MaxRows]

Init ==
  /\ RateInit
  /\ server \in Servers
  /\ running = TRUE
  /\ loop = "test"
  /\ cfd = NoConn
  /\ threads = 0
  /\ client = [c \in Conns |-> "away"]
  /\ stage = [c \in Conns |-> "none"]
  /\ request = [c \in Conns |-> NoRequest]
  /\ sock = [n \in Fds |-> NoConn]
  /\ fd = [c \in Conns |-> 0]
  /\ dbMutex = NoConn
  /\ rows = [c \in Conns |-> 0]

-----------------------------------------------------------------------------
(* Clients.                                                                   *)

ClientGoes(c, from, to) ==
  /\ client[c] \in from
  /\ client' = [client EXCEPT ![c] = to]
  /\ UNCHANGED <<server, loopVars, threads, request, fdVars, dbVars, rateVars>>

\* The kernel takes the connection into the backlog of the listening socket.
Connect(c) ==
  /\ loop # "exited"
  /\ ClientGoes(c, {"away"}, IF c \in Fickle THEN "stalled" ELSE "ready")
  /\ stage' = [stage EXCEPT ![c] = "backlog"]

\* A client that stalls neither sends nor reads what the server waits for.
Stall(c)  == c \in Fickle /\ ClientGoes(c, {"ready"}, "stalled") /\ UNCHANGED stage
Resume(c) == ClientGoes(c, {"stalled"}, "ready") /\ UNCHANGED stage
Hangup(c) == c \in Fickle /\ ClientGoes(c, {"ready", "stalled"}, "gone") /\ UNCHANGED stage

\* What is written to a client that has closed is taken, and answered with a
\* reset: only the writes after it fail.
Reset(c)  == ClientGoes(c, {"gone"}, "reset") /\ UNCHANGED stage

-----------------------------------------------------------------------------
(* Descriptors.                                                               *)

FreeFds == {n \in Fds : sock[n] = NoConn}

\* accept returns the lowest free number.
Opens(n, c) ==
  /\ n \in FreeFds
  /\ \A i \in FreeFds : n <= i
  /\ sock' = [sock EXCEPT ![n] = c]
  /\ fd' = [fd EXCEPT ![c] = n]

\* close(fd): whatever the number stands for by now.
Closes(c) ==
  /\ sock' = [sock EXCEPT ![fd[c]] = NoConn]
  /\ fd' = fd

-----------------------------------------------------------------------------
(* The accept loop.                                                           *)

\* Faulty: the flag is looked at only when accept fails.
LoopTestBlind ==
  /\ loop = "test"
  /\ loop' = "accept"
  /\ UNCHANGED <<server, running, cfd, threads, connVars, fdVars, dbVars, rateVars>>

\* while (g_running); after it the process ends, with the threads it has.
LoopTest ==
  /\ loop = "test"
  /\ loop' = IF running THEN "accept" ELSE "exited"
  /\ UNCHANGED <<server, running, cfd, threads, connVars, fdVars, dbVars, rateVars>>

Accept(c) ==
  /\ loop = "accept"
  /\ stage[c] = "backlog"
  /\ \E n \in Fds : Opens(n, c)
  /\ loop' = "admit"
  /\ cfd' = c
  /\ stage' = [stage EXCEPT ![c] = "admit"]
  /\ UNCHANGED <<server, running, threads, client, request, dbVars, rateVars>>

\* No descriptor is left (EMFILE): the API server tries again, the proxy ends.
AcceptFails ==
  /\ loop = "accept"
  /\ \E c \in Conns : stage[c] = "backlog"
  /\ FreeFds = {}
  /\ loop' = IF server = "api" THEN "test" ELSE "exited"
  /\ UNCHANGED <<server, running, cfd, threads, connVars, fdVars, dbVars, rateVars>>

\* g_thread_count >= MAX_THREADS: 503.
Refuse ==
  /\ loop = "admit"
  /\ threads >= MaxThreads
  /\ Closes(cfd)
  /\ stage' = [stage EXCEPT ![cfd] = "done"]
  /\ loop' = "test"
  /\ cfd' = NoConn
  /\ UNCHANGED <<server, running, threads, client, request, dbVars, rateVars>>

\* The API server counts the thread before it exists, the proxy lets it count.
Admit ==
  /\ loop = "admit"
  /\ threads < MaxThreads
  /\ loop' = IF server = "api" THEN "count" ELSE "spawn"
  /\ UNCHANGED <<server, running, cfd, threads, connVars, fdVars, dbVars, rateVars>>

CountIn ==
  /\ loop = "count"
  /\ threads' = threads + 1
  /\ loop' = "spawn"
  /\ UNCHANGED <<server, running, cfd, connVars, fdVars, dbVars, rateVars>>

Spawn ==
  /\ loop = "spawn"
  /\ stage' = [stage EXCEPT ![cfd] = IF server = "api" THEN "parse" ELSE "start"]
  /\ loop' = "test"
  /\ cfd' = NoConn
  /\ UNCHANGED <<server, running, threads, client, request, fdVars, dbVars, rateVars>>

\* pthread_create fails. The proxy closes the connection; the API server does
\* not look at the result: the connection stays open and stays counted.
SpawnFails ==
  /\ SpawnMayFail
  /\ loop = "spawn"
  /\ IF server = "api"
     THEN UNCHANGED fdVars /\ stage' = [stage EXCEPT ![cfd] = "lost"]
     ELSE Closes(cfd) /\ stage' = [stage EXCEPT ![cfd] = "done"]
  /\ loop' = "test"
  /\ cfd' = NoConn
  /\ UNCHANGED <<server, running, threads, client, request, dbVars, rateVars>>

\* SIGINT, SIGTERM. The handlers are installed by signal(), so a system call
\* that is waiting is started again.
Signal ==
  /\ running
  /\ running' = FALSE
  /\ UNCHANGED <<server, loop, cfd, threads, connVars, fdVars, dbVars, rateVars>>

-----------------------------------------------------------------------------
(* The thread of a connection.                                                *)

Alive == loop # "exited"

Moves(c, from, to) ==
  /\ Alive
  /\ stage[c] = from
  /\ stage' = [stage EXCEPT ![c] = to]

\* The proxy's thread counts itself.
Start(c) ==
  /\ Moves(c, "start", "parse")
  /\ threads' = threads + 1
  /\ UNCHANGED <<server, loopVars, client, request, fdVars, dbVars, rateVars>>

\* Where a request goes first: only API requests that carry a key are looked
\* up, and only those are limited.
FirstStage(r) ==
  IF server = "proxy" \/ r.kind = "plain" THEN "respond"
  ELSE IF r.key # NoKey THEN "auth"
  ELSE IF r.kind = "events" THEN "stream" ELSE "work"

Parse(c) ==
  /\ client[c] = "ready"
  /\ \E r \in Requests[c] :
       /\ Moves(c, "parse", FirstStage(r))
       /\ request' = [request EXCEPT ![c] = r]
  /\ UNCHANGED <<server, loopVars, threads, client, fdVars, dbVars, rateVars>>

\* The client went away, or sent no request line. The proxy answers even so.
ParseFails(c) ==
  /\ client[c] \in {"ready", "gone", "reset"}
  /\ Moves(c, "parse", IF server = "api" THEN "close" ELSE "respond")
  /\ UNCHANGED <<server, loopVars, threads, client, request, fdVars, dbVars, rateVars>>

DbFree == dbMutex = NoConn

\* validate_api_key; 401 if the key is not an active one.
Authenticate(c) ==
  /\ DbFree
  /\ \E next \in {"limit", "respond"} : Moves(c, "auth", next)
  /\ UNCHANGED <<server, loopVars, threads, client, request, fdVars, dbVars, rateVars>>

AfterLimit(c) == IF request[c].kind = "events" THEN "stream" ELSE "work"

\* rate_limit_check said yes.
Passes(k) == granted'[k] # granted[k]

\* rate_limit_check; 429 if there is no token.
Limit(c) ==
  LET k == request[c].key IN
  /\ stage[c] = "limit"
  /\ RateCheck(k)
  /\ Moves(c, "limit", IF Passes(k) THEN AfterLimit(c) ELSE "respond")
  /\ UNCHANGED <<server, loopVars, threads, client, request, fdVars, dbVars>>

\* The handlers: a program is run, a query is made, a row is inserted.
Work(c) ==
  /\ request[c].kind = "binary" \/ DbFree
  /\ Moves(c, "work", IF request[c].kind = "submit" THEN "event" ELSE "respond")
  /\ UNCHANGED <<server, loopVars, threads, client, request, fdVars, dbVars, rateVars>>

\* emit_event of handle_job_submit.
Emit(c) ==
  /\ DbFree
  /\ Moves(c, "event", "respond")
  /\ UNCHANGED <<server, loopVars, threads, client, request, fdVars, dbVars, rateVars>>

\* handle_events_sse: while (g_running)
StreamGoes(c) ==
  /\ running
  /\ Moves(c, "stream", "select")
  /\ UNCHANGED <<server, loopVars, threads, client, request, fdVars, dbVars, rateVars>>

\* The SELECT, under the mutex.
StreamSelect(c) ==
  /\ DbFree
  /\ Moves(c, "select", "write")
  /\ dbMutex' = c
  /\ \E n \in 0..MaxRows : rows' = [rows EXCEPT ![c] = n]
  /\ UNCHANGED <<server, loopVars, threads, client, request, fdVars, rateVars>>

\* Nothing goes through the socket of a client that does not read; what is
\* written to one that has closed is lost, but not yet refused.
StreamWrite(c) ==
  /\ stage[c] = "write"
  /\ Alive
  /\ rows[c] > 0
  /\ client[c] \in {"ready", "gone"}
  /\ rows' = [rows EXCEPT ![c] = @ - 1]
  /\ UNCHANGED <<server, loopVars, threads, connVars, fdVars, dbMutex, rateVars>>

\* Faulty: the stream of a client that broke off leaves with the mutex.
StreamBrokenLocked(c) ==
  /\ rows[c] > 0
  /\ client[c] = "reset"
  /\ Moves(c, "write", "log")
  /\ rows' = [rows EXCEPT ![c] = 0]
  /\ UNCHANGED <<server, loopVars, threads, client, request, fdVars, dbMutex, rateVars>>

\* Faulty: it also closes the socket that connection_handler will close.
StreamBrokenCloses(c) ==
  /\ rows[c] > 0
  /\ client[c] = "reset"
  /\ Moves(c, "write", "log")
  /\ dbMutex' = NoConn
  /\ rows' = [rows EXCEPT ![c] = 0]
  /\ Closes(c)
  /\ UNCHANGED <<server, loopVars, threads, client, request, rateVars>>

\* The write fails: the statement and the mutex are given up.
StreamBroken(c) ==
  /\ rows[c] > 0
  /\ client[c] = "reset"
  /\ Moves(c, "write", "log")
  /\ dbMutex' = NoConn
  /\ rows' = [rows EXCEPT ![c] = 0]
  /\ UNCHANGED <<server, loopVars, threads, client, request, fdVars, rateVars>>

StreamPause(c) ==
  /\ rows[c] = 0
  /\ Moves(c, "write", "stream")
  /\ dbMutex' = NoConn
  /\ UNCHANGED <<server, loopVars, threads, client, request, fdVars, rows, rateVars>>

StreamEnd(c) ==
  /\ ~running
  /\ Moves(c, "stream", "log")
  /\ UNCHANGED <<server, loopVars, threads, client, request, fdVars, dbVars, rateVars>>

\* http_resp_send: waits for a client that does not read, not for one that is gone.
Respond(c) ==
  /\ client[c] \in {"ready", "gone", "reset"}
  /\ Moves(c, "respond", IF server = "api" THEN "log" ELSE "close")
  /\ UNCHANGED <<server, loopVars, threads, client, request, fdVars, dbVars, rateVars>>

\* log_request
Log(c) ==
  /\ DbFree
  /\ Moves(c, "log", "close")
  /\ UNCHANGED <<server, loopVars, threads, client, request, fdVars, dbVars, rateVars>>

\* Faulty: the thread of a client that went away leaves without counting itself out.
CloseUncounted(c) ==
  /\ Moves(c, "close", IF client[c] \in {"gone", "reset"} THEN "done" ELSE "uncount")
  /\ Closes(c)
  /\ request' = [request EXCEPT ![c] = NoRequest]
  /\ UNCHANGED <<server, loopVars, threads, client, dbVars, rateVars>>

\* The request is freed, then the socket is closed.
Close(c) ==
  /\ Moves(c, "close", "uncount")
  /\ Closes(c)
  /\ request' = [request EXCEPT ![c] = NoRequest]
  /\ UNCHANGED <<server, loopVars, threads, client, dbVars, rateVars>>

Uncount(c) ==
  /\ Moves(c, "uncount", "done")
  /\ threads' = threads - 1
  /\ UNCHANGED <<server, loopVars, client, request, fdVars, dbVars, rateVars>>

\* Only the check of a key that has a bucket looks at the time, so it passes
\* before such a check.
Clock ==
  /\ Tick
  /\ Alive
  /\ \E c \in Conns : stage[c] = "limit" /\ HasBucket(request[c].key)
  /\ UNCHANGED gateVars

-----------------------------------------------------------------------------
LoopStep ==
  LoopTest \/ (\E c \in Conns : Accept(c)) \/ AcceptFails \/ Refuse \/ Admit \/ CountIn
  \/ Spawn \/ SpawnFails

ClientStep(c) == Connect(c) \/ Resume(c) \/ Stall(c) \/ Hangup(c) \/ Reset(c)

\* Steps that wait, for g_db_mutex or for the client.
Waits(c) ==
  \/ Authenticate(c) \/ Work(c) \/ Emit(c) \/ StreamSelect(c) \/ Log(c)
  \/ Parse(c) \/ ParseFails(c) \/ StreamWrite(c) \/ Respond(c)

Local(c) ==
  \/ Start(c) \/ Limit(c) \/ StreamGoes(c) \/ StreamBroken(c) \/ StreamPause(c) \/ StreamEnd(c)
  \/ Close(c) \/ Uncount(c)

Next ==
  \/ LoopStep
  \/ Signal
  \/ Clock
  \/ \E c \in Conns : ClientStep(c) \/ Waits(c) \/ Local(c)

Spec == Init /\ [][Next]_vars

\* The threads are scheduled, and one that waits for g_db_mutex gets it although
\* others take it again and again (the stream sleeps between two SELECTs when
\* nothing is new). A client sends its request, and goes on reading if it has
\* stopped, unless it goes away; nobody has to connect.
Fairness ==
  /\ WF_vars(LoopStep)
  /\ \A c \in Conns : WF_vars(Local(c)) /\ SF_vars(Waits(c)) /\ WF_vars(Resume(c))

FairSpec == Spec /\ Fairness

-----------------------------------------------------------------------------
(* Properties.                                                                *)

Live == {c \in Conns : stage[c] \in Threads}
Lost == {c \in Conns : stage[c] = "lost"}

\* g_thread_count is the number of threads, on every way out of a connection.
\* The API server counts the one that it is about to start and, for ever, those
\* that could not be started; the proxy does not see those that have not begun.
CountExact ==
  threads = IF server = "api"
            THEN Cardinality(Live) + Cardinality(Lost) + (IF loop = "spawn" THEN 1 ELSE 0)
            ELSE Cardinality({c \in Live : stage[c] # "start"})

\* A thread that has not closed its descriptor yet reads from, writes to and
\* closes the socket of its own client, however numbers are used again; and
\* every open socket has somebody who will close it, or is one of the lost.
OwnSocket ==
  /\ \A c \in Live : stage[c] # "uncount" => fd[c] # 0 /\ sock[fd[c]] = c
  /\ \A n \in Fds : sock[n] # NoConn => sock[n] = cfd \/ sock[n] \in Live \union Lost

\* g_db_mutex is with the event stream that writes its rows, and with nobody
\* else between two steps: every way out of the rows gives it back.
MutexGivenBack == \A c \in Conns : dbMutex = c <=> stage[c] = "write"

\* An event stream goes on, unless it has a row to write and nobody to read it:
\* that is how it learns that its client is gone.
Streaming(c) ==
  stage[c] \in {"stream", "select", "write"} /\ ~(client[c] = "reset" /\ rows[c] > 0)

\* Every connection that got a thread is finished, unless the process ends: it
\* gets the mutex that a stream holds while it writes to a slow client, and the
\* thread, the mutex and the socket of a client that goes away are given back.
Finishes ==
  \A c \in Conns :
    stage[c] \in Threads ~> stage[c] = "done" \/ ~Alive \/ Streaming(c)

\* A server that was told to stop ends when the next client connects: accept
\* is started again after the signal, so it is not enough to be told.
StopsAtNextClient ==
  (~running /\ \E c \in Conns : stage[c] = "backlog") ~> ~Alive
=============================================================================
