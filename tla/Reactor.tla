------------------------------ MODULE Reactor -------------------------------
(* The event loop: one reactor of lib/libbonfyre/bf_reactor.c with epoll (the *)
(* reactors of a process share nothing). One thread accepts, reads, answers,  *)
(* streams and closes; connections are found by their descriptor in an array  *)
(* from which one is removed by moving the last into its place.               *)
(*                                                                            *)
(* Readiness is edge-triggered: the kernel keeps a list of descriptors to     *)
(* which something happened since they were last reported, and drops one from *)
(* it when it reports it. Bytes are counted in chunks; a request is complete  *)
(* when HeadSize of them have come. Abstracted: what is parsed, limited and   *)
(* answered, and the size of a batch of events.                               *)
EXTENDS Integers, Sequences, FiniteSets

CONSTANTS
  Clients, NoClient,
  MaxConns,  \* BF_REACTOR_MAX_CONNS
  BufSize,   \* BF_REACTOR_BUF_SIZE
  HeadSize,  \* chunks of a request
  MaxSay,    \* chunks that each client may send
  MaxBody,   \* chunks of a response
  Window     \* chunks that a client's system takes before the client reads

ASSUME ClientsAssumption == NoClient \notin Clients
ASSUME SizesAssumption ==
  /\ MaxConns \in Nat /\ MaxSay \in [Clients -> Nat]
  /\ {BufSize, HeadSize, MaxBody, Window} \subseteq Nat \ {0}
  /\ HeadSize <= BufSize

VARIABLES
  serving,   \* r->running
  turn,      \* where the loop is
  index,     \* the index of its walks over the array
  conns,     \* r->conns, r->conn_count
  descs,     \* the connection that a descriptor stands for
  interest,  \* what epoll was asked to watch a descriptor for
  armed,     \* epoll: descriptors to which something happened
  events,    \* reported descriptors that are not handled yet, 0 the listener
  place,     \* a client: "away", "backlog", "conn", "closed"
  link,      \* its side of the connection
  inbox,     \* chunks that it sent and nobody read
  said,      \* chunks that it sent
  room       \* chunks that may be sent to it

loopState == <<serving, turn, index>>
kernelState == <<descs, interest, armed>>
clientState == <<place, link, inbox, said, room>>
reactorVars == <<loopState, conns, kernelState, events, clientState>>

Descs == 1..MaxConns + 1
Conn  == [fd : Descs, mode : {"reading", "writing", "sse", "closing"}, got : 0..BufSize, left : 0..MaxBody]

ReactorTypeOK ==
  /\ serving \in BOOLEAN
  /\ turn \in {"wait", "handle", "push", "clean", "ended", "freed", "killed"}
  /\ index \in 0..MaxConns
  /\ conns \in Seq(Conn) /\ Len(conns) <= MaxConns
  /\ descs \in [Descs -> Clients \union {NoClient}]
  /\ interest \in [Descs -> {"in", "out"}]
  /\ armed \in SUBSET Descs
  /\ events \in SUBSET (Descs \union {0})
  /\ place \in [Clients -> {"away", "backlog", "conn", "closed"}]
  /\ link \in [Clients -> {"open", "fin", "doomed", "pipe", "rst"}]
  /\ \A c \in Clients : said[c] \in 0..MaxSay[c] /\ inbox[c] \in 0..said[c]
  /\ room \in [Clients -> 0..Window]

\* bf_reactor_start
ReactorInit ==
  /\ serving = TRUE
  /\ turn = "wait"
  /\ index = 0
  /\ conns = <<>>
  /\ descs = [n \in Descs |-> NoClient]
  /\ interest = [n \in Descs |-> "in"]
  /\ armed = {}
  /\ events = {}
  /\ place = [c \in Clients |-> "away"]
  /\ link = [c \in Clients |-> "open"]
  /\ inbox = [c \in Clients |-> 0]
  /\ said = [c \in Clients |-> 0]
  /\ room = [c \in Clients |-> Window]

-----------------------------------------------------------------------------
(* epoll.                                                                     *)

DescsOf(c) == {n \in Descs : descs[n] = c}

\* Something happened to the connection of c that those wait for who watch for
\* one of kinds.
Wakes(c, kinds) == armed' = armed \union {n \in DescsOf(c) : interest[n] \in kinds}

Gone(c) == link[c] \in {"pipe", "rst"}
Readable(c) == inbox[c] > 0 \/ link[c] # "open"
Writable(c) == room[c] > 0 \/ Gone(c)
Ready(n) == IF interest[n] = "in" THEN Readable(descs[n]) ELSE Writable(descs[n])

-----------------------------------------------------------------------------
(* Clients and the network.                                                   *)

Unmoved == UNCHANGED <<loopState, conns, descs, interest, events>>

Dial(c) ==
  /\ place[c] = "away"
  /\ turn \notin {"freed", "killed"}
  /\ place' = [place EXCEPT ![c] = "backlog"]
  /\ UNCHANGED <<loopState, conns, kernelState, events, link, inbox, said, room>>

Say(c) ==
  /\ place[c] \in {"backlog", "conn"}
  /\ link[c] = "open"
  /\ said[c] < MaxSay[c]
  /\ said' = [said EXCEPT ![c] = @ + 1]
  /\ inbox' = [inbox EXCEPT ![c] = @ + 1]
  /\ Wakes(c, {"in"})
  /\ Unmoved /\ UNCHANGED <<place, link, room>>

\* The client reads what was sent to it.
Listen(c) ==
  /\ place[c] = "conn"
  /\ link[c] = "open"
  /\ room[c] < Window
  /\ room' = [room EXCEPT ![c] = Window]
  /\ IF room[c] = 0 THEN Wakes(c, {"out"}) ELSE UNCHANGED armed
  /\ Unmoved /\ UNCHANGED <<place, link, inbox, said>>

\* The client closes its socket: a reset if it leaves something unread.
Leave(c) ==
  /\ place[c] \in {"backlog", "conn"}
  /\ link[c] = "open"
  /\ link' = [link EXCEPT ![c] = IF room[c] = Window THEN "fin" ELSE "rst"]
  /\ Wakes(c, {"in", "out"})
  /\ Unmoved /\ UNCHANGED <<place, inbox, said, room>>

\* What was sent to a closed socket is answered by a reset.
ResetArrives(c) ==
  /\ link[c] = "doomed"
  /\ link' = [link EXCEPT ![c] = "pipe"]
  /\ Wakes(c, {"in", "out"})
  /\ Unmoved /\ UNCHANGED <<place, inbox, said, room>>

-----------------------------------------------------------------------------
(* Connections.                                                               *)

\* Faulty: the descriptor is added once more, which epoll refuses.
WatchedTwice(n) == UNCHANGED <<interest, armed>>

\* register_write: from now on the descriptor is watched for writing only, and
\* reported if it is ready.
Watched(n) ==
  /\ interest' = [interest EXCEPT ![n] = "out"]
  /\ armed' = IF Writable(descs[n]) THEN armed \union {n} ELSE armed

\* The response is ready: it will be sent when epoll says so.
Answers(j, body) ==
  /\ conns' = [conns EXCEPT ![j].mode = "writing", ![j].left = body, ![j].got = 0]
  /\ Watched(conns[j].fd)
  /\ UNCHANGED <<link, room>>

\* send with room for a part of it, or none.
Sent(c, n) ==
  /\ room' = [room EXCEPT ![c] = @ - n]
  /\ link' = IF link[c] = "fin" THEN [link EXCEPT ![c] = "doomed"] ELSE link

\* The headers of a stream are sent at once, as far as they go; the first send
\* after a reset takes its error.
Streams(j) ==
  LET c == descs[conns[j].fd] IN
  /\ conns' = [conns EXCEPT ![j].mode = "sse", ![j].left = 0, ![j].got = 0]
  /\ \/ Gone(c) /\ link' = [link EXCEPT ![c] = "pipe"] /\ UNCHANGED room
     \/ ~Gone(c) /\ room[c] = 0 /\ UNCHANGED <<link, room>>
     \/ ~Gone(c) /\ room[c] > 0 /\ Sent(c, 1)
  /\ UNCHANGED <<interest, armed>>

Ends(j) ==
  /\ conns' = [conns EXCEPT ![j].mode = "closing"]
  /\ UNCHANGED <<interest, armed, link, room>>

Lesser(m, n) == IF m < n THEN m ELSE n

\* Faulty: one recv of one chunk, however much is there.
FetchedChunk(j) == Lesser(inbox[descs[conns[j].fd]], 1)

\* What one recv takes.
Fetched(j) == Lesser(inbox[descs[conns[j].fd]], BufSize - conns[j].got)

\* Faulty: the end of the stream is not taken for the end of the connection.
HandleReadEof(j) ==
  LET c == descs[conns[j].fd]
      n == Fetched(j)
      got == conns[j].got + n
  IN
  /\ inbox' = [inbox EXCEPT ![c] = @ - n]
  /\ \/ /\ got < HeadSize
        /\ conns' = [conns EXCEPT ![j].got = got]
        /\ UNCHANGED <<interest, armed, link, room>>
     \/ got >= HeadSize /\ (Ends(j) \/ Streams(j) \/ \E body \in 1..MaxBody : Answers(j, body))

\* handle_read: one recv. An incomplete request waits for more; a complete one
\* is refused, answered, or starts a stream.
HandleRead(j) ==
  LET c == descs[conns[j].fd]
      n == Fetched(j)
      got == conns[j].got + n
  IN
  /\ inbox' = [inbox EXCEPT ![c] = @ - n]
  /\ \/ n = 0 /\ Ends(j)
     \/ /\ n > 0
        /\ got < HeadSize
        /\ conns' = [conns EXCEPT ![j].got = got]
        /\ UNCHANGED <<interest, armed, link, room>>
     \/ /\ n > 0
        /\ got >= HeadSize
        /\ Ends(j) \/ Streams(j) \/ \E body \in 1..MaxBody : Answers(j, body)

\* handle_write: one send; what is left is sent when the client has read.
HandleWrite(j) ==
  LET c == descs[conns[j].fd]
      n == Lesser(room[c], conns[j].left)
  IN
  /\ IF Gone(c) \/ n = 0
     THEN conns' = [conns EXCEPT ![j].mode = "closing"] /\ UNCHANGED <<link, room>>
     ELSE /\ conns' = [conns EXCEPT ![j].left = @ - n,
                                   ![j].mode = IF n = conns[j].left THEN "closing" ELSE @]
          /\ Sent(c, n)
  /\ UNCHANGED <<inbox, interest, armed>>

-----------------------------------------------------------------------------
(* reactor_loop.                                                              *)

Backlog == {c \in Clients : place[c] = "backlog"}
FreeDescs == {n \in Descs : descs[n] = NoClient}

Least(S) == CHOOSE i \in S : \A j \in S : i <= j
Greatest(S) == CHOOSE i \in S : \A j \in S : i >= j

\* On to the next connection that is closing, from the i-th downwards.
CleanFrom(cs, i) ==
  LET closing == {j \in 1..i : cs[j].mode = "closing"} IN
  IF closing = {} THEN turn' = "wait" /\ index' = 0 ELSE turn' = "clean" /\ index' = Greatest(closing)

\* On to the next stream, from the i-th upwards; then the array is cleaned.
PushFrom(cs, i) ==
  LET streams == {j \in i..Len(cs) : cs[j].mode = "sse"} IN
  IF streams = {} THEN CleanFrom(cs, Len(cs)) ELSE turn' = "push" /\ index' = Least(streams)

\* On to the next event, if there is one.
Proceeds(cs) == IF events' = {} THEN PushFrom(cs, 1) ELSE turn' = "handle" /\ index' = 0

\* while (r->running), epoll_wait
Wait ==
  /\ turn = "wait"
  /\ serving
  /\ events' = {n \in armed : Ready(n)} \union (IF Backlog = {} THEN {} ELSE {0})
  /\ armed' = {}
  /\ Proceeds(conns)
  /\ UNCHANGED <<serving, conns, descs, interest, clientState>>

LoopEnds ==
  /\ turn = "wait"
  /\ ~serving
  /\ turn' = "ended"
  /\ UNCHANGED <<serving, index, conns, kernelState, events, clientState>>

\* One connection is accepted, or accept fails; it is closed again if there is
\* no place in the array, and watched for reading if there is.
Accepts ==
  /\ turn = "handle"
  /\ 0 \in events
  /\ events' = events \ {0}
  /\ \/ UNCHANGED <<conns, kernelState, place>>
     \/ /\ Len(conns) >= MaxConns
        /\ \E c \in Backlog : place' = [place EXCEPT ![c] = "closed"]
        /\ UNCHANGED <<conns, kernelState>>
     \/ \E n \in FreeDescs, c \in Backlog :
          /\ Len(conns) < MaxConns
          /\ \A m \in FreeDescs : n <= m
          /\ place' = [place EXCEPT ![c] = "conn"]
          /\ conns' = Append(conns, [fd |-> n, mode |-> "reading", got |-> 0, left |-> 0])
          /\ descs' = [descs EXCEPT ![n] = c]
          /\ interest' = [interest EXCEPT ![n] = "in"]
          /\ armed' = IF Readable(c) THEN armed \union {n} ELSE armed
  /\ Proceeds(conns')
  /\ UNCHANGED <<serving, link, inbox, said, room>>

\* The first connection of the descriptor.
IsConn(j, n) == j \in 1..Len(conns) /\ conns[j].fd = n /\ \A i \in 1..j - 1 : conns[i].fd # n

Handles(n) ==
  /\ turn = "handle"
  /\ n \in events \ {0}
  /\ events' = events \ {n}
  /\ \E j \in 1..MaxConns : IsConn(j, n) /\ IF interest[n] = "in" THEN HandleRead(j) ELSE HandleWrite(j)
  /\ Proceeds(conns')
  /\ UNCHANGED <<serving, descs, place, said>>

\* SIGPIPE, if the program does not ignore it: a response, or the headers of a
\* stream, are sent to a client whose system has reset the connection.
Sigpipe(n) ==
  /\ turn = "handle"
  /\ n \in events \ {0}
  /\ link[descs[n]] = "pipe"
  /\ \E j \in 1..MaxConns :
       IsConn(j, n) /\ (interest[n] = "out" \/ (Fetched(j) > 0 /\ conns[j].got + Fetched(j) >= HeadSize))
  /\ turn' = "killed"
  /\ UNCHANGED <<serving, index, conns, kernelState, events, clientState>>

\* handle_sse: an event, if there is one and as far as it goes; a stream that
\* takes nothing is closed.
Push ==
  /\ turn = "push"
  /\ LET c == descs[conns[index].fd] IN
     \/ UNCHANGED <<conns, link, room>>
     \/ /\ Gone(c) \/ room[c] = 0
        /\ conns' = [conns EXCEPT ![index].mode = "closing"]
        /\ UNCHANGED <<link, room>>
     \/ /\ ~Gone(c) /\ room[c] > 0
        /\ Sent(c, 1)
        /\ UNCHANGED conns
  /\ PushFrom(conns', index + 1)
  /\ UNCHANGED <<serving, kernelState, events, place, inbox, said>>

\* Faulty: the array is cut without moving the last connection.
RemovedLast(j) == SubSeq(conns, 1, Len(conns) - 1)

\* The last connection takes the place of the one that is removed.
Removed(j) == SubSeq([conns EXCEPT ![j] = conns[Len(conns)]], 1, Len(conns) - 1)

\* reactor_close_conn, on the walk from the end of the array.
Clean ==
  LET n == conns[index].fd IN
  /\ turn = "clean"
  /\ conns' = Removed(index)
  /\ descs' = [descs EXCEPT ![n] = NoClient]
  /\ armed' = armed \ {n}
  /\ place' = [place EXCEPT ![descs[n]] = "closed"]
  /\ CleanFrom(conns', index - 1)
  /\ UNCHANGED <<serving, interest, events, link, inbox, said, room>>

\* bf_reactor_stop
Stops ==
  /\ serving
  /\ serving' = FALSE
  /\ UNCHANGED <<turn, index, conns, kernelState, events, clientState>>

\* ... which joins the thread and closes what is open.
Joins ==
  /\ turn = "ended"
  /\ turn' = "freed"
  /\ LET held == {conns[j].fd : j \in 1..Len(conns)} IN
     /\ descs' = [n \in Descs |-> IF n \in held THEN NoClient ELSE descs[n]]
     /\ place' = [c \in Clients |-> IF \E n \in held : descs[n] = c THEN "closed" ELSE place[c]]
  /\ conns' = <<>>
  /\ armed' = {}
  /\ UNCHANGED <<serving, index, interest, events, link, inbox, said, room>>

-----------------------------------------------------------------------------
ReactorStep ==
  \/ Wait \/ Accepts \/ Push \/ Clean \/ LoopEnds \/ Joins
  \/ \E n \in Descs : Handles(n) \/ Sigpipe(n)

ReactorNext ==
  \/ ReactorStep
  \/ Stops
  \/ \E c \in Clients : Dial(c) \/ Say(c) \/ Listen(c) \/ Leave(c) \/ ResetArrives(c)

ReactorSpec == ReactorInit /\ [][ReactorNext]_reactorVars

\* The thread is scheduled; a client that does not leave reads what it is sent.
\* Nobody has to connect, to send anything, or to stop the reactor.
ReactorFairness ==
  WF_reactorVars(ReactorStep) /\ \A c \in Clients : WF_reactorVars(Listen(c)) /\ WF_reactorVars(ResetArrives(c))

ReactorFairSpec == ReactorSpec /\ ReactorFairness

-----------------------------------------------------------------------------
(* Properties.                                                                *)

\* Array, descriptors and clients agree although entries are moved while the
\* array is walked: every open connection has one entry, which its events find,
\* and no other. An open descriptor without an entry would stay open for ever.
EntriesMatch ==
  turn # "killed" =>
    /\ \A i, j \in 1..Len(conns) : conns[i].fd = conns[j].fd => i = j
    /\ {conns[j].fd : j \in 1..Len(conns)} = {n \in Descs : descs[n] # NoClient}
    /\ \A c \in Clients : Cardinality(DescsOf(c)) = IF place[c] = "conn" THEN 1 ELSE 0

\* No edge is lost while the loop runs: a connection whose next recv, or whose
\* next send, would go on is still on the kernel's list or among the events that
\* are not handled yet. With edge-triggered readiness it would otherwise wait
\* until the client says more, and for the last part of a request for ever.
EdgesKept ==
  \A j \in 1..Len(conns) :
    LET n == conns[j].fd
        c == descs[n]
    IN (conns[j].mode = "reading" /\ inbox[c] > 0) \/ (conns[j].mode = "writing" /\ Writable(c))
         => n \in armed \union events

Over == turn \in {"freed", "killed"}

Modes(c, mode) == \E j \in 1..Len(conns) : conns[j].mode = mode /\ descs[conns[j].fd] = c
Received(c) == LET js == {j \in 1..Len(conns) : descs[conns[j].fd] = c} IN
               IF js = {} THEN 0 ELSE conns[CHOOSE j \in js : TRUE].got

\* Edges are not lost: a request that has come completely, in whatever pieces,
\* is answered or refused, and the connection closed, or it becomes a stream. A
\* response that did not fit at once is sent to its end, or to nobody.
RequestsEnd ==
  \A c \in Clients :
    (place[c] = "conn" /\ (Modes(c, "writing") \/ Received(c) + inbox[c] >= HeadSize))
      ~> place[c] = "closed" \/ Modes(c, "sse") \/ Over

\* The connection of a client that went away is given back, while a response is
\* sent to it or when its end is still to be reported by itself: an end that
\* came together with a part of a request is taken from the kernel's list by the
\* one recv that reads the part, and is not seen again.
EndsAreSeen ==
  \A c \in Clients :
    (place[c] = "conn" /\ link[c] # "open" /\
       (Modes(c, "writing") \/ (inbox[c] = 0 /\ DescsOf(c) \subseteq armed \union events)))
      ~> place[c] = "closed" \/ Over
=============================================================================
