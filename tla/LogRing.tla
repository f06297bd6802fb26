------------------------------ MODULE LogRing -------------------------------
(* The logger: lib/libbonfyre/bf_log.c. Each thread that logs has a ring of   *)
(* its own, which only it writes; any thread may flush the rings of all, and  *)
(* a thread does so itself when its ring is getting full. head and tail are   *)
(* atomic and are reduced to a slot only where one is used.                   *)
(*                                                                            *)
(* A line is the number that it has in its thread, so line n goes to the slot *)
(* of n - 1; 0 is a slot that was never written. Abstracted: levels (any line  *)
(* may be FATAL, and flush), the sinks and the rotation of files.             *)
EXTENDS Integers, FiniteSets

CONSTANTS
  Loggers, NoLogger,
  RingSize,  \* RING_SIZE
  FlushAt,   \* RING_SIZE * 3 / 4
  MaxRings,  \* MAX_THREADS
  MaxLines   \* lines that each thread writes

ASSUME LoggersAssumption == NoLogger \notin Loggers /\ MaxLines \in [Loggers -> Nat]
ASSUME RingAssumption == RingSize \in Nat /\ FlushAt \in 1..RingSize - 2 /\ MaxRings \in Nat

VARIABLES
  logging,  \* g_log.initialized
  rings,    \* g_rings: the thread that a ring belongs to
  nrings,   \* g_ring_count
  ring,     \* tl_ring: the place that the ring of a thread was given, 0 none
  head, tail, entry,
  doing,    \* where a thread is
  at,       \* its i, tail and head in bf_log_flush, and how many rings it saw
  closing,  \* the thread that is in bf_log_shutdown
  printed,  \* history: the lines that reached the sinks
  raced,    \* history: lines that a flush passed before they were in their slot
  setback   \* history: the threads whose tail was set back by a late flush

ringVars == <<rings, nrings, ring>>
logVars == <<logging, ringVars, head, tail, entry, doing, at, closing, printed, raced, setback>>

Rings   == 1..MaxRings
RingPos == 0..RingSize - 1
Pos(n)  == n % RingSize
Lines(t) == 0..MaxLines[t]
Nowhere == [i |-> 0, count |-> 0, tail |-> 0, head |-> 0]

LogTypeOK ==
  /\ logging \in BOOLEAN
  /\ rings \in [Rings -> Loggers \union {NoLogger}]
  /\ nrings \in 0..Cardinality(Loggers)
  /\ ring \in [Loggers -> 0..Cardinality(Loggers)]
  /\ \A t \in Loggers : head[t] \in Lines(t) /\ tail[t] \in 0..head[t]
  /\ \A t \in Loggers : entry[t] \in [RingPos -> Lines(t)]
  /\ doing \in [Loggers -> {"idle", "enter", "reserve", "store", "check", "flush", "tail", "head", "print"}]
  /\ \A t \in Loggers : at[t].i \in 0..MaxRings + 1 /\ at[t].count \in 0..MaxRings /\ at[t].tail <= at[t].head
  /\ closing \in Loggers \union {NoLogger}
  /\ \A l \in printed \union raced : l[1] \in Loggers /\ l[2] \in 1..head[l[1]]
  /\ setback \subseteq Loggers

\* bf_log_init
LogInit ==
  /\ logging = TRUE
  /\ rings = [r \in Rings |-> NoLogger]
  /\ nrings = 0
  /\ ring = [t \in Loggers |-> 0]
  /\ head = [t \in Loggers |-> 0]
  /\ tail = [t \in Loggers |-> 0]
  /\ entry = [t \in Loggers |-> [p \in RingPos |-> 0]]
  /\ doing = [t \in Loggers |-> "idle"]
  /\ at = [t \in Loggers |-> Nowhere]
  /\ closing = NoLogger
  /\ printed = {}
  /\ raced = {}
  /\ setback = {}

Moves(t, from, to) == doing[t] = from /\ doing' = [doing EXCEPT ![t] = to]

-----------------------------------------------------------------------------
(* bf_log_write.                                                              *)

LogWrite(t) ==
  /\ logging
  /\ closing = NoLogger
  /\ head[t] < MaxLines[t]
  /\ \/ ring[t] # 0 /\ Moves(t, "idle", "reserve") /\ UNCHANGED <<nrings, ring>>
     \/ /\ ring[t] = 0
        /\ Moves(t, "idle", "enter")
        /\ nrings' = nrings + 1
        /\ ring' = [ring EXCEPT ![t] = nrings + 1]
  /\ UNCHANGED <<logging, rings, head, tail, entry, at, closing, printed, raced, setback>>

\* get_ring: the ring is entered, if there is room for it.
EnterRing(t) ==
  /\ Moves(t, "enter", "reserve")
  /\ rings' = IF ring[t] <= MaxRings THEN [rings EXCEPT ![ring[t]] = t] ELSE rings
  /\ UNCHANGED <<logging, nrings, ring, head, tail, entry, at, closing, printed, raced, setback>>

Reserve(t) ==
  /\ Moves(t, "reserve", "store")
  /\ head' = [head EXCEPT ![t] = @ + 1]
  /\ UNCHANGED <<logging, ringVars, tail, entry, at, closing, printed, raced, setback>>

StoreLine(t) ==
  /\ Moves(t, "store", "check")
  /\ entry' = [entry EXCEPT ![t][Pos(head[t] - 1)] = head[t]]
  /\ UNCHANGED <<logging, ringVars, head, tail, at, closing, printed, raced, setback>>

\* Faulty: the ring is flushed when it is full, which used never says.
GettingFullLate(t) == Pos(head[t] - tail[t]) >= RingSize

GettingFull(t) == Pos(head[t] - tail[t]) > FlushAt

CheckRing(t) ==
  /\ \/ ~GettingFull(t) /\ Moves(t, "check", "idle")
     \/ Moves(t, "check", "flush")
  /\ UNCHANGED <<logging, ringVars, head, tail, entry, at, closing, printed, raced, setback>>

-----------------------------------------------------------------------------
(* bf_log_flush.                                                              *)

Flush(t) ==
  /\ logging
  /\ closing = NoLogger
  /\ Moves(t, "idle", "flush")
  /\ UNCHANGED <<logging, ringVars, head, tail, entry, at, closing, printed, raced, setback>>

\* The rings that are counted, from the first.
FlushBegins(t) ==
  /\ Moves(t, "flush", "tail")
  /\ at' = [at EXCEPT ![t] = [Nowhere EXCEPT !.i = 1, !.count = IF nrings < MaxRings THEN nrings ELSE MaxRings]]
  /\ UNCHANGED <<logging, ringVars, head, tail, entry, closing, printed, raced, setback>>

\* A place that was counted may not have its ring yet.
SkipsRing(t) ==
  /\ doing[t] = "tail"
  /\ at[t].i <= at[t].count
  /\ rings[at[t].i] = NoLogger
  /\ at' = [at EXCEPT ![t].i = @ + 1]
  /\ UNCHANGED <<logging, ringVars, head, tail, entry, doing, closing, printed, raced, setback>>

Flushed(t) == rings[at[t].i]

ReadTail(t) ==
  /\ Moves(t, "tail", "head")
  /\ at[t].i <= at[t].count
  /\ Flushed(t) # NoLogger
  /\ at' = [at EXCEPT ![t].tail = tail[Flushed(t)], ![t].head = tail[Flushed(t)]]
  /\ UNCHANGED <<logging, ringVars, head, tail, entry, closing, printed, raced, setback>>

ReadHead(t) ==
  LET s == Flushed(t) IN
  /\ Moves(t, "head", "print")
  /\ at' = [at EXCEPT ![t].head = head[s]]
  /\ raced' = IF doing[s] = "store" THEN raced \union {<<s, head[s]>>} ELSE raced
  /\ UNCHANGED <<logging, ringVars, head, tail, entry, closing, printed, setback>>

\* The line that is found in a slot; the old one, the new one or parts of both if
\* its thread is writing it.
Found(s, p) ==
  {entry[s][p]} \union IF doing[s] = "store" /\ Pos(head[s] - 1) = p THEN {head[s], 0} ELSE {}

Print1(t) ==
  /\ doing[t] = "print"
  /\ at[t].tail # at[t].head
  /\ \E n \in Found(Flushed(t), Pos(at[t].tail)) :
       printed' = IF n = 0 THEN printed ELSE printed \union {<<Flushed(t), n>>}
  /\ at' = [at EXCEPT ![t].tail = @ + 1]
  /\ UNCHANGED <<logging, ringVars, head, tail, entry, doing, closing, raced, setback>>

SaveTail(t) ==
  /\ at[t].tail = at[t].head
  /\ Moves(t, "print", "tail")
  /\ tail' = [tail EXCEPT ![Flushed(t)] = at[t].tail]
  /\ setback' = IF at[t].tail < tail[Flushed(t)] THEN setback \union {Flushed(t)} ELSE setback
  /\ at' = [at EXCEPT ![t] = [Nowhere EXCEPT !.i = at[t].i + 1, !.count = at[t].count]]
  /\ UNCHANGED <<logging, ringVars, head, entry, closing, printed, raced>>

\* The flush is over; bf_log_shutdown then frees the rings.
FlushEnds(t) ==
  /\ at[t].i > at[t].count
  /\ Moves(t, "tail", "idle")
  /\ at' = [at EXCEPT ![t] = Nowhere]
  /\ logging' = (closing # t)
  /\ UNCHANGED <<ringVars, head, tail, entry, closing, printed, raced, setback>>

\* bf_log_shutdown, when nobody else logs any more.
Shutdown(t) ==
  /\ logging
  /\ closing = NoLogger
  /\ \A s \in Loggers \ {t} : doing[s] = "idle"
  /\ Moves(t, "idle", "flush")
  /\ closing' = t
  /\ UNCHANGED <<logging, ringVars, head, tail, entry, at, printed, raced, setback>>

-----------------------------------------------------------------------------
LogNext == \E t \in Loggers :
  \/ LogWrite(t) \/ EnterRing(t) \/ Reserve(t) \/ StoreLine(t) \/ CheckRing(t)
  \/ Flush(t) \/ FlushBegins(t) \/ SkipsRing(t) \/ ReadTail(t) \/ ReadHead(t)
  \/ Print1(t) \/ SaveTail(t) \/ FlushEnds(t) \/ Shutdown(t)

LogSpec == LogInit /\ [][LogNext]_logVars

-----------------------------------------------------------------------------
Stored(t) == {n \in 1..head[t] : ~(n = head[t] /\ doing[t] = "store")}
Kept(t) == {n \in 1..head[t] : n > tail[t] /\ entry[t][Pos(n - 1)] = n}

\* The threads whose rings were always emptied from where the last flush ended.
Orderly == {t \in Loggers : ring[t] \in Rings} \ setback

\* A line that was written stays in its slot, before the tail, until it is printed,
\* while the ring wraps and others flush it; and bf_log_shutdown, which frees the
\* rings ("Flush all ring buffers and close files"), leaves none behind. Lines are
\* lost in two ways only: one that is reserved when a flush passes, and those of a
\* ring whose tail is set back by a flush that another has overtaken (the ring
\* then need not count as full).
LinesKept ==
  \A t \in Orderly : \A n \in Stored(t) :
    <<t, n>> \in printed \/ (logging /\ n \in Kept(t)) \/ <<t, n>> \in raced
=============================================================================
