--------------------------- MODULE PluginRegistry ---------------------------
(* The plugin loader: lib/libbonfyre/bf_hotload.c on Linux (inotify).         *)
(*                                                                            *)
(* A registry keeps plugins in slots. Callers load and reload them, the       *)
(* watcher thread reloads those whose files are written, and users execute    *)
(* stages by name. An operation that keeps reg->lock throughout is one        *)
(* action; bf_hotload_exec calls the plugin after it gave the lock up, and    *)
(* bf_hotload_ab_register does not take it for the second plugin.             *)
(*                                                                            *)
(* A file holds the version that was written last, or Broken where            *)
(* load_plugin would refuse it. dlopen and dlclose count the references to a  *)
(* file and keep its image while there are any; a file is replaced as a       *)
(* whole, not rewritten in place. Abstracted: statistics, user data and the   *)
(* text of names; no file name is part of another. Every write of a file      *)
(* makes a new version: MaxVersion bounds them.                               *)
EXTENDS Integers, Sequences, FiniteSets

CONSTANTS
  Files, NoFile,
  Stages,
  StageOf,     \* the stage_name in the metadata of a file
  MaxSlots,    \* BF_HOTLOAD_MAX_STAGES
  MaxPairs,    \* the size of reg->ab_pairs
  MaxVersion,
  Users,
  MayPair,     \* A/B pairs are registered
  MayWatch     \* registries may be created with a watcher

ASSUME FilesAssumption == NoFile \notin Files /\ StageOf \in [Files -> Stages]
ASSUME BoundAssumption == MaxSlots \in Nat /\ MaxPairs \in Nat /\ MaxVersion \in Nat \ {0}
ASSUME ModeAssumption == {MayPair, MayWatch} \subseteq BOOLEAN

VARIABLES
  file,      \* the version that a file holds
  written,   \* the number of versions so far
  mapped,    \* the dynamic loader: references to a file, and its image
  slots,     \* reg->stages
  nslots,    \* reg->n_stages
  pairs,     \* reg->ab_pairs, by their stages
  pairing,   \* the second half of a registration, by the thread that makes it
  calls,     \* the plugin code that a user is calling
  watcher,   \* where the watcher thread is
  notified,  \* files whose inotify events wait to be read
  batch,     \* files whose events were read and are not handled yet
  life       \* the registry: "live", "closing" (destroy has begun), "freed"

slotVars == <<mapped, slots, nslots>>
pairVars == <<pairs, pairing>>
watchVars == <<watcher, notified, batch>>
vars == <<file, written, slotVars, pairVars, calls, watchVars, life>>

Broken   == 0
Versions == 0..MaxVersion
Slots    == 1..MaxSlots
Names    == Stages \X {"a", "b"}
Image    == [refs : Nat, version : Versions]
Slot     == [path : Files \union {NoFile}, name : Names \union {<<>>}, entry : Versions]
Empty    == [path |-> NoFile, name |-> <<>>, entry |-> Broken]
Call     == [path : Files \union {NoFile}, version : Versions]
NoCall   == [path |-> NoFile, version |-> Broken]

TypeOK ==
  /\ file \in [Files -> Versions]
  /\ written \in Versions
  /\ mapped \in [Files -> Image]
  /\ slots \in [Slots -> Slot]
  /\ nslots \in 0..MaxSlots
  /\ pairs \in Seq(Stages)
  /\ pairing \in [step : {"none", "load", "count"}, file : Files \union {NoFile}, stage : Stages \union {<<>>}]
  /\ calls \in [Users -> Call]
  /\ watcher \in {"off", "start", "test", "read", "handle", "ended"}
  /\ notified \in SUBSET Files
  /\ batch \in SUBSET Files
  /\ life \in {"live", "closing", "freed"}

NoPair == [step |-> "none", file |-> NoFile, stage |-> <<>>]

-----------------------------------------------------------------------------
(* dlopen and dlclose.                                                        *)

\* What dlopen maps, or finds mapped.
ImageOf(m, f) == IF m[f].refs > 0 THEN m[f].version ELSE file[f]

Opened(m, f) == [m EXCEPT ![f] = [refs |-> @.refs + 1, version |-> ImageOf(m, f)]]

Closed(m, f) == [m EXCEPT ![f].refs = @ - 1]

\* unload_stage: the handle and the entry go together.
Unloaded(m, s) == IF slots[s].entry # Broken THEN Closed(m, slots[s].path) ELSE m

\* Faulty: a file that is refused stays open.
LoadLeaking(m, s, f, name) ==
  IF ImageOf(m, f) # Broken
  THEN /\ mapped' = Opened(m, f)
       /\ slots' = [slots EXCEPT ![s] = [path |-> f, name |-> name, entry |-> ImageOf(m, f)]]
  ELSE /\ mapped' = Opened(m, f)
       /\ slots' = [slots EXCEPT ![s].entry = Broken]

\* Faulty: the slot takes the version on disk for the one that dlopen returned.
LoadFromDisk(m, s, f, name) ==
  IF ImageOf(m, f) # Broken
  THEN /\ mapped' = Opened(m, f)
       /\ slots' = [slots EXCEPT ![s] = [path |-> f, name |-> name, entry |-> file[f]]]
  ELSE /\ mapped' = m
       /\ slots' = [slots EXCEPT ![s].entry = Broken]

\* load_plugin(path, slot), where m is what is mapped when it begins. A file
\* that is refused is closed again and leaves the slot as it is, unloaded.
Load(m, s, f, name) ==
  IF ImageOf(m, f) # Broken
  THEN /\ mapped' = Opened(m, f)
       /\ slots' = [slots EXCEPT ![s] = [path |-> f, name |-> name, entry |-> ImageOf(m, f)]]
  ELSE /\ mapped' = m
       /\ slots' = [slots EXCEPT ![s].entry = Broken]

Plain(f) == <<StageOf[f], "a">>

Loads(m, f) == ImageOf(m, f) # Broken

\* The next free slot, kept if the plugin loads.
LoadNext(f) ==
  /\ nslots < MaxSlots
  /\ Load(mapped, nslots + 1, f, Plain(f))
  /\ nslots' = IF Loads(mapped, f) THEN nslots + 1 ELSE nslots

\* bf_hotload_create: the files that load when the directory is scanned, in the
\* order of readdir and as far as there is room.
Scanned(order) ==
  /\ nslots = Cardinality(DOMAIN order)
  /\ slots = [s \in Slots |-> IF s \in DOMAIN order
                              THEN [path |-> order[s], name |-> Plain(order[s]), entry |-> file[order[s]]]
                              ELSE Empty]
  /\ mapped = [f \in Files |-> IF \E s \in DOMAIN order : order[s] = f
                               THEN [refs |-> 1, version |-> file[f]]
                               ELSE [refs |-> 0, version |-> Broken]]

Valid == {f \in Files : file[f] # Broken}

Init ==
  /\ file \in [Files -> {Broken, 1}]
  /\ written = 1
  /\ \E n \in 0..MaxSlots : \E order \in [1..n -> Valid] :
       /\ \A i, j \in 1..n : order[i] = order[j] => i = j
       /\ n < MaxSlots => Cardinality(Valid) = n
       /\ Scanned(order)
  /\ pairs = <<>>
  /\ pairing = NoPair
  /\ calls = [u \in Users |-> NoCall]
  /\ watcher \in IF MayWatch THEN {"off", "start"} ELSE {"off"}
  /\ notified = {}
  /\ batch = {}
  /\ life = "live"

-----------------------------------------------------------------------------
(* Loading by callers.                                                        *)

\* A registration of a pair is not protected from other loads: it is made where
\* nobody else loads, in a registry without a watcher.
NobodyPairs == pairing = NoPair

\* bf_hotload_load
LoadNew(f) ==
  /\ life = "live"
  /\ NobodyPairs
  /\ LoadNext(f)
  /\ UNCHANGED <<file, written, pairVars, calls, watchVars, life>>

\* find_stage: the first slot of the name.
IsStage(s, name) ==
  /\ s \in 1..nslots
  /\ slots[s].name = name
  /\ \A i \in 1..s - 1 : slots[i].name # name

\* bf_hotload_reload, with the path the stage has or with a new one. The name
\* becomes that of the metadata.
Reload(s, f) ==
  /\ life = "live"
  /\ NobodyPairs
  /\ \E name \in Names : IsStage(s, name)
  /\ Load(Unloaded(mapped, s), s, f, Plain(f))
  /\ UNCHANGED <<file, written, nslots, pairVars, calls, watchVars, life>>

\* bf_hotload_ab_register, while there is room for a pair: the first plugin is
\* loaded as any other; ...
PairFirst(stage, f, g) ==
  /\ MayPair
  /\ life = "live"
  /\ NobodyPairs
  /\ watcher = "off"
  /\ Len(pairs) < MaxPairs
  /\ LoadNext(f)
  /\ pairing' = IF Loads(mapped, f) THEN [step |-> "load", file |-> g, stage |-> stage] ELSE NoPair
  /\ UNCHANGED <<file, written, pairs, calls, watchVars, life>>

\* ... the second into the slot behind it, under the name of its variant; ...
PairSecond ==
  LET f == pairing.file IN
  /\ pairing.step = "load"
  /\ IF nslots < MaxSlots
     THEN Load(mapped, nslots + 1, f, <<pairing.stage, "b">>)
     ELSE UNCHANGED <<mapped, slots>>
  /\ pairing' = IF nslots < MaxSlots /\ Loads(mapped, f) THEN [pairing EXCEPT !.step = "count"] ELSE NoPair
  /\ UNCHANGED <<file, written, nslots, pairs, calls, watchVars, life>>

\* ... and only then counted, and the pair entered.
PairCount ==
  /\ pairing.step = "count"
  /\ nslots' = nslots + 1
  /\ pairs' = Append(pairs, pairing.stage)
  /\ pairing' = NoPair
  /\ UNCHANGED <<file, written, mapped, slots, calls, watchVars, life>>

-----------------------------------------------------------------------------
(* Execution.                                                                 *)

\* bf_hotload_exec up to the call; bf_hotload_ab_exec with the name of a variant.
Exec(u, name) ==
  /\ life = "live"
  /\ calls[u] = NoCall
  /\ name[2] = "b" => \E i \in DOMAIN pairs : pairs[i] = name[1]
  /\ \E s \in 1..nslots :
       /\ IsStage(s, name)
       /\ slots[s].entry # Broken
       /\ calls' = [calls EXCEPT ![u] = [path |-> slots[s].path, version |-> slots[s].entry]]
  /\ UNCHANGED <<file, written, slotVars, pairVars, watchVars, life>>

\* entry(ctx) returns.
Return(u) ==
  /\ calls[u] # NoCall
  /\ calls' = [calls EXCEPT ![u] = NoCall]
  /\ UNCHANGED <<file, written, slotVars, pairVars, watchVars, life>>

-----------------------------------------------------------------------------
(* The watcher.                                                               *)

Watching == watcher \in {"test", "read", "handle"}

\* Somebody writes a file and closes it.
Write(f) ==
  /\ written < MaxVersion
  /\ written' = written + 1
  /\ \E v \in {Broken, written + 1} : file' = [file EXCEPT ![f] = v]
  /\ notified' = IF Watching THEN notified \union {f} ELSE notified
  /\ UNCHANGED <<slotVars, pairVars, calls, watcher, batch, life>>

WatcherGoes(from, to) == watcher = from /\ watcher' = to

\* inotify_add_watch, by the thread that create started; if it fails the thread
\* ends, and no file is reloaded.
WatchAdd ==
  /\ WatcherGoes("start", "test") \/ WatcherGoes("start", "ended")
  /\ UNCHANGED <<file, written, slotVars, pairVars, calls, notified, batch, life>>

\* while (reg->watcher_running)
WatchTest ==
  /\ WatcherGoes("test", IF life = "live" THEN "read" ELSE "ended")
  /\ UNCHANGED <<file, written, slotVars, pairVars, calls, notified, batch, life>>

\* One read takes the events that there are; without any the thread sleeps.
WatchRead ==
  /\ WatcherGoes("read", IF notified = {} THEN "test" ELSE "handle")
  /\ batch' = notified
  /\ notified' = {}
  /\ UNCHANGED <<file, written, slotVars, pairVars, calls, life>>

OfFile(s, f) ==
  /\ s \in 1..nslots
  /\ slots[s].path = f
  /\ \A i \in 1..s - 1 : slots[i].path # f

\* Faulty: only files that no slot has are loaded.
HandleNewOnly(f) ==
  IF (\A s \in 1..nslots : slots[s].path # f) /\ nslots < MaxSlots
  THEN LoadNext(f)
  ELSE UNCHANGED slotVars

\* try_reload_file: the first slot of the file is unloaded and loaded again; a
\* file that no slot has is loaded into a new one.
Handle(f) ==
  \/ \E s \in 1..nslots : /\ OfFile(s, f)
                          /\ Load(Unloaded(mapped, s), s, f, Plain(f))
                          /\ nslots' = nslots
  \/ (\A s \in 1..nslots : slots[s].path # f) /\ LoadNext(f)
  \/ (\A s \in 1..nslots : slots[s].path # f) /\ nslots = MaxSlots /\ UNCHANGED slotVars

\* All events of a read are handled, whether or not the watcher was stopped.
WatchHandle ==
  /\ watcher = "handle"
  /\ \E f \in batch : Handle(f) /\ batch' = batch \ {f}
  /\ watcher' = IF batch' = {} THEN "test" ELSE "handle"
  /\ UNCHANGED <<file, written, pairVars, calls, notified, life>>

-----------------------------------------------------------------------------
(* bf_hotload_destroy, by a caller who lets nobody use the registry any more. *)

Close ==
  /\ life = "live"
  /\ NobodyPairs
  /\ \A u \in Users : calls[u] = NoCall
  /\ life' = "closing"
  /\ UNCHANGED <<file, written, slotVars, pairVars, calls, watchVars>>

References(f) == Cardinality({s \in 1..nslots : slots[s].path = f /\ slots[s].entry # Broken})

\* The watcher is joined, every slot unloaded, the registry freed.
Free ==
  /\ life = "closing"
  /\ watcher \in {"off", "ended"}
  /\ mapped' = [f \in Files |-> [mapped[f] EXCEPT !.refs = @ - References(f)]]
  /\ life' = "freed"
  /\ UNCHANGED <<file, written, slots, nslots, pairVars, calls, watchVars>>

-----------------------------------------------------------------------------
WatcherStep == WatchAdd \/ WatchTest \/ WatchRead \/ WatchHandle

Next ==
  \/ \E f \in Files : LoadNew(f) \/ Write(f)
  \/ \E s \in Slots, f \in Files : Reload(s, f)
  \/ \E stage \in Stages, f, g \in Files : PairFirst(stage, f, g)
  \/ PairSecond \/ PairCount
  \/ \E u \in Users : Return(u) \/ \E name \in Names : Exec(u, name)
  \/ WatcherStep
  \/ Close \/ Free

Spec == Init /\ [][Next]_vars

\* The watcher thread is scheduled.
Fairness == WF_vars(WatcherStep)

FairSpec == Spec /\ Fairness

-----------------------------------------------------------------------------
(* Properties.                                                                *)

\* The slots in use, and the one that a registration has filled but not counted.
InUse == 1..nslots \union IF pairing.step = "count" THEN {nslots + 1} ELSE {}

Holders(f) == {s \in InUse : slots[s].path = f /\ slots[s].entry # Broken}

\* dlopen and dlclose balance on every path, those of files that are refused
\* and of reloads that fail included: a file is referred to once by each slot
\* that was loaded from it, and by nobody when the registry is destroyed.
HandlesBalanced ==
  \A f \in Files : mapped[f].refs = IF life = "freed" THEN 0 ELSE Cardinality(Holders(f))

\* The entry point of a slot is code that is mapped, of the image that is mapped:
\* a slot never mixes two versions of its file, even if other slots have it too.
EntryMapped ==
  life # "freed" =>
    \A s \in InUse : slots[s].entry # Broken =>
      mapped[slots[s].path].refs > 0 /\ mapped[slots[s].path].version = slots[s].entry

\* The code that a user is calling stays mapped until the call returns ("hot-swaps
\* the stage without restarting the pipeline").
NoStaleCall ==
  \A u \in Users : calls[u] # NoCall =>
    mapped[calls[u].path].refs > 0 /\ mapped[calls[u].path].version = calls[u].version

Serves(f, v) == \E s \in 1..nslots : slots[s].path = f /\ slots[s].entry = v

Noticed(f) == f \in notified \union batch

NoRoomFor(f) == nslots = MaxSlots /\ \A s \in Slots : slots[s].path # f

\* "A file-watcher (kqueue/inotify) detects builds and hot-swaps the stage": a version whose
\* event the watcher will read is served, unless another one is written, there
\* is no slot for it, the registry is destroyed, or several slots share the
\* file (dlopen then returns the image that they have).
SwapsIn ==
  \A f \in Files : \A v \in 1..MaxVersion :
    (Noticed(f) /\ file[f] = v) ~>
      Serves(f, v) \/ file[f] # v \/ NoRoomFor(f) \/ life # "live" \/ mapped[f].refs > 1
=============================================================================
