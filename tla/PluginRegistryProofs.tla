------------------------ MODULE PluginRegistryProofs -------------------------
(* Proofs about the plugin loader, for any files, stages, users and size of   *)
(* the registry.                                                              *)
EXTENDS PluginRegistry, FiniteSetTheorems, TLAPS

\* The slots of U that hold the file f.
Hold(U, sl, f) == {s \in U : sl[s].path = f /\ sl[s].entry # Broken}

\* The books of the dynamic loader, for the slots of U: one reference for each
\* slot that holds a file, and one version for all of them.
Books(U, sl, m) ==
  /\ \A f \in Files : m[f].refs = Cardinality(Hold(U, sl, f))
  /\ \A s \in U : sl[s].entry # Broken => sl[s].path \in Files /\ m[sl[s].path].version = sl[s].entry

\* The registry: its books, and who may be at work in it.
RegistryInv ==
  /\ TypeOK
  /\ life # "freed" => Books(InUse, slots, mapped)
  /\ life = "freed" => (\A f \in Files : mapped[f].refs = 0) /\ watcher \in {"off", "ended"}
  /\ pairing.step # "none" => watcher = "off" /\ life = "live"
  /\ pairing.step = "none" => pairing = NoPair
  /\ pairing.step = "load" => pairing.file \in Files /\ pairing.stage \in Stages
  /\ pairing.step = "count" => nslots < MaxSlots /\ pairing.stage \in Stages

-----------------------------------------------------------------------------
(* Cardinalities.                                                             *)

\* Two finite sets that differ in one element only.
LEMMA OneMore ==
  ASSUME NEW A, NEW x, IsFiniteSet(A), x \notin A
  PROVE  /\ IsFiniteSet(A \union {x})
         /\ Cardinality(A) \in Nat
         /\ Cardinality(A \union {x}) = Cardinality(A) + 1
  BY FS_AddElement, FS_CardinalityType

LEMMA HoldFinite ==
  ASSUME NEW U \in SUBSET Slots, NEW sl, NEW f
  PROVE  IsFiniteSet(Hold(U, sl, f)) /\ Cardinality(Hold(U, sl, f)) \in Nat
<1>1. IsFiniteSet(Slots)
  BY BoundAssumption, FS_Interval DEF Slots
<1>2. Hold(U, sl, f) \subseteq Slots
  BY DEF Hold
<1> QED
  BY <1>1, <1>2, FS_Subset, FS_CardinalityType

-----------------------------------------------------------------------------
(* dlopen and dlclose.                                                        *)

\* unload_stage takes its slot, and the reference of that slot, off the books.
LEMMA UnloadBooks ==
  ASSUME NEW U \in SUBSET Slots, NEW s \in U, mapped \in [Files -> Image], Books(U, slots, mapped)
  PROVE  /\ Unloaded(mapped, s) \in [Files -> Image]
         /\ Books(U \ {s}, slots, Unloaded(mapped, s))
<1>1. CASE slots[s].entry = Broken
  <2>1. Unloaded(mapped, s) = mapped
    BY <1>1 DEF Unloaded
  <2>2. \A f : Hold(U \ {s}, slots, f) = Hold(U, slots, f)
    BY <1>1 DEF Hold
  <2> QED
    BY <2>1, <2>2 DEF Books
<1>2. CASE slots[s].entry # Broken
  <2> DEFINE g == slots[s].path
             m == Unloaded(mapped, s)
  <2>1. g \in Files
    BY <1>2 DEF Books
  <2>2. m = [mapped EXCEPT ![g].refs = @ - 1]
    BY <1>2 DEF Unloaded, Closed
  <2> HIDE DEF m
  <2>3. \A f \in Files : f # g => Hold(U \ {s}, slots, f) = Hold(U, slots, f)
    BY DEF Hold
  <2>4. Hold(U, slots, g) = Hold(U \ {s}, slots, g) \union {s} /\ s \notin Hold(U \ {s}, slots, g)
    BY <1>2 DEF Hold
  <2>5. /\ Cardinality(Hold(U \ {s}, slots, g)) \in Nat
        /\ Cardinality(Hold(U, slots, g)) = Cardinality(Hold(U \ {s}, slots, g)) + 1
    BY <2>4, HoldFinite, OneMore
  <2>6. mapped[g].refs = Cardinality(Hold(U, slots, g)) /\ mapped[g] \in Image
    BY <2>1 DEF Books
  <2>7. m[g] = [mapped[g] EXCEPT !.refs = @ - 1] /\ \A f \in Files : f # g => m[f] = mapped[f]
    BY <2>1, <2>2
  <2>8. m[g].refs = Cardinality(Hold(U \ {s}, slots, g)) /\ m[g].version = mapped[g].version /\ m[g] \in Image
    BY <2>5, <2>6, <2>7 DEF Image
  <2>9. m \in [Files -> Image]
    BY <2>2, <2>7, <2>8
  <2>10. \A f \in Files : m[f].refs = Cardinality(Hold(U \ {s}, slots, f))
    BY <2>3, <2>7, <2>8 DEF Books
  <2>11. \A t \in U \ {s} : slots[t].entry # Broken => slots[t].path \in Files /\ m[slots[t].path].version = slots[t].entry
    BY <2>7, <2>8 DEF Books
  <2> QED
    BY <2>9, <2>10, <2>11 DEF Books, m
<1> QED
  BY <1>1, <1>2

\* load_plugin into a slot that is not on the books: the slot joins them, or is
\* left without an entry point.
LEMMA LoadBooks ==
  ASSUME NEW U \in SUBSET Slots, NEW s \in Slots \ U, NEW f \in Files, NEW name \in Names,
         NEW m \in [Files -> Image], file \in [Files -> Versions], slots \in [Slots -> Slot],
         Books(U, slots, m), Load(m, s, f, name)
  PROVE  /\ mapped' \in [Files -> Image]
         /\ slots' \in [Slots -> Slot]
         /\ Books(U \union {s}, slots', mapped')
         /\ ~Loads(m, f) => Books(U, slots', mapped')
<1> DEFINE v == ImageOf(m, f)
<1>1. v \in Versions /\ m[f] \in Image
  BY DEF ImageOf, Image
<1>2. /\ \A t \in U : slots'[t] = slots[t]
      /\ slots' \in [Slots -> Slot]
  BY <1>1 DEF Load, Slot
<1>3. CASE v = Broken
  <2>1. mapped' = m /\ slots'[s].entry = Broken
    BY <1>3 DEF Load, Slot
  <2>2. \A g : Hold(U, slots', g) = Hold(U, slots, g) /\ Hold(U \union {s}, slots', g) = Hold(U, slots, g)
    BY <1>2, <2>1 DEF Hold
  <2> QED
    BY <1>2, <2>1, <2>2 DEF Books
<1>4. CASE v # Broken
  <2>1. /\ mapped' = [m EXCEPT ![f] = [refs |-> m[f].refs + 1, version |-> v]]
        /\ slots' = [slots EXCEPT ![s] = [path |-> f, name |-> name, entry |-> v]]
    BY <1>4 DEF Load, Opened
  <2>2. slots'[s].path = f /\ slots'[s].entry = v
    BY <2>1
  <2>3. \A g \in Files : g # f => Hold(U \union {s}, slots', g) = Hold(U, slots, g)
    BY <1>2, <2>2 DEF Hold
  <2>4. Hold(U \union {s}, slots', f) = Hold(U, slots, f) \union {s} /\ s \notin Hold(U, slots, f)
    BY <1>2, <1>4, <2>2 DEF Hold
  <2>5. /\ Cardinality(Hold(U, slots, f)) \in Nat
        /\ Cardinality(Hold(U \union {s}, slots', f)) = Cardinality(Hold(U, slots, f)) + 1
    BY <2>4, HoldFinite, OneMore
  <2>6. m[f].refs = Cardinality(Hold(U, slots, f))
    BY DEF Books
  <2>7. mapped'[f] = [refs |-> m[f].refs + 1, version |-> v] /\ \A g \in Files : g # f => mapped'[g] = m[g]
    BY <2>1
  <2>8. mapped' \in [Files -> Image]
    BY <1>1, <2>1, <2>5, <2>6 DEF Image
  <2>9. \A g \in Files : mapped'[g].refs = Cardinality(Hold(U \union {s}, slots', g))
    <3> SUFFICES ASSUME NEW g \in Files PROVE mapped'[g].refs = Cardinality(Hold(U \union {s}, slots', g))
      OBVIOUS
    <3>1. CASE g = f
      BY <2>5, <2>6, <2>7, <3>1
    <3>2. CASE g # f
      BY <2>3, <2>7, <3>2 DEF Books
    <3> QED
      BY <3>1, <3>2
  <2>10. ASSUME NEW t \in U, slots[t].entry # Broken
         PROVE  slots[t].path \in Files /\ mapped'[slots[t].path].version = slots[t].entry
    <3>1. slots[t].path \in Files /\ m[slots[t].path].version = slots[t].entry
      BY <2>10 DEF Books
    <3>2. CASE slots[t].path = f
      <4>1. t \in Hold(U, slots, f)
        BY <2>10, <3>2 DEF Hold
      <4>2. Cardinality(Hold(U, slots, f)) # 0
        BY <4>1, HoldFinite, FS_EmptySet
      <4>3. v = m[f].version
        BY <1>1, <2>5, <2>6, <4>2 DEF ImageOf
      <4> QED
        BY <2>7, <3>1, <3>2, <4>3
    <3>3. CASE slots[t].path # f
      BY <2>7, <3>1, <3>3
    <3> QED
      BY <3>2, <3>3
  <2>11. \A t \in U \union {s} : slots'[t].entry # Broken =>
           slots'[t].path \in Files /\ mapped'[slots'[t].path].version = slots'[t].entry
    BY <1>2, <2>2, <2>7, <2>10
  <2>12. Loads(m, f)
    BY <1>4 DEF Loads
  <2> QED
    BY <1>2, <2>8, <2>9, <2>11, <2>12 DEF Books
<1> QED
  BY <1>3, <1>4

-----------------------------------------------------------------------------
(* The steps.                                                                 *)

LEMMA UsedSlots ==
  ASSUME RegistryInv
  PROVE  /\ 1..nslots \subseteq InUse /\ InUse \in SUBSET Slots
         /\ pairing.step # "count" => InUse = 1..nslots
         /\ nslots < MaxSlots /\ pairing.step # "count" => nslots + 1 \in Slots \ InUse
  BY BoundAssumption DEF RegistryInv, TypeOK, InUse, Slots

LEMMA PlainName ==
  ASSUME NEW f \in Files
  PROVE  Plain(f) \in Names
  BY FilesAssumption DEF Plain, Names

\* The next slot is filled and counted, or neither.
LEMMA LoadNextBooks ==
  ASSUME RegistryInv, NEW f \in Files, pairing.step # "count", life # "freed", LoadNext(f)
  PROVE  /\ mapped' \in [Files -> Image] /\ slots' \in [Slots -> Slot] /\ nslots' \in 0..MaxSlots
         /\ Books(1..nslots', slots', mapped')
<1>1. /\ nslots < MaxSlots /\ nslots \in Nat
      /\ nslots' = IF Loads(mapped, f) THEN nslots + 1 ELSE nslots
      /\ Load(mapped, nslots + 1, f, Plain(f))
  BY DEF LoadNext, RegistryInv, TypeOK
<1>2. InUse = 1..nslots /\ nslots + 1 \in Slots \ InUse /\ InUse \in SUBSET Slots
  BY <1>1, UsedSlots
<1>3. /\ mapped' \in [Files -> Image]
      /\ slots' \in [Slots -> Slot]
      /\ Books(InUse \union {nslots + 1}, slots', mapped')
      /\ ~Loads(mapped, f) => Books(InUse, slots', mapped')
  BY <1>1, <1>2, PlainName, LoadBooks DEF RegistryInv, TypeOK
<1>4. 1..nslots \union {nslots + 1} = 1..nslots + 1
  BY <1>1
<1>5. nslots' \in 0..MaxSlots
  BY <1>1, BoundAssumption
<1> QED
  BY <1>1, <1>2, <1>3, <1>4, <1>5

\* A slot in use is unloaded and loaded again.
LEMMA ReloadBooks ==
  ASSUME RegistryInv, NEW s \in 1..nslots, NEW f \in Files, pairing.step # "count", life # "freed",
         Load(Unloaded(mapped, s), s, f, Plain(f))
  PROVE  /\ mapped' \in [Files -> Image] /\ slots' \in [Slots -> Slot]
         /\ Books(1..nslots, slots', mapped')
<1>1. InUse = 1..nslots /\ InUse \in SUBSET Slots /\ s \in InUse
  BY UsedSlots
<1> DEFINE m == Unloaded(mapped, s)
<1>2. m \in [Files -> Image] /\ Books(InUse \ {s}, slots, m)
  BY <1>1, UnloadBooks DEF RegistryInv, TypeOK
<1> HIDE DEF m
<1>3. Load(m, s, f, Plain(f))
  BY DEF m
<1>4. /\ mapped' \in [Files -> Image]
      /\ slots' \in [Slots -> Slot]
      /\ Books((InUse \ {s}) \union {s}, slots', mapped')
  BY <1>1, <1>2, <1>3, PlainName, LoadBooks DEF RegistryInv, TypeOK
<1>5. (InUse \ {s}) \union {s} = InUse
  BY <1>1
<1> QED
  BY <1>1, <1>4, <1>5

LEMMA InitHolds == Init => RegistryInv
<1> SUFFICES ASSUME Init PROVE RegistryInv
  OBVIOUS
<1>1. PICK n \in 0..MaxSlots : \E order \in [1..n -> Valid] :
        (\A i, j \in 1..n : order[i] = order[j] => i = j) /\ Scanned(order)
  BY DEF Init
<1>2. PICK order \in [1..n -> Valid] : (\A i, j \in 1..n : order[i] = order[j] => i = j) /\ Scanned(order)
  BY <1>1
<1>3. file \in [Files -> {Broken, 1}] /\ written = 1 /\ pairing = NoPair /\ life = "live" /\ MaxVersion \in Nat \ {0}
  BY BoundAssumption DEF Init
<1>4. /\ nslots = n
      /\ \A s \in 1..n : slots[s] = [path |-> order[s], name |-> Plain(order[s]), entry |-> file[order[s]]]
      /\ slots \in [Slots -> Slot]
      /\ \A f \in Files : mapped[f] = IF \E s \in 1..n : order[s] = f
                                      THEN [refs |-> 1, version |-> file[f]]
                                      ELSE [refs |-> 0, version |-> Broken]
      /\ mapped \in [Files -> Image]
  <2>1. Cardinality(1..n) = n /\ DOMAIN order = 1..n /\ 1..n \subseteq Slots
    BY BoundAssumption, FS_Interval DEF Slots
  <2>2. \A s \in 1..n : order[s] \in Files /\ Plain(order[s]) \in Names /\ file[order[s]] \in Versions
    BY <1>3, PlainName DEF Valid, Versions, Broken
  <2>3. nslots = n
    BY <1>2, <2>1 DEF Scanned
  <2>4. \A s \in 1..n : [path |-> order[s], name |-> Plain(order[s]), entry |-> file[order[s]]] \in Slot
    BY <2>2 DEF Slot
  <2>5. Empty \in Slot
    BY <1>3 DEF Empty, Slot, Broken, Versions
  <2>6. slots = [s \in Slots |-> IF s \in 1..n
                                THEN [path |-> order[s], name |-> Plain(order[s]), entry |-> file[order[s]]]
                                ELSE Empty]
    BY <1>2, <2>1 DEF Scanned
  <2>7. slots \in [Slots -> Slot]
    BY <2>4, <2>5, <2>6
  <2>8. mapped \in [Files -> Image]
    BY <1>2, <1>3 DEF Scanned, Image, Versions, Broken
  <2> QED
    BY <1>2, <2>1, <2>3, <2>6, <2>7, <2>8 DEF Scanned
<1>5. Books(1..n, slots, mapped)
  <2>1. \A s \in 1..n : order[s] \in Files /\ slots[s].path = order[s] /\ slots[s].entry = file[order[s]] /\ file[order[s]] # Broken
    <3> SUFFICES ASSUME NEW s \in 1..n
                 PROVE  order[s] \in Files /\ slots[s].path = order[s] /\ slots[s].entry = file[order[s]] /\ file[order[s]] # Broken
      OBVIOUS
    <3>1. order[s] \in Valid
      OBVIOUS
    <3>2. slots[s] = [path |-> order[s], name |-> Plain(order[s]), entry |-> file[order[s]]]
      BY <1>4
    <3>3. order[s] \in Files /\ file[order[s]] # Broken
      BY <3>1 DEF Valid
    <3>4. slots[s].path = order[s] /\ slots[s].entry = file[order[s]]
      BY <3>2
    <3> QED
      BY <3>3, <3>4
  <2>2. ASSUME NEW f \in Files PROVE mapped[f].refs = Cardinality(Hold(1..n, slots, f))
    <3>1. CASE \E s \in 1..n : order[s] = f
      <4>1. PICK s \in 1..n : order[s] = f
        BY <3>1
      <4>2. Hold(1..n, slots, f) = {s}
        BY <1>2, <2>1, <4>1 DEF Hold
      <4>3. mapped[f].refs = 1
        BY <1>4, <3>1
      <4>4. Cardinality({s}) = 1
        BY FS_Singleton
      <4> QED
        BY <4>2, <4>3, <4>4
    <3>2. CASE ~\E s \in 1..n : order[s] = f
      <4>1. Hold(1..n, slots, f) = {}
        BY <2>1, <3>2 DEF Hold
      <4>2. mapped[f].refs = 0
        BY <1>4, <3>2
      <4> QED
        BY <4>1, <4>2, FS_EmptySet
    <3> QED
      BY <3>1, <3>2
  <2>3. \A s \in 1..n : mapped[slots[s].path].version = slots[s].entry
    BY <1>4, <2>1
  <2> QED
    BY <2>1, <2>2, <2>3 DEF Books
<1>6. TypeOK
  <2>1. file \in [Files -> Versions] /\ written \in Versions
    BY <1>3 DEF Versions, Broken
  <2>2. /\ calls \in [Users -> Call]
        /\ pairing \in [step : {"none", "load", "count"}, file : Files \union {NoFile}, stage : Stages \union {<<>>}]
    BY <1>3 DEF Init, Call, NoCall, NoPair, Versions, Broken
  <2>3. pairs \in Seq(Stages) /\ notified \in SUBSET Files /\ batch \in SUBSET Files
        /\ watcher \in {"off", "start", "test", "read", "handle", "ended"}
    BY DEF Init
  <2> QED
    BY <1>3, <1>4, <2>1, <2>2, <2>3 DEF TypeOK
<1>7. pairing.step = "none" /\ InUse = 1..n
  BY <1>3, <1>4 DEF NoPair, InUse
<1> QED
  BY <1>3, <1>5, <1>6, <1>7 DEF RegistryInv

LEMMA LoadNewKeeps ==
  ASSUME RegistryInv, NEW f \in Files, LoadNew(f)
  PROVE  RegistryInv'
<1>1. pairing.step = "none" /\ life = "live" /\ LoadNext(f)
      /\ UNCHANGED <<file, written, pairVars, calls, watchVars, life>>
  BY DEF LoadNew, NobodyPairs, NoPair
<1>2. /\ mapped' \in [Files -> Image] /\ slots' \in [Slots -> Slot] /\ nslots' \in 0..MaxSlots
      /\ Books(1..nslots', slots', mapped')
  BY <1>1, LoadNextBooks
<1>3. TypeOK'
  BY <1>1, <1>2 DEF RegistryInv, TypeOK, pairVars, watchVars
<1>4. InUse' = 1..nslots'
  BY <1>1 DEF InUse, pairVars
<1> QED
  BY <1>1, <1>2, <1>3, <1>4 DEF RegistryInv, pairVars, watchVars

LEMMA ReloadKeeps ==
  ASSUME RegistryInv, NEW s \in Slots, NEW f \in Files, Reload(s, f)
  PROVE  RegistryInv'
<1>1. /\ pairing.step = "none" /\ life = "live" /\ s \in 1..nslots
      /\ Load(Unloaded(mapped, s), s, f, Plain(f))
      /\ UNCHANGED <<file, written, nslots, pairVars, calls, watchVars, life>>
  BY DEF Reload, NobodyPairs, NoPair, IsStage
<1>2. /\ mapped' \in [Files -> Image] /\ slots' \in [Slots -> Slot]
      /\ Books(1..nslots, slots', mapped')
  BY <1>1, ReloadBooks
<1>3. TypeOK'
  BY <1>1, <1>2 DEF RegistryInv, TypeOK, pairVars, watchVars
<1>4. InUse' = 1..nslots
  BY <1>1 DEF InUse, pairVars
<1> QED
  BY <1>1, <1>2, <1>3, <1>4 DEF RegistryInv, pairVars, watchVars

LEMMA PairFirstKeeps ==
  ASSUME RegistryInv, NEW stage \in Stages, NEW f \in Files, NEW g \in Files, PairFirst(stage, f, g)
  PROVE  RegistryInv'
<1>1. /\ pairing.step = "none" /\ life = "live" /\ watcher = "off" /\ LoadNext(f)
      /\ pairing' \in {[step |-> "load", file |-> g, stage |-> stage], NoPair}
      /\ UNCHANGED <<file, written, pairs, calls, watchVars, life>>
  BY DEF PairFirst, NobodyPairs, NoPair
<1>2. /\ mapped' \in [Files -> Image] /\ slots' \in [Slots -> Slot] /\ nslots' \in 0..MaxSlots
      /\ Books(1..nslots', slots', mapped')
  BY <1>1, LoadNextBooks
<1>3. /\ pairing' \in [step : {"none", "load", "count"}, file : Files \union {NoFile}, stage : Stages \union {<<>>}]
      /\ pairing'.step # "count"
      /\ pairing'.step = "none" => pairing' = NoPair
      /\ pairing'.step = "load" => pairing'.file \in Files /\ pairing'.stage \in Stages
  BY <1>1 DEF NoPair
<1>4. TypeOK'
  BY <1>1, <1>2, <1>3 DEF RegistryInv, TypeOK, watchVars
<1>5. InUse' = 1..nslots'
  BY <1>3 DEF InUse
<1> QED
  BY <1>1, <1>2, <1>3, <1>4, <1>5 DEF RegistryInv, watchVars

LEMMA PairSecondKeeps ==
  ASSUME RegistryInv, PairSecond
  PROVE  RegistryInv'
<1> DEFINE f == pairing.file
           name == <<pairing.stage, "b">>
<1>1. /\ pairing.step = "load" /\ life = "live" /\ watcher = "off"
      /\ f \in Files /\ name \in Names /\ nslots \in Nat
      /\ UNCHANGED <<file, written, nslots, pairs, calls, watchVars, life>>
  BY DEF PairSecond, RegistryInv, TypeOK, Names
<1>2. InUse = 1..nslots /\ (nslots < MaxSlots => nslots + 1 \in Slots \ InUse) /\ InUse \in SUBSET Slots
  BY <1>1, UsedSlots
<1>3. /\ pairing' \in [step : {"none", "load", "count"}, file : Files \union {NoFile}, stage : Stages \union {<<>>}]
      /\ pairing'.step # "load"
      /\ pairing'.step = "none" => pairing' = NoPair
      /\ pairing'.step = "count" <=> nslots < MaxSlots /\ Loads(mapped, f)
      /\ pairing'.step = "count" => pairing'.stage \in Stages
  BY <1>1 DEF PairSecond, NoPair, RegistryInv, TypeOK
<1>4. CASE nslots < MaxSlots
  <2> HIDE DEF f, name
  <2>1. Load(mapped, nslots + 1, f, name)
    BY <1>4 DEF PairSecond, f, name
  <2>2. /\ mapped' \in [Files -> Image] /\ slots' \in [Slots -> Slot]
        /\ Books(InUse \union {nslots + 1}, slots', mapped')
        /\ ~Loads(mapped, f) => Books(InUse, slots', mapped')
    BY <1>1, <1>2, <1>4, <2>1, LoadBooks DEF RegistryInv, TypeOK
  <2>3. InUse' = IF Loads(mapped, f) THEN InUse \union {nslots + 1} ELSE InUse
    BY <1>1, <1>2, <1>3, <1>4 DEF InUse
  <2>4. TypeOK'
    BY <1>1, <1>3, <2>2 DEF RegistryInv, TypeOK, watchVars
  <2>5. Books(InUse', slots', mapped')
    BY <2>2, <2>3
  <2> QED
    BY <1>1, <1>3, <1>4, <2>4, <2>5 DEF RegistryInv, watchVars
<1>5. CASE ~(nslots < MaxSlots)
  <2>1. UNCHANGED <<mapped, slots>> /\ pairing'.step = "none"
    BY <1>3, <1>5 DEF PairSecond
  <2>2. InUse' = InUse
    BY <1>1, <1>2, <2>1 DEF InUse
  <2>3. TypeOK'
    BY <1>1, <1>3, <2>1 DEF RegistryInv, TypeOK, watchVars
  <2> QED
    BY <1>1, <1>3, <2>1, <2>2, <2>3 DEF RegistryInv, watchVars
<1> QED
  BY <1>4, <1>5

LEMMA PairCountKeeps ==
  ASSUME RegistryInv, PairCount
  PROVE  RegistryInv'
<1>1. /\ pairing.step = "count" /\ life = "live" /\ watcher = "off" /\ nslots < MaxSlots
      /\ nslots \in Nat /\ pairing.stage \in Stages
      /\ nslots' = nslots + 1 /\ pairing' = NoPair /\ pairs' = Append(pairs, pairing.stage)
      /\ UNCHANGED <<file, written, mapped, slots, calls, watchVars, life>>
  BY DEF PairCount, RegistryInv, TypeOK
<1>2. nslots' \in 0..MaxSlots /\ InUse' = InUse
  BY <1>1, BoundAssumption DEF InUse, NoPair
<1>3. TypeOK'
  BY <1>1, <1>2 DEF RegistryInv, TypeOK, watchVars, NoPair
<1> QED
  BY <1>1, <1>2, <1>3 DEF RegistryInv, watchVars, NoPair

\* What changes neither slots nor references.
LEMMA OthersKeep ==
  ASSUME RegistryInv, UNCHANGED <<slotVars, pairVars>>, TypeOK',
         life' = life \/ (life = "live" /\ life' = "closing" /\ pairing.step = "none"),
         watcher' = watcher \/ watcher \notin {"off", "ended"}
  PROVE  RegistryInv'
<1>1. InUse' = InUse
  BY DEF InUse, slotVars, pairVars
<1>2. UNCHANGED <<mapped, slots, nslots, pairs, pairing>>
  BY DEF slotVars, pairVars
<1> QED
  BY <1>1, <1>2 DEF RegistryInv

LEMMA CallsKeep ==
  ASSUME RegistryInv, NEW u \in Users, Return(u) \/ \E name \in Names : Exec(u, name)
  PROVE  RegistryInv'
<1>1. UNCHANGED <<file, written, slotVars, pairVars, watchVars, life>>
  BY DEF Return, Exec
<1>2. calls' \in [Users -> Call]
  <2>1. calls \in [Users -> Call] /\ NoCall \in Call
    BY BoundAssumption DEF RegistryInv, TypeOK, NoCall, Call, Versions, Broken
  <2>2. CASE Return(u)
    BY <2>1, <2>2 DEF Return
  <2>3. CASE \E name \in Names : Exec(u, name)
    <3>1. PICK s \in 1..nslots : calls' = [calls EXCEPT ![u] = [path |-> slots[s].path, version |-> slots[s].entry]]
      BY <2>3 DEF Exec
    <3>2. s \in Slots
      BY UsedSlots
    <3>3. slots[s] \in Slot
      BY <3>2 DEF RegistryInv, TypeOK
    <3>4. [path |-> slots[s].path, version |-> slots[s].entry] \in Call
      BY <3>3 DEF Slot, Call
    <3> QED
      BY <2>1, <3>1, <3>4
  <2> QED
    BY <2>2, <2>3
<1>3. TypeOK'
  BY <1>1, <1>2 DEF RegistryInv, TypeOK, slotVars, pairVars, watchVars
<1> QED
  BY <1>1, <1>3, OthersKeep DEF watchVars

LEMMA WriteKeeps ==
  ASSUME RegistryInv, NEW f \in Files, Write(f)
  PROVE  RegistryInv'
<1>1. UNCHANGED <<slotVars, pairVars, calls, watcher, batch, life>>
  BY DEF Write
<1>2. file' \in [Files -> Versions] /\ written' \in Versions /\ notified' \in SUBSET Files
  BY BoundAssumption DEF Write, RegistryInv, TypeOK, Versions, Broken
<1>3. TypeOK'
  BY <1>1, <1>2 DEF RegistryInv, TypeOK, slotVars, pairVars
<1> QED
  BY <1>1, <1>3, OthersKeep

LEMMA QuietWatcherKeeps ==
  ASSUME RegistryInv, WatchAdd \/ WatchTest \/ WatchRead
  PROVE  RegistryInv'
<1>1. UNCHANGED <<file, written, slotVars, pairVars, calls, life>> /\ watcher \in {"start", "test", "read"}
  BY DEF WatchAdd, WatchTest, WatchRead, WatcherGoes
<1>2. /\ watcher' \in {"off", "start", "test", "read", "handle", "ended"}
      /\ notified' \in SUBSET Files /\ batch' \in SUBSET Files
  BY DEF RegistryInv, TypeOK, WatchAdd, WatchTest, WatchRead, WatcherGoes
<1>3. TypeOK'
  BY <1>1, <1>2 DEF RegistryInv, TypeOK, slotVars, pairVars
<1> QED
  BY <1>1, <1>3, OthersKeep

LEMMA WatchHandleKeeps ==
  ASSUME RegistryInv, WatchHandle
  PROVE  RegistryInv'
<1>1. PICK f \in batch : Handle(f) /\ batch' = batch \ {f}
  BY DEF WatchHandle
<1>2. /\ f \in Files /\ watcher = "handle" /\ watcher' \in {"test", "handle"} /\ nslots \in 0..MaxSlots
      /\ UNCHANGED <<file, written, pairVars, calls, notified, life>>
  BY DEF WatchHandle, RegistryInv, TypeOK
<1>3. pairing.step = "none" /\ life # "freed"
  BY <1>2 DEF RegistryInv, TypeOK
<1>4. InUse = 1..nslots /\ InUse' = 1..nslots'
  BY <1>2, <1>3 DEF InUse, pairVars
<1>5. /\ mapped' \in [Files -> Image] /\ slots' \in [Slots -> Slot] /\ nslots' \in 0..MaxSlots
      /\ Books(1..nslots', slots', mapped')
  <2>1. CASE \E s \in 1..nslots : /\ OfFile(s, f)
                                 /\ Load(Unloaded(mapped, s), s, f, Plain(f))
                                 /\ nslots' = nslots
    BY <1>2, <1>3, <2>1, ReloadBooks
  <2>2. CASE LoadNext(f)
    BY <1>2, <1>3, <2>2, LoadNextBooks
  <2>3. CASE UNCHANGED slotVars
    BY <1>2, <1>3, <1>4, <2>3 DEF RegistryInv, TypeOK, slotVars
  <2> QED
    BY <1>1, <2>1, <2>2, <2>3 DEF Handle
<1>6. TypeOK'
  BY <1>1, <1>2, <1>5 DEF RegistryInv, TypeOK, pairVars
<1> QED
  BY <1>2, <1>3, <1>4, <1>5, <1>6 DEF RegistryInv, pairVars

LEMMA CloseKeeps ==
  ASSUME RegistryInv, Close
  PROVE  RegistryInv'
<1>1. UNCHANGED <<file, written, slotVars, pairVars, calls, watchVars>> /\ life = "live" /\ life' = "closing" /\ pairing.step = "none"
  BY DEF Close, NobodyPairs, NoPair
<1>2. TypeOK'
  BY <1>1 DEF RegistryInv, TypeOK, slotVars, pairVars, watchVars
<1> QED
  BY <1>1, <1>2, OthersKeep DEF watchVars

\* What is on the books is what bf_hotload_destroy gives back.
LEMMA FreeKeeps ==
  ASSUME RegistryInv, Free
  PROVE  RegistryInv'
<1>1. /\ life = "closing" /\ life' = "freed" /\ watcher \in {"off", "ended"}
      /\ mapped' = [f \in Files |-> [mapped[f] EXCEPT !.refs = @ - References(f)]]
      /\ UNCHANGED <<file, written, slots, nslots, pairVars, calls, watchVars>>
  BY DEF Free
<1>2. pairing.step = "none"
  BY <1>1 DEF RegistryInv, TypeOK
<1>3. InUse = 1..nslots
  BY <1>2, UsedSlots
<1>4. \A f \in Files : /\ References(f) = mapped[f].refs /\ mapped[f] \in Image
                      /\ mapped'[f] = [mapped[f] EXCEPT !.refs = @ - References(f)]
  BY <1>1, <1>3 DEF RegistryInv, TypeOK, Books, Hold, References
<1>5. \A f \in Files : mapped'[f].refs = 0 /\ mapped'[f] \in Image
  <2> SUFFICES ASSUME NEW f \in Files PROVE mapped'[f].refs = 0 /\ mapped'[f] \in Image
    OBVIOUS
  <2>1. mapped[f] \in [refs : Nat, version : Versions] /\ References(f) = mapped[f].refs
    BY <1>4 DEF Image
  <2>2. mapped'[f] = [refs |-> mapped[f].refs - References(f), version |-> mapped[f].version]
    BY <1>4, <2>1
  <2>3. mapped[f].refs - References(f) = 0 /\ mapped[f].version \in Versions
    BY <2>1
  <2> QED
    BY <2>2, <2>3 DEF Image
<1>6. mapped' \in [Files -> Image]
  BY <1>1, <1>5
<1>7. TypeOK'
  BY <1>1, <1>6 DEF RegistryInv, TypeOK, pairVars, watchVars
<1> QED
  BY <1>1, <1>2, <1>5, <1>7 DEF RegistryInv, pairVars, watchVars

LEMMA RegistryInvariant == Spec => []RegistryInv
<1>1. RegistryInv /\ [Next]_vars => RegistryInv'
  <2> SUFFICES ASSUME RegistryInv, [Next]_vars PROVE RegistryInv'
    OBVIOUS
  <2>1. CASE \E f \in Files : LoadNew(f) \/ Write(f)
    BY <2>1, LoadNewKeeps, WriteKeeps
  <2>2. CASE \E s \in Slots, f \in Files : Reload(s, f)
    BY <2>2, ReloadKeeps
  <2>3. CASE \E stage \in Stages, f, g \in Files : PairFirst(stage, f, g)
    BY <2>3, PairFirstKeeps
  <2>4. CASE PairSecond \/ PairCount
    BY <2>4, PairSecondKeeps, PairCountKeeps
  <2>5. CASE \E u \in Users : Return(u) \/ \E name \in Names : Exec(u, name)
    BY <2>5, CallsKeep
  <2>6. CASE WatcherStep
    BY <2>6, QuietWatcherKeeps, WatchHandleKeeps DEF WatcherStep
  <2>7. CASE Close \/ Free
    BY <2>7, CloseKeeps, FreeKeeps
  <2>8. CASE UNCHANGED vars
    <3>1. TypeOK' /\ InUse' = InUse
      BY <2>8 DEF vars, slotVars, pairVars, watchVars, RegistryInv, TypeOK, InUse
    <3> QED
      BY <2>8, <3>1 DEF vars, slotVars, pairVars, watchVars, RegistryInv
  <2> QED
    BY <2>1, <2>2, <2>3, <2>4, <2>5, <2>6, <2>7, <2>8 DEF Next
<1> QED
  BY <1>1, InitHolds, PTL DEF Spec

-----------------------------------------------------------------------------
\* dlopen and dlclose balance, over refused files, failing reloads, the watcher,
\* A/B pairs and the destruction of the registry.
THEOREM HandlesAreBalanced == Spec => []HandlesBalanced
<1>1. RegistryInv => HandlesBalanced
  BY DEF RegistryInv, Books, Hold, HandlesBalanced, Holders
<1> QED
  BY <1>1, RegistryInvariant, PTL

\* No slot has an entry point into code that is not mapped, or into another
\* version than the one that is mapped.
THEOREM EntriesAreMapped == Spec => []EntryMapped
<1>1. ASSUME RegistryInv PROVE EntryMapped
  <2> SUFFICES ASSUME life # "freed", NEW s \in InUse, slots[s].entry # Broken
               PROVE  mapped[slots[s].path].refs > 0 /\ mapped[slots[s].path].version = slots[s].entry
    BY DEF EntryMapped
  <2>1. InUse \in SUBSET Slots
    BY <1>1, UsedSlots
  <2>2. slots[s].path \in Files /\ mapped[slots[s].path].version = slots[s].entry
    BY <1>1 DEF RegistryInv, Books
  <2>3. s \in Hold(InUse, slots, slots[s].path)
    BY DEF Hold
  <2>4. Cardinality(Hold(InUse, slots, slots[s].path)) \in Nat \ {0}
    BY <2>1, <2>3, HoldFinite, FS_EmptySet
  <2> QED
    BY <1>1, <2>2, <2>4 DEF RegistryInv, Books
<1> QED
  BY <1>1, RegistryInvariant, PTL
=============================================================================
