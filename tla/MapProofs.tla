----------------------------- MODULE MapProofs ------------------------------
(***************************************************************************)
(* A map, for any number of changes, saves and loads: what a load that     *)
(* fails and a finalized map leave behind, and what a clean map has on     *)
(* disk (MapFile).  Then its blocks (MapBlocks), what a client is told of  *)
(* it (MapSetup), and who is in it (JoinRouter).                           *)
(***************************************************************************)
EXTENDS MapFile, FiniteSetTheorems, TLAPS

-----------------------------------------------------------------------------
(* The inductive invariant *)

AllParts == Optional \cup Required

\* The parts that have been read.
Before == {Parts[k] : k \in 1..(next - 1)}

\* A file has its incomplete parts.
FileOK ==
  /\ file.parts \subseteq AllParts
  /\ file.bad \subseteq file.parts

\* A load that has come as far as `next' has the memory and the contents of the
\* parts before it, all of which were there and complete.
LoadingOK ==
  status = "loading" =>
    /\ next \in 1..16
    /\ file.readable
    /\ heap = {Root, Lock} \cup UNION {Memory(p) : p \in has \cup (Required \cap Before)}
    /\ has \ {"name"} = (file.parts \cap Optional \cap Before) \ {"name"}
    /\ Required \cap Before \subseteq file.parts
    /\ Before \cap file.bad = {}
    /\ "block_array" \in Before => blocks = file.blocks

\* No memory is in use outside of a load and a loaded map.
EmptyOK == status \in {"none", "failed", "finalized"} => heap = {}

FileInv ==
  /\ status \in {"none", "loading", "loaded", "failed", "finalized"}
  /\ saves \in Nat
  /\ has \subseteq Optional
  /\ FileOK /\ LoadingOK /\ EmptyOK
  /\ MemoryExact /\ LoadedComplete /\ CleanMeansSaved

-----------------------------------------------------------------------------
(* Parts and memory *)

\* The parts, as a list and as sets.
LEMMA PartFacts ==
  /\ Len(Parts) = 15
  /\ AllParts = {Parts[k] : k \in 1..15}
  /\ "block_array" \in AllParts
  /\ "name" \in Optional
  /\ \A p \in AllParts : p \in Optional <=> p \notin Required
<1>1. Len(Parts) = 15 /\ DOMAIN Parts = 1..15
  BY DEF Parts
<1>2. /\ Parts[1] = "version" /\ Parts[2] = "name" /\ Parts[3] = "uuid" /\ Parts[4] = "size"
      /\ Parts[7] = "spawn" /\ Parts[8] = "block_array"
  BY DEF Parts
<1>3. 1 \in 1..15 /\ 2 \in 1..15 /\ 3 \in 1..15 /\ 4 \in 1..15 /\ 7 \in 1..15 /\ 8 \in 1..15
  OBVIOUS
<1>4. \A p \in Required : p \in {Parts[k] : k \in 1..15}
  <2>1. ASSUME NEW p \in Required
        PROVE  p = Parts[1] \/ p = Parts[3] \/ p = Parts[4] \/ p = Parts[7] \/ p = Parts[8]
    BY <1>2, <2>1, Zenon DEF Required
  <2> QED
    BY <1>3, <2>1, Zenon
<1>5. Optional = {Parts[k] : k \in 1..15} \ Required
  BY <1>1, Zenon DEF Optional
<1>6. AllParts = {Parts[k] : k \in 1..15}
  BY <1>4, <1>5, Zenon DEF AllParts
<1>7. "block_array" \in AllParts
  BY <1>2, <1>3, <1>6, Zenon
<1>8. "name" \in Optional
  <2>1. "name" \notin Required
    BY DEF Required
  <2> QED
    BY <1>2, <1>3, <1>5, <2>1, Zenon
<1>9. \A p \in AllParts : p \in Optional <=> p \notin Required
  BY <1>5, <1>6, Zenon
<1> QED
  BY <1>1, <1>6, <1>7, <1>8, <1>9, Zenon

\* What tc_map_finalize frees besides the lock.
PartMemory == {Own(p) : p \in Allocating} \cup {Inner(p) : p \in WithInner}

\* Whatever a part may have allocated is freed.
LEMMA MemoryOfPart == \A p : Memory(p) \subseteq PartMemory
<1>1. SUFFICES ASSUME NEW p, NEW x \in Memory(p)
               PROVE  x \in PartMemory
  BY Zenon
<1>2. \/ p \in Allocating /\ x = Own(p)
      \/ p \in WithInner /\ x = Inner(p)
  BY Zenon DEF Memory
<1> QED
  BY <1>2, Zenon DEF PartMemory

\* Nothing else is left by tc_map_finalize than the tree.
LEMMA FreedMemory ==
  /\ \A m : m \subseteq {Lock} \cup PartMemory => Freed(m) = {}
  /\ \A m : m \subseteq {Root, Lock} \cup PartMemory => Freed(m) \ {Root} = {}
<1>1. \A m, x : x \in Freed(m) => x \in m /\ x # Lock /\ x \notin PartMemory
  BY Zenon DEF Freed, PartMemory
<1>2. ASSUME NEW m, m \subseteq {Lock} \cup PartMemory
      PROVE  Freed(m) = {}
  <2>1. SUFFICES ASSUME NEW x \in Freed(m)
                 PROVE  FALSE
    BY Zenon
  <2> QED
    BY <1>1, <1>2, <2>1, Zenon
<1>3. ASSUME NEW m, m \subseteq {Root, Lock} \cup PartMemory
      PROVE  Freed(m) \ {Root} = {}
  <2>1. SUFFICES ASSUME NEW x \in Freed(m), x # Root
                 PROVE  FALSE
    BY Zenon
  <2> QED
    BY <1>1, <1>3, <2>1, Zenon
<1> QED
  BY <1>2, <1>3, Zenon

\* The parsed tree is no part's memory.
LEMMA RootApart == \A p \in AllParts : Root \notin Memory(p) /\ Root # Lock
<1>1. \A q \in Allocating : Own(q) # Root
  BY DEF Own, Root, Allocating
<1>2. \A q : Inner(q) # Root
  BY DEF Inner, Root
<1>3. Root # Lock
  BY DEF Root, Lock
<1> QED
  BY <1>1, <1>2, <1>3, Zenon DEF Memory

\* Reading one part more.
LEMMA BeforeNext ==
  ASSUME NEW n \in 1..15
  PROVE  {Parts[k] : k \in 1..((n + 1) - 1)} = {Parts[k] : k \in 1..(n - 1)} \cup {Parts[n]}
<1>1. \A k : k \in 1..((n + 1) - 1) <=> (k \in 1..(n - 1) \/ k = n)
  OBVIOUS
<1> QED
  BY <1>1, Zenon

\* While a load is at a part, it is one of the parts.
LEMMA AtPart ==
  ASSUME FileInv, status = "loading", next <= Len(Parts),
         next' = next + 1
  PROVE  /\ Part \in AllParts
         /\ Before' = Before \cup {Part}
         /\ next' \in 1..16
<1>1. next \in 1..15
  BY PartFacts DEF FileInv, LoadingOK
<1>2. Part \in AllParts
  BY <1>1, PartFacts, Zenon DEF Part
<1>3. Before' = Before \cup {Part}
  BY <1>1, BeforeNext, Zenon DEF Before, Part
<1> QED
  BY <1>1, <1>2, <1>3

-----------------------------------------------------------------------------
(* The steps *)

\* The memory of a set of parts.
LEMMA UnionOfParts == \A P : UNION {Memory(p) : p \in P} \subseteq PartMemory
<1>1. SUFFICES ASSUME NEW P, NEW x \in UNION {Memory(p) : p \in P}
               PROVE  x \in PartMemory
  BY Zenon
<1>2. PICK p \in P : x \in Memory(p)
  BY <1>1, Zenon
<1> QED
  BY <1>2, MemoryOfPart, Zenon

\* A load that gives up leaves nothing behind.
LEMMA GivesUpStep ==
  ASSUME FileInv, NEW m, m \subseteq {Root, Lock} \cup PartMemory, LoadGivesUp(m)
  PROVE  FileInv'
<1>1. /\ heap' = {} /\ has' = {} /\ status' = "failed"
      /\ file' = file /\ saves' = saves
  BY FreedMemory, Zenon DEF LoadGivesUp, disk
<1>2. status' # "loading" /\ status' # "loaded"
      /\ status' \in {"none", "loading", "loaded", "failed", "finalized"}
  BY <1>1
<1> QED
  BY <1>1, <1>2, Zenon DEF FileInv, FileOK, LoadingOK, EmptyOK, MemoryExact,
     LoadedComplete, CleanMeansSaved

\* A load begins with the tree and the lock.
LEMMA BeginStep ==
  ASSUME FileInv, LoadBegin
  PROVE  FileInv'
<1>1. /\ heap' = {Root, Lock} /\ has' = {} /\ status' = "loading" /\ next' = 1
      /\ file' = file /\ saves' = saves /\ file.readable
  BY Zenon DEF LoadBegin, disk
<1>2. Before' = {} /\ next' \in 1..16
  <2>1. 1..(1 - 1) = {} /\ 1 \in 1..16
    OBVIOUS
  <2> QED
    BY <1>1, <2>1, Zenon DEF Before
<1>3. status' \notin {"none", "failed", "finalized"} /\ status' # "loaded"
      /\ status' \in {"none", "loading", "loaded", "failed", "finalized"}
  BY <1>1
<1>4. heap' = {Root, Lock} \cup UNION {Memory(p) : p \in has' \cup (Required \cap Before')}
  <2>1. has' \cup (Required \cap Before') = {}
    BY <1>1, <1>2, Zenon
  <2>2. UNION {Memory(p) : p \in {}} = {}
    BY Zenon
  <2> QED
    BY <1>1, <2>1, <2>2, Zenon
<1>5. LoadingOK'
  BY <1>1, <1>2, <1>4, Zenon DEF LoadingOK
<1>6. EmptyOK' /\ MemoryExact' /\ LoadedComplete' /\ CleanMeansSaved'
  BY <1>3, Zenon DEF EmptyOK, MemoryExact, LoadedComplete, CleanMeansSaved
<1> QED
  BY <1>1, <1>3, <1>5, <1>6, Zenon DEF FileInv, FileOK

\* A part is read, or one that may be missing is passed over.
LEMMA PartStep ==
  ASSUME FileInv, LoadPart \/ LoadAbsent
  PROVE  FileInv'
<1>1. /\ status = "loading" /\ next <= Len(Parts) /\ next' = next + 1
      /\ file' = file /\ saves' = saves /\ status' = status
  BY Zenon DEF LoadPart, LoadAbsent, disk
<1>2. /\ Part \in AllParts /\ Before' = Before \cup {Part} /\ next' \in 1..16
  BY <1>1, AtPart, Zenon
<1>3. /\ file.readable
      /\ heap = {Root, Lock} \cup UNION {Memory(p) : p \in has \cup (Required \cap Before)}
      /\ has \ {"name"} = (file.parts \cap Optional \cap Before) \ {"name"}
      /\ Required \cap Before \subseteq file.parts
      /\ Before \cap file.bad = {}
      /\ "block_array" \in Before => blocks = file.blocks
      /\ has \subseteq Optional /\ file.bad \subseteq file.parts
  BY <1>1, Zenon DEF FileInv, LoadingOK, FileOK
<1>4. \A p \in AllParts : p \in Optional <=> p \notin Required
  BY PartFacts, Zenon
<1>5. status' \notin {"none", "failed", "finalized"} /\ status' # "loaded"
      /\ status' \in {"none", "loading", "loaded", "failed", "finalized"}
  BY <1>1
<1>6. ASSUME NEW P, NEW Q, NEW q, Q = P \cup {q}
      PROVE  UNION {Memory(p) : p \in Q} = (UNION {Memory(p) : p \in P}) \cup Memory(q)
  <2>1. \A x : x \in UNION {Memory(p) : p \in Q} <=> \E p \in Q : x \in Memory(p)
    BY Zenon
  <2>2. \A x : x \in UNION {Memory(p) : p \in P} <=> \E p \in P : x \in Memory(p)
    BY Zenon
  <2>3. \A x : x \in UNION {Memory(p) : p \in Q}
                <=> (x \in UNION {Memory(p) : p \in P} \/ x \in Memory(q))
    BY <1>6, <2>1, <2>2, Zenon
  <2> QED
    BY <2>3, Zenon
<1>7. "name" \in Optional
  BY PartFacts, Zenon
<1>8. CASE LoadPart
  <2>1. /\ Part \in file.parts /\ Part \notin file.bad
        /\ heap' = heap \cup Memory(Part)
    BY <1>8, Zenon DEF LoadPart
  <2>2. /\ Part \in Optional => has' = has \cup {Part}
        /\ Part \notin Optional => has' = has
        /\ Part = "block_array" => blocks' = file.blocks
        /\ Part # "block_array" => blocks' = blocks
    BY <1>8, Zenon DEF LoadPart
  <2>3. has' \cup (Required \cap Before') = (has \cup (Required \cap Before)) \cup {Part}
    <3>1. CASE Part \in Optional
      BY <1>2, <1>4, <2>2, <3>1, Zenon
    <3>2. CASE Part \notin Optional
      BY <1>2, <1>4, <2>2, <3>2, Zenon
    <3> QED
      BY <3>1, <3>2
  <2>4. heap' = {Root, Lock} \cup UNION {Memory(p) : p \in has' \cup (Required \cap Before')}
    <3>1. PICK P, Q : P = has \cup (Required \cap Before) /\ Q = has' \cup (Required \cap Before')
      BY Zenon
    <3>2. UNION {Memory(p) : p \in Q} = (UNION {Memory(p) : p \in P}) \cup Memory(Part)
      <4>1. Q = P \cup {Part}
        BY <2>3, <3>1, Zenon
      <4> QED
        BY <1>6, <4>1, Zenon
    <3>3. heap = {Root, Lock} \cup UNION {Memory(p) : p \in P}
      BY <1>3, <3>1, Zenon
    <3>4. heap' = {Root, Lock} \cup UNION {Memory(p) : p \in Q}
      BY <2>1, <3>2, <3>3, Zenon
    <3> QED
      BY <3>1, <3>4, Zenon
  <2>5. has' \ {"name"} = (file.parts \cap Optional \cap Before') \ {"name"}
    <3>1. CASE Part \in Optional
      <4>1. PICK P : P = file.parts
        BY Zenon
      <4>2. file.parts \cap Optional \cap Before' = (file.parts \cap Optional \cap Before) \cup {Part}
        <5>1. P \cap Optional \cap (Before \cup {Part}) = (P \cap Optional \cap Before) \cup {Part}
          BY <2>1, <3>1, <4>1, SMT
        <5> QED
          BY <1>2, <4>1, <5>1, Zenon
      <4>3. PICK A, B : A = has /\ B = file.parts \cap Optional \cap Before
        BY Zenon
      <4>4. (A \cup {Part}) \ {"name"} = (B \cup {Part}) \ {"name"}
        BY <1>3, <4>3, SMT
      <4> QED
        BY <2>2, <3>1, <4>2, <4>3, <4>4, Zenon
    <3>2. CASE Part \notin Optional
      BY <1>2, <1>3, <2>2, <3>2, Zenon
    <3> QED
      BY <3>1, <3>2
  <2>6. Required \cap Before' \subseteq file.parts /\ Before' \cap file.bad = {}
    BY <1>2, <1>3, <2>1, Zenon
  <2>7. "block_array" \in Before' => blocks' = file.blocks
    BY <1>2, <1>3, <2>2, Zenon
  <2>8. has' \subseteq Optional
    BY <1>3, <2>2, Zenon
  <2>9. LoadingOK'
    BY <1>1, <1>2, <1>3, <2>4, <2>5, <2>6, <2>7, Zenon DEF LoadingOK
  <2> QED
    BY <1>1, <1>5, <2>8, <2>9, Zenon DEF FileInv, FileOK, EmptyOK, MemoryExact,
       LoadedComplete, CleanMeansSaved
<1>9. CASE LoadAbsent
  <2>1. Part \in Optional /\ Part \notin file.parts /\ blocks' = blocks
    BY <1>9, Zenon DEF LoadAbsent
  <2>2. /\ Part = "name" => has' = has \cup {Part} /\ heap' = heap \cup Memory(Part)
        /\ Part # "name" => has' = has /\ heap' = heap
    BY <1>9, Zenon DEF LoadAbsent
  <2>3. Required \cap Before' = Required \cap Before
    BY <1>2, <1>4, <2>1, Zenon
  <2>4. heap' = {Root, Lock} \cup UNION {Memory(p) : p \in has' \cup (Required \cap Before')}
    <3>1. CASE Part = "name"
      <4>1. PICK P, Q : P = has \cup (Required \cap Before) /\ Q = has' \cup (Required \cap Before')
        BY Zenon
      <4>2. Q = P \cup {Part}
        BY <2>2, <2>3, <3>1, <4>1, Zenon
      <4>3. UNION {Memory(p) : p \in Q} = (UNION {Memory(p) : p \in P}) \cup Memory(Part)
        BY <1>6, <4>2, Zenon
      <4>4. heap = {Root, Lock} \cup UNION {Memory(p) : p \in P}
        BY <1>3, <4>1, Zenon
      <4>5. heap' = {Root, Lock} \cup UNION {Memory(p) : p \in Q}
        BY <2>2, <3>1, <4>3, <4>4, Zenon
      <4> QED
        BY <4>1, <4>5, Zenon
    <3>2. CASE Part # "name"
      BY <1>3, <2>2, <2>3, <3>2, Zenon
    <3> QED
      BY <3>1, <3>2
  <2>5. has' \ {"name"} = (file.parts \cap Optional \cap Before') \ {"name"}
    <3>1. has' \ {"name"} = has \ {"name"}
      <4>1. CASE Part = "name"
        <5>1. has' = has \cup {"name"}
          BY <2>2, <4>1, Zenon
        <5> QED
          BY <5>1, SMT
      <4>2. CASE Part # "name"
        BY <2>2, <4>2, Zenon
      <4> QED
        BY <4>1, <4>2
    <3>2. file.parts \cap Optional \cap Before' = file.parts \cap Optional \cap Before
      BY <1>2, <2>1, Zenon
    <3> QED
      BY <1>3, <3>1, <3>2, Zenon
  <2>6. Required \cap Before' \subseteq file.parts /\ Before' \cap file.bad = {}
    BY <1>2, <1>3, <2>1, <2>3, Zenon
  <2>7. "block_array" \in Before' => blocks' = file.blocks
    <3>1. "block_array" \in Required
      BY DEF Required
    <3> QED
      BY <1>2, <1>3, <1>4, <2>1, <3>1, Zenon
  <2>8. has' \subseteq Optional
    BY <1>3, <1>7, <2>1, <2>2, Zenon
  <2>9. LoadingOK'
    BY <1>1, <1>2, <1>3, <2>4, <2>5, <2>6, <2>7, Zenon DEF LoadingOK
  <2> QED
    BY <1>1, <1>5, <2>8, <2>9, Zenon DEF FileInv, FileOK, EmptyOK, MemoryExact,
       LoadedComplete, CleanMeansSaved
<1> QED
  BY <1>8, <1>9

\* A part at which a load gives up.
LEMMA PartFailsStep ==
  ASSUME FileInv, LoadPartFails
  PROVE  FileInv'
<1>1. PICK some : some \subseteq Memory(Part) /\ (LoadGivesUp(heap) \/ LoadGivesUp(heap \cup some))
  <2>1. {} \subseteq Memory(Part)
    BY Zenon
  <2> QED
    BY <2>1, Zenon DEF LoadPartFails
<1>2. heap \subseteq {Root, Lock} \cup PartMemory
  <2>1. status = "loading"
    BY Zenon DEF LoadPartFails
  <2>2. heap = {Root, Lock} \cup UNION {Memory(p) : p \in has \cup (Required \cap Before)}
    BY <2>1, Zenon DEF FileInv, LoadingOK
  <2> QED
    BY <2>2, UnionOfParts, Zenon
<1>3. heap \cup some \subseteq {Root, Lock} \cup PartMemory
  BY <1>1, <1>2, MemoryOfPart, Zenon
<1> QED
  BY <1>1, <1>2, <1>3, GivesUpStep, Zenon

\* A load ends when every part has been read.
LEMMA EndStep ==
  ASSUME FileInv, LoadEnds
  PROVE  FileInv'
<1>1. /\ status = "loading" /\ next > Len(Parts) /\ heap' = heap \ {Root}
      /\ status' = "loaded" /\ next' = 1
      /\ file' = file /\ save_failed' = save_failed /\ saves' = saves
      /\ has' = has /\ blocks' = blocks /\ is_dirty' = is_dirty
  BY Zenon DEF LoadEnds, disk, contents
<1>2. /\ next \in 1..16
      /\ file.readable
      /\ heap = {Root, Lock} \cup UNION {Memory(p) : p \in has \cup (Required \cap Before)}
      /\ has \ {"name"} = (file.parts \cap Optional \cap Before) \ {"name"}
      /\ Required \cap Before \subseteq file.parts
      /\ Before \cap file.bad = {}
      /\ "block_array" \in Before => blocks = file.blocks
      /\ has \subseteq Optional /\ file.bad \subseteq file.parts
      /\ file.parts \subseteq AllParts
  BY <1>1, Zenon DEF FileInv, LoadingOK, FileOK
<1>3. next - 1 = 15
  BY <1>1, <1>2, PartFacts
<1>4. Before = AllParts
  BY <1>3, PartFacts, Zenon DEF Before
<1>5. Required \cap Before = Required /\ Required \subseteq file.parts
      /\ file.bad = {} /\ blocks = file.blocks
  BY <1>2, <1>4, PartFacts, Zenon DEF AllParts
<1>6. status' \notin {"none", "failed", "finalized"} /\ status' # "loading"
      /\ status' \in {"none", "loading", "loaded", "failed", "finalized"}
  BY <1>1
<1>7. heap' = {Lock} \cup UNION {Memory(p) : p \in has \cup Required}
  <2>1. PICK U : U = UNION {Memory(p) : p \in has \cup Required}
    BY Zenon
  <2>2. Root \notin U /\ Root # Lock
    <3>1. SUFFICES ASSUME Root \in U
                   PROVE  FALSE
      BY PartFacts, RootApart, Zenon
    <3>2. PICK p \in has \cup Required : Root \in Memory(p)
      BY <2>1, <3>1, Zenon
    <3>3. p \in AllParts
      BY <1>2, <3>2, Zenon DEF AllParts
    <3> QED
      BY <3>2, <3>3, RootApart, Zenon
  <2>3. heap = {Root, Lock} \cup U
    BY <1>2, <1>5, <2>1, Zenon
  <2>4. heap' = {Lock} \cup U
    BY <1>1, <2>2, <2>3, SMT
  <2> QED
    BY <2>1, <2>4, Zenon
<1>8. has \ {"name"} = (file.parts \ Required) \ {"name"}
  <2>1. \A p : p \in file.parts =>
                 (p \in AllParts /\ (p \in Optional <=> p \notin Required))
    BY <1>2, PartFacts, Zenon
  <2>2. file.parts \cap Optional \cap Before = file.parts \ Required
    BY <1>4, <2>1, Zenon
  <2> QED
    BY <1>2, <2>2, Zenon
<1>9. has \ {"env_aspect", "name"} \subseteq file.parts
  BY <1>8, Zenon
<1>10. MemoryExact'
  BY <1>1, <1>6, <1>7, Zenon DEF MemoryExact
<1>11. LoadedComplete' /\ CleanMeansSaved'
  BY <1>1, <1>2, <1>5, <1>8, <1>9, Zenon DEF LoadedComplete, CleanMeansSaved
<1>12. LoadingOK' /\ EmptyOK' /\ FileOK'
  BY <1>1, <1>6, Zenon DEF FileInv, FileOK, LoadingOK, EmptyOK
<1> QED
  BY <1>1, <1>6, <1>10, <1>11, <1>12, Zenon DEF FileInv

\* A change marks the map.
LEMMA ChangeStep ==
  ASSUME FileInv, tc_map_set_block_index
  PROVE  FileInv'
<1>1. /\ status = "loaded" /\ status' = status /\ is_dirty' = TRUE
      /\ file' = file /\ saves' = saves /\ has' = has /\ heap' = heap
  BY Zenon DEF tc_map_set_block_index, disk
<1>2. status' # "loading" /\ is_dirty'
  BY <1>1
<1> QED
  BY <1>1, <1>2, Zenon DEF FileInv, FileOK, LoadingOK, EmptyOK, MemoryExact,
     LoadedComplete, CleanMeansSaved

\* A save, also one that fails, leaves the map in memory as it was.
LEMMA SaveStep ==
  ASSUME FileInv, SaveSucceeds \/ SaveFails
  PROVE  FileInv'
<1>1. /\ status = "loaded" /\ status' = status /\ saves' = saves + 1
      /\ has' = has /\ heap' = heap /\ blocks' = blocks
  BY Zenon DEF SaveSucceeds, SaveFails
<1>2. saves' \in Nat /\ saves' # 0 /\ status' # "loading"
  BY <1>1 DEF FileInv
<1>3. has \subseteq Optional
  BY Zenon DEF FileInv
<1>4. FileOK'
  <2>1. CASE SaveSucceeds
    <3>1. file'.parts = Saved(has) /\ file'.bad = {}
      BY <2>1, SMT DEF SaveSucceeds
    <3> QED
      BY <1>3, <3>1, Zenon DEF FileOK, Saved, AllParts
  <2>2. CASE SaveFails
    <3>1. CASE file' = file
      BY <3>1, Zenon DEF FileInv, FileOK
    <3>2. CASE file' = Truncated
      <4>1. file'.parts = {} /\ file'.bad = {}
        BY <3>2, SMT DEF Truncated
      <4> QED
        BY <4>1, Zenon DEF FileOK
    <3> QED
      BY <2>2, <3>1, <3>2, Zenon DEF SaveFails
  <2> QED
    BY <2>1, <2>2
<1>5. CleanMeansSaved'
  <2>1. CASE SaveSucceeds
    <3>1. file'.parts = Saved(has) /\ file'.blocks = blocks /\ file'.readable
      BY <2>1, SMT DEF SaveSucceeds
    <3>2. (has \ {"env_aspect", "name"}) \subseteq Saved(has)
      BY SMT DEF Saved
    <3> QED
      BY <1>1, <3>1, <3>2, Zenon DEF CleanMeansSaved
  <2>2. CASE SaveFails
    <3>1. save_failed'
      BY <2>2, SMT DEF SaveFails
    <3> QED
      BY <3>1, Zenon DEF CleanMeansSaved
  <2> QED
    BY <2>1, <2>2
<1>6. LoadedComplete' /\ MemoryExact' /\ LoadingOK' /\ EmptyOK'
  BY <1>1, <1>2, Zenon DEF FileInv, LoadedComplete, MemoryExact, LoadingOK, EmptyOK
<1> QED
  BY <1>1, <1>2, <1>3, <1>4, <1>5, <1>6, Zenon DEF FileInv

\* tc_map_finalize frees all of a loaded map.
LEMMA FinalizeStep ==
  ASSUME FileInv, tc_map_finalize
  PROVE  FileInv'
<1>1. /\ status = "loaded" /\ heap' = Freed(heap) /\ status' = "finalized"
      /\ file' = file /\ saves' = saves /\ has' = has
  BY Zenon DEF tc_map_finalize, disk, contents
<1>2. heap = {Lock} \cup UNION {Memory(p) : p \in has \cup Required}
  BY <1>1, Zenon DEF FileInv, MemoryExact
<1>3. heap' = {}
  <2>1. heap \subseteq {Lock} \cup PartMemory
    BY <1>2, UnionOfParts, Zenon
  <2> QED
    BY <1>1, <2>1, FreedMemory, Zenon
<1>4. status' # "loading" /\ status' # "loaded"
      /\ status' \in {"none", "loading", "loaded", "failed", "finalized"}
  BY <1>1
<1> QED
  BY <1>1, <1>3, <1>4, Zenon DEF FileInv, FileOK, LoadingOK, EmptyOK, MemoryExact,
     LoadedComplete, CleanMeansSaved

\* A file that cannot be parsed, and a save of a clean map, change nothing.
LEMMA IdleStep ==
  ASSUME FileInv, LoadUnreadable \/ UNCHANGED vars
  PROVE  FileInv'
<1>1. CASE LoadUnreadable
  <2>1. /\ status \in {"none", "finalized"} /\ status' = "failed" /\ heap' = heap
        /\ file' = file /\ saves' = saves /\ has' = has
    BY <1>1, Zenon DEF LoadUnreadable, disk, contents
  <2>2. status' # "loading" /\ status' # "loaded" /\ status \in {"none", "failed", "finalized"}
        /\ status' \in {"none", "loading", "loaded", "failed", "finalized"}
    BY <2>1
  <2> QED
    BY <2>1, <2>2, Zenon DEF FileInv, FileOK, LoadingOK, EmptyOK, MemoryExact,
       LoadedComplete, CleanMeansSaved
<1>2. CASE UNCHANGED vars
  BY <1>2, Zenon DEF vars, FileInv, FileOK, LoadingOK, EmptyOK, MemoryExact,
     LoadedComplete, CleanMeansSaved, Before
<1> QED
  BY <1>1, <1>2

\* The files at the start have at most one thing wrong with them.
LEMMA FileInit ==
  ASSUME Init
  PROVE  FileInv
<1>1. PICK absent \in SUBSET Optional, bad \in SUBSET Checked, missing \in SUBSET Required :
        /\ Cardinality(bad) + Cardinality(missing) <= 1
        /\ bad \cap absent = {}
        /\ file = [parts |-> (Optional \cup Required) \ (absent \cup missing), bad |-> bad,
                   blocks |-> 0, readable |-> TRUE]
  BY Zenon DEF Init
<1>2. /\ file.parts = (Optional \cup Required) \ (absent \cup missing) /\ file.bad = bad
  BY <1>1, SMT
<1>3. bad = {} \/ missing = {}
  <2>1. IsFiniteSet(Checked) /\ IsFiniteSet(Required)
    <3>1. IsFiniteSet({})
      BY FS_EmptySet, Zenon
    <3>2. \A S, x : IsFiniteSet(S) => IsFiniteSet(S \cup {x})
      BY FS_AddElement, Zenon
    <3>3. Required = (((({} \cup {"version"}) \cup {"uuid"}) \cup {"size"}) \cup {"spawn"})
                       \cup {"block_array"}
      BY Zenon DEF Required
    <3>4. Checked = (((((((({} \cup {"uuid"}) \cup {"block_array"}) \cup {"block_array2"})
                      \cup {"custom_blocks"}) \cup {"env_colors"}) \cup {"env_aspect"})
                      \cup {"env_appearance"}) \cup {"env_weather"}) \cup {"block_definitions"}
      BY Zenon DEF Checked
    <3> QED
      BY <3>1, <3>2, <3>3, <3>4, Zenon
  <2>2. IsFiniteSet(bad) /\ IsFiniteSet(missing)
    BY <2>1, FS_Subset, Zenon
  <2>3. PICK m, n \in Nat : m = Cardinality(bad) /\ n = Cardinality(missing)
    BY <2>2, FS_CardinalityType, Zenon
  <2>4. m = 0 \/ n = 0
    BY <1>1, <2>3
  <2> QED
    BY <2>2, <2>3, <2>4, FS_EmptySet, Zenon
<1>4. \A p \in Checked : p \in AllParts
  <2>1. /\ Parts[3] = "uuid" /\ Parts[8] = "block_array" /\ Parts[9] = "block_array2"
        /\ Parts[10] = "custom_blocks" /\ Parts[11] = "env_colors" /\ Parts[12] = "env_aspect"
        /\ Parts[13] = "env_appearance" /\ Parts[14] = "env_weather"
        /\ Parts[15] = "block_definitions"
    BY DEF Parts
  <2>2. /\ 3 \in 1..15 /\ 8 \in 1..15 /\ 9 \in 1..15 /\ 10 \in 1..15 /\ 11 \in 1..15
        /\ 12 \in 1..15 /\ 13 \in 1..15 /\ 14 \in 1..15 /\ 15 \in 1..15
    OBVIOUS
  <2>3. ASSUME NEW p \in Checked
        PROVE  \E k \in 1..15 : p = Parts[k]
    BY <2>1, <2>2, Zenon DEF Checked
  <2> QED
    BY <2>3, PartFacts, Zenon
<1>5. FileOK
  <2>1. \A p \in missing : p \in Required
    BY Zenon
  <2>2. ASSUME NEW p \in bad
        PROVE  p \notin missing
    BY <1>3, <2>2, Zenon
  <2> QED
    BY <1>1, <1>2, <1>4, <2>2, Zenon DEF FileOK, AllParts
<1>6. /\ has = {} /\ heap = {} /\ status = "none" /\ saves = 0
  BY Zenon DEF Init
<1>7. status # "loading" /\ status # "loaded" /\ saves \in Nat
      /\ status \in {"none", "loading", "loaded", "failed", "finalized"}
  BY <1>6
<1> QED
  BY <1>5, <1>6, <1>7, Zenon DEF FileInv, LoadingOK, EmptyOK, MemoryExact,
     LoadedComplete, CleanMeansSaved

\* Every step.
LEMMA FileStep ==
  ASSUME FileInv, [Next]_vars
  PROVE  FileInv'
<1>1. CASE LoadWithoutLock
  <2>1. {Root} \subseteq {Root, Lock} \cup PartMemory
    BY Zenon
  <2> QED
    BY <1>1, <2>1, GivesUpStep, Zenon DEF LoadWithoutLock
<1>2. CASE SaveClean
  BY <1>2, IdleStep, Zenon DEF SaveClean
<1> QED
  BY <1>1, <1>2, BeginStep, PartStep, PartFailsStep, EndStep, ChangeStep, SaveStep,
     FinalizeStep, IdleStep, Zenon DEF Next

-----------------------------------------------------------------------------
(* The theorems *)

\* The inductive invariant holds throughout.
THEOREM FileInvariant == Spec => []FileInv
BY FileInit, FileStep, PTL DEF Spec

\* A load that gives up at any part, and a finalized map, leave no memory in
\* use; a loaded map holds what its parts need.
THEOREM MemoryIsExact == Spec => []MemoryExact
<1>1. FileInv => MemoryExact
  BY DEF FileInv
<1> QED
  BY <1>1, FileInvariant, PTL

\* tc_map_load succeeds only on a file with every required part and none that
\* is incomplete.
THEOREM OnlyCompleteFilesLoad == Spec => []LoadedComplete
<1>1. FileInv => LoadedComplete
  BY DEF FileInv
<1> QED
  BY <1>1, FileInvariant, PTL

\* Whatever the order of changes, saves and loads, a clean map whose saves have
\* not failed is the one in its file.
THEOREM CleanMapsAreSaved == Spec => []CleanMeansSaved
<1>1. FileInv => CleanMeansSaved
  BY DEF FileInv
<1> QED
  BY <1>1, FileInvariant, PTL

-----------------------------------------------------------------------------
(***************************************************************************)
(* MapBlocks, for the sizes that pint16 holds                              *)
(***************************************************************************)

CONSTANTS x_size, y_size, z_size, Blocks

VARIABLES block_array, block_array2, block

Cells == INSTANCE MapBlocks

-----------------------------------------------------------------------------
(* The index of a position *)

\* A row number and a place in the row make a place in the table.
LEMMA RowMajor ==
  ASSUME NEW A \in Nat \ {0}, NEW B \in Nat \ {0},
         NEW a \in 0..(A - 1), NEW b \in 0..(B - 1)
  PROVE  (a * B) + b \in 0..((A * B) - 1)
<1>1. a * B <= (A - 1) * B
  OBVIOUS
<1>2. (A - 1) * B = (A * B) - B
  OBVIOUS
<1>3. a * B \in Nat /\ A * B \in Nat
  OBVIOUS
<1> QED BY <1>1, <1>2, <1>3

\* A place in the table has one row and one place in it.
LEMMA RowMajorInjective ==
  ASSUME NEW B \in Nat \ {0}, NEW a \in Nat, NEW c \in Nat,
         NEW b \in 0..(B - 1), NEW d \in 0..(B - 1), (a * B) + b = (c * B) + d
  PROVE  a = c /\ b = d
<1>1. ~(a < c)
  <2> SUFFICES ASSUME a + 1 <= c PROVE FALSE
    OBVIOUS
  <2>1. (a + 1) * B <= c * B
    OBVIOUS
  <2>2. (a + 1) * B = (a * B) + B
    OBVIOUS
  <2>3. a * B \in Nat /\ c * B \in Nat
    OBVIOUS
  <2> QED BY <2>1, <2>2, <2>3
<1>2. ~(c < a)
  <2> SUFFICES ASSUME c + 1 <= a PROVE FALSE
    OBVIOUS
  <2>1. (c + 1) * B <= a * B
    OBVIOUS
  <2>2. (c + 1) * B = (c * B) + B
    OBVIOUS
  <2>3. a * B \in Nat /\ c * B \in Nat
    OBVIOUS
  <2> QED BY <2>1, <2>2, <2>3
<1>3. a = c
  BY <1>1, <1>2
<1> QED BY <1>3

\* Every place in the table has a row and a place in it.
LEMMA RowMajorOnto ==
  ASSUME NEW A \in Nat \ {0}, NEW B \in Nat \ {0}, NEW n \in Nat, n < A * B
  PROVE  \E a \in 0..(A - 1), b \in 0..(B - 1) : n = (a * B) + b
<1> DEFINE a == n \div B
           b == n % B
<1>1. a \in Nat /\ b \in 0..(B - 1) /\ n = (a * B) + b
  OBVIOUS
<1> HIDE DEF a, b
<1>2. ~(A <= a)
  <2> SUFFICES ASSUME A <= a PROVE FALSE
    OBVIOUS
  <2>1. A * B <= a * B
    BY <1>1
  <2>2. A * B \in Nat /\ a * B \in Nat
    BY <1>1
  <2> QED BY <1>1, <2>1, <2>2
<1>3. a \in 0..(A - 1)
  BY <1>1, <1>2
<1> QED BY Zenon, <1>1, <1>3

\* The place of a position is one of the places of the map.
LEMMA PlaceBounds ==
  ASSUME Cells!MapBlocksConstants, NEW p \in Cells!Positions
  PROVE  Cells!Place(p) \in 0..(Cells!Size - 1) /\ Cells!Size \in Nat \ {0}
<1>1. /\ x_size \in Nat \ {0} /\ y_size \in Nat \ {0} /\ z_size \in Nat \ {0}
      /\ p[1] \in 0..(x_size - 1) /\ p[2] \in 0..(y_size - 1) /\ p[3] \in 0..(z_size - 1)
  BY DEF Cells!MapBlocksConstants, Cells!Positions
<1>2. y_size * z_size \in Nat \ {0}
  BY <1>1
<1>3. (p[2] * z_size) + p[3] \in 0..((y_size * z_size) - 1)
  BY Zenon, <1>1, RowMajor
<1>4. (((p[2] * z_size) + p[3]) * x_size) + p[1] \in 0..(((y_size * z_size) * x_size) - 1)
  BY Zenon, <1>1, <1>2, <1>3, RowMajor
<1>5. (y_size * z_size) * x_size = (x_size * y_size) * z_size
  BY <1>1
<1>6. (y_size * z_size) * x_size \in Nat \ {0}
  BY <1>1, <1>2
<1> QED BY <1>4, <1>5, <1>6 DEF Cells!Place, Cells!Size

\* An int that does not overflow is exact.
LEMMA IntExact ==
  ASSUME NEW n \in Nat, n < Cells!TwoTo31
  PROVE  Cells!Int32(n) = n
BY DEF Cells!Int32, Cells!TwoTo31

\* So is the index of a position, in maps whose blocks an int counts.
LEMMA IndexBounds ==
  ASSUME Cells!MapBlocksConstants, Cells!FitsInt, NEW p \in Cells!Positions
  PROVE  /\ Cells!Index(p) = Cells!Place(p)
         /\ Cells!Index(p) \in 0..(Cells!Count - 1) /\ Cells!Count \in Nat \ {0}
<1>1. Cells!Place(p) \in 0..(Cells!Size - 1) /\ Cells!Size \in Nat \ {0} /\ Cells!TwoTo31 \in Nat
  BY PlaceBounds DEF Cells!TwoTo31
<1>2. Cells!Size < Cells!TwoTo31
  BY DEF Cells!FitsInt
<1>3. Cells!Count = Cells!Size /\ Cells!Index(p) = Cells!Place(p)
  BY <1>1, <1>2, IntExact DEF Cells!Count, Cells!Index
<1> QED BY <1>1, <1>3

\* Two positions have two indexes.
LEMMA IndexInjective ==
  ASSUME Cells!MapBlocksConstants, Cells!FitsInt, NEW p \in Cells!Positions, NEW q \in Cells!Positions, Cells!Index(p) = Cells!Index(q)
  PROVE  p = q
<1>1. /\ x_size \in Nat \ {0} /\ y_size \in Nat \ {0} /\ z_size \in Nat \ {0}
      /\ p[1] \in 0..(x_size - 1) /\ p[2] \in 0..(y_size - 1) /\ p[3] \in 0..(z_size - 1)
      /\ q[1] \in 0..(x_size - 1) /\ q[2] \in 0..(y_size - 1) /\ q[3] \in 0..(z_size - 1)
  BY DEF Cells!MapBlocksConstants, Cells!Positions
<1> DEFINE r == (p[2] * z_size) + p[3]
           t == (q[2] * z_size) + q[3]
<1>2. r \in Nat /\ t \in Nat
  BY <1>1, RowMajor
<1>3. (r * x_size) + p[1] = (t * x_size) + q[1]
  BY IndexBounds DEF Cells!Place
<1>4. r = t /\ p[1] = q[1]
  <2> HIDE DEF r, t
  <2> QED BY <1>1, <1>2, <1>3, RowMajorInjective
<1>5. p[2] = q[2] /\ p[3] = q[3]
  <2> DEFINE p2 == p[2]  p3 == p[3]  q2 == q[2]  q3 == q[3]
  <2>1. p2 \in Nat /\ q2 \in Nat /\ p3 \in 0..(z_size - 1) /\ q3 \in 0..(z_size - 1)
    BY <1>1
  <2>2. (p2 * z_size) + p3 = (q2 * z_size) + q3
    BY <1>4
  <2>3. z_size \in Nat \ {0}
    BY <1>1
  <2> HIDE DEF p2, p3, q2, q3
  <2>4. p2 = q2 /\ p3 = q3
    BY <2>1, <2>2, <2>3, RowMajorInjective
  <2> QED BY <2>4 DEF p2, p3, q2, q3
<1>6. p = << p[1], p[2], p[3] >> /\ q = << q[1], q[2], q[3] >>
  BY DEF Cells!Positions
<1> QED BY <1>4, <1>5, <1>6

-----------------------------------------------------------------------------
(* The bits of four blocks in a byte *)

\* A byte is its four pairs of bits.
LEMMA FourFields ==
  ASSUME NEW byte \in 0..255
  PROVE  \E a, b, c, d \in 0..3 : byte = a + (4 * b) + (16 * c) + (64 * d)
<1> WITNESS byte % 4 \in 0..3, (byte \div 4) % 4 \in 0..3,
            (byte \div 16) % 4 \in 0..3, (byte \div 64) % 4 \in 0..3
<1> QED OBVIOUS

\* The byte of four pairs of bits.
ByteOf(a, b, c, d) == a + (4 * b) + (16 * c) + (64 * d)

\* The pair of bits of weight w.
Field(n, w) == (n \div w) % 4

\* The pairs of bits are found where they were put.
LEMMA FieldsRead ==
  ASSUME NEW a \in 0..3, NEW b \in 0..3, NEW c \in 0..3, NEW d \in 0..3
  PROVE  /\ Field(ByteOf(a, b, c, d), 1) = a
         /\ Field(ByteOf(a, b, c, d), 4) = b
         /\ Field(ByteOf(a, b, c, d), 16) = c
         /\ Field(ByteOf(a, b, c, d), 64) = d
<1> DEFINE n == ByteOf(a, b, c, d)
<1>1. n \in 0..255
  BY DEF ByteOf
<1>2. (n \div 1) % 4 = a
  BY DEF ByteOf
<1>3. (n \div 4) % 4 = b
  <2>1. n \div 4 = b + (4 * c) + (16 * d)
    BY DEF ByteOf
  <2> QED BY <2>1
<1>4. (n \div 16) % 4 = c
  <2>1. n \div 16 = c + (4 * d)
    BY DEF ByteOf
  <2> QED BY <2>1
<1>5. (n \div 64) % 4 = d
  <2>1. n \div 64 = d
    BY DEF ByteOf
  <2> QED BY <2>1
<1> QED BY <1>1, <1>2, <1>3, <1>4, <1>5 DEF Field

\* Blocks of different places in their bytes have different weights.
LEMMA Weights ==
  ASSUME NEW i \in Nat, NEW j \in Nat
  PROVE  Cells!Weight(i) \in {1, 4, 16, 64} /\ (Cells!Weight(i) = Cells!Weight(j) <=> i % 4 = j % 4)
<1>1. i % 4 \in {0, 1, 2, 3} /\ j % 4 \in {0, 1, 2, 3}
  OBVIOUS
<1> DEFINE im == i % 4
           jm == j % 4
<1>2. Cells!Weight(i) = CASE im = 0 -> 1 [] im = 1 -> 4 [] im = 2 -> 16 [] im = 3 -> 64
  BY DEF Cells!Weight
<1>3. Cells!Weight(j) = CASE jm = 0 -> 1 [] jm = 1 -> 4 [] jm = 2 -> 16 [] jm = 3 -> 64
  BY DEF Cells!Weight
<1>4. im \in {0, 1, 2, 3} /\ jm \in {0, 1, 2, 3}
  BY <1>1
<1> HIDE DEF im, jm
<1>5. Cells!Weight(i) \in {1, 4, 16, 64} /\ (Cells!Weight(i) = Cells!Weight(j) <=> im = jm)
  BY <1>2, <1>3, <1>4
<1> QED BY <1>5 DEF im, jm

\* byte with the pair of bits of weight v replaced.
Replaced(byte, v, bits) == byte - (Field(byte, v) * v) + (bits * v)

\* What putting bits in the place of block i means for block j of the byte.
ByteRewritten(byte, i, j, bits) ==
  /\ Cells!WithBits(byte, i, bits) \in 0..255
  /\ Cells!Weight(i) = Cells!Weight(j) => Cells!BitsOf(Cells!WithBits(byte, i, bits), j) = bits
  /\ Cells!Weight(i) # Cells!Weight(j) => Cells!BitsOf(Cells!WithBits(byte, i, bits), j) = Cells!BitsOf(byte, j)

\* The bits of a block are those that were put there, and the bits of the three
\* other blocks of the byte stay as they are.
LEMMA BitsWritten ==
  ASSUME NEW byte \in 0..255, NEW i \in Nat, NEW j \in Nat, NEW bits \in 0..3
  PROVE  ByteRewritten(byte, i, j, bits)
<1> DEFINE v == Cells!Weight(i)
           w == Cells!Weight(j)
           new == Cells!WithBits(byte, i, bits)
<1>1. v \in {1, 4, 16, 64} /\ w \in {1, 4, 16, 64}
  BY Weights
<1>2. new = Replaced(byte, v, bits)
  BY DEF Cells!WithBits, Cells!BitsOf, Replaced, Field
<1>3. Cells!BitsOf(byte, j) = Field(byte, w) /\ Cells!BitsOf(new, j) = Field(new, w)
  BY DEF Cells!BitsOf, Field
<1>4. new \in Int
  BY <1>1, <1>2 DEF Replaced, Field
<1> HIDE DEF v, w, new
<1>5. /\ 0 <= new /\ new <= 255
      /\ v = w => Field(new, w) = bits
      /\ v # w => Field(new, w) = Field(byte, w)
  <2>1. PICK a, b, c, d \in 0..3 : byte = ByteOf(a, b, c, d)
    BY FourFields DEF ByteOf
  <2>2. /\ Field(byte, 1) = a /\ Field(byte, 4) = b
        /\ Field(byte, 16) = c /\ Field(byte, 64) = d
    BY <2>1, FieldsRead
  <2>3. CASE v = 1
    <3>1. new = ByteOf(bits, b, c, d)
      BY <1>2, <2>1, <2>2, <2>3 DEF ByteOf, Replaced
    <3>2. new \in 0..255
      BY <3>1 DEF ByteOf
    <3>3. /\ Field(new, 1) = bits /\ Field(new, 4) = b
          /\ Field(new, 16) = c /\ Field(new, 64) = d
      BY <3>1, FieldsRead
    <3> QED BY <1>1, <2>2, <2>3, <3>2, <3>3
  <2>4. CASE v = 4
    <3>1. new = ByteOf(a, bits, c, d)
      BY <1>2, <2>1, <2>2, <2>4 DEF ByteOf, Replaced
    <3>2. new \in 0..255
      BY <3>1 DEF ByteOf
    <3>3. /\ Field(new, 1) = a /\ Field(new, 4) = bits
          /\ Field(new, 16) = c /\ Field(new, 64) = d
      BY <3>1, FieldsRead
    <3> QED BY <1>1, <2>2, <2>4, <3>2, <3>3
  <2>5. CASE v = 16
    <3>1. new = ByteOf(a, b, bits, d)
      BY <1>2, <2>1, <2>2, <2>5 DEF ByteOf, Replaced
    <3>2. new \in 0..255
      BY <3>1 DEF ByteOf
    <3>3. /\ Field(new, 1) = a /\ Field(new, 4) = b
          /\ Field(new, 16) = bits /\ Field(new, 64) = d
      BY <3>1, FieldsRead
    <3> QED BY <1>1, <2>2, <2>5, <3>2, <3>3
  <2>6. CASE v = 64
    <3>1. new = ByteOf(a, b, c, bits)
      BY <1>2, <2>1, <2>2, <2>6 DEF ByteOf, Replaced
    <3>2. new \in 0..255
      BY <3>1 DEF ByteOf
    <3>3. /\ Field(new, 1) = a /\ Field(new, 4) = b
          /\ Field(new, 16) = c /\ Field(new, 64) = bits
      BY <3>1, FieldsRead
    <3> QED BY <1>1, <2>2, <2>6, <3>2, <3>3
  <2> QED BY <1>1, <2>3, <2>4, <2>5, <2>6
<1> QED BY <1>3, <1>4, <1>5 DEF ByteRewritten, new, v, w

-----------------------------------------------------------------------------
(* The two arrays *)

\* The inductive invariant: the arrays hold bytes, one for every index, and
\* every block is one that was set.
BlocksInv ==
  /\ block_array \in [0..(Cells!Count - 1) -> 0..255]
  /\ \/ block_array2 = [i \in {} |-> 0]
     \/ block_array2 \in [0..(((Cells!Count + 3) \div 4) - 1) -> 0..255]
  /\ \A p \in Cells!Positions : Cells!BlockAt(Cells!Index(p)) \in Cells!Values
  /\ block \in Cells!Values

\* Four blocks to a byte: the byte of every index is there.
LEMMA ByteIndex ==
  ASSUME NEW n \in Nat \ {0}, NEW i \in 0..(n - 1)
  PROVE  i \div 4 \in 0..(((n + 3) \div 4) - 1)
OBVIOUS

\* Two blocks at one place of one byte are one block.
LEMMA ByteAndPlace ==
  ASSUME NEW i \in Nat, NEW j \in Nat, i \div 4 = j \div 4, Cells!Weight(i) = Cells!Weight(j)
  PROVE  i = j
<1>1. i % 4 = j % 4
  BY Weights
<1> QED BY <1>1

\* The eight lower and the two upper bits make the block.
LEMMA TenBits ==
  ASSUME NEW value \in 0..1023
  PROVE  /\ (value \div 256) % 4 \in 0..3
         /\ value % 256 \in 0..255
         /\ (value % 256) + (((value \div 256) % 4) * 256) = value % 1024
         /\ value % 1024 = value
OBVIOUS

\* Setting block i leaves every other block, and i is what it was set to.
LEMMA SetEffect ==
  ASSUME Cells!MapBlocksConstants, Cells!FitsInt, BlocksInv, NEW p \in Cells!Positions, NEW value \in Blocks,
         Cells!tc_map_set_block_index(p, value), NEW q \in Cells!Positions
  PROVE  Cells!BlockAt(Cells!Index(q))' = IF q = p THEN value % Cells!Kept ELSE Cells!BlockAt(Cells!Index(q))
<1> DEFINE i == Cells!Index(p)
           j == Cells!Index(q)
<1>1. /\ Cells!Count \in Nat \ {0} /\ i \in 0..(Cells!Count - 1) /\ j \in 0..(Cells!Count - 1)
      /\ (i = j <=> p = q)
  BY IndexBounds, IndexInjective
<1>2. value \in 0..1023
  BY DEF Cells!MapBlocksConstants
<1>3. block_array' = [block_array EXCEPT ![i] = value % 256]
  BY DEF Cells!tc_map_set_block_index
<1>4. j' = j
  BY DEF Cells!Index, Cells!Int32, Cells!TwoTo31, Cells!Place
<1>5. block_array'[j] = IF i = j THEN value % 256 ELSE block_array[j]
  BY <1>1, <1>3 DEF BlocksInv
<1>6. CASE ~Cells!HasSecond
  <2>1. block_array2' = block_array2 /\ ~Cells!HasSecond' /\ Cells!Kept = 256
    BY <1>6 DEF Cells!tc_map_set_block_index, Cells!HasSecond, Cells!Kept
  <2>2. Cells!BlockAt(Cells!Index(q))' = block_array'[j] + 0 /\ Cells!BlockAt(j) = block_array[j] + 0
    BY <1>6, <2>1 DEF Cells!BlockAt
  <2>3. block_array[j] \in 0..255 /\ value % 256 \in 0..255
    BY SMTT(30), <1>1, <1>2, TenBits DEF BlocksInv
  <2> HIDE DEF i, j
  <2> QED BY <1>1, <1>5, <2>1, <2>2, <2>3 DEF j
<1>7. CASE Cells!HasSecond
  <2> DEFINE bits == (value \div 256) % 4
             n == ((Cells!Count + 3) \div 4) - 1
             ib == i \div 4
             jb == j \div 4
  <2>1. block_array2 \in [0..n -> 0..255]
    BY <1>7 DEF BlocksInv, Cells!HasSecond
  <2>2. ib \in 0..n /\ jb \in 0..n
    BY <1>1, ByteIndex
  <2>3. block_array2' = [block_array2 EXCEPT ![ib] = Cells!WithBits(@, i, bits)]
    BY <1>7 DEF Cells!tc_map_set_block_index
  <2>4. Cells!HasSecond' /\ Cells!Kept = 1024
    BY <1>7, <2>1, <2>3 DEF Cells!HasSecond, Cells!Kept
  <2>5. bits \in 0..3 /\ (value % 256) + (bits * 256) = value % 1024
    BY <1>2, TenBits
  <2>6. Cells!BlockAt(j) = block_array[j] + (Cells!BitsOf(block_array2[jb], j) * 256)
    BY <1>7 DEF Cells!BlockAt
  <2>7. Cells!BlockAt(Cells!Index(q))' = block_array'[j] + (Cells!BitsOf(block_array2'[jb], j) * 256)
    BY Zenon, <2>4 DEF Cells!BlockAt, Cells!BitsOf, Cells!Weight
  <2>8. i \in Nat /\ j \in Nat
    BY <1>1
  <2>9. (ib = jb /\ Cells!Weight(i) = Cells!Weight(j)) => i = j
    BY <2>8, ByteAndPlace
  <2>10. /\ Cells!Weight(i) = Cells!Weight(j) => Cells!BitsOf(Cells!WithBits(block_array2[jb], i, bits), j) = bits
         /\ Cells!Weight(i) # Cells!Weight(j) =>
              Cells!BitsOf(Cells!WithBits(block_array2[jb], i, bits), j) = Cells!BitsOf(block_array2[jb], j)
    <3> DEFINE byte == block_array2[jb]
    <3>1. byte \in 0..255 /\ bits \in 0..3
      BY SMTT(30), <2>1, <2>2, <2>5
    <3> HIDE DEF i, j, bits, jb, byte
    <3>2. ByteRewritten(byte, i, j, bits)
      BY Zenon, <3>1, <2>8, BitsWritten
    <3> QED BY <3>2 DEF byte, ByteRewritten
  <2>11. block_array2'[jb] = IF ib = jb THEN Cells!WithBits(block_array2[jb], i, bits)
                             ELSE block_array2[jb]
    <3> HIDE DEF i, j, bits, ib, jb
    <3> QED BY <2>1, <2>2, <2>3
  <2>12. i = j => ib = jb
    OBVIOUS
  <2>13. Cells!BitsOf(block_array2'[jb], j) = IF i = j THEN bits ELSE Cells!BitsOf(block_array2[jb], j)
    <3> HIDE DEF i, j, bits, ib, jb
    <3> QED BY <2>9, <2>10, <2>11, <2>12
  <2> HIDE DEF i, j, bits, ib, jb
  <2>14. CASE i = j
    BY <1>5, <2>5, <2>7, <2>13, <2>14, <2>4, <1>1
  <2>15. CASE i # j
    <3>1. Cells!BlockAt(Cells!Index(q))' = Cells!BlockAt(j)
      BY <1>5, <2>6, <2>7, <2>13, <2>15
    <3> QED BY <3>1, <2>15, <1>1 DEF j
  <2> QED BY <2>14, <2>15
<1> QED BY <1>6, <1>7

\* The arrays keep their sizes and hold bytes.
LEMMA SetKeepsArrays ==
  ASSUME Cells!MapBlocksConstants, Cells!FitsInt, BlocksInv, NEW p \in Cells!Positions, NEW value \in Blocks,
         Cells!tc_map_set_block_index(p, value)
  PROVE  /\ block_array' \in [0..(Cells!Count - 1) -> 0..255]
         /\ \/ block_array2' = [i \in {} |-> 0]
            \/ block_array2' \in [0..(((Cells!Count + 3) \div 4) - 1) -> 0..255]
<1> DEFINE i == Cells!Index(p)
           bits == (value \div 256) % 4
           n == ((Cells!Count + 3) \div 4) - 1
           ib == i \div 4
<1>1. Cells!Count \in Nat \ {0} /\ i \in 0..(Cells!Count - 1)
  BY IndexBounds
<1>2. value \in 0..1023
  BY DEF Cells!MapBlocksConstants
<1>3. bits \in 0..3 /\ value % 256 \in 0..255
  BY <1>2, TenBits
<1>4. block_array' \in [0..(Cells!Count - 1) -> 0..255]
  BY Zenon, <1>3 DEF Cells!tc_map_set_block_index, BlocksInv
<1>5. CASE ~Cells!HasSecond
  BY Zenon, <1>4, <1>5 DEF Cells!tc_map_set_block_index, BlocksInv
<1>6. CASE Cells!HasSecond
  <2>1. block_array2 \in [0..n -> 0..255]
    BY <1>6 DEF BlocksInv, Cells!HasSecond
  <2>2. ib \in 0..n
    BY <1>1, ByteIndex
  <2>3. block_array2' = [block_array2 EXCEPT ![ib] = Cells!WithBits(@, i, bits)]
    BY <1>6 DEF Cells!tc_map_set_block_index
  <2>4. i \in Nat
    BY <1>1
  <2> HIDE DEF i, bits, n, ib
  <2>5. Cells!WithBits(block_array2[ib], i, bits) \in 0..255
    <3> DEFINE byte == block_array2[ib]
    <3>1. byte \in 0..255
      BY Zenon, <2>1, <2>2
    <3> HIDE DEF byte
    <3>2. ByteRewritten(byte, i, i, bits)
      BY Zenon, <3>1, <1>3, <2>4, BitsWritten
    <3> QED BY <3>2 DEF byte, ByteRewritten
  <2>6. block_array2' \in [0..n -> 0..255]
    BY <2>1, <2>2, <2>3, <2>5
  <2> QED BY Zenon, <1>4, <2>6 DEF n
<1> QED BY Zenon, <1>5, <1>6

\* What is kept of a block is a value.
LEMMA KeptIsValue ==
  ASSUME Cells!MapBlocksConstants, NEW value \in Blocks
  PROVE  value % Cells!Kept \in Cells!Values
<1>1. value \in 0..1023
  BY DEF Cells!MapBlocksConstants
<1>2. CASE Cells!Kept = 1024
  <2>1. value % 1024 = value
    BY <1>1, TenBits
  <2> QED BY <1>2, <2>1 DEF Cells!Values
<1>3. CASE Cells!Kept = 256
  BY <1>3 DEF Cells!Values
<1> QED BY <1>2, <1>3 DEF Cells!Kept

\* A fresh map satisfies the invariant: every block is 0.
LEMMA InitBlocksInv ==
  ASSUME Cells!MapBlocksConstants, Cells!FitsInt, Cells!Init
  PROVE  BlocksInv
<1>1. block_array \in [0..(Cells!Count - 1) -> 0..255]
  BY DEF Cells!Init
<1>2. \/ block_array2 = [i \in {} |-> 0]
      \/ block_array2 \in [0..(((Cells!Count + 3) \div 4) - 1) -> 0..255]
  <2> DEFINE S == 0..(((Cells!Count + 3) \div 4) - 1)
  <2>1. block_array2 = [i \in {} |-> 0] \/ block_array2 = [i \in S |-> 0]
    BY DEF Cells!Init
  <2> HIDE DEF S
  <2>2. [i \in S |-> 0] \in [S -> 0..255]
    OBVIOUS
  <2> QED BY Zenon, <2>1, <2>2 DEF S
<1>3. 0 \in Cells!Values
  BY DEF Cells!Values
<1>4. ASSUME NEW p \in Cells!Positions PROVE Cells!BlockAt(Cells!Index(p)) = 0
  <2> DEFINE i == Cells!Index(p)
             n == ((Cells!Count + 3) \div 4) - 1
             ib == i \div 4
  <2>1. Cells!Count \in Nat \ {0} /\ i \in 0..(Cells!Count - 1)
    BY IndexBounds
  <2>2. block_array[i] = 0
    BY <2>1 DEF Cells!Init
  <2>3. CASE ~Cells!HasSecond
    BY <2>2, <2>3 DEF Cells!BlockAt
  <2>4. CASE Cells!HasSecond
    <3>1. ib \in 0..n
      BY <2>1, ByteIndex
    <3>2. block_array2 = [k \in 0..n |-> 0]
      BY <2>4 DEF Cells!Init, Cells!HasSecond
    <3>3. block_array2[ib] = 0
      BY <3>1, <3>2
    <3>4. Cells!BitsOf(0, i) = 0
      <4>1. i \in Nat
        BY <2>1
      <4>2. Cells!Weight(i) \in {1, 4, 16, 64}
        BY <4>1, Weights
      <4> QED BY <4>2 DEF Cells!BitsOf
    <3> QED BY <2>2, <2>4, <3>3, <3>4 DEF Cells!BlockAt
  <2> QED BY <2>3, <2>4
<1> QED BY <1>1, <1>2, <1>3, <1>4 DEF BlocksInv, Cells!Init

\* Reading and setting keep the invariant.
LEMMA NextBlocksInv ==
  ASSUME Cells!MapBlocksConstants, Cells!FitsInt, BlocksInv, [Cells!Next]_Cells!vars
  PROVE  BlocksInv'
<1>1. CASE UNCHANGED Cells!vars
  BY Zenon, <1>1 DEF Cells!vars, BlocksInv, Cells!BlockAt, Cells!HasSecond,
     Cells!BitsOf, Cells!Weight, Cells!Count, Cells!Size, Cells!Positions
<1>2. ASSUME NEW p \in Cells!Positions, Cells!tc_map_get_block_index(p) PROVE BlocksInv'
  <2>1. block' \in Cells!Values
    BY <1>2 DEF Cells!tc_map_get_block_index, BlocksInv
  <2>2. UNCHANGED << block_array, block_array2 >>
    BY <1>2 DEF Cells!tc_map_get_block_index
  <2> QED BY Zenon, <2>1, <2>2 DEF BlocksInv, Cells!BlockAt, Cells!HasSecond,
     Cells!BitsOf, Cells!Weight, Cells!Count, Cells!Size, Cells!Positions
<1>3. ASSUME NEW p \in Cells!Positions, NEW value \in Blocks, Cells!tc_map_set_block_index(p, value)
      PROVE  BlocksInv'
  <2>1. ASSUME NEW q \in Cells!Positions PROVE Cells!BlockAt(Cells!Index(q))' \in Cells!Values
    BY <1>3, <2>1, SetEffect, KeptIsValue DEF BlocksInv
  <2>2. block' \in Cells!Values
    BY <1>3 DEF Cells!tc_map_set_block_index, BlocksInv
  <2> QED BY Zenon, <1>3, <2>1, <2>2, SetKeepsArrays DEF BlocksInv
<1> QED BY <1>1, <1>2, <1>3 DEF Cells!Next

\* Every position has an index of its own inside the arrays.
LEMMA BlocksInvIndexes ==
  ASSUME Cells!MapBlocksConstants, Cells!FitsInt, BlocksInv
  PROVE  Cells!IndexExact
<1>1. ASSUME NEW p \in Cells!Positions
      PROVE  /\ Cells!Index(p) \in DOMAIN block_array
             /\ Cells!HasSecond => Cells!Index(p) \div 4 \in DOMAIN block_array2
  <2>1. Cells!Count \in Nat \ {0} /\ Cells!Index(p) \in 0..(Cells!Count - 1)
    BY IndexBounds
  <2>2. Cells!Index(p) \div 4 \in 0..(((Cells!Count + 3) \div 4) - 1)
    BY <2>1, ByteIndex
  <2> QED BY <2>1, <2>2 DEF BlocksInv, Cells!HasSecond
<1> QED BY <1>1, IndexInjective DEF Cells!IndexExact

\* Setting a block is a step of the grid.
LEMMA SetIsGridSet ==
  ASSUME Cells!MapBlocksConstants, Cells!FitsInt, BlocksInv, NEW p \in Cells!Positions, NEW value \in Blocks,
         Cells!tc_map_set_block_index(p, value)
  PROVE  Cells!Grid!Set(p, value % Cells!Kept)
<1> DEFINE old == [q \in Cells!Positions |-> Cells!BlockAt(Cells!Index(q))]
           new == [q \in Cells!Positions |-> Cells!BlockAt(Cells!Index(q))']
<1>1. \A q \in Cells!Positions : Cells!BlockAt(Cells!Index(q))' = IF q = p THEN value % Cells!Kept ELSE Cells!BlockAt(Cells!Index(q))
  BY SetEffect
<1>2. new = [old EXCEPT ![p] = value % Cells!Kept]
  BY Zenon, <1>1
<1>3. block' = block
  BY DEF Cells!tc_map_set_block_index
<1> QED BY <1>2, <1>3 DEF Cells!Grid!Set

\* Reading a block is a step of the grid.
LEMMA GetIsGridGet ==
  ASSUME NEW p \in Cells!Positions, Cells!tc_map_get_block_index(p)
  PROVE  Cells!Grid!Get(p)
<1>1. UNCHANGED << block_array, block_array2 >> /\ block' = Cells!BlockAt(Cells!Index(p))
  BY DEF Cells!tc_map_get_block_index
<1>2. [q \in Cells!Positions |-> Cells!BlockAt(Cells!Index(q))]' = [q \in Cells!Positions |-> Cells!BlockAt(Cells!Index(q))]
  BY <1>1 DEF Cells!BlockAt, Cells!HasSecond, Cells!BitsOf, Cells!Weight,
     Cells!Positions
<1> QED BY <1>1, <1>2 DEF Cells!Grid!Get

\* tc_map_get_block_index and tc_map_set_block_index never leave the two arrays,
\* and no two positions share a block, in every map whose blocks an int counts.
THEOREM IndexesExact ==
  ASSUME Cells!MapBlocksConstants, Cells!FitsInt
  PROVE  Cells!Spec => []Cells!IndexExact
<1>1. Cells!Init => BlocksInv
  BY InitBlocksInv
<1>2. BlocksInv /\ [Cells!Next]_Cells!vars => BlocksInv'
  BY NextBlocksInv
<1>3. BlocksInv => Cells!IndexExact
  BY BlocksInvIndexes
<1> QED BY <1>1, <1>2, <1>3, PTL DEF Cells!Spec

\* And in every map that tc_map_load lets through although an int cannot count its
\* blocks, tc_map_get_block_index and tc_map_set_block_index do leave the arrays:
\* the dimensions check compares with a product that has wrapped, and the first
\* place after the array is the place of a position.
THEOREM LargeMapsOverrun ==
  ASSUME Cells!MapBlocksConstants, ~Cells!FitsInt
  PROVE  Cells!Init => ~Cells!IndexExact
<1> SUFFICES ASSUME Cells!Init PROVE ~Cells!IndexExact
  OBVIOUS
<1>1. x_size \in Nat \ {0} /\ y_size \in Nat \ {0} /\ z_size \in Nat \ {0}
  BY DEF Cells!MapBlocksConstants
<1>2. y_size * z_size \in Nat \ {0}
  BY <1>1
<1>3. Cells!Size = (y_size * z_size) * x_size /\ Cells!Size \in Nat
  BY <1>1 DEF Cells!Size
<1> DEFINE c == Cells!Count
<1>4. c \in Nat /\ c < Cells!TwoTo31
  <2>1. Cells!Size \in Int /\ c = Cells!Int32(Cells!Size) /\ c > 0
    BY <1>3 DEF Cells!Count, Cells!Init
  <2> HIDE DEF c
  <2> QED BY <2>1 DEF Cells!Int32, Cells!TwoTo31
<1>5. c < (y_size * z_size) * x_size
  BY <1>3, <1>4 DEF Cells!FitsInt, Cells!TwoTo31
<1>6. block_array = [i \in 0..(c - 1) |-> 0]
  BY DEF Cells!Init
<1> HIDE DEF c
<1>7. PICK r \in 0..((y_size * z_size) - 1), x \in 0..(x_size - 1) : c = (r * x_size) + x
  BY Zenon, <1>1, <1>2, <1>4, <1>5, RowMajorOnto
<1>8. r \in Nat /\ r < y_size * z_size
  BY <1>2
<1>9. PICK y \in 0..(y_size - 1), z \in 0..(z_size - 1) : r = (y * z_size) + z
  BY Zenon, <1>1, <1>8, RowMajorOnto
<1> DEFINE p == << x, y, z >>
<1>10. p \in Cells!Positions
  BY DEF Cells!Positions
<1>11. Cells!Place(p) = c
  BY <1>7, <1>9 DEF Cells!Place
<1>12. Cells!Index(p) = c
  BY <1>4, <1>11, IntExact DEF Cells!Index
<1>13. c \notin DOMAIN block_array
  BY <1>4, <1>6
<1> HIDE DEF p
<1> QED BY <1>10, <1>12, <1>13 DEF Cells!IndexExact

\* The two packed arrays implement a grid of blocks, in every map whose blocks an
\* int counts: a block is read as it was set, and setting one changes no other.
THEOREM ArraysImplementGrid ==
  ASSUME Cells!MapBlocksConstants, Cells!FitsInt
  PROVE  Cells!Spec => Cells!Implements
<1>1. Cells!Init => BlocksInv
  BY InitBlocksInv
<1>2. BlocksInv /\ [Cells!Next]_Cells!vars => BlocksInv'
  BY NextBlocksInv
<1>3. BlocksInv => Cells!Grid!Init
  BY DEF BlocksInv, Cells!Grid!Init
<1>4. BlocksInv /\ [Cells!Next]_Cells!vars => [Cells!Grid!Next]_(Cells!Grid!vars)
  <2> SUFFICES ASSUME BlocksInv, [Cells!Next]_Cells!vars PROVE [Cells!Grid!Next]_(Cells!Grid!vars)
    OBVIOUS
  <2>1. CASE UNCHANGED Cells!vars
    BY <2>1 DEF Cells!vars, Cells!Grid!vars, Cells!BlockAt, Cells!HasSecond,
       Cells!BitsOf, Cells!Weight, Cells!Positions
  <2>2. ASSUME NEW p \in Cells!Positions, Cells!tc_map_get_block_index(p) PROVE Cells!Grid!Next
    BY <2>2, GetIsGridGet DEF Cells!Grid!Next
  <2>3. ASSUME NEW p \in Cells!Positions, NEW value \in Blocks, Cells!tc_map_set_block_index(p, value)
        PROVE  Cells!Grid!Next
    BY <2>3, SetIsGridSet, KeptIsValue DEF Cells!Grid!Next
  <2> QED BY <2>1, <2>2, <2>3 DEF Cells!Next
<1> QED BY <1>1, <1>2, <1>3, <1>4, PTL DEF Cells!Spec, Cells!Implements, Cells!Grid!Spec

\* A block just set is the one asked for, as far as the map has bits for it, in
\* every map whose blocks an int counts.
THEOREM SetAlwaysTakesEffect ==
  ASSUME Cells!MapBlocksConstants, Cells!FitsInt
  PROVE  Cells!Spec => Cells!SetTakesEffect
<1>1. Cells!Init => BlocksInv
  BY InitBlocksInv
<1>2. BlocksInv /\ [Cells!Next]_Cells!vars => BlocksInv'
  BY NextBlocksInv
<1> DEFINE Effect == \A p \in Cells!Positions, value \in Blocks :
                       Cells!tc_map_set_block_index(p, value) => Cells!BlockAt(Cells!Index(p))' = value % Cells!Kept
<1>3. BlocksInv => Effect
  BY SetEffect
<1> HIDE DEF Effect
<1>4. Cells!Spec => [][Effect]_Cells!vars
  BY <1>1, <1>2, <1>3, PTL DEF Cells!Spec
<1> QED BY <1>4 DEF Cells!SetTakesEffect, Effect

-----------------------------------------------------------------------------
(***************************************************************************)
(* MapSetup: what a client is sent, for every map and client               *)
(***************************************************************************)

VARIABLES map, version, at, todo, sent

Setup == INSTANCE MapSetup

Extensions == {"none", "FastMap", "EnvMapAspect", "EnvMapAppearance", "EnvWeatherType",
               "EnvColors"}
Contents == {"level_initialize", "level_initialize2", "texture_url", "side_block",
             "edge_block", "edge_height", "clouds_height", "clouds_speed", "weather_speed",
             "weather_fade", "exponential_fog", "side_offset", "max_view_distance",
             "appearance1", "appearance2", "weather", "sky", "cloud", "fog", "ambient",
             "sunlight"}
Packet == Extensions \X Contents

\* A packet that may be sent: OnlyNegotiated of a single packet.
Allowed(p) ==
  \/ p[1] = "none"
  \/ /\ version[p[1]] > 0
     /\ p[2] = "appearance1" => version.EnvMapAppearance = 1
     /\ p[2] = "appearance2" => version.EnvMapAppearance = 2

\* What is sent or about to be: sending a packet leaves it alone.
Out == sent \o todo

\* packets are all among those in `list'.
Among(packets, list) == \A k \in DOMAIN packets : \E j \in DOMAIN list : list[j] = packets[k]

\* list begins with a level initialize packet and has no other.
Begun(list) == list # << >> /\ \A k \in DOMAIN list : list[k][2] \in Setup!LevelInitialize <=> k = 1

Environment(list) ==
  /\ map.env_aspect => Among(Setup!AspectPackets, list)
  /\ (~map.env_aspect /\ map.env_appearance > 0) =>
       \/ Among(Setup!Packets("EnvMapAppearance", << "appearance2" >>), list)
       \/ /\ Among(Setup!Packets("EnvMapAppearance", << "appearance1" >>), list)
          /\ map.env_appearance = 1 \/ Among(Setup!FallbackPackets, list)

Places == {"compress", "initialize", "environment", "appearance", "weather", "colors",
           "definitions", "ready", "failed", "aborted"}
FromEnvironment == {"environment", "appearance", "weather", "colors", "definitions", "ready"}
FromWeather     == {"weather", "colors", "definitions", "ready"}
FromColors      == {"colors", "definitions", "ready"}
FromDefinitions == {"definitions", "ready"}

ClientOK ==
  /\ version \in [FastMap : 0..1, ExtendedBlocks : 0..1, EnvMapAspect : 0..1,
                  EnvMapAppearance : 0..3, EnvWeatherType : 0..1, EnvColors : 0..1,
                  BlockDefinitions : 0..1]
  /\ map \in [block_array2 : BOOLEAN, env_aspect : BOOLEAN, env_appearance : 0..2,
              env_weather : BOOLEAN, env_colors : BOOLEAN, block_definitions : BOOLEAN,
              oversize : BOOLEAN, bad_colors : SUBSET Setup!ColorFields]
  /\ map.bad_colors # {} => map.env_colors

PacketsOK ==
  /\ sent \in Seq(Packet) /\ todo \in Seq(Packet)
  /\ \A k \in DOMAIN sent : Allowed(sent[k])
  /\ \A k \in DOMAIN todo : Allowed(todo[k])

\* What has been put in the list at each place of the code.
Progress ==
  /\ at \in {"compress", "initialize"} => Out = << >>
  /\ at \in FromEnvironment => Begun(Out)
  /\ (at = "appearance" /\ map.env_appearance > version.EnvMapAppearance) =>
       Among(Setup!FallbackPackets, Out) /\ version.EnvMapAspect > 0
  /\ at = "appearance" => ~map.env_aspect /\ map.env_appearance > 0
  /\ at \in FromWeather => Environment(Out)
  /\ (at \in FromColors /\ map.env_weather) =>
       Among(Setup!Packets("EnvWeatherType", << "weather" >>), Out)
  /\ (at \in FromDefinitions /\ map.env_colors) => Among(Setup!ColorPackets, Out)
  /\ (at \in FromEnvironment \cup {"initialize"} /\ map.block_array2) =>
       version.ExtendedBlocks > 0
  /\ at = "ready" => todo = << >> /\ (map.block_definitions => version.BlockDefinitions > 0)

SetupInv == ClientOK /\ at \in Places /\ PacketsOK /\ Progress /\ Setup!AbortCauses

-----------------------------------------------------------------------------
\* Packets that follow the level initialize packet, all of one extension.
Follow(packets, extension) ==
  /\ packets \in Seq(Packet)
  /\ \A k \in DOMAIN packets :
       /\ packets[k][1] = extension
       /\ packets[k][2] \notin Setup!LevelInitialize \cup {"appearance1", "appearance2"}

\* Packets of such contents are.
LEMMA PacketsFollow ==
  ASSUME NEW extension \in Extensions, NEW c \in Seq(Contents),
         \A k \in 1..Len(c) : c[k] \notin Setup!LevelInitialize \cup {"appearance1", "appearance2"}
  PROVE  Follow(Setup!Packets(extension, c), extension)
BY DEF Follow, Setup!Packets, Packet

\* The aspect packets are.
LEMMA AspectFollow == Follow(Setup!AspectPackets, "EnvMapAspect")
<1> DEFINE c == << "texture_url", "side_block", "edge_block", "edge_height", "clouds_height",
                   "clouds_speed", "weather_speed", "weather_fade", "exponential_fog",
                   "side_offset" >>
<1>1. c \in Seq(Contents)
  BY DEF Contents
<1>2. \A k \in 1..Len(c) : c[k] \notin Setup!LevelInitialize \cup {"appearance1", "appearance2"}
  BY DEF Setup!LevelInitialize
<1>3. "EnvMapAspect" \in Extensions
  BY DEF Extensions
<1>4. Setup!AspectPackets = Setup!Packets("EnvMapAspect", c)
  BY DEF Setup!AspectPackets
<1> HIDE DEF c
<1> QED BY <1>1, <1>2, <1>3, <1>4, PacketsFollow

\* The fallback packets are.
LEMMA FallbackFollow == Follow(Setup!FallbackPackets, "EnvMapAspect")
<1> DEFINE c == << "texture_url", "side_block", "edge_block", "edge_height", "clouds_height",
                   "max_view_distance" >>
<1>1. c \in Seq(Contents)
  BY DEF Contents
<1>2. \A k \in 1..Len(c) : c[k] \notin Setup!LevelInitialize \cup {"appearance1", "appearance2"}
  BY DEF Setup!LevelInitialize
<1>3. "EnvMapAspect" \in Extensions
  BY DEF Extensions
<1>4. Setup!FallbackPackets = Setup!Packets("EnvMapAspect", c)
  BY DEF Setup!FallbackPackets
<1> HIDE DEF c
<1> QED BY <1>1, <1>2, <1>3, <1>4, PacketsFollow

\* The packets of the colors are.
LEMMA ColorsFollow == Follow(Setup!ColorPackets, "EnvColors")
<1> DEFINE c == << "sky", "cloud", "fog", "ambient", "sunlight" >>
<1>1. c \in Seq(Contents)
  BY DEF Contents
<1>2. \A k \in 1..Len(c) : c[k] \notin Setup!LevelInitialize \cup {"appearance1", "appearance2"}
  BY DEF Setup!LevelInitialize
<1>3. "EnvColors" \in Extensions
  BY DEF Extensions
<1>4. Setup!ColorPackets = Setup!Packets("EnvColors", c)
  BY DEF Setup!ColorPackets
<1> HIDE DEF c
<1> QED BY <1>1, <1>2, <1>3, <1>4, PacketsFollow

\* Packets that follow may be sent to a client with their extension.
LEMMA FollowAllowed ==
  ASSUME NEW packets, NEW extension, Follow(packets, extension), version[extension] > 0
  PROVE  \A k \in DOMAIN packets :
           Allowed(packets[k]) /\ packets[k][2] \notin Setup!LevelInitialize
BY DEF Follow, Allowed

\* The weather packet is.
LEMMA WeatherFollow == Follow(Setup!Packets("EnvWeatherType", << "weather" >>), "EnvWeatherType")
<1> DEFINE c == << "weather" >>
<1>1. c \in Seq(Contents)
  BY DEF Contents
<1>2. \A k \in 1..Len(c) : c[k] \notin Setup!LevelInitialize \cup {"appearance1", "appearance2"}
  BY DEF Setup!LevelInitialize
<1>3. "EnvWeatherType" \in Extensions
  BY DEF Extensions
<1>4. Setup!Packets("EnvWeatherType", << "weather" >>) = Setup!Packets("EnvWeatherType", c)
  OBVIOUS
<1> HIDE DEF c
<1> QED BY <1>1, <1>2, <1>3, <1>4, PacketsFollow

\* A list that grows at its end keeps its packets.
LEMMA ConcatKeeps ==
  ASSUME NEW packets, NEW s \in Seq(Packet), NEW t \in Seq(Packet), Among(packets, s)
  PROVE  Among(packets, s \o t)
BY DEF Among

\* What is put at the end is in the list.
LEMMA ConcatAdds ==
  ASSUME NEW s \in Seq(Packet), NEW t \in Seq(Packet)
  PROVE  Among(t, s \o t)
<1> SUFFICES ASSUME NEW k \in DOMAIN t PROVE \E j \in DOMAIN (s \o t) : (s \o t)[j] = t[k]
  BY DEF Among
<1>1. Len(s) + k \in DOMAIN (s \o t) /\ (s \o t)[Len(s) + k] = t[k]
  OBVIOUS
<1> QED BY <1>1

\* A list goes on to begin with its only level initialize packet.
LEMMA ConcatBegun ==
  ASSUME NEW s \in Seq(Packet), NEW t \in Seq(Packet), Begun(s),
         \A k \in DOMAIN t : t[k][2] \notin Setup!LevelInitialize
  PROVE  Begun(s \o t)
BY DEF Begun

\* Sending the next packet does not change the list.
LEMMA SendKeepsOut ==
  ASSUME PacketsOK, Setup!Send
  PROVE  Out' = Out
<1>1. sent' = Append(sent, Head(todo)) /\ todo' = Tail(todo) /\ todo # << >>
  BY DEF Setup!Send
<1> QED BY <1>1 DEF Out, PacketsOK

\* Going on puts the packets of the next block at the end of the list.
LEMMA GoOnOut ==
  ASSUME PacketsOK, todo = << >>, NEW following, NEW packets \in Seq(Packet), Setup!GoOn(following, packets)
  PROVE  Out' = Out \o packets /\ Out \in Seq(Packet)
BY DEF Setup!GoOn, Out, PacketsOK

\* And keeps what is sent in order, if the packets may be sent.
LEMMA GoOnOK ==
  ASSUME ClientOK, PacketsOK, NEW following, NEW packets \in Seq(Packet), Setup!GoOn(following, packets),
         \A k \in DOMAIN packets : Allowed(packets[k])
  PROVE  ClientOK' /\ PacketsOK'
BY DEF Setup!GoOn, ClientOK, PacketsOK, Setup!client, Allowed

\* Going on with nothing to send leaves the list alone.
LEMMA GoOnNothing ==
  ASSUME ClientOK, PacketsOK, NEW following, Setup!GoOn(following, << >>)
  PROVE  ClientOK' /\ PacketsOK' /\ (todo = << >> => Out' = Out)
BY DEF Setup!GoOn, ClientOK, PacketsOK, Setup!client, Allowed, Out

\* Giving up keeps the invariant.
LEMMA FailKeepsInv ==
  ASSUME SetupInv, Setup!Stop("failed")
  PROVE  SetupInv'
<1>1. Setup!GoOn("failed", << >>)
  BY DEF Setup!Stop
<1>2. ClientOK' /\ PacketsOK'
  BY <1>1, GoOnNothing DEF SetupInv
<1>3. at' = "failed"
  BY <1>1 DEF Setup!GoOn
<1> QED BY <1>2, <1>3 DEF SetupInv, Progress, Setup!AbortCauses, Places, FromEnvironment,
           FromWeather, FromColors, FromDefinitions

\* The program ends for one of the causes.
LEMMA AbortKeepsInv ==
  ASSUME SetupInv, Setup!Stop("aborted"),
         \/ map.env_aspect /\ map.env_appearance = 0
         \/ version.EnvMapAppearance = 3
         \/ version.EnvMapAppearance = 0 /\ version.EnvMapAspect > 0
         \/ map.env_colors /\ map.bad_colors # {}
         \/ map.oversize /\ version.FastMap > 0
  PROVE  SetupInv'
<1>1. Setup!GoOn("aborted", << >>)
  BY DEF Setup!Stop
<1>2. ClientOK' /\ PacketsOK'
  BY <1>1, GoOnNothing DEF SetupInv
<1>3. at' = "aborted" /\ UNCHANGED << version, map >>
  BY <1>1 DEF Setup!GoOn, Setup!client
<1>4. Setup!AbortCauses'
  BY <1>3 DEF Setup!AbortCauses
<1> QED BY <1>2, <1>3, <1>4 DEF SetupInv, Progress, Places, FromEnvironment,
           FromWeather, FromColors, FromDefinitions

\* Sending a packet keeps the invariant.
LEMMA SendKeepsInv ==
  ASSUME SetupInv, Setup!Send
  PROVE  SetupInv'
<1>1. UNCHANGED << version, map, at >> /\ todo # << >>
      /\ sent' = Append(sent, Head(todo)) /\ todo' = Tail(todo)
  BY DEF Setup!Send, Setup!client
<1>2. Out' = Out
  BY SendKeepsOut DEF SetupInv
<1>3. PacketsOK'
  BY <1>1 DEF SetupInv, PacketsOK, Allowed
<1>4. at # "ready"
  BY <1>1 DEF SetupInv, Progress
<1>5. Progress'
  BY <1>1, <1>2, <1>4 DEF SetupInv, Progress, Environment
<1> QED BY <1>1, <1>3, <1>5 DEF SetupInv, ClientOK, Setup!AbortCauses

\* From one block to the next, past the level initialize packet: the list keeps
\* what is in it and has no second one.
LEMMA GoOnKeeps ==
  ASSUME SetupInv, NEW following, NEW packets \in Seq(Packet), todo = << >>,
         at \in FromEnvironment, Setup!GoOn(following, packets),
         \A k \in DOMAIN packets : Allowed(packets[k]) /\ packets[k][2] \notin Setup!LevelInitialize
  PROVE  /\ ClientOK' /\ PacketsOK' /\ Begun(Out') /\ Among(packets, Out')
         /\ \A q : Among(q, Out) => Among(q, Out')
<1>1. Out' = Out \o packets /\ Out \in Seq(Packet)
  BY GoOnOut DEF SetupInv
<1>2. ClientOK' /\ PacketsOK'
  BY GoOnOK DEF SetupInv
<1>3. Begun(Out \o packets)
  BY <1>1, ConcatBegun DEF SetupInv, Progress
<1> QED BY <1>1, <1>2, <1>3, ConcatAdds, ConcatKeeps

\* The places of the code and what is known there are told apart by name.
LEMMA CompressKeepsInv ==
  ASSUME SetupInv, Setup!Compress
  PROVE  SetupInv'
<1>1. CASE Setup!Stop("failed")
  BY <1>1, FailKeepsInv
<1>2. CASE (map.block_array2 => version.ExtendedBlocks > 0) /\ Setup!GoOn("initialize", << >>)
  <2>1. at = "compress" /\ todo = << >>
    BY DEF Setup!Compress, Setup!At
  <2>2. ClientOK' /\ PacketsOK' /\ Out' = Out
    BY <1>2, <2>1, GoOnNothing DEF SetupInv
  <2>3. at' = "initialize" /\ UNCHANGED << version, map >>
    BY <1>2 DEF Setup!GoOn, Setup!client
  <2>4. Progress'
    BY <1>2, <2>1, <2>2, <2>3 DEF SetupInv, Progress, FromEnvironment, FromWeather,
       FromColors, FromDefinitions
  <2> QED BY <2>2, <2>3, <2>4 DEF SetupInv, Places, Setup!AbortCauses
<1> QED BY <1>1, <1>2 DEF Setup!Compress

\* The level initialize packet is the first.
LEMMA InitializeKeepsInv ==
  ASSUME SetupInv, Setup!Initialize
  PROVE  SetupInv'
<1>0. CASE version.FastMap > 0 /\ map.oversize
  BY <1>0, AbortKeepsInv DEF Setup!Initialize, SetupInv, ClientOK
<1> SUFFICES ASSUME ~(version.FastMap > 0 /\ map.oversize)
             PROVE  SetupInv'
  BY <1>0
<1>1. at = "initialize" /\ todo = << >>
  BY DEF Setup!Initialize, Setup!At
<1>2. PICK packets \in Seq(Packet) :
        /\ Setup!GoOn("environment", packets)
        /\ Len(packets) = 1 /\ Allowed(packets[1]) /\ packets[1][2] \in Setup!LevelInitialize
  <2>1. CASE version.FastMap > 0
    <3> DEFINE p == Setup!Packets("FastMap", << "level_initialize2" >>)
    <3>1. p \in Seq(Packet) /\ Len(p) = 1 /\ p[1] = << "FastMap", "level_initialize2" >>
      BY DEF Setup!Packets, Packet, Extensions, Contents
    <3>2. Setup!GoOn("environment", p)
      BY <2>1 DEF Setup!Initialize, SetupInv, ClientOK
    <3>3. Allowed(p[1])
      BY <2>1, <3>1 DEF Allowed
    <3> QED BY <3>1, <3>2, <3>3 DEF Setup!LevelInitialize
  <2>2. CASE ~(version.FastMap > 0)
    <3> DEFINE p == Setup!Packets("none", << "level_initialize" >>)
    <3>1. p \in Seq(Packet) /\ Len(p) = 1 /\ p[1] = << "none", "level_initialize" >>
      BY DEF Setup!Packets, Packet, Extensions, Contents
    <3>2. Setup!GoOn("environment", p)
      BY <2>2 DEF Setup!Initialize, SetupInv, ClientOK
    <3>3. Allowed(p[1])
      BY <3>1 DEF Allowed
    <3> QED BY <3>1, <3>2, <3>3 DEF Setup!LevelInitialize
  <2> QED BY <2>1, <2>2
<1>3. ClientOK' /\ PacketsOK'
  BY <1>2, GoOnOK DEF SetupInv
<1>4. Out' = packets
  BY <1>1, <1>2, GoOnOut DEF SetupInv, Progress
<1>5. Begun(Out')
  BY <1>2, <1>4 DEF Begun
<1>6. at' = "environment" /\ UNCHANGED << version, map >>
  BY <1>2 DEF Setup!GoOn, Setup!client
<1>7. Progress'
  BY <1>1, <1>5, <1>6 DEF SetupInv, Progress, FromEnvironment, FromWeather, FromColors,
     FromDefinitions
<1> QED BY <1>3, <1>6, <1>7 DEF SetupInv, Places, Setup!AbortCauses

\* All of the aspect packets are sent, or none.
LEMMA AspectKeepsInv ==
  ASSUME SetupInv, Setup!Aspect
  PROVE  SetupInv'
<1>1. at = "environment" /\ todo = << >> /\ map.env_aspect
  BY DEF Setup!Aspect, Setup!At
<1>2. CASE version.EnvMapAspect = 0
  BY <1>2, FailKeepsInv DEF Setup!Aspect
<1>3. CASE version.EnvMapAspect # 0 /\ map.env_appearance = 0
  BY <1>1, <1>3, AbortKeepsInv DEF Setup!Aspect
<1>4. CASE version.EnvMapAspect # 0 /\ map.env_appearance # 0
  <2>1. Setup!GoOn("weather", Setup!AspectPackets)
    BY <1>4 DEF Setup!Aspect
  <2>2. version["EnvMapAspect"] > 0
    BY <1>4 DEF SetupInv, ClientOK
  <2>3. /\ Setup!AspectPackets \in Seq(Packet)
        /\ \A k \in DOMAIN Setup!AspectPackets :
             Allowed(Setup!AspectPackets[k]) /\ Setup!AspectPackets[k][2] \notin Setup!LevelInitialize
    BY Zenon, <2>2, AspectFollow, FollowAllowed DEF Follow
  <2>4. /\ ClientOK' /\ PacketsOK' /\ Begun(Out') /\ Among(Setup!AspectPackets, Out')
    BY <1>1, <2>1, <2>3, GoOnKeeps DEF FromEnvironment
  <2>5. at' = "weather" /\ UNCHANGED << version, map >>
    BY <2>1 DEF Setup!GoOn, Setup!client
  <2>6. Environment(Out)'
    BY <1>1, <2>4, <2>5 DEF Environment
  <2>7. Progress'
    BY <1>1, <2>4, <2>5, <2>6 DEF SetupInv, Progress, FromEnvironment, FromWeather,
       FromColors, FromDefinitions
  <2> QED BY <2>4, <2>5, <2>7 DEF SetupInv, Places, Setup!AbortCauses
<1> QED BY <1>2, <1>3, <1>4

\* The fallback is put in the list when the map's version is newer.
LEMMA AppearanceKeepsInv ==
  ASSUME SetupInv, Setup!Appearance
  PROVE  SetupInv'
<1>1. at = "environment" /\ todo = << >> /\ ~map.env_aspect /\ map.env_appearance > 0
  BY DEF Setup!Appearance, Setup!At
<1>2. CASE map.env_appearance <= version.EnvMapAppearance
  <2>1. Setup!GoOn("appearance", << >>)
    BY <1>2 DEF Setup!Appearance
  <2>2. ClientOK' /\ PacketsOK' /\ Out' = Out
    BY <1>1, <2>1, GoOnNothing DEF SetupInv
  <2>3. at' = "appearance" /\ UNCHANGED << version, map >>
    BY <2>1 DEF Setup!GoOn, Setup!client
  <2>4. ~(map.env_appearance > version.EnvMapAppearance)
    BY <1>2 DEF SetupInv, ClientOK
  <2>5. Progress'
    BY <1>1, <2>2, <2>3, <2>4 DEF SetupInv, Progress, FromEnvironment, FromWeather,
       FromColors, FromDefinitions
  <2> QED BY <2>2, <2>3, <2>5 DEF SetupInv, Places, Setup!AbortCauses
<1>3. CASE ~(map.env_appearance <= version.EnvMapAppearance) /\ version.EnvMapAspect = 0
  BY <1>3, FailKeepsInv DEF Setup!Appearance
<1>4. CASE ~(map.env_appearance <= version.EnvMapAppearance) /\ version.EnvMapAspect # 0
  <2>1. Setup!GoOn("appearance", Setup!FallbackPackets)
    BY <1>4 DEF Setup!Appearance
  <2>2. version["EnvMapAspect"] > 0
    BY <1>4 DEF SetupInv, ClientOK
  <2>3. /\ Setup!FallbackPackets \in Seq(Packet)
        /\ \A k \in DOMAIN Setup!FallbackPackets :
             Allowed(Setup!FallbackPackets[k]) /\ Setup!FallbackPackets[k][2] \notin Setup!LevelInitialize
    BY Zenon, <2>2, FallbackFollow, FollowAllowed DEF Follow
  <2>4. /\ ClientOK' /\ PacketsOK' /\ Begun(Out') /\ Among(Setup!FallbackPackets, Out')
    BY <1>1, <2>1, <2>3, GoOnKeeps DEF FromEnvironment
  <2>5. at' = "appearance" /\ UNCHANGED << version, map >>
    BY <2>1 DEF Setup!GoOn, Setup!client
  <2>6. Progress'
    BY <1>1, <2>2, <2>4, <2>5 DEF SetupInv, Progress, FromEnvironment, FromWeather,
       FromColors, FromDefinitions
  <2> QED BY <2>4, <2>5, <2>6 DEF SetupInv, Places, Setup!AbortCauses
<1> QED BY <1>2, <1>3, <1>4

\* The appearance packet is of the client's version, behind the fallback if the
\* map's version is newer.
LEMMA AppearancePacketKeepsInv ==
  ASSUME SetupInv, Setup!AppearancePacket
  PROVE  SetupInv'
<1>1. at = "appearance" /\ todo = << >> /\ ~map.env_aspect /\ map.env_appearance > 0
  BY DEF Setup!AppearancePacket, Setup!At, SetupInv, Progress
<1>2. CASE version.EnvMapAppearance = 2
  <2> DEFINE packets == Setup!Packets("EnvMapAppearance", << "appearance2" >>)
  <2>1. Setup!GoOn("weather", packets)
    BY <1>2 DEF Setup!AppearancePacket
  <2>2. packets \in Seq(Packet) /\ Len(packets) = 1
        /\ packets[1] = << "EnvMapAppearance", "appearance2" >>
    BY DEF Setup!Packets, Packet, Extensions, Contents
  <2>3. Allowed(packets[1]) /\ packets[1][2] \notin Setup!LevelInitialize
    BY <1>2, <2>2 DEF Allowed, Setup!LevelInitialize
  <2>4. /\ ClientOK' /\ PacketsOK' /\ Begun(Out') /\ Among(packets, Out')
        /\ \A q : Among(q, Out) => Among(q, Out')
    <3> HIDE DEF packets
    <3> QED BY <1>1, <2>1, <2>2, <2>3, GoOnKeeps DEF FromEnvironment
  <2>5. at' = "weather" /\ UNCHANGED << version, map >>
    BY <2>1 DEF Setup!GoOn, Setup!client
  <2>6. Environment(Out)'
    <3>1. map.env_appearance = 1 \/ Among(Setup!FallbackPackets, Out)' \/ 2 = 2
      BY <1>1, <1>2, <2>4 DEF SetupInv, Progress, ClientOK
    <3>2. Among(Setup!Packets("EnvMapAppearance", << "appearance2" >>), Out')
      BY <2>4
    <3> QED BY <1>1, <2>5, <3>1, <3>2 DEF Environment
  <2>7. Progress'
    BY <1>1, <2>4, <2>5, <2>6 DEF SetupInv, Progress, FromEnvironment, FromWeather,
       FromColors, FromDefinitions
  <2> QED BY <2>4, <2>5, <2>7 DEF SetupInv, Places, Setup!AbortCauses
<1>3. CASE version.EnvMapAppearance = 1
  <2> DEFINE packets == Setup!Packets("EnvMapAppearance", << "appearance1" >>)
  <2>1. Setup!GoOn("weather", packets)
    BY <1>3 DEF Setup!AppearancePacket
  <2>2. packets \in Seq(Packet) /\ Len(packets) = 1
        /\ packets[1] = << "EnvMapAppearance", "appearance1" >>
    BY DEF Setup!Packets, Packet, Extensions, Contents
  <2>3. Allowed(packets[1]) /\ packets[1][2] \notin Setup!LevelInitialize
    BY <1>3, <2>2 DEF Allowed, Setup!LevelInitialize
  <2>4. /\ ClientOK' /\ PacketsOK' /\ Begun(Out') /\ Among(packets, Out')
        /\ \A q : Among(q, Out) => Among(q, Out')
    <3> HIDE DEF packets
    <3> QED BY <1>1, <2>1, <2>2, <2>3, GoOnKeeps DEF FromEnvironment
  <2>5. at' = "weather" /\ UNCHANGED << version, map >>
    BY <2>1 DEF Setup!GoOn, Setup!client
  <2>6. Environment(Out)'
    <3>1. map.env_appearance = 1 \/ Among(Setup!FallbackPackets, Out)' \/ 1 = 2
      BY <1>1, <1>3, <2>4 DEF SetupInv, Progress, ClientOK
    <3>2. Among(Setup!Packets("EnvMapAppearance", << "appearance1" >>), Out')
      BY <2>4
    <3> QED BY <1>1, <2>5, <3>1, <3>2 DEF Environment
  <2>7. Progress'
    BY <1>1, <2>4, <2>5, <2>6 DEF SetupInv, Progress, FromEnvironment, FromWeather,
       FromColors, FromDefinitions
  <2> QED BY <2>4, <2>5, <2>7 DEF SetupInv, Places, Setup!AbortCauses
<1>4. CASE version.EnvMapAppearance \in {0, 3}
  <2>1. Setup!Stop("aborted")
    BY <1>4 DEF Setup!AppearancePacket
  <2>2. version.EnvMapAppearance = 0 => version.EnvMapAspect > 0
    BY <1>1 DEF SetupInv, Progress
  <2> QED BY <1>4, <2>1, <2>2, AbortKeepsInv
<1> QED BY <1>2, <1>3, <1>4 DEF SetupInv, ClientOK

\* A map without an environment of its own.
LEMMA NoEnvironmentKeepsInv ==
  ASSUME SetupInv, Setup!NoEnvironment
  PROVE  SetupInv'
<1>1. at = "environment" /\ todo = << >> /\ ~map.env_aspect /\ map.env_appearance = 0
      /\ Setup!GoOn("weather", << >>)
  BY DEF Setup!NoEnvironment, Setup!At
<1>2. ClientOK' /\ PacketsOK' /\ Out' = Out
  BY <1>1, GoOnNothing DEF SetupInv
<1>3. at' = "weather" /\ UNCHANGED << version, map >>
  BY <1>1 DEF Setup!GoOn, Setup!client
<1>4. Environment(Out)'
  BY <1>1, <1>3 DEF Environment
<1>5. Progress'
  BY <1>1, <1>2, <1>3, <1>4 DEF SetupInv, Progress, FromEnvironment, FromWeather,
     FromColors, FromDefinitions
<1> QED BY <1>2, <1>3, <1>5 DEF SetupInv, Places, Setup!AbortCauses

\* The weather is sent, not wanted, or refused.
LEMMA WeatherKeepsInv ==
  ASSUME SetupInv, Setup!Weather
  PROVE  SetupInv'
<1>1. at = "weather" /\ todo = << >>
  BY DEF Setup!Weather, Setup!At
<1>2. CASE ~map.env_weather
  <2>1. Setup!GoOn("colors", << >>)
    BY <1>2 DEF Setup!Weather
  <2>2. ClientOK' /\ PacketsOK' /\ Out' = Out
    BY <1>1, <2>1, GoOnNothing DEF SetupInv
  <2>3. at' = "colors" /\ UNCHANGED << version, map >>
    BY <2>1 DEF Setup!GoOn, Setup!client
  <2>4. Environment(Out)' <=> Environment(Out)
    BY <2>2, <2>3 DEF Environment
  <2>5. Progress'
    BY <1>1, <1>2, <2>2, <2>3, <2>4 DEF SetupInv, Progress, FromEnvironment, FromWeather,
       FromColors, FromDefinitions
  <2> QED BY <2>2, <2>3, <2>5 DEF SetupInv, Places, Setup!AbortCauses
<1>3. CASE map.env_weather /\ version.EnvWeatherType = 0
  BY <1>3, FailKeepsInv DEF Setup!Weather
<1>4. CASE map.env_weather /\ version.EnvWeatherType # 0
  <2> DEFINE packets == Setup!Packets("EnvWeatherType", << "weather" >>)
  <2>1. Setup!GoOn("colors", packets)
    BY <1>4 DEF Setup!Weather
  <2>2. version["EnvWeatherType"] > 0
    BY <1>4 DEF SetupInv, ClientOK
  <2>3. /\ packets \in Seq(Packet)
        /\ \A k \in DOMAIN packets : Allowed(packets[k]) /\ packets[k][2] \notin Setup!LevelInitialize
    BY Zenon, <2>2, WeatherFollow, FollowAllowed DEF Follow
  <2>4. /\ ClientOK' /\ PacketsOK' /\ Begun(Out') /\ Among(packets, Out')
        /\ \A q : Among(q, Out) => Among(q, Out')
    <3> HIDE DEF packets
    <3> QED BY <1>1, <2>1, <2>3, GoOnKeeps DEF FromEnvironment
  <2>5. at' = "colors" /\ UNCHANGED << version, map >>
    BY <2>1 DEF Setup!GoOn, Setup!client
  <2>6. Environment(Out) => Environment(Out)'
    BY <2>4, <2>5 DEF Environment
  <2>7. Progress'
    BY <1>1, <2>4, <2>5, <2>6 DEF SetupInv, Progress, FromEnvironment, FromWeather,
       FromColors, FromDefinitions
  <2> QED BY <2>4, <2>5, <2>7 DEF SetupInv, Places, Setup!AbortCauses
<1> QED BY <1>2, <1>3, <1>4

\* The colors are sent, not wanted, or refused.
LEMMA ColorsKeepsInv ==
  ASSUME SetupInv, Setup!Colors
  PROVE  SetupInv'
<1>1. at = "colors" /\ todo = << >>
  BY DEF Setup!Colors, Setup!At
<1>2. CASE ~map.env_colors
  <2>1. Setup!GoOn("definitions", << >>)
    BY <1>2 DEF Setup!Colors
  <2>2. ClientOK' /\ PacketsOK' /\ Out' = Out
    BY <1>1, <2>1, GoOnNothing DEF SetupInv
  <2>3. at' = "definitions" /\ UNCHANGED << version, map >>
    BY <2>1 DEF Setup!GoOn, Setup!client
  <2>4. Environment(Out)' <=> Environment(Out)
    BY <2>2, <2>3 DEF Environment
  <2>5. Progress'
    BY <1>1, <1>2, <2>2, <2>3, <2>4 DEF SetupInv, Progress, FromEnvironment, FromWeather,
       FromColors, FromDefinitions
  <2> QED BY <2>2, <2>3, <2>5 DEF SetupInv, Places, Setup!AbortCauses
<1>3. CASE map.env_colors /\ version.EnvColors = 0
  BY <1>3, FailKeepsInv DEF Setup!Colors
<1>4. CASE map.env_colors /\ version.EnvColors # 0
  <2> DEFINE packets == Setup!ColorPackets
  <2>1. Setup!GoOn("definitions", packets)
    BY <1>4 DEF Setup!Colors
  <2>2. version["EnvColors"] > 0
    BY <1>4 DEF SetupInv, ClientOK
  <2>3. /\ packets \in Seq(Packet)
        /\ \A k \in DOMAIN packets : Allowed(packets[k]) /\ packets[k][2] \notin Setup!LevelInitialize
    BY Zenon, <2>2, ColorsFollow, FollowAllowed DEF Follow
  <2>4. /\ ClientOK' /\ PacketsOK' /\ Begun(Out') /\ Among(packets, Out')
        /\ \A q : Among(q, Out) => Among(q, Out')
    <3> HIDE DEF packets
    <3> QED BY <1>1, <2>1, <2>3, GoOnKeeps DEF FromEnvironment
  <2>5. at' = "definitions" /\ UNCHANGED << version, map >>
    BY <2>1 DEF Setup!GoOn, Setup!client
  <2>6. Environment(Out) => Environment(Out)'
    BY <2>4, <2>5 DEF Environment
  <2>7. Progress'
    BY <1>1, <2>4, <2>5, <2>6 DEF SetupInv, Progress, FromEnvironment, FromWeather,
       FromColors, FromDefinitions
  <2> QED BY <2>4, <2>5, <2>7 DEF SetupInv, Places, Setup!AbortCauses
<1> QED BY <1>2, <1>3, <1>4

\* The transfer of the blocks is scheduled, or the map refused.
LEMMA DefinitionsKeepsInv ==
  ASSUME SetupInv, Setup!Definitions
  PROVE  SetupInv'
<1>1. CASE Setup!Stop("failed")
  BY <1>1, FailKeepsInv
<1>2. CASE (map.block_definitions => version.BlockDefinitions > 0) /\ Setup!GoOn("ready", << >>)
  <2>1. at = "definitions" /\ todo = << >>
    BY DEF Setup!Definitions, Setup!At
  <2>2. ClientOK' /\ PacketsOK' /\ Out' = Out
    BY <1>2, <2>1, GoOnNothing DEF SetupInv
  <2>3. at' = "ready" /\ todo' = << >> /\ UNCHANGED << version, map >>
    BY <1>2 DEF Setup!GoOn, Setup!client
  <2>4. Environment(Out)' <=> Environment(Out)
    BY <2>2, <2>3 DEF Environment
  <2>5. Progress'
    BY <1>2, <2>1, <2>2, <2>3, <2>4 DEF SetupInv, Progress, FromEnvironment, FromWeather,
       FromColors, FromDefinitions
  <2> QED BY <2>2, <2>3, <2>5 DEF SetupInv, Places, Setup!AbortCauses
<1> QED BY <1>1, <1>2 DEF Setup!Definitions

\* Nothing is sent before the map is loaded.
LEMMA InitSetupInv ==
  ASSUME Setup!Init
  PROVE  SetupInv
<1>1. ClientOK
  BY DEF Setup!Init, ClientOK
<1>2. sent = << >> /\ todo = << >> /\ at = "compress"
  BY DEF Setup!Init
<1>3. Out = << >>
  BY <1>2 DEF Out
<1> QED BY <1>1, <1>2, <1>3 DEF SetupInv, PacketsOK, Progress, Setup!AbortCauses, Places,
           FromEnvironment, FromWeather, FromColors, FromDefinitions

\* Every step keeps the invariant.
LEMMA NextSetupInv ==
  ASSUME SetupInv, [Setup!Next]_Setup!vars
  PROVE  SetupInv'
<1>1. CASE UNCHANGED Setup!vars
  <2>1. version' = version /\ map' = map /\ at' = at /\ todo' = todo /\ sent' = sent
    BY <1>1, Zenon DEF Setup!vars
  <2>2. ClientOK' /\ Setup!AbortCauses' /\ at' \in Places
    BY <2>1, Zenon DEF SetupInv, ClientOK, Setup!AbortCauses
  <2>3. PacketsOK'
    BY <2>1, Zenon DEF SetupInv, PacketsOK, Allowed
  <2>4. Out' = Out
    BY <2>1, Zenon DEF Out
  <2>5. Progress'
    BY <2>1, <2>4 DEF SetupInv, Progress, Environment
  <2> QED BY <2>2, <2>3, <2>5, Zenon DEF SetupInv
<1>2. CASE Setup!SendFails
  BY <1>2, FailKeepsInv DEF Setup!SendFails
<1>3. CASE Setup!SendAborts
  <2>1. Setup!Stop("aborted") /\ map.bad_colors # {}
    BY <1>3, Zenon DEF Setup!SendAborts, Setup!Asserts
  <2>2. map.env_colors
    BY <2>1, Zenon DEF SetupInv, ClientOK
  <2> QED BY <2>1, <2>2, AbortKeepsInv
<1> QED BY <1>1, <1>2, <1>3, SendKeepsInv, CompressKeepsInv, InitializeKeepsInv, AspectKeepsInv,
           AppearanceKeepsInv, AppearancePacketKeepsInv, NoEnvironmentKeepsInv,
           WeatherKeepsInv, ColorsKeepsInv, DefinitionsKeepsInv DEF Setup!Next

\* When the transfer begins the list is what has been sent.
LEMMA InvReady ==
  ASSUME SetupInv
  PROVE  Setup!ReadyComplete
<1> SUFFICES ASSUME at = "ready" PROVE Setup!ReadyComplete
  BY DEF Setup!ReadyComplete
<1>1. Out = sent
  BY DEF SetupInv, Progress, Out, PacketsOK
<1>2. Begun(sent) /\ Environment(sent)
  BY <1>1 DEF SetupInv, Progress, FromEnvironment, FromWeather
<1>3. /\ map.env_weather => Among(Setup!Packets("EnvWeatherType", << "weather" >>), sent)
      /\ map.env_colors => Among(Setup!ColorPackets, sent)
      /\ map.block_array2 => version.ExtendedBlocks > 0
      /\ map.block_definitions => version.BlockDefinitions > 0
  BY <1>1 DEF SetupInv, Progress, FromEnvironment, FromColors, FromDefinitions
<1>4. \A packets : Setup!Received(packets) <=> Among(packets, sent)
  BY DEF Setup!Received, Among
<1> QED BY <1>2, <1>3, <1>4 DEF Setup!ReadyComplete, Begun, Environment

\* A client is only ever sent packets of extensions that it negotiated.
THEOREM OnlyNegotiatedSent == Setup!Spec => []Setup!OnlyNegotiated
<1>1. SetupInv => Setup!OnlyNegotiated
  BY DEF SetupInv, PacketsOK, Setup!OnlyNegotiated, Allowed
<1> QED BY <1>1, InitSetupInv, NextSetupInv, PTL DEF Setup!Spec

\* When the blocks begin the client has the level initialize packet first and all
\* of the map's environment behind it.
THEOREM BlocksFollowEnvironment == Setup!Spec => []Setup!ReadyComplete
BY InitSetupInv, NextSetupInv, InvReady, PTL DEF Setup!Spec

\* tc_send_map_task2 ends the program, by an assertion or by a null pointer that
\* it follows, for no more than the five causes.
THEOREM AbortsExplained == Setup!Spec => []Setup!AbortCauses
<1>1. SetupInv => Setup!AbortCauses
  BY DEF SetupInv
<1> QED BY <1>1, InitSetupInv, NextSetupInv, PTL DEF Setup!Spec

-----------------------------------------------------------------------------
(***************************************************************************)
(* JoinRouter, for any sessions and joinables                              *)
(***************************************************************************)

CONSTANTS Sessions, Joinables, default_joinable, NoJoinable, Routes

VARIABLES connected, current_joinable, members, join, joinable, leaving, overlapped, rerouted

Router == INSTANCE JoinRouter

RouterTypes ==
  /\ connected \in [Sessions -> BOOLEAN]
  /\ current_joinable \in [Sessions -> Joinables \cup {NoJoinable}]
  /\ members \in [Joinables -> SUBSET Sessions]
  /\ join \in [Sessions -> {"none", "attempt", "default", "store", "kick"}]
  /\ joinable \in [Sessions -> Joinables \cup {NoJoinable}]
  /\ leaving \in [Sessions -> {"none", "left", "forgotten"}]
  /\ \A s \in Sessions : join[s] = "attempt" => joinable[s] \in Joinables

\* The session is in k, when that is a joinable, and in no other.
InOnly(s, k) == \A j \in Joinables : s \in members[j] <=> j = k

\* Where a session is at every point of its way: nowhere from the moment it leaves
\* a joinable to the moment it is taken in, and connected all the way.
WayOK(s) ==
  /\ leaving[s] # "none" => join[s] = "none" /\ connected[s] /\ InOnly(s, NoJoinable)
  /\ leaving[s] = "forgotten" => current_joinable[s] = NoJoinable
  /\ join[s] \in {"attempt", "default", "kick"} => connected[s] /\ InOnly(s, NoJoinable)
  /\ join[s] = "store" => connected[s] /\ InOnly(s, joinable[s])
  /\ join[s] = "none" /\ leaving[s] = "none" => InOnly(s, current_joinable[s])
  /\ ~connected[s] => current_joinable[s] = NoJoinable

\* The inductive invariant.
RouterInv ==
  /\ RouterTypes
  /\ \A s \in Sessions \ (overlapped \cup rerouted) : WayOK(s)

\* A step of the session s, which leaves the others where they are.
StepOf(s) ==
  /\ \A t \in Sessions \ {s} :
       /\ connected'[t] = connected[t] /\ current_joinable'[t] = current_joinable[t]
       /\ join'[t] = join[t] /\ joinable'[t] = joinable[t] /\ leaving'[t] = leaving[t]
       /\ \A j \in Joinables : t \in members'[j] <=> t \in members[j]
  /\ overlapped \subseteq overlapped' /\ rerouted \subseteq rerouted'

\* So only that session is to be looked at.
LEMMA StepOfOne ==
  ASSUME RouterInv, NEW s \in Sessions, StepOf(s), RouterTypes',
         s \notin overlapped' \cup rerouted' => WayOK(s)'
  PROVE  RouterInv'
<1>1. ASSUME NEW t \in Sessions \ {s}, t \notin overlapped' \cup rerouted' PROVE WayOK(t)'
  <2>1. WayOK(t)
    BY <1>1 DEF StepOf, RouterInv
  <2>2. \A k : InOnly(t, k) => InOnly(t, k)'
    BY DEF StepOf, InOnly
  <2> QED BY <2>1, <2>2 DEF StepOf, WayOK, InOnly
<1> QED BY <1>1 DEF RouterInv

\* Leaving takes a session out of the one joinable that has it, and nobody else
\* out of any.
LEMMA LeftExact ==
  ASSUME Router!RouterConstants, RouterTypes, NEW s \in Sessions
  PROVE  /\ Router!Left(s) \in [Joinables -> SUBSET Sessions]
         /\ InOnly(s, current_joinable[s]) \/ InOnly(s, NoJoinable) =>
              \A j \in Joinables : s \notin Router!Left(s)[j]
         /\ \A t \in Sessions \ {s}, j \in Joinables : t \in Router!Left(s)[j] <=> t \in members[j]
BY DEF Router!RouterConstants, RouterTypes, InOnly, Router!Left

\* A session that is taken in is in the joinable that its join is about, or was
\* handed on.
LEMMA TakenInKeepsInv ==
  ASSUME Router!RouterConstants, RouterInv, NEW s \in Sessions, NEW j \in Joinables,
         join[s] \in {"attempt", "default"}, Router!TakenIn(s, j)
  PROVE  RouterInv'
<1>1. PICK joined \in Routes[j] :
        /\ members' = [members EXCEPT ![joined] = @ \cup {s}]
        /\ rerouted' = IF joined = j THEN rerouted ELSE rerouted \cup {s}
  BY Zenon DEF Router!TakenIn
<1>2. /\ join' = [join EXCEPT ![s] = "store"] /\ joinable' = [joinable EXCEPT ![s] = j]
      /\ UNCHANGED << connected, current_joinable, leaving, overlapped >>
  BY DEF Router!TakenIn, Router!GoTo
<1>3. joined \in Joinables
  BY DEF Router!RouterConstants
<1>4. RouterTypes'
  BY <1>1, <1>2, <1>3 DEF RouterInv, RouterTypes
<1>5. StepOf(s)
  BY <1>1, <1>2, <1>3 DEF RouterInv, RouterTypes, StepOf
<1>6. ASSUME s \notin overlapped' \cup rerouted' PROVE WayOK(s)'
  <2>1. WayOK(s) /\ joined = j
    BY <1>1, <1>2, <1>6 DEF RouterInv
  <2>2. connected[s] /\ InOnly(s, NoJoinable) /\ leaving[s] = "none"
    BY <2>1 DEF WayOK
  <2>3. \A k \in Joinables : s \in members'[k] <=> k = j
    BY <1>1, <1>3, <2>1, <2>2 DEF RouterInv, RouterTypes, InOnly, Router!RouterConstants
  <2>4. join'[s] = "store" /\ joinable'[s] = j /\ connected'[s] /\ leaving'[s] = "none"
    BY Zenon, <1>2, <2>2 DEF RouterInv, RouterTypes
  <2> QED BY Zenon, <2>3, <2>4 DEF WayOK, InOnly
<1> QED BY <1>4, <1>5, <1>6, StepOfOne

\* A session that is refused is nowhere, as before.
LEMMA RefusedKeepsInv ==
  ASSUME Router!RouterConstants, RouterInv, NEW s \in Sessions, NEW place \in {"default", "kick"},
         join[s] \in {"attempt", "default"}, Router!Refused(s, place)
  PROVE  RouterInv'
<1>1. /\ join' = [join EXCEPT ![s] = place] /\ joinable' = [joinable EXCEPT ![s] = joinable[s]]
      /\ UNCHANGED << connected, current_joinable, members, leaving, overlapped, rerouted >>
  BY DEF Router!Refused, Router!GoTo
<1>2. RouterTypes' /\ StepOf(s)
  BY <1>1 DEF RouterInv, RouterTypes, StepOf
<1>3. ASSUME s \notin overlapped' \cup rerouted' PROVE WayOK(s)'
  <2>1. WayOK(s)
    BY <1>1, <1>3 DEF RouterInv
  <2> QED BY <1>1, <2>1 DEF WayOK, InOnly, RouterInv, RouterTypes
<1> QED BY <1>2, <1>3, StepOfOne

\* No session is in a joinable at first.
LEMMA InitRouterInv ==
  ASSUME Router!RouterConstants, Router!Init
  PROVE  RouterInv
<1>1. RouterTypes
  BY DEF Router!Init, RouterTypes
<1>2. ASSUME NEW s \in Sessions PROVE WayOK(s)
  BY DEF Router!Init, WayOK, InOnly, Router!RouterConstants
<1> QED BY <1>1, <1>2 DEF RouterInv

\* The three steps of disconnect_session.
LEMMA DisconnectKeepsInv ==
  ASSUME Router!RouterConstants, RouterInv, NEW s \in Sessions, Router!disconnect_session(s)
  PROVE  RouterInv'
<1>1. CASE Router!DisconnectLeave(s)
  <2>1. /\ members' = Router!Left(s) /\ leaving' = [leaving EXCEPT ![s] = "left"]
        /\ overlapped' = IF join[s] = "none" THEN overlapped ELSE overlapped \cup {s}
        /\ UNCHANGED << connected, current_joinable, join, joinable, rerouted >>
        /\ connected[s] /\ leaving[s] = "none"
    BY <1>1 DEF Router!DisconnectLeave
  <2>2. RouterTypes' /\ StepOf(s)
    BY <2>1, LeftExact DEF RouterInv, RouterTypes, StepOf
  <2>3. ASSUME s \notin overlapped' \cup rerouted' PROVE WayOK(s)'
    <3>1. WayOK(s) /\ join[s] = "none"
      BY Zenon, <2>1, <2>3 DEF RouterInv
    <3>2. InOnly(s, current_joinable[s])
      BY <2>1, <3>1 DEF WayOK
    <3>3. \A j \in Joinables : s \notin members'[j]
      BY <2>1, <3>2, LeftExact DEF RouterInv
    <3>4. InOnly(s, NoJoinable)'
      BY <3>3 DEF InOnly, Router!RouterConstants
    <3>5. leaving'[s] = "left" /\ join'[s] = "none" /\ connected'[s]
      BY <2>1, <3>1 DEF RouterInv, RouterTypes
    <3> QED BY <3>4, <3>5 DEF WayOK
  <2> QED BY <2>2, <2>3, StepOfOne
<1>2. CASE Router!DisconnectForget(s)
  <2>1. RouterTypes' /\ StepOf(s)
    BY <1>2 DEF Router!DisconnectForget, RouterInv, RouterTypes, StepOf
  <2>2. ASSUME s \notin overlapped' \cup rerouted' PROVE WayOK(s)'
    <3>1. WayOK(s)
      BY <1>2, <2>2 DEF Router!DisconnectForget, RouterInv
    <3> QED BY <1>2, <3>1 DEF Router!DisconnectForget, WayOK, InOnly, RouterInv, RouterTypes
  <2> QED BY <2>1, <2>2, StepOfOne
<1>3. CASE Router!DisconnectEnd(s)
  <2>1. RouterTypes' /\ StepOf(s)
    BY <1>3 DEF Router!DisconnectEnd, RouterInv, RouterTypes, StepOf
  <2>2. ASSUME s \notin overlapped' \cup rerouted' PROVE WayOK(s)'
    <3>1. WayOK(s)
      BY <1>3, <2>2 DEF Router!DisconnectEnd, RouterInv
    <3> QED BY <1>3, <3>1 DEF Router!DisconnectEnd, WayOK, InOnly, RouterInv, RouterTypes
  <2> QED BY <2>1, <2>2, StepOfOne
<1> QED BY <1>1, <1>2, <1>3 DEF Router!disconnect_session

\* The steps of tc_session_join.
LEMMA JoinKeepsInv ==
  ASSUME Router!RouterConstants, RouterInv, NEW s \in Sessions, Router!tc_session_join(s)
  PROVE  RouterInv'
<1>1. ASSUME NEW address \in Router!Addresses, Router!JoinLeave(s, address) PROVE RouterInv'
  <2> DEFINE found == Router!tc_find_joinable(address)
  <2>1. found \in Joinables
    BY <1>1 DEF Router!JoinLeave, Router!RouterConstants, Router!tc_find_joinable
  <2>2. /\ members' = Router!Left(s)
        /\ join' = [join EXCEPT ![s] = "attempt"] /\ joinable' = [joinable EXCEPT ![s] = found]
        /\ overlapped' = IF leaving[s] = "none" THEN overlapped ELSE overlapped \cup {s}
        /\ UNCHANGED << connected, current_joinable, leaving, rerouted >>
        /\ connected[s] /\ join[s] = "none"
    BY <1>1 DEF Router!JoinLeave, Router!GoTo
  <2> HIDE DEF found
  <2>3. RouterTypes' /\ StepOf(s)
    BY <2>1, <2>2, LeftExact DEF RouterInv, RouterTypes, StepOf
  <2>4. ASSUME s \notin overlapped' \cup rerouted' PROVE WayOK(s)'
    <3>1. WayOK(s) /\ leaving[s] = "none"
      BY Zenon, <2>2, <2>4 DEF RouterInv
    <3>2. InOnly(s, current_joinable[s])
      BY Zenon, <2>2, <3>1 DEF WayOK
    <3>3. \A j \in Joinables : s \notin members'[j]
      BY <2>2, <3>2, LeftExact DEF RouterInv
    <3>4. InOnly(s, NoJoinable)'
      BY <3>3 DEF InOnly, Router!RouterConstants
    <3>5. leaving'[s] = "none" /\ join'[s] = "attempt" /\ connected'[s]
      BY <2>2, <3>1 DEF RouterInv, RouterTypes
    <3> QED BY <3>4, <3>5 DEF WayOK
  <2> QED BY <2>3, <2>4, StepOfOne
<1>2. CASE Router!Attempt(s)
  BY Zenon, <1>2, TakenInKeepsInv, RefusedKeepsInv DEF Router!Attempt, RouterInv, RouterTypes
<1>3. CASE Router!AttemptDefault(s)
  BY <1>3, TakenInKeepsInv, RefusedKeepsInv DEF Router!AttemptDefault, Router!RouterConstants
<1>4. CASE Router!StoreJoinable(s)
  <2>1. RouterTypes' /\ StepOf(s)
    BY <1>4 DEF Router!StoreJoinable, Router!GoTo, RouterInv, RouterTypes, StepOf
  <2>2. ASSUME s \notin overlapped' \cup rerouted' PROVE WayOK(s)'
    <3>1. WayOK(s)
      BY Zenon, <1>4, <2>2 DEF Router!StoreJoinable, RouterInv
    <3> QED BY <1>4, <3>1 DEF Router!StoreJoinable, Router!GoTo, WayOK, InOnly, RouterInv, RouterTypes
  <2> QED BY <2>1, <2>2, StepOfOne
<1>5. CASE Router!JoinKicks(s)
  <2>1. /\ members' = Router!Left(s)
        /\ join' = [join EXCEPT ![s] = "none"] /\ joinable' = [joinable EXCEPT ![s] = NoJoinable]
        /\ current_joinable' = [current_joinable EXCEPT ![s] = NoJoinable]
        /\ connected' = [connected EXCEPT ![s] = FALSE]
        /\ UNCHANGED << leaving, overlapped, rerouted >>
        /\ join[s] = "kick"
    BY <1>5 DEF Router!JoinKicks, Router!GoTo
  <2>2. RouterTypes' /\ StepOf(s)
    BY <2>1, LeftExact DEF RouterInv, RouterTypes, StepOf
  <2>3. ASSUME s \notin overlapped' \cup rerouted' PROVE WayOK(s)'
    <3>1. WayOK(s)
      BY <2>1, <2>3 DEF RouterInv
    <3>2. InOnly(s, NoJoinable) /\ leaving[s] = "none"
      BY <2>1, <3>1 DEF WayOK
    <3>3. \A j \in Joinables : s \notin members'[j]
      BY <2>1, <3>2, LeftExact DEF RouterInv
    <3>4. /\ leaving'[s] = "none" /\ join'[s] = "none"
          /\ ~connected'[s] /\ current_joinable'[s] = NoJoinable
      BY <2>1, <3>2 DEF RouterInv, RouterTypes
    <3>5. InOnly(s, current_joinable[s])'
      BY <3>3, <3>4 DEF InOnly, Router!RouterConstants
    <3> QED BY Zenon, <3>4, <3>5 DEF WayOK
  <2> QED BY <2>2, <2>3, StepOfOne
<1> QED BY <1>1, <1>2, <1>3, <1>4, <1>5 DEF Router!tc_session_join

\* Every step keeps the invariant.
LEMMA NextRouterInv ==
  ASSUME Router!RouterConstants
  PROVE  RouterInv /\ [Router!Next]_Router!vars => RouterInv'
<1> SUFFICES ASSUME RouterInv, [Router!Next]_Router!vars PROVE RouterInv'
  OBVIOUS
<1>1. CASE UNCHANGED Router!vars
  <2>1. RouterTypes'
    BY <1>1 DEF Router!vars, RouterInv, RouterTypes
  <2>2. ASSUME NEW s \in Sessions, s \notin overlapped' \cup rerouted' PROVE WayOK(s)'
    BY <1>1, <2>2 DEF Router!vars, RouterInv, WayOK, InOnly
  <2> QED BY <2>1, <2>2 DEF RouterInv
<1>2. ASSUME NEW s \in Sessions, Router!Connect(s) PROVE RouterInv'
  <2>1. RouterTypes' /\ StepOf(s)
    BY <1>2 DEF Router!Connect, RouterInv, RouterTypes, StepOf
  <2>2. ASSUME s \notin overlapped' \cup rerouted' PROVE WayOK(s)'
    <3>1. WayOK(s)
      BY <1>2, <2>2 DEF Router!Connect, RouterInv
    <3> QED BY <1>2, <3>1 DEF Router!Connect, WayOK, InOnly, RouterInv, RouterTypes
  <2> QED BY <2>1, <2>2, StepOfOne
<1>3. ASSUME NEW s \in Sessions, Router!disconnect_session(s) PROVE RouterInv'
  BY <1>3, DisconnectKeepsInv
<1>4. ASSUME NEW s \in Sessions, Router!tc_session_join(s) PROVE RouterInv'
  BY <1>4, JoinKeepsInv
<1> QED BY <1>1, <1>2, <1>3, <1>4 DEF Router!Next

\* For any sessions and worlds, routing ones included, and whatever joins, failed
\* joins, kicks and disconnects (tc_session_join, disconnect_session) run at the
\* same time: the worlds agree with every session about where it is, unless its
\* own join met its own disconnect or a world handed it to another.
THEOREM MembershipAlwaysAgrees ==
  ASSUME Router!RouterConstants
  PROVE  Router!Spec => []Router!MembershipAgrees
<1>1. RouterInv => Router!MembershipAgrees
  <2> SUFFICES ASSUME RouterInv, NEW s \in Sessions \ (overlapped \cup rerouted),
                      join[s] = "none", leaving[s] = "none"
               PROVE  {j \in Joinables : s \in members[j]} =
                        IF connected[s] /\ current_joinable[s] # NoJoinable
                        THEN {current_joinable[s]} ELSE {}
    BY DEF Router!MembershipAgrees
  <2>1. WayOK(s) /\ current_joinable[s] \in Joinables \cup {NoJoinable}
    BY DEF RouterInv, RouterTypes
  <2> QED BY <2>1 DEF WayOK, InOnly, Router!RouterConstants
<1>2. RouterInv /\ [Router!Next]_Router!vars => RouterInv'
  BY NextRouterInv
<1>3. Router!Init => RouterInv
  BY InitRouterInv
<1> QED BY <1>1, <1>2, <1>3, PTL DEF Router!Spec
=============================================================================
