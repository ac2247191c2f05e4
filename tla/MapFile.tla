------------------------------ MODULE MapFile -------------------------------
(***************************************************************************)
(* Map files (src/src/map.c): tc_map_load reads the parts of a map one     *)
(* after the other and gives up at the first that is missing or wrong;     *)
(* tc_map_save writes them; tc_map_finalize frees a map.  Of a part's      *)
(* contents the model keeps whether they are there and complete, and the   *)
(* number of changes made to the blocks.                                   *)
(***************************************************************************)
EXTENDS Integers, Sequences, FiniteSets

CONSTANTS
  MaxChanges,   \* bound: changes to the blocks
  MaxSaves      \* bound: saves that write the file

ASSUME MapFileAssumption == MaxChanges \in Nat /\ MaxSaves \in Nat

\* The parts of a map in the order in which they are read.
Parts == << "version", "name", "uuid", "size", "created", "generator", "spawn",
            "block_array", "block_array2", "custom_blocks", "env_colors", "env_aspect",
            "env_appearance", "env_weather", "block_definitions" >>
Required == {"version", "uuid", "size", "spawn", "block_array"}
Optional == {Parts[k] : k \in DOMAIN Parts} \ Required

\* Parts with a length or with fields of their own that may be wrong.
Checked == {"uuid", "block_array", "block_array2", "custom_blocks", "env_colors",
            "env_aspect", "env_appearance", "env_weather", "block_definitions"}

\* The memory of a part: the part itself, and what its first block points to.
Own(part) == << part, "own" >>
Inner(part) == << part, "inner" >>
Allocating == {"name", "created", "generator", "block_array", "block_array2",
               "custom_blocks", "env_colors", "env_aspect", "env_appearance",
               "env_weather", "block_definitions"}
WithInner  == {"custom_blocks", "env_appearance", "block_definitions"}
Lock == << "lock", "own" >>
Root == << "root", "own" >>

Memory(part) ==
  (IF part \in Allocating THEN {Own(part)} ELSE {})
    \cup (IF part \in WithInner THEN {Inner(part)} ELSE {})

VARIABLES
  file,       \* the parts in the file, and its blocks; or Truncated
  has,        \* the optional parts the map in memory has
  blocks,     \* changes made to the map's blocks
  is_dirty,
  heap,       \* memory in use
  status,     \* "none", "loading", "loaded", "failed", "finalized"
  next,       \* while loading: the next part
  save_failed, \* a save that had something to write has failed (history)
  saves       \* saves so far

vars == << file, has, blocks, is_dirty, heap, status, next, save_failed, saves >>
contents == << has, blocks, is_dirty >>
disk == << file, save_failed, saves >>

Truncated == [parts |-> {}, bad |-> {}, blocks |-> 0, readable |-> FALSE]

\* A file with some of the parts, at most one of them incomplete.
Init ==
  /\ \E absent \in SUBSET Optional, bad \in SUBSET Checked, missing \in SUBSET Required :
       /\ Cardinality(bad) + Cardinality(missing) <= 1
       /\ bad \cap absent = {}
       /\ file = [parts |-> (Optional \cup Required) \ (absent \cup missing), bad |-> bad,
                  blocks |-> 0, readable |-> TRUE]
  /\ has = {} /\ blocks = 0 /\ is_dirty = FALSE
  /\ heap = {}
  /\ status = "none"
  /\ next = 1
  /\ save_failed = FALSE
  /\ saves = 0

-----------------------------------------------------------------------------
(* tc_map_load *)

\* The file cannot be parsed: the map is left as it was.
LoadUnreadable ==
  /\ status \in {"none", "finalized"}
  /\ ~file.readable
  /\ status' = "failed"
  /\ UNCHANGED << disk, contents, heap, next >>

LoadBegin ==
  /\ status \in {"none", "finalized"}
  /\ file.readable
  /\ status' = "loading"
  /\ next' = 1
  /\ heap' = {Root, Lock}
  /\ has' = {} /\ blocks' = 0 /\ is_dirty' = FALSE
  /\ UNCHANGED disk

\* Mutant of Freed: the url of the texture is forgotten.
FreedWithoutUrl(memory) ==
  memory \ ({Lock} \cup {Own(p) : p \in Allocating}
              \cup {Inner(p) : p \in {"custom_blocks", "block_definitions"}})

\* tc_map_finalize: what is left of `memory' after it.
Freed(memory) ==
  memory \ ({Lock} \cup {Own(p) : p \in Allocating} \cup {Inner(p) : p \in WithInner})

\* The fail label: the map is finalized and cleared, the tree is freed.
LoadGivesUp(memory) ==
  /\ heap' = Freed(memory) \ {Root}
  /\ has' = {} /\ blocks' = 0 /\ is_dirty' = FALSE
  /\ status' = "failed"
  /\ next' = 1
  /\ UNCHANGED disk

\* There is no memory for the map's lock.
LoadWithoutLock ==
  /\ status \in {"none", "finalized"}
  /\ file.readable
  /\ LoadGivesUp({Root})

Part == Parts[next]

\* The part is there, whole, and there is memory for it.
LoadPart ==
  /\ status = "loading" /\ next <= Len(Parts)
  /\ Part \in file.parts \ file.bad
  /\ has' = IF Part \in Optional THEN has \cup {Part} ELSE has
  /\ blocks' = IF Part = "block_array" THEN file.blocks ELSE blocks
  /\ heap' = heap \cup Memory(Part)
  /\ next' = next + 1
  /\ UNCHANGED << disk, is_dirty, status >>

\* Mutant of LoadAbsent: a missing required part is passed over.
LoadAbsentAny ==
  /\ status = "loading" /\ next <= Len(Parts)
  /\ Part \notin file.parts
  /\ heap' = IF Part = "name" THEN heap \cup Memory(Part) ELSE heap
  /\ has' = IF Part = "name" THEN has \cup {Part} ELSE has
  /\ next' = next + 1
  /\ UNCHANGED << disk, blocks, is_dirty, status >>

\* An optional part is not there, or has the wrong type; a name is derived from
\* the path.
LoadAbsent ==
  /\ status = "loading" /\ next <= Len(Parts)
  /\ Part \in Optional \ file.parts
  /\ heap' = IF Part = "name" THEN heap \cup Memory(Part) ELSE heap
  /\ has' = IF Part = "name" THEN has \cup {Part} ELSE has
  /\ next' = next + 1
  /\ UNCHANGED << disk, blocks, is_dirty, status >>

\* A required part is not there, a part is incomplete, or there is no memory for
\* it: some of the part's memory may be in use by then.
LoadPartFails ==
  /\ status = "loading" /\ next <= Len(Parts)
  /\ \/ Part \in Required \ file.parts /\ LoadGivesUp(heap)
     \/ /\ Part \in file.bad
        /\ \E some \in SUBSET Memory(Part) :
             /\ Inner(Part) \in some => Own(Part) \in some
             /\ LoadGivesUp(heap \cup some)
     \/ /\ Part \in Allocating
        /\ \E some \in SUBSET Memory(Part) \ {Memory(Part)} :
             /\ Inner(Part) \in some => Own(Part) \in some
             /\ LoadGivesUp(heap \cup some)

LoadEnds ==
  /\ status = "loading" /\ next > Len(Parts)
  /\ heap' = heap \ {Root}
  /\ status' = "loaded"
  /\ next' = 1
  /\ UNCHANGED << disk, contents >>

-----------------------------------------------------------------------------
(* tc_map_set_block_index, tc_map_save and tc_map_finalize *)

\* Mutant of tc_map_set_block_index: the map is not marked as changed.
SetBlockUnmarked ==
  /\ status = "loaded"
  /\ blocks < MaxChanges
  /\ blocks' = blocks + 1
  /\ UNCHANGED << disk, has, is_dirty, heap, status, next >>

tc_map_set_block_index ==
  /\ status = "loaded"
  /\ blocks < MaxChanges
  /\ blocks' = blocks + 1
  /\ is_dirty' = TRUE
  /\ UNCHANGED << disk, has, heap, status, next >>

\* The parts of a saved map that tc_map_load finds again.  The aspect is written
\* under a name that is not read.
Saved(parts) == Required \cup (parts \ {"env_aspect"})

SaveSucceeds ==
  /\ status = "loaded" /\ is_dirty
  /\ saves < MaxSaves
  /\ file' = [parts |-> Saved(has), bad |-> {}, blocks |-> blocks,
              readable |-> TRUE]
  /\ is_dirty' = FALSE
  /\ saves' = saves + 1
  /\ UNCHANGED << has, blocks, heap, status, next, save_failed >>

\* There is no memory for the tree, the file cannot be opened, or it cannot be
\* written after it was emptied.  is_dirty is cleared before any of it.
SaveFails ==
  /\ status = "loaded" /\ is_dirty
  /\ saves < MaxSaves
  /\ file' \in {file, Truncated}
  /\ is_dirty' = FALSE
  /\ save_failed' = TRUE
  /\ saves' = saves + 1
  /\ UNCHANGED << has, blocks, heap, status, next >>

\* A clean map is not written.
SaveClean ==
  /\ status = "loaded" /\ ~is_dirty
  /\ UNCHANGED vars

tc_map_finalize ==
  /\ status = "loaded"
  /\ heap' = Freed(heap)
  /\ status' = "finalized"
  /\ UNCHANGED << disk, contents, next >>

Next ==
  \/ LoadUnreadable \/ LoadBegin \/ LoadWithoutLock
  \/ LoadPart \/ LoadAbsent \/ LoadPartFails \/ LoadEnds
  \/ tc_map_set_block_index
  \/ SaveSucceeds \/ SaveFails \/ SaveClean
  \/ tc_map_finalize

Spec == Init /\ [][Next]_vars

-----------------------------------------------------------------------------
\* At whichever part a load gives up, and when a map is finalized, every piece of
\* memory that was taken for it has been given back; a loaded map holds the
\* memory of its parts and no other.
MemoryExact ==
  /\ status \in {"failed", "finalized"} => heap = {}
  /\ status = "loaded" =>
       heap = {Lock} \cup UNION {Memory(p) : p \in has \cup Required}

\* A map is loaded only from a file with all of the required parts, none of its
\* parts incomplete.
LoadedComplete ==
  status = "loaded" /\ ~is_dirty /\ saves = 0 =>
    /\ Required \subseteq file.parts
    /\ file.bad = {}
    /\ has \ {"name"} = (file.parts \ Required) \ {"name"}

\* While the map is clean and no save has failed, the file has its blocks and
\* its parts, the aspect excepted: a map that is evicted and loaded again comes
\* back with them.
CleanMeansSaved ==
  status = "loaded" /\ ~is_dirty /\ ~save_failed =>
    /\ file.readable
    /\ file.blocks = blocks
    /\ (has \ {"env_aspect", "name"}) \subseteq file.parts
=============================================================================
