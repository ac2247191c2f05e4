--------------------------- MODULE MapSendProofs ----------------------------
(***************************************************************************)
(* The map cache and the sends that use it, for every number of opens, any *)
(* threshold and any size: the pass over the list never meets a map it     *)
(* would evict, and a send's reference and reader lock are exact.  Then    *)
(* the transfer of the level that a send makes (LevelTransfer).            *)
(***************************************************************************)
EXTENDS MapSend, SequenceTheorems, TLAPS

-----------------------------------------------------------------------------
(* The inductive invariant *)

Listed == 1..num_entries

\* A pass over the list is under way, and has not come to its end.
Passing == writer # None /\ left > 0

\* The pass counts its entries down as it goes up from the tail.
PassOK ==
  /\ left \in 0..num_entries
  /\ writer = None => left = 0
  /\ left > 0 => Current = num_entries - left + 1

\* No pass has cleared the entry's bit, or unlocked it under its load task.
Untouched(e) ==
  is_referenced[e] /\ (load[e] \in {"loading", "scheduling"} => lock[e])

\* A new pass meets nothing to evict: no pass has left a trace, or the first
\* entry with one is LeftLocked and stops it.
FreshStart ==
  \/ /\ \A e \in Listed : Untouched(e)
     /\ Passing => \A e \in Listed : e < Current => is_loaded[e]
  \/ \E b \in Listed :
       /\ LeftLocked(b)
       /\ \A e \in Listed : e < b => is_loaded[e] /\ Untouched(e)

\* Nor does the pass under way: up to the end of the list or to the next
\* entry that stops it, every bit is set.
ClearAhead ==
  Passing =>
    \E d \in 1..(num_entries + 1) :
      /\ Current <= d
      /\ \A e \in Listed : Current <= e /\ e < d => is_referenced[e]
      /\ d <= num_entries =>
           /\ LeftLocked(d)
           /\ \A e \in Listed : Current <= e /\ e < d => is_loaded[e]

\* An entry not yet opened, and one whose load task has not come so far, has
\* not been given to anybody.
WaiterOK(e) ==
  /\ e > num_entries => load[e] = "none" /\ writer # e
  /\ load[e] \in {"none", "queued", "starting", "loading", "scheduling"}
       => waiter[e] # "opened"

\* The reference and the reader lock of a send, from stage to stage.
SendOK(e) ==
  /\ waiter[e] # "opened" => stage[e] = "none" /\ open_count[e] = 0
  /\ Opened(e) \/ stage[e] = "compress" => open_count[e] = 1
  /\ stage[e] \in {"none", "compress"} => readers[e] = 0
  /\ stage[e] \in {"setup", "chunks"} => open_count[e] = 1 /\ readers[e] = 1
  /\ stage[e] \in {"lobby", "done"} => open_count[e] = 0 /\ readers[e] = 0
  /\ stage[e] = "failed" /\ e \notin refused => open_count[e] = 0 /\ readers[e] = 0

CacheInv == TypeOK /\ PassOK /\ FreshStart /\ ClearAhead

SendInv ==
  /\ TypeOK /\ PassOK
  /\ stage \in [Entries -> SendStages]
  /\ readers \in [Entries -> Int]
  /\ \A e \in Entries : WaiterOK(e) /\ SendOK(e)

-----------------------------------------------------------------------------
(* Types, and the course of a pass *)

\* A pass is at an entry of the list.
LEMMA CurrentListed ==
  ASSUME TypeOK, PassOK, left > 0
  PROVE  /\ Current \in Listed
         /\ Current = num_entries <=> left = 1
         /\ Prev(Current) \in 0..MaxEntries
         /\ left > 1 => Prev(Current) = Current + 1
<1>1. MaxEntries \in Nat /\ num_entries \in 0..MaxEntries
  BY CacheAssumption DEF TypeOK
<1>2. left \in 0..num_entries
  BY DEF PassOK
<1>3. /\ MaxEntries \in Nat /\ num_entries \in Nat /\ num_entries <= MaxEntries
      /\ left \in Nat /\ left <= num_entries
  BY <1>1, <1>2
<1>4. Current = num_entries - left + 1
  BY Zenon DEF PassOK
<1> QED
  BY <1>3, <1>4 DEF Listed, Prev, None

\* The loop's increments take the pass one entry up.
LEMMA IterationStep ==
  ASSUME TypeOK, PassOK, Scanning, NextIteration, UNCHANGED num_entries
  PROVE  /\ PassOK'
         /\ current_entry' \in 0..MaxEntries
         /\ left' \in Nat
         /\ writer' = writer
         /\ left' > 0 => Current' = Current + 1
<1>1. /\ MaxEntries \in Nat /\ num_entries \in Nat /\ num_entries <= MaxEntries
      /\ left \in Nat /\ left <= num_entries /\ left > 0
      /\ Current = num_entries - left + 1
  BY CacheAssumption DEF TypeOK, PassOK, Scanning
<1>2. /\ current_entry' = Prev(Current)
      /\ left' = left - 1
      /\ writer' = writer
  BY DEF NextIteration
<1>3. current_entry' \in 0..MaxEntries /\ left' \in Nat
  BY <1>1, <1>2, CurrentListed
<1>4. left' > 0 => Current' = Current + 1
  BY <1>1, <1>2, CurrentListed DEF Current, None
<1>5. PassOK'
  BY <1>1, <1>2, <1>4 DEF PassOK
<1> QED
  BY <1>2, <1>3, <1>4, <1>5

\* Between two iterations nothing changes for the pass.
LEMMA NoIteration ==
  ASSUME PassOK, UNCHANGED << num_entries, passVars >>
  PROVE  PassOK'
BY DEF PassOK, Current, passVars

\* An open adds an entry; no pass is under way.
LEMMA OpenTypes ==
  ASSUME TypeOK, PassOK, Open
  PROVE  TypeOK' /\ PassOK'
<1>1. CASE OpenOutOfMemory
  BY <1>1, NoIteration DEF OpenOutOfMemory, TypeOK, vars, listVars, passVars, mapVars,
     refVars
<1>2. CASE OpenScheduled
  <2>1. /\ num_entries' \in 0..MaxEntries /\ num_entries' = num_entries + 1
        /\ memory_usage' \in Nat
    BY <1>2, CacheAssumption DEF TypeOK, OpenScheduled, Opening, New
  <2>2. /\ is_referenced' \in [Entries -> BOOLEAN]
        /\ load' \in [Entries -> Stages]
        /\ waiter' \in [Entries -> {"none", "waiting", "failed", "opened"}]
    BY <1>2 DEF TypeOK, OpenScheduled, Stages
  <2>3. TypeOK'
    BY <1>2, <2>1, <2>2, Zenon DEF TypeOK, OpenScheduled, passVars, mapVars
  <2>4. left = 0 /\ left' = 0 /\ writer' = writer
    BY <1>2, Zenon DEF PassOK, OpenScheduled, Opening, passVars
  <2>5. PassOK'
    BY <2>1, <2>4 DEF PassOK
  <2> QED
    BY <2>3, <2>5
<1>3. CASE OpenRefused
  BY <1>3, NoIteration DEF OpenRefused, TypeOK, listVars, passVars, mapVars, refVars
<1> QED
  BY <1>1, <1>2, <1>3 DEF Open

\* A load task touches its own entry, and at most begins a pass.
LEMMA LoadTypes ==
  ASSUME TypeOK, PassOK, NEW e \in Entries, LoadStart(e) \/ LoadTask(e)
  PROVE  TypeOK' /\ PassOK'
<1> USE DEF listVars, passVars, mapVars, refVars
<1>1. CASE LoadBegin(e)
  BY <1>1, NoIteration DEF LoadBegin, TypeOK, Stages
<1>2. CASE LoadFails(e)
  BY <1>2, NoIteration DEF LoadFails, TypeOK, Stages
<1>3. CASE LoadSucceeds(e)
  BY <1>3, NoIteration DEF LoadSucceeds, TypeOK, Stages
<1>4. CASE ScheduleWaiter(e)
  BY <1>4, NoIteration DEF ScheduleWaiter, TypeOK, Stages
<1>5. CASE \E bit \in BOOLEAN : ScheduleFails(e, bit)
  <2>1. PICK bit \in BOOLEAN : ScheduleFails(e, bit)
    BY <1>5
  <2>2. /\ is_referenced' \in [Entries -> BOOLEAN]
        /\ load' \in [Entries -> Stages]
        /\ lock' \in [Entries -> BOOLEAN]
        /\ waiter' \in [Entries -> {"none", "waiting", "failed", "opened"}]
    BY <2>1 DEF ScheduleFails, TypeOK, Stages
  <2> QED
    BY <2>1, <2>2, NoIteration, Zenon DEF ScheduleFails, TypeOK
<1>6. CASE SkipEvict(e)
  BY <1>6, NoIteration DEF SkipEvict, TypeOK, Stages
<1>7. CASE EvictBegin(e)
  <2>1. load' \in [Entries -> Stages] /\ e \in 1..MaxEntries /\ MaxEntries \in Nat
    BY <1>7, CacheAssumption DEF EvictBegin, TypeOK, Stages, Entries
  <2>2. /\ writer' = e /\ e # None
        /\ current_entry' = 0 /\ left' = num_entries /\ num_entries' = num_entries
        /\ num_entries \in Nat
    BY <1>7, <2>1 DEF EvictBegin, None, TypeOK
  <2>3. TypeOK'
    BY <1>7, <2>1, <2>2 DEF EvictBegin, TypeOK
  <2>4. PassOK'
    BY <2>2 DEF PassOK, Current, TailEntry, None
  <2> QED
    BY <2>3, <2>4
<1>8. CASE LoadStart(e)
  BY <1>8, NoIteration DEF LoadStart, TypeOK, Stages
<1> QED
  BY <1>1, <1>2, <1>3, <1>4, <1>5, <1>6, <1>7, <1>8, Zenon DEF LoadTask

\* The steps of a pass.
LEMMA EvictTypes ==
  ASSUME TypeOK, PassOK, Evict
  PROVE  TypeOK' /\ PassOK'
<1> USE DEF listVars, passVars, mapVars, refVars
<1>1. CASE EvictUnloaded
  <2>1. /\ PassOK' /\ current_entry' \in 0..MaxEntries
        /\ left' \in Nat /\ writer' = writer
    BY <1>1, IterationStep, Zenon DEF EvictUnloaded
  <2>2. /\ lock' \in [Entries -> BOOLEAN]
        /\ status' = "null_pointer" \/ status' = status
    BY <1>1 DEF EvictUnloaded, TypeOK
  <2> QED
    BY <1>1, <2>1, <2>2, Zenon DEF EvictUnloaded, TypeOK
<1>2. CASE EvictReferenced
  <2>1. /\ PassOK' /\ current_entry' \in 0..MaxEntries
        /\ left' \in Nat /\ writer' = writer
    BY <1>2, IterationStep, Zenon DEF EvictReferenced
  <2>2. lock' \in [Entries -> BOOLEAN] /\ is_referenced' \in [Entries -> BOOLEAN]
    BY <1>2 DEF EvictReferenced, TypeOK
  <2> QED
    BY <1>2, <2>1, <2>2, Zenon DEF EvictReferenced, TypeOK
<1>3. CASE EvictInUse
  <2>1. /\ PassOK' /\ current_entry' \in 0..MaxEntries
        /\ left' \in Nat /\ writer' = writer
    BY <1>3, IterationStep, Zenon DEF EvictInUse
  <2> QED
    BY <1>3, <2>1, Zenon DEF EvictInUse, TypeOK
<1>4. CASE EvictEnd
  <2>4. writer' \in 0..MaxEntries
    BY <1>4, CacheAssumption DEF EvictEnd, None
  <2>1. load' \in [Entries -> Stages]
    BY <1>4 DEF EvictEnd, TypeOK, Stages
  <2>2. TypeOK'
    BY <1>4, <2>1, <2>4, Zenon DEF EvictEnd, TypeOK
  <2>3. PassOK'
    BY <1>4 DEF EvictEnd, PassOK, Current
  <2> QED
    BY <2>2, <2>3
<1> QED
  BY <1>1, <1>2, <1>3, <1>4 DEF Evict

\* Giving up references, by a send.
LEMMA UnrefTypes ==
  ASSUME TypeOK, PassOK, NEW e \in Entries, NEW n \in Int, tc_map_unref(e, n)
  PROVE  TypeOK' /\ PassOK'
<1>1. open_count' \in [Entries -> Int]
  BY DEF tc_map_unref, TypeOK
<1> QED
  BY <1>1, NoIteration, Zenon DEF tc_map_unref, TypeOK, listVars, passVars, mapVars

\* The steps of the cache, which leave the sends alone.
CacheNext ==
  \/ Open \/ Evict \/ tc_map_cache_finalize
  \/ \E e \in Entries : LoadStart(e) \/ LoadTask(e)

\* A step is one of the cache or one of a send.
LEMMA StepSplit ==
  ASSUME [SendNext]_allVars
  PROVE  \/ CacheNext /\ UNCHANGED sendVars
         \/ \E e \in Entries : StartCompress(e) \/ SendTask(e)
         \/ UNCHANGED allVars
BY Zenon DEF SendNext, StartLoad, CacheNext

\* A task of a send changes of the cache at most one map's references, unless
\* it ends the program.
LEMMA SendKeepsCache ==
  ASSUME NEW e \in Entries, StartCompress(e) \/ SendTask(e)
  PROVE  UNCHANGED vars \/ SetupAborts(e) \/ \E n \in {1, 2} : tc_map_unref(e, n)
BY Zenon DEF SendTask, StartCompress, Compress, CompressFails, SetupGone, Setup,
  handle_failure, handle_success, SuccessRefused, Lobby

\* Every step keeps the types and the count of the pass.
LEMMA TypeStep ==
  ASSUME TypeOK, PassOK, [SendNext]_allVars
  PROVE  TypeOK' /\ PassOK'
<1>1. CASE UNCHANGED vars
  BY <1>1, NoIteration, Zenon DEF TypeOK, vars, listVars, passVars, mapVars, refVars
<1>2. CASE CacheNext
  <2>1. CASE tc_map_cache_finalize
    <3>1. status' \in {"finalized", "wild_map_freed"}
      BY <2>1 DEF tc_map_cache_finalize
    <3> QED
      BY <2>1, <3>1, NoIteration DEF tc_map_cache_finalize, TypeOK, listVars, passVars,
        mapVars, refVars
  <2> QED
    BY <1>2, <2>1, OpenTypes, LoadTypes, EvictTypes, Zenon DEF CacheNext
<1>3. CASE \E e \in Entries : StartCompress(e) \/ SendTask(e)
  <2>1. PICK e \in Entries : StartCompress(e) \/ SendTask(e)
    BY <1>3
  <2>2. CASE \E n \in {1, 2} : tc_map_unref(e, n)
    BY <2>2, UnrefTypes
  <2>3. CASE SetupAborts(e)
    BY <2>3, NoIteration DEF SetupAborts, TypeOK, listVars, passVars, mapVars, refVars
  <2> QED
    BY <1>1, <2>1, <2>2, <2>3, SendKeepsCache, Zenon
<1> QED
  BY <1>1, <1>2, <1>3, StepSplit, Zenon DEF allVars

-----------------------------------------------------------------------------
(* What a pass leaves behind, and what it meets *)

\* A step that takes no bit, locks no entry for good and frees no such entry
\* changes nothing for the pass under way and for the next one.
LEMMA QuietStep ==
  ASSUME FreshStart, ClearAhead, UNCHANGED << num_entries, passVars >>,
         \A e \in Listed :
           /\ is_loaded[e] => is_loaded'[e]
           /\ is_referenced[e] => is_referenced'[e]
           /\ LeftLocked(e) => LeftLocked(e)'
           /\ Untouched(e) => Untouched(e)'
  PROVE  FreshStart' /\ ClearAhead'
<1>1. /\ Listed' = Listed /\ Current' = Current /\ Passing' = Passing
      /\ num_entries' = num_entries
  BY Zenon DEF Listed, Current, Passing, passVars
<1>2. FreshStart'
  <2>1. CASE /\ \A e \in Listed : Untouched(e)
             /\ Passing => \A e \in Listed : e < Current => is_loaded[e]
    BY <1>1, <2>1, Zenon DEF FreshStart
  <2>2. CASE \E b \in Listed :
               /\ LeftLocked(b)
               /\ \A e \in Listed : e < b => is_loaded[e] /\ Untouched(e)
    BY <1>1, <2>2, Zenon DEF FreshStart
  <2> QED
    BY <2>1, <2>2, Zenon DEF FreshStart
<1>3. ASSUME Passing'
      PROVE  ClearAhead'
  <2>1. PICK d \in 1..(num_entries + 1) :
          /\ Current <= d
          /\ \A e \in Listed : Current <= e /\ e < d => is_referenced[e]
          /\ d <= num_entries =>
               /\ LeftLocked(d)
               /\ \A e \in Listed : Current <= e /\ e < d => is_loaded[e]
    BY <1>1, <1>3, Zenon DEF ClearAhead
  <2>2. d <= num_entries => d \in Listed
    BY <2>1 DEF Listed
  <2> QED
    BY <1>1, <2>1, <2>2, Zenon DEF ClearAhead
<1> QED
  BY <1>2, <1>3, Zenon DEF ClearAhead

\* The entry a pass is at, when its mutex is free: no trace of an earlier pass
\* comes before it, or only behind it; and its own bit is set.
LEMMA AtCurrent ==
  ASSUME CacheInv, Scanning, NEW c, c = Current
  PROVE  /\ c \in Listed /\ c \in Int /\ num_entries \in Int /\ ~lock[c]
         /\ is_referenced[c]
         /\ \/ /\ \A e \in Listed : Untouched(e)
               /\ \A e \in Listed : e < c => is_loaded[e]
            \/ \E b \in Listed :
                 /\ b # c
                 /\ LeftLocked(b)
                 /\ \A e \in Listed : e < b => is_loaded[e] /\ Untouched(e)
         /\ \E d \in 1..(num_entries + 1) :
              /\ c < d
              /\ \A e \in Listed : c <= e /\ e < d => is_referenced[e]
              /\ d <= num_entries => 
                   /\ LeftLocked(d)
                   /\ \A e \in Listed : c <= e /\ e < d => is_loaded[e]
<1>1. Passing /\ ~lock[c] /\ left > 0
  BY Zenon DEF Scanning, Passing
<1>2. c \in Listed
  BY <1>1, CurrentListed DEF CacheInv
<1>3. num_entries \in Int /\ \A e \in Listed : e \in Int /\ 1 <= e /\ e <= num_entries
  <2>1. num_entries \in 0..MaxEntries
    BY Zenon DEF CacheInv, TypeOK
  <2> QED
    BY <2>1, CacheAssumption DEF Listed
<1>4. PICK d \in 1..(num_entries + 1) :
        /\ c <= d
        /\ \A e \in Listed : c <= e /\ e < d => is_referenced[e]
        /\ d <= num_entries =>
             /\ LeftLocked(d)
             /\ \A e \in Listed : c <= e /\ e < d => is_loaded[e]
  BY <1>1, Zenon DEF ClearAhead, CacheInv
<1>5. d # c
  <2>1. d = c => d <= num_entries
    BY <1>2, <1>3
  <2> QED
    BY <1>1, <1>4, <2>1, Zenon DEF LeftLocked
<1>6. c < d /\ d \in Int
  BY <1>2, <1>3, <1>4, <1>5
<1>7. is_referenced[c]
  BY <1>2, <1>3, <1>4, <1>6
<1>8. \/ /\ \A e \in Listed : Untouched(e)
         /\ \A e \in Listed : e < c => is_loaded[e]
      \/ \E b \in Listed :
           /\ b # c
           /\ LeftLocked(b)
           /\ \A e \in Listed : e < b => is_loaded[e] /\ Untouched(e)
  BY <1>1, Zenon DEF FreshStart, CacheInv, LeftLocked
<1> QED
  BY <1>1, <1>2, <1>3, <1>4, <1>6, <1>7, <1>8, Zenon

\* The pass moves on from an entry in use.
LEMMA InUseStep ==
  ASSUME CacheInv, EvictInUse
  PROVE  FreshStart' /\ ClearAhead'
<1>1. PICK c : c = Current
  OBVIOUS
<1>2. /\ Scanning /\ is_loaded[c] /\ NextIteration
      /\ UNCHANGED << num_entries, is_loaded, is_referenced, lock, load >>
  BY <1>1, Zenon DEF EvictInUse, listVars, mapVars, refVars
<1>3. /\ writer' = writer
      /\ left' > 0 => Current' = c + 1
      /\ left' > 0 => left' \in Nat /\ Current' = num_entries - left' + 1
  BY <1>1, <1>2, IterationStep, Zenon DEF CacheInv, PassOK
<1>4. /\ Listed' = Listed
      /\ \A e \in Listed :
           /\ Untouched(e) => Untouched(e)'
           /\ LeftLocked(e) => LeftLocked(e)'
           /\ is_loaded[e] => is_loaded'[e]
           /\ is_referenced[e] => is_referenced'[e]
  BY <1>2, Zenon DEF Listed, Untouched, LeftLocked
<1>5. /\ c \in Int /\ num_entries \in Int
      /\ \A e \in Listed : e \in Int /\ (e < c + 1 => e < c \/ e = c) /\ (c + 1 <= e => c <= e)
  BY <1>1, <1>2, AtCurrent DEF Listed
<1>6. FreshStart'
  <2>1. CASE /\ \A e \in Listed : Untouched(e)
             /\ \A e \in Listed : e < c => is_loaded[e]
    <3>1. ASSUME Passing', NEW e \in Listed, e < Current'
          PROVE  is_loaded'[e]
      <4>1. e < c + 1
        BY <1>3, <3>1, Zenon DEF Passing
      <4> QED
        BY <1>2, <1>4, <1>5, <2>1, <4>1, Zenon
    <3> QED
      BY <1>4, <2>1, <3>1, Zenon DEF FreshStart
  <2>2. CASE \E b \in Listed :
               /\ b # c
               /\ LeftLocked(b)
               /\ \A e \in Listed : e < b => is_loaded[e] /\ Untouched(e)
    BY <1>4, <2>2, Zenon DEF FreshStart
  <2> QED
    BY <1>1, <1>2, <2>1, <2>2, AtCurrent, Zenon
<1>7. ClearAhead'
  <2>1. PICK d \in 1..(num_entries + 1) :
          /\ c < d
          /\ \A e \in Listed : c <= e /\ e < d => is_referenced[e]
          /\ d <= num_entries =>
               /\ LeftLocked(d)
               /\ \A e \in Listed : c <= e /\ e < d => is_loaded[e]
    BY <1>1, <1>2, AtCurrent, Zenon
  <2>2. c + 1 <= d /\ (d <= num_entries => d \in Listed)
    BY <1>5, <2>1 DEF Listed
  <2>3. /\ num_entries' = num_entries
        /\ \A e \in Listed : c + 1 <= e /\ e < d => is_referenced'[e]
        /\ d <= num_entries =>
             /\ LeftLocked(d)'
             /\ \A e \in Listed : c + 1 <= e /\ e < d => is_loaded'[e]
    BY <1>2, <1>4, <1>5, <2>1, <2>2, Zenon
  <2> QED
    BY <1>3, <1>4, <2>1, <2>2, <2>3, Zenon DEF ClearAhead, Passing
<1> QED
  BY <1>6, <1>7

\* A pass takes the bit of an entry and leaves it locked: the entry is the
\* first such one, or there was one behind it.
LEMMA ReferencedStep ==
  ASSUME CacheInv, EvictReferenced
  PROVE  FreshStart' /\ ClearAhead'
<1>1. PICK c : c = Current
  OBVIOUS
<1>2. /\ Scanning /\ NextIteration
      /\ lock' = [lock EXCEPT ![c] = TRUE]
      /\ is_referenced' = [is_referenced EXCEPT ![c] = FALSE]
      /\ UNCHANGED << num_entries, is_loaded, load >>
  BY <1>1, Zenon DEF EvictReferenced, listVars, mapVars
<1>3. /\ writer' = writer
      /\ left' > 0 => Current' = c + 1
  BY <1>1, <1>2, IterationStep, Zenon DEF CacheInv
<1>4. /\ c \in Listed /\ c \in Int /\ num_entries \in Int
      /\ \A e \in Listed :
           /\ e \in Entries /\ e \in Int
           /\ e < c => e # c
           /\ c + 1 <= e => c <= e /\ e # c
  <2>1. c \in Listed /\ c \in Int /\ num_entries \in Int
    BY <1>1, <1>2, AtCurrent, Zenon
  <2>2. num_entries \in 0..MaxEntries
    BY DEF CacheInv, TypeOK
  <2> QED
    BY <2>1, <2>2, CacheAssumption DEF Listed, Entries
<1>5. /\ Listed' = Listed
      /\ lock'[c]
      /\ \A e \in Listed : e # c => lock'[e] = lock[e] /\ is_referenced'[e] = is_referenced[e]
  BY <1>2, <1>4 DEF Listed, CacheInv, TypeOK
<1>6. /\ \A e \in Listed : LeftLocked(e) => LeftLocked(e)'
      /\ \A e \in Listed : Untouched(e) /\ e # c => Untouched(e)'
      /\ Untouched(c) => LeftLocked(c)'
  <2>1. ~lock[c]
    BY <1>1, <1>2, Zenon DEF Scanning
  <2> QED
    BY <1>2, <1>4, <1>5, <2>1 DEF LeftLocked, Untouched
<1>7. FreshStart'
  <2>1. CASE /\ \A e \in Listed : Untouched(e)
             /\ \A e \in Listed : e < c => is_loaded[e]
    <3>1. LeftLocked(c)' /\ \A e \in Listed : e < c => is_loaded'[e] /\ Untouched(e)'
      BY <1>2, <1>4, <1>6, <2>1, Zenon
    <3> QED
      BY <1>4, <1>5, <3>1, Zenon DEF FreshStart
  <2>2. ASSUME NEW b \in Listed, b # c, LeftLocked(b),
               \A e \in Listed : e < b => is_loaded[e] /\ Untouched(e)
        PROVE  FreshStart'
    <3>1. CASE c < b
      <4>1. \A e \in Listed : e < c => e < b
        BY <1>4, <3>1
      <4>2. LeftLocked(c)' /\ \A e \in Listed : e < c => is_loaded'[e] /\ Untouched(e)'
        BY <1>2, <1>4, <1>6, <2>2, <3>1, <4>1, Zenon
      <4> QED
        BY <1>4, <1>5, <4>2, Zenon DEF FreshStart
    <3>2. CASE b < c
      <4>1. \A e \in Listed : e < b => e # c
        BY <1>4, <3>2
      <4>2. LeftLocked(b)' /\ \A e \in Listed : e < b => is_loaded'[e] /\ Untouched(e)'
        BY <1>2, <1>6, <2>2, <4>1, Zenon
      <4> QED
        BY <1>5, <4>2, Zenon DEF FreshStart
    <3> QED
      BY <1>4, <2>2, <3>1, <3>2
  <2> QED
    BY <1>1, <1>2, <2>1, <2>2, AtCurrent, Zenon
<1>8. ClearAhead'
  <2>1. PICK d \in 1..(num_entries + 1) :
          /\ c < d
          /\ \A e \in Listed : c <= e /\ e < d => is_referenced[e]
          /\ d <= num_entries =>
               /\ LeftLocked(d)
               /\ \A e \in Listed : c <= e /\ e < d => is_loaded[e]
    BY <1>1, <1>2, AtCurrent, Zenon
  <2>2. c + 1 <= d /\ (d <= num_entries => d \in Listed)
    BY <1>4, <2>1 DEF Listed
  <2>3. /\ num_entries' = num_entries
        /\ \A e \in Listed : c + 1 <= e /\ e < d => is_referenced'[e]
        /\ d <= num_entries =>
             /\ LeftLocked(d)'
             /\ \A e \in Listed : c + 1 <= e /\ e < d => is_loaded'[e]
    BY <1>2, <1>4, <1>5, <1>6, <2>1, <2>2
  <2> QED
    BY <1>3, <1>5, <2>1, <2>2, <2>3, Zenon DEF ClearAhead, Passing
<1> QED
  BY <1>7, <1>8

\* A pass leaves an entry without a map locked, and unlocks the one before it.
LEMMA UnloadedStep ==
  ASSUME CacheInv, EvictUnloaded
  PROVE  FreshStart' /\ ClearAhead'
<1>1. PICK c : c = Current
  OBVIOUS
<1>2. /\ Scanning /\ NextIteration /\ ~is_loaded[c]
      /\ \/ lock' = [lock EXCEPT ![c] = TRUE]
         \/ /\ Prev(c) # None
            /\ lock' = [lock EXCEPT ![c] = TRUE, ![Prev(c)] = FALSE]
      /\ UNCHANGED << num_entries, is_loaded, is_referenced, load >>
  BY <1>1, Zenon DEF EvictUnloaded, listVars, mapVars, refVars
<1>3. /\ writer' = writer
      /\ left' > 0 => Current' = c + 1
  BY <1>1, <1>2, IterationStep, Zenon DEF CacheInv
<1>4. /\ c \in Listed /\ c \in Int /\ num_entries \in Int
      /\ \A e \in Listed : e \in Entries /\ e \in Int /\ (c + 1 <= e => c <= e)
      /\ Prev(c) # None => Prev(c) = c + 1
  <2>1. c \in Listed /\ c \in Int /\ num_entries \in Int
    BY <1>1, <1>2, AtCurrent, Zenon
  <2>2. num_entries \in 0..MaxEntries
    BY DEF CacheInv, TypeOK
  <2> QED
    BY <2>1, <2>2, CacheAssumption DEF Listed, Entries, Prev
<1>5. /\ Listed' = Listed
      /\ lock'[c]
      /\ \A e \in Listed : e < c => lock'[e] = lock[e]
  <2>1. lock \in [Entries -> BOOLEAN]
    BY DEF CacheInv, TypeOK
  <2>2. \A e \in Listed : e < c => e # c /\ e # c + 1
    BY <1>4
  <2>3. c # c + 1
    BY <1>4
  <2>4. CASE lock' = [lock EXCEPT ![c] = TRUE]
    BY <1>2, <1>4, <2>1, <2>2, <2>4, Zenon DEF Listed
  <2>5. CASE lock' = [lock EXCEPT ![c] = TRUE, ![c + 1] = FALSE]
    BY <1>2, <1>4, <2>1, <2>2, <2>3, <2>5, Zenon DEF Listed
  <2> QED
    BY <1>2, <1>4, <2>4, <2>5, Zenon
<1>6. /\ \A e \in Listed : e < c => (LeftLocked(e) => LeftLocked(e)')
      /\ \A e \in Listed : e < c => (Untouched(e) => Untouched(e)')
      /\ Untouched(c) => LeftLocked(c)'
  <2>1. ~lock[c]
    BY <1>1, <1>2, Zenon DEF Scanning
  <2> QED
    BY <1>2, <1>4, <1>5, <2>1 DEF LeftLocked, Untouched
<1>7. FreshStart'
  <2>1. CASE /\ \A e \in Listed : Untouched(e)
             /\ \A e \in Listed : e < c => is_loaded[e]
    <3>1. LeftLocked(c)' /\ \A e \in Listed : e < c => is_loaded'[e] /\ Untouched(e)'
      BY <1>2, <1>4, <1>6, <2>1, Zenon
    <3> QED
      BY <1>4, <1>5, <3>1, Zenon DEF FreshStart
  <2>2. ASSUME NEW b \in Listed, b # c, LeftLocked(b),
               \A e \in Listed : e < b => is_loaded[e] /\ Untouched(e)
        PROVE  FreshStart'
    <3>1. ~ (c < b)
      BY <1>2, <1>4, <2>2, Zenon
    <3>2. b < c /\ \A e \in Listed : e < b => e < c
      BY <1>4, <2>2, <3>1
    <3>3. LeftLocked(b)' /\ \A e \in Listed : e < b => is_loaded'[e] /\ Untouched(e)'
      BY <1>2, <1>6, <2>2, <3>2, Zenon
    <3> QED
      BY <1>5, <3>3, Zenon DEF FreshStart
  <2> QED
    BY <1>1, <1>2, <2>1, <2>2, AtCurrent, Zenon
<1>8. ClearAhead'
  <2>1. PICK d \in 1..(num_entries + 1) :
          /\ c < d
          /\ \A e \in Listed : c <= e /\ e < d => is_referenced[e]
          /\ d <= num_entries =>
               /\ LeftLocked(d)
               /\ \A e \in Listed : c <= e /\ e < d => is_loaded[e]
    BY <1>1, <1>2, AtCurrent, Zenon
  <2>2. c + 1 <= d /\ c <= c
    BY <1>4, <2>1
  <2>3. ~ (d <= num_entries)
    BY <1>2, <1>4, <2>1, <2>2, Zenon
  <2>4. \A e \in Listed : c + 1 <= e /\ e < d => is_referenced'[e]
    BY <1>2, <1>4, <2>1, Zenon
  <2> QED
    BY <1>2, <1>3, <1>5, <2>1, <2>2, <2>3, <2>4, Zenon DEF ClearAhead, Passing
<1> QED
  BY <1>7, <1>8

\* An open while no pass is under way: the new entry has its bit, and its load
\* task has not begun.
LEMMA OpenStep ==
  ASSUME CacheInv, Open
  PROVE  FreshStart' /\ ClearAhead'
<1>1. CASE OpenOutOfMemory \/ OpenRefused
  <2>1. UNCHANGED << num_entries, passVars, is_loaded, is_referenced, lock, load >>
    BY <1>1, Zenon DEF OpenOutOfMemory, OpenRefused, vars, listVars, mapVars, refVars
  <2> QED
    BY <2>1, QuietStep, Zenon DEF LeftLocked, Untouched, CacheInv
<1>2. CASE OpenScheduled
  <2>1. PICK n : n = num_entries + 1
    OBVIOUS
  <2>2. /\ num_entries \in 0..MaxEntries /\ MaxEntries \in Nat /\ num_entries < MaxEntries
        /\ num_entries' = n /\ ~Passing /\ ~Passing'
        /\ is_referenced' = [is_referenced EXCEPT ![n] = TRUE]
        /\ load' = [load EXCEPT ![n] = "queued"]
        /\ UNCHANGED << is_loaded, lock >>
        /\ load \in [Entries -> Stages] /\ is_referenced \in [Entries -> BOOLEAN]
    BY <1>2, <2>1, CacheAssumption, Zenon DEF OpenScheduled, Opening, New, Passing,
       passVars,
      mapVars, CacheInv, TypeOK
  <2>3. /\ n \in Entries
        /\ \A e \in Listed : e \in Entries /\ e # n /\ e \in Listed' /\ e < n
        /\ \A e \in Listed' : e = n \/ e \in Listed
    BY <2>1, <2>2 DEF Listed, Entries
  <2>4. /\ \A e \in Listed : Untouched(e) => Untouched(e)'
        /\ \A e \in Listed : LeftLocked(e) => LeftLocked(e)'
        /\ Untouched(n)'
    BY <2>2, <2>3 DEF Untouched, LeftLocked
  <2>5. CASE \A e \in Listed : Untouched(e)
    BY <2>2, <2>3, <2>4, <2>5, Zenon DEF FreshStart, ClearAhead
  <2>6. CASE \E b \in Listed :
               /\ LeftLocked(b)
               /\ \A e \in Listed : e < b => is_loaded[e] /\ Untouched(e)
    <3>1. PICK b \in Listed :
            /\ LeftLocked(b)
            /\ \A e \in Listed : e < b => is_loaded[e] /\ Untouched(e)
      BY <2>6
    <3>2. ~ (n < b)
      BY <2>1, <2>2, <2>3 DEF Listed
    <3>3. \A e \in Listed' : e < b => is_loaded'[e] /\ Untouched(e)'
      BY <2>2, <2>3, <2>4, <3>1, <3>2, Zenon
    <3> QED
      BY <2>2, <2>3, <2>4, <3>1, <3>3, Zenon DEF FreshStart, ClearAhead
  <2> QED
    BY <2>5, <2>6, Zenon DEF FreshStart, CacheInv
<1> QED
  BY <1>1, <1>2 DEF Open

\* The pass that a load task begins: it is at the tail, and stops where the
\* first entry is left locked.
LEMMA BeginStep ==
  ASSUME CacheInv, NEW e \in Entries, EvictBegin(e)
  PROVE  FreshStart' /\ ClearAhead'
<1>1. /\ num_entries' = num_entries /\ Current' = 1
      /\ load \in [Entries -> Stages] /\ load[e] = "unlocked"
      /\ load' = [load EXCEPT ![e] = "evicting"]
      /\ UNCHANGED << is_loaded, is_referenced, lock >>
  BY Zenon DEF EvictBegin, CacheInv, TypeOK, Current, TailEntry, None, listVars, mapVars,
     refVars
<1>2. /\ num_entries \in Int /\ 0 <= num_entries
      /\ \A f \in Listed : f \in Entries /\ f \in Int /\ 1 <= f /\ f <= num_entries
  <2>1. num_entries \in 0..MaxEntries
    BY DEF CacheInv, TypeOK
  <2> QED
    BY <2>1, CacheAssumption DEF Listed, Entries
<1>3. /\ Listed' = Listed
      /\ \A f \in Listed :
           /\ Untouched(f) => Untouched(f)' /\ is_referenced'[f]
           /\ LeftLocked(f) => LeftLocked(f)'
  BY <1>1, <1>2 DEF Listed, Untouched, LeftLocked
<1>4. CASE \A f \in Listed : Untouched(f)
  <2>1. \A f \in Listed : ~ (f < 1)
    BY <1>2
  <2>2. FreshStart'
    BY <1>1, <1>3, <1>4, <2>1, Zenon DEF FreshStart
  <2>3. /\ num_entries + 1 \in 1..(num_entries + 1) /\ 1 <= num_entries + 1
        /\ ~ (num_entries + 1 <= num_entries)
    BY <1>2
  <2>4. ClearAhead'
    BY <1>1, <1>3, <1>4, <2>3, Zenon DEF ClearAhead
  <2> QED
    BY <2>2, <2>4
<1>5. ASSUME NEW b \in Listed, LeftLocked(b),
             \A f \in Listed : f < b => is_loaded[f] /\ Untouched(f)
      PROVE  FreshStart' /\ ClearAhead'
  <2>1. \A f \in Listed : f < b => is_loaded'[f] /\ Untouched(f)' /\ is_referenced'[f]
    BY <1>1, <1>3, <1>5, Zenon
  <2>2. FreshStart'
    BY <1>3, <1>5, <2>1, Zenon DEF FreshStart
  <2>3. b \in 1..(num_entries + 1) /\ 1 <= b
    BY <1>2
  <2>4. ClearAhead'
    BY <1>1, <1>3, <1>5, <2>1, <2>3, Zenon DEF ClearAhead
  <2> QED
    BY <2>2, <2>4
<1> QED
  BY <1>4, <1>5, Zenon DEF FreshStart, CacheInv

\* The other steps of a load task: they lock and unlock its own entry, whose
\* mutex the task has, and take no bit.
LEMMA LoadStep ==
  ASSUME CacheInv, NEW e \in Entries, LoadStart(e) \/ LoadTask(e)
  PROVE  FreshStart' /\ ClearAhead'
<1>1. /\ lock \in [Entries -> BOOLEAN] /\ is_loaded \in [Entries -> BOOLEAN]
      /\ is_referenced \in [Entries -> BOOLEAN] /\ load \in [Entries -> Stages]
      /\ FreshStart /\ ClearAhead
  BY Zenon DEF CacheInv, TypeOK
<1>2. \A f \in Listed : f \in Entries
  <2>1. num_entries \in 0..MaxEntries
    BY DEF CacheInv, TypeOK
  <2> QED
    BY <2>1, CacheAssumption DEF Listed, Entries
<1> DEFINE Quiet(f) == /\ is_loaded[f] => is_loaded'[f]
                       /\ is_referenced[f] => is_referenced'[f]
                       /\ LeftLocked(f) => LeftLocked(f)'
                       /\ Untouched(f) => Untouched(f)'
<1> USE DEF listVars, mapVars, refVars, LeftLocked, Untouched
<1>3. CASE LoadBegin(e)
  <2>1. \A f \in Entries : Quiet(f)
    BY <1>1, <1>3 DEF LoadBegin
  <2> QED
    BY <1>1, <1>2, <1>3, <2>1, QuietStep, Zenon DEF LoadBegin
<1>4. CASE LoadFails(e)
  <2>1. \A f \in Entries : Quiet(f)
    BY <1>1, <1>4 DEF LoadFails
  <2> QED
    BY <1>1, <1>2, <1>4, <2>1, QuietStep, Zenon DEF LoadFails
<1>5. CASE LoadSucceeds(e)
  <2>1. \A f \in Entries : Quiet(f)
    BY <1>1, <1>5 DEF LoadSucceeds
  <2> QED
    BY <1>1, <1>2, <1>5, <2>1, QuietStep, Zenon DEF LoadSucceeds
<1>6. CASE ScheduleWaiter(e)
  <2>1. \A f \in Entries : Quiet(f)
    BY <1>1, <1>6 DEF ScheduleWaiter
  <2> QED
    BY <1>1, <1>2, <1>6, <2>1, QuietStep, Zenon DEF ScheduleWaiter
<1>7. CASE \E bit \in BOOLEAN : ScheduleFails(e, bit)
  <2>1. \A f \in Entries : Quiet(f)
    BY <1>1, <1>7 DEF ScheduleFails
  <2> QED
    BY <1>1, <1>2, <1>7, <2>1, QuietStep, Zenon DEF ScheduleFails
<1>8. CASE SkipEvict(e)
  <2>1. \A f \in Entries : Quiet(f)
    BY <1>1, <1>8 DEF SkipEvict
  <2> QED
    BY <1>1, <1>2, <1>8, <2>1, QuietStep, Zenon DEF SkipEvict
<1>9. CASE LoadStart(e)
  <2>1. \A f \in Entries : Quiet(f)
    BY <1>1, <1>9 DEF LoadStart
  <2> QED
    BY <1>1, <1>2, <1>9, <2>1, QuietStep, Zenon DEF LoadStart
<1> QED
  BY <1>3, <1>4, <1>5, <1>6, <1>7, <1>8, <1>9, BeginStep, Zenon DEF LoadTask

\* Every step of the cache, and every task of a send, keeps what a pass leaves
\* behind and what it meets.
LEMMA CacheStep ==
  ASSUME CacheInv, [SendNext]_allVars
  PROVE  CacheInv'
<1>1. TypeOK' /\ PassOK'
  BY TypeStep, Zenon DEF CacheInv
<1> SUFFICES FreshStart' /\ ClearAhead'
  BY <1>1, Zenon DEF CacheInv
<1>2. ASSUME UNCHANGED << num_entries, passVars, is_loaded, is_referenced, lock, load >>
      PROVE  FreshStart' /\ ClearAhead'
  BY <1>2, QuietStep, Zenon DEF LeftLocked, Untouched, CacheInv
<1>3. CASE UNCHANGED vars
  BY <1>2, <1>3, Zenon DEF vars, listVars, mapVars, refVars
<1>4. CASE CacheNext
  <2>1. CASE EvictEnd
    <3>1. ~Passing' /\ num_entries' = num_entries
      BY <2>1, Zenon DEF EvictEnd, Passing, listVars
    <3>2. \A e \in Entries :
            /\ Untouched(e) => Untouched(e)'
            /\ LeftLocked(e) => LeftLocked(e)'
            /\ is_loaded[e] => is_loaded'[e]
      BY <2>1 DEF EvictEnd, Untouched, LeftLocked, CacheInv, TypeOK, mapVars, refVars
    <3>3. Listed' = Listed /\ \A e \in Listed : e \in Entries
      <4>1. num_entries \in 0..MaxEntries
        BY DEF CacheInv, TypeOK
      <4> QED
        BY <3>1, <4>1, CacheAssumption DEF Listed, Entries
    <3> QED
      BY <3>1, <3>2, <3>3, Zenon DEF FreshStart, ClearAhead, CacheInv
  <2>2. CASE tc_map_cache_finalize
    BY <1>2, <2>2, Zenon DEF tc_map_cache_finalize, listVars, mapVars, refVars
  <2> QED
    BY <1>4, <2>1, <2>2, OpenStep, LoadStep, UnloadedStep, ReferencedStep, InUseStep, Zenon
      DEF CacheNext, Evict
<1>5. CASE \E e \in Entries : StartCompress(e) \/ SendTask(e)
  <2>1. \/ UNCHANGED vars
        \/ \E e \in Entries : SetupAborts(e) \/ \E n \in {1, 2} : tc_map_unref(e, n)
    BY <1>5, SendKeepsCache, Zenon
  <2> QED
    BY <1>2, <1>3, <2>1, Zenon DEF tc_map_unref, SetupAborts, listVars, mapVars, refVars
<1> QED
  BY <1>3, <1>4, <1>5, StepSplit, Zenon DEF allVars

\* The invariant of the cache.
THEOREM CacheInvariant == SendSpec => []CacheInv
<1>1. SendInit => CacheInv
  <2> SUFFICES ASSUME SendInit PROVE CacheInv
    OBVIOUS
  <2>1. /\ num_entries = 0 /\ left = 0 /\ writer = None /\ current_entry = None
        /\ MaxEntries \in Nat /\ 0 \in 0..MaxEntries
    BY CacheAssumption DEF SendInit, Init
  <2>2. TypeOK
    BY <2>1 DEF SendInit, Init, TypeOK, Stages, None
  <2>3. PassOK /\ Listed = {}
    BY <2>1 DEF PassOK, Listed
  <2> QED
    BY <2>1, <2>2, <2>3, Zenon DEF CacheInv, FreshStart, ClearAhead, Passing
<1>2. CacheInv /\ [SendNext]_allVars => CacheInv'
  BY CacheStep
<1> QED
  BY <1>1, <1>2, PTL DEF SendSpec

\* Types, whatever the opens and the passes.
THEOREM CacheTypes == SendSpec => []TypeOK
<1>1. CacheInv => TypeOK
  BY DEF CacheInv
<1> QED
  BY <1>1, CacheInvariant, PTL

\* A pass of tc_map_cache_evict never meets a map that it would evict: one
\* that is loaded, closed and without its reference bit.  The branch that
\* evicts is dead code, for any threshold and any number of opens: this is
\* what PassEvicts fails on, and why SendNext does without EvictClosed.
THEOREM PassEvictsNothing == SendSpec => []NothingToEvict
<1>1. CacheInv => NothingToEvict
  BY AtCurrent, Zenon DEF NothingToEvict
<1> QED
  BY <1>1, CacheInvariant, PTL

-----------------------------------------------------------------------------
(* The sends *)

\* What the sends need of the types.
LEMMA SendTypes ==
  ASSUME SendInv
  PROVE  /\ load \in [Entries -> Stages]
         /\ waiter \in [Entries -> {"none", "waiting", "failed", "opened"}]
         /\ open_count \in [Entries -> Int]
         /\ stage \in [Entries -> SendStages]
         /\ readers \in [Entries -> Int]
         /\ num_entries \in Int
         /\ \A e \in Entries : e \in Int /\ e # None
<1>1. num_entries \in 0..MaxEntries
  BY Zenon DEF SendInv, TypeOK
<1>2. num_entries \in Int /\ \A e \in Entries : e \in Int /\ e # None
  BY <1>1, CacheAssumption DEF Entries, None
<1> QED
  BY <1>2, Zenon DEF SendInv, TypeOK

\* A step that leaves an entry and its send alone.
LEMMA LeftAlone ==
  ASSUME NEW f \in Entries, WaiterOK(f), SendOK(f),
         f > num_entries' => f > num_entries,
         writer' = f => writer = f,
         load'[f] = load[f], waiter'[f] = waiter[f], open_count'[f] = open_count[f],
         stage'[f] = stage[f], readers'[f] = readers[f],
         f \in refused => f \in refused'
  PROVE  WaiterOK(f)' /\ SendOK(f)'
<1>1. WaiterOK(f)'
  BY Zenon DEF WaiterOK
<1>2. SendOK(f)'
  BY Zenon DEF SendOK, Opened
<1> QED
  BY <1>1, <1>2

\* The load task gives its map away once, with one reference.
LEMMA LoadKeepsSends ==
  ASSUME SendInv, NEW e \in Entries, LoadStart(e) \/ LoadTask(e), UNCHANGED sendVars,
         NEW f \in Entries
  PROVE  WaiterOK(f)' /\ SendOK(f)'
<1> USE DEF listVars, passVars, mapVars, refVars, sendVars
<1>1. /\ load \in [Entries -> Stages]
      /\ waiter \in [Entries -> {"none", "waiting", "failed", "opened"}]
      /\ open_count \in [Entries -> Int]
      /\ num_entries \in Int /\ e \in Int /\ f \in Int /\ e # None
  BY SendTypes, Zenon
<1>2. WaiterOK(f) /\ SendOK(f) /\ WaiterOK(e)
  BY Zenon DEF SendInv
<1>3. CASE LoadBegin(e)
  <2>1. f # e => load'[f] = load[f] /\ waiter'[f] = waiter[f] /\ open_count'[f] = open_count[f]
    BY <1>3, <1>1, Zenon DEF LoadBegin
  <2>2. ASSUME f = e PROVE WaiterOK(f)' /\ SendOK(f)'
    BY <1>3, <1>1, <1>2, <2>2 DEF LoadBegin, WaiterOK, SendOK, Opened, Stages
  <2> QED
    BY <1>3, <1>2, <2>1, <2>2, LeftAlone, Zenon DEF LoadBegin
<1>4. CASE LoadFails(e)
  <2>1. f # e => load'[f] = load[f] /\ waiter'[f] = waiter[f] /\ open_count'[f] = open_count[f]
    BY <1>4, <1>1, Zenon DEF LoadFails
  <2>2. ASSUME f = e PROVE WaiterOK(f)' /\ SendOK(f)'
    BY <1>4, <1>1, <1>2, <2>2 DEF LoadFails, WaiterOK, SendOK, Opened, Stages
  <2> QED
    BY <1>4, <1>2, <2>1, <2>2, LeftAlone, Zenon DEF LoadFails
<1>5. CASE LoadSucceeds(e)
  <2>1. f # e => load'[f] = load[f] /\ waiter'[f] = waiter[f] /\ open_count'[f] = open_count[f]
    BY <1>5, <1>1, Zenon DEF LoadSucceeds
  <2>2. ASSUME f = e PROVE WaiterOK(f)' /\ SendOK(f)'
    BY <1>5, <1>1, <1>2, <2>2 DEF LoadSucceeds, WaiterOK, SendOK, Opened, Stages
  <2> QED
    BY <1>5, <1>2, <2>1, <2>2, LeftAlone, Zenon DEF LoadSucceeds
<1>6. CASE ScheduleWaiter(e)
  <2>1. f # e => load'[f] = load[f] /\ waiter'[f] = waiter[f] /\ open_count'[f] = open_count[f]
    BY <1>6, <1>1, Zenon DEF ScheduleWaiter
  <2>2. ASSUME f = e PROVE WaiterOK(f)' /\ SendOK(f)'
    BY <1>6, <1>1, <1>2, <2>2 DEF ScheduleWaiter, WaiterOK, SendOK, Opened, Stages
  <2> QED
    BY <1>6, <1>2, <2>1, <2>2, LeftAlone, Zenon DEF ScheduleWaiter
<1>7. CASE SkipEvict(e)
  <2>1. f # e => load'[f] = load[f] /\ waiter'[f] = waiter[f] /\ open_count'[f] = open_count[f]
    BY <1>7, <1>1, Zenon DEF SkipEvict
  <2>2. ASSUME f = e PROVE WaiterOK(f)' /\ SendOK(f)'
    BY <1>7, <1>1, <1>2, <2>2 DEF SkipEvict, WaiterOK, SendOK, Opened, Stages
  <2> QED
    BY <1>7, <1>2, <2>1, <2>2, LeftAlone, Zenon DEF SkipEvict
<1>8. CASE EvictBegin(e)
  <2>1. f # e => load'[f] = load[f] /\ waiter'[f] = waiter[f] /\ open_count'[f] = open_count[f]
    BY <1>8, <1>1, Zenon DEF EvictBegin
  <2>2. ASSUME f = e PROVE WaiterOK(f)' /\ SendOK(f)'
    BY <1>8, <1>1, <1>2, <2>2 DEF EvictBegin, WaiterOK, SendOK, Opened, Stages
  <2> QED
    BY <1>8, <1>2, <2>1, <2>2, LeftAlone, Zenon DEF EvictBegin
<1>9. CASE \E bit \in BOOLEAN : ScheduleFails(e, bit)
  <2>1. f # e => load'[f] = load[f] /\ waiter'[f] = waiter[f] /\ open_count'[f] = open_count[f]
    BY <1>9, <1>1, Zenon DEF ScheduleFails
  <2>2. ASSUME f = e PROVE WaiterOK(f)' /\ SendOK(f)'
    BY <1>9, <1>1, <1>2, <2>2 DEF ScheduleFails, WaiterOK, SendOK, Opened, Stages
  <2> QED
    BY <1>9, <1>2, <2>1, <2>2, LeftAlone, Zenon DEF ScheduleFails
<1>10. CASE LoadStart(e)
  <2>1. f # e => load'[f] = load[f] /\ waiter'[f] = waiter[f] /\ open_count'[f] = open_count[f]
    BY <1>10, <1>1, Zenon DEF LoadStart
  <2>2. ASSUME f = e PROVE WaiterOK(f)' /\ SendOK(f)'
    BY <1>10, <1>1, <1>2, <2>2 DEF LoadStart, WaiterOK, SendOK, Opened, Stages
  <2> QED
    BY <1>10, <1>2, <2>1, <2>2, LeftAlone, Zenon DEF LoadStart
<1> QED
  BY <1>3, <1>4, <1>5, <1>6, <1>7, <1>8, <1>9, <1>10, Zenon DEF LoadTask

\* Opens and passes leave the sends alone.
LEMMA CacheKeepsSends ==
  ASSUME SendInv, Open \/ Evict \/ tc_map_cache_finalize, UNCHANGED sendVars,
         NEW f \in Entries
  PROVE  WaiterOK(f)' /\ SendOK(f)'
<1> USE DEF listVars, passVars, mapVars, refVars, sendVars
<1>1. /\ load \in [Entries -> Stages]
      /\ waiter \in [Entries -> {"none", "waiting", "failed", "opened"}]
      /\ num_entries \in Int /\ f \in Int /\ f # None
  BY SendTypes, Zenon
<1>2. WaiterOK(f) /\ SendOK(f)
  BY Zenon DEF SendInv
<1>3. CASE OpenScheduled
  <2>1. PICK n : n = num_entries + 1
    OBVIOUS
  <2>2. /\ num_entries' = n
        /\ load' = [load EXCEPT ![n] = "queued"]
        /\ waiter' = [waiter EXCEPT ![n] = "waiting"]
        /\ writer' = writer /\ open_count' = open_count
    BY <1>3, <2>1, Zenon DEF OpenScheduled, New
  <2>3. (f > n => f > num_entries) /\ (f = n => ~ (f > n) /\ f > num_entries)
    BY <1>1, <2>1
  <2>4. CASE f = n
    <3>1. load'[f] = "queued" /\ waiter'[f] = "waiting" /\ load[f] = "none"
      BY <1>1, <1>2, <2>2, <2>3, <2>4 DEF WaiterOK
    <3> QED
      BY <1>2, <2>2, <2>3, <2>4, <3>1, Zenon DEF WaiterOK, SendOK, Opened
  <2>5. CASE f # n
    <3>1. load'[f] = load[f] /\ waiter'[f] = waiter[f]
      BY <1>1, <2>2, <2>5, Zenon
    <3> QED
      BY <1>2, <2>2, <2>3, <3>1, LeftAlone, Zenon
  <2> QED
    BY <2>4, <2>5
<1>4. CASE EvictEnd
  <2>1. f # writer => load'[f] = load[f]
    BY <1>1, <1>4, Zenon DEF EvictEnd
  <2>2. CASE f = writer
    <3>1. load'[f] = "done"
      BY <1>1, <1>4, <2>2, Zenon DEF EvictEnd
    <3> QED
      BY <1>2, <1>4, <2>2, <3>1 DEF EvictEnd, WaiterOK, SendOK, Opened
  <2>3. CASE f # writer
    BY <1>1, <1>2, <1>4, <2>1, <2>3, LeftAlone, Zenon DEF EvictEnd
  <2> QED
    BY <2>2, <2>3
<1>5. CASE /\ ~OpenScheduled /\ ~EvictEnd
           /\ Open \/ Evict \/ tc_map_cache_finalize
  <2>1. UNCHANGED << num_entries, writer, load, waiter, open_count, sendVars >>
    BY <1>5, Zenon DEF Open, OpenOutOfMemory, OpenRefused, Evict, EvictUnloaded,
       EvictReferenced,
      EvictInUse, NextIteration, tc_map_cache_finalize, vars
  <2> QED
    BY <1>2, <2>1, LeftAlone, Zenon
<1> QED
  BY <1>3, <1>4, <1>5, Zenon

\* Each task of a send takes and gives back what the stage it leads to says.
LEMMA SendStep ==
  ASSUME SendInv, NEW e \in Entries, StartCompress(e) \/ SendTask(e), NEW f \in Entries
  PROVE  /\ stage' \in [Entries -> SendStages] /\ readers' \in [Entries -> Int]
         /\ WaiterOK(f)' /\ SendOK(f)'
<1> USE DEF vars, listVars, passVars, mapVars, refVars, tc_map_unref
<1>1. /\ stage \in [Entries -> SendStages]
      /\ open_count \in [Entries -> Int]
      /\ readers \in [Entries -> Int]
  BY SendTypes, Zenon
<1>2. WaiterOK(f) /\ SendOK(f)
  BY Zenon DEF SendInv
<1>3. CASE Compress(e)
  <2>1. stage' \in [Entries -> SendStages] /\ readers' \in [Entries -> Int]
    BY <1>3, <1>1 DEF Compress, SendStages
  <2>2. f # e => stage'[f] = stage[f] /\ readers'[f] = readers[f] /\ open_count'[f] = open_count[f]
    BY <1>3, <1>1, Zenon DEF Compress
  <2>3. UNCHANGED << num_entries, writer, load, waiter >> /\ (f # e => (f \in refused => f \in refused'))
    BY <1>3 DEF Compress
  <2>4. ASSUME f = e PROVE WaiterOK(f)' /\ SendOK(f)'
    BY <1>3, <1>1, <1>2, <2>3, <2>4 DEF Compress, WaiterOK, SendOK, Opened
  <2> QED
    BY <1>2, <2>1, <2>2, <2>3, <2>4, LeftAlone, Zenon
<1>4. CASE CompressFails(e)
  <2>1. stage' \in [Entries -> SendStages] /\ readers' \in [Entries -> Int]
    BY <1>4, <1>1 DEF CompressFails, SendStages
  <2>2. f # e => stage'[f] = stage[f] /\ readers'[f] = readers[f] /\ open_count'[f] = open_count[f]
    BY <1>4, <1>1, Zenon DEF CompressFails
  <2>3. UNCHANGED << num_entries, writer, load, waiter >> /\ (f # e => (f \in refused => f \in refused'))
    BY <1>4 DEF CompressFails
  <2>4. ASSUME f = e PROVE WaiterOK(f)' /\ SendOK(f)'
    BY <1>4, <1>1, <1>2, <2>3, <2>4 DEF CompressFails, WaiterOK, SendOK, Opened
  <2> QED
    BY <1>2, <2>1, <2>2, <2>3, <2>4, LeftAlone, Zenon
<1>5. CASE SetupGone(e)
  <2>1. stage' \in [Entries -> SendStages] /\ readers' \in [Entries -> Int]
    BY <1>5, <1>1 DEF SetupGone, SendStages
  <2>2. f # e => stage'[f] = stage[f] /\ readers'[f] = readers[f] /\ open_count'[f] = open_count[f]
    BY <1>5, <1>1, Zenon DEF SetupGone
  <2>3. UNCHANGED << num_entries, writer, load, waiter >> /\ (f # e => (f \in refused => f \in refused'))
    BY <1>5 DEF SetupGone
  <2>4. ASSUME f = e PROVE WaiterOK(f)' /\ SendOK(f)'
    BY <1>5, <1>1, <1>2, <2>3, <2>4 DEF SetupGone, WaiterOK, SendOK, Opened
  <2> QED
    BY <1>2, <2>1, <2>2, <2>3, <2>4, LeftAlone, Zenon
<1>6. CASE Setup(e)
  <2>1. stage' \in [Entries -> SendStages] /\ readers' \in [Entries -> Int]
    BY <1>6, <1>1 DEF Setup, SendStages
  <2>2. f # e => stage'[f] = stage[f] /\ readers'[f] = readers[f] /\ open_count'[f] = open_count[f]
    BY <1>6, <1>1, Zenon DEF Setup
  <2>3. UNCHANGED << num_entries, writer, load, waiter >> /\ (f # e => (f \in refused => f \in refused'))
    BY <1>6 DEF Setup
  <2>4. ASSUME f = e PROVE WaiterOK(f)' /\ SendOK(f)'
    BY <1>6, <1>1, <1>2, <2>3, <2>4 DEF Setup, WaiterOK, SendOK, Opened
  <2> QED
    BY <1>2, <2>1, <2>2, <2>3, <2>4, LeftAlone, Zenon
<1>7. CASE handle_failure(e)
  <2>1. stage' \in [Entries -> SendStages] /\ readers' \in [Entries -> Int]
    BY <1>7, <1>1 DEF handle_failure, SendStages
  <2>2. f # e => stage'[f] = stage[f] /\ readers'[f] = readers[f] /\ open_count'[f] = open_count[f]
    BY <1>7, <1>1, Zenon DEF handle_failure
  <2>3. UNCHANGED << num_entries, writer, load, waiter >> /\ (f # e => (f \in refused => f \in refused'))
    BY <1>7 DEF handle_failure
  <2>4. ASSUME f = e PROVE WaiterOK(f)' /\ SendOK(f)'
    BY <1>7, <1>1, <1>2, <2>3, <2>4 DEF handle_failure, WaiterOK, SendOK, Opened
  <2> QED
    BY <1>2, <2>1, <2>2, <2>3, <2>4, LeftAlone, Zenon
<1>8. CASE handle_success(e)
  <2>1. stage' \in [Entries -> SendStages] /\ readers' \in [Entries -> Int]
    BY <1>8, <1>1 DEF handle_success, SendStages
  <2>2. f # e => stage'[f] = stage[f] /\ readers'[f] = readers[f] /\ open_count'[f] = open_count[f]
    BY <1>8, <1>1, Zenon DEF handle_success
  <2>3. UNCHANGED << num_entries, writer, load, waiter >> /\ (f # e => (f \in refused => f \in refused'))
    BY <1>8 DEF handle_success
  <2>4. ASSUME f = e PROVE WaiterOK(f)' /\ SendOK(f)'
    BY <1>8, <1>1, <1>2, <2>3, <2>4 DEF handle_success, WaiterOK, SendOK, Opened
  <2> QED
    BY <1>2, <2>1, <2>2, <2>3, <2>4, LeftAlone, Zenon
<1>9. CASE SuccessRefused(e)
  <2>1. stage' \in [Entries -> SendStages] /\ readers' \in [Entries -> Int]
    BY <1>9, <1>1 DEF SuccessRefused, SendStages
  <2>2. f # e => stage'[f] = stage[f] /\ readers'[f] = readers[f] /\ open_count'[f] = open_count[f]
    BY <1>9, <1>1, Zenon DEF SuccessRefused
  <2>3. UNCHANGED << num_entries, writer, load, waiter >> /\ (f # e => (f \in refused => f \in refused'))
    BY <1>9 DEF SuccessRefused
  <2>4. ASSUME f = e PROVE WaiterOK(f)' /\ SendOK(f)'
    BY <1>9, <1>1, <1>2, <2>3, <2>4 DEF SuccessRefused, WaiterOK, SendOK, Opened
  <2> QED
    BY <1>2, <2>1, <2>2, <2>3, <2>4, LeftAlone, Zenon
<1>10. CASE Lobby(e)
  <2>1. stage' \in [Entries -> SendStages] /\ readers' \in [Entries -> Int]
    BY <1>10, <1>1 DEF Lobby, SendStages
  <2>2. f # e => stage'[f] = stage[f] /\ readers'[f] = readers[f] /\ open_count'[f] = open_count[f]
    BY <1>10, <1>1, Zenon DEF Lobby
  <2>3. UNCHANGED << num_entries, writer, load, waiter >> /\ (f # e => (f \in refused => f \in refused'))
    BY <1>10 DEF Lobby
  <2>4. ASSUME f = e PROVE WaiterOK(f)' /\ SendOK(f)'
    BY <1>10, <1>1, <1>2, <2>3, <2>4 DEF Lobby, WaiterOK, SendOK, Opened
  <2> QED
    BY <1>2, <2>1, <2>2, <2>3, <2>4, LeftAlone, Zenon
<1>11. CASE StartCompress(e)
  <2>1. stage' \in [Entries -> SendStages] /\ readers' \in [Entries -> Int]
    BY <1>11, <1>1 DEF StartCompress, SendStages
  <2>2. f # e => stage'[f] = stage[f] /\ readers'[f] = readers[f] /\ open_count'[f] = open_count[f]
    BY <1>11, <1>1, Zenon DEF StartCompress
  <2>3. UNCHANGED << num_entries, writer, load, waiter, open_count, readers, refused >>
    BY <1>11 DEF StartCompress
  <2>4. ASSUME f = e PROVE WaiterOK(f)' /\ SendOK(f)'
    BY <1>11, <1>1, <1>2, <2>3, <2>4 DEF StartCompress, WaiterOK, SendOK, Opened
  <2> QED
    BY <1>2, <2>1, <2>2, <2>3, <2>4, LeftAlone, Zenon
<1>12. CASE SetupAborts(e)
  <2>1. UNCHANGED << num_entries, writer, load, waiter, open_count, stage, readers, refused >>
    BY <1>12 DEF SetupAborts, sendVars
  <2> QED
    BY <1>1, <1>2, <2>1, LeftAlone, Zenon
<1> QED
  BY <1>3, <1>4, <1>5, <1>6, <1>7, <1>8, <1>9, <1>10, <1>11, <1>12, Zenon DEF SendTask

\* The invariant of the sends.
THEOREM SendInvariant == SendSpec => []SendInv
<1>1. SendInit => SendInv
  <2> SUFFICES ASSUME SendInit PROVE SendInv
    OBVIOUS
  <2>1. TypeOK /\ PassOK
    <3>1. /\ num_entries = 0 /\ left = 0 /\ writer = None /\ current_entry = None
          /\ MaxEntries \in Nat /\ 0 \in 0..MaxEntries
      BY CacheAssumption DEF SendInit, Init
    <3>2. TypeOK
      BY <3>1 DEF SendInit, Init, TypeOK, Stages, None
    <3>3. PassOK
      BY <3>1 DEF PassOK
    <3> QED
      BY <3>2, <3>3
  <2>2. /\ stage \in [Entries -> SendStages] /\ readers \in [Entries -> Int]
        /\ writer = 0 /\ \A e \in Entries : e # 0
    BY CacheAssumption DEF SendInit, Init, SendStages, None, Entries
  <2>3. \A e \in Entries : WaiterOK(e) /\ SendOK(e)
    BY <2>2, Zenon DEF SendInit, Init, WaiterOK, SendOK, Opened
  <2> QED
    BY <2>1, <2>2, <2>3, Zenon DEF SendInv
<1>2. ASSUME SendInv, [SendNext]_allVars
      PROVE  SendInv'
  <2>1. TypeOK' /\ PassOK'
    BY <1>2, TypeStep, Zenon DEF SendInv
  <2> SUFFICES /\ stage' \in [Entries -> SendStages] /\ readers' \in [Entries -> Int]
               /\ \A f \in Entries : WaiterOK(f)' /\ SendOK(f)'
    BY <2>1, Zenon DEF SendInv
  <2>2. CASE CacheNext /\ UNCHANGED sendVars
    <3>1. \A f \in Entries : WaiterOK(f)' /\ SendOK(f)'
      BY <1>2, <2>2, LoadKeepsSends, CacheKeepsSends, Zenon DEF CacheNext
    <3> QED
      BY <1>2, <2>2, <3>1, Zenon DEF SendInv, sendVars
  <2>3. CASE \E e \in Entries : StartCompress(e) \/ SendTask(e)
    BY <1>2, <2>3, SendStep, Zenon
  <2>4. CASE UNCHANGED allVars
    <3>1. UNCHANGED << num_entries, writer, load, waiter, open_count, stage, readers, refused >>
      BY <2>4, Zenon DEF allVars, vars, listVars, passVars, refVars, sendVars
    <3> QED
      BY <1>2, <3>1, LeftAlone, Zenon DEF SendInv
  <2> QED
    BY <1>2, <2>2, <2>3, <2>4, StepSplit, Zenon
<1> QED
  BY <1>1, <1>2, PTL DEF SendSpec

\* A send works on a map that the cache counts as open, on every path from its
\* first task to its last chunk.
THEOREM TransfersAreSafe == SendSpec => []TransfersSafe
<1>1. ASSUME SendInv PROVE TransfersSafe
  BY <1>1 DEF SendInv, TransfersSafe, SendOK
<1> QED
  BY <1>1, SendInvariant, PTL

\* A send that has come to its end has given back its reference and its reader
\* lock, unless its session was gone or the pool refused its success handler.
THEOREM SendsEndBalanced == SendSpec => []BalancedEnd
<1>1. ASSUME SendInv PROVE BalancedEnd
  BY <1>1 DEF SendInv, BalancedEnd, SendOK
<1> QED
  BY <1>1, SendInvariant, PTL

-----------------------------------------------------------------------------
(***************************************************************************)
(* LevelTransfer, for every chunk size and every buffer size               *)
(***************************************************************************)

CONSTANTS ChunkSize, MaxSize

VARIABLES main_size, second_size, extended_blocks, send_main_buffer, sent_count,
          level_stage, percent_complete, received, finalized

Transfer == INSTANCE LevelTransfer WITH stage <- level_stage

\* The bytes of the level that are with the client.
Sent == IF send_main_buffer THEN sent_count ELSE main_size + sent_count

Prefix(n) == [k \in 1..n |-> Transfer!LevelByte(k)]

\* The inductive invariant: the client has exactly the bytes the two loop
\* variables stand for, and a chain that goes on has something left to send.
TransferInv ==
  /\ main_size \in Nat \ {0} /\ second_size \in Nat
  /\ send_main_buffer \in BOOLEAN
  /\ sent_count \in Nat /\ sent_count <= Transfer!Size
  /\ level_stage = "sending" => sent_count < Transfer!Size
  /\ ~send_main_buffer => second_size > 0
  /\ received = Prefix(Sent)
  /\ finalized => level_stage = "succeeded"
  /\ level_stage = "succeeded" => Sent = Transfer!Total

\* The invariant holds before the first chunk.
LEMMA InitTransferInv ==
  ASSUME Transfer!TransferConstants, Transfer!Init
  PROVE  TransferInv
BY DEF Transfer!TransferConstants, Transfer!Init, TransferInv, Transfer!Size, Prefix,
   Sent, Transfer!Total

\* A chunk has at least a byte and does not pass the end of the buffer.
LEMMA ChunkBounds ==
  ASSUME Transfer!TransferConstants, TransferInv, level_stage = "sending"
  PROVE  /\ Transfer!ChunkLength \in Nat \ {0}
         /\ sent_count + Transfer!ChunkLength <= Transfer!Size
         /\ Transfer!Done => sent_count + Transfer!ChunkLength = Transfer!Size
BY DEF Transfer!TransferConstants, TransferInv, Transfer!ChunkLength, Transfer!Size,
   Transfer!Done

\* A piece behind a prefix of the level is a longer prefix.
LEMMA PieceExtends ==
  ASSUME Transfer!TransferConstants, TransferInv, level_stage = "sending"
  PROVE  received \o Transfer!Piece(Transfer!Buffer, sent_count, Transfer!ChunkLength) = Prefix(Sent + Transfer!ChunkLength)
<1> DEFINE c == Transfer!ChunkLength
           p == Transfer!Piece(Transfer!Buffer, sent_count, c)
           Bytes == {"main", "second"} \X Nat
<1>1. c \in Nat \ {0} /\ sent_count + c <= Transfer!Size
  BY ChunkBounds
<1>2. Sent \in Nat /\ main_size \in Nat /\ sent_count \in Nat
  BY DEF TransferInv, Sent
<1> HIDE DEF c
<1>3. p \in Seq(Bytes) /\ Len(p) = c /\ \A k \in 1..c : p[k] = << Transfer!Buffer, sent_count + k >>
  <2>1. p = [k \in 1..c |-> << Transfer!Buffer, sent_count + k >>]
    BY DEF Transfer!Piece
  <2>2. \A k \in 1..c : << Transfer!Buffer, sent_count + k >> \in Bytes
    BY <1>1, <1>2 DEF Transfer!Buffer
  <2> QED BY <2>1, <2>2, <1>1
<1>4. Prefix(Sent) \in Seq(Bytes) /\ Len(Prefix(Sent)) = Sent
  BY <1>2 DEF Prefix, Transfer!LevelByte
<1>5. \A k \in 1..c : << Transfer!Buffer, sent_count + k >> = Transfer!LevelByte(Sent + k)
  BY <1>1, <1>2 DEF Transfer!Buffer, Transfer!LevelByte, Sent, TransferInv, Transfer!Size
<1>6. Prefix(Sent + c) \in Seq(Bytes) /\ Len(Prefix(Sent + c)) = Sent + c
  BY <1>1, <1>2 DEF Prefix, Transfer!LevelByte
<1> DEFINE q == Prefix(Sent) \o p
<1> HIDE DEF p
<1>7. /\ q \in Seq(Bytes) /\ Len(q) = Sent + c
      /\ \A k \in 1..(Sent + c) :
           q[k] = IF k <= Sent THEN Prefix(Sent)[k] ELSE p[k - Sent]
  <2> HIDE DEF Bytes
  <2>1. /\ q \in Seq(Bytes) /\ Len(q) = Len(Prefix(Sent)) + Len(p)
        /\ \A k \in 1..(Len(Prefix(Sent)) + Len(p)) :
             q[k] = IF k <= Len(Prefix(Sent)) THEN Prefix(Sent)[k]
                    ELSE p[k - Len(Prefix(Sent))]
    BY <1>3, <1>4, ConcatProperties
  <2>2. Len(Prefix(Sent)) = Sent /\ Len(p) = c
    BY <1>3, <1>4
  <2> QED BY <2>1, <2>2, Zenon
<1>8. ASSUME NEW k \in 1..(Sent + c) PROVE q[k] = Prefix(Sent + c)[k]
  <2> HIDE DEF q
  <2>1. Prefix(Sent + c)[k] = Transfer!LevelByte(k)
    BY DEF Prefix
  <2>2. CASE k <= Sent
    <3>1. Prefix(Sent)[k] = Transfer!LevelByte(k)
      BY <2>2, <1>1, <1>2 DEF Prefix
    <3> QED BY <3>1, <2>1, <2>2, <1>7
  <2>3. CASE k > Sent
    <3>1. k - Sent \in 1..c /\ Sent + (k - Sent) = k
      BY <2>3, <1>1, <1>2
    <3>2. q[k] = p[k - Sent]
      BY <2>3, <1>2, <1>7
    <3>3. q[k] = Transfer!LevelByte(Sent + (k - Sent))
      BY <3>1, <3>2, <1>3, <1>5
    <3> QED BY <3>1, <3>3, <2>1
  <2>4. k <= Sent \/ k > Sent
    BY <1>1, <1>2
  <2> QED BY <2>2, <2>3, <2>4
<1>9. q = Prefix(Sent + c)
  <2> HIDE DEF q
  <2> QED BY <1>6, <1>7, <1>8, <1>1, <1>2
<1> QED BY <1>9 DEF TransferInv, c, p

\* Every task of the chain keeps the invariant.
LEMMA NextTransferInv ==
  ASSUME Transfer!TransferConstants, TransferInv, [Transfer!Next]_Transfer!vars
  PROVE  TransferInv'
<1>1. CASE Transfer!SendChunk
  <2>1. Transfer!ChunkLength \in Nat \ {0} /\ sent_count + Transfer!ChunkLength < Transfer!Size
    BY <1>1, ChunkBounds DEF Transfer!SendChunk, Transfer!Done, TransferInv, Transfer!Size
  <2>2. received' = Prefix(Sent + Transfer!ChunkLength)
    BY <1>1, PieceExtends DEF Transfer!SendChunk
  <2>3. Sent' = Sent + Transfer!ChunkLength
    BY <1>1, <2>1 DEF Transfer!SendChunk, Sent, Transfer!level, TransferInv
  <2>4. received' = Prefix(Sent)'
    BY <1>1, <2>2, <2>3 DEF Prefix, Transfer!LevelByte, Transfer!SendChunk, Transfer!level
  <2> QED BY <1>1, <2>1, <2>4 DEF Transfer!SendChunk, TransferInv, Transfer!Size,
     Transfer!level
<1>2. CASE Transfer!SwitchBuffer
  <2>1. sent_count + Transfer!ChunkLength = main_size
    BY <1>2, ChunkBounds DEF Transfer!SwitchBuffer, Transfer!Size
  <2>2. received' = Prefix(Sent + Transfer!ChunkLength)
    BY <1>2, PieceExtends DEF Transfer!SwitchBuffer
  <2>3. Sent' = Sent + Transfer!ChunkLength
    BY <1>2, <2>1 DEF Transfer!SwitchBuffer, Sent, Transfer!level, TransferInv
  <2>4. received' = Prefix(Sent)'
    BY <1>2, <2>2, <2>3 DEF Prefix, Transfer!LevelByte, Transfer!SwitchBuffer,
       Transfer!level
  <2>5. second_size' > 0 /\ sent_count' = 0 /\ ~send_main_buffer' /\ Transfer!Size' > 0
    BY <1>2 DEF Transfer!SwitchBuffer, Transfer!Size, Transfer!level, Transfer!HasSecond
  <2>6. level_stage' = "sending" /\ ~finalized'
    BY <1>2 DEF Transfer!SwitchBuffer, TransferInv
  <2>7. main_size' \in Nat \ {0} /\ second_size' \in Nat
    BY <1>2 DEF Transfer!SwitchBuffer, Transfer!level, TransferInv
  <2>8. send_main_buffer' \in BOOLEAN
    BY <1>2 DEF Transfer!SwitchBuffer
  <2>9. Transfer!Size' \in Nat
    BY <2>7 DEF Transfer!Size
  <2> QED BY <2>4, <2>5, <2>6, <2>7, <2>8, <2>9 DEF TransferInv
<1>3. CASE Transfer!Finish \/ Transfer!FinishFails
  <2>1. sent_count + Transfer!ChunkLength = Transfer!Size
    BY <1>3, ChunkBounds DEF Transfer!Finish, Transfer!FinishFails
  <2>2. received' = Prefix(Sent + Transfer!ChunkLength)
    BY <1>3, PieceExtends DEF Transfer!Finish, Transfer!FinishFails
  <2>3. Sent' = Sent + Transfer!ChunkLength /\ Transfer!ChunkLength \in Nat
    BY <1>3, ChunkBounds DEF Transfer!Finish, Transfer!FinishFails, Sent, Transfer!level,
       TransferInv
  <2>4. received' = Prefix(Sent)'
    BY <1>3, <2>2, <2>3 DEF Prefix, Transfer!LevelByte, Transfer!Finish,
       Transfer!FinishFails, Transfer!level
  <2>5. Sent' = Transfer!Total'
    BY <1>3, <2>1, <2>3 DEF Transfer!Finish, Transfer!FinishFails, Sent, Transfer!Total,
       Transfer!Size, Transfer!HasSecond, Transfer!level, TransferInv
  <2> QED BY <1>3, <2>1, <2>3, <2>4, <2>5 DEF Transfer!Finish, Transfer!FinishFails,
     TransferInv, Transfer!Size, Transfer!level
<1>4. CASE Transfer!Fail \/ UNCHANGED Transfer!vars
  <2>1. UNCHANGED << main_size, second_size, send_main_buffer, sent_count, received, finalized >>
    BY <1>4 DEF Transfer!Fail, Transfer!vars, Transfer!level
  <2>2. (level_stage' = "failed" /\ level_stage = "sending") \/ level_stage' = level_stage
    BY <1>4 DEF Transfer!Fail, Transfer!vars
  <2>3. Transfer!Size' = Transfer!Size /\ Sent' = Sent /\ Prefix(Sent)' = Prefix(Sent) /\ Transfer!Total' = Transfer!Total
    BY <2>1 DEF Transfer!Size, Sent, Prefix, Transfer!LevelByte, Transfer!Total
  <2> QED BY <2>1, <2>2, <2>3 DEF TransferInv
<1> QED BY <1>1, <1>2, <1>3, <1>4 DEF Transfer!Next, Transfer!Task

\* The bytes that the loop variables stand for are bytes of the level.
LEMMA TransferInvOrder == TransferInv => Transfer!ReceivedInOrder /\ Transfer!FinalizedComplete
<1> SUFFICES ASSUME TransferInv PROVE Transfer!ReceivedInOrder /\ Transfer!FinalizedComplete
  OBVIOUS
<1>1. Sent \in Nat /\ Sent <= Transfer!Total /\ Transfer!Total \in Nat
  BY DEF TransferInv, Sent, Transfer!Total, Transfer!Size
<1>2. Len(received) = Sent
  BY <1>1 DEF TransferInv, Prefix
<1>3. \A n \in 1..Sent : received[n] = Transfer!LevelByte(n)
  BY DEF TransferInv, Prefix
<1> QED BY <1>1, <1>2, <1>3 DEF Transfer!ReceivedInOrder, Transfer!FinalizedComplete,
   TransferInv

\* tc_send_buffer_task hands the client the main buffer and then the second one,
\* byte for byte, whatever the two sizes and the size of a chunk.
THEOREM TransferInOrder ==
  ASSUME Transfer!TransferConstants
  PROVE  Transfer!Spec => []Transfer!ReceivedInOrder
<1>1. Transfer!Init => TransferInv
  BY InitTransferInv
<1>2. TransferInv /\ [Transfer!Next]_Transfer!vars => TransferInv'
  BY NextTransferInv
<1> QED BY <1>1, <1>2, TransferInvOrder, PTL DEF Transfer!Spec

\* The level finalize packet is sent only after the last byte of both buffers.
THEOREM TransferComplete ==
  ASSUME Transfer!TransferConstants
  PROVE  Transfer!Spec => []Transfer!FinalizedComplete
<1>1. Transfer!Init => TransferInv
  BY InitTransferInv
<1>2. TransferInv /\ [Transfer!Next]_Transfer!vars => TransferInv'
  BY NextTransferInv
<1> QED BY <1>1, <1>2, TransferInvOrder, PTL DEF Transfer!Spec

\* A part of a whole is less than a hundred percent of it.
LEMMA PartOfWhole ==
  ASSUME NEW a \in Nat, NEW b \in Nat, a < b
  PROVE  (a * 100) \div b \in 0..99
<1>1. b \in Nat \ {0} /\ a * 100 \in Nat
  OBVIOUS
<1> DEFINE d == (a * 100) \div b
           m == (a * 100) % b
<1>2. d \in Int /\ m \in 0..(b - 1) /\ a * 100 = b * d + m
  BY <1>1
<1> HIDE DEF d, m
<1>3. d >= 0
  <2> SUFFICES ASSUME d <= -1 PROVE FALSE
    BY <1>2
  <2>1. b * d <= -b
    BY <1>1, <1>2
  <2> QED BY <2>1, <1>1, <1>2
<1>4. d <= 99
  <2> SUFFICES ASSUME d >= 100 PROVE FALSE
    BY <1>2
  <2>1. b * d >= b * 100
    BY <1>1, <1>2
  <2> QED BY <2>1, <1>1, <1>2
<1> QED BY <1>2, <1>3, <1>4 DEF d

\* The percentage of every chunk fits, for buffers of any size.
THEOREM PercentAlwaysFits ==
  ASSUME Transfer!TransferConstants
  PROVE  Transfer!Spec => []Transfer!PercentFits
<1> DEFINE Inv == TransferInv /\ extended_blocks \in BOOLEAN /\ Transfer!PercentFits
<1>1. Transfer!Init => Inv
  <2> SUFFICES ASSUME Transfer!Init PROVE Inv
    OBVIOUS
  <2>1. extended_blocks \in BOOLEAN /\ Transfer!PercentFits
    BY DEF Transfer!Init, Transfer!PercentFits
  <2> QED BY <2>1, InitTransferInv
<1>2. Inv /\ [Transfer!Next]_Transfer!vars => Inv'
  <2> SUFFICES ASSUME Inv, [Transfer!Next]_Transfer!vars PROVE Inv'
    OBVIOUS
  <2>1. TransferInv'
    BY NextTransferInv
  <2>2. extended_blocks' = extended_blocks
    BY DEF Transfer!Next, Transfer!Task, Transfer!SendChunk, Transfer!SwitchBuffer,
       Transfer!Finish, Transfer!FinishFails, Transfer!Fail, Transfer!vars, Transfer!level
  <2>3. level_stage = "sending" => Transfer!Percent \subseteq 0..100
    <3> SUFFICES ASSUME level_stage = "sending" PROVE Transfer!Percent \subseteq 0..100
      OBVIOUS
    <3>1. sent_count \in Nat /\ Transfer!Size \in Nat /\ sent_count < Transfer!Size
      BY DEF TransferInv, Transfer!Size
    <3>2. (sent_count * 100) \div Transfer!Size \in 0..99
      BY <3>1, PartOfWhole
    <3> QED BY <3>2 DEF Transfer!Percent
  <2>4. (level_stage = "sending" /\ percent_complete' \in Transfer!Percent) \/ percent_complete' = percent_complete
    BY DEF Transfer!Next, Transfer!Task, Transfer!SendChunk, Transfer!SwitchBuffer,
       Transfer!Finish, Transfer!FinishFails, Transfer!Fail, Transfer!vars
  <2>5. Transfer!PercentFits'
    BY <2>3, <2>4 DEF Transfer!PercentFits
  <2> QED BY <2>1, <2>2, <2>5
<1> QED BY <1>1, <1>2, PTL DEF Transfer!Spec
=============================================================================
