------------------------------ MODULE MapCache ------------------------------
(***************************************************************************)
(* The map cache (src/src/map_cache.c): a list of entries, each with a     *)
(* mutex; a reader-writer lock for the list; one load task per entry,      *)
(* which passes over the list to evict maps when the cache has grown over  *)
(* its threshold.                                                          *)
(*                                                                         *)
(* Nothing is ever inserted into id_to_index, so a lookup finds nothing    *)
(* and every open links an entry of its own: entries are numbered in the   *)
(* order of their opens, and map names play no part.  New entries go to    *)
(* the head, and none leaves the list (NothingToEvict), so the list is     *)
(* num_entries, ..., 1 with the tail 1, and the entry before e is e + 1.   *)
(* The clock hand is written and never followed; it is left out.           *)
(*                                                                         *)
(* A PMutex is a plain pthread mutex: unlocking frees it whoever locked    *)
(* it, and locking it twice blocks.  A step whose effect the code leaves   *)
(* undefined changes status, and nothing is claimed of what follows.       *)
(***************************************************************************)
EXTENDS Integers

CONSTANTS
  MaxEntries,   \* bound on the opens
  EntrySize,    \* sizeof(tc_map_cache_entry_t)
  Threshold     \* memory_usage_threshold

ASSUME CacheAssumption ==
  /\ MaxEntries \in Nat
  /\ EntrySize \in Nat /\ Threshold \in Nat

Entries == 1..MaxEntries
None == 0      \* NULL, nobody

VARIABLES
  num_entries,    \* of the cache
  memory_usage,   \* of the cache
  writer,         \* the entry whose load task has the cache's write lock
  lock,           \* of each entry: its mutex is locked
  map,            \* what the memory of its map holds
  is_loaded,
  is_referenced,
  open_count,
  load,           \* what its load task is doing
  current_entry,  \* tc_map_cache_evict: the loop's entry
  left,           \*   and the iterations it has left
  waiter,         \* what the caller of the open was told
  status          \* "running" until the cache ends, or something undefined happens

listVars == << num_entries, memory_usage >>
passVars == << writer, current_entry, left >>
mapVars  == << map, is_loaded >>
refVars  == << is_referenced, open_count >>
vars == << listVars, passVars, mapVars, refVars, waiter, lock, load, status >>

\* tc_map_cache_init
Init ==
  /\ num_entries = 0
  /\ memory_usage = 0
  /\ writer = None
  /\ lock = [e \in Entries |-> FALSE]
  /\ map = [e \in Entries |-> "garbage"]
  /\ is_loaded = [e \in Entries |-> FALSE]
  /\ is_referenced = [e \in Entries |-> FALSE]
  /\ open_count = [e \in Entries |-> 0]
  /\ load = [e \in Entries |-> "none"]
  /\ current_entry = None
  /\ left = 0
  /\ waiter = [e \in Entries |-> "none"]
  /\ status = "running"

-----------------------------------------------------------------------------
(* tc_map_cache_schedule_open.  The caller has the write lock from its       *)
(* second lookup to the end, and the mutex it locks is that of an entry      *)
(* nobody else knows.                                                        *)

Opening == status = "running" /\ writer = None /\ num_entries < MaxEntries

\* An allocation fails, of the entry or of anything that belongs to it, or
\* tc_task_backlog_push does: whatever was allocated is freed again and the
\* failure handler runs.
OpenOutOfMemory == Opening /\ UNCHANGED vars

New == num_entries + 1

\* tc_map_cache_link_entry, and the pool accepts the load task.
OpenScheduled ==
  /\ Opening
  /\ num_entries' = New
  /\ memory_usage' = memory_usage + EntrySize
  /\ is_referenced' = [is_referenced EXCEPT ![New] = TRUE]
  /\ load' = [load EXCEPT ![New] = "queued"]
  /\ waiter' = [waiter EXCEPT ![New] = "waiting"]
  /\ UNCHANGED << passVars, mapVars, lock, open_count, status >>

\* The pool refuses the load task: tc_map_cache_unlink_entry undoes the link,
\* unlocks and frees the entry, and then its mutex, key, backlog and memory are
\* used and freed once more.
OpenRefused ==
  /\ Opening
  /\ status' = "freed_entry_used"
  /\ UNCHANGED << listVars, passVars, mapVars, refVars, waiter, lock, load >>

-----------------------------------------------------------------------------
(* tc_map_cache_load_task *)

\* A worker takes the task from the blocking buffer.
LoadStart(e) ==
  /\ status = "running"
  /\ load[e] = "queued"
  /\ load' = [load EXCEPT ![e] = "starting"]
  /\ UNCHANGED << listVars, passVars, mapVars, refVars, waiter, lock, status >>

\* It waits here while somebody has the entry's mutex.
LoadBegin(e) ==
  /\ status = "running"
  /\ load[e] = "starting"
  /\ ~lock[e]
  /\ load' = [load EXCEPT ![e] = "loading"]
  /\ lock' = [lock EXCEPT ![e] = TRUE]
  /\ UNCHANGED << listVars, passVars, mapVars, refVars, waiter, status >>

\* Mutant of LoadFails: the backlog is not scheduled.
LoadFailsSilently(e) ==
  /\ status = "running"
  /\ load[e] = "loading"
  /\ load' = [load EXCEPT ![e] = "done"]
  /\ \E m \in {"garbage", "cleared"} : map' = [map EXCEPT ![e] = m]
  /\ lock' = [lock EXCEPT ![e] = FALSE]
  /\ UNCHANGED << listVars, passVars, refVars, waiter, is_loaded, status >>

\* tc_map_load fails: on a file it cannot parse it leaves the map as it was
\* allocated, on bad contents it clears it.  The backlog's failure handlers
\* run; the entry stays in the list.
LoadFails(e) ==
  /\ status = "running"
  /\ load[e] = "loading"
  /\ load' = [load EXCEPT ![e] = "done"]
  /\ \E m \in {"garbage", "cleared"} : map' = [map EXCEPT ![e] = m]
  /\ lock' = [lock EXCEPT ![e] = FALSE]
  /\ waiter' = [waiter EXCEPT ![e] = "failed"]
  /\ UNCHANGED << listVars, passVars, refVars, is_loaded, status >>

\* The size of the map is added to the entry's memory_usage, not the cache's.
LoadSucceeds(e) ==
  /\ status = "running"
  /\ load[e] = "loading"
  /\ load' = [load EXCEPT ![e] = "scheduling"]
  /\ map' = [map EXCEPT ![e] = "loaded"]
  /\ is_loaded' = [is_loaded EXCEPT ![e] = TRUE]
  /\ UNCHANGED << listVars, passVars, refVars, waiter, lock, status >>

\* Mutant of ScheduleWaiter: the backlog is given no aquire handler.
ScheduleUnreferenced(e) ==
  /\ status = "running"
  /\ load[e] = "scheduling"
  /\ load' = [load EXCEPT ![e] = "unlocked"]
  /\ lock' = [lock EXCEPT ![e] = FALSE]
  /\ waiter' = [waiter EXCEPT ![e] = "opened"]
  /\ UNCHANGED << listVars, passVars, mapVars, refVars, status >>

\* tc_task_schedule_backlog takes a reference with tc_map_nolock_ref and the
\* pool accepts the waiter's success handler; the entry is unlocked.
ScheduleWaiter(e) ==
  /\ status = "running"
  /\ load[e] = "scheduling"
  /\ load' = [load EXCEPT ![e] = "unlocked"]
  /\ lock' = [lock EXCEPT ![e] = FALSE]
  /\ waiter' = [waiter EXCEPT ![e] = "opened"]
  /\ open_count' = [open_count EXCEPT ![e] = @ + 1]
  /\ is_referenced' = [is_referenced EXCEPT ![e] = TRUE]
  /\ UNCHANGED << listVars, passVars, mapVars, status >>

\* The failure handler runs: there was no memory for the arguments, and no
\* reference was taken (bit = FALSE), or the pool refused, and
\* tc_map_nolock_unref took the reference back but left the bit set.
ScheduleFails(e, bit) ==
  /\ status = "running"
  /\ load[e] = "scheduling"
  /\ load' = [load EXCEPT ![e] = "unlocked"]
  /\ lock' = [lock EXCEPT ![e] = FALSE]
  /\ waiter' = [waiter EXCEPT ![e] = "failed"]
  /\ is_referenced' = [is_referenced EXCEPT ![e] = @ \/ bit]
  /\ UNCHANGED << listVars, passVars, mapVars, open_count, status >>

\* The write lock is taken, and there is nothing to do under it.
SkipEvict(e) ==
  /\ status = "running"
  /\ load[e] = "unlocked"
  /\ writer = None
  /\ memory_usage <= Threshold
  /\ load' = [load EXCEPT ![e] = "done"]
  /\ UNCHANGED << listVars, passVars, mapVars, refVars, waiter, lock, status >>

-----------------------------------------------------------------------------
(* tc_map_cache_evict, called with the write lock.                           *)

EvictBegin(e) ==
  /\ status = "running"
  /\ load[e] = "unlocked"
  /\ writer = None
  /\ memory_usage > Threshold
  /\ load' = [load EXCEPT ![e] = "evicting"]
  /\ writer' = e
  /\ current_entry' = None
  /\ left' = num_entries
  /\ UNCHANGED << listVars, mapVars, refVars, waiter, lock, status >>

TailEntry == 1

Current == IF current_entry = None THEN TailEntry ELSE current_entry

\* Mutant of Prev: the head's prev is not NULL.
PrevWithoutEnd(e) == e + 1

Prev(e) == IF e = num_entries THEN None ELSE e + 1

\* The loop locks the mutex of its entry; it waits while somebody has it.
Scanning == status = "running" /\ writer # None /\ left > 0 /\ ~lock[Current]

NextIteration == current_entry' = Prev(Current) /\ left' = left - 1 /\ UNCHANGED writer

\* Not loaded: the loop moves on to the entry before it and unlocks that one.
EvictUnloaded ==
  /\ Scanning
  /\ ~is_loaded[Current]
  /\ NextIteration
  /\ IF Prev(Current) = None
     THEN /\ lock' = [lock EXCEPT ![Current] = TRUE]
          /\ status' = "null_pointer"
     ELSE /\ lock' = [lock EXCEPT ![Current] = TRUE, ![Prev(Current)] = FALSE]
          /\ UNCHANGED status
  /\ UNCHANGED << listVars, mapVars, refVars, waiter, load >>

\* Closed since the last pass: a second chance.  The mutex is not unlocked.
EvictReferenced ==
  /\ Scanning
  /\ is_loaded[Current] /\ open_count[Current] = 0 /\ is_referenced[Current]
  /\ NextIteration
  /\ lock' = [lock EXCEPT ![Current] = TRUE]
  /\ is_referenced' = [is_referenced EXCEPT ![Current] = FALSE]
  /\ UNCHANGED << listVars, mapVars, waiter, open_count, load, status >>

\* In use: left alone, and unlocked.
EvictInUse ==
  /\ Scanning
  /\ is_loaded[Current] /\ open_count[Current] # 0
  /\ NextIteration
  /\ UNCHANGED << listVars, mapVars, refVars, waiter, lock, load, status >>

\* Closed, and not referenced since the last pass: the map is finalized and the
\* entry unlinked.  No behaviour of the code comes here (NothingToEvict), and
\* what the cache does without the entry is not followed.
EvictClosed ==
  /\ Scanning
  /\ is_loaded[Current] /\ open_count[Current] = 0 /\ ~is_referenced[Current]
  /\ status' = "evicted"
  /\ UNCHANGED << listVars, passVars, mapVars, refVars, waiter, lock, load >>

EvictEnd ==
  /\ status = "running"
  /\ writer # None
  /\ left = 0
  /\ load' = [load EXCEPT ![writer] = "done"]
  /\ writer' = None
  /\ UNCHANGED << listVars, mapVars, refVars, waiter, current_entry, left, lock, status >>

-----------------------------------------------------------------------------
(* Tasks that hold a map, and the end of the cache.                          *)

\* n times, by whoever holds references.
tc_map_unref(e, n) ==
  /\ status = "running"
  /\ ~lock[e]
  /\ open_count' = [open_count EXCEPT ![e] = @ - n]
  /\ UNCHANGED << listVars, passVars, mapVars, waiter, is_referenced, lock, load, status >>

\* The server calls it when the pool's threads have ended, and they end when
\* every task has been worked off.  tc_map_finalize follows the pointers of
\* every entry's map, also of one that no load has initialised.
tc_map_cache_finalize ==
  /\ status = "running"
  /\ \A e \in Entries : load[e] \in {"none", "done"}
  /\ status' \in IF \E e \in 1..num_entries : map[e] = "garbage"
                 THEN {"finalized", "wild_map_freed"} ELSE {"finalized"}
  /\ UNCHANGED << listVars, passVars, mapVars, refVars, waiter, lock, load >>

Open == OpenOutOfMemory \/ OpenScheduled \/ OpenRefused

LoadTask(e) ==
  \/ LoadBegin(e) \/ LoadFails(e) \/ LoadSucceeds(e)
  \/ ScheduleWaiter(e) \/ (\E bit \in BOOLEAN : ScheduleFails(e, bit))
  \/ SkipEvict(e) \/ EvictBegin(e)

Evict == EvictUnloaded \/ EvictReferenced \/ EvictInUse \/ EvictEnd

-----------------------------------------------------------------------------
Stages == {"none", "queued", "starting", "loading", "scheduling", "unlocked", "evicting", "done"}

TypeOK ==
  /\ num_entries \in 0..MaxEntries
  /\ memory_usage \in Nat
  /\ writer \in 0..MaxEntries
  /\ lock \in [Entries -> BOOLEAN]
  /\ map \in [Entries -> {"garbage", "cleared", "loaded"}]
  /\ is_loaded \in [Entries -> BOOLEAN]
  /\ is_referenced \in [Entries -> BOOLEAN]
  /\ open_count \in [Entries -> Int]
  /\ load \in [Entries -> Stages]
  /\ current_entry \in 0..MaxEntries
  /\ left \in Nat
  /\ waiter \in [Entries -> {"none", "waiting", "failed", "opened"}]
  /\ status \in {"running", "finalized", "aborted", "evicted", "freed_entry_used",
                 "null_pointer", "wild_map_freed"}

\* As the code is, EvictClosed is never enabled: a pass that takes the reference
\* bit of a map keeps its mutex, and so does a pass over an entry that is not
\* loaded; the next pass waits for that mutex for ever.  The list is therefore
\* the one the module describes.  PassEvicts says what the cache is for.
NothingToEvict ==
  ~ (Scanning /\ is_loaded[Current] /\ open_count[Current] = 0 /\ ~is_referenced[Current])

\* A pass has left the mutex of e locked: whoever wants it waits for ever.
LeftLocked(e) == lock[e] /\ load[e] \notin {"loading", "scheduling"}

\* A pass has left some mutex locked.  The tasks that come to want it, the next
\* pass first, wait for ever in the pool's slots and on its threads.
Clogged == \E e \in Entries : LeftLocked(e)

\* Whoever opens a map hears of it: the waiter is told of a failure or given the
\* map, also when more maps are opened at a time than the pool has slots for.
\* There are two ways out: a pass over the list has left a mutex locked, of
\* whatever entry, and the pool may be clogged; or the program or the cache has
\* come to its end.
OpensAnswered ==
  \A e \in Entries :
    load[e] = "queued"
      ~> waiter[e] \in {"failed", "opened"} \/ Clogged \/ status # "running"

\* A pass over the list evicts a map when there is one to evict as it begins, a
\* loaded one that is closed and whose reference bit the pass before has taken.
\* map_cache.h:37 calls the threshold the "theshold before we start evicting
\* maps"; a pass runs when the cache is over it (map_cache.c:215).
PassEvicts ==
  (/\ status = "running" /\ writer # None /\ left = num_entries
   /\ \E e \in Entries : is_loaded[e] /\ open_count[e] = 0 /\ ~is_referenced[e])
    ~> status # "running"
=============================================================================
