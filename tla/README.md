# Verification of the TeleClassic26 server

TLA+ models of TeleClassic26, a Minecraft Classic server in C, with TLC runs on small instances and
TLAPS proofs for every instance. `PROJECT.json` lists components, runs, the source lines behind every
definition, findings, hazards and theorems.

## The system and its models

| part | source | state | operations | hard behaviour | modules |
|---|---|---|---|---|---|
| thread pool | `thread_pool.c` | four priority buffers, round-robin index, `active_threads`, `blocking_active`, `shutdown`, one mutex, one condition variable | worker loop, `schedule_new`, `schedule_next`, `schedule_next2`, `stop`, `finalize` | lost wake-ups, room for continuations, draining at shutdown, starvation | `ThreadPool`, `ThreadPoolRoundRobin` |
| task buffer | `thread_pool.c` | circular array, head, tail | enqueue, dequeue | wrap-around, full against empty | `TaskBuffer`, `TaskQueue` |
| session lifecycle | `server.c` | session slots, `id_buffer`, generations, action locks, `active_players` | accept, listen, kick, disconnect, stop | slots used again, stale tasks, locks, refused tasks | `Server` |
| start and end of the server | `server.c`, `main.c` | everything allocated, the threads, their flags | init, start, finalize, `run_server` | each step may fail with threads running; tasks that never return | `ServerControl` |
| reading packets | `server.c`, `handler.c` | pending opcode and buffer | listen, handler, cleanup | packets in pieces, sizes that change under way | `PacketReader` |
| packet handlers | `handler.c` | handshake fields of a session | one handler per packet | packets in any order, failed sends, double release | `Server` |
| joining | `joinable.c` | list of joinables, a session's current one | find, join, leave | a join that fails half way; a disconnect in the middle of a join | `JoinRouter`, `Server` |
| map sending | `api.c` | data of one send, action lock, reference and reader lock held across tasks | load, compress, set up, send chunks, success, failure | refusals and failures at every task; stop between two chunks | `MapSend`, `MapSetup`, `LevelTransfer`, `Server` |
| lobby, program | `main.c` | none | join, success and failure handlers, quit | kick without the lock | `Server`, `MapSend`, `ServerControl` |
| task backlog | `task_backlog.c` | list of blocks of waiting tasks | push, schedule all, finalize | a failure half way through the list | `TaskBacklog`, `WaiterQueue` |
| map cache | `map_cache.c` | entries, mutexes, open counts, reference bits, memory usage | open, load, evict, unref, finalize | entry locks, eviction of a used map | `MapCache` |
| map files | `map.c`, `map.h` | a map, its memory, its file | load, save, finalize, get and set block | failure at any part; packed bits | `MapFile`, `MapBlocks`, `BlockGrid` |
| heartbeat | `heartbeat.c` | salts, URLs, used keys, `started`, `shutdown` | worker, start, stop, finalize, validate | logins during a cycle change | `Heartbeat`, `ServerControl` |
| sending packets | `protocol.c` | the client's socket | 25 functions, 29 forms of packets | a full or broken socket in the middle of a packet | `Outbound` |
| helpers, logging | `utils.c`, `log.c` | none | compression, output | none | not modelled |

Everything but the operator's console and the heartbeat thread runs on the pool. A client is served by a
chain of tasks. Each task ends by scheduling the next one, and the pool keeps room for that. The listener
is a chain of its own. A finished handshake joins the lobby, which sends a map: a blocking task loads
it, a second one compresses it, and medium-priority tasks send it while the session's action lock stays
taken. The last one places the player and resumes listening.

The models follow these seams. `ThreadPool` is the pool by itself; `Server` uses what it establishes.
`Server` has all of a client's chain and abstracts the map cache to the outcome of a load; `MapSend`
has the other side, sends composed with `MapCache`, and abstracts the sessions. The pure parts of a
chain's work (bytes into packets, packets into bytes, chunks, blocks) have modules of their own.

## How the modules correspond to the code

* **`ThreadPool`**: an action is a critical section of `thread_pool.c`. A worker's turn in its loop is two
  actions, so that `"loop"` is the one place where the mutex is held between actions. Wake-ups choose any
  waiter and may be spurious. `context[w].continued` records that a task has used its one continuation.
* **`ThreadPoolRoundRobin`** adds a history variable: how often each eligible buffer was passed over.
* **`TaskBuffer`** has the array with its head and tail; **`TaskQueue`** is the bounded queue it promises to
  be. `TaskBuffer!Implements` is the refinement, and the sequence of `ThreadPool` is that queue.
* **`Server`** has the sessions. A worker is `at` the next thing its task does: `"start"`, `"critical"` (lock
  taken), `"release"`, and places for the points where other threads can tell two parts of a task apart:
  `"set_joinable"` (the join has scheduled a task and has not stored the joinable), `"inner_release"` (the
  first of two releases), `"kick"` (a kick that takes the lock), `"kicked_listen"` (a handler that goes on
  after a kick), `"failed"` and `"sent"` (a map send that has given the lock up), `"new_..."` (the listener).
  The pool is a bag of tasks: what `ThreadPool` proves (a continuation always fits, nothing is dropped at
  shutdown) is used, a new task may be refused at any time, and the order is left open.
  A release by a worker that does not hold the mutex unlocks it, which is what the mutex of the POSIX
  build does. A failed assertion ends the program.
* **`ServerControl`** has `run_server` from the first allocation to the last. `Steps` is `tc_server_init` as a
  table: each step with the step after it and the clean-up of its failure. A clean-up is a list of
  operations that the main thread works off; joining a thread blocks. `live` is what is allocated, the
  joinables that `main.c` makes and the backlogs of opened maps included. `server->started` begins with any
  value, since `run_server` does not clear the memory. A worker takes tasks, and a task returns, opens a map,
  blocks for ever or ends the program: what it does otherwise is `Server`'s.
* **`PacketReader`**: TCP hands out the client's bytes in pieces of any length. A byte is the number of its
  packet with its place in it, so that "the handler read the right bytes" can be said without values. The
  client is external: it sends whole packets and widens its block fields once it has sent the entry for
  CustomBlocks. Receive errors and pings are `Server`'s.
* **`JoinRouter`**: a join and a disconnect are a few steps each, cut at the calls of a joinable's `leave` and
  `attempt_join` and at the write of `current_joinable`. A join holds the session's action lock; a kick need
  not ask for it, so a disconnect may come between any two steps. A joinable is its interface: `attempt_join`
  takes the session in, itself or another joinable for it (`Routes`), or refuses; `leave` lets it go.
  `overlapped` and `rerouted` are history variables.
* **`TaskBacklog`** has the blocks, and the loop of `tc_task_schedule_backlog` one entry at a time, each with
  the pool's verdict; **`WaiterQueue`** is what it promises: waiters answered once and in order.
* **`MapCache`**: nothing is inserted into `id_to_index`, so a lookup finds nothing and every open links an
  entry of its own. Entries are therefore numbered by their opens, and a backlog has one waiter.
  A step with an undefined effect (use of freed memory, a null pointer) changes `status`, and nothing is
  claimed of what follows.
* **`MapSend`** extends `MapCache` with the tasks of `api.c`, from the waiter of an open to the lobby's
  handler: what each does to the map's references and its reader lock. Loads and compressions are blocking
  tasks, of which the pool runs `MaxBlocking` at a time; one that waits for a mutex keeps its slot.
* **`MapSetup`**: what precedes the blocks, by block of `tc_send_map_task2`. A packet is its extension with
  what it sets. Versions are those the session's two bits can hold, 3 included, and colours are any short,
  in range or not.
* **`LevelTransfer`**: the chunks of both compressed buffers. A percentage is computed in floats, and is any
  value that rounding can give.
* **`MapFile`**: `tc_map_load` part by part, in the order of the code, giving up at the first that is missing
  or bad; `heap` is the memory held. Of a part's contents the model keeps presence and completeness, of the
  blocks the number of changes.
* **`MapBlocks`** has both arrays and their index arithmetic in ints of 32 bits, which wrap; **`BlockGrid`** is the
  grid they promise to be.
* **`Heartbeat`**: the thread holds the manager's mutex over a cycle, so a login comes before or after it. A
  digest is the MD5 of a salt and a user name, taken to be the pair; a key is a digest, alone or with more
  characters after it. The HTTP exchange is its outcome.
* **`Outbound`**: a packet is the list of `p_socket_send` calls its function makes, one per byte of an
  integer, one per string or chunk. The socket takes a call whole, in part or not at all, or is broken.
* **`MC...`** modules give TLC the constants. **`...Proofs`** modules hold the theorems.

Definitions marked as mutants are wrong variants of the definition after them. No specification uses them:
they serve to see that a property can tell the code from a plausible mistake.

## Runs

| run | instance | shows |
|---|---|---|
| `pool` | 2 workers, 3 priorities, 1 blocking slot | continuations fit, counters exact, no lost wake-up, drained at exit; a stopped pool can be finalized; no accepted task starves |
| `pool_round_robin` | 2 workers, the server's own pattern | an eligible buffer is passed over fewer times than the pattern has letters |
| `task_buffer` | 4 slots, reserve 1 | the array implements the queue |
| `server_handshake` | 1 slot, 2 clients, 2 workers, extension packets in any order, broken connections | one chain per client; no task disconnects somebody else's session |
| `server_shutdown` | 2 slots, 2 clients, fair workers | ids neither lost nor shared; one chain per client; stopping disconnects everyone |
| `kick_completes` | 1 slot, 1 client | a kick that waits for itself (Findings) |
| `server_control` | 3 worker threads, every failure of every step, tasks that return or do not | what workers use outlives them once the server has served; nothing freed twice; only what is named is left at the end; quitting ends unless a task is stuck |
| `task_backlog` | blocks of 2, up to 5 waiters, 2 priorities | the blocks implement a queue; one continuation per pass; references exact; everyone answered |
| `map_sends` | 3 sends, 2 blocking slots, a threshold that the second entry passes | a map being sent counts as open; what a send took is given back; opens are answered and sends end |
| `eviction` | the same, with the branch that evicts | a pass that evicts nothing (Findings) |
| `map_file` | all 15 parts, any of them missing, one of them bad, 1 change, 1 save | no memory is leaked at any failure; a loaded map is complete; a clean map is on disk |
| `outbound` | 2 packets of 29 kinds, a socket of 12 bytes, one read | packets longer than documented (Findings) |

`pool` and `pool_round_robin` are two runs: the pattern of the server has so many letters that liveness of the
whole pool over it takes a quarter of an hour.

Bounds. Two workers interleave any two tasks; the safety properties are proved for any number (Proofs), so the
bounds matter to liveness and to the counterexamples.
Two clients over two slots let ids come back out of order; two clients over one slot use it one after the
other. One extension entry beyond the announced ones (`MaxExtraEntries`) reaches the negative count.
`MaxPlayers` bounds a counter that repeated handshakes raise without limit, `MaxBroken` the
broken connections at a time. `MaxConnections` is the number of clients. Buffers are a few slots above
their reserve: both full and refused are reached. Three worker threads (`NumThreads`) let the creation fail
with none, one and two running; two waiting tasks (`MaxTasks`) keep one waiting while others run, return or
are stuck. Five waiters (`MaxPushes`) over blocks of two make three blocks, the last
one part full. Three entries (`MaxEntries`) give an eviction pass a tail, a middle and a head, and let passes
follow each other; with `EntrySize` = `Threshold` = 1 the cache is over its threshold from the second entry
on, and below it with one. Two blocking slots (`MaxBlocking`, the number in `main.c`) are fewer than three sends.
One change and one save (`MaxChanges`, `MaxSaves`) give each of clean, changed and
saved, before and after a failure. Two packets (`MaxPackets`) show what one packet does to the one after
it; 12 bytes of socket (`SocketBuffer`) hold a short packet and a part of the next, and one read (`MaxReads`)
makes room again.

Deadlock is not checked where the system may stop: the program ends after a failed assertion, and the
worker of a kick stuck on its own lock never moves again (`Server`); run_server returns, or joins a thread
for ever, or an assertion fails (`ServerControl`); a pass waits for a mutex that an earlier one left locked, or the cache is
finalized (`MapSend`); a backlog, a map and a bounded number of packets come to their end (`TaskBacklog`,
`MapFile`, `Outbound`). The pool's runs and `task_buffer` check it.

Fairness. In the pool a worker that holds the mutex leaves it (weak fairness) and one that wants it gets it
in the end (strong fairness, a mutex that starves nobody for ever); tasks return. In `Server` every worker
that can take a step takes one. In `ServerControl` every thread that can go on does; the operator need not
quit, and a task that is stuck stays so. In `TaskBacklog` the loop runs on, since handlers do not block. In
`MapSend` the pool comes to every task it accepted, and to a blocking one when there is a slot again and again
(strong fairness, which `NoStarvation` of the pool justifies as long as tasks return); a task or pass that has
begun goes on while the mutex it wants is free. Where tasks wait for ever the pool promises less: that is why
the properties except a cache that is `Clogged`, whatever the entry. Nothing is assumed of clients, of the listener's luck or of who calls stop.

Properties with exceptions, each of which is what the code does:

* `StopDisconnectsEveryone` names a failed assertion and a stuck kick as ways out. A third one is outside
  `Server`, which has the map cache as the outcome of a load: a load may wait for ever for a mutex that an
  eviction pass has left locked (map_cache.c:96, 214), and its client's chain with it.
* `QuitEnds` excepts a task that never returns: no worker leaves while one is active (thread_pool.c:119), so
  the join waits for ever. Such are the kicks of `kick_completes` and a load as above. It also excepts an
  assertion that fails before the end.
* `OpensAnswered` and `SendsEnd` except a cache in which a pass has left some mutex locked (`Clogged`), and the
  end of the program or of the cache.
* `BalancedEnd` excepts a send whose session was gone when its second task ran (api.c:176 returns with
  reference and reader lock held) and one whose success handler the pool refused (the release handler and
  `free_send_map_data` both give the one reference back).
* `OnlyKnownLeaks` names what is left: after a failed initialisation the joinable and its list, which nobody
  frees (main.c:137, 150); after serving the backlogs of opened maps, which `tc_map_cache_finalize` does not
  free (map_cache.c:26). For a server that could not be started it and `FreedOnce` say nothing, since its
  finalize never returns.
* `CleanMeansSaved` excepts maps with a failed save, whose dirty flag is cleared first (map.c:539), and the
  aspect, which is saved as EnvMapAspect and looked for as EnvAspect (map.c:634, 323).
* `MembershipAgrees` excepts a session whose join met its disconnect and one that was handed on
  (Disagreements); `OncePerCycle` speaks of keys that are a digest and nothing more.

## Findings

* `kick_completes`: `handle_new_session` (server.c:418) and `finalize_player_identification` (handler.c:182)
  ask for a kick that takes the action lock they hold; the worker waits for itself. A new client during
  shutdown, or a full buffer, is enough. The header says that the function "kicks a session from the server
  and disconnects/disposes of the session" (server.h:99). Whoever then quits waits for that worker for ever.
* `eviction`: `tc_map_cache_evict` leaves mutexes locked, that of a closed map whose reference bit it takes
  (map_cache.c:104-106) and that of an entry that is not loaded, in whose place it unlocks the one before it
  (98-99). In the counterexample there is a map to evict when a pass begins; the pass waits under the cache's
  write lock for a mutex that an earlier pass left locked, and evicts nothing. The header calls the threshold
  that starts a pass the "theshold before we start evicting maps" (map_cache.h:37). `PassEvictsNothing`
  (Proofs) says that it is always so.
* `outbound`: a position takes four or six bytes a coordinate (protocol.c:459), against "(fshort/fint)", two or
  four (protocol.h:344-346), so that a client that reads what the header documents loses its place. Six
  packets have positions; the lobby sends one of them to every player that joins (main.c:48).

## Disagreements without a run

Places where the code and its own words differ that the models reproduce (except where noted), and for
which no run is kept. Each was read off the code; the first four had runs in an earlier state of this
project, and most of the others were seen by TLC while their modules were written.

* After a handshake the action lock is released twice (handler.c:184, then 132, 148 or 237). The
  second release may take the lock from the task that is sending the map, against "must call before doing
  anything with protocol send methods, setting joinable, etc..." (server.h:132).
* Handlers of extension packets assert that extensions were announced, "Session does not support CPE."
  (handler.c:55, 83, 141), but packets are dispatched whatever the session's state.
* A shadowed `error` (server.c:309) hides receive errors in the middle of a packet, against "Only kick on a
  real error." (server.c:343). The session stays until a ping fails.
* An unknown extension in last place leaves the handshake unfinished: "ignore extraneous extension packets"
  (handler.c:94).
* A refused load task frees its entry in `tc_map_cache_unlink_entry` and once more after it
  (map_cache.c:357-365), against "do not unlock (unlink will do it for you)!!!" (60).
* The size of a loaded map is added to its entry and not to the cache (map_cache.c:199), so the "theshold
  before we start evicting maps" (map_cache.h:37) counts entries.
* The success handler of a send is scheduled without a reference of its own, "map already ref + 1 in
  schedule map load" (api.c:60), and the send then gives that reference back (42).
* When a later worker thread cannot be created, the pool's mutex is freed under the earlier ones
  (thread_pool.c:204), against "drain ALL workers in thread pool and heartbeat manager first!!!"
  (server.c:138).
* A failure after the heartbeat thread's creation joins it before it was started or stopped (server.c:79, 88,
  100, 115): `tc_server_init` does not return, against "return: TRUE if the server was initialized, FALSE
  otherwise" (server.h:67).
* A server that could not be started is finalized by joining workers that nobody stopped (server.c:135),
  against "stops the server if it is started in addition to finalizing stuff" (server.h:87).
* Shorts and ints are decoded from plain chars (protocol.c:89, 94): where char is signed a low byte above 127
  overwrites the higher ones, against "short is big endian 16 bit integer" (87). Not modelled.
* Two entries for EnvMapAppearance or their versions together to 3 (handler.c:114), against "EnvMapAppearance
  extension must be either version 1 or 2." (api.c:320). `MapSetup` begins with any version; how it is
  stored is not modelled.
* After the fallback packets the appearance packet's assertion is reached all the same (api.c:272, "fall back
  on env aspect extension if supported"); it is one of the causes in `AbortCauses`.
* A byte or chunk that the socket does not take, or takes in part, is reported as sent (protocol.c:25, 40),
  against "return: TRUE if the byte was sent, FALSE otherwise" (protocol.h:38).
* `tc_session_join` stores the joinable it asked and not the one that took the session in (joinable.c:134, 141),
  against "the custom return is to allow for routing (i.e. a lobby routes to multiple sub lobbies)"
  (joinable.h:16). A session that was handed on stays a member of a joinable that it is never told to leave;
  the joinable in `main.c` hands nobody on.
* A kick without the action lock may disconnect a session in the middle of its join: it is then taken in by, or
  stored with, a joinable after it is gone, against "must call before doing anything with protocol send
  methods, setting joinable, etc..." (server.h:132).
* The dimensions check multiplies three shorts in an int (map.c:265); for sizes whose product wraps it passes an
  array that is shorter than the map, against "dimensions check" (265). `LargeMapsOverrun` has that case.
* `tc_cpe_send_set_env_color` asserts that a colour is between 0 and 255 (protocol.c:346-348), and `tc_map_load`
  takes any short for one; it is one of the causes in `AbortCauses`.
* The tree of used keys holds digests of a fixed length and is searched for the whole key (heartbeat.c:178,
  206), while the comparison with a service's digest looks at that many characters only (205-206).
* After a failed initialisation `run_server` frees the server and not the joinables it made (main.c:137, 150); the
  backlog of a map is freed by nobody (map_cache.c:26-39). `tc_map_cache_finalize` also finalizes maps that no load
  has filled in, whose pointers are garbage (30): `wild_map_freed`, `FreeCacheCrashes`.
* `is_dirty` is cleared before a save that may fail (map.c:539), and the file is emptied before it is written
  (728): after a failed save a map counts as clean.

## Proofs

Every safety property of the passing runs (invariants, the action property, both refinements) is a theorem for
every value of the constants. All proofs are invariance arguments closed with PTL: an inductive
invariant, one lemma per action (and conjunct, where an action disturbs several), and the facts about
operators they rest on. What is assumed of the constants is the `ASSUME` of the module that declares them, or a
definition that its theorems have as their hypothesis (`OutboundConstants`): mostly that bounds are natural
numbers, with those of `Server`, `MapCache`, `MapFile` and `Outbound` as large as one likes.

**`ThreadPoolProofs`**, for every finite set of workers, every capacity, every blocking limit above
zero and every non-empty pattern (`PoolAssumption`): `TypeCorrect`, `ContinuationAlwaysFits`,
`CountersAlwaysExact`, `WakeupsNeverLost`, `ExitsOnlyWhenDrained`.
The inductive invariant `PoolInv` is their conjunction. Each part needs others. A continuation fits because a
new task is accepted only if more slots stay free than workers could still continue; in the blocking
buffer the reserve is the blocking limit, so the exact counter that enforces the limit is needed. The wake-up
argument compares the work that could start with the workers
that are awake, so it needs the exact number of blocking slots. A worker leaves only with
`active_threads` zero, which says that nothing runs only if the counter is exact.
`OvertakingIsBounded` (of `ThreadPoolRoundRobin`) has an invariant of its own, `RRInv`: none of the
letters used since a buffer was first passed over is that buffer's. A count as high as the pattern's length
would have gone past every letter, the buffer's own included.

**`ServerProofs`**, for any workers, slots, clients and packets (`ServerAssumption`): `ServerTypes`,
`IdsAreExact`, `EveryClientHasOneChain`, `OwnChainDisconnects`. The invariant `ServerInv` says for every
task and worker which generation of its slot it may carry (`TaskOK`, `WorkerOK`), for every slot who holds its
chain (`ChainOK`) and where its id is (`SlotOK`). `Seats` says that no more slots are in use than ids are gone
from `id_buffer`, so that a disconnect writes its id to a place inside the array. None of it rests on
the action locks, which matters because handlers release them twice: what keeps chains apart is that a
task carries its session's generation, that only the holder of a chain hands it on or ends it, and that
everything which goes on without comparing generations was scheduled by a holder. The 30 actions are
few kinds of step (a session edited; a chain handed on, ended or begun; a connection accepted), each of
which is shown to keep the invariant once.

**`ServerControlProofs`**, for any number of worker threads (`ControlAssumption`): `ControlTypes`,
`NothingFreedTwice`, `OnlyKnownIsLeaked`, `WorkersDrainFirst`. `ControlInv` says what is allocated at
each step of the table, and of a clean-up that it frees exactly what is live but for what is named, each once,
or hangs at a thread that nobody stops (`Stuck`).

**`TaskBacklogProofs`**, for every block size, number of waiters and priorities: `BacklogTypes`,
`OneContinuationOnly`, `ReferencesAreExact`, and `BacklogIsAQueue`, the refinement of `WaiterQueue`.
`BacklogInv` ties the loop's block and index to the number of waiters answered; that all blocks but the last are
full makes entry *n* of the queue entry *n* mod `BlockSize` of its block.

**`MapSendProofs`**, for any number of opens, any entry size and threshold (`CacheAssumption`):
`CacheTypes`, `PassEvictsNothing`, `TransfersAreSafe`, `SendsEndBalanced`. `PassEvictsNothing` is the
hard one, since it holds by an accident, the one of run `eviction`; it also shows that the branch which
`SendSpec` leaves out is never enabled. `FreshStart` says that either no pass has left a trace on
the list, or the first entry with one is `LeftLocked` and will stop the next pass; `ClearAhead` says the same
of the pass under way. `SendInv` follows reference and reader lock of a send from stage to stage.

**`MapProofs`**, for any number of changes and saves (`MapFileAssumption`): `MemoryIsExact`,
`OnlyCompleteFilesLoad`, `CleanMapsAreSaved`. `FileInv` says what a load that has come as far as part *n* has
allocated and found.

**`OutboundProofs`**, for strings, chunks and sockets of any size and any packets (`OutboundConstants`), what
does hold where run `outbound` has its counterexample: `FailuresAreReported`; `FramesFollow`, that
uncut packets of all 29 forms follow each other without a gap, those with positions six bytes longer than
documented; and `FramesAreExact`, that the documented sizes are kept as long as no packet with positions was
begun. `SendInv` says that no byte is ahead of its packet's calls; that the calls of each layout add up to its
size is shown form by form.

Six modules without a run of their own follow. Their calls run under one lock or in one chain, so that
little interleaves; what is hard in them are sizes, sequences and combinations, which a small instance
covers poorly. Their properties are stated in the module and proved for all values of the constants. What
a proof assumes of the constants is a definition (`...Constants`) that its theorems have as their
hypothesis. `PacketReader` has a module of proofs; the proofs about the others, and about `TaskBuffer`, are
kept with those of the component they serve, which takes them with `INSTANCE`.

* `TaskBuffer` (in **`TaskBacklogProofs`**), for every capacity and reserve: `BufferTypes` and
  `BufferImplementsQueue`. The refinement mapping reads the array from head to tail modulo the capacity; the
  lemmas say what one step of the head or tail does to that sequence, and all modular arithmetic rests on `ModOnce`.
* `PacketReader` (**`PacketReaderProofs`**), for every string length above zero and any packets of the listed
  kinds: `ReaderStaysAligned`, `HandlersReadFields`, `ReaderNeverStuck`. The invariant says where
  on the wire every packet that is not handled begins (`Layout`, a function whose existence is claimed), that the
  pending buffer holds the first bytes of the packet in turn, and that the session has CustomBlocks exactly if
  the client had sent its entry before that packet. The last is what makes the reader's sizes agree with the
  client's (`SizesAgree`): the entry is handled before the next opcode is read.
* `LevelTransfer` (in **`MapSendProofs`**), for every chunk size and all buffer sizes: `TransferInOrder`,
  `TransferComplete`, `PercentAlwaysFits`. The invariant says that the client has exactly the bytes that
  `send_main_buffer` and `sent_count` stand for, and that a chain that goes on has something left to send.
* `MapSetup` (in **`MapProofs`**), for every map and client: `OnlyNegotiatedSent`, `BlocksFollowEnvironment`,
  `AbortsExplained`. The invariant is about the packets sent followed by those of the current block still to
  send, which sending leaves alone; for every place of the code it says what that list contains.
  `AbortsExplained` has five causes.
* `MapBlocks` (in **`MapProofs`**), for all sizes of the map that a short holds and all ten-bit blocks. For
  those whose product an int holds (`FitsInt`): `IndexesExact`, `ArraysImplementGrid`,
  `SetAlwaysTakesEffect`. Row-major indexes are one-to-one (`RowMajorInjective`, twice), they do not wrap
  (`IntExact`), and replacing one of four two-bit fields of a byte leaves the others (`BitsWritten`). For the
  others `LargeMapsOverrun`: row-major indexes are onto (`RowMajorOnto`), so that some position is at the place
  just past the array.
* `JoinRouter` (in **`MapProofs`**), for any sessions, joinables and routes: `MembershipAlwaysAgrees`. The
  invariant says, for every session that is not excepted and every stage of its join and its disconnect,
  of which joinables it is a member.
* `Heartbeat` (in **`ServerControlProofs`**), for all services, salts and users: `KeysAcceptedOnce` (of keys
  that are a digest and nothing more), `CyclesNotMixed`. The invariant says that the thread has the mutex exactly during its cycle, that the tree
  holds the accepted digests, and that only during a cycle can it hold some that are out of date.

Only model-checked: liveness under fairness (`StopCompletes`, `NoStarvation`, `StopDisconnectsEveryone`,
`QuitEnds`, `EveryoneAnswered`, `OpensAnswered`, `SendsEnd`), which the prover does not reach, and the
counterexamples to `KickCompletes`, `PassEvicts` and `FramesExact`. Liveness of the modules without a run (a transfer ends, a stopped
heartbeat thread exits) is not checked.

## Not modelled

* Most of the lines under `src/` are vendored libraries (plibsys, zlib, curl, cNBT). They appear only through
  their effect on a caller: a mutex, a socket, a thread, an allocation that may fail. The models are of the server's
  own code, some six thousand lines, of which the map in `PROJECT.json` names about three fifths.
* The values of packet fields and so the encoding of shorts, ints and strings; the two bits per extension in
  which a session keeps versions; the NBT format and the values of a map's parts; compression (`utils.c`);
  logging; the HTTP exchange of a heartbeat; reading the console.
* Code that nothing reaches: the branch of `tc_api_schedule_send_map` for a map that is loaded already
  (api.c:540-548) and with it `tc_map_ref`; `tc_map_cache_open_from_entry`, since no entry is ever found; the
  list after an eviction, where `EvictClosed` ends the behaviour. `tc_join_router_stop_all` and `tc_find_joinable` have returns that keep the router's
  lock (joinable.c:45, 79); the one call of stop_all is guarded and comes after the last worker, so
  the lock is left out.
* Block definitions, which a send asks the client to support and never sends (api.c:393).
* Failing memory inside `tc_task_schedule_backlog` is part of `TaskBacklog`; elsewhere in the handlers of
  `Server` it is a kick or a refusal, as in the code.

`active_players` is modelled and drifts: every finished handshake adds one, a disconnect subtracts one from
every authenticated client. No text says what it must equal, so no property is stated. No text
speaks of AllowPlacement and AllowDeletion either, which are saved as they are and negated when read
(map.c:722, 516); their values are not modelled.

## Plan

1. An abstract pool (bag of tasks, room for continuations) that `ThreadPool` refines and `Server` uses.
2. Pure operators for protocol values and extension bits, against a reference definition.
