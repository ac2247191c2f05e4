--------------------------- MODULE ServerControl ----------------------------
(***************************************************************************)
(* The life of the server object: run_server (src/src/main.c) initialises, *)
(* starts and finalizes it (src/src/server.c), while the worker threads of *)
(* the pool (src/src/thread_pool.c) and the heartbeat thread live from     *)
(* their creation until they see their shutdown flag.  Every step that     *)
(* allocates may fail; what the code then undoes is a list of operations   *)
(* that the main thread works off one by one, blocking where it joins.     *)
(* A task of the pool may return, never return, or end the program.        *)
(***************************************************************************)
EXTENDS Integers, Sequences

CONSTANTS
  NumThreads,    \* worker threads the pool creates
  MaxTasks       \* bound on the tasks that wait in the pool

ASSUME ControlAssumption == NumThreads \in Nat \ {0} /\ MaxTasks \in Nat \ {0}

Threads == 1..NumThreads

VARIABLES
  main,          \* where run_server is
  todo,          \* operations left of a clean-up
  live,          \* what is allocated
  freed_twice,
  thread,        \* each worker: "none", "idle", "busy", "stuck", "exited"
  queued,        \* tasks waiting in the pool's buffers
  shutdown,      \* pool->shutdown
  heartbeat,     \* its thread: "none", "waiting", "cycling", "exited"
  hb_started,    \* heartbeat_manager->started
  hb_shutdown,   \* heartbeat_manager->shutdown
  started,       \* server->started
  serving        \* tc_server_start returned TRUE

vars == << main, todo, live, freed_twice, thread, queued, shutdown, heartbeat, hb_started,
           hb_shutdown, started, serving >>
threadVars == << thread, queued, shutdown, heartbeat, hb_started, hb_shutdown >>

\* run_server allocates the server without clearing it: server->started has
\* whatever value the memory had.  The joinable and the list that holds it are
\* there before tc_server_init begins.
Init ==
  /\ main = "address"
  /\ todo = << >>
  /\ live = {"joinables"}
  /\ freed_twice = FALSE
  /\ thread = [t \in Threads |-> "none"]
  /\ queued = 0
  /\ shutdown = FALSE
  /\ heartbeat = "none"
  /\ hb_started = FALSE
  /\ hb_shutdown = FALSE
  /\ started \in BOOLEAN
  /\ serving = FALSE

-----------------------------------------------------------------------------
(* The steps of tc_server_init, each with the undoing of its failure.        *)

\* What tc_server_init does when a step after the heartbeat manager's fails.
Undo(more) ==
  << "stop_pool", "finalize_pool", "socket", "address", "finalize_heartbeat" >> \o more

\* tc_join_router_finalize stops and frees the joinables and their list, and
\* then frees the router's lock.
Router == << "joinables", "router" >>

\* One step: the resource it allocates, the step after it, its clean-up.
Steps ==
  [address   |-> [next |-> "socket", undo |-> << >>],
   socket    |-> [next |-> "bind", undo |-> << "address" >>],
   bind      |-> [next |-> "pool", undo |-> << "socket", "address" >>],
   pool      |-> [next |-> "heartbeat", undo |-> << "socket", "address" >>],
   heartbeat |-> [next |-> "cache",
                  undo |-> << "stop_pool", "finalize_pool", "socket", "address" >>],
   cache     |-> [next |-> "router", undo |-> Undo(<< >>)],
   router    |-> [next |-> "lock", undo |-> Undo(<< "cache" >>)],
   lock      |-> [next |-> "locks", undo |-> Undo(<< "cache" >> \o Router)],
   locks     |-> [next |-> "start", undo |-> Undo(<< "cache" >> \o Router \o << "lock" >>)]]

InitStep == main \in DOMAIN Steps

\* Mutant of StepSucceeds: a bound socket counts as a resource of its own.
BindAllocates ==
  /\ InitStep /\ main \notin {"pool", "heartbeat"}
  /\ live' = live \cup {main}
  /\ main' = Steps[main].next
  /\ UNCHANGED << todo, freed_twice, threadVars, started, serving >>

\* The action locks of the sessions count as one resource; bind allocates none.
StepSucceeds ==
  /\ InitStep /\ main \notin {"pool", "heartbeat"}
  /\ live' = live \cup ({main} \ {"bind"})
  /\ main' = Steps[main].next
  /\ UNCHANGED << todo, freed_twice, threadVars, started, serving >>

StepFails ==
  /\ InitStep
  /\ main # "pool" \/ \A t \in Threads : thread[t] = "none"
  /\ main' = "undo"
  /\ todo' = Steps[main].undo
  /\ UNCHANGED << live, freed_twice, threadVars, started, serving >>

Unborn == {t \in Threads : thread[t] = "none"}

\* tc_thread_pool_init makes the mutex and condition, then thread after thread;
\* the threads run from the start.
CreateThread ==
  /\ main = "pool"
  /\ Unborn # {}
  /\ live' = live \cup {"pool"}
  /\ thread' = [thread EXCEPT ![CHOOSE t \in Unborn : \A u \in Unborn : t <= u] = "idle"]
  /\ main' = IF \E t \in Unborn : \A u \in Unborn : t = u THEN "heartbeat" ELSE "pool"
  /\ UNCHANGED << todo, freed_twice, queued, shutdown, heartbeat, hb_started, hb_shutdown,
                  started, serving >>

\* A later thread cannot be created: the mutex and the condition are freed.
CreateThreadFails ==
  /\ main = "pool"
  /\ "pool" \in live
  /\ live' = live \ {"pool"}
  /\ main' = "undo"
  /\ todo' = Steps.pool.undo
  /\ UNCHANGED << freed_twice, threadVars, started, serving >>

\* heartbeat_manager_init creates its thread last.
StartHeartbeatThread ==
  /\ main = "heartbeat"
  /\ live' = live \cup {"heartbeat"}
  /\ heartbeat' = "waiting"
  /\ main' = "cache"
  /\ UNCHANGED << todo, freed_twice, thread, queued, shutdown, hb_started, hb_shutdown,
                  started, serving >>

-----------------------------------------------------------------------------
(* tc_server_start *)

\* It was started already, or so the flag says, or the socket cannot listen.
StartFails ==
  /\ main = "start"
  /\ main' = "finalize"
  /\ UNCHANGED << todo, live, freed_twice, threadVars, started, serving >>

\* The pool refuses the listener task: the socket is freed.
StartRefused ==
  /\ main = "start"
  /\ ~started
  /\ live' = live \ {"socket"}
  /\ main' = "finalize"
  /\ UNCHANGED << todo, freed_twice, threadVars, started, serving >>

\* The listener task is in the pool.
StartSucceeds ==
  /\ main = "start"
  /\ ~started
  /\ queued' = 1
  /\ hb_started' = TRUE
  /\ started' = TRUE
  /\ serving' = TRUE
  /\ main' = "serve"
  /\ UNCHANGED << todo, live, freed_twice, thread, shutdown, heartbeat, hb_shutdown >>

\* The operator types quit.
Quit ==
  /\ main = "serve"
  /\ main' = "finalize"
  /\ UNCHANGED << todo, live, freed_twice, threadVars, started, serving >>

-----------------------------------------------------------------------------
(* tc_server_finalize, and the working off of a clean-up.                    *)

\* Raising the flags: server->started decides.
Stopping == IF started THEN << "stop_heartbeat", "stop_pool" >> ELSE << >>

\* Mutant of FinalizeList: the lock is freed before the workers are drained.
FinalizeUndrained ==
  Stopping \o << "lock", "finalize_pool", "finalize_heartbeat", "address", "socket" >>
    \o Router \o << "cache", "locks" >>

\* Mutant of FinalizeList: the join router frees the cache, too.
FinalizeCacheTwice ==
  Stopping \o << "finalize_pool", "finalize_heartbeat", "address", "socket", "lock", "cache" >>
    \o Router \o << "cache", "locks" >>

\* Mutant of FinalizeList: only the pool is stopped.
FinalizeWithoutStop ==
  (IF started THEN << "stop_pool" >> ELSE << >>)
    \o << "finalize_pool", "finalize_heartbeat", "address", "socket", "lock" >>
    \o Router \o << "cache", "locks" >>

\* Mutant of FinalizeList: the list of joinables is not freed.
FinalizeLeaking ==
  Stopping \o << "finalize_pool", "finalize_heartbeat", "address", "socket", "lock", "router",
                 "cache", "locks" >>

FinalizeList ==
  Stopping \o << "finalize_pool", "finalize_heartbeat", "address", "socket", "lock" >>
    \o Router \o << "cache", "locks" >>

BeginFinalize ==
  /\ main = "finalize"
  /\ main' = "undo"
  /\ todo' = FinalizeList
  /\ UNCHANGED << live, freed_twice, threadVars, started, serving >>

Doing(op) == main = "undo" /\ todo # << >> /\ Head(todo) = op /\ todo' = Tail(todo)

StopPool ==
  /\ Doing("stop_pool")
  /\ shutdown' = TRUE
  /\ UNCHANGED << main, live, freed_twice, thread, queued, heartbeat, hb_started, hb_shutdown,
                  started, serving >>

StopHeartbeat ==
  /\ Doing("stop_heartbeat")
  /\ hb_shutdown' = TRUE
  /\ UNCHANGED << main, live, freed_twice, thread, queued, shutdown, heartbeat, hb_started,
                  started, serving >>

Free(r) ==
  /\ live' = live \ {r}
  /\ freed_twice' = (freed_twice \/ r \notin live)

\* tc_thread_pool_finalize joins every worker.
FinalizePool ==
  /\ Doing("finalize_pool")
  /\ \A t \in Threads : thread[t] = "exited"
  /\ Free("pool")
  /\ UNCHANGED << main, threadVars, started, serving >>

\* tc_heartbeat_manager_finalize joins the heartbeat thread.
FinalizeHeartbeat ==
  /\ Doing("finalize_heartbeat")
  /\ heartbeat = "exited"
  /\ Free("heartbeat")
  /\ UNCHANGED << main, threadVars, started, serving >>

Plain == {"address", "socket", "cache", "joinables", "router", "lock", "locks"}

\* tc_map_cache_finalize frees its entries, and not the entries' backlogs.
FreePlain ==
  /\ \E r \in Plain : Doing(r) /\ Free(r)
  /\ UNCHANGED << main, threadVars, started, serving >>

\* An entry whose map no load has filled in is finalized all the same: its
\* pointers are garbage.
FreeCacheCrashes ==
  /\ Doing("cache")
  /\ "backlogs" \in live
  /\ main' = "aborted"
  /\ UNCHANGED << live, freed_twice, threadVars, started, serving >>

\* run_server frees the server object and returns.
Return ==
  /\ main = "undo"
  /\ todo = << >>
  /\ main' = "returned"
  /\ UNCHANGED << todo, live, freed_twice, threadVars, started, serving >>

Main ==
  \/ StepSucceeds \/ StepFails \/ CreateThread \/ CreateThreadFails
  \/ StartHeartbeatThread
  \/ StartFails \/ StartRefused \/ StartSucceeds
  \/ BeginFinalize \/ StopPool \/ StopHeartbeat
  \/ FinalizePool \/ FinalizeHeartbeat \/ FreePlain \/ FreeCacheCrashes \/ Return

-----------------------------------------------------------------------------
(* The threads *)

TakeTask(t) ==
  /\ thread[t] = "idle"
  /\ queued > 0
  /\ queued' = queued - 1
  /\ thread' = [thread EXCEPT ![t] = "busy"]
  /\ UNCHANGED << main, live >>

\* A task returns, having scheduled its continuation and others.  Once shutdown
\* is set the pool takes no new task, and a chain ends with its shutdown task,
\* which counts here as part of the task that scheduled it.
TaskReturns(t) ==
  /\ thread[t] = "busy"
  /\ thread' = [thread EXCEPT ![t] = "idle"]
  /\ queued' \in IF shutdown THEN {queued} ELSE queued..MaxTasks
  /\ UNCHANGED << main, live >>

\* A task opens a map: the cache's entry gets a backlog.
TaskOpensMap(t) ==
  /\ thread[t] = "busy"
  /\ ~shutdown
  /\ live' = live \cup {"backlogs"}
  /\ UNCHANGED << main, thread, queued >>

\* A task never returns: it waits for a lock that its own thread holds, or for
\* one that a task has left locked.
TaskBlocks(t) ==
  /\ thread[t] = "busy"
  /\ thread' = [thread EXCEPT ![t] = "stuck"]
  /\ UNCHANGED << main, live, queued >>

\* An assertion fails in a task.
TaskAborts(t) ==
  /\ thread[t] = "busy"
  /\ main' = "aborted"
  /\ UNCHANGED << live, thread, queued >>

\* thread_pool_worker leaves its loop when the buffers are empty, the flag is
\* set and no thread runs a task.
WorkerExits(t) ==
  /\ thread[t] = "idle"
  /\ queued = 0
  /\ shutdown
  /\ \A u \in Threads : thread[u] \notin {"busy", "stuck"}
  /\ thread' = [thread EXCEPT ![t] = "exited"]
  /\ UNCHANGED << main, live, queued >>

\* One step of a worker.
Worker(t) ==
  /\ main # "aborted"
  /\ \/ TakeTask(t) \/ TaskReturns(t) \/ TaskOpensMap(t)
     \/ TaskBlocks(t) \/ TaskAborts(t) \/ WorkerExits(t)
  /\ UNCHANGED << todo, freed_twice, shutdown, heartbeat, hb_started, hb_shutdown, started,
                  serving >>

\* heartbeat_worker waits until it is started, and only then looks at shutdown.
HeartbeatBegins ==
  /\ main # "aborted"
  /\ heartbeat = "waiting"
  /\ hb_started
  /\ heartbeat' = "cycling"
  /\ UNCHANGED << main, todo, live, freed_twice, thread, queued, shutdown, hb_started,
                  hb_shutdown, started, serving >>

HeartbeatExits ==
  /\ main # "aborted"
  /\ heartbeat = "cycling"
  /\ hb_shutdown
  /\ heartbeat' = "exited"
  /\ UNCHANGED << main, todo, live, freed_twice, thread, queued, shutdown, hb_started,
                  hb_shutdown, started, serving >>

Next ==
  \/ Main
  \/ Quit
  \/ \E t \in Threads : Worker(t)
  \/ HeartbeatBegins
  \/ HeartbeatExits

Spec == Init /\ [][Next]_vars

\* Every thread runs, and a task that is not stuck goes on; the operator may
\* never quit.
FairSpec ==
  /\ Spec
  /\ WF_vars(Main)
  /\ \A t \in Threads : WF_vars(Worker(t))
  /\ WF_vars(HeartbeatBegins \/ HeartbeatExits)

-----------------------------------------------------------------------------
\* What the server is made of, and what serving clients adds to it.
Parts == Plain \cup {"pool", "heartbeat"}
Resources == Parts \cup {"backlogs"}

TypeOK ==
  /\ main \in DOMAIN Steps \cup {"start", "serve", "finalize", "undo", "returned", "aborted"}
  /\ todo \in Seq(Plain \cup {"stop_pool", "stop_heartbeat", "finalize_pool",
                              "finalize_heartbeat"})
  /\ live \subseteq Resources
  /\ freed_twice \in BOOLEAN
  /\ thread \in [Threads -> {"none", "idle", "busy", "stuck", "exited"}]
  /\ queued \in 0..MaxTasks
  /\ shutdown \in BOOLEAN
  /\ heartbeat \in {"none", "waiting", "cycling", "exited"}
  /\ hb_started \in BOOLEAN /\ hb_shutdown \in BOOLEAN
  /\ started \in BOOLEAN /\ serving \in BOOLEAN

Running == \E t \in Threads : thread[t] \notin {"none", "exited"}

\* What the workers of a server that has served clients use is there until the
\* last of them has ended: sessions' locks, the server's lock, the router, the
\* map cache, the pool's own lock.
ServedThenDrained == serving /\ Running => Parts \subseteq live

\* However far the initialisation got, and whatever failed, nothing is freed
\* twice.
FreedOnce == ~freed_twice

\* What is left when run_server returns.  After a failed initialisation it is
\* the joinable and its list (main.c:137), which only the finalizing of the
\* router frees, and main.c:150-153 does not; after serving, at most the
\* backlogs of the maps that were opened, which tc_map_cache_finalize
\* (map_cache.c:26-39) leaves.  All other parts have been freed.
OnlyKnownLeaks ==
  main = "returned" => live \subseteq IF serving THEN {"backlogs"} ELSE {"joinables"}

\* A server that has served clients comes to its end when the operator quits:
\* the flags are raised before the threads are joined, and what is in the pool
\* is worked off.  There are two ways out.  A task that never returns keeps
\* every worker from leaving (thread_pool.c:119), and the join waits for ever
\* (the kicks of server.c:418 and handler.c:182, a load that waits for a mutex
\* of the map cache that was left locked); or the program has ended before.
QuitEnds ==
  main = "finalize" /\ serving ~>
    main \in {"returned", "aborted"} \/ \E t \in Threads : thread[t] = "stuck"
=============================================================================
