------------------------------ MODULE MapSend -------------------------------
(***************************************************************************)
(* Sending a map to a session (src/src/api.c) composed with the map cache: *)
(* the chain of tasks that a send is, from the waiter of an open to the    *)
(* joinable's success or failure handler (src/src/main.c), and what each   *)
(* task does to the map's references and to its reader lock.  Every open   *)
(* has its own entry, so sends are named by their entry.  Loads and the    *)
(* compression of maps are blocking tasks, of which the pool runs only so  *)
(* many at a time: a task keeps its slot while it waits for a lock.        *)
(***************************************************************************)
EXTENDS MapCache, FiniteSets

CONSTANT MaxBlocking    \* max_blocking_threads, 2 in main.c

ASSUME SendAssumption == MaxBlocking \in Nat \ {0}

VARIABLES
  stage,     \* where the send is
  readers,   \* reader locks held on each map
  gone,      \* sends whose session was gone when their second task ran
  refused    \* sends whose success handler the pool refused

sendVars == << stage, readers, gone, refused >>
allVars == << vars, sendVars >>

SendStages == {"none", "compress", "setup", "chunks", "lobby", "done", "failed", "dropped"}

SendInit ==
  /\ Init
  /\ stage = [e \in Entries |-> "none"]
  /\ readers = [e \in Entries |-> 0]
  /\ gone = {}
  /\ refused = {}

\* on_map_load_success has been scheduled with the map, and has not run.
Opened(e) == waiter[e] = "opened" /\ stage[e] = "none"

\* The pool has a slot for one more blocking task.
SlotFree ==
  Cardinality({e \in Entries : load[e] \notin {"none", "queued", "done"}})
    + Cardinality({e \in Entries : stage[e] = "compress"}) < MaxBlocking

StartLoad(e) == LoadStart(e) /\ SlotFree /\ UNCHANGED sendVars

StartCompress(e) ==
  /\ status = "running"
  /\ Opened(e)
  /\ SlotFree
  /\ stage' = [stage EXCEPT ![e] = "compress"]
  /\ UNCHANGED << vars, readers, gone, refused >>

\* The blocks are compressed under a reader lock that the send keeps, and the
\* second task is scheduled.
Compress(e) ==
  /\ status = "running"
  /\ stage[e] = "compress"
  /\ stage' = [stage EXCEPT ![e] = "setup"]
  /\ readers' = [readers EXCEPT ![e] = @ + 1]
  /\ UNCHANGED << vars, gone, refused >>

\* Compression fails, a required extension is missing, or the pool refuses the
\* second task.
CompressFails(e) ==
  /\ stage[e] = "compress"
  /\ stage' = [stage EXCEPT ![e] = "failed"]
  /\ tc_map_unref(e, 1)
  /\ UNCHANGED << readers, gone, refused >>

\* The session of the send no longer exists: the second task returns.
SetupGone(e) ==
  /\ status = "running"
  /\ stage[e] = "setup"
  /\ stage' = [stage EXCEPT ![e] = "dropped"]
  /\ gone' = gone \cup {e}
  /\ UNCHANGED << vars, readers, refused >>

\* Mutant of Setup: the first chunk is not scheduled.
SetupWithoutChunks(e) ==
  /\ status = "running"
  /\ stage[e] = "setup"
  /\ stage' = [stage EXCEPT ![e] = "idle"]
  /\ UNCHANGED << vars, readers, gone, refused >>

\* Level and environment packets are sent; the chunks follow as a chain.
Setup(e) ==
  /\ status = "running"
  /\ stage[e] = "setup"
  /\ stage' = [stage EXCEPT ![e] = "chunks"]
  /\ UNCHANGED << vars, readers, gone, refused >>

\* The program ends, for one of the causes that MapSetup names.
SetupAborts(e) ==
  /\ stage[e] = "setup"
  /\ status = "running"
  /\ status' = "aborted"
  /\ UNCHANGED << listVars, passVars, mapVars, refVars, waiter, lock, load, sendVars >>

\* Mutant of handle_failure: the reader lock is kept.
FailureReading(e) ==
  /\ stage[e] \in {"setup", "chunks"}
  /\ stage' = [stage EXCEPT ![e] = "failed"]
  /\ tc_map_unref(e, 1)
  /\ UNCHANGED << readers, gone, refused >>

\* A packet cannot be sent, or the chain cannot be continued: the reader lock
\* is released, the failure handler runs, and the send gives up the map.
handle_failure(e) ==
  /\ stage[e] \in {"setup", "chunks"}
  /\ stage' = [stage EXCEPT ![e] = "failed"]
  /\ tc_map_unref(e, 1)
  /\ readers' = [readers EXCEPT ![e] = @ - 1]
  /\ UNCHANGED << gone, refused >>

\* The last chunk is out.  The success handler is scheduled with the map, but
\* without a reference of its own, and the send gives up the map.
handle_success(e) ==
  /\ stage[e] = "chunks"
  /\ stage' = [stage EXCEPT ![e] = "lobby"]
  /\ tc_map_unref(e, 1)
  /\ readers' = [readers EXCEPT ![e] = @ - 1]
  /\ UNCHANGED << gone, refused >>

\* The pool refuses the success handler: the failure handler runs, the release
\* handler gives up the map, and so does the send.
SuccessRefused(e) ==
  /\ stage[e] = "chunks"
  /\ stage' = [stage EXCEPT ![e] = "failed"]
  /\ tc_map_unref(e, 2)
  /\ readers' = [readers EXCEPT ![e] = @ - 1]
  /\ refused' = refused \cup {e}
  /\ UNCHANGED gone

\* test_handle_map_send_success reads the spawn position under the map's
\* reader lock and goes on to listen to the client.
Lobby(e) ==
  /\ status = "running"
  /\ stage[e] = "lobby"
  /\ stage' = [stage EXCEPT ![e] = "done"]
  /\ UNCHANGED << vars, readers, gone, refused >>

SendTask(e) ==
  \/ Compress(e) \/ CompressFails(e)
  \/ SetupGone(e) \/ Setup(e) \/ SetupAborts(e)
  \/ handle_failure(e) \/ handle_success(e) \/ SuccessRefused(e)
  \/ Lobby(e)

\* No task of a send is queued or running.
AtRest(e) == ~Opened(e) /\ stage[e] \notin {"compress", "setup", "chunks", "lobby"}

SendNext ==
  \/ (Open \/ Evict) /\ UNCHANGED sendVars
  \/ \E e \in Entries : LoadTask(e) /\ UNCHANGED sendVars
  \/ \E e \in Entries : StartLoad(e) \/ StartCompress(e) \/ SendTask(e)
  \/ tc_map_cache_finalize /\ (\A e \in Entries : AtRest(e)) /\ UNCHANGED sendVars

SendSpec == SendInit /\ [][SendNext]_allVars

\* The pool comes to every task that it has accepted, as long as its tasks
\* return (ThreadPool checks that it does), and to a blocking one when there is
\* a slot again and again; a task that has begun goes on unless it waits for a
\* lock.  Where tasks wait for ever the pool promises less, which is why the
\* properties except a pool that is Clogged.
Fairness ==
  /\ \A e \in Entries :
       /\ SF_allVars(StartLoad(e) \/ StartCompress(e))
       /\ WF_allVars(LoadTask(e) /\ UNCHANGED sendVars) /\ WF_allVars(SendTask(e))
  /\ WF_allVars(Evict /\ UNCHANGED sendVars)

SendFairSpec == SendSpec /\ Fairness

\* With the branch of the pass that evicts, which SendSpec never takes.
EvictFairSpec ==
  /\ SendInit
  /\ [][SendNext \/ (EvictClosed /\ UNCHANGED sendVars)]_allVars
  /\ Fairness
  /\ WF_allVars(EvictClosed /\ UNCHANGED sendVars)

-----------------------------------------------------------------------------
\* From the moment its first task is scheduled until its last chunk is out, a
\* send works on a map that the cache counts as open, so that no pass would
\* evict it, on every path through the tasks and whatever other sends do.
TransfersSafe ==
  \A e \in Entries :
    Opened(e) \/ stage[e] \in {"compress", "setup", "chunks"}
      => open_count[e] > 0

\* A send that came to its end gave back its reference and its reader lock,
\* on every path but the two that README names: its session was gone, or the
\* pool refused its success handler.
BalancedEnd ==
  \A e \in Entries \ (gone \cup refused) :
    stage[e] \in {"done", "failed"} => open_count[e] = 0 /\ readers[e] = 0

\* Every send of a loaded map comes to its end: the session gets its map, or
\* its failure handler, or is gone, also when more maps are sent at a time than
\* the pool has slots for.  There are two ways out: a pass over the list has
\* left a mutex locked, of whatever entry; or the program has ended, as it does
\* on the paths of SetupAborts, or the cache has.
SendsEnd ==
  \A e \in Entries :
    Opened(e) ~> \/ stage[e] \in {"done", "failed", "dropped"}
                 \/ Clogged
                 \/ status # "running"
=============================================================================
