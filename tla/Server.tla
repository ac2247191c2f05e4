------------------------------- MODULE Server -------------------------------
(***************************************************************************)
(* The life of a session: accepted by the listener chain, served by the    *)
(* listen task and the packet handlers, sent a map on joining, and         *)
(* disconnected (src/src/server.c, handler.c, joinable.c, the task chain   *)
(* of api.c and the lobby of main.c).                                      *)
(*                                                                         *)
(* Sessions live in a fixed array.  A slot's action lock serialises the    *)
(* tasks of its session, and a generation, advanced by every disconnect,   *)
(* lets a task find out that the slot was given to someone else.           *)
(*                                                                         *)
(* The thread pool is what ThreadPool guarantees of it: a bag of tasks any *)
(* worker may take from, where a continuation always fits and a new task   *)
(* may be refused.  A worker is "at" the next thing its task does: what a  *)
(* task does between taking and giving up a lock is one step, except where *)
(* another thread can tell the parts apart.                                *)
(***************************************************************************)
EXTENDS Integers, FiniteSets

CONSTANTS
  Workers,
  MaxSessions,      \* TC_SERVER_MAX_SESSIONS
  MaxConnections,   \* bound: clients accepted in a behaviour
  Packets,          \* the packets clients send
  Counts,           \* extension counts clients announce
  MaxExtraEntries,  \* bound: extension entries sent beyond the announced ones
  MaxPlayers,       \* bound: value the player count may reach
  MaxBroken         \* bound: broken connections at a time

ASSUME ServerAssumption ==
  /\ MaxSessions \in Nat \ {0}
  /\ MaxConnections \in Nat
  /\ Packets \subseteq {"identification", "extinfo", "extentry",
                        "support_level", "set_block", "position"}
  /\ Counts \subseteq Int
  /\ MaxExtraEntries \in Nat
  /\ MaxPlayers \in Nat
  /\ MaxBroken \in Nat

VARIABLES
  session,          \* session_buffer
  id_buffer,
  id_buffer_head,
  active_players,
  tasks,            \* bag of the tasks queued in the thread pool
  worker,           \* the task each worker runs and where it is in it
  shutdown,         \* the thread pool is stopping
  aborted,          \* an assertion failed
  connections       \* clients accepted so far

vars == << session, id_buffer, id_buffer_head, active_players, tasks, worker,
           shutdown, aborted, connections >>

pool    == << tasks, shutdown >>
idList  == << id_buffer, id_buffer_head >>
limits  == << shutdown, aborted, connections >>

Ids == 0..(MaxSessions - 1)

NoOpcode == "none"

\* A slot no client has used yet.
FreshSession ==
  [generation |-> 0, locked |-> FALSE, connected |-> FALSE, reset |-> FALSE,
   authenticated |-> FALSE, supports_cpe |-> FALSE, remaining |-> -1,
   custom_blocks |-> FALSE, joined |-> FALSE, opcode |-> NoOpcode]

\* The fields handle_new_session sets.
NewSession(s) ==
  [FreshSession EXCEPT !.generation = s.generation, !.locked = TRUE,
                       !.connected = TRUE]

Task(func, id, generation) ==
  [func |-> func, id |-> id, generation |-> generation]

Listener == Task("listener", -1, -1)
Idle     == [at |-> "idle", task |-> Listener]

Handlers == {"identification", "extinfo", "extentry", "support_level",
             "set_block", "position"}

\* Tasks that start by taking the session's action lock.
LockingTasks == Handlers \cup {"listen", "begin_cpe", "shutdown_client",
                               "send_map2", "spawn"}

At(w, place) == ~aborted /\ worker[w].at = place
Runs(w, func) == worker[w].task.func = func
Own(w)  == worker[w].task.id
Gen(w)  == worker[w].task.generation

GoTo(w, place) == worker' = [worker EXCEPT ![w].at = place]
Finish(w)      == worker' = [worker EXCEPT ![w] = Idle]

-----------------------------------------------------------------------------
(* The thread pool *)

\* The queue is a bag: the tasks in it, and how many times each is.
IsQueue(q) == q \in [DOMAIN q -> Nat \ {0}]

WithTask(q, t) ==
  [u \in DOMAIN q \cup {t} |->
     IF u \notin DOMAIN q THEN 1 ELSE IF u = t THEN q[u] + 1 ELSE q[u]]

WithoutTask(q, t) ==
  IF q[t] = 1 THEN [u \in DOMAIN q \ {t} |-> q[u]] ELSE [q EXCEPT ![t] = @ - 1]

Scheduled(t) == WithTask(tasks, t)

\* A worker takes a task; the order of the buffers is ThreadPool's matter.
TakeTask(w) ==
  /\ At(w, "idle")
  /\ \E t \in DOMAIN tasks :
       /\ tasks' = WithoutTask(tasks, t)
       /\ worker' = [worker EXCEPT ![w] = [at |-> "start", task |-> t]]
  /\ UNCHANGED << session, idList, active_players, limits >>

\* Mutant of ScheduleNext: a stopping pool ends the chain, shutdown task or not.
ScheduleNextDropped(w, next_task, shutdown_task) ==
  tasks' = IF shutdown THEN tasks
           ELSE Scheduled(Task(next_task, Own(w), Gen(w)))

\* tc_thread_schedule_next with a client's shutdown task.
ScheduleNext(w, next_task, shutdown_task) ==
  tasks' = Scheduled(Task(IF shutdown THEN shutdown_task ELSE next_task,
                          Own(w), Gen(w)))

\* tc_thread_schedule_new, or tc_thread_schedule_next2, when it succeeds.
ScheduleNew(w, new_task) ==
  /\ ~shutdown
  /\ tasks' = Scheduled(Task(new_task, Own(w), Gen(w)))

\* tc_server_stop, by the main thread.
Stop ==
  /\ ~aborted
  /\ ~shutdown
  /\ shutdown' = TRUE
  /\ UNCHANGED << session, idList, active_players, tasks, worker, aborted,
                  connections >>

-----------------------------------------------------------------------------
(* Action lock and disconnecting *)

\* Mutant of AquireActionLock: the generation is not compared.
AquireActionLockUnchecked(w) ==
  /\ At(w, "start")
  /\ worker[w].task.func \in LockingTasks
  /\ ~session[Own(w)].locked
  /\ session' = [session EXCEPT ![Own(w)].locked = TRUE]
  /\ GoTo(w, "critical")
  /\ UNCHANGED << idList, active_players, pool, aborted, connections >>

\* tc_session_aquire_action_lock at the start of a task.  The task ends when
\* the generation is not its own; only the lobby's success handler (spawn)
\* goes on without the lock.
AquireActionLock(w) ==
  LET s == session[Own(w)]
  IN  /\ At(w, "start")
      /\ worker[w].task.func \in LockingTasks
      /\ ~s.locked
      /\ IF s.generation = Gen(w)
         THEN /\ session' = [session EXCEPT ![Own(w)].locked = TRUE]
              /\ GoTo(w, "critical")
         ELSE /\ UNCHANGED session
              /\ IF Runs(w, "spawn") THEN GoTo(w, "critical") ELSE Finish(w)
      /\ UNCHANGED << idList, active_players, pool, aborted, connections >>

\* tc_session_release_action_lock as the last thing a task does.
ReleaseActionLock(w) ==
  /\ At(w, "release")
  /\ session' = [session EXCEPT ![Own(w)].locked = FALSE]
  /\ Finish(w)
  /\ UNCHANGED << idList, active_players, pool, aborted, connections >>

\* Mutant of Disconnect: the id is stored before the head is moved back.
DisconnectStoreFirst(id, s, players) ==
  /\ session' = [session EXCEPT ![id] =
                   [s EXCEPT !.generation = @ + 1, !.connected = FALSE,
                             !.reset = FALSE, !.joined = FALSE]]
  /\ active_players' = IF s.authenticated THEN players - 1 ELSE players
  /\ id_buffer_head' = id_buffer_head - 1
  /\ id_buffer' = [id_buffer EXCEPT ![id_buffer_head] = id]

\* disconnect_session of slot id, whose fields are s, when players are counted.
Disconnect(id, s, players) ==
  /\ session' = [session EXCEPT ![id] =
                   [s EXCEPT !.generation = @ + 1, !.connected = FALSE,
                             !.reset = FALSE, !.joined = FALSE]]
  /\ active_players' = IF s.authenticated THEN players - 1 ELSE players
  /\ id_buffer_head' = id_buffer_head - 1
  /\ id_buffer' = [id_buffer EXCEPT ![id_buffer_head - 1] = id]

\* tc_server_kick_session by a task that holds the lock (aquire_lock FALSE);
\* the task then gives the lock up.
KickAndRelease(w, s) ==
  /\ Disconnect(Own(w), s, active_players)
  /\ GoTo(w, "release")
  /\ UNCHANGED << pool, aborted, connections >>

\* tc_server_kick_session by a map send that failed: without the lock.
KickUnlocked(w) ==
  /\ At(w, "failed")
  /\ Disconnect(Own(w), session[Own(w)], active_players)
  /\ Finish(w)
  /\ UNCHANGED << pool, aborted, connections >>

\* tc_server_kick_session with aquire_lock TRUE by a task that holds the lock
\* already (handle_new_session, finalize_player_identification): it waits for
\* the lock, disconnects unless the generation moved on, and goes on.
KickAquiring(w) ==
  LET s == session[Own(w)]
  IN  /\ At(w, "kick")
      /\ ~s.locked
      /\ IF s.generation = Gen(w)
         THEN Disconnect(Own(w), s, active_players)
         ELSE UNCHANGED << session, idList, active_players >>
      /\ GoTo(w, IF Runs(w, "listener") THEN "new_release" ELSE "inner_release")
      /\ UNCHANGED << pool, aborted, connections >>

\* tc_server_shutdown_client_task
ShutdownClient(w) ==
  /\ At(w, "critical") /\ Runs(w, "shutdown_client")
  /\ KickAndRelease(w, session[Own(w)])

-----------------------------------------------------------------------------
(* Accepting clients: listener_worker_task and handle_new_session *)

\* The listener's continuation, which has no shutdown task.
RescheduleListener ==
  tasks' = IF shutdown THEN tasks ELSE Scheduled(Listener)

\* Nobody connects, or every slot is taken and the client is turned away.
AcceptNobody(w) ==
  /\ At(w, "start") /\ Runs(w, "listener")
  /\ RescheduleListener
  /\ Finish(w)
  /\ UNCHANGED << session, idList, active_players, limits >>

\* A client gets the next id; the slot's generation is read before the lock
\* is taken.
AcceptClient(w) ==
  LET id == id_buffer[id_buffer_head]
  IN  /\ At(w, "start") /\ Runs(w, "listener")
      /\ connections < MaxConnections
      /\ id_buffer_head < MaxSessions
      /\ connections' = connections + 1
      /\ id_buffer_head' = id_buffer_head + 1
      /\ worker' = [worker EXCEPT ![w] =
                      [at |-> "new_aquire",
                       task |-> Task("listener", id, session[id].generation)]]
      /\ UNCHANGED << session, id_buffer, active_players, pool, aborted >>

\* The lock is taken and the session initialised; had the generation moved,
\* the id would be lost.
NewSessionAquire(w) ==
  LET s == session[Own(w)]
  IN  /\ At(w, "new_aquire")
      /\ ~s.locked
      /\ IF s.generation = Gen(w)
         THEN /\ session' = [session EXCEPT ![Own(w)] = NewSession(s)]
              /\ GoTo(w, "new_critical")
              /\ UNCHANGED tasks
         ELSE /\ RescheduleListener
              /\ Finish(w)
              /\ UNCHANGED session
      /\ UNCHANGED << idList, active_players, limits >>

\* Mutant of NewSessionSchedule: a refused listen task goes unnoticed.
NewSessionScheduleUnchecked(w) ==
  /\ At(w, "new_critical")
  /\ ScheduleNew(w, "listen") \/ UNCHANGED tasks
  /\ GoTo(w, "new_release")
  /\ UNCHANGED << session, idList, active_players, limits >>

\* The listen task is scheduled, the pool refuses it, or there is no memory
\* for the ping profiler.
NewSessionSchedule(w) ==
  /\ At(w, "new_critical")
  /\ \/ /\ ScheduleNew(w, "listen")
        /\ GoTo(w, "new_release")
        /\ UNCHANGED << session, idList, active_players >>
     \/ /\ GoTo(w, "kick")
        /\ UNCHANGED << session, idList, active_players, tasks >>
     \/ /\ Disconnect(Own(w), session[Own(w)], active_players)
        /\ GoTo(w, "new_release")
        /\ UNCHANGED tasks
  /\ UNCHANGED limits

NewSessionRelease(w) ==
  /\ At(w, "new_release")
  /\ session' = [session EXCEPT ![Own(w)].locked = FALSE]
  /\ RescheduleListener
  /\ Finish(w)
  /\ UNCHANGED << idList, active_players, limits >>

-----------------------------------------------------------------------------
(* Steps a task that holds the lock may end its work with *)

\* tc_server_protocol_handler_cleanup: the packet is dropped and the chain
\* goes on with next_task.
CleanupAndSchedule(w, s, next_task) ==
  /\ session' = [session EXCEPT ![Own(w)] = [s EXCEPT !.opcode = NoOpcode]]
  /\ ScheduleNext(w, next_task, "shutdown_client")
  /\ GoTo(w, "release")
  /\ UNCHANGED << idList, active_players, limits >>

\* TC_ASSERT(session->supports_cpe): the program ends.
AssertionFails(w) ==
  /\ ~session[Own(w)].supports_cpe
  /\ aborted' = TRUE
  /\ UNCHANGED << session, idList, active_players, pool, worker, connections >>

\* tc_api_schedule_send_map, called by the lobby's attempt_join, gets the load
\* of the map scheduled.
ScheduleSendMap(w) == ScheduleNew(w, "load_map")

\* Mutant of FinalizePlayerIdentification: the listen task is scheduled as well
\* as the map load.
FinalizeAndListen(w, s) ==
  /\ ~shutdown
  /\ active_players < MaxPlayers
  /\ session' = [session EXCEPT ![Own(w)] = [s EXCEPT !.opcode = NoOpcode]]
  /\ active_players' = active_players + 1
  /\ tasks' = WithTask(Scheduled(Task("listen", Own(w), Gen(w))),
                       Task("load_map", Own(w), Gen(w)))
  /\ GoTo(w, "set_joinable")
  /\ UNCHANGED << idList, limits >>

\* finalize_player_identification and the tc_session_join it makes, with the
\* session's fields s: (1) the identification cannot be sent; (2) the lobby
\* schedules the map load; (3) the load cannot be scheduled, the session is
\* kicked but counts as joined; (4) the lobby cannot be joined, the session is
\* kicked and then kicked again.
FinalizePlayerIdentification(w, s) ==
  LET cleaned == [s EXCEPT !.opcode = NoOpcode]
  IN  \/ KickAndRelease(w, s)
      \/ /\ active_players < MaxPlayers
         /\ session' = [session EXCEPT ![Own(w)] = cleaned]
         /\ active_players' = active_players + 1
         /\ ScheduleSendMap(w)
         /\ GoTo(w, "set_joinable")
         /\ UNCHANGED << idList, limits >>
      \/ \E next \in {"set_joinable", "kick"} :
           /\ Disconnect(Own(w), cleaned, active_players + 1)
           /\ GoTo(w, next)
           /\ UNCHANGED << pool, aborted, connections >>

\* tc_session_join stores the joinable after attempt_join has returned.
SetCurrentJoinable(w) ==
  /\ At(w, "set_joinable")
  /\ session' = [session EXCEPT ![Own(w)].joined = TRUE]
  /\ GoTo(w, "inner_release")
  /\ UNCHANGED << idList, active_players, pool, aborted, connections >>

\* finalize_player_identification gives the lock up, as its caller will again.
FinalizeRelease(w) ==
  /\ At(w, "inner_release")
  /\ session' = [session EXCEPT ![Own(w)].locked = FALSE]
  /\ GoTo(w, "release")
  /\ UNCHANGED << idList, active_players, pool, aborted, connections >>

-----------------------------------------------------------------------------
(* The client's task chain *)

\* tc_server_client_listen_task, holding the lock: nothing or part of a packet
\* is read, an opcode is read, a packet is complete, or the client is dropped
\* (ping failed, connection closed, unknown opcode, out of memory).  A receive
\* error drops the client only while no packet is pending.
ClientListen(w) ==
  LET s == session[Own(w)]
  IN  /\ At(w, "critical") /\ Runs(w, "listen")
      /\ \/ /\ s.reset => s.opcode # NoOpcode
            /\ ScheduleNext(w, "listen", "shutdown_client")
            /\ GoTo(w, "release")
            /\ UNCHANGED << session, idList, active_players, limits >>
         \/ /\ s.opcode = NoOpcode /\ ~s.reset
            /\ \E p \in Packets :
                 /\ p = "extentry" => s.remaining >= -MaxExtraEntries
                 /\ session' = [session EXCEPT ![Own(w)].opcode = p]
            /\ ScheduleNext(w, "listen", "shutdown_client")
            /\ GoTo(w, "release")
            /\ UNCHANGED << idList, active_players, limits >>
         \/ /\ s.opcode # NoOpcode /\ ~s.reset
            /\ ScheduleNext(w, s.opcode, "shutdown_client")
            /\ GoTo(w, "release")
            /\ UNCHANGED << session, idList, active_players, limits >>
         \/ KickAndRelease(w, s)

\* handle_player_identification
PlayerIdentification(w) ==
  LET s == session[Own(w)]
      valid == [s EXCEPT !.authenticated = TRUE]
  IN  /\ At(w, "critical") /\ Runs(w, "identification")
      /\ \/ KickAndRelease(w, s)
         \/ /\ ~s.authenticated
            /\ CleanupAndSchedule(w, [valid EXCEPT !.supports_cpe = TRUE],
                                  "begin_cpe")
         \/ /\ ~s.authenticated
            /\ FinalizePlayerIdentification(w, valid)

\* handle_begin_cpe_negotiation
BeginCpeNegotiation(w) ==
  LET s == session[Own(w)]
  IN  /\ At(w, "critical") /\ Runs(w, "begin_cpe")
      /\ \/ AssertionFails(w)
         \/ s.supports_cpe /\ KickAndRelease(w, s)
         \/ s.supports_cpe /\ CleanupAndSchedule(w, s, "listen")

\* handle_cpe_extinfo
CpeExtInfo(w) ==
  LET s == session[Own(w)]
  IN  /\ At(w, "critical") /\ Runs(w, "extinfo")
      /\ \/ AssertionFails(w)
         \/ s.supports_cpe /\ s.remaining >= 0 /\ KickAndRelease(w, s)
         \/ /\ s.supports_cpe /\ s.remaining < 0
            /\ \E n \in Counts :
                 CleanupAndSchedule(w, [s EXCEPT !.remaining = n], "listen")

\* handle_cpe_extentry: all entries were sent already or the version is bad;
\* the extension is unknown; it is a known one and not the last entry; it is
\* the last and the support level is sent, or cannot be; it is the last and
\* the client has no custom blocks.
CpeExtEntry(w) ==
  LET s == session[Own(w)]
      rest == [s EXCEPT !.remaining = @ - 1]
      known == { rest, [rest EXCEPT !.custom_blocks = TRUE] }
  IN  /\ At(w, "critical") /\ Runs(w, "extentry")
      /\ \/ AssertionFails(w)
         \/ s.supports_cpe /\ s.remaining = 0 /\ KickAndRelease(w, s)
         \/ /\ s.supports_cpe /\ s.remaining # 0
            /\ \/ KickAndRelease(w, rest)
               \/ CleanupAndSchedule(w, rest, "listen")
               \/ \E k \in known :
                    \/ /\ k.remaining # 0 \/ k.custom_blocks
                       /\ CleanupAndSchedule(w, k, "listen")
                    \/ /\ k.remaining = 0 /\ k.custom_blocks
                       /\ Disconnect(Own(w), k, active_players)
                       /\ GoTo(w, "kicked_listen")
                       /\ UNCHANGED << pool, aborted, connections >>
                    \/ /\ k.remaining = 0 /\ ~k.custom_blocks
                       /\ FinalizePlayerIdentification(w, k)

\* handle_cpe_extentry goes on after kicking a client it could not send the
\* support level to: it schedules the listen task of the session that ended.
KickedListen(w) ==
  /\ At(w, "kicked_listen")
  /\ CleanupAndSchedule(w, session[Own(w)], "listen")

\* handle_cpe_custom_block_support_level
CpeCustomBlockSupportLevel(w) ==
  LET s == session[Own(w)]
  IN  /\ At(w, "critical") /\ Runs(w, "support_level")
      /\ \/ AssertionFails(w)
         \/ s.supports_cpe /\ FinalizePlayerIdentification(w, s)

\* handle_player_set_block and handle_player_position_and_orientation_update:
\* the lobby accepts both.
PlayerAction(w) ==
  LET s == session[Own(w)]
  IN  /\ At(w, "critical") /\ worker[w].task.func \in {"set_block", "position"}
      /\ \/ s.joined /\ CleanupAndSchedule(w, s, "listen")
         \/ ~s.joined /\ KickAndRelease(w, s)

-----------------------------------------------------------------------------
(* Sending the map: the chain keeps the action lock from one task to the next *)

\* tc_map_cache_load_task, then on_map_load_success on the same chain, or the
\* failure handlers.
LoadMap(w) ==
  /\ At(w, "start") /\ Runs(w, "load_map")
  /\ \/ ScheduleNew(w, "compress") /\ Finish(w)
     \/ GoTo(w, "failed") /\ UNCHANGED tasks
  /\ UNCHANGED << session, idList, active_players, limits >>

\* on_map_load_success
CompressMap(w) ==
  /\ At(w, "start") /\ Runs(w, "compress")
  /\ \/ ScheduleNew(w, "send_map2") /\ Finish(w)
     \/ GoTo(w, "failed") /\ UNCHANGED tasks
  /\ UNCHANGED << session, idList, active_players, limits >>

\* handle_failure and handle_success begin by giving the lock up.
ReleaseThen(w, place) ==
  /\ session' = [session EXCEPT ![Own(w)].locked = FALSE]
  /\ GoTo(w, place)
  /\ UNCHANGED << idList, active_players, tasks, limits >>

\* tc_send_map_task2
SendMap2(w) ==
  /\ At(w, "critical") /\ Runs(w, "send_map2")
  /\ \/ ReleaseThen(w, "failed")
     \/ /\ ScheduleNext(w, "send_buffer", "send_failure")
        /\ Finish(w)
        /\ UNCHANGED << session, idList, active_players, limits >>

\* tc_send_buffer_task: a chunk is sent and more follow, a send fails, or the
\* level is complete.
SendBuffer(w) ==
  /\ At(w, "start") /\ Runs(w, "send_buffer")
  /\ \/ /\ ScheduleNext(w, "send_buffer", "send_failure")
        /\ Finish(w)
        /\ UNCHANGED << session, idList, active_players, limits >>
     \/ ReleaseThen(w, "failed")
     \/ ReleaseThen(w, "sent")

\* tc_send_buffer_handle_failure, when the pool stops between two chunks.
SendBufferFailure(w) ==
  /\ At(w, "start") /\ Runs(w, "send_failure")
  /\ ReleaseThen(w, "failed")

\* handle_success: tc_task_backlog_invoke_handler schedules the lobby's success
\* handler or calls its failure handler.
MapSent(w) ==
  /\ At(w, "sent")
  /\ \/ ScheduleNew(w, "spawn") /\ Finish(w)
     \/ GoTo(w, "failed") /\ UNCHANGED tasks
  /\ UNCHANGED << session, idList, active_players, limits >>

\* test_handle_map_send_success: the player is placed, and listened to again.
Spawn(w) ==
  /\ At(w, "critical") /\ Runs(w, "spawn")
  /\ session' = [session EXCEPT ![Own(w)].locked = FALSE]
  /\ ScheduleNext(w, "listen", "shutdown_client")
  /\ Finish(w)
  /\ UNCHANGED << idList, active_players, limits >>

-----------------------------------------------------------------------------
\* The client's connection breaks: receiving from it is an error from now on.
ConnectionReset(id) ==
  /\ ~aborted
  /\ session[id].connected /\ ~session[id].reset
  /\ Cardinality({ i \in Ids : session[i].reset }) < MaxBroken
  /\ session' = [session EXCEPT ![id].reset = TRUE]
  /\ UNCHANGED << idList, active_players, tasks, worker, limits >>

\* tc_server_init, and the listener tc_server_start schedules.
Init ==
  /\ session = [id \in Ids |-> FreshSession]
  /\ id_buffer = [i \in Ids |-> i]
  /\ id_buffer_head = 0
  /\ active_players = 0
  /\ tasks = [t \in {Listener} |-> 1]
  /\ worker = [w \in Workers |-> Idle]
  /\ shutdown = FALSE
  /\ aborted = FALSE
  /\ connections = 0

Accepting(w) ==
  \/ AcceptNobody(w) \/ AcceptClient(w) \/ NewSessionAquire(w)
  \/ NewSessionSchedule(w) \/ NewSessionRelease(w)

Handling(w) ==
  \/ ClientListen(w) \/ PlayerIdentification(w) \/ BeginCpeNegotiation(w)
  \/ CpeExtInfo(w) \/ CpeExtEntry(w) \/ KickedListen(w)
  \/ CpeCustomBlockSupportLevel(w) \/ PlayerAction(w)
  \/ SetCurrentJoinable(w) \/ FinalizeRelease(w)

SendingMap(w) ==
  \/ LoadMap(w) \/ CompressMap(w) \/ SendMap2(w) \/ SendBuffer(w)
  \/ SendBufferFailure(w) \/ MapSent(w) \/ Spawn(w)

Locking(w) ==
  \/ AquireActionLock(w) \/ ReleaseActionLock(w) \/ KickUnlocked(w)
  \/ KickAquiring(w) \/ ShutdownClient(w)

WorkerStep(w) ==
  TakeTask(w) \/ Accepting(w) \/ Handling(w) \/ SendingMap(w) \/ Locking(w)

Next ==
  \/ \E w \in Workers : WorkerStep(w)
  \/ \E id \in Ids : ConnectionReset(id)
  \/ Stop

Spec == Init /\ [][Next]_vars

\* Every worker that can take a step takes one.
FairSpec == Spec /\ \A w \in Workers : WF_vars(WorkerStep(w))

-----------------------------------------------------------------------------
(* Properties *)

Places == {"idle", "start", "critical", "release", "inner_release", "kick",
           "set_joinable", "kicked_listen", "new_aquire", "new_critical",
           "new_release", "failed", "sent"}

Funcs == LockingTasks \cup {"listener", "load_map", "compress", "send_buffer",
                            "send_failure"}

Generations == 0..MaxConnections

Tasks == [func : Funcs, id : Ids \cup {-1}, generation : Generations \cup {-1}]

Sessions ==
  [generation : Generations, locked : BOOLEAN, connected : BOOLEAN,
   reset : BOOLEAN, authenticated : BOOLEAN, supports_cpe : BOOLEAN,
   remaining : Int, custom_blocks : BOOLEAN, joined : BOOLEAN,
   opcode : Handlers \cup {NoOpcode}]

\* The state is of the intended shape; a slot's generation never exceeds the
\* number of clients accepted.
TypeOK ==
  /\ session \in [Ids -> Sessions]
  /\ id_buffer \in [Ids -> Ids]
  /\ id_buffer_head \in 0..MaxSessions
  /\ active_players \in Int
  /\ IsQueue(tasks) /\ DOMAIN tasks \subseteq Tasks
  /\ worker \in [Workers -> [at : Places, task : Tasks]]
  /\ shutdown \in BOOLEAN /\ aborted \in BOOLEAN
  /\ connections \in 0..MaxConnections

\* The ids in the unused part of id_buffer, and the id the listener has taken
\* for a session it has not initialised yet.
FreeIds == { id_buffer[i] : i \in id_buffer_head..(MaxSessions - 1) }
TakenId == { Own(w) : w \in { v \in Workers : worker[v].at = "new_aquire" } }

\* Ids are neither lost nor handed out twice, whatever order sessions are
\* accepted and disconnected in: the unused part of id_buffer holds each id
\* without a session exactly once (handle_new_session, disconnect_session).
IdsExact ==
  /\ \A i, j \in id_buffer_head..(MaxSessions - 1) :
       id_buffer[i] = id_buffer[j] => i = j
  /\ FreeIds \cup TakenId = { id \in Ids : ~session[id].connected }
  /\ FreeIds \cap TakenId = {}

\* Places where a worker has not yet handed its session's chain on or ended it.
CarriesChain == {"start", "critical", "failed", "sent", "new_critical"}

Carriers(id) ==
  { w \in Workers :
      /\ worker[w].at \in CarriesChain \/ (worker[w].at = "kick" /\ Runs(w, "listener"))
      /\ worker[w].task = Task(worker[w].task.func, id, session[id].generation) }

Queued(id) ==
  { t \in DOMAIN tasks : t.id = id /\ t.generation = session[id].generation }

\* A connected client is served by exactly one chain of tasks: one task of its
\* generation is queued or run by a worker that has not handed the chain on.
\* None would leave the slot taken for ever; two would run its handlers twice.
OneChain ==
  \A id \in Ids :
    IF session[id].connected
    THEN \/ /\ Queued(id) = {}
            /\ \E w \in Workers : Carriers(id) = {w}
         \/ /\ Carriers(id) = {}
            /\ \E t \in Queued(id) : Queued(id) = {t} /\ tasks[t] = 1
    ELSE Carriers(id) = {} /\ Queued(id) = {}

\* A worker that disconnects a session runs a task of that session: nobody is
\* kicked by a task left over from the slot's earlier client, although the kick
\* of a failed map send checks neither lock nor generation.
OnlyOwnChainDisconnects ==
  [][\A id \in Ids :
       session'[id].generation # session[id].generation =>
         \E w \in Workers :
           /\ worker'[w] # worker[w]
           /\ Own(w) = id /\ Gen(w) = session[id].generation]_vars

\* Once the server is stopped every client is disconnected, wherever its chain
\* was: waiting, in a handler, loading or sending a map.  Two ways out are in the
\* model: a failed assertion and a kick that waits for its own worker's lock.  A
\* third is not: a load that never returns, because it waits for a mutex that an
\* eviction pass left locked (map_cache.c:96), or for the cache's lock, which such
\* a pass holds (map_cache.c:214).  Here every load returns; MapCache has the locks.
StopDisconnectsEveryone ==
  shutdown ~> \/ \A id \in Ids : ~session[id].connected
              \/ aborted
              \/ \E w \in Workers : worker[w].at = "kick"

\* "kicks a session from the server and disconnects/disposes of the session"
\* (tc_server_kick_session): a kick that takes the lock itself comes to an end.
KickCompletes ==
  \A w \in Workers : worker[w].at = "kick" ~> worker[w].at # "kick"
=============================================================================
