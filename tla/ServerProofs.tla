---------------------------- MODULE ServerProofs ----------------------------
(***************************************************************************)
(* The sessions of a server, for every number of workers, slots and        *)
(* clients: the inductive invariant of Server, the few kinds of step that  *)
(* keep it (a session is edited, a chain is handed on, ended or begun, a   *)
(* connection is accepted), and the steps of the workers as such kinds.    *)
(*                                                                         *)
(* None of it rests on the action locks.  What keeps the chains apart is   *)
(* that a task carries the generation of the session it was scheduled for, *)
(* that only the holder of a chain hands it on or ends it, and that all    *)
(* the tasks that go on without comparing the generation (everything but   *)
(* listen and shutdown_client) are scheduled by a holder.                  *)
(***************************************************************************)
EXTENDS Server, TLAPS

-----------------------------------------------------------------------------
(* The inductive invariant *)

\* Tasks that are only ever scheduled for the session in their slot.
Serving == Funcs \ {"listener", "listen", "shutdown_client"}

\* A queued task: the listener's, or one of a session the slot has or had.
TaskOK(t) ==
  \/ t = Listener
  \/ /\ t.func # "listener"
     /\ t.id \in Ids
     /\ t.generation \in 0..session[t.id].generation
     /\ t.func \in Serving => t.generation = session[t.id].generation

\* The worker has not handed its chain on or ended it.
Carrying(k) ==
  k.at \in CarriesChain \/ (k.at = "kick" /\ k.task.func = "listener")

\* A worker: past its start it runs a task of its slot's session, and of the
\* present one wherever it may still end it; after a kick of its own it runs
\* a task of an earlier one.
WorkerOK(k) ==
  \/ k = Idle
  \/ k.at = "start" /\ TaskOK(k.task)
  \/ /\ k.at \notin {"idle", "start"}
     /\ k.task.id \in Ids
     /\ k.task.generation \in 0..session[k.task.id].generation
     /\ Carrying(k) \/ k.at = "new_aquire"
          => k.task.generation = session[k.task.id].generation
     /\ k.at = "kicked_listen" \/ (k.at = "kick" /\ k.task.func # "listener")
          => k.task.generation < session[k.task.id].generation
     /\ k.at \in {"new_aquire", "new_critical"} => k.task.func = "listener"

\* Worker state k holds slot id's chain, and so does queued task t.
HeldBy(k, id) ==
  Carrying(k) /\ k.task.id = id /\ k.task.generation = session[id].generation

WaitsAs(t, id) == t.id = id /\ t.generation = session[id].generation

\* OneChain, by pairs of holders.
ChainOK(id) ==
  /\ \A v, w \in Workers :
       HeldBy(worker[v], id) /\ HeldBy(worker[w], id) => v = w
  /\ \A t \in DOMAIN tasks : WaitsAs(t, id) => tasks[t] = 1
  /\ \A t, u \in DOMAIN tasks : WaitsAs(t, id) /\ WaitsAs(u, id) => t = u
  /\ \A w \in Workers, t \in DOMAIN tasks :
       ~ (HeldBy(worker[w], id) /\ WaitsAs(t, id))
  /\ session[id].connected <=>
       \/ \E w \in Workers : HeldBy(worker[w], id)
       \/ \E t \in DOMAIN tasks : WaitsAs(t, id)

\* Slot id is in the unused part of id_buffer, or worker state k has taken it.
Free(id) ==
  \E i \in Ids : i >= id_buffer_head /\ id_buffer[i] = id

TakenBy(k, id) == k.at = "new_aquire" /\ k.task.id = id

\* IdsExact, slot by slot; a slot has had fewer sessions than there were
\* clients while it is in use.
SlotOK(id) ==
  /\ \A i, j \in Ids :
       /\ i >= id_buffer_head /\ id_buffer[i] = id
       /\ j >= id_buffer_head /\ id_buffer[j] = id
       => i = j
  /\ ~session[id].connected <=>
       Free(id) \/ \E w \in Workers : TakenBy(worker[w], id)
  /\ \A v, w \in Workers :
       TakenBy(worker[v], id) /\ TakenBy(worker[w], id) => v = w
  /\ \A w \in Workers : ~ (Free(id) /\ TakenBy(worker[w], id))
  /\ session[id].generation <= connections
  /\ ~Free(id) => session[id].generation < connections

\* There are no more slots in use than ids gone from id_buffer.
Seats ==
  \E seat \in [{ id \in Ids : ~Free(id) } -> { n \in Ids : n < id_buffer_head }] :
    \A a, b \in Ids : ~Free(a) /\ ~Free(b) /\ seat[a] = seat[b] => a = b

ServerInv ==
  /\ TypeOK
  /\ \A w \in Workers : WorkerOK(worker[w])
  /\ \A t \in DOMAIN tasks : TaskOK(t)
  /\ \A id \in Ids : ChainOK(id)
  /\ \A id \in Ids : SlotOK(id)
  /\ Seats

-----------------------------------------------------------------------------
(* Bags *)

\* One more task in the queue.
LEMMA AddTask ==
  ASSUME IsQueue(tasks), NEW x, tasks' = Scheduled(x)
  PROVE  /\ IsQueue(tasks')
         /\ DOMAIN tasks' = DOMAIN tasks \cup {x}
         /\ x \notin DOMAIN tasks => tasks'[x] = 1
         /\ \A y \in DOMAIN tasks : y # x => tasks'[y] = tasks[y]
BY DEF Scheduled, WithTask, IsQueue

\* One task fewer; the last copy takes it out of the domain.
LEMMA RemoveTask ==
  ASSUME IsQueue(tasks), NEW x \in DOMAIN tasks, tasks' = WithoutTask(tasks, x)
  PROVE  /\ IsQueue(tasks')
         /\ DOMAIN tasks' \subseteq DOMAIN tasks
         /\ DOMAIN tasks \subseteq DOMAIN tasks' \cup {x}
         /\ tasks[x] = 1 => x \notin DOMAIN tasks'
         /\ \A y \in DOMAIN tasks' : y # x => tasks'[y] = tasks[y]
BY DEF WithoutTask, IsQueue

-----------------------------------------------------------------------------
(* Steps that keep a slot's chain, and its id, as they were *)

\* No session begins or ends and no id is taken.
Quiet ==
  /\ session' \in [Ids -> Sessions]
  /\ \A id \in Ids : /\ session'[id].generation = session[id].generation
                     /\ session'[id].connected = session[id].connected
  /\ UNCHANGED << idList, connections >>

\* The part of the type invariant that no argument rests on.
RestOK == active_players \in Int /\ shutdown \in BOOLEAN /\ aborted \in BOOLEAN

WorkerStates == [at : Places, task : Tasks]

\* A quiet step changes nothing of what is said about a task or a worker state.
LEMMA QuietKeeps ==
  ASSUME Quiet
  PROVE  /\ \A t : TaskOK(t) => TaskOK(t)'
         /\ \A k : WorkerOK(k) => WorkerOK(k)'
         /\ \A k : \A id \in Ids : HeldBy(k, id)' <=> HeldBy(k, id)
         /\ \A t : \A id \in Ids : WaitsAs(t, id)' <=> WaitsAs(t, id)
         /\ \A id \in Ids : Free(id)' <=> Free(id)
<1>1. \A t : TaskOK(t) => TaskOK(t)'
  BY Zenon DEF Quiet, TaskOK
<1>2. \A k : WorkerOK(k) => WorkerOK(k)'
  BY Zenon, <1>1 DEF Quiet, WorkerOK
<1>3. \A k : \A id \in Ids : HeldBy(k, id)' <=> HeldBy(k, id)
  BY Zenon DEF Quiet, HeldBy
<1>4. \A t : \A id \in Ids : WaitsAs(t, id)' <=> WaitsAs(t, id)
  BY Zenon DEF Quiet, WaitsAs
<1>5. \A id \in Ids : Free(id)' <=> Free(id)
  BY Zenon DEF Quiet, Free, idList
<1> QED
  BY Zenon, <1>1, <1>2, <1>3, <1>4, <1>5

\* A slot whose holders are the same before and after a step keeps its chain.
LEMMA SameChain ==
  ASSUME NEW id \in Ids, ChainOK(id),
         session'[id].connected = session[id].connected,
         \A v \in Workers : HeldBy(worker[v], id)' <=> HeldBy(worker[v], id),
         \A t : (t \in DOMAIN tasks /\ WaitsAs(t, id))'
                  <=> (t \in DOMAIN tasks /\ WaitsAs(t, id)),
         \A t \in DOMAIN tasks : WaitsAs(t, id) => tasks'[t] = tasks[t]
  PROVE  ChainOK(id)'
BY Zenon DEF ChainOK

\* A slot that is neither taken nor returned in a step keeps its id's place.
LEMMA SameSlot ==
  ASSUME NEW id \in Ids, SlotOK(id),
         UNCHANGED << idList, connections >>,
         session'[id].connected = session[id].connected,
         session'[id].generation = session[id].generation,
         \A v \in Workers : TakenBy(worker[v], id)' <=> TakenBy(worker[v], id)
  PROVE  SlotOK(id)'
<1>1. Free(id)' <=> Free(id)
  BY Zenon DEF Free, idList
<1> QED
  BY Zenon, <1>1 DEF SlotOK, idList

\* As long as no id is taken or returned there are as many slots in use.
LEMMA SameSeats ==
  ASSUME Seats, UNCHANGED idList
  PROVE  Seats'
<1>1. \A id \in Ids : Free(id)' <=> Free(id)
  BY Zenon DEF Free, idList
<1>2. { id \in Ids : ~Free(id) }' = { id \in Ids : ~Free(id) }
  BY Zenon, <1>1
<1> QED
  BY Zenon, <1>1, <1>2 DEF Seats, idList

-----------------------------------------------------------------------------
(* The kinds of step *)

\* A worker that goes on with its task.
LEMMA GoOn ==
  ASSUME TypeOK, NEW w \in Workers, NEW place \in Places, GoTo(w, place)
  PROVE  \E k \in WorkerStates :
           /\ k.at = place
           /\ k.task = worker[w].task
           /\ worker' = [worker EXCEPT ![w] = k]
<1>1. PICK k : k = [worker[w] EXCEPT !.at = place]
  BY Zenon
<1>2. worker[w] \in WorkerStates
  BY Zenon DEF TypeOK, WorkerStates
<1>3. k \in WorkerStates /\ k.at = place /\ k.task = worker[w].task
  BY Zenon, <1>1, <1>2 DEF WorkerStates
<1>4. worker' = [worker EXCEPT ![w] = k]
  BY Zenon, <1>1 DEF GoTo
<1> QED
  BY Zenon, <1>3, <1>4

\* A step in which every holder stays one, and no new one appears.
LEMMA QuietStep ==
  ASSUME ServerInv, Quiet, RestOK',
         worker' \in [Workers -> WorkerStates],
         \A v \in Workers : WorkerOK(worker'[v]),
         \A v \in Workers, id \in Ids :
           /\ HeldBy(worker'[v], id) <=> HeldBy(worker[v], id)
           /\ TakenBy(worker'[v], id) <=> TakenBy(worker[v], id),
         IsQueue(tasks'), DOMAIN tasks' \subseteq Tasks,
         \A t \in DOMAIN tasks' : TaskOK(t),
         \A id \in Ids : \A t :
           WaitsAs(t, id) => /\ t \in DOMAIN tasks' <=> t \in DOMAIN tasks
                             /\ t \in DOMAIN tasks => tasks'[t] = tasks[t]
  PROVE  ServerInv'
<1>1. TypeOK'
  BY Zenon DEF ServerInv, TypeOK, Quiet, RestOK, WorkerStates, idList
<1>2. \A w \in Workers : WorkerOK(worker[w])'
  BY Zenon, QuietKeeps
<1>3. \A t \in DOMAIN tasks' : TaskOK(t)'
  BY Zenon, QuietKeeps
<1>4. ASSUME NEW id \in Ids
      PROVE  ChainOK(id)'
  <2>1. \A v \in Workers : HeldBy(worker[v], id)' <=> HeldBy(worker[v], id)
    BY Zenon, QuietKeeps
  <2>2. \A t : (t \in DOMAIN tasks /\ WaitsAs(t, id))'
                <=> (t \in DOMAIN tasks /\ WaitsAs(t, id))
    BY Zenon, QuietKeeps
  <2>3. session'[id].connected = session[id].connected
    BY Zenon DEF Quiet
  <2>4. ChainOK(id)
    BY Zenon DEF ServerInv
  <2> QED
    BY Zenon, <2>1, <2>2, <2>3, <2>4, SameChain
<1>5. ASSUME NEW id \in Ids
      PROVE  SlotOK(id)'
  <2>1. \A v \in Workers : TakenBy(worker[v], id)' <=> TakenBy(worker[v], id)
    BY Zenon DEF TakenBy
  <2> QED
    BY Zenon, <2>1, SameSlot DEF ServerInv, Quiet
<1>6. Seats'
  BY Zenon, SameSeats DEF ServerInv, Quiet
<1> QED
  BY Zenon, <1>1, <1>2, <1>3, <1>4, <1>5, <1>6 DEF ServerInv

\* The holder of slot i's chain schedules the chain's next task t.
LEMMA HandOnStep ==
  ASSUME ServerInv, Quiet, RestOK',
         NEW w \in Workers, NEW k \in WorkerStates, NEW i \in Ids, NEW t \in Tasks,
         worker' = [worker EXCEPT ![w] = k],
         WorkerOK(k), ~Carrying(k), k.at # "new_aquire",
         HeldBy(worker[w], i),
         t.func # "listener", WaitsAs(t, i),
         tasks' = Scheduled(t)
  PROVE  ServerInv'
<1> USE DEF WorkerStates
<1>0. /\ TypeOK
      /\ \A v \in Workers : worker[v] \in WorkerStates
      /\ IsQueue(tasks)
  BY Zenon DEF ServerInv, TypeOK
<1>a. /\ IsQueue(tasks')
      /\ DOMAIN tasks' = DOMAIN tasks \cup {t}
      /\ t \notin DOMAIN tasks => tasks'[t] = 1
      /\ \A y \in DOMAIN tasks : y # t => tasks'[y] = tasks[y]
  BY Zenon, <1>0, AddTask
<1>1. TypeOK'
  BY Zenon, <1>0, <1>a DEF TypeOK, Quiet, RestOK, idList
<1>2. \A v \in Workers : WorkerOK(worker'[v])
  BY Zenon, <1>0 DEF ServerInv, TypeOK
<1>3. \A v \in Workers : WorkerOK(worker[v])'
  BY Zenon, <1>2, QuietKeeps
<1>4. TaskOK(t)
  BY <1>0 DEF TaskOK, WaitsAs, TypeOK, Sessions, Generations
<1>5. \A u \in DOMAIN tasks' : TaskOK(u)'
  BY Zenon, <1>4, <1>a, QuietKeeps DEF ServerInv
<1>6. ASSUME NEW id \in Ids
      PROVE  ChainOK(id)'
  <2>0. ChainOK(id)
    BY Zenon DEF ServerInv
  <2>1. CASE id # i
    <3>1. ~WaitsAs(t, id)
      BY Zenon, <2>1 DEF WaitsAs
    <3>2. \A v \in Workers : HeldBy(worker[v], id)' <=> HeldBy(worker[v], id)
      BY <1>0, <2>1, QuietKeeps DEF HeldBy, TypeOK
    <3>3. \A u : (u \in DOMAIN tasks /\ WaitsAs(u, id))'
                  <=> (u \in DOMAIN tasks /\ WaitsAs(u, id))
      BY Zenon, <1>a, <3>1, QuietKeeps
    <3>4. \A u \in DOMAIN tasks : WaitsAs(u, id) => tasks'[u] = tasks[u]
      BY Zenon, <1>a, <3>1
    <3> QED
      BY Zenon, <2>0, <3>2, <3>3, <3>4, SameChain DEF Quiet
  <2>2. CASE id = i
    <3>1. /\ \A u \in DOMAIN tasks : ~WaitsAs(u, i)
          /\ \A v \in Workers : HeldBy(worker[v], i) => v = w
          /\ session[i].connected
      BY Zenon, <2>0, <2>2 DEF ChainOK
    <3>2. \A v \in Workers : ~HeldBy(worker[v], i)'
      BY <1>0, <3>1, QuietKeeps DEF HeldBy, TypeOK
    <3>3. \A u \in DOMAIN tasks' : WaitsAs(u, i)' <=> u = t
      BY Zenon, <1>a, <3>1, QuietKeeps
    <3>4. tasks'[t] = 1 /\ t \in DOMAIN tasks'
      BY Zenon, <1>a, <3>1
    <3>5. session'[i].connected
      BY Zenon, <3>1 DEF Quiet
    <3> QED
      BY Zenon, <2>2, <3>2, <3>3, <3>4, <3>5 DEF ChainOK
  <2> QED
    BY Zenon, <2>1, <2>2
<1>7. ASSUME NEW id \in Ids
      PROVE  SlotOK(id)'
  <2>1. worker[w].at # "new_aquire"
    BY Zenon DEF HeldBy, Carrying, CarriesChain
  <2>2. \A v \in Workers : TakenBy(worker[v], id)' <=> TakenBy(worker[v], id)
    BY Zenon, <1>0, <2>1 DEF TakenBy, TypeOK
  <2> QED
    BY Zenon, <2>2, SameSlot DEF ServerInv, Quiet
<1>8. Seats'
  BY Zenon, SameSeats DEF ServerInv, Quiet
<1> QED
  BY Zenon, <1>1, <1>3, <1>5, <1>6, <1>7, <1>8 DEF ServerInv

\* A worker takes a task: if it is the task slot id's chain waits as, the
\* worker holds the chain instead.
LEMMA TakeStep ==
  ASSUME ServerInv, NEW w \in Workers, TakeTask(w)
  PROVE  ServerInv'
<1>1. PICK t \in DOMAIN tasks :
        /\ tasks' = WithoutTask(tasks, t)
        /\ worker' = [worker EXCEPT ![w] = [at |-> "start", task |-> t]]
  BY Zenon DEF TakeTask
<1>2. PICK k : k = [at |-> "start", task |-> t]
  BY Zenon
<1>0. /\ TypeOK
      /\ worker \in [Workers -> WorkerStates]
      /\ worker[w].at = "idle"
      /\ t \in Tasks /\ TaskOK(t)
      /\ k \in WorkerStates
      /\ worker' = [worker EXCEPT ![w] = k]
      /\ UNCHANGED << session, idList, active_players, limits >>
  BY Zenon, <1>1, <1>2 DEF ServerInv, TypeOK, TakeTask, At, WorkerStates, Places
<1>a. /\ IsQueue(tasks')
      /\ DOMAIN tasks' \subseteq DOMAIN tasks
      /\ DOMAIN tasks \subseteq DOMAIN tasks' \cup {t}
      /\ tasks[t] = 1 => t \notin DOMAIN tasks'
      /\ \A y \in DOMAIN tasks' : y # t => tasks'[y] = tasks[y]
  BY Zenon, <1>0, <1>1, RemoveTask DEF TypeOK
<1>b. Quiet
  BY Zenon, <1>0 DEF Quiet, TypeOK, limits
<1>3. TypeOK'
  BY Zenon, <1>0, <1>a DEF TypeOK, WorkerStates, idList, limits
<1>4. WorkerOK(k)
  BY Zenon, <1>0, <1>2 DEF WorkerOK
<1>5. \A v \in Workers : WorkerOK(worker'[v])
  BY Zenon, <1>0, <1>4 DEF ServerInv
<1>6. \A v \in Workers : WorkerOK(worker[v])'
  BY Zenon, <1>5, <1>b, QuietKeeps
<1>7. \A u \in DOMAIN tasks' : TaskOK(u)'
  BY Zenon, <1>a, <1>b, QuietKeeps DEF ServerInv
<1>8. ASSUME NEW id \in Ids
      PROVE  ChainOK(id)'
  <2>0. ChainOK(id) /\ session'[id].connected = session[id].connected
    BY Zenon, <1>0 DEF ServerInv
  <2>1. HeldBy(k, id) <=> WaitsAs(t, id)
    BY Zenon, <1>2 DEF HeldBy, WaitsAs, Carrying, CarriesChain
  <2>2. ~HeldBy(worker[w], id)
    BY Zenon, <1>0 DEF HeldBy, Carrying, CarriesChain
  <2>3. \A v \in Workers \ {w} : HeldBy(worker[v], id)' <=> HeldBy(worker[v], id)
    BY Zenon, <1>0, <1>b, QuietKeeps
  <2>4. HeldBy(worker[w], id)' <=> WaitsAs(t, id)
    BY Zenon, <1>0, <1>b, <2>1, QuietKeeps
  <2>5. \A u : WaitsAs(u, id)' <=> WaitsAs(u, id)
    BY Zenon, <1>b, QuietKeeps
  <2>6. CASE ~WaitsAs(t, id)
    <3>1. \A v \in Workers : HeldBy(worker[v], id)' <=> HeldBy(worker[v], id)
      BY Zenon, <2>2, <2>3, <2>4, <2>6
    <3>2. \A u : (u \in DOMAIN tasks /\ WaitsAs(u, id))'
                  <=> (u \in DOMAIN tasks /\ WaitsAs(u, id))
      BY Zenon, <1>a, <2>5, <2>6
    <3>3. \A u \in DOMAIN tasks : WaitsAs(u, id) => tasks'[u] = tasks[u]
      BY Zenon, <1>a, <2>6
    <3> QED
      BY Zenon, <2>0, <3>1, <3>2, <3>3, SameChain
  <2>7. CASE WaitsAs(t, id)
    <3>1. /\ tasks[t] = 1
          /\ session[id].connected
          /\ \A v \in Workers : ~HeldBy(worker[v], id)
          /\ \A u \in DOMAIN tasks : WaitsAs(u, id) => u = t
      BY Zenon, <1>1, <2>0, <2>7 DEF ChainOK
    <3>2. \A u \in DOMAIN tasks' : ~WaitsAs(u, id)'
      BY Zenon, <1>a, <2>5, <3>1
    <3>3. \A v \in Workers : HeldBy(worker[v], id)' <=> v = w
      BY Zenon, <2>3, <2>4, <2>7, <3>1
    <3> QED
      BY Zenon, <2>0, <3>1, <3>2, <3>3 DEF ChainOK
  <2> QED
    BY Zenon, <2>6, <2>7
<1>9. ASSUME NEW id \in Ids
      PROVE  SlotOK(id)'
  <2>1. \A v \in Workers : TakenBy(worker[v], id)' <=> TakenBy(worker[v], id)
    BY Zenon, <1>0, <1>2 DEF TakenBy
  <2> QED
    BY Zenon, <1>b, <2>1, SameSlot DEF ServerInv, Quiet
<1>10. Seats'
  BY Zenon, <1>b, SameSeats DEF ServerInv, Quiet
<1> QED
  BY Zenon, <1>3, <1>6, <1>7, <1>8, <1>9, <1>10 DEF ServerInv

\* A slot in use leaves room in id_buffer for its id.
LEMMA RoomForId ==
  ASSUME ServerInv, NEW i \in Ids, session[i].connected
  PROVE  id_buffer_head > 0
<1>1. ~Free(i)
  BY Zenon DEF ServerInv, SlotOK
<1>2. \E n \in Ids : n < id_buffer_head
  BY Zenon, <1>1 DEF ServerInv, Seats
<1>3. \A n \in Ids : n \in Nat
  BY DEF Ids
<1>4. id_buffer_head \in Int
  BY DEF ServerInv, TypeOK
<1> QED
  BY <1>2, <1>3, <1>4

\* No task is of a session its slot has not had yet.
LEMMA NotAhead ==
  ASSUME NEW k, NEW i \in Ids, WorkerOK(k), Carrying(k), k.task.id = i,
         session[i].generation \in Nat
  PROVE  k.task.generation \in Int /\ k.task.generation <= session[i].generation
<1>1. k # Idle
  BY DEF Idle, Carrying, CarriesChain
<1>2. CASE k.at = "start" /\ TaskOK(k.task)
  <2>1. k.task # Listener
    BY ServerAssumption DEF Listener, Task, Ids
  <2> QED
    BY <1>2, <2>1 DEF TaskOK
<1>3. CASE k.task.generation \in 0..session[k.task.id].generation
  <2>1. PICK g, n : /\ g = k.task.generation /\ n = session[i].generation
                    /\ n \in Nat /\ g \in 0..n
    BY Zenon, <1>3
  <2> QED
    BY <2>1
<1> QED
  BY Zenon, <1>1, <1>2, <1>3 DEF WorkerOK

\* The seats from b on, where b comes just before a.
LEMMA OneBefore ==
  ASSUME NEW a \in Int, NEW b \in Int, b = a - 1
  PROVE  \A j \in Ids : j >= b <=> j >= a \/ j = b
BY DEF Ids

\* The holder of slot i's chain disconnects the session, whose fields are s.
LEMMA EndStep ==
  ASSUME ServerInv, shutdown' \in BOOLEAN, aborted' \in BOOLEAN,
         NEW w \in Workers, NEW k \in WorkerStates, NEW i \in Ids,
         NEW s \in Sessions, NEW players \in Int,
         s.generation = session[i].generation,
         HeldBy(worker[w], i),
         Disconnect(i, s, players),
         worker' = [worker EXCEPT ![w] = k],
         k = Idle \/ (k.task = worker[w].task /\ k.at \notin {"idle", "start", "new_aquire"}),
         ~Carrying(k),
         UNCHANGED << tasks, connections >>
  PROVE  ServerInv'
<1>0. /\ TypeOK
      /\ session \in [Ids -> Sessions]
      /\ worker \in [Workers -> WorkerStates]
      /\ id_buffer \in [Ids -> Ids]
      /\ id_buffer_head \in 0..MaxSessions
      /\ MaxSessions \in Nat \ {0} /\ MaxConnections \in Nat
      /\ ChainOK(i) /\ SlotOK(i)
      /\ connections \in 0..MaxConnections
  BY Zenon, ServerAssumption DEF ServerInv, TypeOK, WorkerStates
<1>1. /\ session[i].connected
      /\ \A v \in Workers : HeldBy(worker[v], i) => v = w
      /\ \A t \in DOMAIN tasks : ~WaitsAs(t, i)
  BY Zenon, <1>0 DEF ChainOK
<1>2. id_buffer_head > 0
  BY Zenon, <1>1, RoomForId
<1>3. /\ ~Free(i)
      /\ \A v \in Workers : ~TakenBy(worker[v], i)
      /\ session[i].generation < connections
  BY Zenon, <1>0, <1>1 DEF SlotOK
<1>4. PICK h \in Ids : h = id_buffer_head - 1
  BY <1>0, <1>2 DEF Ids
<1>5. /\ session'[i].generation = session[i].generation + 1
      /\ ~session'[i].connected
      /\ session' \in [Ids -> Sessions]
      /\ \A id \in Ids \ {i} : session'[id] = session[id]
      /\ id_buffer_head' = h
      /\ id_buffer' = [id_buffer EXCEPT ![h] = i]
      /\ active_players' \in Int
  <2>1. PICK r : r = [s EXCEPT !.generation = @ + 1, !.connected = FALSE,
                              !.reset = FALSE, !.joined = FALSE]
    BY Zenon
  <2>2. s.generation + 1 \in Generations
    BY <1>0, <1>3 DEF Sessions, Generations
  <2>3. /\ r \in Sessions
        /\ r.generation = session[i].generation + 1
        /\ ~r.connected
    BY Zenon, <2>1, <2>2 DEF Sessions
  <2>4. session' = [session EXCEPT ![i] = r]
    BY Zenon, <2>1 DEF Disconnect
  <2>5. active_players' \in Int
    BY DEF Disconnect
  <2> QED
    BY <1>0, <1>4, <2>3, <2>4, <2>5 DEF Disconnect
<1>6. TypeOK'
  <2>1. id_buffer' \in [Ids -> Ids]
    BY Zenon, <1>0, <1>5
  <2>2. id_buffer_head' \in 0..MaxSessions
    BY <1>0, <1>4, <1>5 DEF Ids
  <2> QED
    BY Zenon, <1>0, <1>5, <2>1, <2>2 DEF TypeOK, WorkerStates
<1>7. /\ worker[w].task.id = i
      /\ worker[w].task.generation = session[i].generation
      /\ worker[w].at # "new_aquire"
  BY Zenon DEF HeldBy, Carrying, CarriesChain
<1>8. ASSUME NEW v \in Workers
      PROVE  WorkerOK(worker[v])'
  <2>1. CASE v = w
    <3>1. worker'[v] = k
      BY Zenon, <1>0, <2>1
    <3>2. CASE k = Idle
      BY Zenon, <3>1, <3>2 DEF WorkerOK
    <3>3. CASE k.task = worker[w].task /\ k.at \notin {"idle", "start", "new_aquire"}
      <4>1. k.task.generation < session'[k.task.id].generation
        BY <1>0, <1>5, <1>7, <3>3 DEF Sessions, Generations
      <4>2. k.task.generation \in 0..session'[k.task.id].generation
        BY <1>0, <1>5, <1>7, <3>3 DEF Sessions, Generations
      <4>3. k.at # "new_critical"
        BY Zenon DEF Carrying, CarriesChain
      <4> QED
        BY Zenon, <1>7, <3>1, <3>3, <4>1, <4>2, <4>3 DEF WorkerOK
    <3> QED
      BY Zenon, <3>2, <3>3
  <2>2. CASE v # w
    <3>1. worker'[v] = worker[v] /\ WorkerOK(worker[v])
      BY <2>2 DEF ServerInv
    <3>2. ~HeldBy(worker[v], i) /\ ~TakenBy(worker[v], i)
      BY Zenon, <1>1, <1>3, <2>2
    <3>3. CASE worker[v].task.id # i
      BY <1>5, <3>1, <3>3 DEF WorkerOK, TaskOK
    <3>4. CASE worker[v].task.id = i
      <4>1. /\ ~(Carrying(worker[v]) /\ worker[v].task.generation = session[i].generation)
            /\ worker[v].at # "new_aquire"
        BY Zenon, <3>2, <3>4 DEF HeldBy, TakenBy
      <4>2. session[i].generation \in Nat
        BY <1>0 DEF Sessions, Generations
      <4>3. CASE worker[v].at = "start"
        <5>1. TaskOK(worker[v].task)'
          BY <1>5, <3>1, <3>4, <4>1, <4>2, <4>3
             DEF WorkerOK, TaskOK, Carrying, CarriesChain, Idle
        <5> QED
          BY Zenon, <3>1, <4>3, <5>1 DEF WorkerOK
      <4>4. CASE worker[v].at # "start"
        BY <1>5, <3>1, <3>4, <4>1, <4>2, <4>4 DEF WorkerOK
      <4> QED
        BY Zenon, <4>3, <4>4
    <3> QED
      BY Zenon, <3>3, <3>4
  <2> QED
    BY Zenon, <2>1, <2>2
<1>9. ASSUME NEW t \in DOMAIN tasks
      PROVE  TaskOK(t)'
  <2>1. TaskOK(t) /\ ~WaitsAs(t, i)
    BY Zenon, <1>1 DEF ServerInv
  <2>2. session[i].generation \in Nat
    BY <1>0 DEF Sessions, Generations
  <2> QED
    BY <1>5, <2>1, <2>2 DEF TaskOK, WaitsAs
<1>10. ASSUME NEW id \in Ids
       PROVE  ChainOK(id)'
  <2>1. CASE id # i
    <3>1. \A v \in Workers : HeldBy(worker[v], id)' <=> HeldBy(worker[v], id)
      <4>1. \A v \in Workers \ {w} : HeldBy(worker[v], id)' <=> HeldBy(worker[v], id)
        BY <1>5, <2>1 DEF HeldBy
      <4>2. ~HeldBy(worker[w], id)
        BY Zenon, <1>7, <2>1 DEF HeldBy
      <4>3. ~HeldBy(worker[w], id)'
        BY Zenon, <1>0 DEF HeldBy
      <4> QED
        BY Zenon, <4>1, <4>2, <4>3
    <3>2. \A t : WaitsAs(t, id)' <=> WaitsAs(t, id)
      BY Zenon, <1>5, <2>1 DEF WaitsAs
    <3> QED
      BY Zenon, <1>5, <2>1, <3>1, <3>2, SameChain DEF ServerInv
  <2>2. CASE id = i
    <3>0. session[i].generation \in Nat
      BY <1>0 DEF Sessions, Generations
    <3>1. ASSUME NEW v \in Workers
          PROVE  ~HeldBy(worker[v], i)'
      <4>1. CASE v = w
        BY Zenon, <1>0, <4>1 DEF HeldBy
      <4>2. CASE v # w
        <5>1. worker'[v] = worker[v] /\ WorkerOK(worker[v])
          BY <4>2 DEF ServerInv
        <5>2. HeldBy(worker[v], i)' =>
                /\ Carrying(worker[v]) /\ worker[v].task.id = i
                /\ worker[v].task.generation = session[i].generation + 1
          BY <1>5, <5>1 DEF HeldBy
        <5> QED
          BY <3>0, <5>1, <5>2, NotAhead
      <4> QED
        BY Zenon, <4>1, <4>2
    <3>2. \A t \in DOMAIN tasks : ~WaitsAs(t, i)'
      <4>1. \A t \in DOMAIN tasks : TaskOK(t)
        BY Zenon DEF ServerInv
      <4> QED
        BY <1>5, <3>0, <4>1 DEF WaitsAs, TaskOK, Listener, Task, Ids
    <3> QED
      BY Zenon, <1>5, <2>2, <3>1, <3>2 DEF ChainOK
  <2> QED
    BY Zenon, <2>1, <2>2
<1>11. ASSUME NEW id \in Ids
       PROVE  SlotOK(id)'
  <2>0. SlotOK(id)
    BY Zenon DEF ServerInv
  <2>1. \A v \in Workers : TakenBy(worker[v], id)' <=> TakenBy(worker[v], id)
    BY <1>0, <1>7 DEF TakenBy, Idle
  <2>2. \A j \in Ids : j >= id_buffer_head' /\ id_buffer'[j] = id
                        <=> (j >= id_buffer_head /\ id_buffer[j] = id) \/ (j = h /\ id = i)
    <3>1. \A j \in Ids : j >= id_buffer_head' <=> j >= id_buffer_head \/ j = h
      <4>1. id_buffer_head \in Int /\ h \in Int
        BY <1>0 DEF Ids
      <4>2. \A j \in Ids : j >= h <=> j >= id_buffer_head \/ j = h
        BY <1>4, <4>1, OneBefore
      <4> QED
        BY Zenon, <1>5, <4>2
    <3>2. \A j \in Ids : id_buffer'[j] = IF j = h THEN i ELSE id_buffer[j]
      BY Zenon, <1>0, <1>5
    <3>3. ~ (h >= id_buffer_head)
      BY <1>0, <1>4
    <3> QED
      BY Zenon, <3>1, <3>2, <3>3
  <2>3. CASE id # i
    <3>1. Free(id)' <=> Free(id)
      BY Zenon, <2>2, <2>3 DEF Free
    <3>2. \A j \in Ids : j >= id_buffer_head' /\ id_buffer'[j] = id
                          <=> j >= id_buffer_head /\ id_buffer[j] = id
      BY Zenon, <2>2, <2>3
    <3> QED
      BY Zenon, <1>5, <2>0, <2>1, <2>3, <3>1, <3>2 DEF SlotOK
  <2>4. CASE id = i
    <3>1. Free(i)' /\ \A j \in Ids : j >= id_buffer_head' /\ id_buffer'[j] = i <=> j = h
      BY Zenon, <1>3, <2>2, <2>4 DEF Free
    <3>2. \A v \in Workers : ~TakenBy(worker[v], i)'
      BY Zenon, <1>3, <2>1, <2>4
    <3>3. session'[i].generation <= connections'
      BY <1>0, <1>3, <1>5 DEF Sessions, Generations
    <3> QED
      BY Zenon, <1>5, <2>4, <3>1, <3>2, <3>3 DEF SlotOK
  <2> QED
    BY Zenon, <2>3, <2>4
<1>12. Seats'
  <2>1. PICK U : U = { id \in Ids : ~Free(id) }
    BY Zenon
  <2>2. PICK seat \in [U -> { n \in Ids : n < id_buffer_head }] :
          \A a, b \in Ids : ~Free(a) /\ ~Free(b) /\ seat[a] = seat[b] => a = b
    BY Zenon, <2>1 DEF ServerInv, Seats
  <2>3. \A id \in Ids : Free(id)' <=> Free(id) \/ id = i
    <3>1. \A j \in Ids : j >= id_buffer_head' <=> j >= id_buffer_head \/ j = h
      <4>1. id_buffer_head \in Int /\ h \in Int
        BY <1>0 DEF Ids
      <4>2. \A j \in Ids : j >= h <=> j >= id_buffer_head \/ j = h
        BY <1>4, <4>1, OneBefore
      <4> QED
        BY Zenon, <1>5, <4>2
    <3>2. \A j \in Ids : id_buffer'[j] = IF j = h THEN i ELSE id_buffer[j]
      BY Zenon, <1>0, <1>5
    <3>3. ~ (h >= id_buffer_head)
      BY <1>0, <1>4
    <3> QED
      BY Zenon, <3>1, <3>2, <3>3 DEF Free
  <2>4. PICK V : V = { id \in Ids : ~Free(id)' }
    BY Zenon
  <2>5. V = U \ {i} /\ i \in U
    BY Zenon, <1>3, <2>1, <2>3, <2>4
  <2>6. PICK new : new = [id \in V |-> IF seat[id] = h THEN seat[i] ELSE seat[id]]
    BY Zenon
  <2>7. ASSUME NEW id \in V
        PROVE  new[id] \in { n \in Ids : n < h }
    <3>1. /\ seat[id] \in Ids /\ seat[id] < id_buffer_head
          /\ seat[i] \in Ids /\ seat[i] < id_buffer_head
          /\ seat[id] # seat[i]
      BY Zenon, <2>1, <2>2, <2>5
    <3>2. \A n \in Ids : n < id_buffer_head <=> n < h \/ n = h
      <4>1. id_buffer_head \in Int /\ \A n \in Ids : n \in Int
        BY <1>0 DEF Ids
      <4> QED
        BY <1>4, <4>1
    <3> QED
      BY Zenon, <2>6, <3>1, <3>2
  <2>8. ASSUME NEW a \in V, NEW b \in V, new[a] = new[b]
        PROVE  a = b
    <3>1. /\ a \in U /\ b \in U /\ a # i /\ b # i
          /\ \A c, d \in U : seat[c] = seat[d] => c = d
      BY Zenon, <2>1, <2>2, <2>5
    <3> QED
      BY Zenon, <2>5, <2>6, <2>8, <3>1
  <2>9. new \in [V -> { n \in Ids : n < id_buffer_head' }]
    BY Zenon, <1>5, <2>6, <2>7
  <2>10. \A a, b \in Ids : ~Free(a)' /\ ~Free(b)' /\ new[a] = new[b] => a = b
    BY Zenon, <2>4, <2>8
  <2> QED
    BY Zenon, <2>4, <2>9, <2>10 DEF Seats
<1> QED
  BY Zenon, <1>6, <1>8, <1>9, <1>10, <1>11, <1>12 DEF ServerInv

\* handle_new_session initialises slot i, which it has taken.
LEMMA BeginStep ==
  ASSUME ServerInv, NEW w \in Workers, NewSessionAquire(w),
         session[Own(w)].generation = Gen(w)
  PROVE  ServerInv'
<1>1. PICK i : i = Own(w)
  BY Zenon
<1>0. /\ TypeOK
      /\ session \in [Ids -> Sessions]
      /\ worker \in [Workers -> WorkerStates]
      /\ WorkerOK(worker[w])
      /\ worker[w].at = "new_aquire"
  BY Zenon DEF ServerInv, TypeOK, NewSessionAquire, At, WorkerStates
<1>a. PICK k \in WorkerStates :
        /\ k.at = "new_critical"
        /\ k.task = worker[w].task
        /\ worker' = [worker EXCEPT ![w] = k]
  BY Zenon, <1>0, GoOn DEF NewSessionAquire, Places
<1>2. /\ i \in Ids
      /\ k \in WorkerStates /\ k.at = "new_critical" /\ k.task = worker[w].task
      /\ k.task.id = i /\ k.task.generation = session[i].generation
      /\ k.task.func = "listener"
  BY <1>0, <1>1, <1>a DEF WorkerOK, Idle, Own, Gen
<1>3. PICK s : s = NewSession(session[i])
  BY Zenon
<1>4. /\ s \in Sessions
      /\ s.generation = session[i].generation /\ s.connected
  <2>1. s = [generation |-> session[i].generation, locked |-> TRUE,
             connected |-> TRUE, reset |-> FALSE, authenticated |-> FALSE,
             supports_cpe |-> FALSE, remaining |-> -1, custom_blocks |-> FALSE,
             joined |-> FALSE, opcode |-> NoOpcode]
    BY Zenon, <1>3 DEF NewSession, FreshSession
  <2>2. session[i].generation \in Generations
    BY Zenon, <1>0, <1>2 DEF Sessions
  <2> QED
    BY <2>1, <2>2 DEF Sessions
<1>5. /\ session' = [session EXCEPT ![i] = s]
      /\ worker' = [worker EXCEPT ![w] = k]
      /\ UNCHANGED << tasks, idList, active_players, limits >>
  <2>1. /\ session' = [session EXCEPT ![Own(w)] = NewSession(session[Own(w)])]
        /\ tasks' = tasks
        /\ UNCHANGED << idList, active_players, limits >>
    BY Zenon DEF NewSessionAquire
  <2> QED
    BY Zenon, <1>1, <1>3, <1>a, <2>1
<1>6. /\ session' \in [Ids -> Sessions]
      /\ \A id \in Ids : session'[id].generation = session[id].generation
      /\ \A id \in Ids \ {i} : session'[id].connected = session[id].connected
      /\ session'[i].connected
  BY Zenon, <1>0, <1>2, <1>4, <1>5
<1>7. TypeOK'
  BY Zenon, <1>0, <1>2, <1>5, <1>6 DEF TypeOK, WorkerStates, idList, limits
<1>8. ChainOK(i) /\ SlotOK(i) /\ TakenBy(worker[w], i)
  BY Zenon, <1>0, <1>1, <1>2 DEF ServerInv, TakenBy, Own
<1>9. /\ ~session[i].connected
      /\ \A v \in Workers : ~HeldBy(worker[v], i)
      /\ \A t \in DOMAIN tasks : ~WaitsAs(t, i)
      /\ ~Free(i)
      /\ \A v \in Workers : TakenBy(worker[v], i) => v = w
  BY Zenon, <1>8 DEF ChainOK, SlotOK
<1>10. /\ \A t : TaskOK(t) => TaskOK(t)'
       /\ \A j : WorkerOK(j) => WorkerOK(j)'
       /\ \A j : \A id \in Ids : HeldBy(j, id)' <=> HeldBy(j, id)
       /\ \A t : \A id \in Ids : WaitsAs(t, id)' <=> WaitsAs(t, id)
       /\ \A id \in Ids : Free(id)' <=> Free(id)
  <2>1. \A t : TaskOK(t) => TaskOK(t)'
    BY Zenon, <1>6 DEF TaskOK
  <2>2. \A j : WorkerOK(j) => WorkerOK(j)'
    BY Zenon, <1>6, <2>1 DEF WorkerOK
  <2>3. \A j : \A id \in Ids : HeldBy(j, id)' <=> HeldBy(j, id)
    BY Zenon, <1>6 DEF HeldBy
  <2>4. \A t : \A id \in Ids : WaitsAs(t, id)' <=> WaitsAs(t, id)
    BY Zenon, <1>6 DEF WaitsAs
  <2>5. \A id \in Ids : Free(id)' <=> Free(id)
    BY Zenon, <1>5 DEF Free, idList
  <2> QED
    BY Zenon, <2>1, <2>2, <2>3, <2>4, <2>5
<1>11. \A v \in Workers : WorkerOK(worker[v])'
  <2>1. WorkerOK(k)
    <3>1. session[i].generation \in Nat
      BY <1>0, <1>2 DEF Sessions, Generations
    <3> QED
      BY <1>2, <3>1 DEF WorkerOK
  <2>2. \A v \in Workers : WorkerOK(worker'[v])
    BY Zenon, <1>0, <1>5, <2>1 DEF ServerInv
  <2> QED
    BY Zenon, <1>10, <2>2
<1>12. \A t \in DOMAIN tasks' : TaskOK(t)'
  BY Zenon, <1>5, <1>10 DEF ServerInv
<1>13. ASSUME NEW id \in Ids
       PROVE  ChainOK(id)'
  <2>1. \A v \in Workers \ {w} : HeldBy(worker[v], id)' <=> HeldBy(worker[v], id)
    BY <1>5, <1>10
  <2>2. ~HeldBy(worker[w], id)
    BY Zenon, <1>0 DEF HeldBy, Carrying, CarriesChain
  <2>3. HeldBy(worker[w], id)' <=> id = i
    <3>1. HeldBy(k, id) <=> id = i
      BY Zenon, <1>2 DEF HeldBy, Carrying, CarriesChain
    <3> QED
      BY Zenon, <1>0, <1>5, <1>10, <3>1
  <2>4. CASE id # i
    BY Zenon, <1>5, <1>6, <1>10, <2>1, <2>2, <2>3, <2>4, SameChain DEF ServerInv
  <2>5. CASE id = i
    <3>1. \A v \in Workers : HeldBy(worker[v], i)' <=> v = w
      BY Zenon, <1>9, <2>1, <2>3, <2>5
    <3>2. \A t \in DOMAIN tasks' : ~WaitsAs(t, i)'
      BY Zenon, <1>2, <1>5, <1>9, <1>10
    <3> QED
      BY Zenon, <1>6, <2>5, <3>1, <3>2 DEF ChainOK
  <2> QED
    BY Zenon, <2>4, <2>5
<1>14. ASSUME NEW id \in Ids
       PROVE  SlotOK(id)'
  <2>1. \A v \in Workers \ {w} : TakenBy(worker[v], id)' <=> TakenBy(worker[v], id)
    BY <1>5 DEF TakenBy
  <2>2. ~TakenBy(worker[w], id)'
    BY Zenon, <1>0, <1>2, <1>5 DEF TakenBy
  <2>3. CASE id # i
    <3>1. ~TakenBy(worker[w], id)
      BY Zenon, <1>1, <2>3 DEF TakenBy, Own
    <3> QED
      BY Zenon, <1>5, <1>6, <2>1, <2>2, <2>3, <3>1, SameSlot DEF ServerInv, limits
  <2>4. CASE id = i
    <3>1. \A v \in Workers : ~TakenBy(worker[v], i)'
      BY Zenon, <1>9, <2>1, <2>2, <2>4
    <3>2. ~Free(i)'
      BY Zenon, <1>2, <1>9, <1>10
    <3> QED
      BY Zenon, <1>5, <1>6, <1>8, <2>4, <3>1, <3>2 DEF SlotOK, idList, limits
  <2> QED
    BY Zenon, <2>3, <2>4
<1>15. Seats'
  BY Zenon, <1>5, SameSeats DEF ServerInv
<1> QED
  BY Zenon, <1>7, <1>11, <1>12, <1>13, <1>14, <1>15 DEF ServerInv

\* The listener takes the next id for a client.
LEMMA AcceptStep ==
  ASSUME ServerInv, NEW w \in Workers, AcceptClient(w)
  PROVE  ServerInv'
<1>1. PICK i, k, h :
        /\ h = id_buffer_head
        /\ i = id_buffer[h]
        /\ k = [at |-> "new_aquire",
                task |-> Task("listener", i, session[i].generation)]
  BY Zenon
<1>0. /\ TypeOK
      /\ session \in [Ids -> Sessions]
      /\ worker \in [Workers -> WorkerStates]
      /\ id_buffer \in [Ids -> Ids]
      /\ h \in 0..MaxSessions /\ h < MaxSessions
      /\ MaxSessions \in Nat /\ MaxConnections \in Nat
      /\ connections \in 0..MaxConnections /\ connections < MaxConnections
      /\ WorkerOK(worker[w])
      /\ worker[w].at = "start" /\ worker[w].task.func = "listener"
  BY Zenon, <1>1, ServerAssumption
     DEF ServerInv, TypeOK, AcceptClient, At, Runs, WorkerStates
<1>2. h \in Ids /\ i \in Ids
  BY <1>0, <1>1 DEF Ids
<1>3. /\ k \in WorkerStates /\ k.at = "new_aquire"
      /\ k.task.id = i /\ k.task.generation = session[i].generation
      /\ k.task.func = "listener"
      /\ session[i].generation \in Nat
  BY <1>0, <1>1, <1>2
     DEF WorkerStates, Places, Task, Tasks, Funcs, Sessions, Generations
<1>4. /\ worker' = [worker EXCEPT ![w] = k]
      /\ id_buffer_head' = h + 1
      /\ connections' = connections + 1
      /\ UNCHANGED << session, id_buffer, active_players, pool, aborted >>
  BY Zenon, <1>1 DEF AcceptClient
<1>5. TypeOK'
  BY <1>0, <1>3, <1>4 DEF TypeOK, WorkerStates, pool
<1>6. WorkerOK(k)
  BY <1>2, <1>3 DEF WorkerOK, Carrying
<1>7. \A v \in Workers : WorkerOK(worker[v])'
  <2>1. \A v \in Workers : WorkerOK(worker'[v])
    BY Zenon, <1>0, <1>4, <1>6 DEF ServerInv
  <2>2. \A j : WorkerOK(j)' <=> WorkerOK(j)
    BY Zenon, <1>4 DEF WorkerOK, TaskOK
  <2> QED
    BY Zenon, <2>1, <2>2
<1>8. \A t \in DOMAIN tasks' : TaskOK(t)'
  BY Zenon, <1>4 DEF ServerInv, TaskOK, pool
<1>9. ASSUME NEW id \in Ids
      PROVE  ChainOK(id)'
  <2>1. ~HeldBy(worker[w], id)
    BY <1>0 DEF HeldBy, WorkerOK, TaskOK, Idle, Listener, Task, Ids
  <2>2. ~HeldBy(worker[w], id)'
    BY Zenon, <1>0, <1>3, <1>4 DEF HeldBy, Carrying, CarriesChain
  <2>3. \A v \in Workers \ {w} : HeldBy(worker[v], id)' <=> HeldBy(worker[v], id)
    BY <1>4 DEF HeldBy
  <2>4. \A t : WaitsAs(t, id)' <=> WaitsAs(t, id)
    BY Zenon, <1>4 DEF WaitsAs
  <2> QED
    BY Zenon, <1>4, <2>1, <2>2, <2>3, <2>4, SameChain DEF ServerInv, pool
<1>10. ASSUME NEW id \in Ids
       PROVE  SlotOK(id)'
  <2>0. SlotOK(id) /\ session[id].generation \in Nat
    BY <1>0 DEF ServerInv, Sessions, Generations
  <2>1. \A v \in Workers \ {w} : TakenBy(worker[v], id)' <=> TakenBy(worker[v], id)
    BY <1>4 DEF TakenBy
  <2>2. TakenBy(worker[w], id)' <=> id = i
    BY Zenon, <1>0, <1>3, <1>4 DEF TakenBy
  <2>3. ~TakenBy(worker[w], id)
    BY Zenon, <1>0 DEF TakenBy
  <2>4. \A j \in Ids : j >= id_buffer_head' <=> j >= id_buffer_head /\ j # h
    <3>1. h \in Int /\ \A j \in Ids : j \in Int
      BY <1>0 DEF Ids
    <3> QED
      BY <1>1, <1>4, <3>1
  <2>5. h >= id_buffer_head
    BY <1>0, <1>1
  <2>6. connections \in Nat
    BY <1>0
  <2>7. CASE id # i
    <3>1. \A j \in Ids : j >= id_buffer_head' /\ id_buffer'[j] = id
                          <=> j >= id_buffer_head /\ id_buffer[j] = id
      BY Zenon, <1>1, <1>4, <2>4, <2>7
    <3>2. Free(id)' <=> Free(id)
      BY Zenon, <3>1 DEF Free
    <3>3. \A v \in Workers : TakenBy(worker[v], id)' <=> TakenBy(worker[v], id)
      BY Zenon, <2>1, <2>2, <2>3, <2>7
    <3> QED
      BY <1>4, <2>0, <2>6, <3>1, <3>2, <3>3 DEF SlotOK
  <2>8. CASE id = i
    <3>1. Free(i)
      BY Zenon, <1>1, <1>2, <2>5 DEF Free
    <3>2. ~Free(i)'
      BY Zenon, <1>1, <1>2, <1>4, <2>0, <2>4, <2>5, <2>8 DEF Free, SlotOK
    <3>3. \A v \in Workers : TakenBy(worker[v], i)' <=> v = w
      BY Zenon, <2>0, <2>1, <2>2, <2>8, <3>1 DEF SlotOK
    <3>4. \A j \in Ids : ~ (j >= id_buffer_head' /\ id_buffer'[j] = i)
      BY Zenon, <3>2 DEF Free
    <3>5. ~session[i].connected
      BY Zenon, <2>0, <2>8, <3>1 DEF SlotOK
    <3>6. session[i].generation < connections'
      BY <1>4, <2>0, <2>6, <2>8 DEF SlotOK
    <3> QED
      BY <1>4, <2>0, <2>6, <2>8, <3>2, <3>3, <3>4, <3>5, <3>6 DEF SlotOK
  <2> QED
    BY Zenon, <2>7, <2>8
<1>11. Seats'
  <2>1. PICK U : U = { id \in Ids : ~Free(id) }
    BY Zenon
  <2>2. PICK seat \in [U -> { n \in Ids : n < h }] :
          \A a, b \in Ids : ~Free(a) /\ ~Free(b) /\ seat[a] = seat[b] => a = b
    BY Zenon, <1>1, <2>1 DEF ServerInv, Seats
  <2>3. \A n \in Ids : n < h + 1 <=> n < h \/ n = h
    <3>1. h \in Int /\ \A n \in Ids : n \in Int
      BY <1>0 DEF Ids
    <3> QED
      BY <3>1
  <2>4. \A id \in Ids : ~Free(id)' => ~Free(id) \/ id = i
    <3>1. \A j \in Ids : j >= id_buffer_head /\ j # h => j >= id_buffer_head'
      <4>1. h \in Int /\ \A n \in Ids : n \in Int
        BY <1>0 DEF Ids
      <4> QED
        BY <1>1, <1>4, <4>1
    <3> QED
      BY Zenon, <1>1, <1>4, <3>1 DEF Free
  <2>5. PICK V : V = { id \in Ids : ~Free(id)' }
    BY Zenon
  <2>6. PICK new : new = [id \in V |-> IF id \in U THEN seat[id] ELSE h]
    BY Zenon
  <2>7. \A id \in V : id \in U \/ id = i
    BY Zenon, <2>1, <2>4, <2>5
  <2>8. \A id \in U : seat[id] # h
    BY <1>0, <2>2
  <2>9. new \in [V -> { n \in Ids : n < h + 1 }]
    BY Zenon, <1>2, <2>2, <2>3, <2>6
  <2>10. \A a, b \in V : new[a] = new[b] => a = b
    BY Zenon, <2>1, <2>2, <2>6, <2>7, <2>8
  <2>11. \A a, b \in Ids : ~Free(a)' /\ ~Free(b)' /\ new[a] = new[b] => a = b
    BY Zenon, <2>5, <2>10
  <2> QED
    BY Zenon, <1>4, <2>5, <2>9, <2>11 DEF Seats
<1> QED
  BY Zenon, <1>5, <1>7, <1>8, <1>9, <1>10, <1>11 DEF ServerInv

-----------------------------------------------------------------------------
(* The kinds of step, as the actions take them *)

\* A session that ends in worker w's step is the one w's task belongs to.
OwnEnds(w) ==
  \A id \in Ids :
    session'[id].generation # session[id].generation =>
      /\ worker'[w] # worker[w]
      /\ Own(w) = id /\ Gen(w) = session[id].generation

Kept(w) == ServerInv' /\ OwnEnds(w)

\* No session ends in a quiet step.
LEMMA QuietEnds ==
  ASSUME Quiet, NEW w
  PROVE  OwnEnds(w)
BY Zenon DEF Quiet, OwnEnds

\* A worker that has not given its chain up holds its slot's present one,
\* unless it is about to compare the generation.
LEMMA Holder ==
  ASSUME ServerInv, NEW w \in Workers, Carrying(worker[w]),
         worker[w].at = "start" => worker[w].task.func \in Serving
  PROVE  Own(w) \in Ids /\ HeldBy(worker[w], Own(w))
<1>1. WorkerOK(worker[w])
  BY Zenon DEF ServerInv
<1>2. worker[w] # Idle
  BY DEF Carrying, CarriesChain, Idle
<1>3. CASE worker[w].at = "start"
  BY <1>1, <1>2, <1>3 DEF WorkerOK, TaskOK, HeldBy, Own, Listener, Task, Serving
<1>4. CASE worker[w].at # "start"
  BY Zenon, <1>1, <1>2, <1>4 DEF WorkerOK, HeldBy, Own
<1> QED
  BY Zenon, <1>3, <1>4

\* The holder of a chain goes on and keeps it.
LEMMA HolderMoves ==
  ASSUME ServerInv, Quiet, RestOK', UNCHANGED tasks,
         NEW w \in Workers, NEW place,
         Own(w) \in Ids, HeldBy(worker[w], Own(w)),
         \/ place \in {"critical", "failed", "sent"}
         \/ place = "kick" /\ worker[w].task.func = "listener",
         GoTo(w, place)
  PROVE  Kept(w)
<1>0. TypeOK /\ worker \in [Workers -> WorkerStates] /\ session \in [Ids -> Sessions]
  BY Zenon DEF ServerInv, TypeOK, WorkerStates
<1>1. PICK k \in WorkerStates : /\ k.at = place
                                /\ k.task = worker[w].task
                                /\ worker' = [worker EXCEPT ![w] = k]
  BY <1>0, GoOn DEF Places
<1>2. Carrying(k) /\ k.at \notin {"idle", "start", "new_aquire", "new_critical", "kicked_listen"}
  BY Zenon, <1>1 DEF Carrying, CarriesChain
<1>3. \A id \in Ids : HeldBy(k, id) <=> HeldBy(worker[w], id)
  BY Zenon, <1>1, <1>2 DEF HeldBy
<1>4. session[Own(w)].generation \in Nat
  BY <1>0 DEF Sessions, Generations
<1>5. WorkerOK(k)
  BY <1>1, <1>2, <1>4 DEF WorkerOK, HeldBy, Own, Carrying, CarriesChain
<1>6. worker[w].at # "new_aquire"
  BY Zenon DEF HeldBy, Carrying, CarriesChain
<1>7. \A v \in Workers : WorkerOK(worker'[v])
  BY Zenon, <1>0, <1>1, <1>5 DEF ServerInv
<1>8. \A v \in Workers, id \in Ids :
        /\ HeldBy(worker'[v], id) <=> HeldBy(worker[v], id)
        /\ TakenBy(worker'[v], id) <=> TakenBy(worker[v], id)
  <2>1. \A v \in Workers, id \in Ids : HeldBy(worker'[v], id) <=> HeldBy(worker[v], id)
    BY Zenon, <1>0, <1>1, <1>3
  <2>2. \A v \in Workers, id \in Ids : TakenBy(worker'[v], id) <=> TakenBy(worker[v], id)
    BY Zenon, <1>0, <1>1, <1>2, <1>6 DEF TakenBy
  <2> QED
    BY Zenon, <2>1, <2>2
<1>9. worker' \in [Workers -> WorkerStates]
  BY Zenon, <1>0, <1>1
<1>10. ServerInv'
  BY Zenon, <1>7, <1>8, <1>9, QuietStep DEF ServerInv, TypeOK
<1> QED
  BY Zenon, <1>10, QuietEnds DEF Kept

\* A worker that holds no chain ends its task or goes on towards its end; the
\* listener may be scheduled again.
LEMMA BystanderMoves ==
  ASSUME ServerInv, Quiet, RestOK',
         NEW w \in Workers,
         \A id \in Ids : ~HeldBy(worker[w], id),
         worker[w].at # "new_aquire",
         \/ Finish(w)
         \/ /\ worker[w].at \notin {"idle", "start"}
            /\ \E place \in {"release", "inner_release"} : GoTo(w, place),
         \/ UNCHANGED tasks
         \/ tasks' = Scheduled(Listener)
         \/ \E t \in Tasks : TaskOK(t) /\ (\A id \in Ids : ~WaitsAs(t, id)) /\ tasks' = Scheduled(t)
  PROVE  Kept(w)
<1>0. /\ TypeOK
      /\ worker \in [Workers -> WorkerStates]
      /\ session \in [Ids -> Sessions]
      /\ WorkerOK(worker[w])
      /\ IsQueue(tasks) /\ DOMAIN tasks \subseteq Tasks
  BY Zenon DEF ServerInv, TypeOK, WorkerStates
<1>1. PICK k \in WorkerStates : /\ worker' = [worker EXCEPT ![w] = k]
                                /\ WorkerOK(k)
                                /\ ~Carrying(k)
                                /\ k.at # "new_aquire"
  <2>1. CASE Finish(w)
    <3>1. /\ Idle \in WorkerStates /\ Idle.at = "idle"
          /\ worker' = [worker EXCEPT ![w] = Idle]
      BY Zenon, <2>1 DEF Finish, Idle, Listener, Task, WorkerStates, Places, Tasks, Funcs
    <3>2. WorkerOK(Idle)
      BY Zenon DEF WorkerOK
    <3>3. ~Carrying(Idle)
      BY Zenon, <3>1 DEF Carrying, CarriesChain
    <3> QED
      BY Zenon, <3>1, <3>2, <3>3
  <2>2. ASSUME NEW place \in {"release", "inner_release"}, GoTo(w, place),
               worker[w].at \notin {"idle", "start"}
        PROVE  \E k \in WorkerStates : /\ worker' = [worker EXCEPT ![w] = k]
                                       /\ WorkerOK(k)
                                       /\ ~Carrying(k)
                                       /\ k.at # "new_aquire"
    <3>1. PICK k \in WorkerStates : /\ k.at = place
                                    /\ k.task = worker[w].task
                                    /\ worker' = [worker EXCEPT ![w] = k]
      BY <1>0, <2>2, GoOn DEF Places
    <3>2. ~Carrying(k)
      BY Zenon, <2>2, <3>1 DEF Carrying, CarriesChain
    <3>3. WorkerOK(k)
      BY SMTT(30), <1>0, <2>2, <3>1, <3>2 DEF WorkerOK, Idle
    <3> QED
      BY Zenon, <2>2, <3>1, <3>2, <3>3
  <2> QED
    BY Zenon, <2>1, <2>2
<1>2. \A v \in Workers : WorkerOK(worker'[v])
  BY Zenon, <1>0, <1>1 DEF ServerInv
<1>3. \A v \in Workers, id \in Ids :
        /\ HeldBy(worker'[v], id) <=> HeldBy(worker[v], id)
        /\ TakenBy(worker'[v], id) <=> TakenBy(worker[v], id)
  <2>1. \A v \in Workers, id \in Ids : HeldBy(worker'[v], id) <=> HeldBy(worker[v], id)
    BY Zenon, <1>0, <1>1 DEF HeldBy
  <2>2. \A v \in Workers, id \in Ids : TakenBy(worker'[v], id) <=> TakenBy(worker[v], id)
    BY Zenon, <1>0, <1>1 DEF TakenBy
  <2> QED
    BY Zenon, <2>1, <2>2
<1>4. worker' \in [Workers -> WorkerStates]
  BY Zenon, <1>0, <1>1
<1>5. ASSUME NEW t \in Tasks, TaskOK(t), \A id \in Ids : ~WaitsAs(t, id),
             tasks' = Scheduled(t)
      PROVE  Kept(w)
  <2>1. /\ IsQueue(tasks')
        /\ DOMAIN tasks' = DOMAIN tasks \cup {t}
        /\ \A y \in DOMAIN tasks : y # t => tasks'[y] = tasks[y]
    BY Zenon, <1>0, <1>5, AddTask
  <2>2. \A u \in DOMAIN tasks' : TaskOK(u)
    BY Zenon, <1>5, <2>1 DEF ServerInv
  <2>3. \A id \in Ids : \A u :
           WaitsAs(u, id) => /\ u \in DOMAIN tasks' <=> u \in DOMAIN tasks
                             /\ u \in DOMAIN tasks => tasks'[u] = tasks[u]
    BY Zenon, <1>5, <2>1
  <2>4. DOMAIN tasks' \subseteq Tasks
    BY Zenon, <1>0, <2>1
  <2>5. ServerInv'
    BY Zenon, <1>2, <1>3, <1>4, <2>1, <2>2, <2>3, <2>4, QuietStep
  <2> QED
    BY Zenon, <2>5, QuietEnds DEF Kept
<1>6. CASE UNCHANGED tasks
  <2>1. ServerInv'
    BY Zenon, <1>0, <1>2, <1>3, <1>4, <1>6, QuietStep DEF ServerInv
  <2> QED
    BY Zenon, <2>1, QuietEnds DEF Kept
<1>7. CASE tasks' = Scheduled(Listener)
  <2>1. Listener \in Tasks /\ TaskOK(Listener)
    BY Zenon DEF Listener, Task, Tasks, Funcs, TaskOK
  <2>2. \A id \in Ids : ~WaitsAs(Listener, id)
    BY ServerAssumption DEF Listener, Task, WaitsAs, Ids
  <2> QED
    BY Zenon, <1>5, <1>7, <2>1, <2>2
<1> QED
  BY Zenon, <1>5, <1>6, <1>7

\* The holder of a chain schedules its next task, and then ends its own or goes
\* on without the chain.
LEMMA HolderHandsOn ==
  ASSUME ServerInv, Quiet, RestOK',
         NEW w \in Workers, NEW f \in Funcs \ {"listener"},
         Own(w) \in Ids, HeldBy(worker[w], Own(w)),
         tasks' = Scheduled(Task(f, Own(w), Gen(w))),
         \/ Finish(w)
         \/ \E place \in {"release", "set_joinable", "new_release"} : GoTo(w, place)
  PROVE  Kept(w)
<1>0. /\ TypeOK
      /\ worker \in [Workers -> WorkerStates]
      /\ session \in [Ids -> Sessions]
  BY Zenon DEF ServerInv, TypeOK, WorkerStates
<1>i. PICK i \in Ids : i = Own(w)
  BY Zenon
<1>1. PICK t : i = Own(w) /\ t = Task(f, Own(w), Gen(w))
  BY Zenon, <1>i
<1>2. /\ t \in Tasks /\ t.func # "listener" /\ WaitsAs(t, i)
      /\ HeldBy(worker[w], i) /\ session[i].generation \in Nat
      /\ worker[w].task.id = i /\ worker[w].task.generation = session[i].generation
  BY SMTT(30), <1>0, <1>1 DEF Task, Tasks, WaitsAs, HeldBy, Own, Gen, Sessions, Generations
<1>3. CASE Finish(w)
  <2>1. PICK k : k = Idle
    BY Zenon
  <2>2. k \in WorkerStates /\ k.at = "idle" /\ WorkerOK(k)
    BY Zenon, <2>1 DEF Idle, Listener, Task, WorkerStates, Places, Tasks, Funcs, WorkerOK
  <2>3. ~Carrying(k)
    BY Zenon, <2>2 DEF Carrying, CarriesChain
  <2>4. worker' = [worker EXCEPT ![w] = k]
    BY Zenon, <1>3, <2>1 DEF Finish
  <2>5. ServerInv'
    BY Zenon, <1>1, <1>2, <2>2, <2>3, <2>4, HandOnStep
  <2> QED
    BY Zenon, <2>5, QuietEnds DEF Kept
<1>4. ASSUME NEW place \in {"release", "set_joinable", "new_release"}, GoTo(w, place)
      PROVE  Kept(w)
  <2>1. PICK k \in WorkerStates : /\ k.at = place
                                  /\ k.task = worker[w].task
                                  /\ worker' = [worker EXCEPT ![w] = k]
    BY <1>0, <1>4, GoOn DEF Places
  <2>2. ~Carrying(k)
    BY Zenon, <1>4, <2>1 DEF Carrying, CarriesChain
  <2>3. WorkerOK(k)
    BY SMTT(30), <1>2, <1>4, <2>1, <2>2 DEF WorkerOK
  <2>4. ServerInv'
    BY Zenon, <1>1, <1>2, <1>4, <2>1, <2>2, <2>3, HandOnStep
  <2> QED
    BY Zenon, <2>4, QuietEnds DEF Kept
<1> QED
  BY Zenon, <1>3, <1>4

\* The holder of a chain disconnects its session.
LEMMA HolderEnds ==
  ASSUME ServerInv, shutdown' \in BOOLEAN, aborted' \in BOOLEAN,
         UNCHANGED << tasks, connections >>,
         NEW w \in Workers,
         Own(w) \in Ids, HeldBy(worker[w], Own(w)),
         \E s \in Sessions, players \in Int :
           s.generation = session[Own(w)].generation /\ Disconnect(Own(w), s, players),
         \/ Finish(w)
         \/ \E place \in {"release", "inner_release", "set_joinable", "kicked_listen", "new_release"} :
              GoTo(w, place)
         \/ GoTo(w, "kick") /\ worker[w].task.func # "listener"
  PROVE  Kept(w)
<1>0. TypeOK
  BY Zenon DEF ServerInv
<1>1. PICK i \in Ids : i = Own(w)
  BY Zenon
<1>2. PICK s \in Sessions, players \in Int :
        s.generation = session[i].generation /\ Disconnect(i, s, players)
  BY Zenon, <1>1
<1>3. PICK k \in WorkerStates :
        /\ worker' = [worker EXCEPT ![w] = k]
        /\ ~Carrying(k)
        /\ k = Idle \/ (k.task = worker[w].task /\ k.at \notin {"idle", "start", "new_aquire"})
  <2>1. CASE Finish(w)
    <3>1. Idle \in WorkerStates /\ worker' = [worker EXCEPT ![w] = Idle]
      BY Zenon, <2>1 DEF Finish, Idle, Listener, Task, WorkerStates, Places, Tasks, Funcs
    <3>2. ~Carrying(Idle)
      BY Zenon DEF Carrying, CarriesChain, Idle
    <3> QED
      BY Zenon, <3>1, <3>2
  <2>2. ASSUME NEW place, GoTo(w, place),
               \/ place \in {"release", "inner_release", "set_joinable", "kicked_listen", "new_release"}
               \/ place = "kick" /\ worker[w].task.func # "listener"
        PROVE  \E k \in WorkerStates :
                 /\ worker' = [worker EXCEPT ![w] = k]
                 /\ ~Carrying(k)
                 /\ k.task = worker[w].task /\ k.at \notin {"idle", "start", "new_aquire"}
    <3>1. PICK k \in WorkerStates : /\ k.at = place
                                    /\ k.task = worker[w].task
                                    /\ worker' = [worker EXCEPT ![w] = k]
      BY <1>0, <2>2, GoOn DEF Places
    <3>2. ~Carrying(k)
      BY Zenon, <2>2, <3>1 DEF Carrying, CarriesChain
    <3> QED
      BY Zenon, <2>2, <3>1, <3>2
  <2> QED
    BY Zenon, <2>1, <2>2
<1>4. ServerInv'
  BY Zenon, <1>1, <1>2, <1>3, EndStep
<1>5. worker[w] # k /\ worker'[w] = k
  <2>1. Carrying(worker[w])
    BY Zenon DEF HeldBy
  <2> QED
    BY Zenon, <1>0, <1>3, <2>1 DEF TypeOK
<1>6. \A id \in Ids \ {i} : session'[id] = session[id]
  BY Zenon, <1>0, <1>2 DEF Disconnect, TypeOK
<1>7. Gen(w) = session[i].generation
  BY Zenon, <1>1 DEF HeldBy, Gen
<1>8. OwnEnds(w)
  BY Zenon, <1>1, <1>5, <1>6, <1>7 DEF OwnEnds
<1> QED
  BY Zenon, <1>4, <1>8 DEF Kept

\* A step that changes neither the workers nor the queue.
LEMMA NoStep ==
  ASSUME ServerInv, Quiet, RestOK', UNCHANGED << worker, tasks >>
  PROVE  ServerInv'
<1>1. worker' \in [Workers -> WorkerStates]
  BY Zenon DEF ServerInv, TypeOK, WorkerStates
<1> QED
  BY Zenon, <1>1, QuietStep DEF ServerInv, TypeOK


-----------------------------------------------------------------------------
(* What the operations of a task that holds its chain do *)

\* A session's fields other than its generation and connected change.
LEMMA QuietEdit ==
  ASSUME TypeOK, UNCHANGED << idList, connections >>,
         NEW i \in Ids, NEW r \in Sessions,
         r.generation = session[i].generation, r.connected = session[i].connected,
         session' = [session EXCEPT ![i] = r]
  PROVE  Quiet
BY Zenon DEF TypeOK, Quiet

\* The action lock is taken or given up.
LEMMA QuietLock ==
  ASSUME TypeOK, UNCHANGED << idList, connections >>,
         NEW i \in Ids, NEW b \in BOOLEAN,
         session' = [session EXCEPT ![i].locked = b]
  PROVE  Quiet
<1>1. PICK r : r = [session[i] EXCEPT !.locked = b]
  BY Zenon
<1>2. session[i] \in Sessions
  BY Zenon DEF TypeOK
<1>3. /\ r \in Sessions
      /\ r.generation = session[i].generation /\ r.connected = session[i].connected
  BY Zenon, <1>1, <1>2 DEF Sessions
<1>4. session' = [session EXCEPT ![i] = r]
  BY Zenon, <1>1
<1> QED
  BY Zenon, <1>3, <1>4, QuietEdit

\* Sessions stay as they are.
LEMMA QuietSame ==
  ASSUME TypeOK, UNCHANGED << session, idList, connections >>
  PROVE  Quiet
BY Zenon DEF TypeOK, Quiet

\* tc_server_kick_session by the holder, with the lock.
LEMMA KickAndReleaseStep ==
  ASSUME ServerInv, NEW w \in Workers,
         Own(w) \in Ids, HeldBy(worker[w], Own(w)),
         \E s \in Sessions : /\ s.generation = session[Own(w)].generation
                             /\ KickAndRelease(w, s)
  PROVE  Kept(w)
<1>1. PICK s \in Sessions : /\ s.generation = session[Own(w)].generation
                            /\ KickAndRelease(w, s)
  BY Zenon
<1>2. PICK players \in Int : players = active_players
  BY Zenon DEF ServerInv, TypeOK
<1>3. Disconnect(Own(w), s, players)
  BY Zenon, <1>1, <1>2 DEF KickAndRelease
<1>4. /\ shutdown' \in BOOLEAN /\ aborted' \in BOOLEAN
      /\ UNCHANGED << tasks, connections >>
      /\ GoTo(w, "release")
  BY Zenon, <1>1 DEF KickAndRelease, ServerInv, TypeOK, pool
<1> QED
  BY Zenon, <1>1, <1>3, <1>4, HolderEnds

\* tc_server_protocol_handler_cleanup by the holder, and the next task.
LEMMA CleanupStep ==
  ASSUME ServerInv, NEW w \in Workers,
         Own(w) \in Ids, HeldBy(worker[w], Own(w)),
         NEW f \in Funcs \ {"listener"},
         \E s \in Sessions : /\ s.generation = session[Own(w)].generation
                             /\ s.connected = session[Own(w)].connected
                             /\ CleanupAndSchedule(w, s, f)
  PROVE  Kept(w)
<1>1. PICK s \in Sessions : /\ s.generation = session[Own(w)].generation
                            /\ s.connected = session[Own(w)].connected
                            /\ CleanupAndSchedule(w, s, f)
  BY Zenon
<1>0. TypeOK
  BY Zenon DEF ServerInv
<1>i. PICK i \in Ids : i = Own(w)
  BY Zenon
<1>2. PICK r : i = Own(w) /\ r = [s EXCEPT !.opcode = NoOpcode]
  BY Zenon, <1>i
<1>3. r \in Sessions /\ r.generation = s.generation /\ r.connected = s.connected
  BY Zenon, <1>2 DEF Sessions
<1>4. /\ session' = [session EXCEPT ![i] = r]
      /\ ScheduleNext(w, f, "shutdown_client")
      /\ GoTo(w, "release")
      /\ UNCHANGED << idList, active_players, limits >>
  BY Zenon, <1>1, <1>2 DEF CleanupAndSchedule
<1>5. Quiet
  BY Zenon, <1>0, <1>1, <1>2, <1>3, <1>4, QuietEdit DEF limits
<1>6. RestOK'
  BY Zenon, <1>0, <1>4 DEF TypeOK, RestOK, limits
<1>7. PICK g \in Funcs \ {"listener"} : tasks' = Scheduled(Task(g, Own(w), Gen(w)))
  <2>1. "shutdown_client" \in Funcs \ {"listener"}
    BY Zenon DEF Funcs, LockingTasks
  <2> QED
    BY Zenon, <1>4, <2>1 DEF ScheduleNext
<1> QED
  BY Zenon, <1>4, <1>5, <1>6, <1>7, HolderHandsOn

\* finalize_player_identification by the holder.
LEMMA FinalizeStep ==
  ASSUME ServerInv, NEW w \in Workers,
         Own(w) \in Ids, HeldBy(worker[w], Own(w)),
         worker[w].task.func # "listener",
         \E s \in Sessions : /\ s.generation = session[Own(w)].generation
                             /\ s.connected = session[Own(w)].connected
                             /\ FinalizePlayerIdentification(w, s)
  PROVE  Kept(w)
<1>1. PICK s \in Sessions : /\ s.generation = session[Own(w)].generation
                            /\ s.connected = session[Own(w)].connected
                            /\ FinalizePlayerIdentification(w, s)
  BY Zenon
<1>0. TypeOK
  BY Zenon DEF ServerInv
<1>i. PICK i \in Ids : i = Own(w)
  BY Zenon
<1>2. PICK r : i = Own(w) /\ r = [s EXCEPT !.opcode = NoOpcode]
  BY Zenon, <1>i
<1>3. r \in Sessions /\ r.generation = s.generation /\ r.connected = s.connected
  BY Zenon, <1>2 DEF Sessions
<1>4. CASE KickAndRelease(w, s)
  BY Zenon, <1>1, <1>4, KickAndReleaseStep
<1>5. CASE /\ session' = [session EXCEPT ![i] = r]
           /\ active_players' = active_players + 1
           /\ ScheduleSendMap(w)
           /\ GoTo(w, "set_joinable")
           /\ UNCHANGED << idList, limits >>
  <2>1. Quiet
    BY Zenon, <1>0, <1>1, <1>2, <1>3, <1>5, QuietEdit DEF limits
  <2>2. RestOK'
    BY <1>0, <1>5 DEF TypeOK, RestOK, limits
  <2>3. "load_map" \in Funcs \ {"listener"}
    BY Zenon DEF Funcs
  <2>4. tasks' = Scheduled(Task("load_map", Own(w), Gen(w)))
    BY Zenon, <1>5 DEF ScheduleSendMap, ScheduleNew
  <2> QED
    BY Zenon, <1>5, <2>1, <2>2, <2>3, <2>4, HolderHandsOn
<1>6. ASSUME NEW next \in {"set_joinable", "kick"},
             Disconnect(Own(w), r, active_players + 1),
             GoTo(w, next),
             UNCHANGED << pool, aborted, connections >>
      PROVE  Kept(w)
  <2>1. PICK players \in Int : players = active_players + 1
    BY <1>0 DEF TypeOK
  <2>2. Disconnect(Own(w), r, players)
    BY Zenon, <1>6, <2>1
  <2>3. /\ shutdown' \in BOOLEAN /\ aborted' \in BOOLEAN
        /\ UNCHANGED << tasks, connections >>
    BY Zenon, <1>0, <1>6 DEF TypeOK, pool
  <2>4. r.generation = session[Own(w)].generation
    BY Zenon, <1>1, <1>3
  <2> QED
    BY Zenon, <1>3, <1>6, <2>2, <2>3, <2>4, HolderEnds
<1> QED
  BY Zenon, <1>1, <1>2, <1>4, <1>5, <1>6 DEF FinalizePlayerIdentification

-----------------------------------------------------------------------------
(* Every step of a worker keeps the invariant *)

\* The packet handlers.
LEMMA ClientListenStep ==
  ASSUME ServerInv, NEW w \in Workers, ClientListen(w)
  PROVE  Kept(w)
<1>1. Own(w) \in Ids /\ HeldBy(worker[w], Own(w))
  BY Zenon, Holder DEF ClientListen, At, Carrying, CarriesChain
<1>2. PICK s : s = session[Own(w)]
  BY Zenon
<1>3. s \in Sessions
  BY Zenon, <1>1, <1>2 DEF ServerInv, TypeOK
<1>4. CASE /\ \/ UNCHANGED session
              \/ \E p \in Packets : session' = [session EXCEPT ![Own(w)].opcode = p]
           /\ \E f \in Handlers \cup {"listen"} : ScheduleNext(w, f, "shutdown_client")
           /\ GoTo(w, "release")
           /\ UNCHANGED << idList, active_players, limits >>
  <2>0. TypeOK
    BY Zenon DEF ServerInv
  <2>1. Quiet
    <3>1. CASE UNCHANGED session
      BY Zenon, <1>4, <2>0, <3>1, QuietSame DEF limits
    <3>2. ASSUME NEW p \in Packets, session' = [session EXCEPT ![Own(w)].opcode = p]
          PROVE  Quiet
      <4>i. PICK i \in Ids : i = Own(w)
        BY Zenon, <1>1
      <4>1. PICK r : i = Own(w) /\ r = [s EXCEPT !.opcode = p]
        BY Zenon, <4>i
      <4>2. p \in Handlers
        BY Zenon, ServerAssumption DEF Handlers
      <4>3. r \in Sessions /\ r.generation = s.generation /\ r.connected = s.connected
        BY Zenon, <1>3, <4>1, <4>2 DEF Sessions
      <4>4. session' = [session EXCEPT ![i] = r]
        BY Zenon, <1>2, <3>2, <4>1
      <4> QED
        BY Zenon, <1>2, <1>4, <2>0, <4>1, <4>3, <4>4, QuietEdit DEF limits
    <3> QED
      BY Zenon, <1>4, <3>1, <3>2
  <2>2. RestOK'
    BY Zenon, <1>4, <2>0 DEF TypeOK, RestOK, limits
  <2>3. PICK g \in Funcs \ {"listener"} : tasks' = Scheduled(Task(g, Own(w), Gen(w)))
    <3>1. Handlers \cup {"listen", "shutdown_client"} \subseteq Funcs \ {"listener"}
      BY Zenon DEF Funcs, LockingTasks, Handlers
    <3> QED
      BY Zenon, <1>4, <3>1 DEF ScheduleNext
  <2> QED
    BY Zenon, <1>1, <1>4, <2>1, <2>2, <2>3, HolderHandsOn
<1>5. CASE KickAndRelease(w, s)
  BY Zenon, <1>1, <1>2, <1>3, <1>5, KickAndReleaseStep
<1>6. s.opcode # NoOpcode => s.opcode \in Handlers
  BY Zenon, <1>3 DEF Sessions
<1> QED
  BY Zenon, <1>2, <1>4, <1>5, <1>6 DEF ClientListen

\* The handler of the identification packet kicks the client, hands its chain to
\* the extension negotiation, or finishes the handshake.
LEMMA PlayerIdentificationStep ==
  ASSUME ServerInv, NEW w \in Workers, PlayerIdentification(w)
  PROVE  Kept(w)
<1>1. Own(w) \in Ids /\ HeldBy(worker[w], Own(w))
  BY Zenon, Holder DEF PlayerIdentification, At, Carrying, CarriesChain
<1>2. PICK s : s = session[Own(w)]
  BY Zenon
<1>3. s \in Sessions
  BY Zenon, <1>1, <1>2 DEF ServerInv, TypeOK
<1>4. PICK v, c : /\ v = [s EXCEPT !.authenticated = TRUE]
                  /\ c = [v EXCEPT !.supports_cpe = TRUE]
  BY Zenon
<1>5. v \in Sessions /\ v.generation = s.generation /\ v.connected = s.connected
  BY Zenon, <1>3, <1>4 DEF Sessions
<1>6. c \in Sessions /\ c.generation = s.generation /\ c.connected = s.connected
  BY Zenon, <1>4, <1>5 DEF Sessions
<1>7. CASE KickAndRelease(w, s)
  BY Zenon, <1>1, <1>2, <1>3, <1>7, KickAndReleaseStep
<1>8. CASE CleanupAndSchedule(w, c, "begin_cpe")
  <2>1. "begin_cpe" \in Funcs \ {"listener"}
    BY Zenon DEF Funcs, LockingTasks
  <2> QED
    BY Zenon, <1>1, <1>2, <1>6, <1>8, <2>1, CleanupStep
<1>9. CASE FinalizePlayerIdentification(w, v)
  <2>1. worker[w].task.func # "listener"
    BY Zenon DEF PlayerIdentification, Runs
  <2> QED
    BY Zenon, <1>1, <1>2, <1>5, <1>9, <2>1, FinalizeStep
<1> QED
  BY Zenon, <1>2, <1>4, <1>7, <1>8, <1>9 DEF PlayerIdentification

\* A failed assertion ends the process and changes no chain.
LEMMA AssertionStep ==
  ASSUME ServerInv, NEW w \in Workers, AssertionFails(w)
  PROVE  Kept(w)
<1>1. Quiet /\ RestOK' /\ UNCHANGED << worker, tasks >>
  BY Zenon, QuietSame DEF AssertionFails, ServerInv, TypeOK, RestOK, pool
<1> QED
  BY Zenon, <1>1, NoStep, QuietEnds DEF Kept

\* The extension negotiation begins in the session's own chain.
LEMMA BeginCpeNegotiationStep ==
  ASSUME ServerInv, NEW w \in Workers, BeginCpeNegotiation(w)
  PROVE  Kept(w)
<1>1. Own(w) \in Ids /\ HeldBy(worker[w], Own(w))
  BY Zenon, Holder DEF BeginCpeNegotiation, At, Carrying, CarriesChain
<1>2. PICK s : s = session[Own(w)]
  BY Zenon
<1>3. s \in Sessions
  BY Zenon, <1>1, <1>2 DEF ServerInv, TypeOK
<1>4. "listen" \in Funcs \ {"listener"}
  BY Zenon DEF Funcs, LockingTasks
<1>5. CASE AssertionFails(w)
  BY Zenon, <1>5, AssertionStep
<1>6. CASE KickAndRelease(w, s)
  BY Zenon, <1>1, <1>2, <1>3, <1>6, KickAndReleaseStep
<1>7. CASE CleanupAndSchedule(w, s, "listen")
  BY Zenon, <1>1, <1>2, <1>3, <1>4, <1>7, CleanupStep
<1> QED
  BY Zenon, <1>2, <1>5, <1>6, <1>7 DEF BeginCpeNegotiation

\* So does the handler of the ExtInfo packet go on in it.
LEMMA CpeExtInfoStep ==
  ASSUME ServerInv, NEW w \in Workers, CpeExtInfo(w)
  PROVE  Kept(w)
<1>1. Own(w) \in Ids /\ HeldBy(worker[w], Own(w))
  BY Zenon, Holder DEF CpeExtInfo, At, Carrying, CarriesChain
<1>2. PICK s : s = session[Own(w)]
  BY Zenon
<1>3. s \in Sessions
  BY Zenon, <1>1, <1>2 DEF ServerInv, TypeOK
<1>4. "listen" \in Funcs \ {"listener"}
  BY Zenon DEF Funcs, LockingTasks
<1>5. CASE AssertionFails(w)
  BY Zenon, <1>5, AssertionStep
<1>6. CASE KickAndRelease(w, s)
  BY Zenon, <1>1, <1>2, <1>3, <1>6, KickAndReleaseStep
<1>7. ASSUME NEW n \in Counts,
             CleanupAndSchedule(w, [s EXCEPT !.remaining = n], "listen")
      PROVE  Kept(w)
  <2>1. PICK r : r = [s EXCEPT !.remaining = n]
    BY Zenon
  <2>2. n \in Int
    BY Zenon, ServerAssumption
  <2>3. r \in Sessions /\ r.generation = s.generation /\ r.connected = s.connected
    BY Zenon, <1>3, <2>1, <2>2 DEF Sessions
  <2> QED
    BY Zenon, <1>1, <1>2, <1>4, <1>7, <2>1, <2>3, CleanupStep
<1> QED
  BY Zenon, <1>2, <1>5, <1>6, <1>7 DEF CpeExtInfo

\* And the handler of the ExtEntry packets.
LEMMA CpeExtEntryStep ==
  ASSUME ServerInv, NEW w \in Workers, CpeExtEntry(w)
  PROVE  Kept(w)
<1>1. Own(w) \in Ids /\ HeldBy(worker[w], Own(w))
  BY Zenon, Holder DEF CpeExtEntry, At, Carrying, CarriesChain
<1>2. PICK s : s = session[Own(w)]
  BY Zenon
<1>3. s \in Sessions
  BY Zenon, <1>1, <1>2 DEF ServerInv, TypeOK
<1>4. PICK r, c : /\ r = [s EXCEPT !.remaining = @ - 1]
                  /\ c = [r EXCEPT !.custom_blocks = TRUE]
  BY Zenon
<1>5. r \in Sessions /\ r.generation = s.generation /\ r.connected = s.connected
  BY <1>3, <1>4 DEF Sessions
<1>6. c \in Sessions /\ c.generation = s.generation /\ c.connected = s.connected
  BY Zenon, <1>4, <1>5 DEF Sessions
<1>7. "listen" \in Funcs \ {"listener"} /\ worker[w].task.func # "listener"
  BY Zenon DEF Funcs, LockingTasks, CpeExtEntry, Runs
<1>8. CASE AssertionFails(w)
  BY Zenon, <1>8, AssertionStep
<1>9. CASE KickAndRelease(w, s)
  BY Zenon, <1>1, <1>2, <1>3, <1>9, KickAndReleaseStep
<1>10. CASE KickAndRelease(w, r)
  BY Zenon, <1>1, <1>2, <1>5, <1>10, KickAndReleaseStep
<1>11. ASSUME NEW e \in {r, c},
              \/ CleanupAndSchedule(w, e, "listen")
              \/ /\ Disconnect(Own(w), e, active_players)
                 /\ GoTo(w, "kicked_listen")
                 /\ UNCHANGED << pool, aborted, connections >>
              \/ FinalizePlayerIdentification(w, e)
       PROVE  Kept(w)
  <2>0. e \in Sessions /\ e.generation = s.generation /\ e.connected = s.connected
    BY Zenon, <1>5, <1>6
  <2>1. CASE CleanupAndSchedule(w, e, "listen")
    BY Zenon, <1>1, <1>2, <1>7, <2>0, <2>1, CleanupStep
  <2>2. CASE /\ Disconnect(Own(w), e, active_players)
             /\ GoTo(w, "kicked_listen")
             /\ UNCHANGED << pool, aborted, connections >>
    <3>1. PICK players \in Int : players = active_players
      BY Zenon DEF ServerInv, TypeOK
    <3>2. Disconnect(Own(w), e, players)
      BY Zenon, <2>2, <3>1
    <3>3. /\ shutdown' \in BOOLEAN /\ aborted' \in BOOLEAN
          /\ UNCHANGED << tasks, connections >>
      BY Zenon, <2>2 DEF ServerInv, TypeOK, pool
    <3> QED
      BY Zenon, <1>1, <1>2, <2>0, <2>2, <3>2, <3>3, HolderEnds
  <2>3. CASE FinalizePlayerIdentification(w, e)
    BY Zenon, <1>1, <1>2, <1>7, <2>0, <2>3, FinalizeStep
  <2> QED
    BY Zenon, <1>11, <2>1, <2>2, <2>3
<1>12. CASE CleanupAndSchedule(w, r, "listen")
  BY Zenon, <1>11, <1>12
<1> QED
  BY Zenon, <1>2, <1>4, <1>8, <1>9, <1>10, <1>11, <1>12 DEF CpeExtEntry

\* The session has ended by then: the listen task it schedules is stale.
LEMMA KickedListenStep ==
  ASSUME ServerInv, NEW w \in Workers, KickedListen(w)
  PROVE  Kept(w)
<1>0. /\ TypeOK
      /\ session \in [Ids -> Sessions]
      /\ worker[w].at = "kicked_listen"
      /\ WorkerOK(worker[w])
      /\ worker[w] \in WorkerStates
  BY Zenon DEF ServerInv, TypeOK, KickedListen, At, WorkerStates
<1>1. /\ Own(w) \in Ids
      /\ session[Own(w)] \in Sessions
      /\ Gen(w) \in 0..session[Own(w)].generation
      /\ Gen(w) < session[Own(w)].generation
  BY SMTT(30), <1>0 DEF WorkerOK, Idle, Own, Gen
<1>i. PICK i \in Ids : i = Own(w)
  BY Zenon, <1>1
<1>2. PICK r : i = Own(w) /\ r = [session[i] EXCEPT !.opcode = NoOpcode]
  BY Zenon, <1>i
<1>3. /\ r \in Sessions
      /\ r.generation = session[i].generation /\ r.connected = session[i].connected
  BY Zenon, <1>1, <1>2 DEF Sessions
<1>4. /\ session' = [session EXCEPT ![i] = r]
      /\ ScheduleNext(w, "listen", "shutdown_client")
      /\ GoTo(w, "release")
      /\ UNCHANGED << idList, active_players, limits >>
  BY Zenon, <1>2 DEF KickedListen, CleanupAndSchedule
<1>5. Quiet
  BY Zenon, <1>0, <1>3, <1>4, QuietEdit DEF limits
<1>6. RestOK'
  BY Zenon, <1>0, <1>4 DEF TypeOK, RestOK, limits
<1>7. PICK f \in {"listen", "shutdown_client"} : tasks' = Scheduled(Task(f, Own(w), Gen(w)))
  BY Zenon, <1>4 DEF ScheduleNext
<1>8. PICK t : t = Task(f, Own(w), Gen(w))
  BY Zenon
<1>9. t.func = f /\ t.id = i /\ t.generation = Gen(w) /\ t \in Tasks
  <2>1. Gen(w) \in Generations \cup {-1}
    BY Zenon, <1>0 DEF Gen, WorkerStates, Tasks
  <2> QED
    BY Zenon, <1>2, <1>8, <2>1 DEF Task, Tasks, Funcs, LockingTasks
<1>10. TaskOK(t) /\ \A id \in Ids : ~WaitsAs(t, id)
  <2>1. session[i].generation \in Nat
    BY <1>0 DEF Sessions, Generations
  <2> QED
    BY <1>1, <1>2, <1>9, <2>1 DEF TaskOK, WaitsAs, Serving
<1>11. \A id \in Ids : ~HeldBy(worker[w], id)
  BY Zenon, <1>0 DEF HeldBy, Carrying, CarriesChain
<1> QED
  BY Zenon, <1>0, <1>4, <1>5, <1>6, <1>7, <1>8, <1>9, <1>10, <1>11, BystanderMoves

\* The handler of the support level finishes the handshake.
LEMMA SupportLevelStep ==
  ASSUME ServerInv, NEW w \in Workers, CpeCustomBlockSupportLevel(w)
  PROVE  Kept(w)
<1>1. Own(w) \in Ids /\ HeldBy(worker[w], Own(w))
  BY Zenon, Holder DEF CpeCustomBlockSupportLevel, At, Carrying, CarriesChain
<1>2. PICK s : s = session[Own(w)]
  BY Zenon
<1>3. s \in Sessions
  BY Zenon, <1>1, <1>2 DEF ServerInv, TypeOK
<1>4. CASE AssertionFails(w)
  BY Zenon, <1>4, AssertionStep
<1>5. CASE FinalizePlayerIdentification(w, s)
  <2>1. worker[w].task.func # "listener"
    BY Zenon DEF CpeCustomBlockSupportLevel, Runs
  <2> QED
    BY Zenon, <1>1, <1>2, <1>3, <1>5, <2>1, FinalizeStep
<1> QED
  BY Zenon, <1>2, <1>4, <1>5 DEF CpeCustomBlockSupportLevel

\* The handlers of blocks, positions and messages keep the chain or kick.
LEMMA PlayerActionStep ==
  ASSUME ServerInv, NEW w \in Workers, PlayerAction(w)
  PROVE  Kept(w)
<1>1. Own(w) \in Ids /\ HeldBy(worker[w], Own(w))
  BY Zenon, Holder DEF PlayerAction, At, Carrying, CarriesChain
<1>2. PICK s : s = session[Own(w)]
  BY Zenon
<1>3. s \in Sessions
  BY Zenon, <1>1, <1>2 DEF ServerInv, TypeOK
<1>4. "listen" \in Funcs \ {"listener"}
  BY Zenon DEF Funcs, LockingTasks
<1>5. CASE KickAndRelease(w, s)
  BY Zenon, <1>1, <1>2, <1>3, <1>5, KickAndReleaseStep
<1>6. CASE CleanupAndSchedule(w, s, "listen")
  BY Zenon, <1>1, <1>2, <1>3, <1>4, <1>6, CleanupStep
<1> QED
  BY Zenon, <1>2, <1>5, <1>6 DEF PlayerAction

\* SetCurrentJoinable and FinalizeRelease: the chain has been handed on.
LEMMA FinalizeEndStep ==
  ASSUME ServerInv, NEW w \in Workers, SetCurrentJoinable(w) \/ FinalizeRelease(w)
  PROVE  Kept(w)
<1>0. /\ TypeOK
      /\ session \in [Ids -> Sessions]
      /\ worker[w].at \in {"set_joinable", "inner_release"}
      /\ WorkerOK(worker[w])
  BY Zenon DEF ServerInv, TypeOK, SetCurrentJoinable, FinalizeRelease, At
<1>1. Own(w) \in Ids /\ session[Own(w)] \in Sessions
  BY <1>0 DEF WorkerOK, Idle, Own
<1>2. \A id \in Ids : ~HeldBy(worker[w], id)
  BY Zenon, <1>0 DEF HeldBy, Carrying, CarriesChain
<1>3. Quiet
  <2>1. CASE SetCurrentJoinable(w)
    <3>i. PICK i \in Ids : i = Own(w)
      BY Zenon, <1>1
    <3>1. PICK r : i = Own(w) /\ r = [session[i] EXCEPT !.joined = TRUE]
      BY Zenon, <3>i
    <3>2. /\ r \in Sessions
          /\ r.generation = session[i].generation /\ r.connected = session[i].connected
      BY Zenon, <1>1, <3>1 DEF Sessions
    <3>3. /\ session' = [session EXCEPT ![i] = r]
          /\ UNCHANGED << idList, connections >>
      BY Zenon, <2>1, <3>1 DEF SetCurrentJoinable
    <3> QED
      BY Zenon, <1>0, <3>2, <3>3, QuietEdit
  <2>2. CASE FinalizeRelease(w)
    <3>1. PICK i \in Ids : i = Own(w)
      BY Zenon, <1>1
    <3>2. /\ session' = [session EXCEPT ![i].locked = FALSE]
          /\ UNCHANGED << idList, connections >>
      BY Zenon, <2>2, <3>1 DEF FinalizeRelease
    <3> QED
      BY Zenon, <1>0, <3>2, QuietLock
  <2> QED
    BY Zenon, <2>1, <2>2
<1>4. RestOK' /\ UNCHANGED tasks
  BY Zenon, <1>0 DEF TypeOK, RestOK, pool, SetCurrentJoinable, FinalizeRelease
<1>5. \E place \in {"release", "inner_release"} : GoTo(w, place)
  BY Zenon DEF SetCurrentJoinable, FinalizeRelease
<1> QED
  BY Zenon, <1>0, <1>2, <1>3, <1>4, <1>5, BystanderMoves

\* The action lock taken at the start of a task; a stale task ends there.
LEMMA AquireActionLockStep ==
  ASSUME ServerInv, NEW w \in Workers, AquireActionLock(w)
  PROVE  Kept(w)
<1>0. /\ TypeOK
      /\ worker[w].at = "start" /\ worker[w].task.func \in LockingTasks
      /\ WorkerOK(worker[w])
  BY Zenon DEF ServerInv, AquireActionLock, At
<1>1. /\ Own(w) \in Ids
      /\ worker[w].task.func \in Serving => session[Own(w)].generation = Gen(w)
  BY <1>0 DEF WorkerOK, TaskOK, Idle, Listener, Task, LockingTasks, Handlers, Own, Gen
<1>2. RestOK' /\ UNCHANGED << tasks, idList, connections >>
  BY Zenon, <1>0 DEF AquireActionLock, TypeOK, RestOK, pool
<1>3. CASE session[Own(w)].generation = Gen(w)
  <2>1. HeldBy(worker[w], Own(w))
    BY Zenon, <1>0, <1>3 DEF HeldBy, Carrying, CarriesChain, Own, Gen
  <2>2. PICK i \in Ids : i = Own(w)
    BY Zenon, <1>1
  <2>3. session' = [session EXCEPT ![i].locked = TRUE] /\ GoTo(w, "critical")
    BY Zenon, <1>3, <2>2 DEF AquireActionLock
  <2>4. Quiet
    BY Zenon, <1>0, <1>2, <2>3, QuietLock
  <2> QED
    BY Zenon, <1>1, <1>2, <2>1, <2>3, <2>4, HolderMoves
<1>4. CASE session[Own(w)].generation # Gen(w)
  <2>1. ~Runs(w, "spawn")
    BY Zenon, <1>0, <1>1, <1>4 DEF Runs, Serving, Funcs, LockingTasks
  <2>2. Finish(w) /\ UNCHANGED session
    BY Zenon, <1>4, <2>1 DEF AquireActionLock
  <2>3. \A id \in Ids : ~HeldBy(worker[w], id)
    BY Zenon, <1>4 DEF HeldBy, Own, Gen
  <2>4. Quiet
    BY Zenon, <1>0, <1>2, <2>2, QuietSame
  <2> QED
    BY Zenon, <1>0, <1>2, <2>2, <2>3, <2>4, BystanderMoves
<1> QED
  BY Zenon, <1>3, <1>4

\* A task that has ended its work gives the lock up; the listener is scheduled
\* again.
LEMMA ReleaseStep ==
  ASSUME ServerInv, NEW w \in Workers, ReleaseActionLock(w) \/ NewSessionRelease(w)
  PROVE  Kept(w)
<1>0. /\ TypeOK
      /\ worker[w].at \in {"release", "new_release"}
      /\ WorkerOK(worker[w])
  BY Zenon DEF ServerInv, ReleaseActionLock, NewSessionRelease, At
<1>1. PICK i \in Ids : i = Own(w)
  BY SMTT(30), <1>0 DEF WorkerOK, Idle, Own
<1>2. /\ session' = [session EXCEPT ![i].locked = FALSE]
      /\ UNCHANGED << idList, connections >>
      /\ RestOK'
      /\ Finish(w)
      /\ UNCHANGED tasks \/ tasks' = Scheduled(Listener)
  BY Zenon, <1>0, <1>1 DEF ReleaseActionLock, NewSessionRelease, RescheduleListener, TypeOK,
                    RestOK, pool, limits
<1>3. Quiet
  BY Zenon, <1>0, <1>2, QuietLock
<1>4. \A id \in Ids : ~HeldBy(worker[w], id)
  BY Zenon, <1>0 DEF HeldBy, Carrying, CarriesChain
<1> QED
  BY Zenon, <1>0, <1>2, <1>3, <1>4, BystanderMoves

\* The kick of a failed map send: its worker still holds the chain.
LEMMA KickUnlockedStep ==
  ASSUME ServerInv, NEW w \in Workers, KickUnlocked(w)
  PROVE  Kept(w)
<1>1. Own(w) \in Ids /\ HeldBy(worker[w], Own(w))
  BY Zenon, Holder DEF KickUnlocked, At, Carrying, CarriesChain
<1>2. PICK s \in Sessions, players \in Int :
        s = session[Own(w)] /\ players = active_players
  BY Zenon, <1>1 DEF ServerInv, TypeOK
<1>3. Disconnect(Own(w), s, players) /\ Finish(w)
  BY Zenon, <1>2 DEF KickUnlocked
<1>4. /\ shutdown' \in BOOLEAN /\ aborted' \in BOOLEAN
      /\ UNCHANGED << tasks, connections >>
  BY Zenon DEF KickUnlocked, ServerInv, TypeOK, pool
<1> QED
  BY Zenon, <1>1, <1>2, <1>3, <1>4, HolderEnds

\* The kick that takes the lock: handle_new_session's finds its own session,
\* finalize_player_identification's one that has ended already.
LEMMA KickAquiringStep ==
  ASSUME ServerInv, NEW w \in Workers, KickAquiring(w)
  PROVE  Kept(w)
<1>0. /\ TypeOK
      /\ worker[w].at = "kick"
      /\ WorkerOK(worker[w])
  BY Zenon DEF ServerInv, KickAquiring, At
<1>1. CASE Runs(w, "listener")
  <2>1. Own(w) \in Ids /\ HeldBy(worker[w], Own(w))
    BY Zenon, <1>0, <1>1, Holder DEF Carrying, Runs
  <2>2. session[Own(w)].generation = Gen(w)
    BY Zenon, <2>1 DEF HeldBy, Gen
  <2>3. PICK s \in Sessions, players \in Int :
          s = session[Own(w)] /\ players = active_players
    BY Zenon, <1>0, <2>1 DEF TypeOK
  <2>4. Disconnect(Own(w), s, players) /\ GoTo(w, "new_release")
    BY Zenon, <1>1, <2>2, <2>3 DEF KickAquiring
  <2>5. /\ shutdown' \in BOOLEAN /\ aborted' \in BOOLEAN
        /\ UNCHANGED << tasks, connections >>
    BY Zenon, <1>0 DEF KickAquiring, TypeOK, pool
  <2> QED
    BY Zenon, <2>1, <2>3, <2>4, <2>5, HolderEnds
<1>2. CASE ~Runs(w, "listener")
  <2>1. Own(w) \in Ids /\ Gen(w) < session[Own(w)].generation
    BY SMTT(30), <1>0, <1>2 DEF WorkerOK, Idle, Own, Gen, Runs
  <2>2. session[Own(w)].generation # Gen(w)
    <3>1. session[Own(w)].generation \in Int
      BY <1>0, <2>1 DEF TypeOK, Sessions, Generations
    <3> QED
      BY <2>1, <3>1
  <2>3. UNCHANGED << session, idList, active_players >> /\ GoTo(w, "inner_release")
    BY Zenon, <1>2, <2>2 DEF KickAquiring
  <2>4. RestOK' /\ UNCHANGED << tasks, connections >>
    BY Zenon, <1>0, <2>3 DEF KickAquiring, TypeOK, RestOK, pool
  <2>5. Quiet
    BY Zenon, <1>0, <2>3, <2>4, QuietSame
  <2>6. \A id \in Ids : ~HeldBy(worker[w], id)
    BY Zenon, <1>0, <1>2 DEF HeldBy, Carrying, CarriesChain, Runs
  <2> QED
    BY Zenon, <1>0, <2>3, <2>4, <2>5, <2>6, BystanderMoves
<1> QED
  BY Zenon, <1>1, <1>2

\* tc_server_shutdown_client_task
LEMMA ShutdownClientStep ==
  ASSUME ServerInv, NEW w \in Workers, ShutdownClient(w)
  PROVE  Kept(w)
<1>1. Own(w) \in Ids /\ HeldBy(worker[w], Own(w))
  BY Zenon, Holder DEF ShutdownClient, At, Carrying, CarriesChain
<1>2. PICK s \in Sessions : s = session[Own(w)]
  BY Zenon, <1>1 DEF ServerInv, TypeOK
<1> QED
  BY Zenon, <1>1, <1>2, KickAndReleaseStep DEF ShutdownClient

\* Nobody connects.
LEMMA AcceptNobodyStep ==
  ASSUME ServerInv, NEW w \in Workers, AcceptNobody(w)
  PROVE  Kept(w)
<1>0. /\ TypeOK
      /\ worker[w].at = "start" /\ worker[w].task.func = "listener"
      /\ WorkerOK(worker[w])
  BY Zenon DEF ServerInv, AcceptNobody, At, Runs
<1>1. \A id \in Ids : ~HeldBy(worker[w], id)
  BY SMTT(30), <1>0, ServerAssumption
     DEF HeldBy, WorkerOK, TaskOK, Idle, Listener, Task, Ids
<1>2. /\ RestOK'
      /\ UNCHANGED << session, idList, connections >>
      /\ Finish(w)
      /\ UNCHANGED tasks \/ tasks' = Scheduled(Listener)
  BY Zenon, <1>0 DEF AcceptNobody, RescheduleListener, TypeOK, RestOK, limits
<1>3. Quiet
  BY Zenon, <1>0, <1>2, QuietSame
<1> QED
  BY Zenon, <1>0, <1>1, <1>2, <1>3, BystanderMoves

\* The slot's generation cannot have moved while the listener waited for its
\* lock: the session is always begun.
LEMMA NewSessionAquireStep ==
  ASSUME ServerInv, NEW w \in Workers, NewSessionAquire(w)
  PROVE  Kept(w)
<1>1. WorkerOK(worker[w]) /\ worker[w].at = "new_aquire"
  BY Zenon DEF ServerInv, NewSessionAquire, At
<1>2. session[Own(w)].generation = Gen(w)
  BY SMTT(30), <1>1 DEF WorkerOK, Idle, Own, Gen
<1>3. session' = [session EXCEPT ![Own(w)] = NewSession(session[Own(w)])]
  BY Zenon, <1>2 DEF NewSessionAquire
<1>4. \A id \in Ids : session'[id].generation = session[id].generation
  <2>1. session \in [Ids -> Sessions]
    BY Zenon DEF ServerInv, TypeOK
  <2>2. \A r : NewSession(r).generation = r.generation
    BY Zenon DEF NewSession, FreshSession
  <2> QED
    BY Zenon, <1>3, <2>1, <2>2
<1> QED
  BY Zenon, <1>2, <1>4, BeginStep DEF Kept, OwnEnds

\* The listen task of a new session is scheduled, or the session is ended now
\* or by the kick that follows.
LEMMA NewSessionScheduleStep ==
  ASSUME ServerInv, NEW w \in Workers, NewSessionSchedule(w)
  PROVE  Kept(w)
<1>0. /\ TypeOK
      /\ worker[w].at = "new_critical" /\ worker[w].task.func = "listener"
      /\ UNCHANGED limits
  BY SMTT(30) DEF ServerInv, NewSessionSchedule, At, WorkerOK, Idle
<1>1. Own(w) \in Ids /\ HeldBy(worker[w], Own(w))
  BY Zenon, <1>0, Holder DEF Carrying, CarriesChain
<1>2. CASE /\ ScheduleNew(w, "listen")
           /\ GoTo(w, "new_release")
           /\ UNCHANGED << session, idList, active_players >>
  <2>1. Quiet /\ RestOK'
    BY Zenon, <1>0, <1>2, QuietSame DEF TypeOK, RestOK, limits
  <2>2. "listen" \in Funcs \ {"listener"}
    BY Zenon DEF Funcs, LockingTasks
  <2>3. tasks' = Scheduled(Task("listen", Own(w), Gen(w)))
    BY Zenon, <1>2 DEF ScheduleNew
  <2> QED
    BY Zenon, <1>1, <1>2, <2>1, <2>2, <2>3, HolderHandsOn
<1>3. CASE /\ GoTo(w, "kick")
           /\ UNCHANGED << session, idList, active_players, tasks >>
  <2>1. Quiet /\ RestOK'
    BY Zenon, <1>0, <1>3, QuietSame DEF TypeOK, RestOK, limits
  <2> QED
    BY Zenon, <1>0, <1>1, <1>3, <2>1, HolderMoves
<1>4. CASE /\ Disconnect(Own(w), session[Own(w)], active_players)
           /\ GoTo(w, "new_release")
           /\ UNCHANGED tasks
  <2>1. PICK s \in Sessions, players \in Int :
          s = session[Own(w)] /\ players = active_players
    BY Zenon, <1>0, <1>1 DEF TypeOK
  <2>2. Disconnect(Own(w), s, players)
    BY Zenon, <1>4, <2>1
  <2>3. /\ shutdown' \in BOOLEAN /\ aborted' \in BOOLEAN
        /\ UNCHANGED << tasks, connections >>
    BY Zenon, <1>0, <1>4 DEF TypeOK, limits
  <2> QED
    BY Zenon, <1>1, <1>4, <2>1, <2>2, <2>3, HolderEnds
<1> QED
  BY Zenon, <1>2, <1>3, <1>4 DEF NewSessionSchedule

\* A client gets an id.
LEMMA AcceptClientStep ==
  ASSUME ServerInv, NEW w \in Workers, AcceptClient(w)
  PROVE  Kept(w)
BY Zenon, AcceptStep DEF Kept, OwnEnds, AcceptClient

\* A worker takes a task.
LEMMA TakeTaskStep ==
  ASSUME ServerInv, NEW w \in Workers, TakeTask(w)
  PROVE  Kept(w)
BY Zenon, TakeStep DEF Kept, OwnEnds, TakeTask

\* A task of the map send hands the chain on or fails.
LEMMA ForwardStep ==
  ASSUME ServerInv, NEW w \in Workers, NEW f \in Funcs \ {"listener"},
         Own(w) \in Ids, HeldBy(worker[w], Own(w)),
         \/ ScheduleNew(w, f) /\ Finish(w)
         \/ GoTo(w, "failed") /\ UNCHANGED tasks,
         UNCHANGED << session, idList, active_players, limits >>
  PROVE  Kept(w)
<1>1. Quiet /\ RestOK'
  BY Zenon, QuietSame DEF ServerInv, TypeOK, RestOK, limits
<1>2. CASE ScheduleNew(w, f) /\ Finish(w)
  BY Zenon, <1>1, <1>2, HolderHandsOn DEF ScheduleNew
<1>3. CASE GoTo(w, "failed") /\ UNCHANGED tasks
  BY Zenon, <1>1, <1>3, HolderMoves
<1> QED
  BY Zenon, <1>2, <1>3

\* A task of the map send gives the lock up, and still holds the chain.
LEMMA ReleaseThenStep ==
  ASSUME ServerInv, NEW w \in Workers, NEW place \in {"failed", "sent"},
         Own(w) \in Ids, HeldBy(worker[w], Own(w)),
         ReleaseThen(w, place)
  PROVE  Kept(w)
<1>1. PICK i \in Ids : i = Own(w)
  BY Zenon
<1>2. /\ session' = [session EXCEPT ![i].locked = FALSE]
      /\ UNCHANGED << idList, connections >>
      /\ RestOK'
      /\ GoTo(w, place) /\ UNCHANGED tasks
  BY Zenon, <1>1 DEF ReleaseThen, ServerInv, TypeOK, RestOK, limits
<1>3. Quiet
  BY Zenon, <1>2, QuietLock DEF ServerInv
<1> QED
  BY Zenon, <1>2, <1>3, HolderMoves

\* A chunk is sent and the next one, or the failure handler, is scheduled.
LEMMA NextChunkStep ==
  ASSUME ServerInv, NEW w \in Workers,
         Own(w) \in Ids, HeldBy(worker[w], Own(w)),
         ScheduleNext(w, "send_buffer", "send_failure"),
         Finish(w),
         UNCHANGED << session, idList, active_players, limits >>
  PROVE  Kept(w)
<1>1. Quiet /\ RestOK'
  BY Zenon, QuietSame DEF ServerInv, TypeOK, RestOK, limits
<1>2. PICK f \in Funcs \ {"listener"} : tasks' = Scheduled(Task(f, Own(w), Gen(w)))
  BY DEF ScheduleNext, Funcs
<1> QED
  BY Zenon, <1>1, <1>2, HolderHandsOn

\* The tasks of the map send, from the load to the end of the level.
LEMMA SendingMapStep ==
  ASSUME ServerInv, NEW w \in Workers, SendingMap(w)
  PROVE  Kept(w)
<1>1. Own(w) \in Ids /\ HeldBy(worker[w], Own(w))
  <2>1. Carrying(worker[w])
    BY Zenon DEF SendingMap, LoadMap, CompressMap, SendMap2, SendBuffer,
           SendBufferFailure, MapSent, Spawn, At, Carrying, CarriesChain
  <2>2. worker[w].at = "start" => worker[w].task.func \in Serving
    BY Zenon DEF SendingMap, LoadMap, CompressMap, SendMap2, SendBuffer,
           SendBufferFailure, MapSent, Spawn, At, Runs, Serving, Funcs
  <2> QED
    BY Zenon, <2>1, <2>2, Holder
<1>2. {"compress", "send_map2", "spawn"} \subseteq Funcs \ {"listener"}
  BY Zenon DEF Funcs, LockingTasks
<1>3. CASE LoadMap(w)
  BY Zenon, <1>1, <1>2, <1>3, ForwardStep DEF LoadMap
<1>4. CASE CompressMap(w)
  BY Zenon, <1>1, <1>2, <1>4, ForwardStep DEF CompressMap
<1>5. CASE SendMap2(w)
  BY Zenon, <1>1, <1>5, ReleaseThenStep, NextChunkStep DEF SendMap2
<1>6. CASE SendBuffer(w)
  BY Zenon, <1>1, <1>6, ReleaseThenStep, NextChunkStep DEF SendBuffer
<1>7. CASE SendBufferFailure(w)
  BY Zenon, <1>1, <1>7, ReleaseThenStep DEF SendBufferFailure
<1>8. CASE MapSent(w)
  BY Zenon, <1>1, <1>2, <1>8, ForwardStep DEF MapSent
<1>9. CASE Spawn(w)
  <2>1. PICK i \in Ids : i = Own(w)
    BY Zenon, <1>1
  <2>2. /\ session' = [session EXCEPT ![i].locked = FALSE]
        /\ UNCHANGED << idList, connections >>
        /\ RestOK'
        /\ Finish(w)
    BY Zenon, <1>9, <2>1 DEF Spawn, ServerInv, TypeOK, RestOK, limits
  <2>3. Quiet
    BY Zenon, <2>2, QuietLock DEF ServerInv
  <2>4. PICK f \in Funcs \ {"listener"} : tasks' = Scheduled(Task(f, Own(w), Gen(w)))
    BY <1>9 DEF Spawn, ScheduleNext, Funcs, LockingTasks
  <2> QED
    BY Zenon, <1>1, <2>2, <2>3, <2>4, HolderHandsOn
<1> QED
  BY Zenon, <1>3, <1>4, <1>5, <1>6, <1>7, <1>8, <1>9 DEF SendingMap

\* Every step of a worker.
LEMMA WorkerStepKept ==
  ASSUME ServerInv, NEW w \in Workers, WorkerStep(w)
  PROVE  Kept(w)
<1>1. CASE TakeTask(w)
  BY Zenon, <1>1, TakeTaskStep
<1>2. CASE Accepting(w)
  BY Zenon, <1>2, AcceptNobodyStep, AcceptClientStep, NewSessionAquireStep,
     NewSessionScheduleStep, ReleaseStep DEF Accepting
<1>3. CASE Handling(w)
  BY Zenon, <1>3, ClientListenStep, PlayerIdentificationStep, BeginCpeNegotiationStep,
     CpeExtInfoStep, CpeExtEntryStep, KickedListenStep, SupportLevelStep,
     PlayerActionStep, FinalizeEndStep DEF Handling
<1>4. CASE SendingMap(w)
  BY Zenon, <1>4, SendingMapStep
<1>5. CASE Locking(w)
  BY Zenon, <1>5, AquireActionLockStep, ReleaseStep, KickUnlockedStep, KickAquiringStep,
     ShutdownClientStep DEF Locking
<1> QED
  BY Zenon, <1>1, <1>2, <1>3, <1>4, <1>5 DEF WorkerStep

\* The connection of a client breaks, or the server is stopped.
LEMMA OutsideStep ==
  ASSUME ServerInv, Stop \/ \E id \in Ids : ConnectionReset(id)
  PROVE  ServerInv' /\ Quiet
<1>0. TypeOK
  BY Zenon DEF ServerInv
<1>1. CASE Stop
  <2>1. Quiet
    BY Zenon, <1>0, <1>1, QuietSame DEF Stop
  <2> QED
    BY Zenon, <1>0, <1>1, <2>1, NoStep DEF Stop, TypeOK, RestOK
<1>2. ASSUME NEW id \in Ids, ConnectionReset(id)
      PROVE  ServerInv' /\ Quiet
  <2>1. PICK r : r = [session[id] EXCEPT !.reset = TRUE]
    BY Zenon
  <2>2. session[id] \in Sessions
    BY Zenon, <1>0 DEF TypeOK
  <2>3. /\ r \in Sessions
        /\ r.generation = session[id].generation /\ r.connected = session[id].connected
    BY Zenon, <2>1, <2>2 DEF Sessions
  <2>4. /\ session' = [session EXCEPT ![id] = r]
        /\ UNCHANGED << idList, active_players, tasks, worker, limits >>
    BY Zenon, <1>2, <2>1 DEF ConnectionReset
  <2>5. Quiet
    BY Zenon, <1>0, <2>3, <2>4, QuietEdit DEF limits
  <2> QED
    BY Zenon, <1>0, <2>4, <2>5, NoStep DEF TypeOK, RestOK, limits
<1> QED
  BY Zenon, <1>1, <1>2

\* Nobody is connected at first and id_buffer lists every slot.
LEMMA InitInv ==
  Init => ServerInv
<1> SUFFICES ASSUME Init PROVE ServerInv
  BY Zenon
<1>0. MaxSessions \in Nat \ {0} /\ MaxConnections \in Nat
  BY Zenon, ServerAssumption
<1>1. /\ Listener \in Tasks /\ Idle \in WorkerStates /\ Idle.at = "idle"
      /\ Listener.id = -1
  BY Zenon DEF Listener, Idle, Task, Tasks, Funcs, WorkerStates, Places
<1>2. FreshSession \in Sessions /\ FreshSession.generation = 0 /\ ~FreshSession.connected
  BY <1>0 DEF FreshSession, Sessions, Generations
<1>3. IsQueue(tasks) /\ DOMAIN tasks = {Listener}
  BY DEF Init, IsQueue
<1>4. TypeOK
  <2>1. id_buffer \in [Ids -> Ids] /\ id_buffer_head \in 0..MaxSessions
    BY <1>0 DEF Init
  <2>2. session \in [Ids -> Sessions] /\ worker \in [Workers -> WorkerStates]
    BY Zenon, <1>1, <1>2 DEF Init
  <2>3. active_players \in Int /\ connections \in 0..MaxConnections
    BY <1>0 DEF Init
  <2>4. DOMAIN tasks \subseteq Tasks
    BY Zenon, <1>1, <1>3
  <2>5. shutdown \in BOOLEAN /\ aborted \in BOOLEAN
    BY Zenon DEF Init
  <2> QED
    BY Zenon, <1>3, <2>1, <2>2, <2>3, <2>4, <2>5 DEF TypeOK, WorkerStates
<1>5. \A w \in Workers : WorkerOK(worker[w])
  BY Zenon DEF Init, WorkerOK
<1>6. \A t \in DOMAIN tasks : TaskOK(t)
  BY Zenon, <1>3 DEF TaskOK
<1>7. ASSUME NEW id \in Ids
      PROVE  ChainOK(id)
  <2>1. \A w \in Workers : ~HeldBy(worker[w], id)
    BY Zenon, <1>1 DEF Init, HeldBy, Carrying, CarriesChain
  <2>2. \A t \in DOMAIN tasks : ~WaitsAs(t, id)
    BY <1>0, <1>1, <1>3 DEF WaitsAs, Ids
  <2>3. ~session[id].connected
    BY Zenon, <1>2 DEF Init
  <2> QED
    BY Zenon, <2>1, <2>2, <2>3 DEF ChainOK
<1>8. ASSUME NEW id \in Ids
      PROVE  SlotOK(id)
  <2>1. \A w \in Workers : ~TakenBy(worker[w], id)
    BY Zenon, <1>1 DEF Init, TakenBy
  <2>2. Free(id) /\ \A i \in Ids : id_buffer[i] = i
    BY <1>0 DEF Init, Free, Ids
  <2>3. ~session[id].connected /\ session[id].generation = 0 /\ connections = 0
    BY Zenon, <1>2 DEF Init
  <2> QED
    BY <2>1, <2>2, <2>3 DEF SlotOK
<1>9. Seats
  <2>1. \A id \in Ids : Free(id)
    BY <1>0 DEF Init, Free, Ids
  <2>2. PICK seat : seat = [id \in { j \in Ids : ~Free(j) } |-> 0]
    BY Zenon
  <2>3. seat \in [{ id \in Ids : ~Free(id) } -> { n \in Ids : n < id_buffer_head }]
    BY Zenon, <2>1, <2>2
  <2> QED
    BY Zenon, <2>1, <2>3 DEF Seats
<1> QED
  BY Zenon, <1>4, <1>5, <1>6, <1>7, <1>8, <1>9 DEF ServerInv

-----------------------------------------------------------------------------
(* What follows from the invariant *)

\* The unused part of id_buffer lists each free id once.
LEMMA InvIds ==
  ServerInv => IdsExact
<1> SUFFICES ASSUME ServerInv PROVE IdsExact
  BY Zenon
<1>0. /\ MaxSessions \in Nat \ {0}
      /\ id_buffer \in [Ids -> Ids]
      /\ id_buffer_head \in 0..MaxSessions
      /\ \A id \in Ids : SlotOK(id)
      /\ \A w \in Workers : WorkerOK(worker[w])
  BY Zenon, ServerAssumption DEF ServerInv, TypeOK
<1>1. id_buffer_head..(MaxSessions - 1) = { i \in Ids : i >= id_buffer_head }
  BY <1>0 DEF Ids
<1>2. FreeIds = { id \in Ids : Free(id) }
  BY Zenon, <1>0, <1>1 DEF FreeIds, Free
<1>3. \A i, j \in id_buffer_head..(MaxSessions - 1) :
        id_buffer[i] = id_buffer[j] => i = j
  BY Zenon, <1>0, <1>1 DEF SlotOK
<1>4. TakenId = { id \in Ids : \E w \in Workers : TakenBy(worker[w], id) }
  <2>1. ASSUME NEW w \in Workers, worker[w].at = "new_aquire"
        PROVE  Own(w) \in Ids
    BY <1>0, <2>1 DEF WorkerOK, Idle, Own
  <2>2. \A id : id \in TakenId <=>
                 \E w \in Workers : worker[w].at = "new_aquire" /\ Own(w) = id
    BY Zenon DEF TakenId
  <2>3. \A id : id \in TakenId => id \in Ids
    BY Zenon, <2>1, <2>2
  <2>4. \A id : id \in TakenId <=> \E w \in Workers : TakenBy(worker[w], id)
    BY Zenon, <2>2 DEF TakenBy, Own
  <2> QED
    BY Zenon, <2>3, <2>4
<1>5. FreeIds \cup TakenId = { id \in Ids : ~session[id].connected }
  BY Zenon, <1>0, <1>2, <1>4 DEF SlotOK
<1>6. FreeIds \cap TakenId = {}
  BY Zenon, <1>0, <1>2, <1>4 DEF SlotOK
<1> QED
  BY Zenon, <1>3, <1>5, <1>6 DEF IdsExact

\* A connected slot's chain has one holder, a disconnected one's has none.
LEMMA InvChain ==
  ServerInv => OneChain
<1> SUFFICES ASSUME ServerInv, NEW id \in Ids
             PROVE  IF session[id].connected
                    THEN \/ /\ Queued(id) = {}
                            /\ \E w \in Workers : Carriers(id) = {w}
                         \/ /\ Carriers(id) = {}
                            /\ \E t \in Queued(id) : Queued(id) = {t} /\ tasks[t] = 1
                    ELSE Carriers(id) = {} /\ Queued(id) = {}
  BY Zenon DEF OneChain
<1>1. Carriers(id) = { w \in Workers : HeldBy(worker[w], id) }
  <2>1. ASSUME NEW w \in Workers
        PROVE  worker[w].task = Task(worker[w].task.func, id, session[id].generation)
                 <=> /\ worker[w].task.id = id
                     /\ worker[w].task.generation = session[id].generation
    BY DEF ServerInv, TypeOK, Tasks, Task
  <2> QED
    BY Zenon, <2>1 DEF Carriers, HeldBy, Carrying, Runs
<1>2. Queued(id) = { t \in DOMAIN tasks : WaitsAs(t, id) }
  BY Zenon DEF Queued, WaitsAs
<1>3. ChainOK(id)
  BY Zenon DEF ServerInv
<1>4. CASE session[id].connected
  <2>1. CASE \E w \in Workers : HeldBy(worker[w], id)
    <3>1. PICK w \in Workers : HeldBy(worker[w], id)
      BY Zenon, <2>1
    <3>2. Carriers(id) = {w}
      BY Zenon, <1>1, <1>3, <3>1 DEF ChainOK
    <3>3. Queued(id) = {}
      BY Zenon, <1>2, <1>3, <3>1 DEF ChainOK
    <3> QED
      BY Zenon, <1>4, <3>2, <3>3
  <2>2. CASE ~ \E w \in Workers : HeldBy(worker[w], id)
    <3>1. PICK t \in DOMAIN tasks : WaitsAs(t, id)
      BY Zenon, <1>3, <1>4, <2>2 DEF ChainOK
    <3>2. Carriers(id) = {}
      BY Zenon, <1>1, <2>2
    <3>3. Queued(id) = {t} /\ tasks[t] = 1
      BY Zenon, <1>2, <1>3, <3>1 DEF ChainOK
    <3> QED
      BY Zenon, <1>4, <3>2, <3>3
  <2> QED
    BY Zenon, <2>1, <2>2
<1>5. CASE ~session[id].connected
  <2>1. Carriers(id) = {}
    BY Zenon, <1>1, <1>3, <1>5 DEF ChainOK
  <2>2. Queued(id) = {}
    BY Zenon, <1>2, <1>3, <1>5 DEF ChainOK
  <2> QED
    BY Zenon, <1>5, <2>1, <2>2
<1> QED
  BY Zenon, <1>4, <1>5

-----------------------------------------------------------------------------
(* The theorems *)

\* Every step, of a worker or from outside, keeps the invariant.
LEMMA NextInv ==
  ServerInv /\ [Next]_vars => ServerInv'
<1> SUFFICES ASSUME ServerInv, [Next]_vars PROVE ServerInv'
  BY Zenon
<1>1. CASE UNCHANGED vars
  <2>1. UNCHANGED << session, idList, connections, worker, tasks >> /\ RestOK'
    BY Zenon, <1>1 DEF vars, idList, ServerInv, TypeOK, RestOK
  <2>2. Quiet
    BY Zenon, <2>1, QuietSame DEF ServerInv
  <2> QED
    BY Zenon, <2>1, <2>2, NoStep
<1>2. CASE \E w \in Workers : WorkerStep(w)
  BY Zenon, <1>2, WorkerStepKept DEF Kept
<1>3. CASE Stop \/ \E id \in Ids : ConnectionReset(id)
  BY Zenon, <1>3, OutsideStep
<1> QED
  BY Zenon, <1>1, <1>2, <1>3 DEF Next

\* The invariant ServerInv is inductive: the server starts in it, and every step
\* of a worker, of the program that stops the server and of the network keeps it.
THEOREM ServerInvariant ==
  Spec => []ServerInv
<1>1. Init => ServerInv
  BY Zenon, InitInv
<1>2. ServerInv /\ [Next]_vars => ServerInv'
  BY Zenon, NextInv
<1> QED
  BY <1>1, <1>2, PTL DEF Spec

\* The server's state has its types, for every number of workers, slots and
\* clients.
THEOREM ServerTypes ==
  Spec => []TypeOK
<1>1. ServerInv => TypeOK
  BY Zenon DEF ServerInv
<1> QED
  BY <1>1, ServerInvariant, PTL

\* The free list and the sessions share out the ids: none is lost when a
\* session ends, and none is given out twice.
THEOREM IdsAreExact ==
  Spec => []IdsExact
BY InvIds, ServerInvariant, PTL

\* A connected session has exactly one chain of tasks, queued or running, in
\* every order in which the workers run them.
THEOREM EveryClientHasOneChain ==
  Spec => []OneChain
BY InvChain, ServerInvariant, PTL

\* Only the chain of a session ends it: a task that is late for a session that
\* is gone never disconnects the one that has its id now.
THEOREM OwnChainDisconnects ==
  Spec => OnlyOwnChainDisconnects
<1> DEFINE Own1 == \A id \in Ids :
                    session'[id].generation # session[id].generation =>
                      \E w \in Workers :
                        /\ worker'[w] # worker[w]
                        /\ Own(w) = id /\ Gen(w) = session[id].generation
<1>1. ServerInv /\ [Next]_vars => [Own1]_vars
  <2> SUFFICES ASSUME ServerInv, Next PROVE Own1
    BY Zenon
  <2>1. ASSUME NEW w \in Workers, WorkerStep(w)
        PROVE  Own1
    <3>1. OwnEnds(w)
      BY Zenon, <2>1, WorkerStepKept DEF Kept
    <3> QED
      BY Zenon, <3>1 DEF OwnEnds
  <2>2. CASE Stop \/ \E id \in Ids : ConnectionReset(id)
    <3>1. Quiet
      BY Zenon, <2>2, OutsideStep
    <3> QED
      BY Zenon, <3>1 DEF Quiet
  <2> QED
    BY Zenon, <2>1, <2>2 DEF Next
<1>2. Spec => [][Own1]_vars
  BY <1>1, ServerInvariant, PTL DEF Spec
<1> QED
  BY Zenon, <1>2 DEF OnlyOwnChainDisconnects
=============================================================================
