------------------------ MODULE ServerControlProofs -------------------------
(***************************************************************************)
(* The life of the server object, for any number of worker threads: what   *)
(* is allocated at each step of its initialisation is what the clean-up    *)
(* that starts there frees, once, or one of two things that are left, and  *)
(* workers that serve clients lose nothing they use.  Then the manager of  *)
(* heartbeats that a server owns (Heartbeat).                              *)
(***************************************************************************)
EXTENDS ServerControl, WellFoundedInduction, TLAPS

-----------------------------------------------------------------------------
(* The inductive invariant *)

Ops == Plain \cup {"stop_pool", "stop_heartbeat", "finalize_pool", "finalize_heartbeat"}

\* The operation that frees a resource.
Freeing(r) == CASE r = "pool" -> "finalize_pool"
                [] r = "heartbeat" -> "finalize_heartbeat"
                [] OTHER -> r

\* A clean-up: no operation comes twice, and what it frees is l.
CleansUp(s, l) ==
  /\ s \in Seq(Ops)
  /\ \A i, j \in DOMAIN s : s[i] = s[j] => i = j
  /\ \A r \in Parts : r \in l <=> \E i \in DOMAIN s : s[i] = Freeing(r)

\* What may be left of it: run_server's joinables when the server has not been
\* started, and the backlogs of opened maps.
Kept == IF serving THEN {"backlogs"} ELSE {"joinables"}

\* The clean-up that is being worked off frees all that is live, but for that.
Cleaning == \E k \in SUBSET live : CleansUp(todo, k) /\ live \ k \subseteq Kept

\* The listener was refused and the server never started: its finalization
\* waits for workers that nobody told to stop, before it frees anything.
Stuck ==
  ~started /\ ~shutdown /\ todo \in Seq(Ops) /\ todo # << >> /\ Head(todo) = "finalize_pool"

Born == \E t \in Threads : thread[t] # "none"

\* There are tasks, waiting or running.
Working == queued # 0 \/ \E t \in Threads : thread[t] \in {"busy", "stuck"}

\* What is allocated when run_server is at a step.
LiveAt(m) ==
  CASE m = "address" -> {"joinables"}
    [] m = "socket" -> {"joinables", "address"}
    [] m = "bind" -> {"joinables", "address", "socket"}
    [] m = "pool" -> {"joinables", "address", "socket"} \cup (IF Born THEN {"pool"} ELSE {})
    [] m = "heartbeat" -> {"joinables", "address", "socket", "pool"}
    [] m = "cache" -> {"joinables", "address", "socket", "pool", "heartbeat"}
    [] m = "router" -> {"joinables", "address", "socket", "pool", "heartbeat", "cache"}
    [] m = "lock" -> Parts \ {"lock", "locks"}
    [] m = "locks" -> Parts \ {"locks"}
    [] m \in {"start", "serve"} -> Parts
    [] OTHER -> {}

\* Only the two flags come before the joining of the workers.
Undrained ==
  \E k \in DOMAIN todo :
    /\ todo[k] = "finalize_pool"
    /\ \A i \in DOMAIN todo : i < k => todo[i] \in {"stop_pool", "stop_heartbeat"}

ControlInv ==
  /\ TypeOK
  /\ (\E t \in Threads : thread[t] = "exited") => shutdown
  /\ shutdown => main \in {"undo", "returned", "aborted"}
  /\ main \in {"address", "socket", "bind"} => ~Born
  /\ "backlogs" \in live \/ Working => serving
  /\ main \in DOMAIN Steps \cup {"start", "serve"} => live \ {"backlogs"} = LiveAt(main)
  /\ main = "finalize" =>
       \/ live \ {"backlogs"} = Parts
       \/ ~started /\ live = Parts \ {"socket"}
  /\ main = "undo" => Cleaning \/ Stuck
  /\ main = "returned" => live \subseteq Kept
  /\ ~freed_twice
  /\ serving => started /\ main \in {"serve", "finalize", "undo", "returned", "aborted"}
  /\ serving /\ main = "undo" /\ Running => Undrained
  /\ serving /\ main \in {"undo", "aborted"} /\ Running => Parts \subseteq live
  /\ serving /\ main = "returned" => ~Running

-----------------------------------------------------------------------------
(* Clean-ups *)

\* The resources and the operations that free them, one to one.
LEMMA FreeingOne ==
  /\ Freeing("pool") = "finalize_pool" /\ Freeing("heartbeat") = "finalize_heartbeat"
  /\ \A r \in Plain : Freeing(r) = r
  /\ \A r, q \in Parts : Freeing(r) = Freeing(q) => r = q
  /\ \A r \in Parts : Freeing(r) \notin {"stop_pool", "stop_heartbeat"}
BY DEF Freeing, Parts, Plain

\* Working off the first operation of a clean-up.
LEMMA TailCleans ==
  ASSUME NEW s, NEW l, NEW m, CleansUp(s, l), s # << >>,
         \A r \in Parts : r \in m <=> r \in l /\ Freeing(r) # Head(s)
  PROVE  CleansUp(Tail(s), m)
<1>1. /\ s \in Seq(Ops) /\ Len(s) \in Nat /\ Len(s) > 0 /\ Head(s) = s[1]
      /\ Tail(s) \in Seq(Ops)
      /\ DOMAIN s = 1..Len(s) /\ DOMAIN Tail(s) = 1..(Len(s) - 1)
      /\ \A i \in 1..(Len(s) - 1) : Tail(s)[i] = s[i + 1]
  BY DEF CleansUp
<1>2. ASSUME NEW i \in DOMAIN Tail(s), NEW j \in DOMAIN Tail(s), Tail(s)[i] = Tail(s)[j]
      PROVE  i = j
  <2>1. i \in Int /\ j \in Int /\ i + 1 \in DOMAIN s /\ j + 1 \in DOMAIN s /\ s[i + 1] = s[j + 1]
    BY <1>1, <1>2
  <2>2. i + 1 = j + 1
    BY <2>1, Zenon DEF CleansUp
  <2> QED
    BY <2>1, <2>2
<1>3. ASSUME NEW r \in Parts
      PROVE  r \in m <=> \E i \in DOMAIN Tail(s) : Tail(s)[i] = Freeing(r)
  <2>1. ASSUME r \in m PROVE \E i \in DOMAIN Tail(s) : Tail(s)[i] = Freeing(r)
    <3>1. PICK i \in DOMAIN s : s[i] = Freeing(r)
      BY <2>1, Zenon DEF CleansUp
    <3>2. i # 1
      BY <1>1, <2>1, <3>1, Zenon
    <3>3. i - 1 \in DOMAIN Tail(s) /\ Tail(s)[i - 1] = s[i]
      BY <1>1, <3>2
    <3> QED
      BY <3>1, <3>3, Zenon
  <2>2. ASSUME NEW i \in DOMAIN Tail(s), Tail(s)[i] = Freeing(r) PROVE r \in m
    <3>1. i + 1 \in DOMAIN s /\ 1 \in DOMAIN s /\ i + 1 # 1 /\ s[i + 1] = Freeing(r)
      BY <1>1, <2>2
    <3>2. s[1] # s[i + 1]
      BY <3>1, Zenon DEF CleansUp
    <3>3. r \in l
      BY <3>1, Zenon DEF CleansUp
    <3> QED
      BY <1>1, <3>1, <3>2, <3>3, Zenon
  <2> QED
    BY <2>1, <2>2
<1> QED
  BY <1>1, <1>2, <1>3, Zenon DEF CleansUp

\* Nothing to do, and nothing allocated.
LEMMA NothingToClean == CleansUp(<< >>, {})
BY DEF CleansUp

\* When all has been worked off, no part is live.
LEMMA AllCleaned ==
  ASSUME NEW l, CleansUp(<< >>, l), NEW r \in l
  PROVE  r \notin Parts
BY DEF CleansUp

\* The undoing of each step of the initialisation frees what was allocated
\* before it, the joinables only when there was a router.
LEMMA UndoCleans ==
  /\ CleansUp(Steps.address.undo, {})
  /\ CleansUp(Steps.socket.undo, {"address"})
  /\ CleansUp(Steps.bind.undo, {"address", "socket"})
  /\ CleansUp(Steps.pool.undo, {"address", "socket"})
  /\ CleansUp(Steps.heartbeat.undo, {"address", "socket", "pool"})
  /\ CleansUp(Steps.cache.undo, {"address", "socket", "pool", "heartbeat"})
  /\ CleansUp(Steps.router.undo, {"address", "socket", "pool", "heartbeat", "cache"})
  /\ CleansUp(Steps.lock.undo, Parts \ {"lock", "locks"})
  /\ CleansUp(Steps.locks.undo, Parts \ {"locks"})
<1> USE DEF CleansUp, Ops, Plain, Parts, Freeing
<1>1. CleansUp(<< "address" >>, {"address"})
  OBVIOUS
<1>2. CleansUp(<< "socket", "address" >>, {"address", "socket"})
  OBVIOUS
<1>3. CleansUp(<< "stop_pool", "finalize_pool", "socket", "address" >>,
               {"address", "socket", "pool"})
  OBVIOUS
<1>4. CleansUp(Undo(<< >>), {"address", "socket", "pool", "heartbeat"})
  BY DEF Undo
<1>5. CleansUp(Undo(<< "cache" >>), {"address", "socket", "pool", "heartbeat", "cache"})
  BY DEF Undo
<1>6. CleansUp(Undo(<< "cache" >> \o Router), Parts \ {"lock", "locks"})
  <2> DEFINE s == Undo(<< "cache" >> \o Router)
  <2>1. /\ s \in Seq(Ops) /\ DOMAIN s = 1..8
        /\ s[1] = "stop_pool" /\ s[2] = "finalize_pool" /\ s[3] = "socket" /\ s[4] = "address"
        /\ s[5] = "finalize_heartbeat" /\ s[6] = "cache" /\ s[7] = "joinables"
        /\ s[8] = "router"
    BY DEF Undo, Router
  <2>2. 1..8 = {1, 2, 3, 4, 5, 6, 7, 8}
    OBVIOUS
  <2> HIDE DEF s
  <2>3. \A i, j \in DOMAIN s : s[i] = s[j] => i = j
    BY <2>1, <2>2, SMTT(30)
  <2>4. \A r \in Parts : r \in Parts \ {"lock", "locks"} => \E i \in DOMAIN s : s[i] = Freeing(r)
    BY <2>1, <2>2, SMTT(30)
  <2>5. \A r \in Parts : (\E i \in DOMAIN s : s[i] = Freeing(r)) => r \in Parts \ {"lock", "locks"}
    BY <2>1, <2>2, SMTT(30)
  <2>6. CleansUp(s, Parts \ {"lock", "locks"})
    BY <2>1, <2>3, <2>4, <2>5, Zenon DEF CleansUp
  <2> QED
    BY <2>6 DEF s
<1>7. CleansUp(Undo(<< "cache" >> \o Router \o << "lock" >>), Parts \ {"locks"})
  <2> DEFINE s == Undo(<< "cache" >> \o Router \o << "lock" >>)
  <2>1. /\ s \in Seq(Ops) /\ DOMAIN s = 1..9
        /\ s[1] = "stop_pool" /\ s[2] = "finalize_pool" /\ s[3] = "socket" /\ s[4] = "address"
        /\ s[5] = "finalize_heartbeat" /\ s[6] = "cache" /\ s[7] = "joinables"
        /\ s[8] = "router" /\ s[9] = "lock"
    BY DEF Undo, Router
  <2>2. 1..9 = {1, 2, 3, 4, 5, 6, 7, 8, 9}
    OBVIOUS
  <2> HIDE DEF s
  <2>3. \A i, j \in DOMAIN s : s[i] = s[j] => i = j
    BY <2>1, <2>2, SMTT(30)
  <2>4. \A r \in Parts : r \in Parts \ {"locks"} => \E i \in DOMAIN s : s[i] = Freeing(r)
    BY <2>1, <2>2, SMTT(30)
  <2>5. \A r \in Parts : (\E i \in DOMAIN s : s[i] = Freeing(r)) => r \in Parts \ {"locks"}
    BY <2>1, <2>2, SMTT(30)
  <2>6. CleansUp(s, Parts \ {"locks"})
    BY <2>1, <2>3, <2>4, <2>5, Zenon DEF CleansUp
  <2> QED
    BY <2>6 DEF s
<1> HIDE DEF CleansUp, Ops, Plain, Parts, Freeing
<1> QED
  BY <1>1, <1>2, <1>3, <1>4, <1>5, <1>6, <1>7, NothingToClean DEF Steps

\* tc_server_finalize frees all that a started server has.
LEMMA FinalizeCleans ==
  ASSUME started \in BOOLEAN
  PROVE  CleansUp(FinalizeList, Parts)
<1> DEFINE s == FinalizeList
           n == IF started THEN 2 ELSE 0
<1>1. /\ s \in Seq(Ops) /\ DOMAIN s = 1..(n + 9)
      /\ started => s[1] = "stop_heartbeat" /\ s[2] = "stop_pool"
      /\ s[n + 1] = "finalize_pool" /\ s[n + 2] = "finalize_heartbeat"
      /\ s[n + 3] = "address" /\ s[n + 4] = "socket" /\ s[n + 5] = "lock"
      /\ s[n + 6] = "joinables" /\ s[n + 7] = "router" /\ s[n + 8] = "cache"
      /\ s[n + 9] = "locks"
  <2>1. CASE started
    BY <2>1 DEF FinalizeList, Stopping, Router, Ops, Plain
  <2>2. CASE ~started
    BY <2>2 DEF FinalizeList, Stopping, Router, Ops, Plain
  <2> QED
    BY <2>1, <2>2
<1>2. n \in {0, 2} /\ (n = 2 <=> started)
  OBVIOUS
<1> HIDE DEF s, n
<1>3. \A i \in DOMAIN s :
        \/ n = 2 /\ i \in {1, 2}
        \/ i \in {n + 1, n + 2, n + 3, n + 4, n + 5, n + 6, n + 7, n + 8, n + 9}
  BY <1>1, <1>2
<1>4. \A i, j \in DOMAIN s : s[i] = s[j] => i = j
  BY SMTT(30), <1>1, <1>2, <1>3
<1>5. ASSUME NEW r \in Parts
      PROVE  \E i \in DOMAIN s : s[i] = Freeing(r)
  BY SMTT(30), <1>1, <1>2 DEF Parts, Plain, Freeing
<1>6. CleansUp(s, Parts)
  BY <1>1, <1>4, <1>5, Zenon DEF CleansUp
<1> QED
  BY <1>6 DEF s

\* The two flags are raised before the workers are joined, and the joining
\* comes first when the server was not started.
LEMMA FinalizeOrder ==
  ASSUME started \in BOOLEAN, todo' = FinalizeList
  PROVE  /\ started => Undrained'
         /\ ~started => /\ todo' \in Seq(Ops) /\ todo' # << >>
                       /\ Head(todo') = "finalize_pool"
<1>1. ASSUME started
      PROVE  Undrained'
  <2>1. /\ DOMAIN todo' = 1..11 /\ todo'[1] = "stop_heartbeat" /\ todo'[2] = "stop_pool"
        /\ todo'[3] = "finalize_pool"
    BY <1>1 DEF FinalizeList, Stopping, Router
  <2>2. 3 \in 1..11 /\ \A i \in 1..11 : i < 3 => i = 1 \/ i = 2
    OBVIOUS
  <2> QED
    BY <2>1, <2>2, Zenon DEF Undrained
<1>2. ASSUME ~started
      PROVE  todo' \in Seq(Ops) /\ todo' # << >> /\ Head(todo') = "finalize_pool"
  BY <1>2 DEF FinalizeList, Stopping, Router, Ops, Plain
<1> QED
  BY <1>1, <1>2

-----------------------------------------------------------------------------
(* The steps *)

\* The table of the initialisation's steps.
LEMMA StepTable ==
  /\ DOMAIN Steps = {"address", "socket", "bind", "pool", "heartbeat", "cache", "router",
                     "lock", "locks"}
  /\ Steps["address"].next = "socket" /\ Steps["socket"].next = "bind"
  /\ Steps["bind"].next = "pool" /\ Steps["cache"].next = "router"
  /\ Steps["router"].next = "lock" /\ Steps["lock"].next = "locks"
  /\ Steps["locks"].next = "start"
BY DEF Steps

\* A step that succeeds adds what it allocates.
LEMMA SucceedsStep ==
  ASSUME ControlInv, StepSucceeds
  PROVE  ControlInv'
<1>1. /\ main \in {"address", "socket", "bind", "cache", "router", "lock", "locks"}
      /\ live' = live \cup ({main} \ {"bind"})
      /\ main' = Steps[main].next
      /\ UNCHANGED << todo, freed_twice, thread, queued, shutdown, heartbeat, hb_started,
                      hb_shutdown, started, serving >>
  BY StepTable DEF StepSucceeds, InitStep, threadVars
<1>2. /\ main' \in DOMAIN Steps \cup {"start"}
      /\ main' \in {"socket", "bind", "pool", "router", "lock", "locks", "start"}
      /\ main' \in {"socket", "bind", "pool"} => main \in {"address", "socket", "bind"}
  BY <1>1, StepTable
<1>3. ~shutdown /\ ~serving /\ live = LiveAt(main) /\ TypeOK /\ ~Working /\ "backlogs" \notin live
  BY <1>1, StepTable DEF ControlInv
<1>4. Born' = Born /\ (main \in {"address", "socket", "bind"} => ~Born) /\ Working' = Working
  BY <1>1, Zenon DEF Born, Working, ControlInv
<1>5. live' = LiveAt(main)' /\ "backlogs" \notin live'
  BY <1>1, <1>3, <1>4, StepTable DEF LiveAt, Parts, Plain
<1>6. TypeOK'
  <2>1. live' \subseteq Resources
    BY <1>1, <1>3 DEF TypeOK, Resources, Parts, Plain
  <2> QED
    BY <1>1, <1>2, <1>3, <2>1, Zenon DEF TypeOK
<1> QED
  BY <1>1, <1>2, <1>3, <1>4, <1>5, <1>6 DEF ControlInv

\* Operations of a clean-up are operations of the type.
LEMMA OpsTyped ==
  ASSUME NEW s \in Seq(Ops)
  PROVE  s \in Seq(Plain \cup {"stop_pool", "stop_heartbeat", "finalize_pool",
                              "finalize_heartbeat"})
BY DEF Ops

\* A step that fails starts the undoing of those before it.
LEMMA FailsStep ==
  ASSUME ControlInv, StepFails
  PROVE  ControlInv'
<1>1. /\ main \in {"address", "socket", "bind", "pool", "heartbeat", "cache", "router", "lock",
                   "locks"}
      /\ main = "pool" => ~Born
      /\ main' = "undo"
      /\ todo' = Steps[main].undo
      /\ UNCHANGED << live, freed_twice, thread, queued, shutdown, heartbeat, hb_started,
                      hb_shutdown, started, serving >>
  BY StepTable DEF StepFails, InitStep, threadVars, Born
<1>2. ~shutdown /\ ~serving /\ live = LiveAt(main) /\ TypeOK /\ ~Working /\ "backlogs" \notin live
  BY <1>1, StepTable DEF ControlInv
<1>3. PICK k \in SUBSET live : CleansUp(todo', k) /\ live \ k \subseteq {"joinables"}
  <2>1. \/ /\ main \in {"address", "socket", "bind", "pool", "heartbeat", "cache", "router"}
           /\ CleansUp(todo', live \ {"joinables"})
        \/ CleansUp(todo', live)
    <3>1. CASE main = "address"
      <4>1. live \ {"joinables"} = {}
        BY <1>2, <3>1 DEF LiveAt
      <4> QED BY <1>1, <3>1, <4>1, UndoCleans
    <3>2. CASE main = "socket"
      <4>1. live \ {"joinables"} = {"address"}
        BY <1>2, <3>2 DEF LiveAt
      <4> QED BY <1>1, <3>2, <4>1, UndoCleans
    <3>3. CASE main \in {"bind", "pool"}
      <4>1. live \ {"joinables"} = {"address", "socket"}
        BY <1>1, <1>2, <3>3 DEF LiveAt
      <4> QED BY <1>1, <3>3, <4>1, UndoCleans
    <3>4. CASE main = "heartbeat"
      <4>1. live \ {"joinables"} = {"address", "socket", "pool"}
        BY <1>2, <3>4 DEF LiveAt
      <4> QED BY <1>1, <3>4, <4>1, UndoCleans
    <3>5. CASE main = "cache"
      <4>1. live \ {"joinables"} = {"address", "socket", "pool", "heartbeat"}
        BY <1>2, <3>5 DEF LiveAt
      <4> QED BY <1>1, <3>5, <4>1, UndoCleans
    <3>6. CASE main = "router"
      <4>1. live \ {"joinables"} = {"address", "socket", "pool", "heartbeat", "cache"}
        BY <1>2, <3>6 DEF LiveAt
      <4> QED BY <1>1, <3>6, <4>1, UndoCleans
    <3>7. CASE main \in {"lock", "locks"}
      BY <1>1, <1>2, <3>7, UndoCleans DEF LiveAt
    <3> QED
      BY <1>1, <3>1, <3>2, <3>3, <3>4, <3>5, <3>6, <3>7
  <2>2. live \ (live \ {"joinables"}) \subseteq {"joinables"} /\ live \ live \subseteq {"joinables"}
        /\ live \ {"joinables"} \in SUBSET live /\ live \in SUBSET live
    OBVIOUS
  <2> QED
    BY <2>1, <2>2, Zenon
<1>4. Cleaning'
  BY <1>1, <1>2, <1>3, Zenon DEF Cleaning, Kept
<1>5. TypeOK'
  <2>1. todo' \in Seq(Ops)
    BY <1>3 DEF CleansUp
  <2> QED
    BY <1>1, <1>2, <2>1, OpsTyped, Zenon DEF TypeOK
<1>6. Working' = Working
  BY <1>1, Zenon DEF Working
<1> QED
  BY <1>1, <1>2, <1>4, <1>5, <1>6, StepTable DEF ControlInv

\* The pool, and one more thread.
LEMMA CreateStep ==
  ASSUME ControlInv, CreateThread
  PROVE  ControlInv'
<1>1. PICK t : t = CHOOSE x \in Unborn : \A u \in Unborn : x <= u
  OBVIOUS
<1>2. t \in Threads /\ thread[t] = "none"
  <2>1. Unborn \subseteq Nat /\ Unborn # {}
    BY ControlAssumption DEF Unborn, Threads, CreateThread
  <2>2. \E x \in Unborn : \A u \in Unborn : x <= u
    <3>1. PICK x \in Unborn : \A u \in Unborn : ~ (<< u, x >> \in OpToRel(<, Nat))
      BY <2>1, NatLessThanWellFounded, WFMin
    <3>2. \A y, u \in Nat : u < y => << u, y >> \in OpToRel(<, Nat)
      BY DEF OpToRel
    <3>3. \A u \in Unborn : u \in Nat /\ x \in Nat /\ ~ (u < x)
      BY <2>1, <3>1, <3>2, Zenon
    <3> QED
      BY <3>3
  <2>3. t \in Unborn
    BY <1>1, <2>2, Zenon
  <2> QED
    BY <2>3 DEF Unborn
<1>3. /\ main = "pool"
      /\ live' = live \cup {"pool"}
      /\ thread' = [thread EXCEPT ![t] = "idle"]
      /\ main' \in {"heartbeat", "pool"}
      /\ UNCHANGED << todo, freed_twice, queued, shutdown, heartbeat, hb_started, hb_shutdown,
                      started, serving >>
  BY <1>1 DEF CreateThread
<1>4. /\ ~shutdown /\ ~serving /\ live = LiveAt("pool") /\ TypeOK /\ ~freed_twice /\ ~Working
      /\ "backlogs" \notin live
      /\ ~ \E u \in Threads : thread[u] = "exited"
  BY <1>3, StepTable DEF ControlInv
<1>5. Born' /\ ~Working' /\ ~ \E u \in Threads : thread'[u] = "exited"
  BY <1>2, <1>3, <1>4 DEF Born, Working, TypeOK
<1>6. live' = LiveAt(main)' /\ "backlogs" \notin live'
  BY <1>3, <1>4, <1>5 DEF LiveAt
<1>7. TypeOK'
  <2>1. /\ live' \subseteq Resources
        /\ thread' \in [Threads -> {"none", "idle", "busy", "stuck", "exited"}]
    BY <1>3, <1>4 DEF TypeOK, Resources, Parts, Plain
  <2> QED
    BY <1>3, <1>4, <2>1, StepTable DEF TypeOK
<1> QED
  BY <1>3, <1>4, <1>5, <1>6, <1>7, StepTable DEF ControlInv

\* The pool frees its lock itself, and leaves the threads it has running.
LEMMA CreateFailsStep ==
  ASSUME ControlInv, CreateThreadFails
  PROVE  ControlInv'
<1>1. /\ main = "pool"
      /\ live' = live \ {"pool"}
      /\ main' = "undo"
      /\ todo' = Steps.pool.undo
      /\ UNCHANGED << freed_twice, thread, queued, shutdown, heartbeat, hb_started, hb_shutdown,
                      started, serving >>
  BY DEF CreateThreadFails, threadVars
<1>2. /\ ~shutdown /\ ~serving /\ live = LiveAt("pool") /\ TypeOK /\ ~freed_twice /\ ~Working
      /\ "backlogs" \notin live
  BY <1>1, StepTable DEF ControlInv
<1>3. live' = {"joinables", "address", "socket"}
  BY <1>1, <1>2 DEF LiveAt
<1>4. Cleaning'
  <2>1. {"address", "socket"} \in SUBSET live' /\ live' \ {"address", "socket"} \subseteq {"joinables"}
    BY <1>3
  <2>2. CleansUp(todo', {"address", "socket"})
    BY <1>1, UndoCleans
  <2> QED
    BY <1>1, <1>2, <2>1, <2>2, Zenon DEF Cleaning, Kept
<1>5. TypeOK'
  <2>1. live' \subseteq Resources
    BY <1>3 DEF Resources, Parts, Plain
  <2>2. todo' \in Seq(Ops)
    BY <1>1, UndoCleans DEF CleansUp
  <2> QED
    BY <1>1, <1>2, <2>1, <2>2, OpsTyped, Zenon DEF TypeOK
<1>6. Working' = Working
  BY <1>1, Zenon DEF Working
<1> QED
  BY <1>1, <1>2, <1>3, <1>4, <1>5, <1>6, StepTable DEF ControlInv

\* The heartbeat's thread.
LEMMA HeartbeatStep ==
  ASSUME ControlInv, StartHeartbeatThread
  PROVE  ControlInv'
<1>1. /\ main = "heartbeat"
      /\ live' = live \cup {"heartbeat"}
      /\ heartbeat' = "waiting"
      /\ main' = "cache"
      /\ UNCHANGED << todo, freed_twice, thread, queued, shutdown, hb_started, hb_shutdown,
                      started, serving >>
  BY DEF StartHeartbeatThread
<1>2. /\ ~shutdown /\ ~serving /\ live = LiveAt("heartbeat") /\ TypeOK /\ ~freed_twice /\ ~Working
      /\ "backlogs" \notin live
  BY <1>1, StepTable DEF ControlInv
<1>3. live' = LiveAt(main)' /\ "backlogs" \notin live'
  BY <1>1, <1>2 DEF LiveAt
<1>4. TypeOK'
  <2>1. live' \subseteq Resources
    BY <1>1, <1>2 DEF TypeOK, Resources, Parts, Plain
  <2> QED
    BY <1>1, <1>2, <2>1, StepTable DEF TypeOK
<1>5. Working' = Working
  BY <1>1, Zenon DEF Working
<1> QED
  BY <1>1, <1>2, <1>3, <1>4, <1>5, StepTable DEF ControlInv

\* tc_server_start, and the operator's quit, with all allocated.
LEMMA StartStep ==
  ASSUME ControlInv, StartFails \/ StartRefused \/ StartSucceeds \/ Quit
  PROVE  ControlInv'
<1>1. /\ main \in {"start", "serve"} /\ main' \in {"serve", "finalize"}
      /\ live' = live \/ (~serving /\ ~started' /\ main' = "finalize" /\ live' = live \ {"socket"})
      /\ UNCHANGED << todo, freed_twice, thread, shutdown, heartbeat, hb_shutdown >>
      /\ hb_started' \in {hb_started, TRUE} /\ started' \in {started, TRUE}
      /\ serving' => started' /\ (live' = live)
      /\ serving' \in {serving, TRUE} /\ (serving => serving')
      /\ queued' \in {queued, 1} /\ (queued' # queued => serving')
      /\ main' = "serve" => live' = live
  <2>1. CASE StartFails
    BY <2>1, StepTable DEF StartFails, threadVars, ControlInv
  <2>2. CASE StartRefused
    BY <2>2, StepTable DEF StartRefused, threadVars, ControlInv
  <2>3. CASE StartSucceeds
    BY <2>3, StepTable DEF StartSucceeds, threadVars, ControlInv
  <2>4. CASE Quit
    BY <2>4, StepTable DEF Quit, threadVars, ControlInv
  <2> QED
    BY <2>1, <2>2, <2>3, <2>4
<1>2. /\ ~shutdown /\ live \ {"backlogs"} = Parts /\ TypeOK /\ ~freed_twice
      /\ "backlogs" \in live \/ Working => serving
  BY <1>1 DEF ControlInv, LiveAt
<1>3. main' = "serve" => live' \ {"backlogs"} = LiveAt(main)'
  BY <1>1, <1>2 DEF LiveAt
<1>4. TypeOK'
  <2>1. live' \subseteq Resources /\ serving' \in BOOLEAN /\ started' \in BOOLEAN
        /\ hb_started' \in BOOLEAN
    BY <1>1, <1>2, Zenon DEF TypeOK
  <2>2. queued' \in 0..MaxTasks
    <3>1. 1 \in 0..MaxTasks
      BY ControlAssumption
    <3> QED
      BY <1>1, <1>2, <3>1, Zenon DEF TypeOK
  <2> QED
    BY <1>1, <1>2, <2>1, <2>2, StepTable DEF TypeOK
<1>5. "backlogs" \in live' \/ Working' => serving'
  BY <1>1, <1>2 DEF Working
<1>6. main' = "finalize" => \/ live' \ {"backlogs"} = Parts
                            \/ ~started' /\ live' = Parts \ {"socket"}
  <2>1. ~serving => live = Parts
    BY <1>2
  <2> QED
    BY <1>1, <1>2, <2>1
<1> QED
  BY <1>1, <1>2, <1>3, <1>4, <1>5, <1>6, StepTable DEF ControlInv, Born

\* tc_server_finalize begins.
LEMMA FinalizeStep ==
  ASSUME ControlInv, BeginFinalize
  PROVE  ControlInv'
<1>1. /\ main = "finalize" /\ main' = "undo" /\ todo' = FinalizeList
      /\ UNCHANGED << live, freed_twice, thread, queued, shutdown, heartbeat, hb_started,
                      hb_shutdown, started, serving >>
  BY DEF BeginFinalize, threadVars
<1>2. /\ ~shutdown /\ TypeOK /\ ~freed_twice /\ (serving => started) /\ started \in BOOLEAN
      /\ live \ {"backlogs"} = Parts \/ (~started /\ live = Parts \ {"socket"})
      /\ "backlogs" \in live \/ Working => serving
  BY <1>1 DEF ControlInv, TypeOK
<1>3. CleansUp(todo', Parts) /\ todo' \in Seq(Ops)
  BY <1>1, <1>2, FinalizeCleans DEF CleansUp
<1>4. started => Undrained'
  BY <1>1, <1>2, FinalizeOrder
<1>5. ~started => Stuck'
  BY <1>1, <1>2, FinalizeOrder DEF Stuck
<1>6. Cleaning' \/ Stuck'
  <2>1. ASSUME started
        PROVE  Cleaning'
    <3>1. Parts \in SUBSET live' /\ live' \ Parts \subseteq Kept'
      BY <1>1, <1>2, <2>1 DEF Kept
    <3> QED
      BY <1>3, <3>1, Zenon DEF Cleaning
  <2> QED
    BY <1>2, <1>5, <2>1
<1>7. TypeOK'
  BY <1>1, <1>2, <1>3, OpsTyped, Zenon DEF TypeOK
<1>8. Working' = Working /\ Running' = Running
  BY <1>1, Zenon DEF Working, Running
<1>9. serving => Parts \subseteq live
  BY <1>2
<1> QED
  BY <1>1, <1>2, <1>4, <1>6, <1>7, <1>8, <1>9, StepTable DEF ControlInv

\* An operation of a clean-up that is being worked off.
LEMMA DoingOne ==
  ASSUME ControlInv, NEW op, Doing(op)
  PROVE  /\ main = "undo" /\ todo # << >> /\ Head(todo) = op /\ todo' = Tail(todo)
         /\ todo \in Seq(Ops) /\ todo' \in Seq(Ops)
         /\ Cleaning \/ (Stuck /\ op = "finalize_pool")
         /\ (\E t \in Threads : thread[t] = "exited") => shutdown
         /\ "backlogs" \in live \/ Working => serving
         /\ TypeOK /\ ~freed_twice /\ (serving => started)
         /\ serving /\ Running => Undrained /\ Parts \subseteq live
<1>1. /\ main = "undo" /\ todo # << >> /\ Head(todo) = op /\ todo' = Tail(todo)
  BY DEF Doing
<1>2. Cleaning \/ (Stuck /\ op = "finalize_pool")
  BY <1>1 DEF ControlInv, Stuck
<1>3. todo \in Seq(Ops)
  BY <1>2 DEF Cleaning, CleansUp, Stuck
<1>4. todo' \in Seq(Ops)
  BY <1>1, <1>3
<1> QED
  BY <1>1, <1>2, <1>3, <1>4 DEF ControlInv

\* While workers run, the operations up to their joining are the two flags.
LEMMA DrainStep ==
  ASSUME NEW s \in Seq(Ops), s # << >>, todo = s, todo' = Tail(s), Undrained
  PROVE  /\ Head(s) \in {"stop_pool", "stop_heartbeat", "finalize_pool"}
         /\ Head(s) # "finalize_pool" => Undrained'
<1>1. PICK k \in DOMAIN s :
        /\ s[k] = "finalize_pool"
        /\ \A i \in DOMAIN s : i < k => s[i] \in {"stop_pool", "stop_heartbeat"}
  BY Zenon DEF Undrained
<1>2. /\ Len(s) \in Nat /\ Len(s) > 0 /\ Head(s) = s[1] /\ DOMAIN s = 1..Len(s)
      /\ DOMAIN Tail(s) = 1..(Len(s) - 1)
      /\ \A i \in 1..(Len(s) - 1) : Tail(s)[i] = s[i + 1]
  OBVIOUS
<1>3. Head(s) \in {"stop_pool", "stop_heartbeat", "finalize_pool"}
  BY <1>1, <1>2
<1>4. ASSUME Head(s) # "finalize_pool"
      PROVE  Undrained'
  <2>1. k # 1
    BY <1>1, <1>2, <1>4, Zenon
  <2>2. k - 1 \in DOMAIN Tail(s) /\ Tail(s)[k - 1] = "finalize_pool"
    BY <1>1, <1>2, <2>1
  <2>3. \A i \in DOMAIN Tail(s) : i < k - 1 => i + 1 \in DOMAIN s /\ i + 1 < k /\ Tail(s)[i] = s[i + 1]
    BY <1>1, <1>2
  <2>4. \A i \in DOMAIN Tail(s) : i < k - 1 => Tail(s)[i] \in {"stop_pool", "stop_heartbeat"}
    BY <1>1, <2>3, Zenon
  <2> QED
    BY <2>2, <2>4, Zenon DEF Undrained
<1> QED
  BY <1>3, <1>4

\* The flags.
LEMMA FlagStep ==
  ASSUME ControlInv, StopPool \/ StopHeartbeat
  PROVE  ControlInv'
<1>1. PICK op \in {"stop_pool", "stop_heartbeat"} :
        /\ Doing(op)
        /\ shutdown' \in {shutdown, TRUE} /\ hb_shutdown' \in {hb_shutdown, TRUE}
        /\ UNCHANGED << main, live, freed_twice, thread, queued, heartbeat, hb_started, started,
                        serving >>
  BY Zenon DEF StopPool, StopHeartbeat
<1>2. /\ main = "undo" /\ todo # << >> /\ Head(todo) = op /\ todo' = Tail(todo)
      /\ todo \in Seq(Ops) /\ todo' \in Seq(Ops)
      /\ Cleaning
      /\ (\E t \in Threads : thread[t] = "exited") => shutdown
      /\ "backlogs" \in live \/ Working => serving
      /\ TypeOK /\ ~freed_twice /\ (serving => started)
      /\ serving /\ Running => Undrained /\ Parts \subseteq live
  BY <1>1, DoingOne
<1>3. Cleaning'
  <2>1. PICK k \in SUBSET live : CleansUp(todo, k) /\ live \ k \subseteq Kept
    BY <1>2, Zenon DEF Cleaning
  <2>2. CleansUp(todo', k)
    BY <1>1, <1>2, <2>1, TailCleans, FreeingOne
  <2> QED
    BY <1>1, <2>1, <2>2, Zenon DEF Cleaning, Kept
<1>4. serving /\ Running => Undrained'
  BY <1>1, <1>2, DrainStep
<1>5. TypeOK'
  BY <1>1, <1>2, OpsTyped DEF TypeOK
<1>6. /\ ((\E t \in Threads : thread[t] = "exited") => shutdown)'
      /\ Running' = Running /\ Working' = Working
  BY <1>1, <1>2 DEF Running, Working, TypeOK
<1>7. main' \notin DOMAIN Steps \cup {"start", "serve", "returned", "finalize"}
  BY <1>1, <1>2, StepTable
<1>8. main' = "undo"
  BY <1>1, <1>2
<1> QED
  BY <1>1, <1>2, <1>3, <1>4, <1>5, <1>6, <1>7, <1>8 DEF ControlInv

\* What an operation frees was live, and the rest of the clean-up frees the
\* rest; workers have ended before anything goes.
LEMMA FreeStep ==
  ASSUME ControlInv, FinalizePool \/ FinalizeHeartbeat \/ FreePlain
  PROVE  ControlInv'
<1>1. PICK r \in Parts :
        /\ Doing(Freeing(r)) /\ Free(r)
        /\ r = "pool" => \A t \in Threads : thread[t] = "exited"
        /\ UNCHANGED << main, thread, queued, shutdown, heartbeat, hb_started, hb_shutdown,
                        started, serving >>
  <2>1. CASE FinalizePool
    <3>1. "pool" \in Parts
      BY DEF Parts
    <3> QED
      BY <2>1, <3>1, FreeingOne, Zenon DEF FinalizePool, threadVars
  <2>2. CASE FinalizeHeartbeat
    <3>1. "heartbeat" \in Parts /\ "heartbeat" # "pool"
      BY DEF Parts
    <3> QED
      BY <2>2, <3>1, FreeingOne, Zenon DEF FinalizeHeartbeat, threadVars
  <2>3. CASE FreePlain
    <3>1. \A r \in Plain : r \in Parts /\ r # "pool"
      BY DEF Parts, Plain
    <3> QED
      BY <2>3, <3>1, FreeingOne, Zenon DEF FreePlain, threadVars
  <2> QED
    BY <2>1, <2>2, <2>3
<1>2. PICK op : op = Freeing(r)
  OBVIOUS
<1>3. /\ main = "undo" /\ todo # << >> /\ Head(todo) = op /\ todo' = Tail(todo)
      /\ todo \in Seq(Ops) /\ todo' \in Seq(Ops)
      /\ Cleaning \/ (Stuck /\ op = "finalize_pool")
      /\ (\E t \in Threads : thread[t] = "exited") => shutdown
      /\ "backlogs" \in live \/ Working => serving
      /\ TypeOK /\ ~freed_twice /\ (serving => started)
      /\ serving /\ Running => Undrained /\ Parts \subseteq live
  BY <1>1, <1>2, DoingOne, Zenon
<1>4. op = "finalize_pool" <=> r = "pool"
  BY <1>2, FreeingOne DEF Parts
<1>5. 1 \in Threads
  BY ControlAssumption DEF Threads
<1>6. PICK k \in SUBSET live : CleansUp(todo, k) /\ live \ k \subseteq Kept
  BY <1>1, <1>3, <1>4, <1>5, Zenon DEF Stuck, Cleaning
<1>7. r \in k
  <2>1. 1 \in DOMAIN todo /\ todo[1] = op
    BY <1>3
  <2> QED
    BY <1>2, <1>6, <2>1, Zenon DEF CleansUp
<1>8. live' = live \ {r} /\ ~freed_twice'
  BY <1>1, <1>3, <1>6, <1>7 DEF Free
<1>9. Cleaning'
  <2>1. \A q \in Parts : q \in k \ {r} <=> q \in k /\ Freeing(q) # op
    BY <1>2, FreeingOne
  <2>2. CleansUp(todo', k \ {r})
    BY <1>3, <1>6, <2>1, TailCleans, Zenon
  <2>3. k \ {r} \in SUBSET live' /\ live' \ (k \ {r}) \subseteq Kept'
    BY <1>1, <1>6, <1>8 DEF Kept
  <2> QED
    BY <2>2, <2>3, Zenon DEF Cleaning
<1>10. ~ (serving /\ Running)'
  <2>1. ASSUME serving, Running
        PROVE  FALSE
    <3>1. op \in {"stop_pool", "stop_heartbeat", "finalize_pool"}
      BY <1>3, <2>1, DrainStep, Zenon
    <3>2. r = "pool"
      BY <1>2, <1>4, <3>1, FreeingOne
    <3> QED
      BY <1>1, <2>1, <3>2 DEF Running
  <2> QED
    BY <1>1, <2>1, Zenon DEF Running
<1>11. TypeOK'
  <2>1. live' \subseteq Resources /\ freed_twice' \in BOOLEAN
    BY <1>1, <1>3, <1>8 DEF TypeOK, Free
  <2> QED
    BY <1>1, <1>3, <2>1, OpsTyped, Zenon DEF TypeOK
<1>12. Working' = Working
  BY <1>1, Zenon DEF Working
<1> QED
  BY <1>1, <1>3, <1>8, <1>9, <1>10, <1>11, <1>12, StepTable DEF ControlInv

\* The cache is finalized after the workers have ended, so a crash there finds
\* none of them running.
LEMMA CrashStep ==
  ASSUME ControlInv, FreeCacheCrashes
  PROVE  ControlInv'
<1>1. /\ Doing("cache") /\ main' = "aborted"
      /\ UNCHANGED << live, freed_twice, thread, queued, shutdown, heartbeat, hb_started,
                      hb_shutdown, started, serving >>
  BY DEF FreeCacheCrashes, threadVars
<1>2. /\ todo' \in Seq(Ops) /\ TypeOK /\ ~freed_twice /\ (serving => started)
      /\ (\E t \in Threads : thread[t] = "exited") => shutdown
      /\ "backlogs" \in live \/ Working => serving
      /\ serving /\ Running => Parts \subseteq live
  BY <1>1, DoingOne, Zenon
<1>3. TypeOK'
  BY <1>1, <1>2, OpsTyped DEF TypeOK
<1>4. Working' = Working /\ Running' = Running
  BY <1>1, Zenon DEF Working, Running
<1> QED
  BY <1>1, <1>2, <1>3, <1>4, StepTable DEF ControlInv

\* run_server returns when all has been worked off.
LEMMA ReturnStep ==
  ASSUME ControlInv, Return
  PROVE  ControlInv'
<1>1. /\ main = "undo" /\ todo = << >> /\ main' = "returned"
      /\ UNCHANGED << todo, live, freed_twice, thread, queued, shutdown, heartbeat, hb_started,
                      hb_shutdown, started, serving >>
  BY DEF Return, threadVars
<1>2. PICK k \in SUBSET live : CleansUp(<< >>, k) /\ live \ k \subseteq Kept
  BY <1>1 DEF ControlInv, Stuck, Cleaning
<1>3. live \subseteq Kept
  <2>1. ASSUME NEW r \in k
        PROVE  r = "backlogs" /\ serving
    <3>1. r \in Resources /\ r \notin Parts
      BY <1>2, <2>1, AllCleaned DEF ControlInv, TypeOK
    <3> QED
      BY <1>2, <2>1, <3>1 DEF Resources, ControlInv
  <2> QED
    BY <1>2, <2>1 DEF Kept
<1>4. ~ (serving /\ Running)
  BY <1>1 DEF ControlInv, Undrained
<1>5. TypeOK'
  BY <1>1 DEF ControlInv, TypeOK
<1>6. Working' = Working /\ Running' = Running /\ Kept' = Kept
  BY <1>1, Zenon DEF Working, Running, Kept
<1> QED
  BY <1>1, <1>3, <1>4, <1>5, <1>6, StepTable DEF ControlInv

\* What the steps of the workers and of the heartbeat's thread have in common.
LEMMA ThreadFacts ==
  ASSUME ControlInv, (\E t \in Threads : Worker(t)) \/ HeartbeatBegins \/ HeartbeatExits
  PROVE  /\ main # "aborted" /\ main' \in {main, "aborted"} /\ (main' # main => Working)
         /\ UNCHANGED << todo, freed_twice, shutdown, hb_started, hb_shutdown, started, serving >>
         /\ heartbeat' \in {heartbeat, "cycling", "exited"}
         /\ live' = live \/ (Working /\ live' = live \cup {"backlogs"})
         /\ thread' \in [Threads -> {"none", "idle", "busy", "stuck", "exited"}]
         /\ queued' \in 0..MaxTasks
         /\ Working' => Working
         /\ Running' => Running
         /\ Born' = Born
         /\ (\E t \in Threads : thread'[t] = "exited") =>
              shutdown \/ \E t \in Threads : thread[t] = "exited"
<1>1. /\ thread \in [Threads -> {"none", "idle", "busy", "stuck", "exited"}]
      /\ queued \in 0..MaxTasks /\ MaxTasks \in Nat
  BY ControlAssumption DEF ControlInv, TypeOK
<1>2. CASE HeartbeatBegins \/ HeartbeatExits
  <2>1. /\ main # "aborted"
        /\ UNCHANGED << main, todo, live, freed_twice, thread, queued, shutdown, hb_started,
                        hb_shutdown, started, serving >>
        /\ heartbeat' \in {heartbeat, "cycling", "exited"}
    BY <1>2 DEF HeartbeatBegins, HeartbeatExits
  <2>2. Working' = Working /\ Running' = Running /\ Born' = Born
    BY <2>1, Zenon DEF Working, Running, Born
  <2> QED
    BY <1>1, <2>1, <2>2
<1>3. ASSUME NEW t \in Threads, Worker(t)
      PROVE  /\ main # "aborted" /\ main' \in {main, "aborted"} /\ (main' # main => Working)
             /\ UNCHANGED << todo, freed_twice, shutdown, heartbeat, hb_started, hb_shutdown,
                             started, serving >>
             /\ live' = live \/ (Working /\ live' = live \cup {"backlogs"})
             /\ thread' \in [Threads -> {"none", "idle", "busy", "stuck", "exited"}]
             /\ queued' \in 0..MaxTasks
             /\ Working' => Working
             /\ Running' => Running
             /\ Born' = Born
             /\ (\E u \in Threads : thread'[u] = "exited") =>
                  shutdown \/ \E u \in Threads : thread[u] = "exited"
  <2>1. CASE TakeTask(t)
    BY <1>1, <1>3, <2>1 DEF Worker, TakeTask, Working, Running, Born
  <2>2. CASE TaskReturns(t)
    BY <1>1, <1>3, <2>2 DEF Worker, TaskReturns, Working, Running, Born
  <2>3. CASE TaskOpensMap(t)
    BY <1>1, <1>3, <2>3 DEF Worker, TaskOpensMap, Working, Running, Born
  <2>4. CASE TaskBlocks(t)
    BY <1>1, <1>3, <2>4 DEF Worker, TaskBlocks, Working, Running, Born
  <2>5. CASE TaskAborts(t)
    BY <1>1, <1>3, <2>5 DEF Worker, TaskAborts, Working, Running, Born
  <2>6. CASE WorkerExits(t)
    BY <1>1, <1>3, <2>6 DEF Worker, WorkerExits, Working, Running, Born
  <2> QED
    BY <1>3, <2>1, <2>2, <2>3, <2>4, <2>5, <2>6 DEF Worker
<1> QED
  BY <1>2, <1>3

\* The threads: tasks are there only when the server serves, and workers end
\* after the flag.
LEMMA ThreadStep ==
  ASSUME ControlInv, (\E t \in Threads : Worker(t)) \/ HeartbeatBegins \/ HeartbeatExits
  PROVE  ControlInv'
<1>1. /\ main # "aborted" /\ main' \in {main, "aborted"} /\ (main' # main => Working)
      /\ UNCHANGED << todo, freed_twice, shutdown, hb_started, hb_shutdown, started, serving >>
      /\ heartbeat' \in {heartbeat, "cycling", "exited"}
      /\ live' = live \/ (Working /\ live' = live \cup {"backlogs"})
      /\ thread' \in [Threads -> {"none", "idle", "busy", "stuck", "exited"}]
      /\ queued' \in 0..MaxTasks
      /\ Working' => Working
      /\ Running' => Running
      /\ Born' = Born
      /\ (\E t \in Threads : thread'[t] = "exited") =>
           shutdown \/ \E t \in Threads : thread[t] = "exited"
  BY ThreadFacts
<1>2. TypeOK
  BY DEF ControlInv
<1>3. TypeOK'
  <2>1. live' \subseteq Resources
    BY <1>1, <1>2 DEF TypeOK, Resources
  <2> QED
    BY <1>1, <1>2, <2>1 DEF TypeOK
<1>4. /\ Working => serving
      /\ "backlogs" \in live => serving
  BY DEF ControlInv
<1>5. /\ live \subseteq live' /\ live' \ {"backlogs"} = live \ {"backlogs"}
      /\ "backlogs" \in live' => serving
      /\ ~serving => live' = live
      /\ Kept' = Kept
  BY <1>1, <1>4 DEF Kept
<1>6. /\ main' = main => LiveAt(main)' = LiveAt(main)
      /\ Stuck' = Stuck /\ Undrained' = Undrained
  BY <1>1, Zenon DEF LiveAt, Stuck, Undrained
<1>7. Cleaning => Cleaning'
  <2>1. ASSUME NEW k \in SUBSET live, CleansUp(todo, k), live \ k \subseteq Kept
        PROVE  k \in SUBSET live' /\ CleansUp(todo', k) /\ live' \ k \subseteq Kept'
    BY <1>1, <1>4, <1>5, <2>1 DEF Kept
  <2> QED
    BY <2>1, Zenon DEF Cleaning
<1>8. ASSUME main' = main, main = "returned"
      PROVE  live' \subseteq Kept'
  BY <1>1, <1>4, <1>5, <1>8 DEF ControlInv, Kept
<1>9. ASSUME main' # main
      PROVE  main' = "aborted" /\ serving /\ started /\ (Running => Parts \subseteq live)
  <2>1. main' = "aborted" /\ serving
    BY <1>1, <1>4, <1>9
  <2>2. started /\ main \in {"serve", "finalize", "undo", "returned"}
    BY <1>1, <2>1 DEF ControlInv
  <2>3. Running => Parts \subseteq live
    BY <2>1, <2>2 DEF ControlInv, LiveAt
  <2> QED
    BY <2>1, <2>2, <2>3
<1>10. CASE main' = main
  BY <1>1, <1>3, <1>4, <1>5, <1>6, <1>7, <1>8, <1>10 DEF ControlInv
<1>11. CASE main' # main
  BY <1>1, <1>3, <1>4, <1>5, <1>9, <1>11, StepTable DEF ControlInv
<1> QED
  BY <1>10, <1>11

-----------------------------------------------------------------------------
(* The theorems *)

\* The invariant: at every step of run_server, what is allocated is what the
\* clean-up that may start there frees.
THEOREM ControlInvariant == Spec => []ControlInv
<1>1. Init => ControlInv
  <2> SUFFICES ASSUME Init PROVE ControlInv
    OBVIOUS
  <2>1. TypeOK
    <3>1. todo \in Seq(Ops) /\ live \subseteq Resources
      BY DEF Init, Resources, Parts, Plain
    <3>2. main \in DOMAIN Steps
      BY StepTable DEF Init
    <3>3. /\ thread \in [Threads -> {"none", "idle", "busy", "stuck", "exited"}]
          /\ heartbeat \in {"none", "waiting", "cycling", "exited"}
          /\ freed_twice \in BOOLEAN /\ shutdown \in BOOLEAN /\ hb_started \in BOOLEAN
          /\ hb_shutdown \in BOOLEAN /\ started \in BOOLEAN /\ serving \in BOOLEAN
      BY DEF Init
    <3>4. queued \in 0..MaxTasks
      BY ControlAssumption DEF Init
    <3> QED
      BY <3>1, <3>2, <3>3, <3>4, OpsTyped, Zenon DEF TypeOK
  <2>2. /\ main = "address" /\ live = LiveAt(main) /\ ~Born
        /\ ~ \E t \in Threads : thread[t] = "exited"
        /\ ~shutdown /\ ~freed_twice /\ ~serving /\ ~Working /\ "backlogs" \notin live
    BY DEF Init, LiveAt, Born, Working
  <2> QED
    BY <2>1, <2>2 DEF ControlInv
<1>2. ASSUME ControlInv, [Next]_vars
      PROVE  ControlInv'
  <2>1. CASE UNCHANGED vars
    <3>1. /\ LiveAt(main)' = LiveAt(main) /\ Born' = Born /\ Running' = Running
          /\ Stuck' = Stuck /\ Undrained' = Undrained /\ TypeOK' = TypeOK
          /\ Working' = Working /\ Cleaning' = Cleaning /\ Kept' = Kept
      BY <2>1, Zenon DEF vars, LiveAt, Born, Running, Stuck, Undrained, TypeOK, Working,
         Cleaning, CleansUp, Kept
    <3> QED
      BY <1>2, <2>1, <3>1 DEF vars, ControlInv
  <2> QED
    BY <1>2, <2>1, SucceedsStep, FailsStep, CreateStep, CreateFailsStep, HeartbeatStep,
      StartStep, FinalizeStep, FlagStep, FreeStep, CrashStep, ReturnStep, ThreadStep, Zenon
      DEF Next, Main
<1> QED
  BY <1>1, <1>2, PTL DEF Spec

\* Types.
THEOREM ControlTypes == Spec => []TypeOK
<1>1. ControlInv => TypeOK
  BY DEF ControlInv
<1> QED
  BY <1>1, ControlInvariant, PTL

\* Whatever fails, and however many workers the pool has, no part of the
\* server is freed twice by tc_server_init's undoing or tc_server_finalize.
THEOREM NothingFreedTwice == Spec => []FreedOnce
<1>1. ControlInv => FreedOnce
  BY DEF ControlInv, FreedOnce
<1> QED
  BY <1>1, ControlInvariant, PTL

\* However many workers there are and whatever fails, what is left when
\* run_server returns is, after a failed initialisation, the joinables of
\* main.c:137, and after serving the backlogs that tc_map_cache_finalize leaves.
THEOREM OnlyKnownIsLeaked == Spec => []OnlyKnownLeaks
<1>1. ControlInv => OnlyKnownLeaks
  BY DEF ControlInv, OnlyKnownLeaks, Kept
<1> QED
  BY <1>1, ControlInvariant, PTL

\* Workers that have served clients have all they use until the last of them
\* has ended: tc_server_finalize joins them before it frees anything.
THEOREM WorkersDrainFirst == Spec => []ServedThenDrained
<1>1. ASSUME ControlInv
      PROVE  ServedThenDrained
  <2> SUFFICES ASSUME serving, Running
               PROVE  Parts \subseteq live
    BY DEF ServedThenDrained
  <2>1. main \in {"serve", "finalize", "undo", "aborted"} /\ started
    BY <1>1 DEF ControlInv
  <2> QED
    BY <1>1, <2>1 DEF ControlInv, LiveAt
<1> QED
  BY <1>1, ControlInvariant, PTL

-----------------------------------------------------------------------------
(***************************************************************************)
(* Heartbeat, for any services, salts and users                            *)
(***************************************************************************)

CONSTANTS Services, Dummies, Users, Salts, NoSalt, allow_web_play

VARIABLES current_salt, web_play_url, auth_tree, lock, worker, i,
          beat_main, beat_shutdown, beat_started, accepted, twice

Beat == INSTANCE Heartbeat
          WITH main <- beat_main, shutdown <- beat_shutdown, started <- beat_started

\* Every used digest belongs to a salt that a service has now.
KeysCurrent ==
  \A digest \in auth_tree : \E s \in Services \ Dummies : current_salt[s] = digest.salt

\* Every URL belongs to the salt that its service has now.
UrlsCurrent == \A s \in Services : web_play_url[s] \in {NoSalt, current_salt[s]}

\* The inductive invariant: the worker has the mutex exactly during its cycle,
\* the tree holds the accepted digests, and only during a cycle can it hold keys
\* that are out of date.
HeartbeatInv ==
  /\ Beat!TypeOK
  /\ lock = "worker" <=> worker = "cycle"
  /\ accepted = auth_tree
  /\ ~twice
  /\ UrlsCurrent
  /\ lock = Beat!Nobody => KeysCurrent

\* First picks a member.
LEMMA FirstIsMember ==
  ASSUME Beat!HeartbeatConstants, NEW S \in SUBSET Services, S # {}
  PROVE  Beat!First(S) \in S
<1>1. S \subseteq Nat
  BY DEF Beat!HeartbeatConstants
<1>2. \E x \in S : \A y \in S : ~(<< y, x >> \in OpToRel(<, Nat))
  BY <1>1, NatLessThanWellFounded, WFMin
<1>3. \A x, y \in Nat : y < x => << y, x >> \in OpToRel(<, Nat)
  BY DEF OpToRel
<1>4. \E x \in S : \A y \in S : ~(y < x)
  BY <1>1, <1>2, <1>3
<1>5. \E x \in S : \A y \in S : x <= y
  BY <1>1, <1>4
<1> QED BY <1>5, Zenon DEF Beat!First

\* The manager starts with no key used and no URL.
LEMMA InitHeartbeatInv ==
  ASSUME Beat!HeartbeatConstants, Beat!Init
  PROVE  HeartbeatInv
<1>1. 1 \in 1..(Beat!num_services + 1)
  BY DEF Beat!HeartbeatConstants
<1>2. Beat!TypeOK
  BY <1>1 DEF Beat!Init, Beat!TypeOK, Beat!Nobody
<1>3. UrlsCurrent /\ KeysCurrent
  BY DEF Beat!Init, UrlsCurrent, KeysCurrent
<1> QED BY <1>2, <1>3 DEF Beat!Init, HeartbeatInv, Beat!Nobody

\* A heartbeat gives its service the salt and the URL in one go.
LEMMA BeatKeepsInv ==
  ASSUME Beat!HeartbeatConstants, HeartbeatInv,
         NEW salt \in Salts, NEW sent \in BOOLEAN, Beat!Beat(salt, sent)
  PROVE  HeartbeatInv'
<1>1. i \in Services /\ i' = i + 1 /\ i' \in 1..(Beat!num_services + 1)
  BY DEF Beat!Beat, HeartbeatInv, Beat!TypeOK, Beat!HeartbeatConstants
<1>2. /\ current_salt' \in [Services -> Salts \cup {NoSalt}]
      /\ web_play_url' \in [Services -> Salts \cup {NoSalt}]
  BY DEF Beat!Beat, HeartbeatInv, Beat!TypeOK
<1>3. UrlsCurrent'
  BY <1>1 DEF Beat!Beat, HeartbeatInv, Beat!TypeOK, UrlsCurrent
<1>4. worker = "cycle" /\ lock' = "worker" /\ worker' = "cycle" /\ lock' # Beat!Nobody
  BY DEF Beat!Beat, HeartbeatInv, Beat!Nobody
<1> QED BY <1>1, <1>2, <1>3, <1>4 DEF Beat!Beat, HeartbeatInv, Beat!TypeOK, Beat!loginVars

\* A digest that is accepted belongs to a salt of now; a key that is a digest of
\* the tree and nothing more is refused.
LEMMA ValidateKeepsInv ==
  ASSUME Beat!HeartbeatConstants, HeartbeatInv,
         NEW key \in Beat!Keys, NEW failed \in SUBSET (Services \ Dummies), Beat!Validate(key, failed)
  PROVE  HeartbeatInv'
<1>1. /\ lock = Beat!Nobody /\ UNCHANGED << lock, worker, i >>
      /\ UNCHANGED << current_salt, web_play_url, beat_started, beat_shutdown, beat_main >>
  BY DEF Beat!Validate, Beat!workerVars, Beat!serviceVars
<1>2. CASE Beat!Used(key) \/ Beat!Accepts(key, failed) = {}
  <2>1. UNCHANGED << auth_tree, accepted, twice >>
    BY <1>2 DEF Beat!Validate, Beat!loginVars
  <2> QED BY <1>1, <2>1 DEF HeartbeatInv, Beat!TypeOK, UrlsCurrent, KeysCurrent
<1>3. CASE ~Beat!Used(key) /\ Beat!Accepts(key, failed) # {}
  <2> DEFINE s == Beat!First(Beat!Accepts(key, failed))
  <2>1. s \in Beat!Accepts(key, failed)
    BY <1>3, FirstIsMember DEF Beat!Accepts
  <2>2. s \in Services /\ (s \in Dummies \/ current_salt[s] = key.digest.salt)
    BY <2>1 DEF Beat!Accepts
  <2>3. /\ auth_tree' = IF s \in Dummies THEN auth_tree ELSE auth_tree \cup {key.digest}
        /\ accepted' = IF s \in Dummies THEN accepted ELSE accepted \cup {key.digest}
        /\ twice' = (twice \/ (s \notin Dummies /\ ~key.more /\ key.digest \in accepted))
    BY <1>3 DEF Beat!Validate
  <2> HIDE DEF s
  <2>4. accepted' = auth_tree' /\ ~twice' /\ auth_tree' \subseteq Beat!Digests
    BY <1>3, <2>3 DEF Beat!Used, Beat!Keys, HeartbeatInv, Beat!TypeOK
  <2>5. KeysCurrent'
    <3>1. KeysCurrent /\ current_salt' = current_salt
      BY <1>1 DEF HeartbeatInv
    <3>2. CASE s \in Dummies
      BY <2>3, <3>1, <3>2 DEF KeysCurrent
    <3>3. CASE s \notin Dummies
      <4>1. s \in Services \ Dummies /\ current_salt[s] = key.digest.salt
        BY <2>2, <3>3
      <4>2. auth_tree' = auth_tree \cup {key.digest}
        BY <2>3, <3>3
      <4> QED BY <3>1, <4>1, <4>2 DEF KeysCurrent
    <3> QED BY <3>2, <3>3
  <2>6. Beat!TypeOK'
    <3>1. twice' \in BOOLEAN
      BY <2>3, Zenon
    <3> QED BY <1>1, <2>4, <3>1 DEF HeartbeatInv, Beat!TypeOK
  <2>7. UrlsCurrent'
    BY <1>1 DEF HeartbeatInv, UrlsCurrent
  <2> QED BY <1>1, <2>4, <2>5, <2>6, <2>7 DEF HeartbeatInv
<1> QED BY <1>2, <1>3

\* Every step of the worker, of the logins and of the owner keeps the invariant.
LEMMA NextHeartbeatInv ==
  ASSUME Beat!HeartbeatConstants, HeartbeatInv, [Beat!Next]_Beat!vars
  PROVE  HeartbeatInv'
<1> USE DEF Beat!Nobody
<1>1. CASE Beat!Enter \/ Beat!WakeUp
  <2>1. UNCHANGED << current_salt, web_play_url, accepted, twice, auth_tree, beat_started,
                     beat_shutdown, beat_main >>
    BY <1>1 DEF Beat!Enter, Beat!WakeUp, Beat!serviceVars, Beat!loginVars
  <2>2. \/ worker' = "exited" /\ lock' = Beat!Nobody /\ i' = i
        \/ worker' = "cycle" /\ lock' = "worker" /\ i' = 1
    BY <1>1 DEF Beat!Enter, Beat!WakeUp, Beat!LoopTest
  <2>3. lock = Beat!Nobody /\ KeysCurrent
    BY <1>1 DEF Beat!Enter, Beat!WakeUp, HeartbeatInv
  <2>4. i' \in 1..(Beat!num_services + 1)
    BY <2>2 DEF HeartbeatInv, Beat!TypeOK, Beat!HeartbeatConstants
  <2>5. KeysCurrent' /\ UrlsCurrent'
    BY <2>1, <2>3 DEF HeartbeatInv, KeysCurrent, UrlsCurrent
  <2>6. Beat!TypeOK'
    BY <2>1, <2>2, <2>4 DEF HeartbeatInv, Beat!TypeOK
  <2> QED BY <2>1, <2>2, <2>5, <2>6 DEF HeartbeatInv
<1>2. CASE Beat!WaitForStart
  BY <1>2 DEF Beat!WaitForStart, Beat!serviceVars, Beat!loginVars, HeartbeatInv,
     Beat!TypeOK, UrlsCurrent, KeysCurrent
<1>3. CASE Beat!EndCycle
  <2>1. /\ auth_tree' = {} /\ accepted' = {} /\ lock' = Beat!Nobody /\ worker' = "sleeping"
        /\ UNCHANGED << current_salt, web_play_url, i, twice, beat_started, beat_shutdown, beat_main >>
    BY <1>3 DEF Beat!EndCycle, Beat!serviceVars
  <2>2. KeysCurrent' /\ UrlsCurrent'
    BY <2>1 DEF HeartbeatInv, KeysCurrent, UrlsCurrent
  <2>3. Beat!TypeOK'
    BY <2>1 DEF HeartbeatInv, Beat!TypeOK
  <2> QED BY <2>1, <2>2, <2>3 DEF HeartbeatInv
<1>4. CASE Beat!tc_heartbeat_manager_start \/ Beat!CallStop \/ Beat!tc_heartbeat_manager_stop
             \/ Beat!tc_heartbeat_manager_finalize
  <2>1. /\ UNCHANGED << lock, worker, i, current_salt, web_play_url >>
        /\ UNCHANGED << accepted, twice, auth_tree >>
    BY <1>4 DEF Beat!tc_heartbeat_manager_start, Beat!CallStop,
       Beat!tc_heartbeat_manager_stop,
                Beat!tc_heartbeat_manager_finalize, Beat!workerVars, Beat!serviceVars, Beat!loginVars
  <2>2. beat_started' \in BOOLEAN /\ beat_shutdown' \in BOOLEAN
    BY <1>4, Zenon DEF Beat!tc_heartbeat_manager_start, Beat!CallStop,
       Beat!tc_heartbeat_manager_stop,
                Beat!tc_heartbeat_manager_finalize, HeartbeatInv, Beat!TypeOK
  <2>3. beat_main' \in {"running", "stopping", "stopped", "finalized"}
    BY <1>4 DEF Beat!tc_heartbeat_manager_start, Beat!CallStop,
       Beat!tc_heartbeat_manager_stop,
                Beat!tc_heartbeat_manager_finalize
  <2>4. KeysCurrent' <=> KeysCurrent
    BY <2>1 DEF KeysCurrent
  <2>5. UrlsCurrent'
    BY <2>1 DEF HeartbeatInv, UrlsCurrent
  <2>6. Beat!TypeOK'
    BY <2>1, <2>2, <2>3 DEF HeartbeatInv, Beat!TypeOK
  <2> QED BY <2>1, <2>4, <2>5, <2>6 DEF HeartbeatInv
<1>5. CASE UNCHANGED Beat!vars
  BY <1>5 DEF Beat!vars, HeartbeatInv, Beat!TypeOK, UrlsCurrent, KeysCurrent
<1> QED BY <1>1, <1>2, <1>3, <1>4, <1>5, BeatKeepsInv, ValidateKeepsInv DEF Beat!Next,
   Beat!Worker

\* Between two cycles of heartbeat_worker, a login key that is a digest and
\* nothing more is refused once a real service has accepted that digest, from
\* whatever key, for any number of services, also when some draw equal salts.
THEOREM KeysAcceptedOnce ==
  ASSUME Beat!HeartbeatConstants
  PROVE  Beat!Spec => []Beat!OncePerCycle
<1>1. Beat!Init => HeartbeatInv
  BY InitHeartbeatInv
<1>2. HeartbeatInv /\ [Beat!Next]_Beat!vars => HeartbeatInv'
  BY NextHeartbeatInv
<1>3. HeartbeatInv => Beat!OncePerCycle
  BY DEF HeartbeatInv, Beat!OncePerCycle
<1> QED BY <1>1, <1>2, <1>3, PTL DEF Beat!Spec

\* Whoever has the manager's mutex sees salts, keys and URLs of one cycle.
THEOREM CyclesNotMixed ==
  ASSUME Beat!HeartbeatConstants
  PROVE  Beat!Spec => []Beat!OneCycle
<1>1. Beat!Init => HeartbeatInv
  BY InitHeartbeatInv
<1>2. HeartbeatInv /\ [Beat!Next]_Beat!vars => HeartbeatInv'
  BY NextHeartbeatInv
<1>3. HeartbeatInv => Beat!OneCycle
  BY DEF HeartbeatInv, Beat!OneCycle, UrlsCurrent, KeysCurrent
<1> QED BY <1>1, <1>2, <1>3, PTL DEF Beat!Spec
=============================================================================
