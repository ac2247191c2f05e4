----------------------------- MODULE Heartbeat ------------------------------
(***************************************************************************)
(* The heartbeat manager (src/src/heartbeat.c): a thread that every cycle  *)
(* gives each service a new salt and forgets the keys used so far, pool    *)
(* workers that validate the key of a player who logs in, and the thread   *)
(* that starts, stops and finalizes the manager.  A digest is the MD5 of a *)
(* salt and a user name, taken to be the pair; the key that a login sends  *)
(* is a digest, alone or with more characters after it.  The network and   *)
(* libcurl appear as the outcome of a heartbeat.                           *)
(***************************************************************************)
EXTENDS Integers, FiniteSets

CONSTANTS
  Services,        \* the first num_services natural numbers from 1
  Dummies,         \* the services that are dummies
  Salts,
  NoSalt,          \* the salt before the first cycle, and no URL
  Users,
  allow_web_play

num_services == Cardinality(Services)

\* What the proofs assume of them.
HeartbeatConstants ==
  /\ num_services \in Nat
  /\ Services = 1..num_services
  /\ Dummies \subseteq Services
  /\ NoSalt \notin Salts
  /\ allow_web_play \in BOOLEAN

Digests == [salt : Salts, user : Users]
Keys == [digest : Digests, more : BOOLEAN]
Nobody == "nobody"

VARIABLES
  lock,           \* who has the manager's mutex: only the worker keeps it over steps
  worker,         \* "begin", "waiting", "cycle", "sleeping", "exited"
  i,              \* the worker's loop over the services
  current_salt,   \* of each service
  web_play_url,   \* of each service: the salt it was sent for, NoSalt for NULL
  auth_tree,      \* the digests used in this cycle
  started,
  shutdown,
  main,           \* where the manager's owner is in the life of the manager
  accepted,       \* digests that real services accepted in this cycle
  twice           \* one of them was accepted again, from a key that is it alone

vars == << lock, worker, i, current_salt, web_play_url, auth_tree, started,
           shutdown, main, accepted, twice >>
workerVars == << lock, worker, i >>
serviceVars == << current_salt, web_play_url >>
loginVars == << accepted, twice >>

\* heartbeat_manager_init
Init ==
  /\ lock = Nobody
  /\ worker = "begin"
  /\ i = 1
  /\ current_salt = [s \in Services |-> NoSalt]
  /\ web_play_url = [s \in Services |-> NoSalt]
  /\ auth_tree = {}
  /\ started = FALSE
  /\ shutdown = FALSE
  /\ main = "initialized"
  /\ accepted = {}
  /\ twice = FALSE

-----------------------------------------------------------------------------
(* heartbeat_worker *)

\* while (!manager->shutdown), with the mutex taken.
LoopTest ==
  IF shutdown
  THEN worker' = "exited" /\ lock' = Nobody /\ i' = i
  ELSE worker' = "cycle" /\ lock' = "worker" /\ i' = 1

\* The thread has begun, or was signalled while it waited for the start.
Enter ==
  /\ worker \in {"begin", "waiting"}
  /\ lock = Nobody
  /\ started
  /\ LoopTest
  /\ UNCHANGED << serviceVars, loginVars, auth_tree, started, shutdown, main >>

\* Nothing but a start wakes it.
WaitForStart ==
  /\ worker = "begin"
  /\ lock = Nobody
  /\ ~started
  /\ worker' = "waiting"
  /\ UNCHANGED << serviceVars, loginVars, lock, i, auth_tree, started, shutdown, main >>

\* A new salt for service i, and tc_heartbeat_send_info: it does nothing for a
\* dummy, and a heartbeat that fails leaves the service without a URL.
Beat(salt, sent) ==
  /\ worker = "cycle"
  /\ i <= num_services
  /\ current_salt' = [current_salt EXCEPT ![i] = salt]
  /\ web_play_url' = [web_play_url EXCEPT
       ![i] = IF sent /\ allow_web_play /\ i \notin Dummies THEN salt ELSE NoSalt]
  /\ i' = i + 1
  /\ UNCHANGED << loginVars, lock, worker, auth_tree, started, shutdown, main >>

\* The used keys are forgotten; the mutex is released for the sleep.
EndCycle ==
  /\ worker = "cycle"
  /\ i > num_services
  /\ auth_tree' = {}
  /\ accepted' = {}
  /\ lock' = Nobody
  /\ worker' = "sleeping"
  /\ UNCHANGED << serviceVars, i, twice, started, shutdown, main >>

WakeUp ==
  /\ worker = "sleeping"
  /\ lock = Nobody
  /\ LoopTest
  /\ UNCHANGED << serviceVars, loginVars, auth_tree, started, shutdown, main >>

Worker ==
  \/ Enter \/ WaitForStart \/ EndCycle \/ WakeUp
  \/ \E salt \in Salts, sent \in BOOLEAN : Beat(salt, sent)

-----------------------------------------------------------------------------
(* tc_heartbeat_manager_validate *)

\* The service that accepts the key: the first that is a dummy or whose salt
\* the digest that the key begins with was made with; one for which MD5 cannot
\* be computed is passed over.
Accepts(key, failed) ==
  {s \in Services \ failed : s \in Dummies \/ current_salt[s] = key.digest.salt}

First(S) == CHOOSE s \in S : \A t \in S : s <= t

\* The tree holds digests, and is searched for the whole key.
Used(key) == ~key.more /\ key.digest \in auth_tree

Validate(key, failed) ==
  /\ main \in {"running", "stopping", "stopped"}
  /\ lock = Nobody
  /\ IF Used(key) \/ Accepts(key, failed) = {}
     THEN UNCHANGED << auth_tree, loginVars >>
     ELSE LET s == First(Accepts(key, failed)) IN
          /\ auth_tree' = IF s \in Dummies THEN auth_tree ELSE auth_tree \cup {key.digest}
          /\ accepted' = IF s \in Dummies THEN accepted ELSE accepted \cup {key.digest}
          /\ twice' = (twice \/ (s \notin Dummies /\ ~key.more /\ key.digest \in accepted))
  /\ UNCHANGED << workerVars, serviceVars, started, shutdown, main >>

-----------------------------------------------------------------------------
(* The owner of the manager *)

tc_heartbeat_manager_start ==
  /\ main = "initialized"
  /\ lock = Nobody
  /\ started' = TRUE
  /\ main' = "running"
  /\ UNCHANGED << workerVars, serviceVars, loginVars, auth_tree, shutdown >>

\* tc_server_stop calls tc_heartbeat_manager_stop, which wants the mutex.
CallStop ==
  /\ main = "running"
  /\ main' = "stopping"
  /\ UNCHANGED << workerVars, serviceVars, loginVars, auth_tree, started, shutdown >>

tc_heartbeat_manager_stop ==
  /\ main = "stopping"
  /\ lock = Nobody
  /\ shutdown' = TRUE
  /\ main' = "stopped"
  /\ UNCHANGED << workerVars, serviceVars, loginVars, auth_tree, started >>

\* It joins the thread first.
tc_heartbeat_manager_finalize ==
  /\ main = "stopped"
  /\ worker = "exited"
  /\ main' = "finalized"
  /\ UNCHANGED << workerVars, serviceVars, loginVars, auth_tree, started, shutdown >>

Next ==
  \/ Worker
  \/ \E key \in Keys, failed \in SUBSET (Services \ Dummies) : Validate(key, failed)
  \/ tc_heartbeat_manager_start
  \/ CallStop
  \/ tc_heartbeat_manager_stop
  \/ tc_heartbeat_manager_finalize

Spec == Init /\ [][Next]_vars

-----------------------------------------------------------------------------
TypeOK ==
  /\ lock \in {Nobody, "worker"}
  /\ worker \in {"begin", "waiting", "cycle", "sleeping", "exited"}
  /\ i \in 1..(num_services + 1)
  /\ current_salt \in [Services -> Salts \cup {NoSalt}]
  /\ web_play_url \in [Services -> Salts \cup {NoSalt}]
  /\ auth_tree \subseteq Digests
  /\ started \in BOOLEAN /\ shutdown \in BOOLEAN
  /\ main \in {"initialized", "running", "stopping", "stopped", "finalized"}
  /\ accepted \subseteq Digests
  /\ twice \in BOOLEAN

\* A digest that a real service has accepted in this cycle is not accepted
\* again from a key that is the digest and nothing more, whichever service it
\* was, also when two services drew the same salt.  A key with more characters
\* after the digest is not found in the tree (heartbeat.c:178, 206), and of it
\* this says nothing.
OncePerCycle == ~twice

\* Whoever gets the mutex sees one cycle: every used digest belongs to a salt that
\* some service has now, and every URL to the salt its service has now.
OneCycle ==
  lock = Nobody =>
    /\ \A digest \in auth_tree : \E s \in Services \ Dummies : current_salt[s] = digest.salt
    /\ \A s \in Services : web_play_url[s] \in {NoSalt, current_salt[s]}
=============================================================================
