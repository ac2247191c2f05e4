----------------------------- MODULE JoinRouter -----------------------------
(***************************************************************************)
(* Joining worlds (src/src/joinable.c, tc_find_joinable and                *)
(* tc_session_join; the leave in disconnect_session of src/src/server.c).  *)
(* A joinable is known by its interface: attempt_join takes the session    *)
(* in, itself or another joinable for it, or refuses; leave lets it go.    *)
(* A join has the session's action lock.  A kick need not ask for it, so   *)
(* a disconnect may come between any two steps of a join: attempt_join     *)
(* itself, or another worker, may kick the session that is joining.        *)
(***************************************************************************)
EXTENDS Integers, FiniteSets

CONSTANTS
  Sessions,
  Joinables,         \* names of the joinables in the list
  default_joinable,
  NoJoinable,
  Routes             \* what the attempt_join of each joinable may return

\* What the proofs assume of them.
RouterConstants ==
  /\ default_joinable \in Joinables
  /\ NoJoinable \notin Joinables
  /\ Routes \in [Joinables -> SUBSET Joinables]

VARIABLES
  connected,
  current_joinable,   \* of each session
  members,            \* the sessions each joinable has taken in (external)
  join,               \* where the join of each session is, "none" without one
  joinable,           \* and whose attempt_join it is about
  leaving,            \* where its disconnect is, "none" without one
  overlapped,         \* a join and a disconnect of it met (history)
  rerouted            \* a joinable handed it to another (history)

vars == << connected, current_joinable, members, join, joinable, leaving, overlapped,
           rerouted >>

\* Addresses: a name, one that nobody has, or NULL, "" and "default".
Addresses == Joinables \cup {"unknown", "default"}

Init ==
  /\ connected = [s \in Sessions |-> FALSE]
  /\ current_joinable = [s \in Sessions |-> NoJoinable]
  /\ members = [j \in Joinables |-> {}]
  /\ join = [s \in Sessions |-> "none"]
  /\ joinable = [s \in Sessions |-> NoJoinable]
  /\ leaving = [s \in Sessions |-> "none"]
  /\ overlapped = {}
  /\ rerouted = {}

\* A fresh session, in no joinable, once the action lock of its slot is free.
Connect(s) ==
  /\ ~connected[s] /\ join[s] = "none"
  /\ connected' = [connected EXCEPT ![s] = TRUE]
  /\ current_joinable' = [current_joinable EXCEPT ![s] = NoJoinable]
  /\ UNCHANGED << members, join, joinable, leaving, overlapped, rerouted >>

tc_find_joinable(address) ==
  CASE address = "default"    -> default_joinable
    [] address \in Joinables  -> address
    [] OTHER                  -> NoJoinable

\* The members after leave was called for the session's joinable, if any.
Left(s) ==
  [j \in Joinables |-> IF j = current_joinable[s] THEN members[j] \ {s} ELSE members[j]]

-----------------------------------------------------------------------------
(* disconnect_session *)

DisconnectLeave(s) ==
  /\ connected[s] /\ leaving[s] = "none"
  /\ members' = Left(s)
  /\ leaving' = [leaving EXCEPT ![s] = "left"]
  /\ overlapped' = IF join[s] = "none" THEN overlapped ELSE overlapped \cup {s}
  /\ UNCHANGED << connected, current_joinable, join, joinable, rerouted >>

DisconnectForget(s) ==
  /\ leaving[s] = "left"
  /\ leaving' = [leaving EXCEPT ![s] = "forgotten"]
  /\ current_joinable' = [current_joinable EXCEPT ![s] = NoJoinable]
  /\ UNCHANGED << connected, members, join, joinable, overlapped, rerouted >>

DisconnectEnd(s) ==
  /\ leaving[s] = "forgotten"
  /\ leaving' = [leaving EXCEPT ![s] = "none"]
  /\ connected' = [connected EXCEPT ![s] = FALSE]
  /\ UNCHANGED << current_joinable, members, join, joinable, overlapped, rerouted >>

-----------------------------------------------------------------------------
(* tc_session_join *)

GoTo(s, place, j) ==
  /\ join' = [join EXCEPT ![s] = place]
  /\ joinable' = [joinable EXCEPT ![s] = j]

\* The joinable is found, and the session leaves its old one, which stays its
\* current one for now.  When nothing is found the join returns.
JoinLeave(s, address) ==
  /\ connected[s] /\ join[s] = "none"
  /\ tc_find_joinable(address) # NoJoinable
  /\ GoTo(s, "attempt", tc_find_joinable(address))
  /\ members' = Left(s)
  /\ overlapped' = IF leaving[s] = "none" THEN overlapped ELSE overlapped \cup {s}
  /\ UNCHANGED << connected, current_joinable, leaving, rerouted >>

\* attempt_join of j takes the session in, or has another joinable do it.  What
\* it returns is only compared with NULL.
TakenIn(s, j) ==
  \E joined \in Routes[j] :
    /\ members' = [members EXCEPT ![joined] = @ \cup {s}]
    /\ rerouted' = IF joined = j THEN rerouted ELSE rerouted \cup {s}
    /\ GoTo(s, "store", j)
    /\ UNCHANGED << connected, current_joinable, leaving, overlapped >>

Refused(s, place) ==
  /\ GoTo(s, place, joinable[s])
  /\ UNCHANGED << connected, current_joinable, members, leaving, overlapped, rerouted >>

\* A session that is refused is told so, and kicked when it cannot be told.
Attempt(s) ==
  /\ join[s] = "attempt"
  /\ TakenIn(s, joinable[s]) \/ Refused(s, "default") \/ Refused(s, "kick")

AttemptDefault(s) ==
  /\ join[s] = "default"
  /\ TakenIn(s, default_joinable) \/ Refused(s, "kick")

StoreJoinable(s) ==
  /\ join[s] = "store"
  /\ current_joinable' = [current_joinable EXCEPT ![s] = joinable[s]]
  /\ GoTo(s, "none", NoJoinable)
  /\ UNCHANGED << connected, members, leaving, overlapped, rerouted >>

\* The session has left its old joinable already, and leaves it again.
JoinKicks(s) ==
  /\ join[s] = "kick"
  /\ members' = Left(s)
  /\ current_joinable' = [current_joinable EXCEPT ![s] = NoJoinable]
  /\ connected' = [connected EXCEPT ![s] = FALSE]
  /\ GoTo(s, "none", NoJoinable)
  /\ UNCHANGED << leaving, overlapped, rerouted >>

tc_session_join(s) ==
  \/ \E address \in Addresses : JoinLeave(s, address)
  \/ Attempt(s) \/ AttemptDefault(s) \/ StoreJoinable(s) \/ JoinKicks(s)

disconnect_session(s) == DisconnectLeave(s) \/ DisconnectForget(s) \/ DisconnectEnd(s)

Next == \E s \in Sessions : Connect(s) \/ disconnect_session(s) \/ tc_session_join(s)

Spec == Init /\ [][Next]_vars

-----------------------------------------------------------------------------
\* Whatever joins fail on the way, and whoever joins and leaves at the same time,
\* a connected session that is not on its way is in its current joinable and in
\* no other, and a session that is gone is in none.  There are two exceptions.
\* A disconnect that meets a join of the session may leave it in a joinable for
\* ever, and store that in a session that is gone.  And a session that was handed
\* on, as joinable.h:16 allows, is in a joinable that it never leaves: what
\* attempt_join returns is not kept.
MembershipAgrees ==
  \A s \in Sessions \ (overlapped \cup rerouted) :
    join[s] = "none" /\ leaving[s] = "none" =>
      {j \in Joinables : s \in members[j]} =
        IF connected[s] /\ current_joinable[s] # NoJoinable THEN {current_joinable[s]} ELSE {}
=============================================================================
