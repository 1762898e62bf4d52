---------------------------- MODULE RoomPromise ----------------------------
(***************************************************************************)
(* What a room promises to its host and its guests, whatever the services  *)
(* do inside: the phases follow one another in one order and none is       *)
(* skipped or taken back, a guest once on the roster stays on it, and the  *)
(* host is rewarded in the very step in which a guest who is not the first *)
(* makes the room viable.                                                  *)
(***************************************************************************)
CONSTANTS Rooms, Users

VARIABLES phase, roster, rewarded

vars == <<phase, roster, rewarded>>

Init ==
    /\ phase = [r \in Rooms |-> "none"]
    /\ roster = [r \in Rooms |-> {}]
    /\ rewarded = {}

Advance(r, from, to) ==
    /\ phase[r] = from
    /\ phase' = [phase EXCEPT ![r] = to]
    /\ UNCHANGED <<roster, rewarded>>

(* A payment puts a guest on the roster of a room open to the public.      *)
Admit(r, u) ==
    /\ phase[r] \notin {"none", "draft"}
    /\ roster' = [roster EXCEPT ![r] = @ \cup {u}]
    /\ UNCHANGED <<phase, rewarded>>

AdmitAndPromote(r, u) ==
    /\ phase[r] = "published"
    /\ roster[r] \ {u} # {}
    /\ roster' = [roster EXCEPT ![r] = @ \cup {u}]
    /\ phase' = [phase EXCEPT ![r] = "viable"]
    /\ rewarded' = rewarded \cup {r}

Next == \E r \in Rooms :
    \/ Advance(r, "none", "draft")
    \/ Advance(r, "draft", "published")
    \/ Advance(r, "viable", "assigned")
    \/ Advance(r, "assigned", "confirmed")
    \/ Advance(r, "confirmed", "in_progress")
    \/ Advance(r, "in_progress", "completed")
    \/ \E u \in Users : Admit(r, u) \/ AdmitAndPromote(r, u)

Spec == Init /\ [][Next]_vars
=============================================================================
