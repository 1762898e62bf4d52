--------------------------- MODULE MCMatchChoices ---------------------------
(***************************************************************************)
(* An instance of MatchChoices for TLC that starts with the rotation.      *)
(***************************************************************************)
EXTENDS MatchChoices

CONSTANTS r1, host, ann, bob, cho, pam, noUser

MatchHost == [r \in Rooms |-> host]

MatchReferrals == [u \in Users |-> NoUser]

RoomForFour == [male |-> 2, female |-> 2]

MatchCapacities == {RoomForFour}

(* Whoever edits the profile is a woman afterwards.                        *)
MatchProfiles == {[gender |-> "female", complete |-> TRUE]}

OneChoiceEach == {<<"interested">>, <<"maybe">>}

(* ann and bob are seated for one round, cho comes late: a late guest is   *)
(* not seated, but chooses and may be chosen.                              *)
RunningRoom ==
    /\ status = [r \in Rooms |-> "in_progress"]
    /\ capacity = [r \in Rooms |-> RoomForFour]
    /\ deadlinePassed = [r \in Rooms |-> TRUE]
    /\ planner = [r \in Rooms |-> pam]
    /\ application = [r \in Rooms |-> [u \in Users |->
          IF u \in Participants THEN "confirmed" ELSE "none"]]
    /\ profile = [u \in Users |->
          IF u \notin Participants THEN NoProfile
          ELSE [gender |-> IF u = bob THEN "male" ELSE "female", complete |-> TRUE]]
    /\ userStatus = [u \in Users |-> "active"]
    /\ plannerStatus = [p \in Planners |-> "approved"]
    /\ credits = {[user |-> host, source |-> "viable_host_bonus",
                   subject |-> r, grant |-> <<r, bob>>] : r \in Rooms}
    /\ bonusEmitted = [u \in Users |-> FALSE]
    /\ checkin = [r \in Rooms |-> [u \in Users |->
          IF u \in {ann, bob} THEN "checked_in"
          ELSE IF u = cho THEN "open" ELSE "none"]]
    /\ session = [r \in Rooms |-> [status |-> "running", current |-> 1]]
    /\ rounds = [r \in Rooms |-> <<"active">>]
    /\ seats = [r \in Rooms |-> RoundRobinPairs(<<bob>>, <<ann>>)]
    /\ MatchInit

RunningRoomSpec == RunningRoom /\ [][MatchNext]_allMatchVars
=============================================================================
