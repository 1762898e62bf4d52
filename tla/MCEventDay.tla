----------------------------- MODULE MCEventDay -----------------------------
(***************************************************************************)
(* An instance of EventDay for TLC that starts from a confirmed room.      *)
(***************************************************************************)
EXTENDS EventDay

CONSTANTS r1, host, ann, bob, cho, dan, eve, fay, pam, noUser

DayHost == [r \in Rooms |-> host]

DayReferrals == [u \in Users |-> NoUser]

RoomForSix == [male |-> 3, female |-> 3]

DayCapacities == {RoomForSix}

DayProfiles == {[gender |-> "male", complete |-> TRUE],
                [gender |-> "female", complete |-> TRUE]}

(* Three men and three women, five of whom have paid; dan's payment is     *)
(* still to come.  To bound the profile edits, all guests but ann are      *)
(* blocked since: they are checked in and seated all the same.             *)
ConfirmedRoom ==
    /\ status = [r \in Rooms |-> "confirmed"]
    /\ capacity = [r \in Rooms |-> RoomForSix]
    /\ deadlinePassed = [r \in Rooms |-> TRUE]
    /\ planner = [r \in Rooms |-> pam]
    /\ application = [r \in Rooms |-> [u \in Users |->
          IF u = dan THEN "approved"
          ELSE IF u \in Participants THEN "confirmed" ELSE "none"]]
    /\ profile = [u \in Users |->
          IF u \notin Participants THEN NoProfile
          ELSE [gender |-> IF u \in {ann, cho, eve} THEN "female" ELSE "male",
                complete |-> TRUE]]
    /\ userStatus = [u \in Users |->
          IF u \in Participants \ {ann} THEN "blocked" ELSE "active"]
    /\ plannerStatus = [p \in Planners |-> "approved"]
    /\ credits = {[user |-> host, source |-> "viable_host_bonus",
                   subject |-> r, grant |-> <<r, bob>>] : r \in Rooms}
    /\ bonusEmitted = [u \in Users |-> FALSE]
    /\ DayInit

ConfirmedRoomSpec == ConfirmedRoom /\ [][DayNext]_allDayVars
=============================================================================
