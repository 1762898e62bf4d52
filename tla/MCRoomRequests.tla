--------------------------- MODULE MCRoomRequests ---------------------------
(***************************************************************************)
(* Instances of RoomRequests for TLC.  They start from states that serial  *)
(* requests reach, so that the search is spent on interleavings.           *)
(***************************************************************************)
EXTENDS RoomRequests, TLC

CONSTANTS r1, r2, host, ann, bob, cho, pam, noUser, s1, s2

SlotSymmetry == Permutations(Slots)

EveryRoomHosted == [r \in Rooms |-> host]

Nobody == [u \in Users |-> NoUser]

HostReferred == [u \in Users |-> IF u \in Participants THEN host ELSE NoUser]

SmallRoom == [male |-> 1, female |-> 1]

OneCapacity == {SmallRoom}

Couple == {[gender |-> "male", complete |-> TRUE],
           [gender |-> "female", complete |-> TRUE]}

(* Rooms with the given status, complete profiles, approved planners, and  *)
(* in every room an application of the given status by each of applicants; *)
(* the deadlines have passed if there are applications already.            *)
Started(roomStatus, applicationStatus, applicants) ==
    /\ status = [r \in Rooms |-> roomStatus]
    /\ capacity = [r \in Rooms |-> SmallRoom]
    /\ deadlinePassed = [r \in Rooms |-> applicationStatus # "none"]
    /\ planner = [r \in Rooms |-> NoUser]
    /\ application = [r \in Rooms |-> [u \in Users |->
          IF u \in applicants[r] THEN applicationStatus ELSE "none"]]
    /\ profile = [u \in Users |->
          IF u \notin Participants THEN NoProfile
          ELSE [gender |-> IF u = ann THEN "female" ELSE "male",
                complete |-> TRUE]]
    /\ userStatus = [u \in Users |-> "active"]
    /\ plannerStatus = [p \in Planners |-> "approved"]
    /\ credits = {}
    /\ bonusEmitted = [u \in Users |-> FALSE]
    /\ RequestInit

Everybody == [r \in Rooms |-> Participants]

(* Everybody applied to the first room, ann to the others too.             *)
AnnEverywhere == [r \in Rooms |-> IF r = r1 THEN Participants ELSE {ann}]

(* Rooms to be created, whole lives of their applications.                 *)
FreshSpec == Started("none", "none", Everybody) /\ [][RequestNext]_allVars

(* A published room with new applications.                                 *)
SubmittedSpec == Started("published", "submitted", Everybody) /\ [][RequestNext]_allVars

(* Published rooms, applications decided and waiting for their payment.    *)
ApprovedSpec == Started("published", "approved", Everybody) /\ [][RequestNext]_allVars

(* Payments by ann in two rooms and by the others, all of them progressing.*)
PaymentsSpec ==
    Started("published", "approved", AnnEverywhere) /\ [][RequestNext]_allVars
        /\ Fairness
=============================================================================
