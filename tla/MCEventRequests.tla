-------------------------- MODULE MCEventRequests --------------------------
(***************************************************************************)
(* An instance of EventRequests for TLC.  It starts at three moments of an *)
(* event, each with the requests that belong to it, so that the search is  *)
(* spent on their interleavings.                                           *)
(***************************************************************************)
EXTENDS EventRequests

CONSTANTS r1, ann, bob, cho, dan, pam, noUser, i1, s1, s2

SlotSymmetry == Permutations(Slots)

(* The host joins the event as a guest.                                    *)
EventHost == [r \in Rooms |-> dan]

EventReferrals == [u \in Users |-> NoUser]

RoomForFour == [male |-> 2, female |-> 2]

EventCapacities == {RoomForFour}

(* Bound: no profile is edited on the day.                                 *)
EventProfiles == {}

EventChoiceLists == {<<"interested">>, <<"maybe">>, <<"interested", "maybe">>}

(* Of a guest of the room, of nobody, and of no room.                      *)
EventComplaints ==
    {[by |-> ann, about |-> bob, room |-> r1],
     [by |-> bob, about |-> NoUser, room |-> r1],
     [by |-> bob, about |-> ann, room |-> "none"]}

Women(W) == [u \in Users |->
    IF u = pam THEN NoProfile
    ELSE [gender |-> IF u \in W THEN "female" ELSE "male", complete |-> TRUE]]

(* A confirmed room whose four applicants have paid; the accounts in B are *)
(* blocked, and the reports that may be filed are filed if told.           *)
Event(B, told) ==
    /\ capacity = [r \in Rooms |-> RoomForFour]
    /\ deadlinePassed = [r \in Rooms |-> TRUE]
    /\ planner = [r \in Rooms |-> pam]
    /\ application = [r \in Rooms |-> [u \in Users |->
          IF u = pam THEN "none" ELSE "confirmed"]]
    /\ userStatus = [u \in Users |-> IF u \in B THEN "blocked" ELSE "active"]
    /\ plannerStatus = [p \in Planners |-> "approved"]
    /\ credits = {[user |-> dan, source |-> "viable_host_bonus",
                   subject |-> r, grant |-> <<r, bob>>] : r \in Rooms}
    /\ bonusEmitted = [u \in Users |-> FALSE]
    /\ MatchInit
    /\ feedback = [r \in Rooms |-> [u \in Users |-> IF told THEN 1 ELSE 0]]
    /\ report = [i \in Reports |->
          IF told THEN [Filed([by |-> ann, about |-> bob, room |-> r1])
                           EXCEPT !.status = "resolved"]
          ELSE NoReport]
    /\ EventRequestInit

(* The planner opens the check-in and leads through two rounds: cho and    *)
(* dan are there, ann and bob perhaps, and none of them sends a request.   *)
PlannersHour ==
    /\ Event(Users \ {pam}, TRUE)
    /\ status = [r \in Rooms |-> "confirmed"]
    /\ profile = Women({ann, cho})
    /\ checkin = [r \in Rooms |-> [u \in Users |->
          IF u \in {cho, dan} THEN "checked_in" ELSE "none"]]
    /\ session = [r \in Rooms |-> NoSession]
    /\ rounds = [r \in Rooms |-> <<>>]
    /\ seats = [r \in Rooms |-> {}]

(* ann and bob met in the only round of an event that is over.             *)
Over ==
    /\ status = [r \in Rooms |-> "completed"]
    /\ checkin = [r \in Rooms |-> [u \in Users |->
          IF u \in {ann, bob} THEN "checked_in"
          ELSE IF u \in {cho, dan} THEN "no_show" ELSE "none"]]
    /\ session = [r \in Rooms |-> [status |-> "completed", current |-> 1]]
    /\ rounds = [r \in Rooms |-> <<"completed">>]
    /\ seats = [r \in Rooms |-> RoundRobinPairs(<<bob>>, <<ann>>)]

(* They choose and propose; everything else has been said.                 *)
ChoicesHour == Over /\ Event({cho, dan, pam}, TRUE) /\ profile = Women({ann, cho})

(* They give feedback and report; there is nobody for them to choose.      *)
FeedbackHour == Over /\ Event({cho, dan}, FALSE) /\ profile = Women({ann, bob, cho})

(* Bound: no admin approves or suspends a planner who is blocked.          *)
QuietAdmin == userStatus[pam] = "blocked" => UNCHANGED plannerStatus

MCEventSpec ==
    (PlannersHour \/ ChoicesHour \/ FeedbackHour) /\ [][EventNext]_allEventVars
=============================================================================
