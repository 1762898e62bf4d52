------------------------------ MODULE EventDay ------------------------------
(***************************************************************************)
(* The day of the event, from the planner's confirmation of the room to    *)
(* the end of the rotation: check-in, the seating in rounds, the rounds.   *)
(*                                                                         *)
(* It goes on beside everything RoomLifecycle does: payments still join    *)
(* the roster, profiles change gender, an admin suspends the planner.  As  *)
(* there, one action is one whole endpoint.                                *)
(***************************************************************************)
EXTENDS RoomLifecycle, RoundRobin, SequencesExt

CheckInStatus == {"not_open", "open", "checked_in", "no_show"}

RotationSessionStatus == {"pending", "running", "paused", "completed"}

RotationRoundStatus == {"pending", "active", "completed"}

VARIABLES
    checkin,   \* checkin[r][u]: check_ins.status, "none" without a row
    session,   \* session[r]: rotation_sessions.status and current_round
    rounds,    \* rounds[r]: the status of each of the session's rounds
    seats      \* seats[r]: the rows of seat_assignments

dayVars == <<checkin, session, rounds, seats>>
allDayVars == <<vars, dayVars>>

(* The operators named ...Variant are mistakes the properties must reveal. *)

NoSession == [status |-> "none", current |-> 0]

DayInit ==
    /\ checkin = [r \in Rooms |-> [u \in Users |-> "none"]]
    /\ session = [r \in Rooms |-> NoSession]
    /\ rounds = [r \in Rooms |-> <<>>]
    /\ seats = [r \in Rooms |-> {}]

-----------------------------------------------------------------------------
(* Check-in. *)

(* Every confirmed applicant gets a check-in; those who have one keep it.  *)
OpenCheckin(r, p) ==
    /\ PlannerActs(r, p)
    /\ status[r] = "confirmed"
    /\ ConfirmedIn(application[r]) # {}
    /\ checkin' = [checkin EXCEPT ![r] = [u \in Users |->
          IF u \in ConfirmedIn(application[r]) /\ @[u] \in {"none", "not_open"}
          THEN "open" ELSE @[u]]]
    /\ UNCHANGED <<vars, session, rounds, seats>>

SetCheckin(r, u, p, from, to) ==
    /\ PlannerActs(r, p)
    /\ checkin[r][u] \in from
    /\ checkin' = [checkin EXCEPT ![r][u] = to]
    /\ UNCHANGED <<vars, session, rounds, seats>>

(* Neither of the two asks whether the rotation has started.               *)
ConfirmCheckinById(r, u, p) ==
    SetCheckin(r, u, p, {"open", "no_show"}, "checked_in")

MarkNoShow(r, u, p) ==
    SetCheckin(r, u, p, {"open", "checked_in"}, "no_show")

-----------------------------------------------------------------------------
(* Rotation. *)

CheckedInOf(r, g) ==
    {u \in Users : checkin[r][u] = "checked_in" /\ profile[u].gender = g}

(* The sessions are seated by ascending user id, and ids are random: any   *)
(* fixed order of the people present.                                      *)
StartSession(r, p) ==
    LET males == CheckedInOf(r, "male")
        females == CheckedInOf(r, "female")
        n == Cardinality(males)
    IN  /\ PlannerActs(r, p)
        /\ status[r] = "confirmed"
        /\ session[r] = NoSession
        /\ males # {} /\ females # {}
        /\ n = Cardinality(females)
        /\ session' = [session EXCEPT ![r] = [status |-> "running", current |-> 1]]
        /\ rounds' = [rounds EXCEPT ![r] =
              [k \in 1..n |-> IF k = 1 THEN "active" ELSE "pending"]]
        /\ seats' = [seats EXCEPT ![r] =
              RoundRobinPairs(SetToSeq(males), SetToSeq(females))]
        /\ status' = [status EXCEPT ![r] = "in_progress"]
        /\ UNCHANGED <<capacity, deadlinePassed, planner, application,
                       accountVars, creditVars, checkin>>

NextRoundPastEndVariant(r, p) ==
    LET now == session[r].current
    IN  /\ PlannerActs(r, p)
        /\ session[r].status = "running"
        /\ now <= Len(rounds[r])
        /\ rounds' = [rounds EXCEPT ![r] =
              [@ EXCEPT ![now] = "completed", ![now + 1] = "active"]]
        /\ session' = [session EXCEPT ![r].current = now + 1]
        /\ UNCHANGED <<vars, checkin, seats>>

NextRound(r, p) ==
    LET now == session[r].current
    IN  /\ PlannerActs(r, p)
        /\ session[r].status = "running"
        /\ now < Len(rounds[r])
        /\ rounds' = [rounds EXCEPT ![r] =
              [@ EXCEPT ![now] = "completed", ![now + 1] = "active"]]
        /\ session' = [session EXCEPT ![r].current = now + 1]
        /\ UNCHANGED <<vars, checkin, seats>>

EndUnstartedVariant(r, p) ==
    /\ PlannerActs(r, p)
    /\ session[r].status # "completed"
    /\ rounds' = [rounds EXCEPT ![r] = [k \in DOMAIN @ |-> "completed"]]
    /\ session' = [session EXCEPT ![r].status = "completed"]
    /\ status' = [status EXCEPT ![r] = "completed"]
    /\ UNCHANGED <<capacity, deadlinePassed, planner, application,
                   accountVars, creditVars, checkin, seats>>

EndSession(r, p) ==
    /\ PlannerActs(r, p)
    /\ session[r].status \notin {"none", "completed"}
    /\ rounds' = [rounds EXCEPT ![r] = [k \in DOMAIN @ |-> "completed"]]
    /\ session' = [session EXCEPT ![r].status = "completed"]
    /\ status' = [status EXCEPT ![r] = "completed"]
    /\ UNCHANGED <<capacity, deadlinePassed, planner, application,
                   accountVars, creditVars, checkin, seats>>

-----------------------------------------------------------------------------
DayStep(r, p) ==
    \/ OpenCheckin(r, p)
    \/ \E u \in Participants : ConfirmCheckinById(r, u, p) \/ MarkNoShow(r, u, p)
    \/ StartSession(r, p)
    \/ NextRound(r, p)
    \/ EndSession(r, p)

DayNext ==
    \/ Next /\ UNCHANGED dayVars
    \/ \E r \in Rooms, p \in Planners : DayStep(r, p)

DaySpec == Init /\ DayInit /\ [][DayNext]_allDayVars

-----------------------------------------------------------------------------
(* A row of seat_assignments; tables and rounds are as many.               *)
Seat == [round : Nat, table : Nat, male : Users, female : Users]

DayTypeOK ==
    /\ TypeOK
    /\ checkin \in [Rooms -> [Users -> CheckInStatus \cup {"none"}]]
    /\ session \in [Rooms -> [status : RotationSessionStatus \cup {"none"},
                              current : Nat]]
    /\ rounds \in [Rooms -> Seq(RotationRoundStatus)]
    /\ seats \in [Rooms -> SUBSET Seat]
    /\ \A r \in Rooms : \A s \in seats[r] :
          s.round \in DOMAIN rounds[r] /\ s.table \in DOMAIN rounds[r]

(* The room, its session and the session's rounds tell one story: before   *)
(* the event there is no session; during it the current round is the only  *)
(* active one, what came before is completed and what comes after pending; *)
(* after it all is completed (rotation_service.py:158-236).                *)
RoundsInOrder ==
    \A r \in Rooms :
        LET now == session[r].current
        IN  /\ status[r] = "in_progress" <=> session[r].status = "running"
            /\ status[r] = "completed" <=> session[r].status = "completed"
            /\ session[r].status = "running" =>
                  /\ now \in DOMAIN rounds[r]
                  /\ \A k \in DOMAIN rounds[r] :
                        rounds[r][k] = IF k < now THEN "completed"
                                       ELSE IF k = now THEN "active"
                                       ELSE "pending"
            /\ session[r].status = "completed" =>
                  \A k \in DOMAIN rounds[r] : rounds[r][k] = "completed"

(* Only guests who paid are seated, whatever happens to their applications *)
(* and check-ins between the opening of the check-in and the start         *)
(* (rotation_service.py:82-103).                                           *)
SeatedHavePaid ==
    \A r \in Rooms : \A s \in seats[r] :
        {s.male, s.female} \subseteq ConfirmedIn(application[r])

(* Over the rounds of a session every man meets every woman exactly once,  *)
(* and nobody has two seats in one round, for any attendance               *)
(* (rotation_service.py:46-60).                                            *)
SeatingIsFair ==
    \A r \in Rooms : NobodyTwice(seats[r]) /\ EverybodyMeets(seats[r])

(* The promises to guests and host hold through the day of the event       *)
(* (host_service.py:341-363, rotation_service.py:153, 234).                *)
DayKeepsPromise == [][Promise!Next]_(Promise!vars)
=============================================================================
