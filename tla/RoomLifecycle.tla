--------------------------- MODULE RoomLifecycle ---------------------------
(***************************************************************************)
(* A room from its creation to the planner's confirmation: the host's      *)
(* operations, the applications to it, the promotion to VIABLE with its    *)
(* reward, the referral rewards, the planner's assignment.                 *)
(*                                                                         *)
(* Every request runs alone here: one action is one whole endpoint, with   *)
(* all the service calls it makes before its commit.  What interleaved     *)
(* requests do is the subject of RoomRequests.                             *)
(*                                                                         *)
(* An endpoint that raises an error rolls its transaction back and changes *)
(* nothing: it is an action that is not enabled.  An application is        *)
(* identified by its room and its user (the table has a unique constraint  *)
(* on the two), a planner by the user that owns the planner row.           *)
(***************************************************************************)
EXTENDS RollingTypes

CONSTANTS
    Rooms, Users,
    Participants,        \* the users who may fill in a profile
    Planners,            \* the users with role planner and a planner row
    Moderated,           \* bound: the users an admin may block and unblock
    HostOf,              \* HostOf[r] creates room r
    ReferredBy,          \* whose referral code u registered with, or NoUser
    NoUser,
    Capacities,          \* the pairs of capacities a host may ask for
    Profiles,            \* the profiles a user may save
    MaxReferralBonuses   \* MAX_REFERRAL_BONUSES_PER_HOST

NoProfile == [gender |-> "none", complete |-> FALSE]

ASSUME RoomConstants ==
    /\ IsFiniteSet(Users)
    /\ Participants \subseteq Users /\ Planners \subseteq Users
    /\ Moderated \subseteq Users
    /\ HostOf \in [Rooms -> Users]
    /\ NoUser \notin Users
    /\ ReferredBy \in [Users -> Users \cup {NoUser}]
    /\ \A u \in Users : ReferredBy[u] # u
    /\ Capacities \subseteq [male : 1..20, female : 1..20]
    /\ Profiles \subseteq [gender : Gender, complete : BOOLEAN]
    /\ MaxReferralBonuses \in Nat

VARIABLES
    status,          \* rooms.status, "none" before the room exists
    capacity,        \* rooms.male_capacity and female_capacity
    deadlinePassed,  \* whether now() is past rooms.application_deadline
    planner,         \* rooms.planner_id
    application,     \* application[r][u]: room_applications.status or "none"
    profile,         \* profiles.gender, and whether the profile is complete
    userStatus,      \* users.status
    plannerStatus,   \* planners.status
    credits,         \* the rows of table credits
    bonusEmitted     \* users.referral_bonus_emitted

roomVars == <<status, capacity, deadlinePassed, planner>>
accountVars == <<profile, userStatus, plannerStatus>>
creditVars == <<credits, bonusEmitted>>
vars == <<roomVars, application, accountVars, creditVars>>

(* A row of table credits.  grant, the application whose payment led to    *)
(* the row, stands for the row's id: equal awards of two payments are two  *)
(* rows.                                                                   *)
Credit == [user : Users, source : CreditSource,
           subject : Rooms \cup Users, grant : Rooms \X Users]

TypeOK ==
    /\ status \in [Rooms -> RoomStatus \cup {"none"}]
    /\ capacity \in [Rooms -> [male : 1..20, female : 1..20]]
    /\ deadlinePassed \in [Rooms -> BOOLEAN]
    /\ planner \in [Rooms -> Planners \cup {NoUser}]
    /\ application \in [Rooms -> [Users -> ApplicationStatus \cup {"none"}]]
    /\ profile \in [Users -> Profiles \cup {NoProfile}]
    /\ userStatus \in [Users -> UserStatus]
    /\ plannerStatus \in [Planners -> PlannerStatus]
    /\ credits \subseteq Credit
    /\ bonusEmitted \in [Users -> BOOLEAN]

Init ==
    /\ status = [r \in Rooms |-> "none"]
    /\ capacity = [r \in Rooms |-> [male |-> 1, female |-> 1]]
    /\ deadlinePassed = [r \in Rooms |-> FALSE]
    /\ planner = [r \in Rooms |-> NoUser]
    /\ application = [r \in Rooms |-> [u \in Users |-> "none"]]
    /\ profile = [u \in Users |-> NoProfile]
    /\ userStatus = [u \in Users |-> "active"]
    /\ plannerStatus = [p \in Planners |-> "pending"]
    /\ credits = {}
    /\ bonusEmitted = [u \in Users |-> FALSE]

-----------------------------------------------------------------------------
(* What the services read. *)

Active(u) == userStatus[u] = "active"

(* The applicants who hold a confirmed application among apps.             *)
ConfirmedIn(apps) == {u \in Users : apps[u] = "confirmed"}

(* get_capacity_summary: the confirmed applicants of one gender, as their  *)
(* profiles have it now.                                                   *)
ConfirmedOf(apps, g) == {u \in ConfirmedIn(apps) : profile[u].gender = g}

QuorumIn(apps, cap) ==
    /\ Cardinality(ConfirmedOf(apps, "male")) >= Threshold(cap.male)
    /\ Cardinality(ConfirmedOf(apps, "female")) >= Threshold(cap.female)

(* maybe_promote_to_viable's decision, with apps the room's applications.  *)
MaybePromoteToViable(r, apps) ==
    status[r] \in PROMOTABLE_FROM /\ QuorumIn(apps, capacity[r])

-----------------------------------------------------------------------------
(* What a payment awards.  The operators named ...Variant are mistakes the *)
(* properties must reveal: a bonus without the look for an earlier one, an *)
(* award to one side only, an off-by-one in the cap, a flag that is not    *)
(* raised when the cap stops the award.                                    *)

BonusUncheckedVariant(r, grant) ==
    {[user |-> HostOf[r], source |-> "viable_host_bonus",
      subject |-> r, grant |-> grant]}

ViableHostBonus(r, grant) ==
    LET same == {c \in credits : /\ c.user = HostOf[r]
                                 /\ c.source = "viable_host_bonus"
                                 /\ c.subject = r}
    IN  IF same # {} THEN {}
        ELSE {[user |-> HostOf[r], source |-> "viable_host_bonus",
               subject |-> r, grant |-> grant]}

ReferrerCredits(u) ==
    {c \in credits : c.user = u /\ c.source = "referral_host"}

CapReachedLateVariant(u) ==
    Cardinality(ReferrerCredits(ReferredBy[u])) > MaxReferralBonuses

CapReached(u) ==
    Cardinality(ReferrerCredits(ReferredBy[u])) >= MaxReferralBonuses

ReferralDueUncappedVariant(u) ==
    ReferredBy[u] # NoUser /\ ~bonusEmitted[u] /\ ~CapReached(u)

ReferralDue(u) == ReferredBy[u] # NoUser /\ ~bonusEmitted[u]

PairPaid(u) == \E c \in ReferrerCredits(ReferredBy[u]) : c.subject = u

OneSidedVariant(u, grant) ==
    {[user |-> ReferredBy[u], source |-> "referral_host",
      subject |-> u, grant |-> grant]}

PairOfCredits(u, grant) ==
    {[user |-> ReferredBy[u], source |-> "referral_host",
      subject |-> u, grant |-> grant],
     [user |-> u, source |-> "referral_friend",
      subject |-> ReferredBy[u], grant |-> grant]}

ReferralPair(u, grant) ==
    IF PairPaid(u) \/ CapReached(u) THEN {} ELSE PairOfCredits(u, grant)

-----------------------------------------------------------------------------
(* The host's room. *)

CreateRoom(r) ==
    /\ status[r] = "none"
    /\ Active(HostOf[r])
    /\ \E c \in Capacities, late \in BOOLEAN :
          /\ capacity' = [capacity EXCEPT ![r] = c]
          /\ deadlinePassed' = [deadlinePassed EXCEPT ![r] = late]
    /\ status' = [status EXCEPT ![r] = "draft"]
    /\ UNCHANGED <<planner, application, accountVars, creditVars>>

(* The host may move the capacities and the deadline; the promotion to     *)
(* VIABLE is not evaluated again.                                          *)
UpdateRoom(r) ==
    /\ status[r] \in HOST_EDITABLE_STATES
    /\ Active(HostOf[r])
    /\ \E c \in Capacities, late \in BOOLEAN :
          /\ capacity' = [capacity EXCEPT ![r] = c]
          /\ deadlinePassed' = [deadlinePassed EXCEPT ![r] = late]
    /\ UNCHANGED <<status, planner, application, accountVars, creditVars>>

PublishRoom(r) ==
    /\ status[r] \in HOST_PUBLISH_FROM
    /\ Active(HostOf[r])
    /\ status' = [status EXCEPT ![r] = "published"]
    /\ UNCHANGED <<capacity, deadlinePassed, planner, application,
                   accountVars, creditVars>>

(* Time passes the deadline of a room that has one.                        *)
DeadlinePasses(r) ==
    /\ status[r] # "none"
    /\ ~deadlinePassed[r]
    /\ deadlinePassed' = [deadlinePassed EXCEPT ![r] = TRUE]
    /\ UNCHANGED <<status, capacity, planner, application, accountVars,
                   creditVars>>

-----------------------------------------------------------------------------
(* Applications. *)

SetApplication(r, u, s) ==
    /\ application' = [application EXCEPT ![r][u] = s]
    /\ UNCHANGED <<roomVars, accountVars, creditVars>>

(* A first application, or one cancelled earlier taken up again.           *)
ApplyToRoom(r, u) ==
    /\ Active(u)
    /\ status[r] \in APPLICATION_OPEN_STATUSES
    /\ ~deadlinePassed[r]
    /\ profile[u].complete
    /\ application[r][u] \in {"none", "cancelled"}
    /\ SetApplication(r, u, "submitted")

CancelMyApplication(r, u) ==
    /\ Active(u)
    /\ application[r][u] \in CANCELLABLE_FROM
    /\ SetApplication(r, u, "cancelled")

ApproveApplication(r, u) ==
    /\ Active(HostOf[r])
    /\ application[r][u] \in APPROVABLE_FROM
    /\ SetApplication(r, u, "approved")

RejectApplication(r, u) ==
    /\ Active(HostOf[r])
    /\ application[r][u] \in REJECTABLE_FROM
    /\ SetApplication(r, u, "rejected")

WaitlistApplication(r, u) ==
    /\ Active(HostOf[r])
    /\ application[r][u] \in WAITLISTABLE_FROM
    /\ SetApplication(r, u, "waitlisted")

(* The host records u's payment.  In the same transaction the room is      *)
(* promoted, and its host rewarded, if this completes the quorum; and if u *)
(* was referred and this is u's first payment, both sides of the referral  *)
(* are rewarded.  Neither the room's status nor its capacity is checked.   *)
MarkApplicationPaid(r, u) ==
    LET apps == [application[r] EXCEPT ![u] = "confirmed"]
        promotes == MaybePromoteToViable(r, apps)
    IN  /\ Active(HostOf[r])
        /\ application[r][u] \in PAYABLE_FROM
        /\ application' = [application EXCEPT ![r] = apps]
        /\ status' = [status EXCEPT ![r] = IF promotes THEN "viable" ELSE @]
        /\ credits' = credits
              \cup (IF promotes THEN ViableHostBonus(r, <<r, u>>) ELSE {})
              \cup (IF ReferralDue(u) THEN ReferralPair(u, <<r, u>>) ELSE {})
        /\ bonusEmitted' = [bonusEmitted EXCEPT ![u] = @ \/ ReferralDue(u)]
        /\ UNCHANGED <<capacity, deadlinePassed, planner, accountVars>>

-----------------------------------------------------------------------------
(* The planner. *)

AssignPlannerToRoom(r, p) ==
    /\ status[r] \in ASSIGNABLE_FROM
    /\ plannerStatus[p] = "approved"
    /\ planner' = [planner EXCEPT ![r] = p]
    /\ status' = [status EXCEPT ![r] = "assigned"]
    /\ UNCHANGED <<capacity, deadlinePassed, application, accountVars,
                   creditVars>>

(* What every endpoint of a planner checks first.                          *)
PlannerActs(r, p) ==
    /\ planner[r] = p
    /\ Active(p)
    /\ plannerStatus[p] = "approved"

ConfirmRoom(r, p) ==
    /\ PlannerActs(r, p)
    /\ status[r] \in CONFIRMABLE_FROM
    /\ LET males == Cardinality(ConfirmedOf(application[r], "male"))
           females == Cardinality(ConfirmedOf(application[r], "female"))
       IN  /\ males + females > 0
           /\ males <= capacity[r].male
           /\ females <= capacity[r].female
    /\ status' = [status EXCEPT ![r] = "confirmed"]
    /\ UNCHANGED <<capacity, deadlinePassed, planner, application,
                   accountVars, creditVars>>

-----------------------------------------------------------------------------
(* Accounts. *)

UpsertMyProfile(u) ==
    /\ Active(u)
    /\ \E p \in Profiles : profile' = [profile EXCEPT ![u] = p]
    /\ UNCHANGED <<roomVars, application, userStatus, plannerStatus,
                   creditVars>>

SuspendUserVariant(u) ==
    /\ \E s \in {"active", "suspended"} :
          userStatus' = [userStatus EXCEPT ![u] = s]
    /\ UNCHANGED <<roomVars, application, profile, plannerStatus, creditVars>>

(* An admin, never the user itself, blocks or unblocks the account.        *)
SetUserStatus(u) ==
    /\ \E s \in {"active", "blocked"} :
          userStatus' = [userStatus EXCEPT ![u] = s]
    /\ UNCHANGED <<roomVars, application, profile, plannerStatus, creditVars>>

SetPlannerStatus(p) ==
    /\ \E s \in {"approved", "suspended"} :
          plannerStatus' = [plannerStatus EXCEPT ![p] = s]
    /\ UNCHANGED <<roomVars, application, profile, userStatus, creditVars>>

-----------------------------------------------------------------------------
RoomStep(r) ==
    \/ CreateRoom(r) \/ UpdateRoom(r) \/ PublishRoom(r) \/ DeadlinePasses(r)

ApplicationStep(r, u) ==
    \/ ApplyToRoom(r, u) \/ CancelMyApplication(r, u)
    \/ ApproveApplication(r, u) \/ RejectApplication(r, u)
    \/ WaitlistApplication(r, u) \/ MarkApplicationPaid(r, u)

PlannerStep(r, p) == AssignPlannerToRoom(r, p) \/ ConfirmRoom(r, p)

AccountStep ==
    \/ \E u \in Participants : UpsertMyProfile(u)
    \/ \E u \in Moderated : SetUserStatus(u)
    \/ \E p \in Planners : SetPlannerStatus(p)

RoomNext ==
    \/ \E r \in Rooms : RoomStep(r)
    \/ \E r \in Rooms, u \in Participants : ApplicationStep(r, u)
    \/ \E r \in Rooms, p \in Planners : PlannerStep(r, p)

Next == RoomNext \/ AccountStep

Spec == Init /\ [][Next]_vars

-----------------------------------------------------------------------------
Confirmed(r) == ConfirmedIn(application[r])

(* What a room's guests and host are promised, with the room's status for  *)
(* its phase and the confirmed applicants for its roster.                  *)
Roster == [r \in Rooms |-> Confirmed(r)]

Rewarded == {r \in Rooms : \E c \in credits :
                c.source = "viable_host_bonus" /\ c.subject = r}

Promise == INSTANCE RoomPromise WITH
    phase <- status, roster <- Roster, rewarded <- Rewarded

(* A room that was promoted to VIABLE keeps at least as many confirmed     *)
(* applicants as the thresholds of its capacities add up to, through every *)
(* later cancellation, rejection, profile edit, room edit and assignment   *)
(* (host_service.py:341-363).  Per gender this does not hold: a confirmed  *)
(* applicant may change gender in the profile.                             *)
ViableQuorumKept ==
    \A r \in Rooms : status[r] \in Promoted =>
        Cardinality(Confirmed(r))
            >= Threshold(capacity[r].male) + Threshold(capacity[r].female)

(* The host has exactly one VIABLE bonus for each room that was promoted,  *)
(* and none for the others (credit_service.py:43, issue once).             *)
BonusOncePerPromotedRoom ==
    \A r \in Rooms :
        Cardinality({c \in credits : c.source = "viable_host_bonus"
                                     /\ c.subject = r})
            = IF status[r] \in Promoted THEN 1 ELSE 0

(* A referral is settled by the referred user's first confirmed            *)
(* application and by nothing else: the flag that stops a second award is  *)
(* up exactly for the referred users who hold a confirmed application in   *)
(* some room (host_service.py:272-283).                                    *)
ReferralSettledByFirstPayment ==
    \A u \in Users : bonusEmitted[u] <=>
        /\ ReferredBy[u] # NoUser
        /\ \E r \in Rooms : application[r][u] = "confirmed"

(* However many friends pay in however many rooms, a referrer is never     *)
(* awarded more than MaxReferralBonuses credits (credit_service.py:76).    *)
ReferrerBonusesCapped ==
    \A u \in Users : Cardinality(ReferrerCredits(u)) <= MaxReferralBonuses

(* Both sides of a referral are awarded, or neither, and each at most once *)
(* however often the friend pays (credit_service.py:73-78).                *)
ReferralPaidOnceToBoth ==
    \A u \in Users :
        LET toReferrer == {c \in credits : c.source = "referral_host"
                                           /\ c.subject = u}
            toFriend == {c \in credits : c.source = "referral_friend"
                                         /\ c.user = u}
        IN  /\ Cardinality(toReferrer) = Cardinality(toFriend)
            /\ Cardinality(toReferrer) <= 1

(* What a room's host decided for good is never undone: a confirmed or a   *)
(* rejected application keeps its status, also through re-applications     *)
(* and cancellations (application_service.py:54-62, 94-106).               *)
SettledStaysSettled ==
    [][\A r \in Rooms, u \in Users :
          application[r][u] \in {"confirmed", "rejected"} =>
              application'[r][u] = application[r][u]]_vars

(* The whole of the above at the level of a room's guests: RoomPromise.    *)
KeepsPromise == Promise!Spec
=============================================================================
