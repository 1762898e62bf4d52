------------------------ MODULE RoomLifecycleProofs ------------------------
(***************************************************************************)
(* What RoomLifecycle guarantees for every set of rooms, users and         *)
(* capacities, every referral graph and every referral cap.                *)
(***************************************************************************)
EXTENDS RoomLifecycle, FiniteSetTheorems, TLAPS

-----------------------------------------------------------------------------
(* Type correctness. *)

LEMMA AwardsAreCredits ==
    ASSUME RoomConstants, TypeOK, NEW r \in Rooms, NEW u \in Users
    PROVE  /\ ViableHostBonus(r, <<r, u>>) \subseteq Credit
           /\ ReferralDue(u) => ReferralPair(u, <<r, u>>) \subseteq Credit
<1>1. ViableHostBonus(r, <<r, u>>) \subseteq Credit
  BY DEF RoomConstants, ViableHostBonus, Credit, CreditSource
<1>2. ReferralDue(u) => ReferredBy[u] \in Users
  BY DEF RoomConstants, ReferralDue
<1>3. ReferralDue(u) => ReferralPair(u, <<r, u>>) \subseteq Credit
  BY <1>2 DEF ReferralPair, PairOfCredits, Credit, CreditSource
<1>4. QED
  BY <1>1, <1>3

LEMMA InitTypeOK == ASSUME RoomConstants, Init PROVE TypeOK
  BY DEF RoomConstants, Init, TypeOK, RoomStatus, ApplicationStatus,
         UserStatus, PlannerStatus

LEMMA NextTypeOK == ASSUME RoomConstants, TypeOK, [Next]_vars PROVE TypeOK'
<1> USE DEF TypeOK
<1>1. ASSUME NEW r \in Rooms, RoomStep(r) PROVE TypeOK'
  <2>1. capacity' \in [Rooms -> [male : 1..20, female : 1..20]]
    BY <1>1 DEF RoomStep, CreateRoom, UpdateRoom, PublishRoom, DeadlinePasses,
                RoomConstants
  <2>2. QED
    BY <1>1, <2>1 DEF RoomStep, CreateRoom, UpdateRoom, PublishRoom,
         DeadlinePasses, RoomStatus, accountVars, creditVars
<1>2. ASSUME NEW r \in Rooms, NEW u \in Participants, ApplicationStep(r, u)
      PROVE  TypeOK'
  <2> u \in Users
    BY DEF RoomConstants
  <2>1. CASE MarkApplicationPaid(r, u)
    <3>1. status' \in [Rooms -> RoomStatus \cup {"none"}]
      BY <2>1 DEF MarkApplicationPaid, RoomStatus
    <3>2. application' \in [Rooms -> [Users -> ApplicationStatus \cup {"none"}]]
      BY <2>1 DEF MarkApplicationPaid, ApplicationStatus
    <3>3. credits' \subseteq Credit
      BY <2>1, AwardsAreCredits DEF MarkApplicationPaid
    <3>4. bonusEmitted' \in [Users -> BOOLEAN]
      <4>1. (bonusEmitted[u] \/ ReferralDue(u)) \in BOOLEAN
        OBVIOUS
      <4>2. QED
        BY <2>1, <4>1 DEF MarkApplicationPaid
    <3>5. QED
      BY <2>1, <3>1, <3>2, <3>3, <3>4 DEF MarkApplicationPaid, accountVars
  <2>2. CASE \E s \in ApplicationStatus : SetApplication(r, u, s)
    BY <2>2 DEF SetApplication, roomVars, accountVars, creditVars
  <2>3. QED
    BY <1>2, <2>1, <2>2 DEF ApplicationStep, ApplyToRoom, CancelMyApplication,
         ApproveApplication, RejectApplication, WaitlistApplication,
         ApplicationStatus
<1>3. ASSUME NEW r \in Rooms, NEW p \in Planners, PlannerStep(r, p)
      PROVE  TypeOK'
  <2>1. CASE AssignPlannerToRoom(r, p)
    BY <2>1 DEF AssignPlannerToRoom, RoomStatus, accountVars, creditVars
  <2>2. CASE ConfirmRoom(r, p)
    <3>1. status' \in [Rooms -> RoomStatus \cup {"none"}]
      BY <2>2 DEF ConfirmRoom, RoomStatus
    <3>2. QED
      BY <2>2, <3>1 DEF ConfirmRoom, accountVars, creditVars
  <2>3. QED
    BY <1>3, <2>1, <2>2 DEF PlannerStep
<1>4. CASE AccountStep
  <2>1. CASE \E u \in Participants : UpsertMyProfile(u)
    BY <2>1 DEF UpsertMyProfile, roomVars, creditVars
  <2>2. CASE \E u \in Moderated : SetUserStatus(u)
    BY <2>2 DEF SetUserStatus, UserStatus, roomVars, creditVars
  <2>3. CASE \E p \in Planners : SetPlannerStatus(p)
    BY <2>3 DEF SetPlannerStatus, PlannerStatus, roomVars, creditVars
  <2>4. QED
    BY <1>4, <2>1, <2>2, <2>3 DEF AccountStep
<1>5. CASE UNCHANGED vars
  BY <1>5 DEF vars, roomVars, accountVars, creditVars
<1>6. QED
  BY <1>1, <1>2, <1>3, <1>4, <1>5 DEF Next, RoomNext

(* Every variable keeps its type, the rows of credits among them.          *)
THEOREM TypeCorrect == ASSUME RoomConstants PROVE Spec => []TypeOK
<1>1. Init => TypeOK
  BY InitTypeOK
<1>2. TypeOK /\ [Next]_vars => TypeOK'
  BY NextTypeOK
<1>3. QED
  BY <1>1, <1>2, PTL DEF Spec

-----------------------------------------------------------------------------
(* Applications only ever settle. *)

(* Of a step's effects on applications: a settled one keeps its status.    *)
LEMMA SettledStep ==
    ASSUME RoomConstants, TypeOK, [Next]_vars, NEW r \in Rooms, NEW u \in Users,
           application[r][u] \in {"confirmed", "rejected"}
    PROVE  application'[r][u] = application[r][u]
<1> USE DEF TypeOK
<1>1. ASSUME NEW q \in Rooms, NEW v \in Participants, ApplicationStep(q, v)
      PROVE  application'[r][u] = application[r][u]
  <2> v \in Users
    BY DEF RoomConstants
  <2>1. \E s \in ApplicationStatus :
           /\ application' = [application EXCEPT ![q][v] = s]
           /\ application[q][v] \notin {"confirmed", "rejected"}
    BY <1>1 DEF ApplicationStep, ApplyToRoom, CancelMyApplication,
       ApproveApplication, RejectApplication, WaitlistApplication,
       MarkApplicationPaid, SetApplication, ApplicationStatus, CANCELLABLE_FROM,
       APPROVABLE_FROM, REJECTABLE_FROM, WAITLISTABLE_FROM, PAYABLE_FROM
  <2>2. QED
    BY <2>1
<1>2. CASE UNCHANGED application
  BY <1>2
<1>3. QED
  BY <1>1, <1>2 DEF Next, RoomNext, RoomStep, CreateRoom, UpdateRoom,
     PublishRoom, DeadlinePasses, PlannerStep, AssignPlannerToRoom, ConfirmRoom,
     AccountStep, UpsertMyProfile, SetUserStatus, SetPlannerStatus, vars

(* No step of any request takes a confirmation or a rejection back.        *)
THEOREM ApplicationsSettle ==
    ASSUME RoomConstants PROVE Spec => SettledStaysSettled
<1>1. TypeOK /\ [Next]_vars =>
         [\A r \in Rooms, u \in Users :
             application[r][u] \in {"confirmed", "rejected"} =>
                 application'[r][u] = application[r][u]]_vars
  BY SettledStep
<1>2. QED
  BY <1>1, TypeCorrect, PTL DEF Spec, SettledStaysSettled

LEMMA RosterGrows ==
    ASSUME RoomConstants, TypeOK, [Next]_vars, NEW r \in Rooms
    PROVE  /\ Confirmed(r) \subseteq Confirmed(r)'
           /\ IsFiniteSet(Confirmed(r)')
           /\ Cardinality(Confirmed(r)') >= Cardinality(Confirmed(r))
           /\ Cardinality(Confirmed(r)) \in Nat
           /\ Cardinality(Confirmed(r)') \in Nat
<1>1. Confirmed(r) \subseteq Confirmed(r)'
  BY SettledStep DEF Confirmed, ConfirmedIn
<1>2. /\ Confirmed(r) \subseteq Users /\ Confirmed(r)' \subseteq Users
  BY DEF Confirmed, ConfirmedIn
<1>3. /\ IsFiniteSet(Confirmed(r)') /\ IsFiniteSet(Confirmed(r))
  BY <1>2, FS_Subset DEF RoomConstants
<1>4. Cardinality(Confirmed(r)') >= Cardinality(Confirmed(r))
  BY <1>1, <1>3, FS_Subset, FS_CardinalityType
<1>5. QED
  BY <1>1, <1>3, <1>4, FS_CardinalityType

-----------------------------------------------------------------------------
(* The quorum of a promoted room. *)

LEMMA ThresholdType ==
    \A c \in 1..20 : Threshold(c) \in Nat
<1> SUFFICES ASSUME NEW c \in 1..20 PROVE Threshold(c) \in Nat
  OBVIOUS
<1>1. (c + 1) \div 2 \in Nat
  OBVIOUS
<1>2. QED
  BY <1>1 DEF Threshold

(* Half of the men and half of the women are different people.             *)
LEMMA QuorumIsRoster ==
    ASSUME RoomConstants, NEW apps, NEW cap \in [male : 1..20, female : 1..20],
           QuorumIn(apps, cap)
    PROVE  Cardinality(ConfirmedIn(apps))
              >= Threshold(cap.male) + Threshold(cap.female)
<1> DEFINE M == ConfirmedOf(apps, "male")
           F == ConfirmedOf(apps, "female")
           all == ConfirmedIn(apps)
<1>1. /\ M \subseteq all /\ F \subseteq all /\ M \cap F = {}
      /\ all \subseteq Users
  BY DEF ConfirmedOf, ConfirmedIn
<1>2. IsFiniteSet(all) /\ IsFiniteSet(M) /\ IsFiniteSet(F)
  BY <1>1, FS_Subset DEF RoomConstants
<1>3. Cardinality(M \cup F) = Cardinality(M) + Cardinality(F)
  <2>1. Cardinality(M \cap F) = 0
    BY <1>1, FS_EmptySet
  <2>2. Cardinality(M) \in Nat /\ Cardinality(F) \in Nat
    BY <1>2, FS_CardinalityType
  <2>3. Cardinality(M \cup F)
           = Cardinality(M) + Cardinality(F) - Cardinality(M \cap F)
    <3> HIDE DEF M, F
    <3>1. QED
      BY <1>2, FS_Union
  <2>4. QED
    BY <2>1, <2>2, <2>3
<1>4. Cardinality(M \cup F) <= Cardinality(all)
  BY <1>1, <1>2, FS_Subset
<1>5. Threshold(cap.male) \in Nat /\ Threshold(cap.female) \in Nat
  BY ThresholdType
<1>6. /\ Cardinality(M) \in Nat /\ Cardinality(F) \in Nat
      /\ Cardinality(all) \in Nat
  BY <1>2, FS_CardinalityType
<1>7. /\ Cardinality(M) >= Threshold(cap.male)
      /\ Cardinality(F) >= Threshold(cap.female)
  BY DEF QuorumIn
<1>8. QED
  BY <1>3, <1>4, <1>5, <1>6, <1>7

LEMMA QuorumStep ==
    ASSUME RoomConstants, TypeOK, ViableQuorumKept, [Next]_vars
    PROVE  ViableQuorumKept'
<1> SUFFICES ASSUME NEW r \in Rooms, status'[r] \in Promoted
             PROVE  Cardinality(Confirmed(r)')
                       >= Threshold(capacity'[r].male)
                             + Threshold(capacity'[r].female)
  BY DEF ViableQuorumKept, Confirmed, ConfirmedIn
<1>1. CASE status[r] \in Promoted /\ capacity'[r] = capacity[r]
  <2>1. /\ Threshold(capacity[r].male) \in Nat
        /\ Threshold(capacity[r].female) \in Nat
    BY ThresholdType DEF TypeOK
  <2>2. Cardinality(Confirmed(r))
           >= Threshold(capacity[r].male) + Threshold(capacity[r].female)
    BY <1>1 DEF ViableQuorumKept
  <2>3. QED
    BY <1>1, <2>1, <2>2, RosterGrows
<1>2. CASE \E u \in Users : /\ MarkApplicationPaid(r, u)
                            /\ status[r] \notin Promoted
  <2>1. PICK u \in Users : /\ MarkApplicationPaid(r, u)
                           /\ status[r] \notin Promoted
    BY <1>2
  <2> DEFINE apps == [application[r] EXCEPT ![u] = "confirmed"]
  <2>2. MaybePromoteToViable(r, apps)
    BY <2>1 DEF MarkApplicationPaid, TypeOK
  <2>3. QuorumIn(apps, capacity[r])
    BY <2>2 DEF MaybePromoteToViable
  <2>4. Confirmed(r)' = ConfirmedIn(apps)
    BY <2>1 DEF MarkApplicationPaid, TypeOK, Confirmed, ConfirmedIn
  <2>5. capacity' = capacity /\ capacity[r] \in [male : 1..20, female : 1..20]
    BY <2>1 DEF MarkApplicationPaid, TypeOK
  <2>6. QED
    BY <2>3, <2>4, <2>5, QuorumIsRoster
<1>3. \/ status[r] \in Promoted /\ capacity'[r] = capacity[r]
      \/ \E u \in Users : /\ MarkApplicationPaid(r, u)
                          /\ status[r] \notin Promoted
  <2> USE DEF TypeOK, Promoted
  <2>1. ASSUME NEW q \in Rooms, RoomStep(q)
        PROVE  status[r] \in Promoted /\ capacity'[r] = capacity[r]
    BY <2>1 DEF RoomStep, CreateRoom, UpdateRoom, PublishRoom, DeadlinePasses,
                HOST_EDITABLE_STATES, HOST_PUBLISH_FROM
  <2>2. ASSUME NEW q \in Rooms, NEW u \in Participants, ApplicationStep(q, u)
        PROVE  \/ status[r] \in Promoted /\ capacity'[r] = capacity[r]
               \/ \E v \in Users : /\ MarkApplicationPaid(r, v)
                                   /\ status[r] \notin Promoted
    <3> u \in Users
      BY DEF RoomConstants
    <3>1. CASE MarkApplicationPaid(q, u)
      BY <3>1 DEF MarkApplicationPaid
    <3>2. CASE UNCHANGED roomVars
      BY <3>2 DEF roomVars
    <3>3. QED
      BY <2>2, <3>1, <3>2 DEF ApplicationStep, ApplyToRoom, CancelMyApplication,
         ApproveApplication, RejectApplication, WaitlistApplication,
         SetApplication
  <2>3. ASSUME NEW q \in Rooms, NEW p \in Planners, PlannerStep(q, p)
        PROVE  status[r] \in Promoted /\ capacity'[r] = capacity[r]
    <3>1. CASE AssignPlannerToRoom(q, p)
      BY <3>1 DEF AssignPlannerToRoom, ASSIGNABLE_FROM
    <3>2. CASE ConfirmRoom(q, p)
      <4>1. /\ status' = [status EXCEPT ![q] = "confirmed"]
            /\ capacity' = capacity /\ status[q] = "assigned"
        BY <3>2 DEF ConfirmRoom, CONFIRMABLE_FROM
      <4>2. QED
        BY <4>1
    <3>3. QED
      BY <2>3, <3>1, <3>2 DEF PlannerStep
  <2>4. CASE AccountStep \/ UNCHANGED vars
    BY <2>4 DEF AccountStep, UpsertMyProfile, SetUserStatus, SetPlannerStatus,
                roomVars, vars
  <2>5. QED
    BY <2>1, <2>2, <2>3, <2>4 DEF Next, RoomNext
<1>4. QED
  BY <1>1, <1>2, <1>3

(* A promoted room keeps its quorum, for every capacity up to 20 and every *)
(* sequence of requests.                                                   *)
THEOREM QuorumKept == ASSUME RoomConstants PROVE Spec => []ViableQuorumKept
<1>1. Init => ViableQuorumKept
  BY DEF Init, ViableQuorumKept, Promoted
<1>2. TypeOK /\ ViableQuorumKept /\ [Next]_vars => ViableQuorumKept'
  BY QuorumStep
<1>3. QED
  BY <1>1, <1>2, TypeCorrect, PTL DEF Spec

-----------------------------------------------------------------------------
(* The rows of credits. *)

BonusRow(c, r) == c.source = "viable_host_bonus" /\ c.subject = r

ReferrerRow(c, u) == c.source = "referral_host" /\ c.subject = u

FriendRow(c, u) == c.source = "referral_friend" /\ c.user = u

BonusInv == \A r \in Rooms :
    /\ \A c \in credits : BonusRow(c, r) => status[r] \in Promoted
    /\ status[r] \in Promoted => \E c \in credits : BonusRow(c, r)
    /\ \A c, d \in credits : BonusRow(c, r) /\ BonusRow(d, r) => c = d

ReferralInv == \A u \in Users :
    /\ (\E c \in credits : ReferrerRow(c, u))
          <=> (\E c \in credits : FriendRow(c, u))
    /\ \A c \in credits : ReferrerRow(c, u) => bonusEmitted[u]
    /\ \A c, d \in credits : ReferrerRow(c, u) /\ ReferrerRow(d, u) => c = d
    /\ \A c, d \in credits : FriendRow(c, u) /\ FriendRow(d, u) => c = d

CapInv == IsFiniteSet(credits) /\ ReferrerBonusesCapped

(* A step awards nothing, or it is a payment.                              *)
LEMMA OnlyPaymentsAward ==
    ASSUME RoomConstants, TypeOK, [Next]_vars
    PROVE  \/ /\ UNCHANGED creditVars
              /\ \A r \in Rooms : status'[r] \in Promoted <=> status[r] \in Promoted
           \/ \E r \in Rooms, u \in Users : MarkApplicationPaid(r, u)
<1> DEFINE Idle == /\ UNCHANGED creditVars
                   /\ \A r \in Rooms :
                         status'[r] \in Promoted <=> status[r] \in Promoted
<1> USE DEF TypeOK, Promoted
<1>1. ASSUME NEW q \in Rooms, RoomStep(q) PROVE Idle
  BY <1>1 DEF RoomStep, CreateRoom, UpdateRoom, PublishRoom, DeadlinePasses,
              HOST_PUBLISH_FROM
<1>2. ASSUME NEW q \in Rooms, NEW u \in Participants, ApplicationStep(q, u)
      PROVE  Idle \/ MarkApplicationPaid(q, u)
  <2>1. CASE UNCHANGED roomVars /\ UNCHANGED creditVars
    BY <2>1 DEF roomVars
  <2>2. QED
    BY <1>2, <2>1 DEF ApplicationStep, ApplyToRoom, CancelMyApplication,
       ApproveApplication, RejectApplication, WaitlistApplication,
       SetApplication
<1>3. ASSUME NEW q \in Rooms, NEW p \in Planners, PlannerStep(q, p) PROVE Idle
  <2>1. /\ UNCHANGED creditVars /\ status[q] \in {"viable", "assigned"}
        /\ \/ status' = [status EXCEPT ![q] = "assigned"]
           \/ status' = [status EXCEPT ![q] = "confirmed"]
    BY <1>3 DEF PlannerStep, AssignPlannerToRoom, ConfirmRoom, ASSIGNABLE_FROM,
                CONFIRMABLE_FROM
  <2>2. QED
    BY <2>1
<1>4. CASE AccountStep \/ UNCHANGED vars
  BY <1>4 DEF AccountStep, UpsertMyProfile, SetUserStatus, SetPlannerStatus,
              roomVars, vars
<1>5. QED
  BY <1>1, <1>2, <1>3, <1>4 DEF Next, RoomNext, RoomConstants

LEMMA BonusStep ==
    ASSUME RoomConstants, TypeOK, BonusInv, [Next]_vars
    PROVE  BonusInv'
<1>1. CASE /\ UNCHANGED creditVars
           /\ \A r \in Rooms : status'[r] \in Promoted <=> status[r] \in Promoted
  BY <1>1 DEF BonusInv, creditVars
<1>2. ASSUME NEW q \in Rooms, NEW u \in Users, MarkApplicationPaid(q, u)
      PROVE  BonusInv'
  <2> DEFINE promotes ==
               MaybePromoteToViable(q, [application[q] EXCEPT ![u] = "confirmed"])
             new == IF promotes THEN ViableHostBonus(q, <<q, u>>) ELSE {}
             pair == IF ReferralDue(u) THEN ReferralPair(u, <<q, u>>) ELSE {}
  <2>1. credits' = credits \cup new \cup pair
    BY <1>2 DEF MarkApplicationPaid
  <2>2. \A c \in pair : c.source # "viable_host_bonus"
    BY DEF ReferralPair, PairOfCredits
  <2>3. /\ status' = [status EXCEPT ![q] = IF promotes THEN "viable" ELSE @]
        /\ promotes => status[q] \notin Promoted
    BY <1>2 DEF MarkApplicationPaid, MaybePromoteToViable, PROMOTABLE_FROM,
                Promoted
  <2>4. promotes =>
          \E b : /\ new = {b} /\ BonusRow(b, q)
                 /\ \A r \in Rooms : BonusRow(b, r) => r = q
    <3> SUFFICES ASSUME promotes
                 PROVE  \E b : /\ new = {b} /\ BonusRow(b, q)
                               /\ \A r \in Rooms : BonusRow(b, r) => r = q
      OBVIOUS
    <3>1. \A c \in credits : ~BonusRow(c, q)
      BY <2>3 DEF BonusInv
    <3> DEFINE b == [user |-> HostOf[q], source |-> "viable_host_bonus",
                     subject |-> q, grant |-> <<q, u>>]
    <3>2. new = {b}
      BY <3>1 DEF ViableHostBonus, BonusRow
    <3>3. BonusRow(b, q) /\ \A r \in Rooms : BonusRow(b, r) => r = q
      BY DEF BonusRow
    <3> HIDE DEF b, new
    <3>4. QED
      BY <3>2, <3>3
  <2>5. ASSUME NEW r \in Rooms, r # q \/ ~promotes
        PROVE  /\ \A c \in credits' : BonusRow(c, r) => c \in credits
               /\ status'[r] = status[r]
    <3>1. status'[r] = status[r]
      BY <2>3, <2>5 DEF TypeOK
    <3>2. \A c \in new : ~BonusRow(c, r)
      BY <2>4, <2>5
    <3>3. QED
      BY <2>1, <2>2, <3>1, <3>2 DEF BonusRow
  <2>6. ASSUME NEW r \in Rooms, r # q \/ ~promotes
        PROVE  /\ \A c \in credits' : BonusRow(c, r) => status'[r] \in Promoted
               /\ status'[r] \in Promoted => \E c \in credits' : BonusRow(c, r)
               /\ \A c, d \in credits' : BonusRow(c, r) /\ BonusRow(d, r) => c = d
    <3> HIDE DEF new, pair
    <3>1. QED
      BY <2>1, <2>5, <2>6 DEF BonusInv
  <2>7. ASSUME promotes
        PROVE  /\ \A c \in credits' : BonusRow(c, q) => status'[q] \in Promoted
               /\ status'[q] \in Promoted => \E c \in credits' : BonusRow(c, q)
               /\ \A c, d \in credits' : BonusRow(c, q) /\ BonusRow(d, q) => c = d
    <3>1. status'[q] \in Promoted
      BY <2>3, <2>7 DEF TypeOK, Promoted
    <3>2. \A c \in credits \cup pair : ~BonusRow(c, q)
      BY <2>2, <2>3, <2>7 DEF BonusInv, BonusRow
    <3>3. PICK b : new = {b} /\ BonusRow(b, q)
      BY <2>4, <2>7
    <3> HIDE DEF new, pair
    <3>4. QED
      BY <2>1, <3>1, <3>2, <3>3
  <2>8. QED
    BY <2>6, <2>7 DEF BonusInv, BonusRow
<1>3. QED
  BY <1>1, <1>2, OnlyPaymentsAward

(* Each promotion is rewarded once and nothing else is, whatever the       *)
(* number of rooms of one host.                                            *)
THEOREM BonusOnce == ASSUME RoomConstants PROVE Spec => []BonusOncePerPromotedRoom
<1>1. Init => BonusInv
  BY DEF Init, BonusInv, Promoted
<1>2. TypeOK /\ BonusInv /\ [Next]_vars => BonusInv'
  BY BonusStep
<1>3. BonusInv => BonusOncePerPromotedRoom
  <2> SUFFICES ASSUME BonusInv, NEW r \in Rooms
               PROVE  Cardinality({c \in credits : c.source = "viable_host_bonus"
                                                   /\ c.subject = r})
                         = IF status[r] \in Promoted THEN 1 ELSE 0
    BY DEF BonusOncePerPromotedRoom
  <2> DEFINE rows == {c \in credits : c.source = "viable_host_bonus"
                                      /\ c.subject = r}
  <2>1. CASE status[r] \in Promoted
    <3>1. PICK c \in credits : BonusRow(c, r)
      BY <2>1 DEF BonusInv
    <3>2. rows = {c}
      BY <3>1 DEF BonusInv, BonusRow
    <3>3. QED
      BY <2>1, <3>2, FS_Singleton
  <2>2. CASE status[r] \notin Promoted
    <3>1. rows = {}
      BY <2>2 DEF BonusInv, BonusRow
    <3>2. QED
      BY <2>2, <3>1, FS_EmptySet
  <2>3. QED
    BY <2>1, <2>2
<1>4. QED
  BY <1>1, <1>2, <1>3, TypeCorrect, PTL DEF Spec

-----------------------------------------------------------------------------
(* Referrals. *)

LEMMA OnlyPaymentsConfirm ==
    ASSUME RoomConstants, TypeOK, [Next]_vars
    PROVE  \/ /\ UNCHANGED creditVars
              /\ \A r \in Rooms : Confirmed(r)' = Confirmed(r)
           \/ \E r \in Rooms, u \in Users : MarkApplicationPaid(r, u)
<1> DEFINE Idle == /\ UNCHANGED creditVars
                   /\ \A r \in Rooms : Confirmed(r)' = Confirmed(r)
<1> USE DEF TypeOK
<1>1. CASE UNCHANGED application /\ UNCHANGED creditVars
  BY <1>1 DEF Confirmed, ConfirmedIn
<1>2. ASSUME NEW q \in Rooms, NEW u \in Users,
             ApplicationStep(q, u), ~MarkApplicationPaid(q, u)
      PROVE  Idle
  <2>1. \E s \in ApplicationStatus \ {"confirmed"} :
           /\ application' = [application EXCEPT ![q][u] = s]
           /\ application[q][u] # "confirmed"
           /\ UNCHANGED creditVars
    BY <1>2 DEF ApplicationStep, ApplyToRoom, CancelMyApplication,
       ApproveApplication, RejectApplication, WaitlistApplication,
       SetApplication, ApplicationStatus, CANCELLABLE_FROM, APPROVABLE_FROM,
       REJECTABLE_FROM, WAITLISTABLE_FROM
  <2>2. QED
    BY <2>1 DEF Confirmed, ConfirmedIn
<1>3. QED
  BY <1>1, <1>2 DEF Next, RoomNext, RoomStep, CreateRoom, UpdateRoom,
     PublishRoom, DeadlinePasses, PlannerStep, AssignPlannerToRoom, ConfirmRoom,
     AccountStep, UpsertMyProfile, SetUserStatus, SetPlannerStatus, vars,
     RoomConstants

LEMMA SettledByFirstPaymentStep ==
    ASSUME RoomConstants, TypeOK, ReferralSettledByFirstPayment, [Next]_vars
    PROVE  ReferralSettledByFirstPayment'
<1> USE DEF TypeOK
<1>1. ReferralSettledByFirstPayment <=>
        \A u \in Users : bonusEmitted[u] <=>
            ReferredBy[u] # NoUser /\ \E r \in Rooms : u \in Confirmed(r)
  BY DEF ReferralSettledByFirstPayment, Confirmed, ConfirmedIn
<1>2. ReferralSettledByFirstPayment' <=>
        \A u \in Users : bonusEmitted'[u] <=>
            ReferredBy[u] # NoUser /\ \E r \in Rooms : u \in Confirmed(r)'
  BY DEF ReferralSettledByFirstPayment, Confirmed, ConfirmedIn
<1>3. CASE /\ UNCHANGED creditVars
           /\ \A r \in Rooms : Confirmed(r)' = Confirmed(r)
  BY <1>1, <1>2, <1>3 DEF creditVars
<1>4. ASSUME NEW q \in Rooms, NEW v \in Users, MarkApplicationPaid(q, v)
      PROVE  ReferralSettledByFirstPayment'
  <2>1. /\ Confirmed(q)' = Confirmed(q) \cup {v}
        /\ \A r \in Rooms \ {q} : Confirmed(r)' = Confirmed(r)
    BY <1>4 DEF MarkApplicationPaid, Confirmed, ConfirmedIn
  <2>2. \A u \in Users \ {v} : bonusEmitted'[u] = bonusEmitted[u]
    BY <1>4 DEF MarkApplicationPaid
  <2>3. bonusEmitted'[v] <=> bonusEmitted[v] \/ ReferralDue(v)
    <3>1. (bonusEmitted[v] \/ ReferralDue(v)) \in BOOLEAN
      OBVIOUS
    <3>2. bonusEmitted' =
             [bonusEmitted EXCEPT ![v] = bonusEmitted[v] \/ ReferralDue(v)]
      BY <1>4 DEF MarkApplicationPaid
    <3>3. QED
      BY <3>1, <3>2
  <2>4. bonusEmitted'[v] <=> ReferredBy[v] # NoUser
    <3>1. bonusEmitted[v] => ReferredBy[v] # NoUser
      BY <1>1
    <3>2. QED
      BY <2>3, <3>1, Zenon DEF ReferralDue
  <2>5. ASSUME NEW u \in Users \ {v}
        PROVE  bonusEmitted'[u] <=>
                 ReferredBy[u] # NoUser /\ \E r \in Rooms : u \in Confirmed(r)'
    <3>1. (\E r \in Rooms : u \in Confirmed(r)')
             <=> (\E r \in Rooms : u \in Confirmed(r))
      <4>1. ASSUME NEW r \in Rooms
            PROVE  u \in Confirmed(r)' <=> u \in Confirmed(r)
        <5>1. CASE r = q
          BY <2>1, <5>1
        <5>2. CASE r # q
          BY <2>1, <5>2
        <5>3. QED
          BY <5>1, <5>2
      <4>2. QED
        BY <4>1, Zenon
    <3>2. bonusEmitted'[u] = bonusEmitted[u]
      BY <2>2
    <3>3. bonusEmitted[u] <=>
             ReferredBy[u] # NoUser /\ \E r \in Rooms : u \in Confirmed(r)
      BY <1>1, Zenon
    <3>4. QED
      BY <3>1, <3>2, <3>3, Zenon
  <2>6. \E r \in Rooms : v \in Confirmed(r)'
    BY <2>1
  <2>7. ASSUME NEW u \in Users
        PROVE  bonusEmitted'[u] <=>
                 ReferredBy[u] # NoUser /\ \E r \in Rooms : u \in Confirmed(r)'
    <3>1. CASE u = v
      BY <2>4, <2>6, <3>1, Zenon
    <3>2. CASE u # v
      BY <2>5, <3>2
    <3>3. QED
      BY <3>1, <3>2, Zenon
  <2>8. QED
    BY <1>2, <2>7, Zenon
<1>5. QED
  BY <1>3, <1>4, OnlyPaymentsConfirm

(* A referral is settled by the friend's first payment, in whichever room. *)
THEOREM ReferralSettled ==
    ASSUME RoomConstants PROVE Spec => []ReferralSettledByFirstPayment
<1>1. Init => ReferralSettledByFirstPayment
  BY DEF Init, ReferralSettledByFirstPayment
<1>2. TypeOK /\ ReferralSettledByFirstPayment /\ [Next]_vars
         => ReferralSettledByFirstPayment'
  BY SettledByFirstPaymentStep
<1>3. QED
  BY <1>1, <1>2, TypeCorrect, PTL DEF Spec

-----------------------------------------------------------------------------
(* The pair of credits. *)

(* What a payment adds to the credits besides a VIABLE bonus: nothing, or  *)
(* one row for each side.                                                  *)
PairFor(v, h, f) ==
    /\ h.source = "referral_host" /\ h.user = ReferredBy[v] /\ h.subject = v
    /\ f.source = "referral_friend" /\ f.user = v
    /\ ~bonusEmitted[v]
    /\ ~(Cardinality(ReferrerCredits(ReferredBy[v])) >= MaxReferralBonuses)

LEMMA PaymentPair ==
    ASSUME RoomConstants, TypeOK, NEW q \in Rooms, NEW v \in Users,
           MarkApplicationPaid(q, v)
    PROVE  \E new, pair :
             /\ credits' = credits \cup new \cup pair
             /\ \A c \in new : c.source = "viable_host_bonus"
             /\ new = {} \/ \E b : new = {b}
             /\ \/ pair = {}
                \/ /\ \E h, f : pair = {h, f} /\ PairFor(v, h, f)
                   /\ bonusEmitted'[v]
<1> DEFINE promotes ==
             MaybePromoteToViable(q, [application[q] EXCEPT ![v] = "confirmed"])
           new == IF promotes THEN ViableHostBonus(q, <<q, v>>) ELSE {}
           pair == IF ReferralDue(v) THEN ReferralPair(v, <<q, v>>) ELSE {}
           h == [user |-> ReferredBy[v], source |-> "referral_host",
                 subject |-> v, grant |-> <<q, v>>]
           f == [user |-> v, source |-> "referral_friend",
                 subject |-> ReferredBy[v], grant |-> <<q, v>>]
<1>1. credits' = credits \cup new \cup pair
  BY DEF MarkApplicationPaid
<1>2. \A c \in new : c.source = "viable_host_bonus"
  BY DEF ViableHostBonus
<1>3. new = {} \/ \E b : new = {b}
  BY DEF ViableHostBonus
<1>4. ASSUME pair # {}
      PROVE  pair = {h, f} /\ PairFor(v, h, f)
  BY <1>4 DEF ReferralPair, PairOfCredits, CapReached, ReferralDue, PairFor
<1>5. pair # {} => ReferralDue(v)
  OBVIOUS
<1>6. ReferralDue(v) => bonusEmitted'[v]
  BY DEF MarkApplicationPaid, TypeOK
<1> HIDE DEF new, pair, h, f
<1>7. QED
  BY <1>1, <1>2, <1>3, <1>4, <1>5, <1>6

LEMMA ReferralStep ==
    ASSUME RoomConstants, TypeOK, ReferralInv, [Next]_vars
    PROVE  ReferralInv'
<1>1. CASE UNCHANGED creditVars
  BY <1>1 DEF ReferralInv, creditVars, ReferrerRow, FriendRow
<1>2. ASSUME NEW q \in Rooms, NEW v \in Users, MarkApplicationPaid(q, v)
      PROVE  ReferralInv'
  <2>1. PICK new, pair :
          /\ credits' = credits \cup new \cup pair
          /\ \A c \in new : c.source = "viable_host_bonus"
          /\ \/ pair = {}
             \/ /\ \E h, f : pair = {h, f} /\ PairFor(v, h, f)
                /\ bonusEmitted'[v]
    BY <1>2, PaymentPair, Zenon
  <2>2. \A u \in Users : bonusEmitted[u] => bonusEmitted'[u]
    BY <1>2 DEF MarkApplicationPaid, TypeOK
  <2>3. \A u : \A c \in new : ~ReferrerRow(c, u) /\ ~FriendRow(c, u)
    BY <2>1 DEF ReferrerRow, FriendRow
  <2>4. CASE pair = {}
    BY <2>1, <2>2, <2>3, <2>4 DEF ReferralInv, ReferrerRow, FriendRow
  <2>5. ASSUME NEW h, NEW f, pair = {h, f}, PairFor(v, h, f), bonusEmitted'[v]
        PROVE  ReferralInv'
    <3>1. \A c \in credits : ~ReferrerRow(c, v) /\ ~FriendRow(c, v)
      BY <2>5 DEF ReferralInv, PairFor
    <3>2. \A u \in Users : /\ ReferrerRow(h, u) <=> u = v
                           /\ FriendRow(f, u) <=> u = v
                           /\ ~ReferrerRow(f, u) /\ ~FriendRow(h, u)
      BY <2>5 DEF ReferrerRow, FriendRow, PairFor
    <3>3. ASSUME NEW u \in Users
          PROVE  /\ (\E c \in credits' : ReferrerRow(c, u))
                       <=> (\E c \in credits' : FriendRow(c, u))
                 /\ \A c \in credits' : ReferrerRow(c, u) => bonusEmitted'[u]
                 /\ \A c, d \in credits' :
                       ReferrerRow(c, u) /\ ReferrerRow(d, u) => c = d
                 /\ \A c, d \in credits' :
                       FriendRow(c, u) /\ FriendRow(d, u) => c = d
      <4>1. CASE u = v
        BY <2>1, <2>3, <2>5, <3>1, <3>2, <4>1
      <4>2. CASE u # v
        BY <2>1, <2>2, <2>3, <2>5, <3>2, <4>2 DEF ReferralInv
      <4>3. QED
        BY <4>1, <4>2
    <3>4. QED
      BY <3>3 DEF ReferralInv, ReferrerRow, FriendRow
  <2>6. QED
    BY <2>1, <2>4, <2>5
<1>3. QED
  BY <1>1, <1>2, OnlyPaymentsAward

(* Both sides of a referral are awarded together and once, whichever rooms *)
(* the friend pays in.                                                     *)
THEOREM ReferralPaidOnce ==
    ASSUME RoomConstants PROVE Spec => []ReferralPaidOnceToBoth
<1>1. Init => ReferralInv
  BY DEF Init, ReferralInv
<1>2. TypeOK /\ ReferralInv /\ [Next]_vars => ReferralInv'
  BY ReferralStep
<1>3. ReferralInv => ReferralPaidOnceToBoth
  <2> SUFFICES ASSUME ReferralInv, NEW u \in Users
               PROVE  LET hosts == {c \in credits : c.source = "referral_host"
                                                   /\ c.subject = u}
                          friends == {c \in credits :
                                        c.source = "referral_friend"
                                        /\ c.user = u}
                      IN  /\ Cardinality(hosts) = Cardinality(friends)
                          /\ Cardinality(hosts) <= 1
    BY DEF ReferralPaidOnceToBoth
  <2> DEFINE hosts == {c \in credits : c.source = "referral_host"
                                       /\ c.subject = u}
             friends == {c \in credits : c.source = "referral_friend"
                                         /\ c.user = u}
  <2>1. CASE \E c \in credits : ReferrerRow(c, u)
    <3>1. PICK h \in credits : ReferrerRow(h, u)
      BY <2>1
    <3>2. PICK f \in credits : FriendRow(f, u)
      BY <2>1 DEF ReferralInv
    <3>3. hosts = {h} /\ friends = {f}
      BY <3>1, <3>2 DEF ReferralInv, ReferrerRow, FriendRow
    <3>4. Cardinality(hosts) = 1 /\ Cardinality(friends) = 1
      BY <3>3, FS_Singleton, Zenon
    <3>5. QED
      BY <3>4
  <2>2. CASE ~\E c \in credits : ReferrerRow(c, u)
    <3>1. hosts = {} /\ friends = {}
      BY <2>2 DEF ReferralInv, ReferrerRow, FriendRow
    <3>2. Cardinality(hosts) = 0 /\ Cardinality(friends) = 0
      BY <3>1, FS_EmptySet, Zenon
    <3>3. QED
      BY <3>2
  <2>3. QED
    BY <2>1, <2>2
<1>4. QED
  BY <1>1, <1>2, <1>3, TypeCorrect, PTL DEF Spec

-----------------------------------------------------------------------------
(* The cap. *)

LEMMA CapStep ==
    ASSUME RoomConstants, TypeOK, CapInv, [Next]_vars
    PROVE  CapInv'
<1>1. CASE UNCHANGED creditVars
  BY <1>1 DEF CapInv, creditVars, ReferrerBonusesCapped, ReferrerCredits
<1>2. ASSUME NEW q \in Rooms, NEW v \in Users, MarkApplicationPaid(q, v)
      PROVE  CapInv'
  <2>1. PICK new, pair :
          /\ credits' = credits \cup new \cup pair
          /\ \A c \in new : c.source = "viable_host_bonus"
          /\ new = {} \/ \E b : new = {b}
          /\ pair = {} \/ \E h, f : pair = {h, f} /\ PairFor(v, h, f)
    BY <1>2, PaymentPair, Zenon
  <2>2. IsFiniteSet(credits')
    <3>1. IsFiniteSet(new)
      <4>1. CASE new = {}
        BY <4>1, FS_EmptySet
      <4>2. ASSUME NEW b, new = {b} PROVE IsFiniteSet(new)
        BY <4>2, FS_Singleton
      <4>3. QED
        BY <2>1, <4>1, <4>2
    <3>2. \A h, f : IsFiniteSet({h, f})
      <4> TAKE h, f
      <4>1. {h, f} = {h} \cup {f}
        OBVIOUS
      <4>2. IsFiniteSet({h}) /\ IsFiniteSet({f})
        BY FS_Singleton, Zenon
      <4>3. IsFiniteSet({h} \cup {f})
        BY <4>2, FS_Union, Zenon
      <4>4. QED
        BY <4>1, <4>3
    <3>3. IsFiniteSet(pair)
      <4>1. CASE pair = {}
        BY <4>1, FS_EmptySet
      <4>2. ASSUME NEW h, NEW f, pair = {h, f} PROVE IsFiniteSet(pair)
        BY <3>2, <4>2
      <4>3. QED
        BY <2>1, <4>1, <4>2
    <3>4. QED
      BY <2>1, <3>1, <3>3, FS_Union DEF CapInv
  <2>3. ASSUME NEW u \in Users
        PROVE  Cardinality(ReferrerCredits(u)') <= MaxReferralBonuses
    <3>1. /\ IsFiniteSet(ReferrerCredits(u))
          /\ Cardinality(ReferrerCredits(u)) \in Nat
          /\ Cardinality(ReferrerCredits(u)) <= MaxReferralBonuses
      <4>1. ReferrerCredits(u) \subseteq credits
        BY DEF ReferrerCredits
      <4>2. QED
        BY <4>1, FS_Subset, FS_CardinalityType
           DEF CapInv, ReferrerBonusesCapped
    <3>2. CASE ReferrerCredits(u)' = ReferrerCredits(u)
      BY <3>1, <3>2
    <3>3. ASSUME NEW h, u = ReferredBy[v],
                 ReferrerCredits(u)' = ReferrerCredits(u) \cup {h},
                 ~(Cardinality(ReferrerCredits(ReferredBy[v]))
                          >= MaxReferralBonuses)
          PROVE  Cardinality(ReferrerCredits(u)') <= MaxReferralBonuses
      <4>1. Cardinality(ReferrerCredits(u) \cup {h})
               = IF h \in ReferrerCredits(u)
                 THEN Cardinality(ReferrerCredits(u))
                 ELSE Cardinality(ReferrerCredits(u)) + 1
        BY <3>1, FS_AddElement, Zenon
      <4>2. Cardinality(ReferrerCredits(u)) < MaxReferralBonuses
        BY <3>1, <3>3 DEF RoomConstants
      <4>3. QED
        BY <3>1, <3>3, <4>1, <4>2 DEF RoomConstants
    <3>4. CASE pair = {}
      BY <2>1, <3>2, <3>4 DEF ReferrerCredits
    <3>5. ASSUME NEW h, NEW f, pair = {h, f}, PairFor(v, h, f)
          PROVE  Cardinality(ReferrerCredits(u)') <= MaxReferralBonuses
      <4>1. CASE u = ReferredBy[v]
        <5>1. ReferrerCredits(u)' = ReferrerCredits(u) \cup {h}
          BY <2>1, <3>5, <4>1 DEF ReferrerCredits, PairFor
        <5>2. QED
          BY <3>3, <3>5, <4>1, <5>1 DEF PairFor
      <4>2. CASE u # ReferredBy[v]
        BY <2>1, <3>2, <3>5, <4>2 DEF ReferrerCredits, PairFor
      <4>3. QED
        BY <4>1, <4>2
    <3>6. QED
      BY <2>1, <3>4, <3>5
  <2>4. QED
    BY <2>2, <2>3 DEF CapInv, ReferrerBonusesCapped, ReferrerCredits
<1>3. QED
  BY <1>1, <1>2, OnlyPaymentsAward

(* No referrer is awarded more credits than the cap, for every cap.        *)
THEOREM ReferralsCapped ==
    ASSUME RoomConstants PROVE Spec => []ReferrerBonusesCapped
<1>1. ASSUME Init PROVE CapInv
  <2>1. \A u \in Users : ReferrerCredits(u) = {}
    BY <1>1 DEF Init, ReferrerCredits
  <2>2. IsFiniteSet({}) /\ Cardinality({}) = 0
    BY FS_EmptySet, Zenon
  <2>3. IsFiniteSet(credits)
    BY <1>1, <2>2 DEF Init
  <2>4. ReferrerBonusesCapped
    <3>1. ASSUME NEW u \in Users
          PROVE  Cardinality(ReferrerCredits(u)) = 0
      BY <2>1, <2>2
    <3>2. QED
      BY <3>1 DEF ReferrerBonusesCapped, RoomConstants
  <2>5. QED
    BY <2>3, <2>4 DEF CapInv
<1>2. TypeOK /\ CapInv /\ [Next]_vars => CapInv'
  BY CapStep
<1>3. CapInv => ReferrerBonusesCapped
  BY DEF CapInv
<1>4. QED
  BY <1>1, <1>2, <1>3, TypeCorrect, PTL DEF Spec

-----------------------------------------------------------------------------
(* RoomLifecycle implements RoomPromise. *)

EarlyInv == \A r \in Rooms :
    /\ status[r] # "recruiting"
    /\ status[r] \in {"none", "draft"} => \A u \in Users : application[r][u] = "none"

(* How a step that is not a payment moves the status of a room.            *)
LEMMA StatusStep ==
    ASSUME RoomConstants, TypeOK, [Next]_vars
    PROVE  \/ UNCHANGED status
           \/ \E r \in Rooms :
                \/ /\ status[r] = "none"
                   /\ status' = [status EXCEPT ![r] = "draft"]
                \/ /\ status[r] = "draft"
                   /\ status' = [status EXCEPT ![r] = "published"]
                \/ /\ status[r] = "viable"
                   /\ status' = [status EXCEPT ![r] = "assigned"]
                \/ /\ status[r] = "assigned"
                   /\ status' = [status EXCEPT ![r] = "confirmed"]
           \/ \E r \in Rooms, u \in Users : MarkApplicationPaid(r, u)
<1> DEFINE Move(r, from, to) == /\ status[r] = from
                                /\ status' = [status EXCEPT ![r] = to]
<1>1. ASSUME NEW r \in Rooms, RoomStep(r)
      PROVE  \/ UNCHANGED status \/ Move(r, "none", "draft")
             \/ Move(r, "draft", "published")
  BY <1>1 DEF RoomStep, CreateRoom, UpdateRoom, PublishRoom, DeadlinePasses,
              HOST_PUBLISH_FROM
<1>2. ASSUME NEW r \in Rooms, NEW u \in Participants, ApplicationStep(r, u)
      PROVE  UNCHANGED status \/ MarkApplicationPaid(r, u)
  BY <1>2 DEF ApplicationStep, ApplyToRoom, CancelMyApplication,
     ApproveApplication, RejectApplication, WaitlistApplication,
     SetApplication, roomVars
<1>3. ASSUME NEW r \in Rooms, NEW p \in Planners, PlannerStep(r, p)
      PROVE  \/ UNCHANGED status \/ Move(r, "viable", "assigned")
             \/ Move(r, "assigned", "confirmed")
  <2>1. CASE AssignPlannerToRoom(r, p)
    BY <2>1 DEF AssignPlannerToRoom, ASSIGNABLE_FROM, TypeOK
  <2>2. CASE ConfirmRoom(r, p)
    BY <2>2 DEF ConfirmRoom, CONFIRMABLE_FROM
  <2>3. QED
    BY <1>3, <2>1, <2>2 DEF PlannerStep
<1>4. CASE AccountStep \/ UNCHANGED vars
  BY <1>4 DEF AccountStep, UpsertMyProfile, SetUserStatus, SetPlannerStatus,
              roomVars, vars
<1>5. QED
  BY <1>1, <1>2, <1>3, <1>4 DEF Next, RoomNext, RoomConstants

(* Nobody is an applicant of a room that is not public yet, and no room is *)
(* ever RECRUITING: nothing writes that status.                            *)
LEMMA EarlyStep ==
    ASSUME RoomConstants, TypeOK, EarlyInv, [Next]_vars
    PROVE  EarlyInv'
<1> USE DEF TypeOK
<1>1. ASSUME NEW q \in Rooms, NEW u \in Users, ApplicationStep(q, u)
      PROVE  EarlyInv'
  <2>1. /\ status[q] \notin {"none", "draft"}
        /\ \E s : application' = [application EXCEPT ![q][u] = s]
        /\ status' = status \/ status' = [status EXCEPT ![q] = "viable"]
    <3>1. CASE MarkApplicationPaid(q, u)
      <4>1. status' = status \/ status' = [status EXCEPT ![q] = "viable"]
        BY <3>1 DEF MarkApplicationPaid
      <4>2. status[q] \notin {"none", "draft"}
        BY <3>1 DEF MarkApplicationPaid, EarlyInv, PAYABLE_FROM
      <4>3. application' = [application EXCEPT ![q][u] = "confirmed"]
        BY <3>1 DEF MarkApplicationPaid
      <4>4. QED
        BY <4>1, <4>2, <4>3
    <3>2. CASE \E s : SetApplication(q, u, s)
      BY <1>1, <3>2 DEF ApplicationStep, SetApplication, roomVars, EarlyInv,
         ApplyToRoom, CancelMyApplication, ApproveApplication,
         RejectApplication, WaitlistApplication, MarkApplicationPaid,
         APPLICATION_OPEN_STATUSES, CANCELLABLE_FROM, APPROVABLE_FROM,
         REJECTABLE_FROM, WAITLISTABLE_FROM, PAYABLE_FROM
    <3>3. QED
      BY <1>1, <3>1, <3>2 DEF ApplicationStep, ApplyToRoom, CancelMyApplication,
         ApproveApplication, RejectApplication, WaitlistApplication
  <2>2. QED
    BY <2>1 DEF EarlyInv
<1>2. CASE /\ UNCHANGED application
           /\ \A r \in Rooms : /\ status'[r] # "recruiting"
                               /\ status'[r] \in {"none", "draft"}
                                     => status[r] \in {"none", "draft"}
  BY <1>2 DEF EarlyInv
<1>3. CASE UNCHANGED application
  <2>1. \A r \in Rooms : /\ status'[r] # "recruiting"
                         /\ status'[r] \in {"none", "draft"}
                               => status[r] \in {"none", "draft"}
    <3>1. CASE \E r \in Rooms, u \in Users : MarkApplicationPaid(r, u)
      BY <3>1 DEF MarkApplicationPaid, EarlyInv
    <3>2. QED
      BY <3>1, StatusStep DEF EarlyInv
  <2>2. QED
    BY <1>2, <1>3, <2>1
<1>4. QED
  BY <1>1, <1>3 DEF Next, RoomNext, RoomStep, CreateRoom, UpdateRoom,
     PublishRoom, DeadlinePasses, PlannerStep, AssignPlannerToRoom, ConfirmRoom,
     AccountStep, UpsertMyProfile, SetUserStatus, SetPlannerStatus, vars,
     roomVars, RoomConstants

LEMMA TwoAreNotOne ==
    ASSUME NEW S, NEW x, Cardinality(S) >= 2 PROVE S # {x}
<1> SUFFICES ASSUME S = {x} PROVE FALSE
  OBVIOUS
<1>1. Cardinality(S) = 1
  BY FS_Singleton
<1>2. QED
  BY <1>1

LEMMA PaymentRefines ==
    ASSUME RoomConstants, TypeOK, EarlyInv, BonusInv, BonusInv', [Next]_vars,
           NEW r \in Rooms, NEW u \in Users, MarkApplicationPaid(r, u)
    PROVE  Promise!Admit(r, u) \/ Promise!AdmitAndPromote(r, u)
<1> DEFINE apps == [application[r] EXCEPT ![u] = "confirmed"]
<1>1. status[r] \notin {"none", "draft"}
  BY DEF MarkApplicationPaid, EarlyInv, PAYABLE_FROM
<1>2. Confirmed(r)' = ConfirmedIn(apps) /\ Confirmed(r)' = Confirmed(r) \cup {u}
  BY DEF MarkApplicationPaid, TypeOK, Confirmed, ConfirmedIn
<1>3. \A q \in Rooms \ {r} : Confirmed(q)' = Confirmed(q)
  BY DEF MarkApplicationPaid, TypeOK, Confirmed, ConfirmedIn
<1>4. Roster' = [Roster EXCEPT ![r] = @ \cup {u}]
  BY <1>2, <1>3 DEF Roster
<1>5. /\ Rewarded = {q \in Rooms : status[q] \in Promoted}
      /\ Rewarded' = {q \in Rooms : status'[q] \in Promoted}
  <2>1. \A q \in Rooms : (\E c \in credits : BonusRow(c, q))
                            <=> status[q] \in Promoted
    BY DEF BonusInv
  <2>2. \A q \in Rooms : (\E c \in credits' : BonusRow(c, q))
                            <=> status'[q] \in Promoted
    BY DEF BonusInv, BonusRow
  <2>3. QED
    BY <2>1, <2>2 DEF Rewarded, BonusRow
<1>6. CASE MaybePromoteToViable(r, apps)
  <2>1. status[r] = "published" \/ status[r] = "recruiting"
    BY <1>6 DEF MaybePromoteToViable, PROMOTABLE_FROM
  <2>2. status' = [status EXCEPT ![r] = "viable"]
    BY <1>6 DEF MarkApplicationPaid
  <2>3. Rewarded' = Rewarded \cup {r}
    BY <1>5, <2>2 DEF Promoted, TypeOK
  <2>4. Roster[r] \ {u} # {}
    <3>1. Cardinality(ConfirmedIn(apps))
             >= Threshold(capacity[r].male) + Threshold(capacity[r].female)
      BY <1>6, QuorumIsRoster DEF MaybePromoteToViable, TypeOK
    <3>2. \A c \in 1..20 : Threshold(c) >= 1
      <4> SUFFICES ASSUME NEW c \in 1..20 PROVE Threshold(c) >= 1
        OBVIOUS
      <4>1. (c + 1) \div 2 >= 1
        OBVIOUS
      <4>2. QED
        BY <4>1 DEF Threshold
    <3>3. /\ Threshold(capacity[r].male) \in Nat
          /\ Threshold(capacity[r].female) \in Nat
          /\ Threshold(capacity[r].male) >= 1
          /\ Threshold(capacity[r].female) >= 1
      BY <3>2, ThresholdType DEF TypeOK
    <3>4. Cardinality(ConfirmedIn(apps)) \in Nat
      BY <1>2, RosterGrows
    <3>5. Roster[r] \cup {u} = ConfirmedIn(apps)
      BY <1>2 DEF Roster
    <3>6. Cardinality(ConfirmedIn(apps)) >= 2
      <4> HIDE DEF apps
      <4>1. QED
        BY <3>1, <3>3, <3>4
    <3>7. ConfirmedIn(apps) # {u}
      <4> HIDE DEF apps
      <4>1. QED
        BY <3>6, TwoAreNotOne
    <3>8. QED
      BY <3>5, <3>7
  <2>5. status[r] = "published"
    BY <2>1 DEF EarlyInv
  <2>6. QED
    BY <1>4, <2>2, <2>3, <2>4, <2>5
       DEF Promise!AdmitAndPromote
<1>7. CASE ~MaybePromoteToViable(r, apps)
  <2>1. status' = status
    BY <1>7 DEF MarkApplicationPaid, TypeOK
  <2>2. Rewarded' = Rewarded
    BY <1>5, <2>1
  <2>3. QED
    BY <1>1, <1>4, <2>1, <2>2 DEF Promise!Admit
<1>8. QED
  BY <1>6, <1>7

LEMMA StepRefines ==
    ASSUME RoomConstants, TypeOK, EarlyInv, BonusInv, BonusInv', [Next]_vars
    PROVE  [Promise!Next]_(Promise!vars)
<1>1. CASE \E r \in Rooms, u \in Users : MarkApplicationPaid(r, u)
  BY <1>1, PaymentRefines DEF Promise!Next
<1>2. CASE ~\E r \in Rooms, u \in Users : MarkApplicationPaid(r, u)
  <2>1. UNCHANGED creditVars /\ \A r \in Rooms : Confirmed(r)' = Confirmed(r)
    BY <1>2, OnlyPaymentsConfirm
  <2>2. Roster' = Roster /\ Rewarded' = Rewarded
    BY <2>1 DEF Roster, Rewarded, creditVars
  <2>3. CASE UNCHANGED status
    BY <2>2, <2>3 DEF Promise!vars
  <2>4. ASSUME NEW r \in Rooms, NEW from, NEW to,
               <<from, to>> \in {<<"none", "draft">>, <<"draft", "published">>,
                   <<"viable", "assigned">>, <<"assigned", "confirmed">>},
               status[r] = from, status' = [status EXCEPT ![r] = to]
        PROVE  Promise!Next
    <3>1. Promise!Advance(r, from, to)
      BY <2>2, <2>4 DEF Promise!Advance
    <3>2. QED
      BY <2>4, <3>1 DEF Promise!Next
  <2>5. QED
    BY <1>2, <2>3, <2>4, StatusStep
<1>3. QED
  BY <1>1, <1>2

(* Rooms of this backend keep what RoomPromise says a room promises.       *)
THEOREM ImplementsPromise == ASSUME RoomConstants PROVE Spec => KeepsPromise
<1>1. Init => Promise!Init
  BY DEF Init, Promise!Init, Roster, Rewarded, Confirmed, ConfirmedIn
<1>2. Init => EarlyInv /\ BonusInv
  BY DEF Init, EarlyInv, BonusInv, Promoted
<1>3. TypeOK /\ EarlyInv /\ BonusInv /\ [Next]_vars => EarlyInv' /\ BonusInv'
  BY EarlyStep, BonusStep
<1>4. TypeOK /\ EarlyInv /\ BonusInv /\ BonusInv' /\ [Next]_vars
         => [Promise!Next]_(Promise!vars)
  BY StepRefines
<1>5. QED
  BY <1>1, <1>2, <1>3, <1>4, TypeCorrect, PTL
     DEF Spec, KeepsPromise, Promise!Spec
=============================================================================
