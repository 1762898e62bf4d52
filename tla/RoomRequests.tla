---------------------------- MODULE RoomRequests ----------------------------
(***************************************************************************)
(* The operations of RoomLifecycle as the backend really runs them: each   *)
(* request is a transaction of its own at PostgreSQL's READ COMMITTED, its *)
(* statements interleave with those of the other requests at every await,  *)
(* and no row is locked before it is written.                              *)
(*                                                                         *)
(* The variables of RoomLifecycle are the committed database.  A slot      *)
(* serves one request at a time:                                           *)
(*   - reading a row and checking it is one step, on committed data;       *)
(*   - writing it back is a later step.  An object writes the columns that *)
(*     differ from what it loaded, and waits while another transaction has *)
(*     written the row and not finished;                                   *)
(*   - what a transaction has written is visible to others, all at once,   *)
(*     when it commits.  It may fail at any step before and leaves nothing.*)
(*                                                                         *)
(* A request that writes one row writes and commits in one step.  Marking  *)
(* an application paid writes an application, a room and a user, and is    *)
(* modelled statement by statement.                                        *)
(***************************************************************************)
EXTENDS RoomLifecycle

(* The operators named ...Variant are mistakes the properties must reveal. *)

CONSTANTS
    Slots,       \* bound: requests served at the same time
    Operations   \* bound: the operations that requests ask for

ASSUME RequestConstants ==
    /\ IsFiniteSet(Slots) /\ Slots # {}
    /\ Operations \subseteq {"apply", "cancel", "approve", "reject", "waitlist",
                             "pay", "publish", "update", "assign", "confirm",
                             "create", "profile", "moderate"}

VARIABLES
    pc,      \* pc[s]: what the request in slot s does next
    task,    \* task[s]: its operation, room, and applicant or planner
    loaded,  \* loaded[s]: the row its object was loaded from
    wanted,  \* wanted[s]: that object as the handler has changed it
    tx       \* tx[s]: what a payment has written and not committed

requestVars == <<pc, task, loaded, wanted, tx>>
allVars == <<vars, requestVars>>

NoTask == [op |-> "none", room |-> "none", user |-> "none"]
NoRow == [status |-> "none"]
NoWrites == [application |-> FALSE, room |-> FALSE, user |-> FALSE,
             credits |-> {}]

Idle(s) == pc[s] = "idle"

(* The columns of the rows that the operations write.                      *)
RoomRow(r) == [status |-> status[r], planner |-> planner[r],
               male |-> capacity[r].male, female |-> capacity[r].female,
               late |-> deadlinePassed[r]]
ApplicationRow(r, u) == [status |-> application[r][u]]

RequestInit ==
    /\ pc = [s \in Slots |-> "idle"]
    /\ task = [s \in Slots |-> NoTask]
    /\ loaded = [s \in Slots |-> NoRow]
    /\ wanted = [s \in Slots |-> NoRow]
    /\ tx = [s \in Slots |-> NoWrites]

-----------------------------------------------------------------------------
(* Steps of a slot. *)

Go(s, where) == pc' = [pc EXCEPT ![s] = where]

Begin(s, op, r, x, row, changed, where) ==
    /\ Idle(s)
    /\ op \in Operations
    /\ Go(s, where)
    /\ task' = [task EXCEPT ![s] = [op |-> op, room |-> r, user |-> x]]
    /\ loaded' = [loaded EXCEPT ![s] = row]
    /\ wanted' = [wanted EXCEPT ![s] = changed]
    /\ UNCHANGED <<vars, tx>>

Finish(s) ==
    /\ Go(s, "idle")
    /\ task' = [task EXCEPT ![s] = NoTask]
    /\ loaded' = [loaded EXCEPT ![s] = NoRow]
    /\ wanted' = [wanted EXCEPT ![s] = NoRow]
    /\ tx' = [tx EXCEPT ![s] = NoWrites]

(* Another payment has written the row and not finished.                   *)
ApplicationLocked(s) == \E t \in Slots \ {s} :
    /\ tx[t].application
    /\ task[t].room = task[s].room /\ task[t].user = task[s].user
RoomLocked(s) == \E t \in Slots \ {s} :
    tx[t].room /\ task[t].room = task[s].room
UserSharedVariant(s) == \E t \in Slots \ {s} :
    (tx[t].user \/ tx[t].application) /\ task[t].user = task[s].user
UserLocked(s) == \E t \in Slots \ {s} :
    tx[t].user /\ task[t].user = task[s].user

(* What an UPDATE leaves in the row: the object's changed columns over the *)
(* row as it is now.                                                       *)
Written(s, now) ==
    [c \in DOMAIN now |->
        IF wanted[s][c] # loaded[s][c] THEN wanted[s][c] ELSE now[c]]

(* The request fails, by an error or by the loss of the process.           *)
Fail(s) ==
    /\ ~Idle(s)
    /\ Finish(s)
    /\ UNCHANGED vars

-----------------------------------------------------------------------------
(* Operations on one application. *)

From == [apply |-> {"none", "cancelled"}, cancel |-> CANCELLABLE_FROM,
         approve |-> APPROVABLE_FROM, reject |-> REJECTABLE_FROM,
         waitlist |-> WAITLISTABLE_FROM]

ToVariant == [apply |-> "pending", cancel |-> "cancelled",
    approve |-> "approved", reject |-> "rejected", waitlist |-> "waitlisted"]

To == [apply |-> "submitted", cancel |-> "cancelled", approve |-> "approved",
       reject |-> "rejected", waitlist |-> "waitlisted"]

MayAsk(op, r, u) ==
    CASE op = "apply" -> /\ Active(u)
                         /\ status[r] \in APPLICATION_OPEN_STATUSES
                         /\ ~deadlinePassed[r]
                         /\ profile[u].complete
      [] op = "cancel" -> Active(u)
      [] OTHER -> Active(HostOf[r])

LoadApplication(s, op, r, u) ==
    /\ MayAsk(op, r, u)
    /\ application[r][u] \in From[op]
    /\ Begin(s, op, r, u, ApplicationRow(r, u), [status |-> To[op]],
             "store_application")

(* A first application is an INSERT: it fails on the unique constraint if  *)
(* another request inserted the row meanwhile.                             *)
StoreApplication(s) ==
    LET r == task[s].room
        u == task[s].user
        duplicate == loaded[s].status = "none" /\ application[r][u] # "none"
    IN  /\ pc[s] = "store_application"
        /\ ~ApplicationLocked(s)
        /\ application' = [application EXCEPT ![r][u] =
              IF duplicate THEN @ ELSE Written(s, ApplicationRow(r, u)).status]
        /\ UNCHANGED <<roomVars, accountVars, creditVars>>
        /\ Finish(s)

-----------------------------------------------------------------------------
(* Operations on one room. *)

LoadRoom(s, op, r, x, allowed, changed) ==
    /\ allowed
    /\ Begin(s, op, r, x, RoomRow(r), changed, "store_room")

LoadPublish(s, r) ==
    LoadRoom(s, "publish", r, "none",
             Active(HostOf[r]) /\ status[r] \in HOST_PUBLISH_FROM,
             [RoomRow(r) EXCEPT !.status = "published"])

LoadUpdate(s, r, c, passed) ==
    LoadRoom(s, "update", r, "none",
             Active(HostOf[r]) /\ status[r] \in HOST_EDITABLE_STATES,
             [RoomRow(r) EXCEPT !.male = c.male, !.female = c.female,
                                !.late = passed])

LoadAssignVariant(s, r, p) ==
    LoadRoom(s, "assign", r, p,
             status[r] \in ASSIGNABLE_FROM /\ plannerStatus[p] = "approved",
             [RoomRow(r) EXCEPT !.status = "assigned"])

LoadAssign(s, r, p) ==
    LoadRoom(s, "assign", r, p,
             status[r] \in ASSIGNABLE_FROM /\ plannerStatus[p] = "approved",
             [RoomRow(r) EXCEPT !.status = "assigned", !.planner = p])

LoadConfirm(s, r, p) ==
    LET males == Cardinality(ConfirmedOf(application[r], "male"))
        females == Cardinality(ConfirmedOf(application[r], "female"))
    IN  LoadRoom(s, "confirm", r, p,
                 /\ PlannerActs(r, p)
                 /\ status[r] \in CONFIRMABLE_FROM
                 /\ males + females > 0
                 /\ males <= capacity[r].male
                 /\ females <= capacity[r].female,
                 [RoomRow(r) EXCEPT !.status = "confirmed"])

StoreRoom(s) ==
    LET r == task[s].room
        row == Written(s, RoomRow(r))
    IN  /\ pc[s] = "store_room"
        /\ ~RoomLocked(s)
        /\ status' = [status EXCEPT ![r] = row.status]
        /\ planner' = [planner EXCEPT ![r] = row.planner]
        /\ capacity' = [capacity EXCEPT ![r] = [male |-> row.male,
                                                female |-> row.female]]
        /\ deadlinePassed' = [deadlinePassed EXCEPT ![r] = row.late]
        /\ UNCHANGED <<application, accountVars, creditVars>>
        /\ Finish(s)

-----------------------------------------------------------------------------
(* mark_application_paid, maybe_promote_to_viable, issue_viable_host_bonus *)
(* and issue_referral_pair, statement by statement.                        *)

Write(s, new) ==
    /\ tx' = [tx EXCEPT ![s] = new]
    /\ UNCHANGED <<vars, task, loaded, wanted>>

LoadPayment(s, r, u) ==
    /\ Active(HostOf[r])
    /\ application[r][u] \in PAYABLE_FROM
    /\ Begin(s, "pay", r, u, NoRow, NoRow, "write_application")

WriteApplication(s) ==
    /\ pc[s] = "write_application"
    /\ ~ApplicationLocked(s)
    /\ Go(s, "read_room")
    /\ Write(s, [tx[s] EXCEPT !.application = TRUE])

ReadRoom(s) ==
    LET row == RoomRow(task[s].room)
    IN  /\ pc[s] = "read_room"
        /\ Go(s, IF row.status \in PROMOTABLE_FROM THEN "count" ELSE "read_user")
        /\ loaded' = [loaded EXCEPT ![s] = row]
        /\ wanted' = [wanted EXCEPT ![s] = [row EXCEPT !.status = "viable"]]
        /\ UNCHANGED <<vars, task, tx>>

CountUnflushedVariant(s) ==
    /\ pc[s] = "count"
    /\ Go(s, IF QuorumIn(application[task[s].room], loaded[s])
             THEN "write_room" ELSE "read_user")
    /\ UNCHANGED <<vars, task, loaded, wanted, tx>>

(* get_capacity_summary sees the other applications as committed and its   *)
(* own as written; the thresholds are those of the room read before.       *)
CountConfirmed(s) ==
    LET apps == [application[task[s].room] EXCEPT ![task[s].user] = "confirmed"]
    IN  /\ pc[s] = "count"
        /\ Go(s, IF QuorumIn(apps, loaded[s]) THEN "write_room" ELSE "read_user")
        /\ UNCHANGED <<vars, task, loaded, wanted, tx>>

WriteRoom(s) ==
    /\ pc[s] = "write_room"
    /\ ~RoomLocked(s)
    /\ Go(s, "bonus")
    /\ Write(s, [tx[s] EXCEPT !.room = TRUE])

IssueBonus(s) ==
    LET grant == <<task[s].room, task[s].user>>
    IN  /\ pc[s] = "bonus"
        /\ Go(s, "read_user")
        /\ Write(s, [tx[s] EXCEPT !.credits =
                        ViableHostBonus(task[s].room, grant)])

ReadUser(s) ==
    /\ pc[s] = "read_user"
    /\ Go(s, IF ReferralDue(task[s].user) THEN "find_pair" ELSE "commit")
    /\ UNCHANGED <<vars, task, loaded, wanted, tx>>

FindPair(s) ==
    /\ pc[s] = "find_pair"
    /\ Go(s, IF PairPaid(task[s].user) THEN "write_user" ELSE "count_pairs")
    /\ UNCHANGED <<vars, task, loaded, wanted, tx>>

IssuePairUnflaggedVariant(s) ==
    LET u == task[s].user
        grant == <<task[s].room, u>>
    IN  /\ pc[s] = "count_pairs"
        /\ Go(s, "commit")
        /\ Write(s, [tx[s] EXCEPT !.credits = @ \cup
                        IF CapReached(u) THEN {} ELSE PairOfCredits(u, grant)])

IssuePair(s) ==
    LET u == task[s].user
        grant == <<task[s].room, u>>
    IN  /\ pc[s] = "count_pairs"
        /\ Go(s, "write_user")
        /\ Write(s, [tx[s] EXCEPT !.credits = @ \cup
                        IF CapReached(u) THEN {} ELSE PairOfCredits(u, grant)])

WriteUser(s) ==
    /\ pc[s] = "write_user"
    /\ ~UserLocked(s)
    /\ Go(s, "commit")
    /\ Write(s, [tx[s] EXCEPT !.user = TRUE])

Commit(s) ==
    LET r == task[s].room
        u == task[s].user
    IN  /\ pc[s] = "commit"
        /\ application' = [application EXCEPT ![r][u] = "confirmed"]
        /\ status' = [status EXCEPT ![r] = IF tx[s].room THEN "viable" ELSE @]
        /\ bonusEmitted' = [bonusEmitted EXCEPT ![u] = @ \/ tx[s].user]
        /\ credits' = credits \cup tx[s].credits
        /\ UNCHANGED <<capacity, deadlinePassed, planner, accountVars>>
        /\ Finish(s)

-----------------------------------------------------------------------------
ApplicationOperations == Operations \cap DOMAIN From

Arrive(s) ==
    \/ \E op \in ApplicationOperations, r \in Rooms, u \in Participants :
          LoadApplication(s, op, r, u)
    \/ \E r \in Rooms, u \in Participants : LoadPayment(s, r, u)
    \/ \E r \in Rooms : LoadPublish(s, r)
    \/ \E r \in Rooms, c \in Capacities, late \in BOOLEAN :
          LoadUpdate(s, r, c, late)
    \/ \E r \in Rooms, p \in Planners : LoadAssign(s, r, p) \/ LoadConfirm(s, r, p)

(* Steps that may have to wait for a row lock, and steps that never do.    *)
Locking(s) == StoreApplication(s) \/ StoreRoom(s) \/ WriteApplication(s)
                \/ WriteRoom(s) \/ WriteUser(s)

Proceeding(s) == ReadRoom(s) \/ CountConfirmed(s) \/ IssueBonus(s)
                   \/ ReadUser(s) \/ FindPair(s) \/ IssuePair(s) \/ Commit(s)

(* The steps of RoomLifecycle that read nothing they depend on before they *)
(* write, and so are atomic here too.                                      *)
Atomic ==
    /\ \/ \E r \in Rooms : DeadlinePasses(r)
       \/ "create" \in Operations /\ \E r \in Rooms : CreateRoom(r)
       \/ "profile" \in Operations /\ \E u \in Participants : UpsertMyProfile(u)
       \/ "moderate" \in Operations /\ \E u \in Moderated : SetUserStatus(u)
       \/ "moderate" \in Operations /\ \E p \in Planners : SetPlannerStatus(p)
    /\ UNCHANGED requestVars

RequestNext ==
    \/ \E s \in Slots : Arrive(s) \/ Locking(s) \/ Proceeding(s) \/ Fail(s)
    \/ Atomic

RequestSpec == Init /\ RequestInit /\ [][RequestNext]_allVars

(* The event loop resumes every request whose statement has returned, and  *)
(* PostgreSQL hands a row lock to its waiters in the order they came.      *)
Fairness == \A s \in Slots : WF_allVars(Proceeding(s)) /\ SF_allVars(Locking(s))

FairRequestSpec == RequestSpec /\ Fairness

-----------------------------------------------------------------------------
RequestTypeOK ==
    /\ TypeOK
    /\ pc \in [Slots -> {"idle", "store_application", "store_room",
                         "write_application", "read_room", "count",
                         "write_room", "bonus", "read_user", "find_pair",
                         "count_pairs", "write_user", "commit"}]
    /\ task \in [Slots -> [op : Operations \cup {"none"},
                           room : Rooms \cup {"none"},
                           user : Users \cup {"none"}]]
    /\ tx \in [Slots -> [application : BOOLEAN, room : BOOLEAN,
                         user : BOOLEAN, credits : SUBSET Credit]]

(* However the requests interleave, fail and overwrite each other, a host  *)
(* is never rewarded twice for one room, and a room that counts as         *)
(* promoted has been rewarded: the promotion's write to the room, which    *)
(* precedes the look for an earlier bonus, makes payments of one room wait *)
(* for each other (host_service.py:354-362).                               *)
RewardedOnce ==
    \A r \in Rooms :
        LET bonuses == Cardinality({c \in credits :
                          c.source = "viable_host_bonus" /\ c.subject = r})
        IN  /\ bonuses <= 1
            /\ status[r] \in Promoted => bonuses = 1

(* A referral credit never stands without the flag that stops the next     *)
(* one, whichever statement of the payment failed (host_service.py:279-283)*)
AwardsAreFlagged ==
    \A c \in credits : c.source = "referral_host" => bonusEmitted[c.subject]

(* Payments that run at once may each find the cap not reached, or the     *)
(* friend not rewarded yet: a referrer's cap is overrun by no more awards  *)
(* than there are other requests in flight, and one friend is rewarded no  *)
(* more often than there are requests (credit_service.py:79-100).          *)
CapOverrunBounded ==
    \A u \in Users :
        /\ Cardinality(ReferrerCredits(u))
              <= MaxReferralBonuses + Cardinality(Slots) - 1
        /\ Cardinality({c \in credits : c.source = "referral_host" /\ c.subject = u})
              <= Cardinality(Slots)

(* A room that is assigned or further has a planner, although reassigning, *)
(* confirming and editing write the same row from stale copies of it       *)
(* (admin_service.py:412-414).                                             *)
AssignedHasPlanner ==
    \A r \in Rooms :
        status[r] \in {"assigned", "confirmed"} => planner[r] \in Planners

(* Every request is answered: payments that wait for each other's rows do  *)
(* so in one order, application, room, user (host_service.py:261-269).     *)
RequestsFinish == \A s \in Slots : ~Idle(s) ~> Idle(s)

(* One request at a time, the statements add up to the serial operations.  *)
SerialWhenAlone == [][Next]_vars

(* README, room state machine: VIABLE follows by itself once both genders  *)
(* have reached half; here nobody edits the room, and nothing is running.  *)
PromotionNotLost ==
    \A r \in Rooms :
        (\A s \in Slots : Idle(s)) /\ status[r] \in PROMOTABLE_FROM
            => ~QuorumIn(application[r], capacity[r])

(* A guest who is confirmed or rejected stays so, but for the write of a   *)
(* request that decided before that: a cancellation or a decision of the   *)
(* host on another status, a payment that found the application approved   *)
(* (application_service.py:94-106, host_service.py:167-263).               *)
SettledUnlessStale == [][\A r \in Rooms, u \in Users :
    /\ application[r][u] \in {"confirmed", "rejected"}
    /\ application'[r][u] # application[r][u]
    =>
        \E s \in Slots : /\ task[s].room = r /\ task[s].user = u
                         /\ pc'[s] = "idle"
                         /\ \/ /\ pc[s] = "store_application"
                               /\ loaded[s].status # application[r][u]
                            \/ /\ pc[s] = "commit"
                               /\ application[r][u] = "rejected"]_allVars

Rank == [none |-> 0, draft |-> 1, published |-> 2, recruiting |-> 2,
         viable |-> 3, assigned |-> 4, confirmed |-> 5]

(* README, room state machine: no arrow leads back.  None does in this     *)
(* code but by the write of a request that decided on the room as it was   *)
(* before another one changed its status: a publication over a promotion,  *)
(* an assignment over a confirmation, a promotion over an assignment.      *)
RegressOnlyIfStale == [][\A r \in Rooms :
    Rank[status'[r]] < Rank[status[r]] =>
        \E s \in Slots : /\ task[s].room = r
                         /\ pc[s] \in {"store_room", "commit"}
                         /\ pc'[s] = "idle"
                         /\ loaded[s].status # status[r]]_allVars
=============================================================================
