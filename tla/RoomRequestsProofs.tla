------------------------- MODULE RoomRequestsProofs -------------------------
(***************************************************************************)
(* What requests in flight together keep, for any number of them, and of   *)
(* rooms, users, capacities and operations.                                *)
(***************************************************************************)
EXTENDS RoomRequests, RoomLifecycleProofs

-----------------------------------------------------------------------------
(* The invariant, slot by slot: p, k, l, w and x are what pc, task,        *)
(* loaded, wanted and tx have for one slot.                                *)

AppRow == [status : ApplicationStatus \cup {"none"}]

RoomRows == [status : RoomStatus \cup {"none"}, planner : Planners \cup {NoUser},
             male : 1..20, female : 1..20, late : BOOLEAN]

Paying == {"write_application", "read_room", "count", "write_room", "bonus",
           "read_user", "find_pair", "count_pairs", "write_user", "commit"}

Untouched == {"idle", "store_application", "store_room", "write_application",
              "read_room", "count", "write_room"}

TypeInv ==
    /\ RequestTypeOK
    /\ loaded \in [Slots -> AppRow \cup RoomRows]
    /\ wanted \in [Slots -> AppRow \cup RoomRows]

(* A request's own variables fit the statement it runs next.               *)
Target(p, k) ==
    /\ p # "idle" => k.room \in Rooms
    /\ p \in Paying \cup {"store_application"} => k.user \in Users
    /\ p \in {"find_pair", "count_pairs", "write_user"} =>
          ReferredBy[k.user] \in Users

Rows(p, l, w, x) ==
    /\ p = "store_application" =>
          /\ l \in AppRow /\ l.status \notin {"confirmed", "rejected"}
          /\ w \in AppRow /\ w.status # "none"
    /\ p = "store_room" =>
          /\ l \in RoomRows /\ w \in RoomRows
          /\ w.status \in {"assigned", "confirmed"} => w.planner \in Planners
          /\ w.planner # l.planner => w.planner \in Planners
          /\ w.status \in Promoted => l.status \in Promoted
          /\ l.status \in DOMAIN Rank /\ w.status \in DOMAIN Rank
          /\ Rank[w.status] >= Rank[l.status]
    /\ p \in {"count", "write_room"} \/ x.room => l.status \in PROMOTABLE_FROM

Awards(p, k, x) ==
    /\ p \in Untouched => ~x.room /\ ~x.user /\ x.credits = {}
    /\ p = "bonus" => x.room /\ x.credits = {}
    /\ p \in {"read_user", "find_pair", "count_pairs"} =>
          \A c \in x.credits : c.source = "viable_host_bonus"
    /\ \A c \in x.credits :
          /\ c.source = "viable_host_bonus" =>
                x.room /\ c.subject = k.room /\ c.user = HostOf[k.room]
          /\ c.source = "referral_host" =>
                /\ c.subject = k.user /\ c.user = ReferredBy[k.user]
                /\ p = "write_user" \/ x.user
    /\ \A c, d \in x.credits : c.source = d.source => c = d

LocalInv(s) ==
    /\ Target(pc[s], task[s])
    /\ Rows(pc[s], loaded[s], wanted[s], tx[s])
    /\ Awards(pc[s], task[s], tx[s])

-----------------------------------------------------------------------------
(* Steps of one slot leave the others alone.                               *)

SlotStep(s) == Arrive(s) \/ Locking(s) \/ Proceeding(s) \/ Fail(s)

LEMMA BeginEffect ==
    ASSUME TypeInv, NEW s \in Slots, NEW op, NEW r, NEW x, NEW row, NEW changed,
           NEW where, Begin(s, op, r, x, row, changed, where)
    PROVE  /\ pc' = [pc EXCEPT ![s] = where] /\ pc'[s] = where
           /\ task' = [task EXCEPT ![s] = [op |-> op, room |-> r, user |-> x]]
           /\ task'[s].room = r /\ task'[s].user = x
           /\ loaded' = [loaded EXCEPT ![s] = row] /\ loaded'[s] = row
           /\ wanted' = [wanted EXCEPT ![s] = changed] /\ wanted'[s] = changed
           /\ UNCHANGED <<vars, tx>>
           /\ pc[s] = "idle" /\ op \in Operations
BY DEF TypeInv, RequestTypeOK, Begin, Go, Idle

LEMMA ArriveEffect ==
    ASSUME TypeInv, NEW s \in Slots, Arrive(s)
    PROVE  \E op, r, x, row, changed :
              \E where \in {"store_application", "store_room", "write_application"} :
                 Begin(s, op, r, x, row, changed, where)
<1>1. ASSUME NEW op, NEW r, NEW u, LoadApplication(s, op, r, u)
      PROVE  Begin(s, op, r, u, ApplicationRow(r, u), [status |-> To[op]],
                   "store_application")
  BY <1>1 DEF LoadApplication
<1>2. ASSUME NEW r, NEW u, LoadPayment(s, r, u)
      PROVE  Begin(s, "pay", r, u, NoRow, NoRow, "write_application")
  BY <1>2 DEF LoadPayment
<1>3. ASSUME NEW op, NEW r, NEW x, NEW allowed, NEW changed,
             LoadRoom(s, op, r, x, allowed, changed)
      PROVE  Begin(s, op, r, x, RoomRow(r), changed, "store_room")
  BY <1>3 DEF LoadRoom
<1> QED
  BY <1>1, <1>2, <1>3
     DEF Arrive, LoadPublish, LoadUpdate, LoadAssign, LoadConfirm

LEMMA OthersUntouched ==
    ASSUME TypeInv, NEW s \in Slots, SlotStep(s), NEW t \in Slots, t # s
    PROVE  /\ pc'[t] = pc[t] /\ task'[t] = task[t] /\ loaded'[t] = loaded[t]
           /\ wanted'[t] = wanted[t] /\ tx'[t] = tx[t]
<1> USE DEF TypeInv, RequestTypeOK
<1>1. CASE Fail(s)
  BY <1>1 DEF Fail, Finish, Go
<1>2. CASE Arrive(s)
  BY <1>2, ArriveEffect, BeginEffect
<1>3. CASE StoreApplication(s) \/ StoreRoom(s) \/ Commit(s)
  BY <1>3 DEF StoreApplication, StoreRoom, Commit, Finish, Go
<1>4. CASE WriteApplication(s) \/ WriteRoom(s) \/ WriteUser(s)
             \/ IssueBonus(s) \/ IssuePair(s)
  BY <1>4 DEF WriteApplication, WriteRoom, WriteUser, IssueBonus, IssuePair,
     Write, Go
<1>5. CASE ReadRoom(s) \/ CountConfirmed(s) \/ ReadUser(s) \/ FindPair(s)
  BY <1>5 DEF ReadRoom, CountConfirmed, ReadUser, FindPair, Go
<1> QED
  BY <1>1, <1>2, <1>3, <1>4, <1>5 DEF SlotStep, Locking, Proceeding

(* What a request may store, and what it may award.                        *)
LEMMA WrittenRoomType ==
    ASSUME TypeInv, NEW s \in Slots, NEW r \in Rooms,
           loaded[s] \in RoomRows, wanted[s] \in RoomRows
    PROVE  Written(s, RoomRow(r)) \in RoomRows
<1>1. RoomRow(r) \in RoomRows
  BY DEF RoomRow, RoomRows, TypeInv, RequestTypeOK, TypeOK
<1> QED
  BY <1>1 DEF Written, RoomRows, RoomRow

LEMMA PairType ==
    ASSUME NEW r \in Rooms, NEW u \in Users, ReferredBy[u] \in Users
    PROVE  PairOfCredits(u, <<r, u>>) \subseteq Credit
BY DEF PairOfCredits, Credit, CreditSource

(* The phases of a room before its event.                                  *)
Phases == \A r \in Rooms : status[r] \in DOMAIN Rank

-----------------------------------------------------------------------------
(* Types and the slots' own variables, step by step.                       *)

LEMMA BeginKeeps ==
    ASSUME TypeInv, NEW s \in Slots, LocalInv(s),
           NEW op \in Operations, NEW r \in Rooms, NEW x \in Users \cup {"none"},
           NEW row \in AppRow \cup RoomRows, NEW changed \in AppRow \cup RoomRows,
           NEW where \in {"store_application", "store_room", "write_application"},
           Begin(s, op, r, x, row, changed, where),
           where # "store_room" => x \in Users,
           Rows(where, row, changed, NoWrites)
    PROVE  TypeInv' /\ LocalInv(s)'
<1>1. /\ pc'[s] = where /\ task'[s].room = r /\ task'[s].user = x
      /\ loaded'[s] = row /\ wanted'[s] = changed /\ tx' = tx
      /\ UNCHANGED vars /\ pc[s] = "idle"
  BY BeginEffect
<1>2. tx[s] \in [application : BOOLEAN, room : BOOLEAN, user : BOOLEAN,
                 credits : SUBSET Credit]
      /\ ~tx[s].room /\ ~tx[s].user /\ tx[s].credits = {}
  BY <1>1 DEF LocalInv, Awards, Untouched, TypeInv, RequestTypeOK
<1>3. TypeInv'
  <2>1. TypeOK'
    BY <1>1 DEF TypeInv, RequestTypeOK, TypeOK, vars, roomVars, accountVars,
       creditVars
  <2>2. pc' = [pc EXCEPT ![s] = where]
        /\ task' = [task EXCEPT ![s] = [op |-> op, room |-> r, user |-> x]]
        /\ loaded' = [loaded EXCEPT ![s] = row]
        /\ wanted' = [wanted EXCEPT ![s] = changed]
    BY BeginEffect
  <2> QED
    BY <1>1, <2>1, <2>2 DEF TypeInv, RequestTypeOK
<1>4. Target(where, task'[s]) /\ Awards(where, task'[s], tx[s])
  BY <1>1, <1>2 DEF Target, Awards, Untouched, Paying
<1>5. Rows(where, row, changed, tx[s])
  BY <1>2 DEF Rows, NoWrites
<1> QED
  BY <1>1, <1>3, <1>4, <1>5 DEF LocalInv

LEMMA ArriveKeeps ==
    ASSUME RoomConstants, RequestConstants, TypeInv, Phases,
           NEW s \in Slots, LocalInv(s), Arrive(s)
    PROVE  TypeInv' /\ LocalInv(s)'
<1> USE DEF RoomConstants, TypeInv, RequestTypeOK, TypeOK
<1>1. ASSUME NEW op \in ApplicationOperations, NEW r \in Rooms,
             NEW u \in Participants, LoadApplication(s, op, r, u)
      PROVE  TypeInv' /\ LocalInv(s)'
  <2>1. /\ Begin(s, op, r, u, ApplicationRow(r, u), [status |-> To[op]],
                 "store_application")
        /\ application[r][u] \in From[op] /\ op \in DOMAIN From
        /\ op \in Operations /\ u \in Users
    BY <1>1 DEF LoadApplication, ApplicationOperations
  <2>2. /\ To[op] \in ApplicationStatus
        /\ application[r][u] \in ApplicationStatus \cup {"none"}
        /\ application[r][u] \notin {"confirmed", "rejected"}
    <3>1. op \in {"apply", "cancel", "approve", "reject", "waitlist"}
      BY <2>1 DEF From
    <3>2. To[op] \in ApplicationStatus
      BY <3>1 DEF To, ApplicationStatus
    <3>3. /\ From[op] \subseteq ApplicationStatus \cup {"none"}
          /\ From[op] \cap {"confirmed", "rejected"} = {}
      <4>1. \/ From[op] = {"none", "cancelled"} \/ From[op] = CANCELLABLE_FROM
            \/ From[op] = APPROVABLE_FROM \/ From[op] = REJECTABLE_FROM
            \/ From[op] = WAITLISTABLE_FROM
        BY <3>1 DEF From
      <4> QED
        BY <4>1 DEF ApplicationStatus, CANCELLABLE_FROM, APPROVABLE_FROM,
           REJECTABLE_FROM, WAITLISTABLE_FROM
    <3> QED
      BY <2>1, <3>2, <3>3
  <2>3. /\ ApplicationRow(r, u) \in AppRow /\ [status |-> To[op]] \in AppRow
        /\ Rows("store_application", ApplicationRow(r, u),
                [status |-> To[op]], NoWrites)
    BY <2>2 DEF ApplicationRow, AppRow, Rows, NoWrites, ApplicationStatus
  <2> QED
    BY <2>1, <2>3, BeginKeeps
<1>2. ASSUME NEW r \in Rooms, NEW u \in Participants, LoadPayment(s, r, u)
      PROVE  TypeInv' /\ LocalInv(s)'
  <2>1. Begin(s, "pay", r, u, NoRow, NoRow, "write_application") /\ u \in Users
    BY <1>2 DEF LoadPayment
  <2>2. "pay" \in Operations
    BY <2>1 DEF Begin
  <2>3. NoRow \in AppRow /\ Rows("write_application", NoRow, NoRow, NoWrites)
    BY DEF NoRow, AppRow, Rows, NoWrites
  <2> QED
    BY <2>1, <2>2, <2>3, BeginKeeps
<1>3. ASSUME NEW op, NEW r \in Rooms, NEW x \in Users \cup {"none"},
             NEW allowed, NEW changed \in RoomRows,
             LoadRoom(s, op, r, x, allowed, changed),
             allowed => Rows("store_room", RoomRow(r), changed, NoWrites)
      PROVE  TypeInv' /\ LocalInv(s)'
  <2>1. /\ Begin(s, op, r, x, RoomRow(r), changed, "store_room")
        /\ op \in Operations
        /\ Rows("store_room", RoomRow(r), changed, NoWrites)
    BY <1>3 DEF LoadRoom, Begin
  <2>2. RoomRow(r) \in RoomRows
    BY DEF RoomRow, RoomRows
  <2> QED
    BY <2>1, <2>2, BeginKeeps
<1>4. \A r \in Rooms : RoomRow(r) \in RoomRows /\ status[r] \in DOMAIN Rank
  BY DEF RoomRow, RoomRows, Phases
<1> USE DEF RoomRows, RoomRow, Rows, NoWrites, RoomStatus, Promoted
<1>5. ASSUME NEW r \in Rooms, LoadPublish(s, r)
      PROVE  TypeInv' /\ LocalInv(s)'
  <2> DEFINE changed == [RoomRow(r) EXCEPT !.status = "published"]
             allowed == Active(HostOf[r]) /\ status[r] \in HOST_PUBLISH_FROM
  <2>1. LoadRoom(s, "publish", r, "none", allowed, changed)
    BY <1>5 DEF LoadPublish
  <2>2. changed \in RoomRows
    BY <1>4
  <2>3. allowed => Rows("store_room", RoomRow(r), changed, NoWrites)
    BY <1>4, <2>2 DEF HOST_PUBLISH_FROM, Rank
  <2> HIDE DEF changed, allowed
  <2> QED
    BY <1>3, <2>1, <2>2, <2>3
<1>6. ASSUME NEW r \in Rooms, NEW c \in Capacities, NEW late \in BOOLEAN,
             LoadUpdate(s, r, c, late)
      PROVE  TypeInv' /\ LocalInv(s)'
  <2> DEFINE changed == [RoomRow(r) EXCEPT !.male = c.male, !.female = c.female,
                                           !.late = late]
             allowed == Active(HostOf[r]) /\ status[r] \in HOST_EDITABLE_STATES
  <2>1. LoadRoom(s, "update", r, "none", allowed, changed)
    BY <1>6 DEF LoadUpdate
  <2>2. changed \in RoomRows
    BY <1>4
  <2>3. allowed => Rows("store_room", RoomRow(r), changed, NoWrites)
    BY <1>4, <2>2 DEF HOST_EDITABLE_STATES, Rank
  <2> HIDE DEF changed, allowed
  <2> QED
    BY <1>3, <2>1, <2>2, <2>3
<1>7. ASSUME NEW r \in Rooms, NEW p \in Planners, LoadAssign(s, r, p)
      PROVE  TypeInv' /\ LocalInv(s)'
  <2> DEFINE changed == [RoomRow(r) EXCEPT !.status = "assigned", !.planner = p]
             allowed == /\ status[r] \in ASSIGNABLE_FROM
                        /\ plannerStatus[p] = "approved"
  <2>1. LoadRoom(s, "assign", r, p, allowed, changed)
    BY <1>7 DEF LoadAssign
  <2>2. changed \in RoomRows
    BY <1>4
  <2>3. allowed => Rows("store_room", RoomRow(r), changed, NoWrites)
    BY <1>4, <2>2 DEF ASSIGNABLE_FROM, Rank
  <2> HIDE DEF changed, allowed
  <2> QED
    BY <1>3, <2>1, <2>2, <2>3
<1>8. ASSUME NEW r \in Rooms, NEW p \in Planners, LoadConfirm(s, r, p)
      PROVE  TypeInv' /\ LocalInv(s)'
  <2> DEFINE changed == [RoomRow(r) EXCEPT !.status = "confirmed"]
  <2>1. PICK allowed : /\ LoadRoom(s, "confirm", r, p, allowed, changed)
                       /\ allowed => /\ status[r] \in CONFIRMABLE_FROM
                                     /\ planner[r] = p
    BY <1>8 DEF LoadConfirm, PlannerActs
  <2>2. changed \in RoomRows
    BY <1>4
  <2>3. allowed => Rows("store_room", RoomRow(r), changed, NoWrites)
    BY <1>4, <2>1, <2>2 DEF CONFIRMABLE_FROM, Rank
  <2> HIDE DEF changed
  <2> QED
    BY <1>3, <2>1, <2>2, <2>3
<1> QED
  BY <1>1, <1>2, <1>5, <1>6, <1>7, <1>8 DEF Arrive

LEMMA FinishEffect ==
    ASSUME TypeInv, NEW s \in Slots, Finish(s)
    PROVE  /\ pc'[s] = "idle" /\ ~tx'[s].room /\ ~tx'[s].user
           /\ tx'[s].credits = {}
           /\ LocalInv(s)'
           /\ TypeOK' => TypeInv'
<1> USE DEF TypeInv, RequestTypeOK
<1>1. /\ pc'[s] = "idle" /\ tx'[s] = NoWrites
      /\ task'[s] = NoTask /\ loaded'[s] = NoRow /\ wanted'[s] = NoRow
  BY DEF Finish, Go
<1>2. LocalInv(s)'
  BY <1>1 DEF LocalInv, Target, Rows, Awards, Paying, Untouched, NoWrites
<1>3. ASSUME TypeOK' PROVE TypeInv'
  <2>1. /\ NoTask \in [op : Operations \cup {"none"}, room : Rooms \cup {"none"},
                       user : Users \cup {"none"}]
        /\ NoRow \in AppRow
        /\ NoWrites \in [application : BOOLEAN, room : BOOLEAN, user : BOOLEAN,
                         credits : SUBSET Credit]
    BY DEF NoTask, NoRow, NoWrites, AppRow
  <2> QED
    BY <1>3, <2>1 DEF Finish, Go
<1> QED
  BY <1>1, <1>2, <1>3 DEF NoWrites

(* Steps at whose end the request is done.                                 *)
LEMMA FinishingKeeps ==
    ASSUME RoomConstants, RequestConstants, TypeInv, Phases,
           NEW s \in Slots, LocalInv(s),
           StoreApplication(s) \/ StoreRoom(s) \/ Commit(s) \/ Fail(s)
    PROVE  TypeInv' /\ LocalInv(s)' /\ Phases'
<1>1. Finish(s)
  BY DEF StoreApplication, StoreRoom, Commit, Fail
<1>2. TypeOK' /\ Phases'
  <2> USE DEF TypeInv, RequestTypeOK, TypeOK, Phases
  <2>1. CASE StoreApplication(s)
    <3>1. /\ task[s].room \in Rooms /\ task[s].user \in Users
          /\ wanted[s].status \in ApplicationStatus \cup {"none"}
      BY <2>1 DEF StoreApplication, LocalInv, Target, Rows, AppRow
    <3>2. Written(s, ApplicationRow(task[s].room, task[s].user)).status
             \in ApplicationStatus \cup {"none"}
      BY <3>1 DEF Written, ApplicationRow
    <3> QED
      BY <2>1, <3>1, <3>2 DEF StoreApplication, roomVars, accountVars, creditVars
  <2>2. CASE StoreRoom(s)
    <3> DEFINE row == Written(s, RoomRow(task[s].room))
    <3>1. /\ task[s].room \in Rooms /\ loaded[s] \in RoomRows
          /\ wanted[s] \in RoomRows /\ wanted[s].status \in DOMAIN Rank
      BY <2>2 DEF StoreRoom, LocalInv, Target, Rows
    <3>2. row \in RoomRows
      BY <3>1, WrittenRoomType
    <3>3. row.status \in DOMAIN Rank
      BY <3>1 DEF Written, RoomRow
    <3> HIDE DEF row
    <3>4. /\ row.status \in RoomStatus \cup {"none"}
          /\ row.planner \in Planners \cup {NoUser}
          /\ [male |-> row.male, female |-> row.female]
                \in [male : 1..20, female : 1..20]
          /\ row.late \in BOOLEAN
      BY <3>2 DEF RoomRows
    <3>5. /\ status' = [status EXCEPT ![task[s].room] = row.status]
          /\ planner' = [planner EXCEPT ![task[s].room] = row.planner]
          /\ capacity' = [capacity EXCEPT ![task[s].room] =
                             [male |-> row.male, female |-> row.female]]
          /\ deadlinePassed' = [deadlinePassed EXCEPT ![task[s].room] = row.late]
          /\ UNCHANGED <<application, accountVars, creditVars>>
      BY <2>2 DEF StoreRoom, row
    <3> QED
      BY <3>1, <3>3, <3>4, <3>5 DEF accountVars, creditVars
  <2>3. CASE Commit(s)
    <3>1. /\ task[s].room \in Rooms /\ task[s].user \in Users
          /\ tx[s].credits \subseteq Credit
          /\ tx[s].room \in BOOLEAN /\ tx[s].user \in BOOLEAN
      BY <2>3 DEF Commit, LocalInv, Target, Paying
    <3>2. "confirmed" \in ApplicationStatus
          /\ "viable" \in RoomStatus /\ "viable" \in DOMAIN Rank
      BY DEF ApplicationStatus, RoomStatus, Rank
    <3>3. bonusEmitted' \in [Users -> BOOLEAN]
      <4>1. (bonusEmitted[task[s].user] \/ tx[s].user) \in BOOLEAN
        BY <3>1
      <4> QED
        BY <2>3, <4>1 DEF Commit
    <3> QED
      BY <2>3, <3>1, <3>2, <3>3 DEF Commit, accountVars
  <2>4. CASE Fail(s)
    BY <2>4 DEF Fail, vars, roomVars, accountVars, creditVars
  <2> QED
    BY <2>1, <2>2, <2>3, <2>4
<1> QED
  BY <1>1, <1>2, FinishEffect

(* Steps of a payment that only move it on, and steps that add to what it  *)
(* has written.                                                            *)
MovingOn(s, where) ==
    Go(s, where) /\ UNCHANGED <<vars, task, loaded, wanted, tx>>

Writing(s, where, new) == Go(s, where) /\ Write(s, new)

LEMMA MovingOnKeeps ==
    ASSUME TypeInv, NEW s \in Slots, LocalInv(s), pc[s] \in Paying,
           NEW where \in Paying, MovingOn(s, where),
           Target(where, task[s]),
           Rows(where, loaded[s], wanted[s], tx[s]),
           Awards(where, task[s], tx[s])
    PROVE  TypeInv' /\ LocalInv(s)'
<1>1. /\ pc'[s] = where /\ pc' = [pc EXCEPT ![s] = where]
      /\ UNCHANGED <<vars, task, loaded, wanted, tx>>
  BY DEF MovingOn, Go, TypeInv, RequestTypeOK
<1>2. TypeOK'
  BY <1>1 DEF TypeInv, RequestTypeOK, TypeOK, vars, roomVars, accountVars,
     creditVars
<1>3. TypeInv'
  BY <1>1, <1>2 DEF TypeInv, RequestTypeOK, Paying
<1> QED
  BY <1>1, <1>3 DEF LocalInv

LEMMA WritingKeeps ==
    ASSUME TypeInv, NEW s \in Slots, LocalInv(s), pc[s] \in Paying,
           NEW where \in Paying,
           NEW new \in [application : BOOLEAN, room : BOOLEAN, user : BOOLEAN,
                        credits : SUBSET Credit],
           Writing(s, where, new),
           Target(where, task[s]),
           Rows(where, loaded[s], wanted[s], new),
           Awards(where, task[s], new)
    PROVE  TypeInv' /\ LocalInv(s)'
<1>1. /\ pc'[s] = where /\ pc' = [pc EXCEPT ![s] = where]
      /\ tx'[s] = new /\ tx' = [tx EXCEPT ![s] = new]
      /\ UNCHANGED <<vars, task, loaded, wanted>>
  BY DEF Writing, Write, Go, TypeInv, RequestTypeOK
<1>2. TypeOK'
  BY <1>1 DEF TypeInv, RequestTypeOK, TypeOK, vars, roomVars, accountVars,
     creditVars
<1>3. TypeInv'
  BY <1>1, <1>2 DEF TypeInv, RequestTypeOK, Paying
<1> QED
  BY <1>1, <1>3 DEF LocalInv

PaymentStep(s) ==
    \/ WriteApplication(s) \/ ReadRoom(s) \/ CountConfirmed(s) \/ WriteRoom(s)
    \/ IssueBonus(s) \/ ReadUser(s) \/ FindPair(s) \/ IssuePair(s)
    \/ WriteUser(s)

LEMMA PaymentKeeps ==
    ASSUME RoomConstants, RequestConstants, TypeInv,
           NEW s \in Slots, LocalInv(s), PaymentStep(s)
    PROVE  TypeInv' /\ LocalInv(s)' /\ UNCHANGED vars
<1> DEFINE r == task[s].room
           u == task[s].user
<1>1. /\ pc[s] \in Paying /\ r \in Rooms /\ u \in Users
      /\ tx[s] \in [application : BOOLEAN, room : BOOLEAN, user : BOOLEAN,
                    credits : SUBSET Credit]
  <2>1. pc[s] \in Paying
    BY DEF PaymentStep, WriteApplication, ReadRoom, CountConfirmed, WriteRoom,
       IssueBonus, ReadUser, FindPair, IssuePair, WriteUser, Paying
  <2> QED
    BY <2>1 DEF LocalInv, Target, Paying, TypeInv, RequestTypeOK
<1>2. /\ Target(pc[s], task[s]) /\ Rows(pc[s], loaded[s], wanted[s], tx[s])
      /\ Awards(pc[s], task[s], tx[s])
  BY DEF LocalInv
<1>3. UNCHANGED vars
  BY DEF PaymentStep, WriteApplication, ReadRoom, CountConfirmed, WriteRoom,
     IssueBonus, ReadUser, FindPair, IssuePair, WriteUser, Write
<1> USE DEF Target, Rows, Awards, Paying, Untouched
<1>4. CASE WriteApplication(s)
  <2> DEFINE new == [tx[s] EXCEPT !.application = TRUE]
  <2>1. Writing(s, "read_room", new) /\ pc[s] = "write_application"
    BY <1>4 DEF WriteApplication, Writing
  <2>2. /\ new \in [application : BOOLEAN, room : BOOLEAN, user : BOOLEAN,
                    credits : SUBSET Credit]
        /\ new.room = tx[s].room /\ new.user = tx[s].user
        /\ new.credits = tx[s].credits
    BY <1>1
  <2> HIDE DEF new
  <2> QED
    BY <1>1, <1>2, <1>3, <2>1, <2>2, WritingKeeps
<1>5. CASE ReadRoom(s)
  <2> DEFINE row == RoomRow(r)
             where == IF row.status \in PROMOTABLE_FROM THEN "count" ELSE "read_user"
  <2>1. /\ pc[s] = "read_room"
        /\ pc' = [pc EXCEPT ![s] = where]
        /\ loaded' = [loaded EXCEPT ![s] = row]
        /\ wanted' = [wanted EXCEPT ![s] = [row EXCEPT !.status = "viable"]]
        /\ UNCHANGED <<task, tx>>
    BY <1>5 DEF ReadRoom, Go
  <2>2. row \in RoomRows /\ [row EXCEPT !.status = "viable"] \in RoomRows
    BY <1>1 DEF RoomRow, RoomRows, RoomStatus, TypeInv, RequestTypeOK, TypeOK
  <2>3. ~tx[s].room /\ ~tx[s].user /\ tx[s].credits = {}
    BY <1>2, <2>1
  <2>4. where \in {"count", "read_user"}
        /\ (where = "count" => row.status \in PROMOTABLE_FROM)
    OBVIOUS
  <2> HIDE DEF row, where
  <2>5. /\ pc'[s] = where /\ loaded'[s] = row /\ task'[s] = task[s]
        /\ tx'[s] = tx[s]
    BY <2>1 DEF TypeInv, RequestTypeOK
  <2>6. LocalInv(s)'
    <3>1. Target(where, task[s]) /\ Awards(where, task[s], tx[s])
      BY <1>1, <2>3, <2>4
    <3>2. Rows(where, row, wanted'[s], tx[s])
      BY <2>3, <2>4
    <3> HIDE DEF Target, Rows, Awards
    <3> QED
      BY <2>5, <3>1, <3>2 DEF LocalInv
  <2>7. TypeInv'
    <3>1. TypeOK'
      BY <1>3 DEF TypeInv, RequestTypeOK, TypeOK, vars, roomVars, accountVars,
         creditVars
    <3> QED
      BY <2>1, <2>2, <2>4, <3>1 DEF TypeInv, RequestTypeOK
  <2> QED
    BY <1>3, <2>6, <2>7
<1>6. CASE CountConfirmed(s)
  <2>1. PICK where \in {"write_room", "read_user"} : MovingOn(s, where)
    BY <1>6 DEF CountConfirmed, MovingOn
  <2>2. pc[s] = "count"
    BY <1>6 DEF CountConfirmed
  <2> QED
    BY <1>1, <1>2, <1>3, <2>1, <2>2, MovingOnKeeps
<1>7. CASE WriteRoom(s)
  <2> DEFINE new == [tx[s] EXCEPT !.room = TRUE]
  <2>1. Writing(s, "bonus", new) /\ pc[s] = "write_room"
    BY <1>7 DEF WriteRoom, Writing
  <2>2. /\ new \in [application : BOOLEAN, room : BOOLEAN, user : BOOLEAN,
                    credits : SUBSET Credit]
        /\ new.room /\ new.user = tx[s].user /\ new.credits = tx[s].credits
    BY <1>1
  <2> HIDE DEF new
  <2> QED
    BY <1>1, <1>2, <1>3, <2>1, <2>2, WritingKeeps
<1>8. CASE IssueBonus(s)
  <2> DEFINE bonus == ViableHostBonus(r, <<r, u>>)
             new == [tx[s] EXCEPT !.credits = bonus]
  <2>1. Writing(s, "read_user", new) /\ pc[s] = "bonus"
    BY <1>8 DEF IssueBonus, Writing
  <2>2. /\ bonus \subseteq Credit
        /\ \A c \in bonus : /\ c.source = "viable_host_bonus"
                            /\ c.subject = r /\ c.user = HostOf[r]
        /\ \A c, d \in bonus : c = d
    BY <1>1 DEF ViableHostBonus, Credit, CreditSource, RoomConstants
  <2> HIDE DEF bonus
  <2>3. /\ new \in [application : BOOLEAN, room : BOOLEAN, user : BOOLEAN,
                    credits : SUBSET Credit]
        /\ new.room = tx[s].room /\ new.user = tx[s].user /\ new.credits = bonus
    BY <1>1, <2>2
  <2> HIDE DEF new
  <2> QED
    BY <1>1, <1>2, <1>3, <2>1, <2>2, <2>3, WritingKeeps
<1>9. CASE ReadUser(s)
  <2>1. PICK where \in {"find_pair", "commit"} :
           MovingOn(s, where) /\ (where = "find_pair" => ReferralDue(u))
    BY <1>9 DEF ReadUser, MovingOn
  <2>2. pc[s] = "read_user" /\ (ReferralDue(u) => ReferredBy[u] \in Users)
    BY <1>1, <1>9 DEF ReadUser, ReferralDue, RoomConstants
  <2>3. \A c \in tx[s].credits : c.source = "viable_host_bonus"
    BY <1>2, <2>2
  <2> QED
    BY <1>1, <1>2, <1>3, <2>1, <2>2, <2>3, MovingOnKeeps
<1>10. CASE FindPair(s)
  <2>1. PICK where \in {"write_user", "count_pairs"} : MovingOn(s, where)
    BY <1>10 DEF FindPair, MovingOn
  <2>2. pc[s] = "find_pair"
    BY <1>10 DEF FindPair
  <2> QED
    BY <1>1, <1>2, <1>3, <2>1, <2>2, MovingOnKeeps
<1>11. CASE IssuePair(s)
  <2> DEFINE pair == IF CapReached(u) THEN {} ELSE PairOfCredits(u, <<r, u>>)
             new == [tx[s] EXCEPT !.credits = @ \cup pair]
  <2>1. Writing(s, "write_user", new) /\ pc[s] = "count_pairs"
    BY <1>11 DEF IssuePair, Writing
  <2>2. ReferredBy[u] \in Users
    BY <1>2, <2>1
  <2>3. /\ pair \subseteq Credit
        /\ \A c \in pair : /\ c.source # "viable_host_bonus"
                           /\ c.source = "referral_host" =>
                                 c.subject = u /\ c.user = ReferredBy[u]
        /\ \A c, d \in pair : c.source = d.source => c = d
    <3>1. PairOfCredits(u, <<r, u>>) \subseteq Credit
      BY <1>1, <2>2, PairType
    <3>2. /\ \A c \in PairOfCredits(u, <<r, u>>) :
                /\ c.source # "viable_host_bonus"
                /\ c.source = "referral_host" =>
                      c.subject = u /\ c.user = ReferredBy[u]
          /\ \A c, d \in PairOfCredits(u, <<r, u>>) : c.source = d.source => c = d
      <4> HIDE DEF r, u
      <4> QED
        BY DEF PairOfCredits
    <3> QED
      BY <3>1, <3>2
  <2> HIDE DEF pair
  <2>4. /\ new \in [application : BOOLEAN, room : BOOLEAN, user : BOOLEAN,
                    credits : SUBSET Credit]
        /\ new.room = tx[s].room /\ new.user = tx[s].user
        /\ new.credits = tx[s].credits \cup pair
    BY <1>1, <2>3
  <2>5. \A c \in tx[s].credits : c.source = "viable_host_bonus"
    BY <1>2, <2>1
  <2> HIDE DEF new
  <2>6. Awards("write_user", task[s], new)
    BY <1>2, <2>1, <2>3, <2>4, <2>5
  <2>7. /\ Target("write_user", task[s])
        /\ Rows("write_user", loaded[s], wanted[s], new)
    BY <1>1, <1>2, <2>1, <2>2, <2>4
  <2> HIDE DEF Target, Rows, Awards
  <2> QED
    BY <1>1, <1>3, <2>1, <2>4, <2>6, <2>7, WritingKeeps
<1>12. CASE WriteUser(s)
  <2> DEFINE new == [tx[s] EXCEPT !.user = TRUE]
  <2>1. Writing(s, "commit", new) /\ pc[s] = "write_user"
    BY <1>12 DEF WriteUser, Writing
  <2>2. /\ new \in [application : BOOLEAN, room : BOOLEAN, user : BOOLEAN,
                    credits : SUBSET Credit]
        /\ new.room = tx[s].room /\ new.user /\ new.credits = tx[s].credits
    BY <1>1
  <2> HIDE DEF new
  <2> QED
    BY <1>1, <1>2, <1>3, <2>1, <2>2, WritingKeeps
<1> QED
  BY <1>4, <1>5, <1>6, <1>7, <1>8, <1>9, <1>10, <1>11, <1>12 DEF PaymentStep

-----------------------------------------------------------------------------
(* All slots together.                                                     *)

SlotsInv == TypeInv /\ Phases /\ \A s \in Slots : LocalInv(s)

LEMMA SlotsInitially ==
    ASSUME RoomConstants, RequestConstants, Init, RequestInit
    PROVE  SlotsInv
<1>1. TypeOK
  BY InitTypeOK
<1>2. TypeInv /\ Phases
  BY <1>1 DEF Init, RequestInit, TypeInv, RequestTypeOK, NoTask, NoRow,
     NoWrites, AppRow, Phases, Rank
<1>3. ASSUME NEW s \in Slots PROVE LocalInv(s)
  BY DEF RequestInit, LocalInv, Target, Rows, Awards, Paying, Untouched, NoWrites
<1> QED
  BY <1>2, <1>3 DEF SlotsInv

(* A request does not notice the steps of another in its own variables.    *)
LEMMA OthersKeepLocal ==
    ASSUME SlotsInv, NEW s \in Slots, SlotStep(s), NEW t \in Slots, t # s
    PROVE  LocalInv(t)'
<1>1. /\ pc'[t] = pc[t] /\ task'[t] = task[t] /\ loaded'[t] = loaded[t]
      /\ wanted'[t] = wanted[t] /\ tx'[t] = tx[t]
  BY OthersUntouched DEF SlotsInv
<1> QED
  BY <1>1 DEF SlotsInv, LocalInv

LEMMA AtomicIsNext == Atomic => [Next]_vars
BY DEF Atomic, Next, RoomNext, RoomStep, AccountStep

(* The steps that are one statement only begin a room or touch none.       *)
LEMMA AtomicEffect ==
    ASSUME TypeInv, Atomic
    PROVE  /\ UNCHANGED <<planner, application, creditVars, requestVars>>
           /\ \A r \in Rooms : \/ status'[r] = status[r]
                               \/ status[r] = "none" /\ status'[r] = "draft"
<1> USE DEF TypeInv, RequestTypeOK, TypeOK
<1>1. ASSUME NEW q \in Rooms, CreateRoom(q)
      PROVE  /\ UNCHANGED <<planner, application, creditVars>>
             /\ \A r \in Rooms : \/ status'[r] = status[r]
                                 \/ status[r] = "none" /\ status'[r] = "draft"
  BY <1>1 DEF CreateRoom
<1> QED
  BY <1>1 DEF Atomic, DeadlinePasses, UpsertMyProfile, SetUserStatus,
     SetPlannerStatus, roomVars

(* The kinds of steps, by what they do to the database.                    *)
Silent(s) == Arrive(s) \/ PaymentStep(s) \/ Fail(s)

LEMMA StepKinds ==
    ASSUME NEW s
    PROVE  SlotStep(s) <=> \/ Silent(s) \/ StoreApplication(s)
                           \/ StoreRoom(s) \/ Commit(s)
BY DEF SlotStep, Silent, PaymentStep, Locking, Proceeding

LEMMA SilentIsSilent ==
    ASSUME RoomConstants, RequestConstants, SlotsInv, NEW s \in Slots, Silent(s)
    PROVE  UNCHANGED vars
<1>1. CASE Arrive(s)
  BY <1>1, ArriveEffect, BeginEffect DEF SlotsInv
<1>2. CASE PaymentStep(s)
  BY <1>2, PaymentKeeps DEF SlotsInv
<1>3. CASE Fail(s)
  BY <1>3 DEF Fail
<1> QED
  BY <1>1, <1>2, <1>3 DEF Silent

LEMMA SlotsStep ==
    ASSUME RoomConstants, RequestConstants, SlotsInv, [RequestNext]_allVars
    PROVE  SlotsInv'
<1>1. ASSUME NEW s \in Slots, SlotStep(s) PROVE SlotsInv'
  <2>1. TypeInv' /\ LocalInv(s)' /\ Phases'
    <3>1. CASE Arrive(s)
      <4>1. UNCHANGED vars
        BY <3>1, SilentIsSilent DEF Silent
      <4> QED
        BY <3>1, <4>1, ArriveKeeps DEF SlotsInv, Phases, vars, roomVars
    <3>2. CASE PaymentStep(s)
      BY <3>2, PaymentKeeps DEF SlotsInv, Phases, vars, roomVars
    <3>3. CASE StoreApplication(s) \/ StoreRoom(s) \/ Commit(s) \/ Fail(s)
      BY <3>3, FinishingKeeps DEF SlotsInv
    <3> QED
      BY <1>1, <3>1, <3>2, <3>3, StepKinds DEF Silent
  <2>2. ASSUME NEW t \in Slots PROVE LocalInv(t)'
    BY <1>1, <2>1, OthersKeepLocal
  <2> QED
    BY <2>1, <2>2 DEF SlotsInv
<1>2. CASE Atomic
  <2>1. /\ UNCHANGED requestVars
        /\ \A r \in Rooms : \/ status'[r] = status[r]
                            \/ status[r] = "none" /\ status'[r] = "draft"
    BY <1>2, AtomicEffect DEF SlotsInv
  <2>2. TypeOK'
    BY <1>2, AtomicIsNext, NextTypeOK DEF SlotsInv, TypeInv, RequestTypeOK
  <2>3. TypeInv' /\ Phases'
    BY <2>1, <2>2 DEF SlotsInv, TypeInv, RequestTypeOK, requestVars, Phases, Rank
  <2>4. ASSUME NEW t \in Slots PROVE LocalInv(t)'
    BY <2>1 DEF SlotsInv, LocalInv, requestVars
  <2> QED
    BY <2>3, <2>4 DEF SlotsInv
<1>3. CASE UNCHANGED allVars
  <2>1. TypeOK'
    BY <1>3, NextTypeOK DEF allVars, SlotsInv, TypeInv, RequestTypeOK
  <2>2. TypeInv' /\ Phases'
    BY <1>3, <2>1 DEF allVars, vars, roomVars, requestVars, SlotsInv, TypeInv,
       RequestTypeOK, Phases
  <2>3. ASSUME NEW t \in Slots PROVE LocalInv(t)'
    BY <1>3 DEF allVars, requestVars, SlotsInv, LocalInv
  <2> QED
    BY <2>2, <2>3 DEF SlotsInv
<1> QED
  BY <1>1, <1>2, <1>3 DEF RequestNext, SlotStep

LEMMA SlotsAlways ==
    ASSUME RoomConstants, RequestConstants PROVE RequestSpec => []SlotsInv
<1>1. Init /\ RequestInit => SlotsInv
  BY SlotsInitially
<1>2. SlotsInv /\ [RequestNext]_allVars => SlotsInv'
  BY SlotsStep
<1> QED
  BY <1>1, <1>2, PTL DEF RequestSpec

(* Types of the database and of the requests in flight.                    *)
THEOREM RequestTypeCorrect ==
    ASSUME RoomConstants, RequestConstants PROVE RequestSpec => []RequestTypeOK
<1>1. SlotsInv => RequestTypeOK
  BY DEF SlotsInv, TypeInv
<1> QED
  BY <1>1, SlotsAlways, PTL

-----------------------------------------------------------------------------
(* Only what is stale undoes what is settled.                              *)

LEMMA FinishersIdle ==
    ASSUME SlotsInv, NEW s \in Slots,
           StoreApplication(s) \/ StoreRoom(s) \/ Commit(s)
    PROVE  pc'[s] = "idle"
<1>1. Finish(s)
  BY DEF StoreApplication, StoreRoom, Commit
<1> QED
  BY <1>1, FinishEffect DEF SlotsInv

LEMMA SettledRequestStep ==
    ASSUME RoomConstants, RequestConstants, SlotsInv, [RequestNext]_allVars,
           NEW r \in Rooms, NEW u \in Users,
           application[r][u] \in {"confirmed", "rejected"},
           application'[r][u] # application[r][u]
    PROVE  \E s \in Slots : /\ task[s].room = r /\ task[s].user = u
                            /\ pc'[s] = "idle"
                            /\ \/ /\ pc[s] = "store_application"
                                  /\ loaded[s].status # application[r][u]
                               \/ /\ pc[s] = "commit"
                                  /\ application[r][u] = "rejected"
<1> USE DEF TypeInv, RequestTypeOK, TypeOK
<1>1. PICK s \in Slots : StoreApplication(s) \/ StoreRoom(s) \/ Commit(s)
  <2>1. ~Atomic
    BY AtomicEffect DEF SlotsInv
  <2>2. ~ UNCHANGED allVars
    BY DEF allVars, vars
  <2>3. PICK s \in Slots : SlotStep(s)
    BY <2>1, <2>2 DEF RequestNext, SlotStep
  <2>4. ~Silent(s)
    BY SilentIsSilent DEF vars
  <2> QED
    BY <2>3, <2>4, StepKinds
<1>2. pc'[s] = "idle"
  BY <1>1, FinishersIdle
<1>3. CASE StoreApplication(s)
  <2>1. /\ pc[s] = "store_application" /\ task[s].room \in Rooms
        /\ task[s].user \in Users /\ loaded[s].status \notin {"confirmed", "rejected"}
    BY <1>3 DEF StoreApplication, SlotsInv, LocalInv, Target, Rows
  <2>2. task[s].room = r /\ task[s].user = u
    BY <1>3, <2>1 DEF StoreApplication, SlotsInv
  <2> QED
    BY <1>2, <2>1, <2>2
<1>4. CASE StoreRoom(s)
  BY <1>4 DEF StoreRoom
<1>5. CASE Commit(s)
  <2>1. task[s].room \in Rooms /\ task[s].user \in Users
    BY <1>5 DEF Commit, SlotsInv, LocalInv, Target, Paying
  <2>2. /\ task[s].room = r /\ task[s].user = u
        /\ application'[r][u] = "confirmed" /\ pc[s] = "commit"
    BY <1>5, <2>1 DEF Commit, SlotsInv
  <2> QED
    BY <1>2, <2>2
<1> QED
  BY <1>1, <1>3, <1>4, <1>5

(* For any number of requests in flight: a confirmed or rejected guest is  *)
(* moved only by the write of a request that had loaded another status.    *)
THEOREM SettledMovesOnlyIfStale ==
    ASSUME RoomConstants, RequestConstants
    PROVE  RequestSpec => SettledUnlessStale
<1>1. SlotsInv /\ [RequestNext]_allVars =>
         [\A r \in Rooms, u \in Users :
            /\ application[r][u] \in {"confirmed", "rejected"}
            /\ application'[r][u] # application[r][u]
            =>
              \E s \in Slots : /\ task[s].room = r /\ task[s].user = u
                               /\ pc'[s] = "idle"
                               /\ \/ /\ pc[s] = "store_application"
                                     /\ loaded[s].status # application[r][u]
                                  \/ /\ pc[s] = "commit"
                                     /\ application[r][u] = "rejected"]_allVars
  BY SettledRequestStep
<1> QED
  BY <1>1, SlotsAlways, PTL DEF RequestSpec, SettledUnlessStale

LEMMA RegressStep ==
    ASSUME RoomConstants, RequestConstants, SlotsInv, [RequestNext]_allVars,
           NEW r \in Rooms, Rank[status'[r]] < Rank[status[r]]
    PROVE  \E s \in Slots : /\ task[s].room = r
                            /\ pc[s] \in {"store_room", "commit"}
                            /\ pc'[s] = "idle"
                            /\ loaded[s].status # status[r]
<1> USE DEF TypeInv, RequestTypeOK, TypeOK
<1>1. /\ status[r] \in DOMAIN Rank /\ status'[r] # status[r]
      /\ \A a \in DOMAIN Rank : Rank[a] \in Int
  BY DEF SlotsInv, Phases, Rank
<1>2. PICK s \in Slots : StoreRoom(s) \/ Commit(s)
  <2>1. ~Atomic
    <3>1. ASSUME status[r] = "none", status'[r] = "draft" PROVE FALSE
      BY <3>1 DEF Rank
    <3> QED
      BY <1>1, <3>1, AtomicEffect DEF SlotsInv
  <2>2. ~ UNCHANGED allVars
    BY <1>1 DEF allVars, vars, roomVars
  <2>3. PICK s \in Slots : SlotStep(s)
    BY <2>1, <2>2 DEF RequestNext, SlotStep
  <2>4. ~Silent(s) /\ ~StoreApplication(s)
    BY <1>1, SilentIsSilent DEF vars, roomVars, StoreApplication
  <2> QED
    BY <2>3, <2>4, StepKinds
<1>3. pc'[s] = "idle"
  BY <1>2, FinishersIdle
<1>4. CASE StoreRoom(s)
  <2>1. /\ pc[s] = "store_room" /\ task[s].room \in Rooms
        /\ loaded[s].status \in DOMAIN Rank /\ wanted[s].status \in DOMAIN Rank
        /\ Rank[wanted[s].status] >= Rank[loaded[s].status]
    BY <1>4 DEF StoreRoom, SlotsInv, LocalInv, Target, Rows
  <2>2. /\ task[s].room = r
        /\ status'[r] = IF wanted[s].status # loaded[s].status
                        THEN wanted[s].status ELSE status[r]
    BY <1>1, <1>4, <2>1 DEF StoreRoom, SlotsInv, Written, RoomRow
  <2>3. loaded[s].status # status[r]
    BY <1>1, <2>1, <2>2
  <2> QED
    BY <1>3, <2>1, <2>2, <2>3
<1>5. CASE Commit(s)
  <2>1. pc[s] = "commit" /\ task[s].room \in Rooms
    BY <1>5 DEF Commit, SlotsInv, LocalInv, Target
  <2>2. task[s].room = r /\ status'[r] = "viable" /\ tx[s].room
    BY <1>1, <1>5, <2>1 DEF Commit, SlotsInv
  <2>3. loaded[s].status \in PROMOTABLE_FROM
    BY <2>2 DEF SlotsInv, LocalInv, Rows
  <2>4. loaded[s].status # status[r]
    BY <2>2, <2>3 DEF PROMOTABLE_FROM, Rank
  <2> QED
    BY <1>3, <2>1, <2>2, <2>4
<1> QED
  BY <1>2, <1>4, <1>5

(* For any number of requests in flight: a room's status moves back only   *)
(* by the write of a request that had loaded another one.                  *)
THEOREM RegressesOnlyIfStale ==
    ASSUME RoomConstants, RequestConstants
    PROVE  RequestSpec => RegressOnlyIfStale
<1>1. SlotsInv /\ [RequestNext]_allVars =>
         [\A r \in Rooms : Rank[status'[r]] < Rank[status[r]] =>
            \E s \in Slots : /\ task[s].room = r
                             /\ pc[s] \in {"store_room", "commit"}
                             /\ pc'[s] = "idle"
                             /\ loaded[s].status # status[r]]_allVars
  BY RegressStep
<1> QED
  BY <1>1, SlotsAlways, PTL DEF RequestSpec, RegressOnlyIfStale

-----------------------------------------------------------------------------
(* What is in the database because of a request.                           *)

LEMMA WhoWrites ==
    ASSUME RoomConstants, RequestConstants, SlotsInv, [RequestNext]_allVars
    PROVE  \/ /\ UNCHANGED <<planner, application, creditVars>>
              /\ \A r \in Rooms : \/ status'[r] = status[r]
                                  \/ status[r] = "none" /\ status'[r] = "draft"
              /\ \/ UNCHANGED requestVars
                 \/ \E s \in Slots : SlotStep(s) /\ Silent(s)
           \/ \E s \in Slots : /\ SlotStep(s)
                               /\ \/ StoreApplication(s) \/ StoreRoom(s)
                                  \/ Commit(s)
<1>1. CASE Atomic
  BY <1>1, AtomicEffect DEF SlotsInv
<1>2. CASE UNCHANGED allVars
  BY <1>2 DEF allVars, vars, roomVars
<1>3. ASSUME NEW s \in Slots, SlotStep(s), Silent(s)
      PROVE  UNCHANGED <<planner, application, creditVars, status>>
  BY <1>3, SilentIsSilent DEF vars, roomVars
<1> QED
  BY <1>1, <1>2, <1>3, StepKinds DEF RequestNext, SlotStep

FlaggedInv ==
    \A c \in credits : c.source = "referral_host" =>
        c.subject \in Users /\ bonusEmitted[c.subject]

LEMMA FlaggedStep ==
    ASSUME RoomConstants, RequestConstants, SlotsInv, FlaggedInv,
           [RequestNext]_allVars
    PROVE  FlaggedInv'
<1>1. CASE UNCHANGED creditVars
  BY <1>1 DEF creditVars, FlaggedInv
<1>2. ASSUME NEW s \in Slots, Commit(s) PROVE FlaggedInv'
  <2>1. /\ task[s].user \in Users /\ pc[s] = "commit"
        /\ \A c \in tx[s].credits : c.source = "referral_host" =>
              c.subject = task[s].user /\ tx[s].user
    BY <1>2 DEF Commit, SlotsInv, LocalInv, Target, Awards, Paying
  <2>2. /\ credits' = credits \cup tx[s].credits
        /\ \A u \in Users : bonusEmitted[u] => bonusEmitted'[u]
        /\ tx[s].user => bonusEmitted'[task[s].user]
    BY <1>2, <2>1 DEF Commit, SlotsInv, TypeInv, RequestTypeOK, TypeOK
  <2> QED
    BY <2>1, <2>2 DEF FlaggedInv
<1> QED
  BY <1>1, <1>2, WhoWrites DEF StoreApplication, StoreRoom

(* For any number of requests in flight and any failures: no referral      *)
(* credit without the flag that stops the next one.                        *)
THEOREM AwardsFlagged ==
    ASSUME RoomConstants, RequestConstants
    PROVE  RequestSpec => []AwardsAreFlagged
<1>1. Init => FlaggedInv
  BY DEF Init, FlaggedInv
<1>2. SlotsInv /\ FlaggedInv /\ [RequestNext]_allVars => FlaggedInv'
  BY FlaggedStep
<1>3. FlaggedInv => AwardsAreFlagged
  BY DEF FlaggedInv, AwardsAreFlagged
<1> QED
  BY <1>1, <1>2, <1>3, SlotsAlways, PTL DEF RequestSpec

-----------------------------------------------------------------------------
(* An assigned room has a planner.                                         *)

(* What a request stores over a room is based on the room as committed.    *)
LEMMA ArriveLoads ==
    ASSUME RoomConstants, SlotsInv, NEW s \in Slots, Arrive(s)
    PROVE  /\ tx' = tx /\ ~tx'[s].room
           /\ pc'[s] = "store_room" =>
                 task'[s].room \in Rooms /\ loaded'[s] = RoomRow(task'[s].room)
<1>1. TypeInv
  BY DEF SlotsInv
<1>2. tx' = tx /\ ~tx'[s].room
  <2>1. tx' = tx /\ pc[s] = "idle"
    BY <1>1, ArriveEffect, BeginEffect
  <2> QED
    BY <2>1 DEF SlotsInv, LocalInv, Awards, Untouched
<1>3. ASSUME NEW op, NEW r \in Rooms, NEW u, LoadApplication(s, op, r, u)
      PROVE  pc'[s] # "store_room"
  BY <1>1, <1>3, BeginEffect DEF LoadApplication
<1>4. ASSUME NEW r \in Rooms, NEW u, LoadPayment(s, r, u)
      PROVE  pc'[s] # "store_room"
  BY <1>1, <1>4, BeginEffect DEF LoadPayment
<1>5. ASSUME NEW op, NEW r \in Rooms, NEW x, NEW allowed, NEW changed,
             LoadRoom(s, op, r, x, allowed, changed)
      PROVE  task'[s].room \in Rooms /\ loaded'[s] = RoomRow(task'[s].room)
  BY <1>1, <1>5, BeginEffect DEF LoadRoom
<1> QED
  BY <1>2, <1>3, <1>4, <1>5
     DEF Arrive, LoadPublish, LoadUpdate, LoadAssign, LoadConfirm

LEMMA PaymentStaysAway ==
    ASSUME RoomConstants, SlotsInv, NEW s \in Slots, PaymentStep(s)
    PROVE  pc'[s] # "store_room" /\ task'[s] = task[s]
BY DEF SlotsInv, TypeInv, RequestTypeOK, PaymentStep, WriteApplication, ReadRoom,
   CountConfirmed, WriteRoom, IssueBonus, ReadUser, FindPair, IssuePair,
   WriteUser, Write, Go

PlannerInv ==
    /\ AssignedHasPlanner
    /\ \A s \in Slots : pc[s] = "store_room" /\ loaded[s].planner \in Planners =>
          planner[task[s].room] \in Planners

(* A planner, once assigned, is replaced and never removed.                *)
LEMMA PlannersStay ==
    ASSUME RoomConstants, RequestConstants, SlotsInv, PlannerInv,
           [RequestNext]_allVars
    PROVE  /\ \A r \in Rooms : planner[r] \in Planners => planner'[r] \in Planners
           /\ AssignedHasPlanner'
<1> USE DEF TypeInv, RequestTypeOK, TypeOK
<1>1. CASE /\ UNCHANGED planner
           /\ \A r \in Rooms : \/ status'[r] = status[r]
                               \/ status'[r] \in {"draft", "viable"}
  BY <1>1 DEF PlannerInv, AssignedHasPlanner
<1>2. ASSUME NEW s \in Slots, StoreRoom(s)
      PROVE  /\ \A r \in Rooms : planner[r] \in Planners => planner'[r] \in Planners
             /\ AssignedHasPlanner'
  <2> DEFINE q == task[s].room
             l == loaded[s]
             w == wanted[s]
  <2>1. /\ pc[s] = "store_room" /\ q \in Rooms
        /\ w.status \in {"assigned", "confirmed"} => w.planner \in Planners
        /\ w.planner # l.planner => w.planner \in Planners
        /\ l.planner \in Planners => planner[q] \in Planners
    BY <1>2 DEF StoreRoom, SlotsInv, LocalInv, Target, Rows, PlannerInv
  <2>2. /\ status' = [status EXCEPT ![q] =
                IF w.status # l.status THEN w.status ELSE status[q]]
        /\ planner' = [planner EXCEPT ![q] =
                IF w.planner # l.planner THEN w.planner ELSE planner[q]]
    BY <1>2 DEF StoreRoom, Written, RoomRow
  <2> HIDE DEF q, l, w
  <2>3. /\ planner[q] \in Planners => planner'[q] \in Planners
        /\ status'[q] \in {"assigned", "confirmed"} => planner'[q] \in Planners
    BY <2>1, <2>2 DEF SlotsInv, PlannerInv, AssignedHasPlanner
  <2>4. \A r \in Rooms \ {q} : planner'[r] = planner[r] /\ status'[r] = status[r]
    BY <2>1, <2>2 DEF SlotsInv
  <2> QED
    BY <2>3, <2>4 DEF PlannerInv, AssignedHasPlanner
<1>3. ASSUME NEW s \in Slots, StoreApplication(s) \/ Commit(s)
      PROVE  /\ UNCHANGED planner
             /\ \A r \in Rooms : \/ status'[r] = status[r]
                                 \/ status'[r] \in {"draft", "viable"}
  BY <1>3 DEF StoreApplication, Commit, roomVars, SlotsInv
<1> QED
  BY <1>1, <1>2, <1>3, WhoWrites

LEMMA PlannerStepKeeps ==
    ASSUME RoomConstants, RequestConstants, SlotsInv, PlannerInv,
           [RequestNext]_allVars
    PROVE  PlannerInv'
<1>1. ASSUME NEW t \in Slots, pc'[t] = "store_room", loaded'[t].planner \in Planners
      PROVE  planner'[task'[t].room] \in Planners
  <2>1. CASE /\ pc'[t] = pc[t] /\ task'[t] = task[t] /\ loaded'[t] = loaded[t]
    <3>1. planner[task[t].room] \in Planners /\ task[t].room \in Rooms
      BY <1>1, <2>1 DEF PlannerInv, SlotsInv, LocalInv, Target
    <3> QED
      BY <2>1, <3>1, PlannersStay
  <2>2. ASSUME NEW s \in Slots, SlotStep(s), s # t
        PROVE  /\ pc'[t] = pc[t] /\ task'[t] = task[t] /\ loaded'[t] = loaded[t]
    BY <2>2, OthersUntouched DEF SlotsInv
  <2>3. CASE Arrive(t)
    <3>1. task'[t].room \in Rooms /\ loaded'[t] = RoomRow(task'[t].room)
      BY <1>1, <2>3, ArriveLoads
    <3>2. planner[task'[t].room] \in Planners
      BY <1>1, <3>1 DEF RoomRow
    <3> QED
      BY <3>1, <3>2, PlannersStay
  <2>4. ~PaymentStep(t)
    BY <1>1, PaymentStaysAway
  <2>5. ~Fail(t) /\ ~StoreApplication(t) /\ ~StoreRoom(t) /\ ~Commit(t)
    BY <1>1, FinishersIdle, FinishEffect DEF Fail, SlotsInv
  <2>6. CASE UNCHANGED requestVars
    BY <2>1, <2>6 DEF requestVars
  <2> QED
    BY <2>1, <2>2, <2>3, <2>4, <2>5, <2>6, WhoWrites DEF Silent
<1> QED
  BY <1>1, PlannersStay DEF PlannerInv

(* For any number of requests in flight: an assigned or confirmed room has *)
(* a planner.                                                              *)
THEOREM PlannerAssigned ==
    ASSUME RoomConstants, RequestConstants
    PROVE  RequestSpec => []AssignedHasPlanner
<1>1. Init /\ RequestInit => PlannerInv
  BY DEF Init, RequestInit, PlannerInv, AssignedHasPlanner
<1>2. SlotsInv /\ PlannerInv /\ [RequestNext]_allVars => PlannerInv'
  BY PlannerStepKeeps
<1>3. PlannerInv => AssignedHasPlanner
  BY DEF PlannerInv
<1> QED
  BY <1>1, <1>2, <1>3, SlotsAlways, PTL DEF RequestSpec

-----------------------------------------------------------------------------
(* One bonus per promoted room.                                            *)

BonusOf(C, r) == \E c \in C : BonusRow(c, r)

RewardInv ==
    /\ \A r \in Rooms :
          /\ \A c \in credits : BonusRow(c, r) => c.user = HostOf[r]
          /\ \A c, d \in credits : BonusRow(c, r) /\ BonusRow(d, r) => c = d
          /\ status[r] \in Promoted => BonusOf(credits, r)
    /\ \A s \in Slots : pc[s] = "store_room" /\ loaded[s].status \in Promoted =>
          BonusOf(credits, task[s].room)

(* Payments that promote one room wait for each other; one that has        *)
(* promoted it and looked for the bonus has found or issued it.            *)
BonusOfSlot(p, k, x, C) ==
    /\ x.room /\ p # "bonus" => BonusOf(C \cup x.credits, k.room)
    /\ \A c \in x.credits : c.source = "viable_host_bonus" => ~BonusOf(C, k.room)

LockInv ==
    /\ \A s, t \in Slots :
          tx[s].room /\ tx[t].room /\ task[s].room = task[t].room => s = t
    /\ \A s \in Slots : BonusOfSlot(pc[s], task[s], tx[s], credits)

LEMMA FinishingUnlocks ==
    ASSUME SlotsInv, NEW s \in Slots, Finish(s)
    PROVE  ~tx'[s].room /\ tx'[s].credits = {} /\ pc'[s] = "idle"
BY FinishEffect DEF SlotsInv

(* What one step does to the lock and the award of its own slot.           *)
LEMMA LockKinds ==
    ASSUME RoomConstants, RequestConstants, SlotsInv,
           NEW s \in Slots, Silent(s)
    PROVE  \/ ~tx'[s].room /\ tx'[s].credits = {}
           \/ /\ pc[s] = "write_room" /\ ~RoomLocked(s)
              /\ pc'[s] = "bonus" /\ task'[s] = task[s] /\ tx'[s].credits = {}
           \/ /\ pc[s] = "bonus" /\ tx'[s].room = tx[s].room
              /\ task'[s] = task[s]
              /\ tx'[s].credits = ViableHostBonus(task[s].room,
                                         <<task[s].room, task[s].user>>)
           \/ /\ pc[s] # "bonus" /\ pc'[s] # "bonus" /\ task'[s] = task[s]
              /\ tx'[s].room = tx[s].room
              /\ \A c : c.source = "viable_host_bonus" =>
                    (c \in tx'[s].credits <=> c \in tx[s].credits)
<1> USE DEF SlotsInv, TypeInv, RequestTypeOK
<1>1. CASE Arrive(s)
  <2>1. TypeInv
    OBVIOUS
  <2>2. pc[s] = "idle"
    BY <1>1, <2>1, ArriveEffect, BeginEffect
  <2> QED
    BY <1>1, <2>2, ArriveLoads DEF LocalInv, Awards, Untouched
<1>2. CASE Fail(s)
  BY <1>2, FinishingUnlocks DEF Fail
<1>3. CASE WriteRoom(s)
  <2>1. pc[s] = "write_room" /\ tx[s].credits = {}
    BY <1>3 DEF WriteRoom, LocalInv, Awards, Untouched
  <2> QED
    BY <1>3, <2>1 DEF WriteRoom, Write, Go
<1>4. CASE IssueBonus(s)
  BY <1>4 DEF IssueBonus, Write, Go
<1>5. CASE IssuePair(s)
  <2> DEFINE u == task[s].user
             more == IF CapReached(u) THEN {}
                     ELSE PairOfCredits(u, <<task[s].room, u>>)
  <2>1. /\ pc[s] # "bonus" /\ pc'[s] # "bonus" /\ task'[s] = task[s]
        /\ tx'[s].room = tx[s].room
        /\ tx'[s].credits = tx[s].credits \cup more
    BY <1>5 DEF IssuePair, Write, Go
  <2>2. \A c \in more : c.source # "viable_host_bonus"
    BY DEF PairOfCredits
  <2> HIDE DEF more
  <2> QED
    BY <2>1, <2>2
<1>6. CASE \/ WriteApplication(s) \/ WriteUser(s) \/ ReadRoom(s)
           \/ CountConfirmed(s) \/ ReadUser(s) \/ FindPair(s)
  <2>1. /\ pc[s] # "bonus" /\ pc'[s] # "bonus" /\ task'[s] = task[s]
        /\ tx'[s].room = tx[s].room /\ tx'[s].credits = tx[s].credits
    <3>1. CASE WriteApplication(s) \/ WriteUser(s)
      BY <3>1 DEF WriteApplication, WriteUser, Write, Go
    <3>2. CASE ReadRoom(s) \/ CountConfirmed(s) \/ ReadUser(s) \/ FindPair(s)
      BY <3>2 DEF ReadRoom, CountConfirmed, ReadUser, FindPair, Go
    <3> QED
      BY <1>6, <3>1, <3>2
  <2> QED
    BY <2>1
<1> QED
  BY <1>1, <1>2, <1>3, <1>4, <1>5, <1>6 DEF Silent, PaymentStep

LEMMA SilentLocks ==
    ASSUME RoomConstants, RequestConstants, SlotsInv, RewardInv, LockInv,
           NEW s \in Slots, SlotStep(s), Silent(s)
    PROVE  LockInv'
<1>1. credits' = credits
  BY SilentIsSilent DEF vars, creditVars
<1>2. \A t \in Slots \ {s} :
         pc'[t] = pc[t] /\ task'[t] = task[t] /\ tx'[t] = tx[t]
  BY OthersUntouched DEF SlotsInv
<1>3. BonusOfSlot(pc'[s], task'[s], tx'[s], credits)
      /\ (tx'[s].room => /\ task'[s] = task[s]
                         /\ tx[s].room \/ ~RoomLocked(s))
  <2>1. BonusOfSlot(pc[s], task[s], tx[s], credits)
    BY DEF LockInv
  <2>2. CASE ~tx'[s].room /\ tx'[s].credits = {}
    BY <2>2 DEF BonusOfSlot
  <2>3. CASE /\ pc[s] = "write_room" /\ ~RoomLocked(s) /\ pc'[s] = "bonus"
             /\ task'[s] = task[s] /\ tx'[s].credits = {}
    BY <2>3 DEF BonusOfSlot
  <2>4. ASSUME pc[s] = "bonus", tx'[s].room = tx[s].room, task'[s] = task[s],
               tx'[s].credits = ViableHostBonus(task[s].room,
                                   <<task[s].room, task[s].user>>)
        PROVE  /\ BonusOfSlot(pc'[s], task'[s], tx'[s], credits)
               /\ tx[s].room
    <3> DEFINE r == task[s].room
               new == ViableHostBonus(r, <<r, task[s].user>>)
    <3>1. tx[s].room /\ r \in Rooms
      BY <2>4 DEF SlotsInv, LocalInv, Awards, Target
    <3>2. CASE BonusOf(credits, r)
      <4>1. new = {}
        BY <3>1, <3>2 DEF ViableHostBonus, BonusOf, BonusRow, RewardInv
      <4> QED
        BY <2>4, <3>1, <3>2, <4>1 DEF BonusOfSlot, BonusOf
    <3>3. CASE ~BonusOf(credits, r)
      <4>1. BonusOf(new, r)
        BY <3>3 DEF ViableHostBonus, BonusOf, BonusRow
      <4> QED
        BY <2>4, <3>1, <3>3, <4>1 DEF BonusOfSlot, BonusOf
    <3> QED
      BY <3>2, <3>3
  <2>5. ASSUME pc[s] # "bonus", pc'[s] # "bonus", task'[s] = task[s],
               tx'[s].room = tx[s].room,
               \A c : c.source = "viable_host_bonus" =>
                  (c \in tx'[s].credits <=> c \in tx[s].credits)
        PROVE  BonusOfSlot(pc'[s], task'[s], tx'[s], credits)
    BY <2>1, <2>5 DEF BonusOfSlot, BonusOf, BonusRow
  <2> QED
    BY <2>2, <2>3, <2>4, <2>5, LockKinds
<1>4. ASSUME NEW t \in Slots, t # s, tx'[s].room, tx[t].room,
             task'[s].room = task[t].room
      PROVE  FALSE
  <2>1. task[s].room = task[t].room /\ (tx[s].room \/ ~RoomLocked(s))
    BY <1>3, <1>4
  <2>2. RoomLocked(s)
    BY <1>4, <2>1 DEF RoomLocked
  <2>3. tx[s].room
    BY <2>1, <2>2
  <2> QED
    BY <1>4, <2>1, <2>3 DEF LockInv
<1>5. ASSUME NEW t \in Slots, NEW v \in Slots, tx'[t].room, tx'[v].room,
             task'[t].room = task'[v].room, t # v
      PROVE  FALSE
  <2>1. CASE t = s
    BY <1>2, <1>4, <1>5, <2>1
  <2>2. CASE v = s
    BY <1>2, <1>4, <1>5, <2>2
  <2>3. CASE t # s /\ v # s
    BY <1>2, <1>5, <2>3 DEF LockInv
  <2> QED
    BY <2>1, <2>2, <2>3
<1>6. ASSUME NEW t \in Slots PROVE BonusOfSlot(pc[t], task[t], tx[t], credits)'
  <2>1. CASE t = s
    BY <1>1, <1>3, <2>1
  <2>2. CASE t # s
    <3>1. BonusOfSlot(pc[t], task[t], tx[t], credits)
      BY DEF LockInv
    <3> QED
      BY <1>1, <1>2, <2>2, <3>1
  <2> QED
    BY <2>1, <2>2
<1> QED
  BY <1>5, <1>6 DEF LockInv

(* Bonuses are committed one at a time, and stay.                          *)
LEMMA BonusesGrow ==
    ASSUME RoomConstants, RequestConstants, SlotsInv, [RequestNext]_allVars
    PROVE  credits \subseteq credits'
BY WhoWrites DEF creditVars, StoreApplication, StoreRoom, Commit

LEMMA CommitAwards ==
    ASSUME RoomConstants, RequestConstants, SlotsInv, RewardInv, LockInv,
           NEW s \in Slots, SlotStep(s), Commit(s)
    PROVE  /\ \A r \in Rooms :
                 /\ \A c \in credits' : BonusRow(c, r) => c.user = HostOf[r]
                 /\ \A c, d \in credits' : BonusRow(c, r) /\ BonusRow(d, r) => c = d
                 /\ status'[r] \in Promoted => BonusOf(credits', r)
           /\ LockInv'
<1> DEFINE q == task[s].room
           mine == tx[s].credits
<1>1. /\ pc[s] = "commit" /\ q \in Rooms
      /\ credits' = credits \cup mine
      /\ \A c \in mine : c.source = "viable_host_bonus" =>
            tx[s].room /\ c.subject = q /\ c.user = HostOf[q]
      /\ \A c, d \in mine : c.source = d.source => c = d
  BY DEF Commit, SlotsInv, LocalInv, Target, Awards
<1>2. /\ tx[s].room => BonusOf(credits \cup mine, q)
      /\ \A c \in mine : c.source = "viable_host_bonus" => ~BonusOf(credits, q)
  BY <1>1 DEF LockInv, BonusOfSlot
<1>3. /\ \A r \in Rooms \ {q} : status'[r] = status[r]
      /\ status'[q] = status[q] \/ tx[s].room
  BY <1>1 DEF Commit, SlotsInv, TypeInv, RequestTypeOK, TypeOK
<1>4. \A t \in Slots \ {s} :
         pc'[t] = pc[t] /\ task'[t] = task[t] /\ tx'[t] = tx[t]
  BY OthersUntouched DEF SlotsInv
<1>5. ~tx'[s].room /\ tx'[s].credits = {}
  BY FinishingUnlocks DEF Commit
<1> HIDE DEF q, mine
<1>6. ASSUME NEW r \in Rooms, NEW c \in credits', BonusRow(c, r)
      PROVE  c.user = HostOf[r]
  BY <1>1, <1>6 DEF RewardInv, BonusRow
<1>7. ASSUME NEW r \in Rooms, NEW c \in credits', NEW d \in credits',
             BonusRow(c, r), BonusRow(d, r)
      PROVE  c = d
  <2>1. CASE c \in credits /\ d \in credits
    BY <1>7, <2>1 DEF RewardInv
  <2>2. CASE c \in mine /\ d \in mine
    BY <1>1, <1>7, <2>2 DEF BonusRow
  <2>3. ASSUME NEW e \in mine, NEW f \in credits, BonusRow(e, r), BonusRow(f, r)
        PROVE  FALSE
    <3>1. e.source = "viable_host_bonus" /\ r = q
      BY <1>1, <2>3 DEF BonusRow
    <3>2. ~BonusOf(credits, q)
      BY <1>2, <3>1
    <3> QED
      BY <2>3, <3>1, <3>2 DEF BonusOf
  <2> QED
    BY <1>1, <1>7, <2>1, <2>2, <2>3
<1>8. ASSUME NEW r \in Rooms, status'[r] \in Promoted
      PROVE  BonusOf(credits', r)
  <2>1. CASE status[r] \in Promoted
    BY <1>1, <2>1 DEF RewardInv, BonusOf
  <2>2. CASE status[r] \notin Promoted
    BY <1>1, <1>2, <1>3, <1>8, <2>2 DEF BonusOf
  <2> QED
    BY <2>1, <2>2
<1>9. ASSUME NEW t \in Slots PROVE BonusOfSlot(pc'[t], task'[t], tx'[t], credits')
  <2>1. CASE t = s
    BY <1>5, <2>1 DEF BonusOfSlot
  <2>2. CASE t # s
    <3>1. BonusOfSlot(pc[t], task[t], tx[t], credits)
      BY DEF LockInv
    <3>2. \A c \in tx[t].credits :
             c.source = "viable_host_bonus" /\ tx[s].room => task[t].room # q
      BY <2>2 DEF SlotsInv, LocalInv, Awards, LockInv, q
    <3>3. ASSUME NEW c \in tx[t].credits, c.source = "viable_host_bonus"
          PROVE  ~BonusOf(credits', task[t].room)
      BY <1>1, <3>1, <3>2, <3>3 DEF BonusOfSlot, BonusOf, BonusRow
    <3>4. tx[t].room /\ pc[t] # "bonus" =>
             BonusOf(credits' \cup tx[t].credits, task[t].room)
      BY <1>1, <3>1 DEF BonusOfSlot, BonusOf
    <3>5. pc'[t] = pc[t] /\ task'[t] = task[t] /\ tx'[t] = tx[t]
      BY <1>4, <2>2
    <3> QED
      BY <3>3, <3>4, <3>5 DEF BonusOfSlot
  <2> QED
    BY <2>1, <2>2
<1>10. LockInv'
  BY <1>4, <1>5, <1>9 DEF LockInv
<1> QED
  BY <1>6, <1>7, <1>8, <1>10

LEMMA RewardStep ==
    ASSUME RoomConstants, RequestConstants, SlotsInv, RewardInv, LockInv,
           [RequestNext]_allVars
    PROVE  RewardInv' /\ LockInv'
<1> DEFINE Rewards(C, st) == \A r \in Rooms :
              /\ \A c \in C : BonusRow(c, r) => c.user = HostOf[r]
              /\ \A c, d \in C : BonusRow(c, r) /\ BonusRow(d, r) => c = d
              /\ st[r] \in Promoted => BonusOf(C, r)
<1>1. Rewards(credits, status)
  BY DEF RewardInv
<1>2. ASSUME UNCHANGED creditVars,
             \A r \in Rooms : status'[r] = status[r] \/ status'[r] = "draft",
             \/ UNCHANGED requestVars
             \/ \E s \in Slots : SlotStep(s) /\ Silent(s)
      PROVE  Rewards(credits', status') /\ LockInv'
  <2>1. Rewards(credits', status')
    BY <1>1, <1>2 DEF creditVars, Promoted
  <2>2. LockInv'
    <3>1. CASE UNCHANGED requestVars
      BY <1>2, <3>1 DEF LockInv, requestVars, creditVars
    <3> QED
      BY <1>2, <3>1, SilentLocks
  <2> QED
    BY <2>1, <2>2
<1>3. ASSUME NEW s \in Slots, SlotStep(s), Commit(s)
      PROVE  Rewards(credits', status') /\ LockInv'
  BY <1>3, CommitAwards
<1>4. ASSUME NEW s \in Slots, SlotStep(s), StoreApplication(s) \/ StoreRoom(s)
      PROVE  Rewards(credits', status') /\ LockInv'
  <2>1. credits' = credits
    BY <1>4 DEF StoreApplication, StoreRoom, creditVars
  <2>2. \A r \in Rooms : status'[r] \in Promoted => BonusOf(credits, r)
    <3>1. CASE StoreApplication(s)
      BY <1>1, <3>1 DEF StoreApplication, roomVars
    <3>2. CASE StoreRoom(s)
      <4> DEFINE q == task[s].room
                 l == loaded[s]
                 w == wanted[s]
      <4>1. /\ pc[s] = "store_room" /\ q \in Rooms
            /\ w.status \in Promoted => l.status \in Promoted
            /\ l.status \in Promoted => BonusOf(credits, q)
        BY <3>2 DEF StoreRoom, SlotsInv, LocalInv, Target, Rows, RewardInv
      <4>2. status' = [status EXCEPT ![q] =
                IF w.status # l.status THEN w.status ELSE status[q]]
        BY <3>2 DEF StoreRoom, Written, RoomRow
      <4> HIDE DEF q, l, w
      <4> QED
        BY <1>1, <4>1, <4>2 DEF SlotsInv, TypeInv, RequestTypeOK, TypeOK
    <3> QED
      BY <1>4, <3>1, <3>2
  <2>3. /\ ~tx'[s].room /\ tx'[s].credits = {}
        /\ \A t \in Slots \ {s} :
              pc'[t] = pc[t] /\ task'[t] = task[t] /\ tx'[t] = tx[t]
    BY <1>4, FinishingUnlocks, OthersUntouched
       DEF StoreApplication, StoreRoom, SlotsInv
  <2>4. LockInv'
    <3>1. ASSUME NEW t \in Slots
          PROVE  BonusOfSlot(pc'[t], task'[t], tx'[t], credits')
      <4>1. CASE t = s
        BY <2>3, <4>1 DEF BonusOfSlot
      <4>2. CASE t # s
        BY <2>1, <2>3, <4>2 DEF LockInv
      <4> QED
        BY <4>1, <4>2
    <3> QED
      BY <2>3, <3>1 DEF LockInv
  <2> QED
    BY <1>1, <2>1, <2>2, <2>4
<1>5. Rewards(credits', status') /\ LockInv'
  BY <1>2, <1>3, <1>4, WhoWrites
<1>6. ASSUME NEW t \in Slots, pc'[t] = "store_room", loaded'[t].status \in Promoted
      PROVE  BonusOf(credits', task'[t].room)
  <2>1. CASE /\ pc'[t] = pc[t] /\ task'[t] = task[t] /\ loaded'[t] = loaded[t]
    <3>1. BonusOf(credits, task[t].room)
      BY <1>6, <2>1 DEF RewardInv
    <3> QED
      BY <2>1, <3>1, BonusesGrow DEF BonusOf
  <2>2. ASSUME NEW s \in Slots, SlotStep(s), s # t
        PROVE  /\ pc'[t] = pc[t] /\ task'[t] = task[t] /\ loaded'[t] = loaded[t]
    BY <2>2, OthersUntouched DEF SlotsInv
  <2>3. CASE Arrive(t)
    <3>1. task'[t].room \in Rooms /\ loaded'[t] = RoomRow(task'[t].room)
      BY <1>6, <2>3, ArriveLoads
    <3>2. status[task'[t].room] \in Promoted
      BY <1>6, <3>1 DEF RoomRow
    <3> QED
      BY <1>1, <3>1, <3>2, BonusesGrow DEF BonusOf
  <2>4. ~PaymentStep(t)
    BY <1>6, PaymentStaysAway
  <2>5. ~Fail(t) /\ ~StoreApplication(t) /\ ~StoreRoom(t) /\ ~Commit(t)
    BY <1>6, FinishersIdle, FinishEffect DEF Fail, SlotsInv
  <2>6. CASE UNCHANGED requestVars
    BY <2>1, <2>6 DEF requestVars
  <2> QED
    BY <2>1, <2>2, <2>3, <2>4, <2>5, <2>6, WhoWrites DEF Silent
<1> QED
  BY <1>5, <1>6 DEF RewardInv

(* For any number of requests in flight: one bonus at most for a room, and *)
(* one for each that was promoted.                                         *)
THEOREM RewardsOnce ==
    ASSUME RoomConstants, RequestConstants
    PROVE  RequestSpec => []RewardedOnce
<1>1. Init /\ RequestInit => RewardInv /\ LockInv
  BY DEF Init, RequestInit, RewardInv, LockInv, BonusOfSlot, NoWrites, Promoted
<1>2. SlotsInv /\ RewardInv /\ LockInv /\ [RequestNext]_allVars
         => RewardInv' /\ LockInv'
  BY RewardStep
<1>3. RewardInv => RewardedOnce
  <2> SUFFICES ASSUME RewardInv, NEW r \in Rooms
               PROVE  LET bonuses == Cardinality({c \in credits :
                              c.source = "viable_host_bonus" /\ c.subject = r})
                      IN  /\ bonuses <= 1
                          /\ status[r] \in Promoted => bonuses = 1
    BY DEF RewardedOnce
  <2> DEFINE rows == {c \in credits : c.source = "viable_host_bonus"
                                      /\ c.subject = r}
  <2>1. CASE BonusOf(credits, r)
    <3>1. PICK c \in credits : BonusRow(c, r)
      BY <2>1 DEF BonusOf
    <3>2. rows = {c}
      BY <3>1 DEF RewardInv, BonusRow
    <3>3. Cardinality(rows) = 1
      BY <3>2, FS_Singleton
    <3> QED
      BY <3>3
  <2>2. CASE ~BonusOf(credits, r)
    <3>1. rows = {} /\ status[r] \notin Promoted
      BY <2>2 DEF RewardInv, BonusOf, BonusRow
    <3>2. Cardinality(rows) = 0
      BY <3>1, FS_EmptySet
    <3> QED
      BY <3>1, <3>2
  <2> QED
    BY <2>1, <2>2
<1> QED
  BY <1>1, <1>2, <1>3, SlotsAlways, PTL DEF RequestSpec

-----------------------------------------------------------------------------
(* How far concurrent payments overrun the referral cap: a row that is     *)
(* written but not committed counts with the slot that wrote it.           *)

HostRow(c) == c.source = "referral_host"

RowsFor(C, u) == {c \in C : HostRow(c) /\ c.user = u}

RowsAbout(C, u) == {c \in C : HostRow(c) /\ c.subject = u}

(* The slot has awarded referrer u; it is about to award for friend u, or  *)
(* has done so.                                                            *)
Pending(x, u) == \E c \in x.credits : HostRow(c) /\ c.user = u

Asking(p, k, x, u) ==
    k.user = u /\ (p = "count_pairs" \/ \E c \in x.credits : HostRow(c))

PendingSlots(X, u) == {s \in Slots : Pending(X[s], u)}

AskingSlots(P, K, X, u) == {s \in Slots : Asking(P[s], K[s], X[s], u)}

CreditsInv ==
    /\ IsFiniteSet(credits)
    /\ \A s \in Slots : IsFiniteSet(tx[s].credits)
    /\ \A c \in credits : HostRow(c) => c.user = ReferredBy[c.subject]

ForBounded(C, X, u) ==
    Cardinality(RowsFor(C, u)) + Cardinality(PendingSlots(X, u))
        <= MaxReferralBonuses + Cardinality(Slots) - 1

AboutBounded(C, P, K, X, u) ==
    Cardinality(RowsAbout(C, u)) + Cardinality(AskingSlots(P, K, X, u))
        <= Cardinality(Slots)

OverrunInv == \A u \in Users :
    ForBounded(credits, tx, u) /\ AboutBounded(credits, pc, task, tx, u)

(* A row that moves from a slot to the database does not change the sum.   *)
LEMMA SumShrinks ==
    ASSUME NEW R, NEW S, NEW A, NEW B, IsFiniteSet(R), IsFiniteSet(A),
           S \subseteq R, B \subseteq A
    PROVE  /\ Cardinality(S) + Cardinality(B) <= Cardinality(R) + Cardinality(A)
           /\ Cardinality(S) \in Nat /\ Cardinality(B) \in Nat
           /\ Cardinality(R) \in Nat /\ Cardinality(A) \in Nat
<1>1. /\ IsFiniteSet(S) /\ Cardinality(S) <= Cardinality(R)
      /\ IsFiniteSet(B) /\ Cardinality(B) <= Cardinality(A)
  BY FS_Subset
<1>2. /\ Cardinality(S) \in Nat /\ Cardinality(B) \in Nat
      /\ Cardinality(R) \in Nat /\ Cardinality(A) \in Nat
  BY <1>1, FS_CardinalityType
<1> QED
  BY ONLY <1>1, <1>2

LEMMA SumMoves ==
    ASSUME NEW R, NEW S, NEW A, NEW B, NEW s, NEW c, IsFiniteSet(R), IsFiniteSet(A),
           S \subseteq R \cup {c}, s \in A, B \subseteq A \ {s}
    PROVE  /\ Cardinality(S) + Cardinality(B) <= Cardinality(R) + Cardinality(A)
           /\ Cardinality(S) \in Nat /\ Cardinality(B) \in Nat
           /\ Cardinality(R) \in Nat /\ Cardinality(A) \in Nat
<1>1. /\ IsFiniteSet(R \cup {c})
      /\ Cardinality(R \cup {c}) \in {Cardinality(R), Cardinality(R) + 1}
  BY FS_AddElement
<1>2. IsFiniteSet(A \ {s}) /\ Cardinality(A \ {s}) = Cardinality(A) - 1
  BY FS_RemoveElement
<1>3. /\ IsFiniteSet(S) /\ Cardinality(S) <= Cardinality(R \cup {c})
      /\ IsFiniteSet(B) /\ Cardinality(B) <= Cardinality(A \ {s})
  BY <1>1, <1>2, FS_Subset
<1>4. /\ Cardinality(S) \in Nat /\ Cardinality(B) \in Nat
      /\ Cardinality(R) \in Nat /\ Cardinality(A) \in Nat
  BY <1>3, FS_CardinalityType
<1> QED
  BY ONLY <1>1, <1>2, <1>3, <1>4

(* What a step that commits nothing may add to its slot's awards.          *)
LEMMA SilentAwards ==
    ASSUME RoomConstants, RequestConstants, SlotsInv, CreditsInv,
           NEW s \in Slots, Silent(s)
    PROVE  /\ IsFiniteSet(tx'[s].credits)
           /\ \A u \in Users : Pending(tx'[s], u) =>
                 \/ Pending(tx[s], u)
                 \/ Cardinality(ReferrerCredits(u)) < MaxReferralBonuses
           /\ \A u \in Users : Asking(pc'[s], task'[s], tx'[s], u) =>
                 \/ Asking(pc[s], task[s], tx[s], u)
                 \/ RowsAbout(credits, u) = {}
<1> USE DEF SlotsInv, TypeInv, RequestTypeOK
<1>1. CASE tx'[s].credits = {} /\ pc'[s] # "count_pairs"
  BY <1>1, FS_EmptySet DEF Pending, Asking
<1>2. CASE Arrive(s)
  <2>1. TypeInv
    OBVIOUS
  <2>2. pc[s] = "idle" /\ tx' = tx /\ pc'[s] # "count_pairs"
    BY <1>2, <2>1, ArriveEffect, BeginEffect
  <2>3. tx'[s].credits = {}
    BY <2>2 DEF LocalInv, Awards, Untouched
  <2> QED
    BY <1>1, <2>2, <2>3
<1>3. CASE Fail(s)
  BY <1>1, <1>3, FinishingUnlocks DEF Fail
<1>4. CASE IssueBonus(s)
  <2> DEFINE bonus == ViableHostBonus(task[s].room, <<task[s].room, task[s].user>>)
  <2>1. tx'[s].credits = bonus /\ pc'[s] = "read_user"
    BY <1>4 DEF IssueBonus, Write, Go
  <2>2. IsFiniteSet(bonus) /\ \A c \in bonus : ~HostRow(c)
    <3>1. \A c \in bonus : ~HostRow(c)
      BY DEF ViableHostBonus, HostRow
    <3> DEFINE row == [user |-> HostOf[task[s].room],
                       source |-> "viable_host_bonus",
                       subject |-> task[s].room,
                       grant |-> <<task[s].room, task[s].user>>]
    <3>2. bonus = {} \/ bonus = {row}
      BY DEF ViableHostBonus
    <3> HIDE DEF bonus, row
    <3>3. IsFiniteSet({row}) /\ IsFiniteSet({})
      BY FS_EmptySet, FS_Singleton, Zenon
    <3> QED
      BY <3>1, <3>2, <3>3, Zenon
  <2> HIDE DEF bonus
  <2> QED
    BY <2>1, <2>2 DEF Pending, Asking
<1>5. CASE FindPair(s)
  <2>1. /\ tx' = tx /\ task' = task
        /\ pc'[s] = "count_pairs" => ~PairPaid(task[s].user)
    BY <1>5 DEF FindPair, Go
  <2>2. ~PairPaid(task[s].user) => RowsAbout(credits, task[s].user) = {}
    BY DEF PairPaid, ReferrerCredits, RowsAbout, HostRow, CreditsInv
  <2> QED
    BY <2>1, <2>2 DEF Pending, Asking, CreditsInv
<1>6. CASE IssuePair(s)
  <2> DEFINE v == task[s].user
             pair == PairOfCredits(v, <<task[s].room, v>>)
             more == IF CapReached(v) THEN {} ELSE pair
  <2>1. /\ pc[s] = "count_pairs" /\ pc'[s] = "write_user" /\ task' = task
        /\ tx'[s].credits = tx[s].credits \cup more
    BY <1>6 DEF IssuePair, Write, Go
  <2>2. IsFiniteSet(pair) /\ \A c \in pair : HostRow(c) => c.user = ReferredBy[v]
    <3>1. \A h, f : IsFiniteSet({h} \cup {f}) /\ {h} \cup {f} = {h, f}
      BY FS_Singleton, FS_Union
    <3>2. \A c \in pair : HostRow(c) => c.user = ReferredBy[v]
      <4> HIDE DEF v
      <4> QED
        BY DEF PairOfCredits, HostRow
    <3> DEFINE grant == <<task[s].room, v>>
               h == [user |-> ReferredBy[v], source |-> "referral_host",
                     subject |-> v, grant |-> grant]
               f == [user |-> v, source |-> "referral_friend",
                     subject |-> ReferredBy[v], grant |-> grant]
    <3>3. pair = {h, f}
      BY DEF PairOfCredits
    <3> HIDE DEF pair, h, f
    <3>4. IsFiniteSet(pair)
      <4>1. IsFiniteSet({h} \cup {f}) /\ {h} \cup {f} = {h, f}
        BY <3>1, Zenon
      <4> QED
        BY <3>3, <4>1, Zenon
    <3> QED
      BY <3>2, <3>4
  <2>3. CapReached(v) \/ Cardinality(ReferrerCredits(ReferredBy[v])) < MaxReferralBonuses
    <3>1. ReferrerCredits(ReferredBy[v]) \subseteq credits
      BY DEF ReferrerCredits
    <3>2. Cardinality(ReferrerCredits(ReferredBy[v])) \in Nat
      BY <3>1, FS_Subset, FS_CardinalityType DEF CreditsInv
    <3> QED
      BY <3>2 DEF CapReached, RoomConstants
  <2>4. IsFiniteSet(more)
    BY <2>2, FS_EmptySet
  <2>5. IsFiniteSet(tx'[s].credits)
    <3> HIDE DEF more
    <3>1. IsFiniteSet(tx[s].credits)
      BY DEF CreditsInv
    <3>2. IsFiniteSet(tx[s].credits \cup more)
      BY <2>4, <3>1, FS_Union
    <3> QED
      BY <2>1, <3>2
  <2>6. \A c \in more : HostRow(c) =>
           /\ c.user = ReferredBy[v]
           /\ Cardinality(ReferrerCredits(ReferredBy[v])) < MaxReferralBonuses
    BY <2>2, <2>3
  <2> HIDE DEF more, pair
  <2> QED
    BY <2>1, <2>5, <2>6 DEF Pending, Asking
<1>7. CASE \/ WriteApplication(s) \/ WriteUser(s) \/ ReadRoom(s) \/ WriteRoom(s)
           \/ CountConfirmed(s) \/ ReadUser(s)
  <2>1. /\ pc'[s] # "count_pairs" /\ task'[s] = task[s]
        /\ tx'[s].credits = tx[s].credits
    <3>1. CASE WriteApplication(s) \/ WriteUser(s) \/ WriteRoom(s)
      BY <3>1 DEF WriteApplication, WriteUser, WriteRoom, Write, Go
    <3>2. CASE ReadRoom(s) \/ CountConfirmed(s) \/ ReadUser(s)
      BY <3>2 DEF ReadRoom, CountConfirmed, ReadUser, Go
    <3> QED
      BY <1>7, <3>1, <3>2
  <2> QED
    BY <2>1 DEF Pending, Asking, CreditsInv
<1> QED
  BY <1>2, <1>3, <1>4, <1>5, <1>6, <1>7 DEF Silent, PaymentStep

LEMMA Finite ==
    ASSUME RequestConstants, CreditsInv, NEW u
    PROVE  /\ IsFiniteSet(RowsFor(credits, u)) /\ IsFiniteSet(RowsAbout(credits, u))
           /\ \A T \in SUBSET Slots : /\ IsFiniteSet(T)
                                     /\ Cardinality(T) \in Nat
                                     /\ Cardinality(T) <= Cardinality(Slots)
           /\ Cardinality(Slots) \in Nat
<1>1. RowsFor(credits, u) \subseteq credits /\ RowsAbout(credits, u) \subseteq credits
  BY DEF RowsFor, RowsAbout
<1>2. IsFiniteSet(Slots) /\ IsFiniteSet(credits)
  BY DEF RequestConstants, CreditsInv
<1>3. ASSUME NEW T \in SUBSET Slots
      PROVE  /\ IsFiniteSet(T) /\ Cardinality(T) \in Nat
             /\ Cardinality(T) <= Cardinality(Slots)
  BY <1>2, FS_Subset, FS_CardinalityType
<1> QED
  BY <1>1, <1>2, <1>3, FS_Subset, FS_CardinalityType

(* The bounds survive a step that moves at most one row into the database, *)
(* and one before which there was room.                                    *)
LEMMA BoundsKept ==
    ASSUME RoomConstants, RequestConstants, CreditsInv, OverrunInv,
           NEW u \in Users, NEW s, NEW C, NEW P, NEW K, NEW X
    PROVE  /\ \/ /\ RowsFor(C, u) \subseteq RowsFor(credits, u)
                 /\ PendingSlots(X, u) \subseteq PendingSlots(tx, u)
              \/ \E c : /\ RowsFor(C, u) \subseteq RowsFor(credits, u) \cup {c}
                       /\ s \in PendingSlots(tx, u)
                       /\ PendingSlots(X, u) \subseteq PendingSlots(tx, u) \ {s}
              \/ /\ RowsFor(C, u) = RowsFor(credits, u)
                 /\ Cardinality(RowsFor(credits, u)) < MaxReferralBonuses
              => ForBounded(C, X, u)
           /\ \/ /\ RowsAbout(C, u) \subseteq RowsAbout(credits, u)
                 /\ AskingSlots(P, K, X, u) \subseteq AskingSlots(pc, task, tx, u)
              \/ \E c : /\ RowsAbout(C, u) \subseteq RowsAbout(credits, u) \cup {c}
                       /\ s \in AskingSlots(pc, task, tx, u)
                       /\ AskingSlots(P, K, X, u)
                             \subseteq AskingSlots(pc, task, tx, u) \ {s}
              \/ RowsAbout(C, u) = {}
              => AboutBounded(C, P, K, X, u)
<1> DEFINE R == RowsFor(credits, u)
           S == RowsFor(C, u)
           A == PendingSlots(tx, u)
           B == PendingSlots(X, u)
           R2 == RowsAbout(credits, u)
           S2 == RowsAbout(C, u)
           A2 == AskingSlots(pc, task, tx, u)
           B2 == AskingSlots(P, K, X, u)
<1>1. /\ A \subseteq Slots /\ B \subseteq Slots /\ A2 \subseteq Slots
      /\ B2 \subseteq Slots
  BY DEF PendingSlots, AskingSlots
<1>2. /\ IsFiniteSet(R) /\ IsFiniteSet(R2) /\ IsFiniteSet(A) /\ IsFiniteSet(A2)
      /\ Cardinality(B) \in Nat /\ Cardinality(B) <= Cardinality(Slots)
      /\ Cardinality(B2) \in Nat /\ Cardinality(B2) <= Cardinality(Slots)
      /\ Cardinality(Slots) \in Nat /\ MaxReferralBonuses \in Nat
      /\ Cardinality(R) \in Nat
  BY <1>1, Finite, FS_CardinalityType DEF RoomConstants
<1>3. /\ Cardinality(R) + Cardinality(A)
            <= MaxReferralBonuses + Cardinality(Slots) - 1
      /\ Cardinality(R2) + Cardinality(A2) <= Cardinality(Slots)
  BY DEF OverrunInv, ForBounded, AboutBounded
<1>4. /\ ForBounded(C, X, u) <=> Cardinality(S) + Cardinality(B)
                                   <= MaxReferralBonuses + Cardinality(Slots) - 1
      /\ AboutBounded(C, P, K, X, u) <=>
            Cardinality(S2) + Cardinality(B2) <= Cardinality(Slots)
  BY DEF ForBounded, AboutBounded
<1> HIDE DEF R, S, A, B, R2, S2, A2, B2
<1>5. ASSUME \/ S \subseteq R /\ B \subseteq A
             \/ \E c : S \subseteq R \cup {c} /\ s \in A /\ B \subseteq A \ {s}
      PROVE  Cardinality(S) + Cardinality(B)
                <= MaxReferralBonuses + Cardinality(Slots) - 1
  <2>1. IsFiniteSet(R) /\ IsFiniteSet(A)
    BY <1>2
  <2>2. /\ Cardinality(S) + Cardinality(B) <= Cardinality(R) + Cardinality(A)
        /\ Cardinality(S) \in Nat /\ Cardinality(B) \in Nat
        /\ Cardinality(R) \in Nat /\ Cardinality(A) \in Nat
    <3>1. CASE S \subseteq R /\ B \subseteq A
      BY ONLY <2>1, <3>1, SumShrinks
    <3>2. ASSUME NEW c, S \subseteq R \cup {c}, s \in A, B \subseteq A \ {s}
          PROVE  /\ Cardinality(S) + Cardinality(B)
                       <= Cardinality(R) + Cardinality(A)
                 /\ Cardinality(S) \in Nat /\ Cardinality(B) \in Nat
                 /\ Cardinality(R) \in Nat /\ Cardinality(A) \in Nat
      BY ONLY <2>1, <3>2, SumMoves
    <3> QED
      BY <1>5, <3>1, <3>2
  <2> QED
    BY ONLY <1>2, <1>3, <2>2
<1>6. ASSUME S = R, Cardinality(R) < MaxReferralBonuses
      PROVE  Cardinality(S) + Cardinality(B)
                <= MaxReferralBonuses + Cardinality(Slots) - 1
  BY ONLY <1>2, <1>6
<1>7. ASSUME \/ S2 \subseteq R2 /\ B2 \subseteq A2
             \/ \E c : S2 \subseteq R2 \cup {c} /\ s \in A2 /\ B2 \subseteq A2 \ {s}
      PROVE  Cardinality(S2) + Cardinality(B2) <= Cardinality(Slots)
  <2>1. IsFiniteSet(R2) /\ IsFiniteSet(A2)
    BY <1>2
  <2>2. /\ Cardinality(S2) + Cardinality(B2) <= Cardinality(R2) + Cardinality(A2)
        /\ Cardinality(S2) \in Nat /\ Cardinality(B2) \in Nat
        /\ Cardinality(R2) \in Nat /\ Cardinality(A2) \in Nat
    <3>1. CASE S2 \subseteq R2 /\ B2 \subseteq A2
      BY ONLY <2>1, <3>1, SumShrinks
    <3>2. ASSUME NEW c, S2 \subseteq R2 \cup {c}, s \in A2, B2 \subseteq A2 \ {s}
          PROVE  /\ Cardinality(S2) + Cardinality(B2)
                       <= Cardinality(R2) + Cardinality(A2)
                 /\ Cardinality(S2) \in Nat /\ Cardinality(B2) \in Nat
                 /\ Cardinality(R2) \in Nat /\ Cardinality(A2) \in Nat
      BY ONLY <2>1, <3>2, SumMoves
    <3> QED
      BY <1>7, <3>1, <3>2
  <2> QED
    BY ONLY <1>2, <1>3, <2>2
<1>8. ASSUME S2 = {}
      PROVE  Cardinality(S2) + Cardinality(B2) <= Cardinality(Slots)
  <2>1. Cardinality(S2) = 0
    BY <1>8, FS_EmptySet
  <2> QED
    BY ONLY <1>2, <2>1
<1> QED
  BY <1>4, <1>5, <1>6, <1>7, <1>8 DEF R, S, A, B, R2, S2, A2, B2

LEMMA OverrunStep ==
    ASSUME RoomConstants, RequestConstants, SlotsInv, CreditsInv, OverrunInv,
           [RequestNext]_allVars
    PROVE  CreditsInv' /\ OverrunInv'
<1>1. ASSUME UNCHANGED creditVars, UNCHANGED requestVars
      PROVE  CreditsInv' /\ OverrunInv'
  BY <1>1 DEF creditVars, requestVars, CreditsInv, OverrunInv
<1>2. ASSUME NEW s \in Slots, SlotStep(s), credits' = credits,
             IsFiniteSet(tx'[s].credits),
             \A u \in Users : Pending(tx'[s], u) =>
                \/ Pending(tx[s], u)
                \/ Cardinality(RowsFor(credits, u)) < MaxReferralBonuses,
             \A u \in Users : Asking(pc'[s], task'[s], tx'[s], u) =>
                \/ Asking(pc[s], task[s], tx[s], u)
                \/ RowsAbout(credits, u) = {}
      PROVE  CreditsInv' /\ OverrunInv'
  <2>1. \A t \in Slots \ {s} :
           pc'[t] = pc[t] /\ task'[t] = task[t] /\ tx'[t] = tx[t]
    BY <1>2, OthersUntouched DEF SlotsInv
  <2>2. CreditsInv'
    BY <1>2, <2>1 DEF CreditsInv
  <2>3. ASSUME NEW u \in Users
        PROVE  /\ ForBounded(credits', tx', u)
               /\ AboutBounded(credits', pc', task', tx', u)
    <3>1. \/ PendingSlots(tx', u) \subseteq PendingSlots(tx, u)
          \/ Cardinality(RowsFor(credits, u)) < MaxReferralBonuses
      BY <1>2, <2>1 DEF PendingSlots
    <3>2. \/ AskingSlots(pc', task', tx', u) \subseteq AskingSlots(pc, task, tx, u)
          \/ RowsAbout(credits, u) = {}
      BY <1>2, <2>1 DEF AskingSlots
    <3> QED
      BY <1>2, <3>1, <3>2, BoundsKept
  <2> QED
    BY <2>2, <2>3 DEF OverrunInv
<1>3. ASSUME NEW s \in Slots, SlotStep(s), Silent(s)
      PROVE  CreditsInv' /\ OverrunInv'
  <2>1. credits' = credits
    BY <1>3, SilentIsSilent DEF vars, creditVars
  <2>2. \A u : ReferrerCredits(u) = RowsFor(credits, u)
    BY DEF ReferrerCredits, RowsFor, HostRow
  <2> QED
    BY <1>2, <1>3, <2>1, <2>2, SilentAwards
<1>4. ASSUME NEW s \in Slots, Finish(s)
      PROVE  /\ tx'[s].credits = {} /\ IsFiniteSet(tx'[s].credits)
             /\ \A u : /\ ~Pending(tx'[s], u)
                       /\ ~Asking(pc'[s], task'[s], tx'[s], u)
  BY <1>4, FinishingUnlocks, FS_EmptySet DEF Pending, Asking
<1>5. ASSUME NEW s \in Slots, SlotStep(s), StoreApplication(s) \/ StoreRoom(s)
      PROVE  CreditsInv' /\ OverrunInv'
  <2>1. Finish(s) /\ credits' = credits
    BY <1>5 DEF StoreApplication, StoreRoom, creditVars
  <2> QED
    BY <1>2, <1>4, <1>5, <2>1
<1>6. ASSUME NEW s \in Slots, SlotStep(s), Commit(s)
      PROVE  CreditsInv' /\ OverrunInv'
  <2>1. /\ credits' = credits \cup tx[s].credits
        /\ \A c \in tx[s].credits : HostRow(c) =>
              c.subject = task[s].user /\ c.user = ReferredBy[task[s].user]
        /\ \A c, d \in tx[s].credits : HostRow(c) /\ HostRow(d) => c = d
    BY <1>6 DEF Commit, SlotsInv, LocalInv, Awards, HostRow
  <2>2. /\ tx'[s].credits = {} /\ IsFiniteSet(tx'[s].credits)
        /\ \A u : ~Pending(tx'[s], u) /\ ~Asking(pc'[s], task'[s], tx'[s], u)
    BY <1>4, <1>6 DEF Commit
  <2>3. \A t \in Slots \ {s} :
           pc'[t] = pc[t] /\ task'[t] = task[t] /\ tx'[t] = tx[t]
    BY <1>6, OthersUntouched DEF SlotsInv
  <2>4. CreditsInv'
    <3>1. IsFiniteSet(credits')
      <4>1. IsFiniteSet(credits) /\ IsFiniteSet(tx[s].credits)
        BY DEF CreditsInv
      <4> QED
        BY <2>1, <4>1, FS_Union
    <3>2. \A t \in Slots : IsFiniteSet(tx'[t].credits)
      BY <2>2, <2>3 DEF CreditsInv
    <3>3. \A c \in credits' : HostRow(c) => c.user = ReferredBy[c.subject]
      BY <2>1 DEF CreditsInv
    <3> QED
      BY <3>1, <3>2, <3>3 DEF CreditsInv
  <2>5. ASSUME NEW u \in Users
        PROVE  /\ ForBounded(credits', tx', u)
               /\ AboutBounded(credits', pc', task', tx', u)
    <3>1. /\ PendingSlots(tx', u) \subseteq PendingSlots(tx, u) \ {s}
          /\ AskingSlots(pc', task', tx', u)
                \subseteq AskingSlots(pc, task, tx, u) \ {s}
      BY <2>2, <2>3 DEF PendingSlots, AskingSlots
    <3>2. CASE \A c \in tx[s].credits : ~HostRow(c)
      <4>1. /\ RowsFor(credits', u) \subseteq RowsFor(credits, u)
            /\ RowsAbout(credits', u) \subseteq RowsAbout(credits, u)
        BY <2>1, <3>2 DEF RowsFor, RowsAbout
      <4> QED
        BY <3>1, <4>1, BoundsKept
    <3>3. ASSUME NEW c \in tx[s].credits, HostRow(c)
          PROVE  /\ ForBounded(credits', tx', u)
                 /\ AboutBounded(credits', pc', task', tx', u)
      <4>1. ForBounded(credits', tx', u)
        <5>1. CASE c.user = u
          <6>1. /\ RowsFor(credits', u) \subseteq RowsFor(credits, u) \cup {c}
                /\ s \in PendingSlots(tx, u)
            BY <2>1, <3>3, <5>1 DEF RowsFor, PendingSlots, Pending
          <6> QED
            BY <3>1, <6>1, BoundsKept
        <5>2. CASE c.user # u
          <6>1. RowsFor(credits', u) \subseteq RowsFor(credits, u)
            BY <2>1, <3>3, <5>2 DEF RowsFor
          <6> QED
            BY <3>1, <6>1, BoundsKept
        <5> QED
          BY <5>1, <5>2
      <4>2. AboutBounded(credits', pc', task', tx', u)
        <5>1. CASE c.subject = u
          <6>1. /\ RowsAbout(credits', u) \subseteq RowsAbout(credits, u) \cup {c}
                /\ s \in AskingSlots(pc, task, tx, u)
            BY <2>1, <3>3, <5>1 DEF RowsAbout, AskingSlots, Asking
          <6> QED
            BY <3>1, <6>1, BoundsKept
        <5>2. CASE c.subject # u
          <6>1. RowsAbout(credits', u) \subseteq RowsAbout(credits, u)
            BY <2>1, <3>3, <5>2 DEF RowsAbout
          <6> QED
            BY <3>1, <6>1, BoundsKept
        <5> QED
          BY <5>1, <5>2
      <4> QED
        BY <4>1, <4>2
    <3> QED
      BY <3>2, <3>3
  <2> QED
    BY <2>4, <2>5 DEF OverrunInv
<1> QED
  BY <1>1, <1>3, <1>5, <1>6, WhoWrites

(* For any number of requests in flight: the cap is overrun by no more     *)
(* than the other requests, and a friend rewarded no more often than there *)
(* are requests.                                                           *)
THEOREM CapOverrun ==
    ASSUME RoomConstants, RequestConstants
    PROVE  RequestSpec => []CapOverrunBounded
<1>1. ASSUME Init, RequestInit PROVE CreditsInv /\ OverrunInv
  <2>1. /\ credits = {} /\ IsFiniteSet({}) /\ Cardinality({}) = 0
        /\ \A s \in Slots : tx[s].credits = {} /\ pc[s] = "idle"
    BY <1>1, FS_EmptySet DEF Init, RequestInit, NoWrites
  <2>2. CreditsInv
    BY <2>1 DEF CreditsInv
  <2>3. ASSUME NEW u \in Users
        PROVE  ForBounded(credits, tx, u) /\ AboutBounded(credits, pc, task, tx, u)
    <3>1. /\ RowsFor(credits, u) = {} /\ PendingSlots(tx, u) = {}
          /\ RowsAbout(credits, u) = {} /\ AskingSlots(pc, task, tx, u) = {}
      BY <2>1 DEF RowsFor, RowsAbout, PendingSlots, AskingSlots, Pending, Asking
    <3>2. Cardinality(Slots) \in Nat /\ Cardinality(Slots) # 0
      BY FS_EmptySet, FS_CardinalityType DEF RequestConstants
    <3>3. MaxReferralBonuses \in Nat
      BY DEF RoomConstants
    <3>4. /\ Cardinality(RowsFor(credits, u)) = 0
          /\ Cardinality(PendingSlots(tx, u)) = 0
          /\ Cardinality(RowsAbout(credits, u)) = 0
          /\ Cardinality(AskingSlots(pc, task, tx, u)) = 0
      BY <2>1, <3>1
    <3> QED
      BY <3>2, <3>3, <3>4 DEF ForBounded, AboutBounded
  <2> QED
    BY <2>2, <2>3 DEF OverrunInv
<1>2. SlotsInv /\ CreditsInv /\ OverrunInv /\ [RequestNext]_allVars
         => CreditsInv' /\ OverrunInv'
  BY OverrunStep
<1>3. ASSUME CreditsInv, OverrunInv, RoomConstants, RequestConstants
      PROVE  CapOverrunBounded
  <2>1. ASSUME NEW u \in Users
        PROVE  /\ Cardinality(ReferrerCredits(u))
                     <= MaxReferralBonuses + Cardinality(Slots) - 1
               /\ Cardinality({c \in credits : c.source = "referral_host"
                                               /\ c.subject = u})
                     <= Cardinality(Slots)
    <3> DEFINE A == PendingSlots(tx, u)
               B == AskingSlots(pc, task, tx, u)
    <3>1. A \subseteq Slots /\ B \subseteq Slots
      BY DEF PendingSlots, AskingSlots
    <3>2. /\ Cardinality(A) \in Nat /\ Cardinality(B) \in Nat
          /\ Cardinality(RowsFor(credits, u)) \in Nat
          /\ Cardinality(RowsAbout(credits, u)) \in Nat
          /\ Cardinality(Slots) \in Nat
      BY <1>3, <3>1, Finite, FS_CardinalityType
    <3>3. /\ Cardinality(RowsFor(credits, u)) + Cardinality(A)
                <= MaxReferralBonuses + Cardinality(Slots) - 1
          /\ Cardinality(RowsAbout(credits, u)) + Cardinality(B)
                <= Cardinality(Slots)
      BY <1>3 DEF OverrunInv, ForBounded, AboutBounded
    <3>4. /\ RowsFor(credits, u) = ReferrerCredits(u)
          /\ RowsAbout(credits, u) =
                {c \in credits : c.source = "referral_host" /\ c.subject = u}
      BY DEF RowsFor, RowsAbout, ReferrerCredits, HostRow
    <3>5. MaxReferralBonuses \in Nat
      BY DEF RoomConstants
    <3> HIDE DEF A, B
    <3>6. /\ Cardinality(RowsFor(credits, u))
                <= MaxReferralBonuses + Cardinality(Slots) - 1
          /\ Cardinality(RowsAbout(credits, u)) <= Cardinality(Slots)
      BY ONLY <3>2, <3>3, <3>5
    <3> QED
      BY <3>4, <3>6
  <2> QED
    BY <2>1 DEF CapOverrunBounded
<1> QED
  BY <1>1, <1>2, <1>3, SlotsAlways, PTL DEF RequestSpec

-----------------------------------------------------------------------------
(* One request at a time is serial.  Beside the slot, only the clock and   *)
(* the creation of other rooms go on; an application is left out because   *)
(* its deadline may pass between the look at it and the insertion.         *)

OneSlot == \A s, t \in Slots : s = t

QuietOperations == Operations \cap {"apply", "profile", "moderate"} = {}

(* What a payment does when it is one step: whether it promotes the room,  *)
(* whether it settles a referral, and what it awards for each.             *)
Promotes(r, u) ==
    MaybePromoteToViable(r, [application[r] EXCEPT ![u] = "confirmed"])

Due == [r \in Rooms |-> [u \in Users |->
    [room |-> Promotes(r, u), user |-> ReferralDue(u), found |-> PairPaid(u),
     bonus |-> IF Promotes(r, u) THEN ViableHostBonus(r, <<r, u>>) ELSE {},
     pair |-> IF ReferralDue(u) THEN ReferralPair(u, <<r, u>>) ELSE {}]]]

(* How much of that a payment has done before the statement p; x is what   *)
(* it has written and d what it has to do.                                 *)
PayHand(p, x, d) ==
    /\ p \in {"write_room", "bonus"} => d.room = TRUE
    /\ p \in {"read_user", "find_pair", "count_pairs", "write_user", "commit"} =>
          (x.room <=> d.room = TRUE)
    /\ p \in {"read_user", "find_pair", "count_pairs"} => x.credits = d.bonus
    /\ p \in {"write_user", "commit"} => x.credits = d.bonus \cup d.pair
    /\ p \in {"find_pair", "count_pairs", "write_user"} => d.user = TRUE
    /\ p = "count_pairs" => ~(d.found = TRUE)
    /\ p = "commit" => (x.user <=> d.user = TRUE)
    /\ p # "commit" => ~x.user

(* A room that its planner may confirm, as far as its guests go.           *)
Confirmable == {r \in Rooms :
    LET males == Cardinality(ConfirmedOf(application[r], "male"))
        females == Cardinality(ConfirmedOf(application[r], "female"))
    IN  /\ males + females > 0
        /\ males <= capacity[r].male
        /\ females <= capacity[r].female}

(* The room as loaded is the room as it is, but for the clock.             *)
SameRow(l, r) ==
    /\ l \in RoomRows
    /\ l.status = status[r] /\ l.planner = planner[r]
    /\ l.male = capacity[r].male /\ l.female = capacity[r].female

(* What the one request has found still holds.                             *)
AloneApplication(k, l, w) ==
    LET r == k.room
        u == k.user
    IN  /\ k.op \in {"cancel", "approve", "reject", "waitlist"}
        /\ u \in Participants
        /\ userStatus[IF k.op = "cancel" THEN u ELSE HostOf[r]] = "active"
        /\ application[r][u] \in From[k.op]
        /\ l = [status |-> application[r][u]] /\ w = [status |-> To[k.op]]

AloneRoom(k, l, w) ==
    LET r == k.room
        p == k.user
    IN  /\ SameRow(l, r)
        /\ \/ /\ userStatus[HostOf[r]] = "active"
              /\ status[r] \in HOST_PUBLISH_FROM
              /\ w = [l EXCEPT !.status = "published"]
           \/ /\ userStatus[HostOf[r]] = "active"
              /\ status[r] \in HOST_EDITABLE_STATES
              /\ \E c \in Capacities, late \in BOOLEAN :
                    w = [l EXCEPT !.male = c.male, !.female = c.female, !.late = late]
           \/ /\ p \in Planners /\ plannerStatus[p] = "approved"
              /\ status[r] \in ASSIGNABLE_FROM
              /\ w = [l EXCEPT !.status = "assigned", !.planner = p]
           \/ /\ p \in Planners /\ plannerStatus[p] = "approved"
              /\ userStatus[p] = "active" /\ planner[r] = p
              /\ status[r] \in CONFIRMABLE_FROM /\ r \in Confirmable
              /\ w = [l EXCEPT !.status = "confirmed"]

AlonePayment(p, k, l, x) ==
    LET r == k.room
        u == k.user
    IN  /\ u \in Participants /\ userStatus[HostOf[r]] = "active"
        /\ application[r][u] \in PAYABLE_FROM
        /\ p = "count" => SameRow(l, r) /\ status[r] \in PROMOTABLE_FROM
        /\ PayHand(p, x, Due[r][u])

AloneSlot(p, k, l, w, x) ==
    /\ p # "idle" => k.room \in Rooms /\ status[k.room] # "none"
    /\ p = "store_application" => AloneApplication(k, l, w)
    /\ p = "store_room" => AloneRoom(k, l, w)
    /\ p \in Paying => AlonePayment(p, k, l, x)

AloneInv == \A s \in Slots :
    AloneSlot(pc[s], task[s], loaded[s], wanted[s], tx[s])

-----------------------------------------------------------------------------
(* What the request decides on stays as it is. *)

LEMMA DueSays ==
    ASSUME NEW r \in Rooms, NEW u \in Users
    PROVE  /\ (Due[r][u].room = TRUE) <=> Promotes(r, u)
           /\ (Due[r][u].user = TRUE) <=> ReferralDue(u)
           /\ (Due[r][u].found = TRUE) <=> PairPaid(u)
           /\ Due[r][u].bonus =
                 IF Promotes(r, u) THEN ViableHostBonus(r, <<r, u>>) ELSE {}
           /\ Due[r][u].pair =
                 IF ReferralDue(u) THEN ReferralPair(u, <<r, u>>) ELSE {}
BY DEF Due, Promotes, MaybePromoteToViable, QuorumIn, ReferralDue, PairPaid

LEMMA DatabaseKept ==
    ASSUME NEW r \in Rooms, UNCHANGED <<application, profile, userStatus,
                                        plannerStatus, creditVars>>,
           status'[r] = status[r], capacity'[r] = capacity[r]
    PROVE  Due'[r] = Due[r] /\ (r \in Confirmable' <=> r \in Confirmable)
<1>1. \A a, g : ConfirmedOf(a, g)' = ConfirmedOf(a, g)
  BY DEF ConfirmedOf, ConfirmedIn
<1>2. r \in Confirmable' <=> r \in Confirmable
  BY DEF Confirmable, ConfirmedOf, ConfirmedIn
<1>3. ASSUME NEW u \in Users PROVE Promotes(r, u)' = Promotes(r, u)
  BY DEF Promotes, MaybePromoteToViable, QuorumIn, ConfirmedOf, ConfirmedIn
<1>4. ASSUME NEW u \in Users
      PROVE  /\ ReferralDue(u)' = ReferralDue(u) /\ PairPaid(u)' = PairPaid(u)
             /\ ViableHostBonus(r, <<r, u>>)' = ViableHostBonus(r, <<r, u>>)
             /\ ReferralPair(u, <<r, u>>)' = ReferralPair(u, <<r, u>>)
  BY DEF ReferralDue, PairPaid, ReferrerCredits, ViableHostBonus, ReferralPair,
     CapReached, PairOfCredits, creditVars
<1>5. Due'[r] = Due[r]
  <2> DEFINE row(u) ==
       [room |-> Promotes(r, u), user |-> ReferralDue(u), found |-> PairPaid(u),
        bonus |-> IF Promotes(r, u) THEN ViableHostBonus(r, <<r, u>>) ELSE {},
        pair |-> IF ReferralDue(u) THEN ReferralPair(u, <<r, u>>) ELSE {}]
  <2>1. ASSUME NEW u \in Users PROVE row(u)' = row(u)
    BY <1>3, <1>4, Zenon
  <2>2. Due[r] = [u \in Users |-> row(u)] /\ Due'[r] = [u \in Users |-> row(u)']
    BY Zenon DEF Due
  <2> HIDE DEF row
  <2> QED
    BY <2>1, <2>2, Zenon
<1> QED
  BY <1>2, <1>5

(* A payment's next statement adds to what it has done what is due.        *)
LEMMA PaymentAlone ==
    ASSUME RoomConstants, SlotsInv, AloneInv, NEW s \in Slots, PaymentStep(s)
    PROVE  /\ pc[s] \in Paying /\ pc'[s] \in Paying /\ task' = task /\ UNCHANGED vars
           /\ PayHand(pc'[s], tx'[s], Due[task[s].room][task[s].user])
           /\ pc'[s] = "count" =>
                 /\ SameRow(loaded'[s], task[s].room)
                 /\ status[task[s].room] \in PROMOTABLE_FROM
<1> DEFINE r == task[s].room
           u == task[s].user
           d == Due[r][u]
           x == tx[s]
<1>1. PaymentStep(s) => pc[s] \in Paying
  BY DEF PaymentStep, Paying, WriteApplication, ReadRoom, CountConfirmed,
     WriteRoom, IssueBonus, ReadUser, FindPair, IssuePair, WriteUser
<1>2. /\ r \in Rooms /\ u \in Participants /\ u \in Users
      /\ PayHand(pc[s], x, d)
      /\ pc[s] = "count" => SameRow(loaded[s], r) /\ status[r] \in PROMOTABLE_FROM
  BY <1>1 DEF AloneInv, AloneSlot, AlonePayment, RoomConstants, Paying
<1>3. TypeInv
  BY DEF SlotsInv
<1>4. /\ (d.room = TRUE) <=> Promotes(r, u)
      /\ (d.user = TRUE) <=> ReferralDue(u)
      /\ (d.found = TRUE) <=> PairPaid(u)
      /\ d.bonus = IF Promotes(r, u) THEN ViableHostBonus(r, <<r, u>>) ELSE {}
      /\ d.pair = IF ReferralDue(u) THEN ReferralPair(u, <<r, u>>) ELSE {}
  BY <1>2, DueSays
<1>5. Awards(pc[s], task[s], x)
  BY DEF SlotsInv, LocalInv
<1>6. pc[s] \in Untouched => ~x.room /\ ~x.user /\ x.credits = {}
  BY <1>5 DEF Awards
<1> HIDE DEF d, x
<1>7. CASE WriteApplication(s)
  <2>1. /\ pc[s] = "write_application" /\ pc'[s] = "read_room"
        /\ task' = task /\ UNCHANGED vars /\ tx'[s].user = x.user
    BY <1>3, <1>7 DEF TypeInv, RequestTypeOK, WriteApplication, Write, Go, x
  <2> QED
    BY <1>2, <1>6, <2>1 DEF PayHand, Paying, Untouched
<1>8. CASE ReadRoom(s)
  <2>1. /\ pc[s] = "read_room" /\ task' = task /\ UNCHANGED vars /\ tx' = tx
        /\ pc'[s] = IF status[r] \in PROMOTABLE_FROM THEN "count" ELSE "read_user"
        /\ loaded'[s] = RoomRow(r)
    BY <1>3, <1>8 DEF TypeInv, RequestTypeOK, ReadRoom, Go, RoomRow
  <2>2. SameRow(RoomRow(r), r)
    BY <1>2, <1>3 DEF SameRow, RoomRow, RoomRows, TypeInv, RequestTypeOK, TypeOK
  <2>3. tx'[s] = x /\ ~x.room /\ ~x.user /\ x.credits = {}
    BY <1>6, <2>1 DEF Untouched, x
  <2>4. CASE status[r] \in PROMOTABLE_FROM
    BY <1>1, <2>1, <2>2, <2>3, <2>4 DEF PayHand, Paying, d
  <2>5. CASE status[r] \notin PROMOTABLE_FROM
    <3>1. ~Promotes(r, u)
      BY <2>5 DEF Promotes, MaybePromoteToViable
    <3> QED
      BY <1>1, <1>4, <2>1, <2>3, <2>5, <3>1 DEF PayHand, Paying, d
  <2> QED
    BY <2>4, <2>5
<1>9. CASE CountConfirmed(s)
  <2> DEFINE apps == [application[r] EXCEPT ![u] = "confirmed"]
  <2>1. /\ pc[s] = "count" /\ task' = task /\ UNCHANGED vars /\ tx'[s] = x
        /\ pc'[s] = IF QuorumIn(apps, loaded[s]) THEN "write_room" ELSE "read_user"
    BY <1>3, <1>9 DEF TypeInv, RequestTypeOK, CountConfirmed, Go, x
  <2>2. QuorumIn(apps, loaded[s]) <=> Promotes(r, u)
    <3>1. /\ loaded[s].male = capacity[r].male /\ loaded[s].female = capacity[r].female
          /\ status[r] \in PROMOTABLE_FROM
      BY <1>2, <2>1 DEF SameRow
    <3> QED
      BY <3>1 DEF Promotes, MaybePromoteToViable, QuorumIn
  <2>3. ~x.room /\ ~x.user /\ x.credits = {}
    BY <1>6, <2>1 DEF Untouched
  <2> HIDE DEF apps
  <2> QED
    BY <1>1, <1>4, <2>1, <2>2, <2>3 DEF PayHand, Paying, d
<1>10. CASE WriteRoom(s)
  <2>1. /\ pc[s] = "write_room" /\ pc'[s] = "bonus" /\ task' = task
        /\ UNCHANGED vars /\ tx'[s].user = x.user
    BY <1>3, <1>10 DEF TypeInv, RequestTypeOK, WriteRoom, Write, Go, x
  <2> QED
    BY <1>1, <1>2, <2>1 DEF PayHand, Paying, d
<1>11. CASE IssueBonus(s)
  <2>1. /\ pc[s] = "bonus" /\ pc'[s] = "read_user" /\ task' = task
        /\ UNCHANGED vars /\ tx'[s].user = x.user /\ tx'[s].room = x.room
        /\ tx'[s].credits = ViableHostBonus(r, <<r, u>>)
    BY <1>3, <1>11 DEF TypeInv, RequestTypeOK, IssueBonus, Write, Go, x
  <2>2. x.room /\ d.room = TRUE
    BY <1>2, <1>5, <2>1 DEF PayHand, Awards
  <2> QED
    BY <1>1, <1>2, <1>4, <2>1, <2>2 DEF PayHand, Paying, d
<1>12. CASE ReadUser(s)
  <2>1. /\ pc[s] = "read_user" /\ task' = task /\ UNCHANGED vars /\ tx'[s] = x
        /\ pc'[s] = IF ReferralDue(u) THEN "find_pair" ELSE "commit"
    BY <1>3, <1>12 DEF TypeInv, RequestTypeOK, ReadUser, Go, x
  <2>2. d.pair = {} \/ ReferralDue(u)
    BY <1>4
  <2> QED
    BY <1>1, <1>2, <1>4, <2>1, <2>2 DEF PayHand, Paying, d
<1>13. CASE FindPair(s)
  <2>1. /\ pc[s] = "find_pair" /\ task' = task /\ UNCHANGED vars /\ tx'[s] = x
        /\ pc'[s] = IF PairPaid(u) THEN "write_user" ELSE "count_pairs"
    BY <1>3, <1>13 DEF TypeInv, RequestTypeOK, FindPair, Go, x
  <2>2. PairPaid(u) => d.pair = {}
    BY <1>4 DEF ReferralPair
  <2> QED
    BY <1>1, <1>2, <1>4, <2>1, <2>2 DEF PayHand, Paying, d
<1>14. CASE IssuePair(s)
  <2>1. /\ pc[s] = "count_pairs" /\ pc'[s] = "write_user" /\ task' = task
        /\ UNCHANGED vars /\ tx'[s].user = x.user /\ tx'[s].room = x.room
        /\ tx'[s].credits = x.credits \cup
              IF CapReached(u) THEN {} ELSE PairOfCredits(u, <<r, u>>)
    BY <1>3, <1>14 DEF TypeInv, RequestTypeOK, IssuePair, Write, Go, x
  <2>2. d.pair = IF CapReached(u) THEN {} ELSE PairOfCredits(u, <<r, u>>)
    BY <1>2, <1>4, <2>1 DEF ReferralPair, PayHand
  <2> QED
    BY <1>1, <1>2, <1>4, <2>1, <2>2 DEF PayHand, Paying, d
<1>15. CASE WriteUser(s)
  <2>1. /\ pc[s] = "write_user" /\ pc'[s] = "commit" /\ task' = task
        /\ UNCHANGED vars /\ tx'[s].user /\ tx'[s].room = x.room
        /\ tx'[s].credits = x.credits
    BY <1>3, <1>15 DEF TypeInv, RequestTypeOK, WriteUser, Write, Go, x
  <2> QED
    BY <1>1, <1>2, <2>1 DEF PayHand, Paying, d
<1> QED
  BY <1>7, <1>8, <1>9, <1>10, <1>11, <1>12, <1>13, <1>14, <1>15
     DEF PaymentStep, d

(* What a request has in hand after a step, of the database before it.     *)
AloneAfter(s) == AloneSlot(pc'[s], task'[s], loaded'[s], wanted'[s], tx'[s])

LEMMA ArriveAlone ==
    ASSUME RoomConstants, SlotsInv, EarlyInv, QuietOperations,
           NEW s \in Slots, Arrive(s)
    PROVE  AloneAfter(s) /\ UNCHANGED vars
<1>1. TypeInv /\ TypeOK
  BY DEF SlotsInv, TypeInv, RequestTypeOK
<1>2. UNCHANGED vars
  BY <1>1, ArriveEffect, BeginEffect
<1>3. \A r \in Rooms : /\ RoomRow(r) \in RoomRows /\ SameRow(RoomRow(r), r)
                       /\ \A u \in Users : application[r][u] # "none" =>
                                status[r] # "none"
  BY <1>1 DEF RoomRow, RoomRows, SameRow, TypeOK, EarlyInv
<1>4. ASSUME NEW op \in ApplicationOperations, NEW r \in Rooms,
             NEW u \in Participants, LoadApplication(s, op, r, u)
      PROVE  AloneAfter(s)
  <2>1. /\ pc'[s] = "store_application" /\ task'[s] = [op |-> op, room |-> r, user |-> u]
        /\ loaded'[s] = [status |-> application[r][u]]
        /\ wanted'[s] = [status |-> To[op]]
        /\ MayAsk(op, r, u) /\ application[r][u] \in From[op]
    BY <1>1, <1>4 DEF LoadApplication, Begin, Go, ApplicationRow, TypeInv, RequestTypeOK
  <2>2. op \in {"cancel", "approve", "reject", "waitlist"}
    BY DEF QuietOperations, ApplicationOperations, From
  <2>3. application[r][u] # "none" /\ u \in Users
    BY <2>1, <2>2 DEF From, CANCELLABLE_FROM, APPROVABLE_FROM, REJECTABLE_FROM,
       WAITLISTABLE_FROM, RoomConstants
  <2>4. userStatus[IF op = "cancel" THEN u ELSE HostOf[r]] = "active"
    BY <2>1, <2>2 DEF MayAsk, Active
  <2> QED
    BY <1>3, <2>1, <2>2, <2>3, <2>4
       DEF AloneAfter, AloneSlot, AloneApplication, Paying
<1>5. ASSUME NEW r \in Rooms, NEW u \in Participants, LoadPayment(s, r, u)
      PROVE  AloneAfter(s)
  <2>1. /\ pc'[s] = "write_application" /\ task'[s].room = r /\ task'[s].user = u
        /\ pc[s] = "idle" /\ tx'[s] = tx[s]
        /\ userStatus[HostOf[r]] = "active" /\ application[r][u] \in PAYABLE_FROM
    BY <1>1, <1>5 DEF LoadPayment, Begin, Idle, Go, Active, TypeInv, RequestTypeOK
  <2>2. ~tx[s].user
    BY <2>1 DEF SlotsInv, LocalInv, Awards, Untouched
  <2>3. status[r] # "none"
    BY <1>3, <2>1 DEF PAYABLE_FROM, RoomConstants
  <2>4. PayHand("write_application", tx'[s], Due[r][u])
    BY <2>1, <2>2 DEF PayHand
  <2> QED
    BY <2>1, <2>3, <2>4 DEF AloneAfter, AloneSlot, AlonePayment
<1>6. ASSUME NEW op, NEW r \in Rooms, NEW x, NEW allowed, NEW changed,
             LoadRoom(s, op, r, x, allowed, changed),
             allowed => /\ status[r] # "none"
                        /\ AloneRoom([op |-> op, room |-> r, user |-> x],
                                     RoomRow(r), changed)
      PROVE  AloneAfter(s)
  <2>1. /\ pc'[s] = "store_room" /\ task'[s] = [op |-> op, room |-> r, user |-> x]
        /\ loaded'[s] = RoomRow(r) /\ wanted'[s] = changed
    BY <1>1, <1>6 DEF LoadRoom, Begin, Go, TypeInv, RequestTypeOK
  <2>2. status[r] # "none"
        /\ AloneRoom([op |-> op, room |-> r, user |-> x], RoomRow(r), changed)
    BY <1>6 DEF LoadRoom
  <2> QED
    BY <2>1, <2>2 DEF AloneAfter, AloneSlot, Paying
<1>7. ASSUME NEW r \in Rooms, LoadPublish(s, r) PROVE AloneAfter(s)
  BY <1>3, <1>6, <1>7 DEF LoadPublish, AloneRoom, Active, HOST_PUBLISH_FROM
<1>8. ASSUME NEW r \in Rooms, NEW c \in Capacities, NEW late \in BOOLEAN,
             LoadUpdate(s, r, c, late)
      PROVE  AloneAfter(s)
  BY <1>3, <1>6, <1>8 DEF LoadUpdate, AloneRoom, Active, HOST_EDITABLE_STATES
<1>9. ASSUME NEW r \in Rooms, NEW p \in Planners, LoadAssign(s, r, p)
      PROVE  AloneAfter(s)
  BY <1>3, <1>6, <1>9 DEF LoadAssign, AloneRoom, ASSIGNABLE_FROM
<1>10. ASSUME NEW r \in Rooms, NEW p \in Planners, LoadConfirm(s, r, p)
      PROVE  AloneAfter(s)
  BY <1>3, <1>6, <1>10 DEF LoadConfirm, AloneRoom, PlannerActs, Active,
     CONFIRMABLE_FROM, Confirmable
<1> QED
  BY <1>2, <1>4, <1>5, <1>7, <1>8, <1>9, <1>10 DEF Arrive

(* The request keeps what it has in hand while its room and the people in  *)
(* it stay as they are.                                                    *)
LEMMA AloneKept ==
    ASSUME NEW s \in Slots, AloneAfter(s),
           UNCHANGED <<planner, application, profile, userStatus, plannerStatus,
                       creditVars>>,
           RoomConstants,
           pc'[s] # "idle" => /\ status'[task'[s].room] = status[task'[s].room]
                              /\ capacity'[task'[s].room] = capacity[task'[s].room]
    PROVE  AloneSlot(pc[s], task[s], loaded[s], wanted[s], tx[s])'
<1> DEFINE r == task'[s].room
<1>1. pc'[s] # "idle" => r \in Rooms /\ status'[r] # "none"
  BY DEF AloneAfter, AloneSlot
<1>2. ASSUME pc'[s] = "store_application"
      PROVE  AloneApplication(task[s], loaded[s], wanted[s])'
  BY <1>2 DEF AloneAfter, AloneSlot, AloneApplication
<1>3. ASSUME pc'[s] = "store_room"
      PROVE  AloneRoom(task[s], loaded[s], wanted[s])'
  <2>1. AloneRoom(task'[s], loaded'[s], wanted'[s])
    BY <1>3 DEF AloneAfter, AloneSlot
  <2>2. r \in Confirmable' <=> r \in Confirmable
    BY <1>1, <1>3, DatabaseKept
  <2> QED
    BY <1>3, <2>1, <2>2 DEF AloneRoom, SameRow
<1>4. ASSUME pc'[s] \in Paying
      PROVE  AlonePayment(pc[s], task[s], loaded[s], tx[s])'
  <2>1. AlonePayment(pc'[s], task'[s], loaded'[s], tx'[s]) /\ pc'[s] # "idle"
    BY <1>4 DEF AloneAfter, AloneSlot, Paying
  <2>2. Due'[r] = Due[r]
    BY <1>1, <2>1, DatabaseKept
  <2> QED
    BY <2>1, <2>2 DEF AlonePayment, SameRow
<1> QED
  BY <1>1, <1>2, <1>3, <1>4 DEF AloneSlot

(* What the request commits is what the serial operation does.             *)
LEMMA ApplicationAlone ==
    ASSUME RoomConstants, SlotsInv, AloneInv, NEW s \in Slots, StoreApplication(s)
    PROVE  Next
<1> DEFINE r == task[s].room
           u == task[s].user
           op == task[s].op
<1>1. /\ r \in Rooms /\ u \in Participants /\ u \in Users
      /\ op \in {"cancel", "approve", "reject", "waitlist"}
      /\ userStatus[IF op = "cancel" THEN u ELSE HostOf[r]] = "active"
      /\ application[r][u] \in From[op]
      /\ loaded[s].status = application[r][u] /\ wanted[s].status = To[op]
  <2>1. r \in Rooms /\ AloneApplication(task[s], loaded[s], wanted[s])
    BY DEF AloneInv, AloneSlot, StoreApplication
  <2> QED
    BY <2>1 DEF AloneApplication, RoomConstants
<1>2. application[r][u] # "none"
  BY <1>1 DEF From, CANCELLABLE_FROM, APPROVABLE_FROM, REJECTABLE_FROM,
     WAITLISTABLE_FROM
<1>3. Written(s, ApplicationRow(r, u)).status = To[op]
  BY <1>1 DEF Written, ApplicationRow
<1>4. /\ application' = [application EXCEPT ![r][u] = To[op]]
      /\ UNCHANGED <<roomVars, accountVars, creditVars>>
  BY <1>1, <1>2, <1>3 DEF StoreApplication
<1>5. SetApplication(r, u, To[op])
  BY <1>4 DEF SetApplication
<1>6. ApplicationStep(r, u)
  <2>1. CASE op = "cancel"
    BY <1>1, <1>5, <2>1 DEF ApplicationStep, CancelMyApplication, Active, From, To
  <2>2. CASE op = "approve"
    BY <1>1, <1>5, <2>2 DEF ApplicationStep, ApproveApplication, Active, From, To
  <2>3. CASE op = "reject"
    BY <1>1, <1>5, <2>3 DEF ApplicationStep, RejectApplication, Active, From, To
  <2>4. CASE op = "waitlist"
    BY <1>1, <1>5, <2>4 DEF ApplicationStep, WaitlistApplication, Active, From, To
  <2> QED
    BY <1>1, <2>1, <2>2, <2>3, <2>4
<1> QED
  BY <1>1, <1>6 DEF Next, RoomNext

LEMMA RoomAlone ==
    ASSUME RoomConstants, SlotsInv, AloneInv, NEW s \in Slots, StoreRoom(s)
    PROVE  Next
<1> DEFINE r == task[s].room
           p == task[s].user
           l == loaded[s]
           w == wanted[s]
           row == Written(s, RoomRow(r))
<1>1. r \in Rooms /\ AloneRoom(task[s], l, w) /\ SameRow(l, r)
  BY DEF AloneInv, AloneSlot, AloneRoom, StoreRoom
<1>2. TypeOK
  BY DEF SlotsInv, TypeInv, RequestTypeOK
<1>3. /\ status' = [status EXCEPT ![r] = row.status]
      /\ planner' = [planner EXCEPT ![r] = row.planner]
      /\ capacity' = [capacity EXCEPT ![r] = [male |-> row.male,
                                              female |-> row.female]]
      /\ deadlinePassed' = [deadlinePassed EXCEPT ![r] = row.late]
      /\ UNCHANGED <<application, accountVars, creditVars>>
  BY DEF StoreRoom
<1>4. /\ l \in RoomRows /\ l.status = status[r] /\ l.planner = planner[r]
      /\ l.male = capacity[r].male /\ l.female = capacity[r].female
  BY <1>1 DEF SameRow
<1>5. /\ row.status = w.status /\ row.planner = w.planner
      /\ row.male = w.male /\ row.female = w.female
      /\ row.late = IF w.late # l.late THEN w.late ELSE deadlinePassed[r]
  BY <1>4 DEF Written, RoomRow
<1> HIDE DEF row, l, w
<1>6. ASSUME w.status = status[r] PROVE status' = status
  BY <1>1, <1>2, <1>3, <1>5, <1>6 DEF TypeOK
<1>7. ASSUME w.planner = planner[r] PROVE planner' = planner
  BY <1>1, <1>2, <1>3, <1>5, <1>7 DEF TypeOK
<1>8. ASSUME w.male = capacity[r].male, w.female = capacity[r].female
      PROVE  capacity' = capacity
  <2>1. capacity[r] \in [male : 1..20, female : 1..20]
    BY <1>1, <1>2 DEF TypeOK
  <2>2. [male |-> row.male, female |-> row.female] = capacity[r]
    BY <1>5, <1>8, <2>1
  <2> QED
    BY <1>1, <1>2, <1>3, <2>2 DEF TypeOK
<1>9. ASSUME w.late = l.late PROVE deadlinePassed' = deadlinePassed
  BY <1>1, <1>2, <1>3, <1>5, <1>9 DEF TypeOK
<1>10. CASE /\ userStatus[HostOf[r]] = "active"
            /\ status[r] \in HOST_PUBLISH_FROM
            /\ w = [l EXCEPT !.status = "published"]
  <2>1. /\ w.status = "published" /\ w.planner = l.planner /\ w.male = l.male
        /\ w.female = l.female /\ w.late = l.late
    BY <1>4, <1>10 DEF RoomRows
  <2>2. PublishRoom(r)
    BY <1>3, <1>4, <1>5, <1>7, <1>8, <1>9, <1>10, <2>1 DEF PublishRoom, Active
  <2> QED
    BY <1>1, <2>2 DEF Next, RoomNext, RoomStep
<1>11. CASE /\ userStatus[HostOf[r]] = "active"
            /\ status[r] \in HOST_EDITABLE_STATES
            /\ \E c \in Capacities, late \in BOOLEAN :
                  w = [l EXCEPT !.male = c.male, !.female = c.female, !.late = late]
  <2>1. PICK c \in Capacities, late \in BOOLEAN :
            w = [l EXCEPT !.male = c.male, !.female = c.female, !.late = late]
    BY <1>11
  <2>2. /\ w.status = l.status /\ w.planner = l.planner /\ w.male = c.male
        /\ w.female = c.female /\ w.late = late
    BY <1>4, <2>1 DEF RoomRows
  <2>3. c = [male |-> row.male, female |-> row.female]
    BY <1>5, <2>2 DEF RoomConstants
  <2>4. row.late \in BOOLEAN
    BY <1>1, <1>2, <1>5, <2>2 DEF TypeOK
  <2>5. UpdateRoom(r)
    BY <1>3, <1>4, <1>6, <1>7, <1>11, <2>2, <2>3, <2>4 DEF UpdateRoom, Active
  <2> QED
    BY <1>1, <2>5 DEF Next, RoomNext, RoomStep
<1>12. CASE /\ p \in Planners /\ plannerStatus[p] = "approved"
            /\ status[r] \in ASSIGNABLE_FROM
            /\ w = [l EXCEPT !.status = "assigned", !.planner = p]
  <2>1. /\ w.status = "assigned" /\ w.planner = p /\ w.male = l.male
        /\ w.female = l.female /\ w.late = l.late
    BY <1>4, <1>12 DEF RoomRows
  <2>2. AssignPlannerToRoom(r, p)
    BY <1>3, <1>4, <1>5, <1>8, <1>9, <1>12, <2>1 DEF AssignPlannerToRoom
  <2> QED
    BY <1>1, <1>12, <2>2 DEF Next, RoomNext, PlannerStep
<1>13. CASE /\ p \in Planners /\ plannerStatus[p] = "approved"
            /\ userStatus[p] = "active" /\ planner[r] = p
            /\ status[r] \in CONFIRMABLE_FROM /\ r \in Confirmable
            /\ w = [l EXCEPT !.status = "confirmed"]
  <2>1. /\ w.status = "confirmed" /\ w.planner = l.planner /\ w.male = l.male
        /\ w.female = l.female /\ w.late = l.late
    BY <1>4, <1>13 DEF RoomRows
  <2>2. ConfirmRoom(r, p)
    BY <1>3, <1>4, <1>5, <1>7, <1>8, <1>9, <1>13, <2>1
       DEF ConfirmRoom, PlannerActs, Active, Confirmable
  <2> QED
    BY <1>1, <1>13, <2>2 DEF Next, RoomNext, PlannerStep
<1> QED
  BY <1>1, <1>10, <1>11, <1>12, <1>13 DEF AloneRoom, l, w

LEMMA CommitAlone ==
    ASSUME RoomConstants, SlotsInv, AloneInv, NEW s \in Slots, Commit(s)
    PROVE  Next
<1> DEFINE r == task[s].room
           u == task[s].user
           apps == [application[r] EXCEPT ![u] = "confirmed"]
<1>1. /\ r \in Rooms /\ u \in Participants /\ u \in Users
      /\ userStatus[HostOf[r]] = "active" /\ application[r][u] \in PAYABLE_FROM
      /\ PayHand("commit", tx[s], Due[r][u])
  BY DEF AloneInv, AloneSlot, AlonePayment, Commit, Paying, RoomConstants
<1>2. /\ tx[s].room <=> Promotes(r, u)
      /\ tx[s].user <=> ReferralDue(u)
      /\ tx[s].credits =
            (IF Promotes(r, u) THEN ViableHostBonus(r, <<r, u>>) ELSE {})
              \cup (IF ReferralDue(u) THEN ReferralPair(u, <<r, u>>) ELSE {})
  BY <1>1, DueSays DEF PayHand
<1>3. Promotes(r, u) <=> MaybePromoteToViable(r, apps)
  BY DEF Promotes
<1>4. TypeOK /\ tx[s].user \in BOOLEAN
  BY DEF SlotsInv, TypeInv, RequestTypeOK
<1>5. /\ application' = [application EXCEPT ![r] = apps]
      /\ status' = [status EXCEPT ![r] =
                       IF MaybePromoteToViable(r, apps) THEN "viable" ELSE @]
      /\ credits' = credits
            \cup (IF MaybePromoteToViable(r, apps) THEN ViableHostBonus(r, <<r, u>>)
                  ELSE {})
            \cup (IF ReferralDue(u) THEN ReferralPair(u, <<r, u>>) ELSE {})
      /\ UNCHANGED <<capacity, deadlinePassed, planner, accountVars>>
  <2> HIDE DEF r, u, apps
  <2>1. application' = [application EXCEPT ![r] = apps]
    BY <1>1, <1>4 DEF Commit, TypeOK, r, u, apps
  <2> QED
    BY <1>2, <1>3, <2>1 DEF Commit, r, u
<1>6. bonusEmitted' = [bonusEmitted EXCEPT ![u] = @ \/ ReferralDue(u)]
  <2>1. (bonusEmitted[u] \/ tx[s].user) = (bonusEmitted[u] \/ ReferralDue(u))
    BY <1>2
  <2> QED
    BY <2>1 DEF Commit
<1>7. MarkApplicationPaid(r, u)
  BY <1>1, <1>5, <1>6 DEF MarkApplicationPaid, Active
<1> QED
  BY <1>1, <1>7 DEF Next, RoomNext, ApplicationStep

LEMMA AloneStep ==
    ASSUME RoomConstants, RequestConstants, OneSlot, QuietOperations,
           SlotsInv, EarlyInv, AloneInv, [RequestNext]_allVars
    PROVE  AloneInv' /\ [Next]_vars
<1>1. ASSUME NEW s \in Slots, AloneSlot(pc[s], task[s], loaded[s], wanted[s], tx[s])'
      PROVE  AloneInv'
  BY <1>1 DEF AloneInv, OneSlot
<1>2. ASSUME NEW s \in Slots, AloneAfter(s), UNCHANGED vars PROVE AloneInv'
  <2>1. AloneSlot(pc[s], task[s], loaded[s], wanted[s], tx[s])'
    BY <1>2, AloneKept DEF vars, roomVars, accountVars
  <2> QED
    BY <1>1, <2>1
<1>3. ASSUME NEW s \in Slots, pc'[s] = "idle" PROVE AloneInv'
  <2>1. AloneSlot(pc[s], task[s], loaded[s], wanted[s], tx[s])'
    BY <1>3 DEF AloneSlot, Paying
  <2> QED
    BY <1>1, <2>1
<1>4. ASSUME NEW s \in Slots, SlotStep(s) PROVE AloneInv' /\ [Next]_vars
  <2>1. CASE Arrive(s)
    BY <1>2, <2>1, ArriveAlone
  <2>2. CASE PaymentStep(s)
    <3>1. AloneAfter(s) /\ UNCHANGED vars
      <4>1. AlonePayment(pc[s], task[s], loaded[s], tx[s])
            /\ task[s].room \in Rooms /\ status[task[s].room] # "none"
        BY <2>2, PaymentAlone DEF AloneInv, AloneSlot, Paying
      <4> QED
        BY <2>2, <4>1, PaymentAlone DEF AloneAfter, AloneSlot, AlonePayment, Paying
    <3> QED
      BY <1>2, <3>1
  <2>3. CASE Fail(s)
    BY <1>3, <2>3, FinishEffect DEF Fail, SlotsInv
  <2>4. CASE StoreApplication(s) \/ StoreRoom(s) \/ Commit(s)
    BY <1>3, <2>4, FinishersIdle, ApplicationAlone, RoomAlone, CommitAlone
  <2> QED
    BY <1>4, <2>1, <2>2, <2>3, <2>4, StepKinds DEF Silent
<1>5. CASE Atomic
  <2>1. UNCHANGED requestVars /\ \E q \in Rooms : DeadlinePasses(q) \/ CreateRoom(q)
    BY <1>5 DEF Atomic, QuietOperations
  <2>2. PICK q \in Rooms : DeadlinePasses(q) \/ CreateRoom(q)
    BY <2>1
  <2>3. /\ UNCHANGED <<planner, application, profile, userStatus, plannerStatus,
                       creditVars>>
        /\ \A r \in Rooms : status[r] # "none" =>
               status'[r] = status[r] /\ capacity'[r] = capacity[r]
    <3>1. TypeOK
      BY DEF SlotsInv, TypeInv, RequestTypeOK
    <3> QED
      BY <2>2, <3>1 DEF DeadlinePasses, CreateRoom, TypeOK, accountVars
  <2>4. ASSUME NEW s \in Slots
        PROVE  AloneSlot(pc[s], task[s], loaded[s], wanted[s], tx[s])'
    <3>1. AloneAfter(s)
      BY <2>1 DEF AloneInv, AloneAfter, requestVars
    <3>2. pc'[s] # "idle" => task'[s].room \in Rooms /\ status[task'[s].room] # "none"
      BY <3>1 DEF AloneAfter, AloneSlot
    <3> QED
      BY <2>3, <3>1, <3>2, AloneKept
  <2> QED
    BY <1>5, <2>4, AtomicIsNext DEF AloneInv
<1>6. CASE UNCHANGED allVars
  <2>1. UNCHANGED vars /\ UNCHANGED requestVars
    BY <1>6 DEF allVars
  <2>2. ASSUME NEW s \in Slots PROVE AloneAfter(s)
    BY <2>1 DEF AloneInv, AloneAfter, requestVars
  <2>3. AloneInv'
    <3>1. CASE Slots = {}
      BY <3>1 DEF RequestConstants
    <3> QED
      BY <1>2, <2>1, <2>2, <3>1
  <2> QED
    BY <2>1, <2>3
<1> QED
  BY <1>4, <1>5, <1>6 DEF RequestNext, SlotStep

(* One request at a time, the statements of every operation add up to what *)
(* the operation does when it is one step, for all rooms, users and        *)
(* awards: the detailed specification implements the serial one            *)
(* (host_service.py:246-287, credit_service.py:36-109).                    *)
THEOREM AloneIsSerial ==
    ASSUME RoomConstants, RequestConstants, OneSlot, QuietOperations
    PROVE  RequestSpec => SerialWhenAlone
<1>1. Init /\ RequestInit => EarlyInv /\ AloneInv
  BY DEF Init, RequestInit, EarlyInv, AloneInv, AloneSlot, Paying
<1>2. SlotsInv /\ EarlyInv /\ AloneInv /\ [RequestNext]_allVars
         => EarlyInv' /\ AloneInv' /\ [Next]_vars
  BY AloneStep, EarlyStep DEF SlotsInv, TypeInv, RequestTypeOK
<1> QED
  BY <1>1, <1>2, SlotsAlways, PTL DEF RequestSpec, SerialWhenAlone
=============================================================================
