------------------------ MODULE EventRequestsProofs ------------------------
(***************************************************************************)
(* The event, its session, its guests and its matches under requests in    *)
(* flight together, for any number of them, and of rooms and guests.       *)
(***************************************************************************)
EXTENDS EventRequests, MatchChoicesProofs, FiniteSetTheorems

-----------------------------------------------------------------------------
(* The invariant.  A request that advances or ends a session has found one *)
(* that has started, and a session never goes back: p, k and v are what    *)
(* pc, task and view have for one slot, S is the sessions.                 *)

Started == {"running", "completed"}

SessionRow == [status : Started \cup {"none"}, current : Nat]

Underway(p, k, v, S) ==
    /\ p \in {"read_attendance", "store_session"} => k.room \in Rooms
    /\ p \in {"list_rounds", "store_advance", "store_end"} =>
          /\ k.room \in Rooms
          /\ S[k.room].status \in Started
          /\ v.current \in Nat

SlotMaps == DOMAIN pc = Slots /\ DOMAIN task = Slots /\ DOMAIN view = Slots

StoryInv ==
    /\ TypeOK
    /\ session \in [Rooms -> SessionRow]
    /\ RoomFollowsSession
    /\ SlotMaps
    /\ \A s \in Slots : Underway(pc[s], task[s], view[s], session)

(* The shape of a slot's step: it goes on somewhere with a new view, or it *)
(* is done.                                                                *)
LEMMA FinishShape ==
    ASSUME SlotMaps, NEW s \in Slots, Finish(s)
    PROVE  /\ SlotMaps' /\ pc'[s] = "idle"
           /\ \A t \in Slots \ {s} :
                 pc'[t] = pc[t] /\ task'[t] = task[t] /\ view'[t] = view[t]
BY DEF SlotMaps, Finish

LEMMA BeginShape ==
    ASSUME SlotMaps, NEW s \in Slots, NEW k, NEW v, NEW where, Begin(s, k, v, where)
    PROVE  /\ SlotMaps' /\ pc'[s] = where /\ task'[s] = k /\ view'[s] = v
           /\ \A t \in Slots \ {s} :
                 pc'[t] = pc[t] /\ task'[t] = task[t] /\ view'[t] = view[t]
           /\ UNCHANGED allAftermathVars
BY DEF SlotMaps, Begin

LEMMA ProceedShape ==
    ASSUME SlotMaps, NEW s \in Slots, NEW v, NEW where, Proceed(s, v, where)
    PROVE  /\ SlotMaps' /\ pc'[s] = where /\ task'[s] = task[s] /\ view'[s] = v
           /\ \A t \in Slots \ {s} :
                 pc'[t] = pc[t] /\ task'[t] = task[t] /\ view'[t] = view[t]
           /\ UNCHANGED allAftermathVars
BY DEF SlotMaps, Proceed

(* Statements by which a session's story goes on in a slot.                *)
SessionPlaces == {"read_attendance", "store_session", "list_rounds",
                  "store_advance", "store_end"}

Others(s) ==
    \A t \in Slots \ {s} :
        pc'[t] = pc[t] /\ task'[t] = task[t] /\ view'[t] = view[t]

LEMMA ArriveUnderway ==
    ASSUME StoryInv, NEW s \in Slots, Arrive(s)
    PROVE  /\ UNCHANGED allAftermathVars /\ SlotMaps' /\ Others(s)
           /\ Underway(pc'[s], task'[s], view'[s], session)
<1> DEFINE Good == /\ UNCHANGED allAftermathVars /\ SlotMaps' /\ Others(s)
                   /\ Underway(pc'[s], task'[s], view'[s], session)
<1>1. ASSUME NEW k, NEW v, NEW where, Begin(s, k, v, where),
             where \notin SessionPlaces
      PROVE  Good
  BY <1>1, BeginShape DEF Others, Underway, SessionPlaces, StoryInv
<1>2. ASSUME NEW r \in Rooms, NEW p \in Planners, LoadStart(s, r, p) PROVE Good
  <2>1. Begin(s, Ask("start", r, p, NoUser), NoView, "read_attendance")
    BY <1>2 DEF LoadStart
  <2>2. Ask("start", r, p, NoUser).room = r
    BY DEF Ask
  <2> QED
    BY <2>1, <2>2, BeginShape DEF Others, Underway, StoryInv
<1>3. ASSUME NEW r \in Rooms, NEW p \in Planners, NEW op \in {"next", "end"},
             LoadSession(s, op, r, p)
      PROVE  Good
  <2>1. /\ Begin(s, Ask(op, r, p, NoUser), [current |-> session[r].current],
                 "list_rounds")
        /\ session[r].status \in Started /\ session[r].current \in Nat
    BY <1>3 DEF LoadSession, StoryInv, SessionRow, Started
  <2>2. Ask(op, r, p, NoUser).room = r
    BY DEF Ask
  <2> QED
    BY <2>1, <2>2, BeginShape DEF Others, Underway, StoryInv
<1> HIDE DEF Good
<1>4. ASSUME NEW r \in Rooms, NEW p \in Planners, LoadOpenCheckin(s, r, p)
      PROVE  Good
  BY <1>1, <1>4 DEF LoadOpenCheckin, SessionPlaces
<1>5. ASSUME NEW r \in Rooms, NEW p \in Planners, NEW u, NEW op,
             LoadCheckin(s, op, r, u, p)
      PROVE  Good
  BY <1>1, <1>5 DEF LoadCheckin, SessionPlaces
<1>6. ASSUME NEW r \in Rooms, NEW u, LoadChoices(s, r, u) PROVE Good
  <2>1. PICK k, v : Begin(s, k, v, "read_choice")
    BY <1>6 DEF LoadChoices
  <2> QED
    BY <1>1, <2>1 DEF SessionPlaces
<1>7. ASSUME NEW r \in Rooms, NEW u, NEW v, LoadMatch(s, r, u, v) PROVE Good
  BY <1>1, <1>7 DEF LoadMatch, SessionPlaces
<1>8. ASSUME NEW r \in Rooms, NEW u, LoadFeedback(s, r, u) PROVE Good
  BY <1>1, <1>8 DEF LoadFeedback, SessionPlaces
<1>9. ASSUME NEW c, LoadReport(s, c) PROVE Good
  BY <1>1, <1>9 DEF LoadReport, SessionPlaces
<1>10. ASSUME NEW i, NEW to, LoadClosing(s, i, to) PROVE Good
  BY <1>1, <1>10 DEF LoadClosing, SessionPlaces
<1>11. Good
  BY <1>2, <1>3, <1>4, <1>5, <1>6, <1>7, <1>8, <1>9, <1>10 DEF Arrive
<1> QED
  BY <1>11 DEF Good

LEMMA ReadingUnderway ==
    ASSUME StoryInv, NEW s \in Slots, Reading(s)
    PROVE  /\ UNCHANGED allAftermathVars /\ SlotMaps' /\ Others(s)
           /\ Underway(pc'[s], task'[s], view'[s], session)
<1> DEFINE Good == /\ UNCHANGED allAftermathVars /\ SlotMaps' /\ Others(s)
                   /\ Underway(pc'[s], task'[s], view'[s], session)
<1> SUFFICES Good
  OBVIOUS
<1>1. ASSUME NEW v, NEW where, Proceed(s, v, where), where \notin SessionPlaces
      PROVE  Good
  BY <1>1, ProceedShape DEF Others, Underway, SessionPlaces, StoryInv
<1>2. CASE ReadAttendance(s)
  <2>1. PICK v : Proceed(s, v, "store_session")
    BY <1>2 DEF ReadAttendance
  <2>2. task[s].room \in Rooms
    BY <1>2 DEF ReadAttendance, StoryInv, Underway
  <2> QED
    BY <2>1, <2>2, ProceedShape DEF Others, Underway, StoryInv
<1>3. CASE ListRounds(s)
  <2> DEFINE v == [current |-> view[s].current, rows |-> rounds[task[s].room]]
             where == IF task[s].op = "next" THEN "store_advance" ELSE "store_end"
  <2>1. Proceed(s, v, where)
    BY <1>3 DEF ListRounds
  <2>2. /\ task[s].room \in Rooms /\ session[task[s].room].status \in Started
        /\ view[s].current \in Nat
    BY <1>3 DEF ListRounds, StoryInv, Underway
  <2>3. v.current \in Nat /\ where \in {"store_advance", "store_end"}
    BY <2>2
  <2> HIDE DEF v, where
  <2> QED
    BY <2>1, <2>2, <2>3, ProceedShape DEF Others, Underway, StoryInv
<1> HIDE DEF Good
<1>4. CASE ListCheckins(s)
  BY <1>1, <1>4 DEF ListCheckins, SessionPlaces
<1>5. AfterItem(s) \notin SessionPlaces
  <2>1. AfterItem(s) = "read_choice" \/ AfterItem(s) = "store_choices"
    BY DEF AfterItem
  <2> QED
    BY <2>1 DEF SessionPlaces
<1>6. "read_reverse" \notin SessionPlaces /\ "read_match" \notin SessionPlaces
  BY DEF SessionPlaces
<1>7. CASE ReadChoice(s)
  <2> DEFINE u == Item(s).to
             own == view[s].own[u]
             row == choice[task[s].room][task[s].user][u]
             object == IF own = Unread THEN [was |-> row, now |-> row] ELSE own
             seen == [view[s] EXCEPT !.own[u] = [object EXCEPT !.now = Item(s).what]]
  <2>1. \/ Proceed(s, seen, "read_reverse")
        \/ Proceed(s, seen, "read_match")
        \/ Proceed(s, NextItem(s, seen), AfterItem(s))
    BY <1>7 DEF ReadChoice
  <2> HIDE DEF seen
  <2> QED
    BY <1>1, <1>5, <1>6, <2>1
<1>8. CASE ReadReverse(s)
  <2>1. \/ Proceed(s, view[s], "read_match")
        \/ Proceed(s, NextItem(s, view[s]), AfterItem(s))
    BY <1>8 DEF ReadReverse
  <2> QED
    BY <1>1, <1>5, <1>6, <2>1
<1>9. CASE ReadMatch(s)
  <2> DEFINE v == Item(s).to
             res == view[s].res[v]
             row == match[task[s].room][{task[s].user, v}]
             object == IF res.now \in {"unread", "absent"}
                       THEN [was |-> row, now |-> row] ELSE res
             after == IF Added(res) THEN res
                      ELSE [object EXCEPT !.now =
                               Rematch(@, "interested", "interested", Item(s).what)]
             new == NextItem(s, [view[s] EXCEPT !.res[v] = after])
  <2>1. Proceed(s, new, AfterItem(s))
    BY <1>9 DEF ReadMatch
  <2> HIDE DEF new
  <2> QED
    BY <1>1, <1>5, <2>1
<1> QED
  BY <1>2, <1>3, <1>4, <1>7, <1>8, <1>9 DEF Reading

-----------------------------------------------------------------------------
(* What the steps that store do to the room and its session.               *)

Quiet == UNCHANGED <<vars, session, seats>>

LEMMA StoringKinds ==
    ASSUME StoryInv, NEW s \in Slots, Storing(s)
    PROVE  /\ Finish(s)
           /\ \/ Quiet
              \/ StoreSession(s) \/ StoreAdvance(s) \/ StoreEnd(s)
<1>1. ASSUME UNCHANGED <<allMatchVars>> PROVE Quiet
  BY <1>1 DEF allMatchVars, allDayVars, dayVars, Quiet
<1>2. ASSUME UNCHANGED <<allDayVars>> PROVE Quiet
  BY <1>2 DEF allDayVars, dayVars, Quiet
<1>3. CASE StoreOpenings(s) \/ StoreCheckin(s)
  BY <1>3 DEF StoreOpenings, StoreCheckin, Quiet
<1>4. CASE StoreChoices(s) \/ StoreProposal(s)
  BY <1>2, <1>4 DEF StoreChoices, StoreProposal
<1>5. CASE StoreFeedback(s) \/ StoreReport(s) \/ StoreClosing(s)
  BY <1>1, <1>5 DEF StoreFeedback, StoreReport, StoreClosing
<1>6. CASE StoreSession(s) \/ StoreAdvance(s) \/ StoreEnd(s)
  BY <1>6 DEF StoreSession, StoreAdvance, StoreEnd
<1> QED
  BY <1>3, <1>4, <1>5, <1>6 DEF Storing

(* One statement moves one room's story on.                                *)
LEMMA SessionMoves ==
    ASSUME StoryInv, NEW s \in Slots,
           StoreSession(s) \/ StoreAdvance(s) \/ StoreEnd(s)
    PROVE  \E r \in Rooms, to \in SessionRow :
              /\ session' = [session EXCEPT ![r] = to]
              /\ UNCHANGED <<capacity, deadlinePassed, planner, application,
                             accountVars, creditVars>>
              /\ \/ /\ session[r] = NoSession /\ to.status = "running"
                    /\ status' = [status EXCEPT ![r] = "in_progress"]
                    /\ \A q \in Rooms \ {r} : seats'[q] = seats[q]
                 \/ /\ session[r].status \in Started
                    /\ to.status = session[r].status
                    /\ UNCHANGED <<status, seats>>
                 \/ /\ session[r].status \in Started /\ to.status = "completed"
                    /\ status' = [status EXCEPT ![r] = "completed"]
                    /\ UNCHANGED seats
<1> DEFINE r == task[s].room
<1>1. CASE StoreSession(s)
  <2> DEFINE to == [status |-> "running", current |-> 1]
  <2>1. /\ r \in Rooms /\ to \in SessionRow
    BY <1>1 DEF StoreSession, StoryInv, Underway, SessionRow, Started
  <2>2. \A q \in Rooms \ {r} : seats'[q] = seats[q]
    BY <1>1 DEF StoreSession, SeatGuests
  <2> QED
    BY <1>1, <2>1, <2>2 DEF StoreSession, SeatGuests
<1>2. CASE StoreAdvance(s)
  <2> DEFINE to == [session[r] EXCEPT !.current = view[s].current + 1]
  <2>1. r \in Rooms /\ session[r].status \in Started /\ view[s].current \in Nat
    BY <1>2 DEF StoreAdvance, StoryInv, Underway
  <2>2. /\ to \in SessionRow /\ to.status = session[r].status
        /\ session' = [session EXCEPT ![r] = to]
    BY <1>2, <2>1 DEF StoreAdvance, StoryInv, SessionRow
  <2>3. UNCHANGED <<capacity, deadlinePassed, planner, application,
                    accountVars, creditVars, status, seats>>
    BY <1>2 DEF StoreAdvance, vars, roomVars
  <2> HIDE DEF to
  <2> QED
    BY <2>1, <2>2, <2>3
<1>3. CASE StoreEnd(s)
  <2> DEFINE to == [session[r] EXCEPT !.status = "completed"]
  <2>1. r \in Rooms /\ session[r].status \in Started
    BY <1>3 DEF StoreEnd, StoryInv, Underway
  <2>2. /\ to \in SessionRow /\ to.status = "completed"
        /\ session' = [session EXCEPT ![r] = to]
    BY <1>3, <2>1 DEF StoreEnd, StoryInv, SessionRow, Started
  <2>3. /\ UNCHANGED <<capacity, deadlinePassed, planner, application,
                       accountVars, creditVars, seats>>
        /\ status' = [status EXCEPT ![r] = "completed"]
    BY <1>3 DEF StoreEnd
  <2> HIDE DEF to
  <2> QED
    BY <2>1, <2>2, <2>3
<1> QED
  BY <1>1, <1>2, <1>3

-----------------------------------------------------------------------------
(* Any step: a session and its room move together, and only forward.       *)

StoryStep ==
    /\ TypeOK' /\ session' \in [Rooms -> SessionRow] /\ RoomFollowsSession'
    /\ \A r \in Rooms :
          /\ session[r].status \in Started => session'[r].status \in Started
          /\ session[r].status = "completed" => session'[r].status = "completed"
          /\ session[r] # NoSession => seats'[r] = seats[r]

LEMMA QuietStep ==
    ASSUME RoomConstants, StoryInv, UNCHANGED <<session, seats>>, [Next]_vars
    PROVE  StoryStep
<1>1. TypeOK'
  BY NextTypeOK DEF StoryInv
<1>2. RoomFollowsSession'
  <2>1. ASSUME NEW r \in Rooms
        PROVE  /\ status'[r] = "in_progress" <=> session'[r].status = "running"
               /\ status'[r] = "completed" <=> session'[r].status = "completed"
    BY EventKept DEF StoryInv, RoomFollowsSession
  <2> QED
    BY <2>1 DEF RoomFollowsSession
<1> QED
  BY <1>1, <1>2 DEF StoryStep, StoryInv

LEMMA SessionStep ==
    ASSUME RoomConstants, StoryInv, NEW s \in Slots,
           StoreSession(s) \/ StoreAdvance(s) \/ StoreEnd(s)
    PROVE  StoryStep
<1>1. PICK r \in Rooms, to \in SessionRow :
         /\ session' = [session EXCEPT ![r] = to]
         /\ UNCHANGED <<capacity, deadlinePassed, planner, application,
                        accountVars, creditVars>>
         /\ \/ /\ session[r] = NoSession /\ to.status = "running"
               /\ status' = [status EXCEPT ![r] = "in_progress"]
               /\ \A q \in Rooms \ {r} : seats'[q] = seats[q]
            \/ /\ session[r].status \in Started
               /\ to.status = session[r].status
               /\ UNCHANGED <<status, seats>>
            \/ /\ session[r].status \in Started /\ to.status = "completed"
               /\ status' = [status EXCEPT ![r] = "completed"]
               /\ UNCHANGED seats
  BY SessionMoves
<1>2. /\ \A q \in Rooms \ {r} : session'[q] = session[q] /\ status'[q] = status[q]
      /\ session'[r] = to
      /\ session' \in [Rooms -> SessionRow]
  BY <1>1 DEF StoryInv, TypeOK
<1>3. TypeOK'
  <2>1. status' \in [Rooms -> RoomStatus \cup {"none"}]
    BY <1>1 DEF StoryInv, TypeOK, RoomStatus
  <2> QED
    BY <1>1, <2>1 DEF StoryInv, TypeOK, accountVars, creditVars
<1>4. RoomFollowsSession'
  <2>1. /\ status'[r] = "in_progress" <=> to.status = "running"
        /\ status'[r] = "completed" <=> to.status = "completed"
    <3>1. /\ status[r] = "in_progress" <=> session[r].status = "running"
          /\ status[r] = "completed" <=> session[r].status = "completed"
      BY DEF StoryInv, RoomFollowsSession
    <3>2. status \in [Rooms -> RoomStatus \cup {"none"}]
      BY DEF StoryInv, TypeOK
    <3> QED
      BY <1>1, <3>1, <3>2
  <2> QED
    BY <1>2, <2>1 DEF RoomFollowsSession, StoryInv
<1>5. /\ session[r].status \in Started => to.status \in Started
      /\ session[r].status = "completed" => to.status = "completed"
      /\ session[r] # NoSession => seats'[r] = seats[r]
      /\ \A q \in Rooms \ {r} : seats'[q] = seats[q]
  BY <1>1 DEF NoSession, Started
<1> QED
  BY <1>2, <1>3, <1>4, <1>5 DEF StoryStep

LEMMA StoryKept ==
    ASSUME RoomConstants, StoryInv, [EventNext]_allEventVars
    PROVE  StoryInv' /\ StoryStep
<1>1. ASSUME NEW p, NEW k, NEW v, Underway(p, k, v, session), StoryStep
      PROVE  Underway(p, k, v, session')
  BY <1>1 DEF Underway, StoryStep
<1>2. ASSUME StoryStep, SlotMaps',
             \A t \in Slots : Underway(pc'[t], task'[t], view'[t], session)
      PROVE  StoryInv' /\ StoryStep
  BY <1>1, <1>2 DEF StoryStep, StoryInv
<1>3. ASSUME NEW s \in Slots, StoryStep, SlotMaps', Others(s),
             Underway(pc'[s], task'[s], view'[s], session)
      PROVE  StoryInv' /\ StoryStep
  <2>1. \A t \in Slots : Underway(pc'[t], task'[t], view'[t], session)
    BY <1>3 DEF Others, StoryInv
  <2> QED
    BY <1>2, <1>3, <2>1
<1>4. ASSUME UNCHANGED allAftermathVars PROVE StoryStep
  BY <1>4, QuietStep DEF allAftermathVars, allMatchVars, allDayVars, dayVars
<1>5. ASSUME NEW s \in Slots, Arrive(s) PROVE StoryInv' /\ StoryStep
  BY <1>3, <1>4, <1>5, ArriveUnderway
<1>6. ASSUME NEW s \in Slots, Reading(s) PROVE StoryInv' /\ StoryStep
  BY <1>3, <1>4, <1>6, ReadingUnderway
<1>7. ASSUME NEW s \in Slots, Finish(s), StoryStep PROVE StoryInv' /\ StoryStep
  <2>1. SlotMaps' /\ Others(s) /\ Underway(pc'[s], task'[s], view'[s], session)
    BY <1>7, FinishShape DEF Others, Underway, StoryInv
  <2> QED
    BY <1>3, <1>7, <2>1
<1>8. ASSUME NEW s \in Slots, Storing(s) PROVE StoryInv' /\ StoryStep
  <2>1. Finish(s)
    BY <1>8, StoringKinds
  <2>2. StoryStep
    <3>1. CASE Quiet
      BY <3>1, QuietStep DEF Quiet
    <3> QED
      BY <1>8, <3>1, StoringKinds, SessionStep
  <2> QED
    BY <1>7, <2>1, <2>2
<1>9. ASSUME NEW s \in Slots, Fail(s) PROVE StoryInv' /\ StoryStep
  BY <1>4, <1>7, <1>9 DEF Fail
<1>10. ASSUME StoryStep, UNCHANGED <<pc, task, view>>
       PROVE  StoryInv' /\ StoryStep
  BY <1>2, <1>10 DEF StoryInv, SlotMaps
<1>11. CASE Background
  <2>1. StoryStep
    BY <1>11, QuietStep DEF Background, dayVars
  <2> QED
    BY <1>10, <1>11, <2>1 DEF Background
<1>12. CASE UNCHANGED allEventVars
  BY <1>4, <1>10, <1>12 DEF allEventVars, eventRequestVars
<1> QED
  BY <1>5, <1>6, <1>8, <1>9, <1>11, <1>12 DEF EventNext

LEMMA StoryAlways == ASSUME RoomConstants PROVE EventSpec => []StoryInv
<1>1. ASSUME Init, DayInit, MatchInit, AftermathInit, EventRequestInit
      PROVE  StoryInv
  <2>1. TypeOK
    BY <1>1, InitTypeOK
  <2> QED
    BY <1>1, <2>1 DEF Init, DayInit, EventRequestInit, StoryInv, SessionRow,
       NoSession, RoomFollowsSession, SlotMaps, Underway
<1>2. StoryInv /\ [EventNext]_allEventVars => StoryInv'
  BY StoryKept
<1> QED
  BY <1>1, <1>2, PTL DEF EventSpec

(* For any number of requests in flight: the room is in progress exactly   *)
(* while its session runs, and completed exactly when it is.               *)
THEOREM RoomAndSessionAgree ==
    ASSUME RoomConstants PROVE EventSpec => []RoomFollowsSession
<1>1. StoryInv => RoomFollowsSession
  BY DEF StoryInv
<1> QED
  BY <1>1, StoryAlways, PTL

(* For any number of requests in flight: a session is seated once, and one *)
(* that has ended stays so.                                                *)
THEOREM EventsHappenOnce ==
    ASSUME RoomConstants PROVE EventSpec => StartedOnceEndedOnce
<1>1. StoryInv /\ [EventNext]_allEventVars =>
         [\A r \in Rooms :
            /\ session[r] # NoSession => seats'[r] = seats[r]
            /\ session[r].status = "completed" => session'[r].status = "completed"
         ]_allEventVars
  BY StoryKept DEF StoryStep
<1> QED
  BY <1>1, StoryAlways, PTL DEF EventSpec, StartedOnceEndedOnce

-----------------------------------------------------------------------------
(* What a request has in hand fits the statement it runs next, and the     *)
(* feedback a guest has given and is about to give is bounded by the       *)
(* requests that are served at once.                                       *)

AnyObject(T) == {Unread} \cup [was : T \cup {"absent"}, now : T \cup {"absent"}]

Choosing == {"read_choice", "read_reverse", "read_match", "store_choices"}

ListFits(k, v) ==
    /\ k.op = "choose" /\ k.room \in Rooms /\ k.user \in Users
    /\ k.items \in Seq([to : Users \ {k.user}, what : ChoiceType])
    /\ v \in [own : [Named(k.items) -> AnyObject(ChoiceType)],
              res : [Named(k.items) -> AnyObject(Statuses)],
              at : 1..Len(k.items)]

Fits(p, k, v) ==
    /\ p \in Choosing => ListFits(k, v)
    /\ p = "store_proposal" =>
          /\ k.op = "propose" /\ k.room \in Rooms
          /\ k.user \in Users /\ k.other \in Users \ {k.user}
    /\ p = "store_feedback" => k.room \in Rooms /\ k.user \in Users
    /\ p = "store_report" => v.complaint \in Complaints
    /\ p = "store_closing" => v.to \in CLOSED_REPORT_STATUSES /\ k.other \in Reports

(* The slots that are about to store feedback of u for r.                  *)
Submitting(P, K, r, u) ==
    {s \in Slots : P[s] = "store_feedback" /\ K[s].room = r /\ K[s].user = u}

FeedbackBounded(F, P, K) ==
    \A r \in Rooms, u \in Users :
        F[r][u] + Cardinality(Submitting(P, K, r, u)) <= Cardinality(Slots)

RowsTyped == MatchTypeOK /\ MatchStatusInv /\ AftermathTypeOK

RequestsInv ==
    /\ RowsTyped
    /\ FeedbackBounded(feedback, pc, task)
    /\ \A s \in Slots : Fits(pc[s], task[s], view[s])

EventConstantsOK == RoomConstants /\ AftermathConstants /\ EventConstants

LEMMA FewerSubmitting ==
    ASSUME EventConstants, NEW F \in [Rooms -> [Users -> Nat]],
           NEW P, NEW K, NEW Q, NEW L, FeedbackBounded(F, P, K),
           \A r \in Rooms, u \in Users :
              \/ Submitting(Q, L, r, u) \subseteq Submitting(P, K, r, u)
              \/ F[r][u] = 0
    PROVE  FeedbackBounded(F, Q, L)
<1> SUFFICES ASSUME NEW r \in Rooms, NEW u \in Users
             PROVE  F[r][u] + Cardinality(Submitting(Q, L, r, u)) <= Cardinality(Slots)
  BY DEF FeedbackBounded
<1> DEFINE A == Submitting(P, K, r, u)
           B == Submitting(Q, L, r, u)
<1>1. A \subseteq Slots /\ B \subseteq Slots /\ IsFiniteSet(Slots)
  BY DEF Submitting, EventConstants
<1>2. F[r][u] + Cardinality(A) <= Cardinality(Slots) /\ F[r][u] \in Nat
  BY DEF FeedbackBounded
<1>3. B \subseteq A \/ F[r][u] = 0
  OBVIOUS
<1> HIDE DEF A, B
<1>4. /\ IsFiniteSet(A) /\ Cardinality(A) \in Nat
      /\ IsFiniteSet(B) /\ Cardinality(B) \in Nat
      /\ Cardinality(B) <= Cardinality(Slots) /\ Cardinality(Slots) \in Nat
  BY <1>1, FS_Subset, FS_CardinalityType
<1>5. B \subseteq A => Cardinality(B) <= Cardinality(A)
  BY <1>4, FS_Subset
<1>6. F[r][u] + Cardinality(B) <= Cardinality(Slots)
  BY ONLY <1>2, <1>3, <1>4, <1>5
<1> QED
  BY <1>6 DEF B

(* A stored feedback was counted with its slot before.                     *)
LEMMA SubmittedFeedback ==
    ASSUME EventConstants, SlotMaps, RequestsInv, NEW s \in Slots, StoreFeedback(s)
    PROVE  /\ feedback' \in [Rooms -> [Users -> Nat]]
           /\ FeedbackBounded(feedback', pc', task')
<1> DEFINE q == task[s].room
           w == task[s].user
<1>1. feedback \in [Rooms -> [Users -> Nat]]
  BY DEF RequestsInv, RowsTyped, AftermathTypeOK
<1>2. q \in Rooms /\ w \in Users /\ pc[s] = "store_feedback"
  BY DEF StoreFeedback, RequestsInv, Fits
<1>3. feedback' = [feedback EXCEPT ![q][w] = @ + 1]
  BY DEF StoreFeedback
<1>4. \A t \in Slots \ {s} : pc'[t] = pc[t] /\ task'[t] = task[t]
  BY FinishShape DEF StoreFeedback
<1>5. pc'[s] = "idle"
  BY FinishShape DEF StoreFeedback
<1>6. feedback' \in [Rooms -> [Users -> Nat]]
  BY <1>1, <1>2, <1>3
<1>7. ASSUME NEW r \in Rooms, NEW u \in Users
      PROVE  feedback'[r][u] + Cardinality(Submitting(pc', task', r, u))
                <= Cardinality(Slots)
  <2> DEFINE A == Submitting(pc, task, r, u)
             B == Submitting(pc', task', r, u)
  <2>1. /\ A \subseteq Slots /\ B \subseteq A \ {s} /\ IsFiniteSet(Slots)
        /\ r = q /\ u = w => s \in A
    BY <1>2, <1>4, <1>5 DEF Submitting, EventConstants
  <2>2. feedback[r][u] + Cardinality(A) <= Cardinality(Slots) /\ feedback[r][u] \in Nat
    BY <1>1 DEF RequestsInv, FeedbackBounded
  <2>3. feedback'[r][u] = IF r = q /\ u = w THEN feedback[r][u] + 1 ELSE feedback[r][u]
    BY <1>1, <1>2, <1>3
  <2> HIDE DEF A, B
  <2>4. /\ IsFiniteSet(A) /\ Cardinality(A) \in Nat /\ Cardinality(Slots) \in Nat
        /\ IsFiniteSet(A \ {s}) /\ Cardinality(A \ {s}) \in Nat
        /\ IsFiniteSet(B) /\ Cardinality(B) \in Nat
        /\ Cardinality(B) <= Cardinality(A \ {s})
        /\ Cardinality(A \ {s}) <= Cardinality(A)
    BY <2>1, FS_Subset, FS_CardinalityType
  <2>5. s \in A => Cardinality(A \ {s}) = Cardinality(A) - 1
    BY <2>4, FS_RemoveElement
  <2>6. feedback'[r][u] + Cardinality(B) <= Cardinality(Slots)
    <3>1. CASE r = q /\ u = w
      <4>1. feedback'[r][u] = feedback[r][u] + 1 /\ s \in A
        BY <2>1, <2>3, <3>1
      <4> QED
        BY ONLY <4>1, <2>2, <2>4, <2>5
    <3>2. CASE ~(r = q /\ u = w)
      <4>1. feedback'[r][u] = feedback[r][u]
        BY <2>3, <3>2
      <4> QED
        BY ONLY <4>1, <2>2, <2>4
    <3> QED
      BY <3>1, <3>2
  <2> QED
    BY <2>6 DEF B
<1> QED
  BY <1>6, <1>7 DEF FeedbackBounded

-----------------------------------------------------------------------------
(* Steps that read.                                                        *)

LEMMA ArriveFits ==
    ASSUME EventConstantsOK, SlotMaps, RequestsInv, NEW s \in Slots, Arrive(s)
    PROVE  /\ Fits(pc'[s], task'[s], view'[s])
           /\ pc'[s] = "store_feedback" =>
                 \A r \in Rooms, u \in Users :
                    task'[s].room = r /\ task'[s].user = u => feedback[r][u] = 0
<1> DEFINE Good == /\ Fits(pc'[s], task'[s], view'[s])
                   /\ pc'[s] = "store_feedback" =>
                         \A r \in Rooms, u \in Users :
                            task'[s].room = r /\ task'[s].user = u => feedback[r][u] = 0
<1>a. Participants \subseteq Users
  BY DEF EventConstantsOK, RoomConstants
<1>1. ASSUME NEW k, NEW v, NEW where, Begin(s, k, v, where), Fits(where, k, v),
             where # "store_feedback"
      PROVE  Good
  BY <1>1, BeginShape
<1>2. ASSUME NEW k, NEW v, NEW where, Begin(s, k, v, where),
             where \notin Choosing \cup {"store_proposal", "store_feedback",
                                         "store_report", "store_closing"}
      PROVE  Good
  BY <1>2, BeginShape DEF Fits
<1>3. ASSUME NEW r \in Rooms, NEW u \in Participants, LoadFeedback(s, r, u) PROVE Good
  <2>1. /\ Begin(s, Ask("feedback", r, u, NoUser), NoView, "store_feedback")
        /\ feedback[r][u] = 0
    BY <1>3 DEF LoadFeedback, MayGiveFeedback
  <2>2. Ask("feedback", r, u, NoUser).room = r /\ Ask("feedback", r, u, NoUser).user = u
    BY DEF Ask
  <2>3. pc'[s] = "store_feedback" /\ task'[s] = Ask("feedback", r, u, NoUser)
    BY <2>1, BeginShape
  <2> QED
    BY <1>a, <2>1, <2>2, <2>3 DEF Fits, Choosing
<1>4. ASSUME NEW r \in Rooms, NEW u \in Participants, LoadChoices(s, r, u) PROVE Good
  <2> DEFINE k(items) == [op |-> "choose", room |-> r, user |-> u, other |-> NoUser,
                          items |-> items]
             v(items) == [own |-> [w \in Named(items) |-> Unread],
                          res |-> [w \in Named(items) |-> Unread], at |-> 1]
  <2>1. PICK items \in ItemLists(ValidTargets(r, u)) :
           Begin(s, k(items), v(items), "read_choice")
    BY <1>4 DEF LoadChoices
  <2>2. items \in BoundedSeq([to : ValidTargets(r, u), what : ChoiceType], MaxItems)
        /\ items # <<>>
    BY DEF ItemLists
  <2>3. PICK m \in 0..MaxItems : items \in [1..m -> [to : ValidTargets(r, u), what : ChoiceType]]
    BY <2>2 DEF BoundedSeq, SeqOf
  <2> DEFINE S == [to : Users \ {u}, what : ChoiceType]
  <2>a. [to : ValidTargets(r, u), what : ChoiceType] \subseteq S
    BY DEF ValidTargets
  <2>b. m \in Nat
    BY DEF EventConstantsOK, EventConstants
  <2> HIDE DEF S
  <2>c. items \in [1..m -> S]
    BY <2>3, <2>a
  <2>d. items \in Seq(S) /\ Len(items) = m
    BY <2>b, <2>c
  <2>4. /\ items \in Seq([to : Users \ {u}, what : ChoiceType])
        /\ Len(items) = m /\ m \in Nat
    BY <2>b, <2>d DEF S
  <2>5. m # 0
    BY <2>2, <2>3
  <2>6. ListFits(k(items), v(items))
    BY <1>a, <2>4, <2>5 DEF ListFits, AnyObject
  <2> HIDE DEF k, v
  <2> QED
    BY <1>1, <2>1, <2>6 DEF Fits, Choosing
<1>5. ASSUME NEW r \in Rooms, NEW u \in Participants,
             NEW v \in Participants \ {u}, LoadMatch(s, r, u, v)
      PROVE  Good
  <2>1. Fits("store_proposal", Ask("propose", r, u, v), [loaded |-> match[r][{u, v}]])
    BY <1>a DEF Fits, Ask, Choosing
  <2> QED
    BY <1>1, <1>5, <2>1 DEF LoadMatch
<1>6. ASSUME NEW c \in Complaints, LoadReport(s, c) PROVE Good
  <2>1. Fits("store_report", Ask("report", c.room, c.by, c.about), [complaint |-> c])
    BY DEF Fits, Choosing
  <2> QED
    BY <1>1, <1>6, <2>1 DEF LoadReport
<1>7. ASSUME NEW i \in Reports, NEW to \in CLOSED_REPORT_STATUSES, LoadClosing(s, i, to)
      PROVE  Good
  <2>1. Fits("store_closing", Ask("close", "none", NoUser, i), [to |-> to])
    BY DEF Fits, Ask, Choosing
  <2> QED
    BY <1>1, <1>7, <2>1 DEF LoadClosing
<1> HIDE DEF Good
<1>8. ASSUME NEW r \in Rooms, NEW p \in Planners,
             \/ LoadOpenCheckin(s, r, p) \/ LoadStart(s, r, p)
             \/ \E op \in {"next", "end"} : LoadSession(s, op, r, p)
             \/ \E u \in Participants, op \in DOMAIN CheckinFrom : LoadCheckin(s, op, r, u, p)
      PROVE  Good
  <2>1. ASSUME LoadOpenCheckin(s, r, p) PROVE Good
    BY <1>2, <2>1 DEF LoadOpenCheckin, Choosing
  <2>2. ASSUME LoadStart(s, r, p) PROVE Good
    BY <1>2, <2>2 DEF LoadStart, Choosing
  <2>3. ASSUME NEW op, LoadSession(s, op, r, p) PROVE Good
    BY <1>2, <2>3 DEF LoadSession, Choosing
  <2>4. ASSUME NEW u, NEW op, LoadCheckin(s, op, r, u, p) PROVE Good
    BY <1>2, <2>4 DEF LoadCheckin, Choosing
  <2> QED
    BY <1>8, <2>1, <2>2, <2>3, <2>4
<1>9. Good
  BY <1>3, <1>4, <1>5, <1>6, <1>7, <1>8 DEF Arrive
<1> QED
  BY <1>9 DEF Good

(* Three ways the view of a list of choices goes on.                       *)
LEMMA ListGoesOn ==
    ASSUME NEW k, NEW w, ListFits(k, w)
    PROVE  /\ k.items[w.at] \in [to : Users \ {k.user}, what : ChoiceType]
           /\ k.items[w.at].to \in Named(k.items)
           /\ \A o \in AnyObject(ChoiceType) :
                 ListFits(k, [w EXCEPT !.own[k.items[w.at].to] = o])
           /\ \A o \in AnyObject(Statuses) :
                 ListFits(k, [w EXCEPT !.res[k.items[w.at].to] = o])
           /\ ListFits(k, [w EXCEPT !.at = IF @ < Len(k.items) THEN @ + 1 ELSE @])
<1> DEFINE I == [to : Users \ {k.user}, what : ChoiceType]
           N == Named(k.items)
           V == [own : [N -> AnyObject(ChoiceType)],
                 res : [N -> AnyObject(Statuses)], at : 1..Len(k.items)]
           x == k.items[w.at].to
<1>1. k.items \in Seq(I) /\ w \in V
  BY DEF ListFits
<1>2. w.at \in 1..Len(k.items) /\ Len(k.items) \in Nat /\ DOMAIN k.items = 1..Len(k.items)
  BY <1>1
<1>3. k.items[w.at] \in I /\ x \in N
  <2>1. w.at \in DOMAIN k.items
    BY <1>2
  <2>2. x \in N
    BY ONLY <2>1 DEF Named
  <2> HIDE DEF I, N, V
  <2>3. k.items[w.at] \in I
    BY <1>1, <1>2
  <2> QED
    BY <2>2, <2>3
<1> HIDE DEF N, x
<1>4. \A o \in AnyObject(ChoiceType) : [w EXCEPT !.own[x] = o] \in V
  BY <1>1, <1>3
<1>5. \A o \in AnyObject(Statuses) : [w EXCEPT !.res[x] = o] \in V
  BY <1>1, <1>3
<1>6. [w EXCEPT !.at = IF @ < Len(k.items) THEN @ + 1 ELSE @] \in V
  BY <1>1, <1>2
<1>7. ASSUME NEW y, y \in V PROVE ListFits(k, y)
  BY <1>7 DEF ListFits, N
<1> HIDE DEF V
<1> QED
  BY <1>3, <1>4, <1>5, <1>6, <1>7 DEF N, x

LEMMA RematchTyped ==
    ASSUME NEW m \in Statuses, NEW prev, NEW back, NEW c
    PROVE  Rematch(m, prev, back, c) \in Statuses
BY DEF Rematch, Statuses

LEMMA ReadingFits ==
    ASSUME SlotMaps, RequestsInv, NEW s \in Slots, Reading(s)
    PROVE  Fits(pc'[s], task'[s], view'[s]) /\ pc'[s] # "store_feedback"
<1> DEFINE Good == Fits(pc'[s], task'[s], view'[s]) /\ pc'[s] # "store_feedback"
           k == task[s]
<1> SUFFICES Good
  OBVIOUS
<1>1. ASSUME NEW v, NEW where, Proceed(s, v, where),
             where \in {"store_openings", "store_session", "store_advance", "store_end"}
      PROVE  Good
  BY <1>1, ProceedShape DEF Fits, Choosing
<1>2. ASSUME NEW v, NEW where, Proceed(s, v, where), where \in Choosing, ListFits(k, v)
      PROVE  Good
  BY <1>2, ProceedShape DEF Fits, Choosing
<1> HIDE DEF Good
<1>3. CASE ListCheckins(s)
  BY <1>1, <1>3 DEF ListCheckins
<1>4. CASE ReadAttendance(s)
  BY <1>1, <1>4 DEF ReadAttendance
<1>5. CASE ListRounds(s)
  <2> DEFINE where == IF k.op = "next" THEN "store_advance" ELSE "store_end"
             v == [current |-> view[s].current, rows |-> rounds[k.room]]
  <2>1. Proceed(s, v, where)
    BY <1>5 DEF ListRounds
  <2>2. where \in {"store_advance", "store_end"}
    OBVIOUS
  <2> HIDE DEF where, v
  <2> QED
    BY <1>1, <2>1, <2>2
<1>6. AfterItem(s) \in Choosing /\ "read_reverse" \in Choosing /\ "read_match" \in Choosing
  BY DEF AfterItem, Choosing
<1>7. ASSUME pc[s] \in Choosing PROVE ListFits(k, view[s])
  BY <1>7 DEF RequestsInv, Fits
<1>8. ASSUME NEW v, ListFits(k, v) PROVE ListFits(k, NextItem(s, v))
  BY <1>8, ListGoesOn DEF NextItem
<1>9. CASE ReadChoice(s)
  <2> DEFINE x == Item(s).to
             own == view[s].own[x]
             row == choice[k.room][k.user][x]
             object == IF own = Unread THEN [was |-> row, now |-> row] ELSE own
             new == [object EXCEPT !.now = Item(s).what]
             seen == [view[s] EXCEPT !.own[x] = new]
  <2>1. ListFits(k, view[s])
    BY <1>7, <1>9 DEF ReadChoice, Choosing
  <2>2. Item(s) \in [to : Users \ {k.user}, what : ChoiceType] /\ x \in Named(k.items)
    BY <2>1, ListGoesOn DEF Item
  <2>3. own \in AnyObject(ChoiceType) /\ k.room \in Rooms /\ k.user \in Users
    BY <2>1, <2>2 DEF ListFits
  <2>4. row \in ChoiceType \cup {"absent"}
    BY <2>2, <2>3 DEF RequestsInv, RowsTyped, MatchTypeOK
  <2> HIDE DEF own, row
  <2>5. object \in [was : ChoiceType \cup {"absent"}, now : ChoiceType \cup {"absent"}]
    BY <2>3, <2>4 DEF AnyObject
  <2> HIDE DEF object
  <2>6. new \in AnyObject(ChoiceType)
    BY <2>2, <2>5 DEF AnyObject
  <2>7. ListFits(k, seen)
    BY <2>1, <2>6, ListGoesOn DEF Item
  <2>8. \/ Proceed(s, seen, "read_reverse")
        \/ Proceed(s, seen, "read_match")
        \/ Proceed(s, NextItem(s, seen), AfterItem(s))
    BY <1>9 DEF ReadChoice, object, own, row
  <2> HIDE DEF seen
  <2> QED
    BY <1>2, <1>6, <1>8, <2>7, <2>8
<1>10. CASE ReadReverse(s)
  <2>1. ListFits(k, view[s])
    BY <1>7, <1>10 DEF ReadReverse, Choosing
  <2>2. \/ Proceed(s, view[s], "read_match")
        \/ Proceed(s, NextItem(s, view[s]), AfterItem(s))
    BY <1>10 DEF ReadReverse
  <2> QED
    BY <1>2, <1>6, <1>8, <2>1, <2>2
<1>11. CASE ReadMatch(s)
  <2> DEFINE x == Item(s).to
             res == view[s].res[x]
             row == match[k.room][{k.user, x}]
             object == IF res.now \in {"unread", "absent"}
                       THEN [was |-> row, now |-> row] ELSE res
             after == IF Added(res) THEN res
                      ELSE [object EXCEPT !.now =
                               Rematch(@, "interested", "interested", Item(s).what)]
             new == [view[s] EXCEPT !.res[x] = after]
             Record == [was : Statuses, now : Statuses]
  <2>1. ListFits(k, view[s])
    BY <1>7, <1>11 DEF ReadMatch, Choosing
  <2>2. Item(s) \in [to : Users \ {k.user}, what : ChoiceType] /\ x \in Named(k.items)
    BY <2>1, ListGoesOn DEF Item
  <2>3. res \in AnyObject(Statuses) /\ k.room \in Rooms /\ k.user \in Users
    BY <2>1, <2>2 DEF ListFits
  <2>4. row \in Statuses
    BY <2>2, <2>3, PairIn DEF RequestsInv, RowsTyped, MatchStatusInv
  <2> HIDE DEF res, row
  <2>5. object \in Record /\ res \in {Unread} \cup Record
    BY <2>3, <2>4 DEF AnyObject, Unread, Statuses
  <2>6. [object EXCEPT !.now =
            Rematch(@, "interested", "interested", Item(s).what)] \in Record
    <3>1. Rematch(object.now, "interested", "interested", Item(s).what)
             \in Statuses
      <4>1. object.now \in Statuses
        BY <2>5
      <4> HIDE DEF object
      <4> QED
        BY <4>1, RematchTyped
    <3> HIDE DEF object
    <3> QED
      BY <2>5, <3>1
  <2> HIDE DEF object
  <2>7. after \in AnyObject(Statuses)
    BY <2>5, <2>6 DEF AnyObject, Statuses
  <2> HIDE DEF after
  <2>8. ListFits(k, new)
    BY <2>1, <2>7, ListGoesOn DEF Item
  <2>9. Proceed(s, NextItem(s, new), AfterItem(s))
    BY <1>11 DEF ReadMatch, after, object, res, row
  <2> HIDE DEF new
  <2> QED
    BY <1>2, <1>6, <1>8, <2>8, <2>9
<1> QED
  BY <1>3, <1>4, <1>5, <1>9, <1>10, <1>11 DEF Reading

-----------------------------------------------------------------------------
(* Steps that store.                                                       *)

LEMMA ChoicesTyped ==
    ASSUME RequestsInv, NEW s \in Slots, StoreChoices(s) PROVE RowsTyped'
<1> DEFINE k == task[s]
           own == view[s].own
           res == view[s].res
<1>1. ListFits(k, view[s])
  BY DEF StoreChoices, RequestsInv, Fits, Choosing
<1>2. /\ own \in [Named(k.items) -> AnyObject(ChoiceType)]
      /\ res \in [Named(k.items) -> AnyObject(Statuses)]
      /\ k.room \in Rooms /\ k.user \in Users
  BY <1>1 DEF ListFits
<1> HIDE DEF own, res
<1>3. ASSUME NEW T, NEW o \in AnyObject(T), NEW row \in T \cup {"absent"}
      PROVE  Stored(o, row) \in T \cup {"absent"}
  BY DEF AnyObject, Unread, Stored
<1>4. MatchTypeOK /\ MatchStatusInv /\ AftermathTypeOK
  BY DEF RequestsInv, RowsTyped
<1>5. choice' \in [Rooms -> [Users -> [Users -> ChoiceType \cup {"absent"}]]]
  <2> DEFINE before == choice[k.room][k.user]
             row == [v \in Users |-> IF v \in DOMAIN own THEN Stored(own[v], before[v])
                                     ELSE before[v]]
  <2>1. choice' = [choice EXCEPT ![k.room][k.user] = row]
    BY DEF StoreChoices, own
  <2>2. before \in [Users -> ChoiceType \cup {"absent"}]
    BY <1>2, <1>4 DEF MatchTypeOK
  <2> HIDE DEF before
  <2>3. row \in [Users -> ChoiceType \cup {"absent"}]
    BY <1>2, <1>3, <2>2
  <2> HIDE DEF row
  <2> QED
    BY <1>2, <1>4, <2>1, <2>3 DEF MatchTypeOK
<1>6. match' \in [Rooms -> [Pairs -> Statuses]]
  <2> DEFINE before == match[k.room]
             who(pair) == CHOOSE v \in DOMAIN res : pair = {k.user, v}
             row == [pair \in Pairs |->
                       IF \E v \in DOMAIN res : pair = {k.user, v}
                       THEN Stored(res[who(pair)], before[pair])
                       ELSE before[pair]]
  <2>1. match' = [match EXCEPT ![k.room] = row]
    BY DEF StoreChoices, res
  <2>2. before \in [Pairs -> Statuses]
    BY <1>2, <1>4 DEF MatchStatusInv
  <2>3. ASSUME NEW pair \in Pairs, \E v \in DOMAIN res : pair = {k.user, v}
        PROVE  who(pair) \in DOMAIN res
    BY <2>3
  <2> HIDE DEF before, who
  <2>4. row \in [Pairs -> Statuses]
    BY <1>2, <1>3, <2>2, <2>3 DEF Statuses
  <2> HIDE DEF row
  <2> QED
    BY <1>2, <1>4, <2>1, <2>4 DEF MatchStatusInv
<1>7. match' \in [Rooms -> [Pairs -> MatchStatus \cup {"absent"}]]
  <2>1. Statuses \subseteq MatchStatus \cup {"absent"}
    BY DEF Statuses, MatchStatus
  <2> QED
    BY <1>6, <2>1
<1>8. UNCHANGED <<proposers, feedback, report>>
  BY DEF StoreChoices, aftermathVars
<1> QED
  BY <1>4, <1>5, <1>6, <1>7, <1>8
  DEF RowsTyped, MatchTypeOK, MatchStatusInv, AftermathTypeOK

LEMMA ProposalTyped ==
    ASSUME RequestsInv, NEW s \in Slots, StoreProposal(s) PROVE RowsTyped'
<1> DEFINE k == task[s]
           pair == {k.user, k.other}
<1>1. k.room \in Rooms /\ k.user \in Users /\ k.other \in Users \ {k.user}
  BY DEF StoreProposal, RequestsInv, Fits
<1>2. pair \in Pairs
  BY <1>1, PairIn
<1>3. MatchTypeOK /\ MatchStatusInv /\ AftermathTypeOK
  BY DEF RequestsInv, RowsTyped
<1>4. /\ proposers' = [proposers EXCEPT ![k.room][pair] = @ \cup {k.user}]
      /\ match' = [match EXCEPT ![k.room][pair] =
            IF view[s].loaded = "mutual" THEN "after_proposed" ELSE @]
      /\ UNCHANGED <<choice, feedback, report>>
  BY DEF StoreProposal, aftermathVars
<1> HIDE DEF pair
<1>5. proposers' \in [Rooms -> [Pairs -> SUBSET Users]]
  BY <1>1, <1>2, <1>3, <1>4 DEF MatchTypeOK
<1>6. match' \in [Rooms -> [Pairs -> Statuses]]
  BY <1>1, <1>2, <1>3, <1>4 DEF MatchStatusInv, Statuses
<1> QED
  BY <1>3, <1>4, <1>5, <1>6 DEF RowsTyped, MatchTypeOK, MatchStatusInv, Statuses,
     MatchStatus, AftermathTypeOK

LEMMA ReportsTyped ==
    ASSUME EventConstantsOK, RequestsInv, NEW s \in Slots,
           StoreReport(s) \/ StoreClosing(s)
    PROVE  RowsTyped' /\ UNCHANGED feedback
<1>1. MatchTypeOK /\ MatchStatusInv /\ AftermathTypeOK
  BY DEF RequestsInv, RowsTyped
<1>2. UNCHANGED <<choice, match, proposers, feedback>>
  BY DEF StoreReport, StoreClosing, allMatchVars, matchVars
<1> DEFINE Row == [status : ReportStatus \cup {"none"}, by : Users \cup {NoUser},
                   about : Users \cup {NoUser}, room : Rooms \cup {"none"}]
<1>3. report \in [Reports -> Row]
  BY <1>1 DEF AftermathTypeOK
<1>4. report' \in [Reports -> Row]
  <2>1. CASE StoreReport(s)
    <3>1. view[s].complaint \in Complaints
      BY <2>1 DEF StoreReport, RequestsInv, Fits
    <3>2. Filed(view[s].complaint) \in Row
      BY <3>1 DEF Filed, EventConstantsOK, AftermathConstants, ReportStatus
    <3>3. PICK i \in Reports : report' = [report EXCEPT ![i] = Filed(view[s].complaint)]
      BY <2>1 DEF StoreReport
    <3> QED
      BY <1>3, <3>2, <3>3
  <2>2. CASE StoreClosing(s)
    <3>1. view[s].to \in ReportStatus /\ task[s].other \in Reports
      BY <2>2 DEF StoreClosing, RequestsInv, Fits, CLOSED_REPORT_STATUSES, ReportStatus
    <3> QED
      BY <1>3, <2>2, <3>1 DEF StoreClosing
  <2> QED
    BY <2>1, <2>2
<1> QED
  BY <1>1, <1>2, <1>4 DEF RowsTyped, MatchTypeOK, MatchStatusInv, AftermathTypeOK

(* The rows a storing step may touch are typed; feedback changes in one.   *)
LEMMA StoringTyped ==
    ASSUME EventConstantsOK, SlotMaps, RequestsInv, NEW s \in Slots, Storing(s)
    PROVE  RowsTyped' /\ (StoreFeedback(s) \/ UNCHANGED feedback)
<1>1. MatchTypeOK /\ MatchStatusInv /\ AftermathTypeOK
  BY DEF RequestsInv, RowsTyped
<1>2. ASSUME UNCHANGED <<matchVars, aftermathVars>> PROVE RowsTyped' /\ UNCHANGED feedback
  BY <1>1, <1>2 DEF matchVars, aftermathVars, RowsTyped, MatchTypeOK, MatchStatusInv,
                    AftermathTypeOK
<1>3. CASE StoreOpenings(s) \/ StoreCheckin(s)
  BY <1>2, <1>3 DEF StoreOpenings, StoreCheckin
<1>4. CASE StoreSession(s) \/ StoreAdvance(s) \/ StoreEnd(s)
  BY <1>2, <1>4 DEF StoreSession, StoreAdvance, StoreEnd
<1>5. CASE StoreChoices(s)
  BY <1>5, ChoicesTyped DEF StoreChoices, aftermathVars
<1>6. CASE StoreProposal(s)
  BY <1>6, ProposalTyped DEF StoreProposal, aftermathVars
<1>7. CASE StoreFeedback(s)
  <2>1. feedback' \in [Rooms -> [Users -> Nat]]
    BY <1>7, SubmittedFeedback DEF EventConstantsOK
  <2>2. UNCHANGED <<choice, match, proposers, report>>
    BY <1>7 DEF StoreFeedback, allMatchVars, matchVars
  <2> QED
    BY <1>1, <1>7, <2>1, <2>2 DEF RowsTyped, MatchTypeOK, MatchStatusInv, AftermathTypeOK
<1>8. CASE StoreReport(s) \/ StoreClosing(s)
  BY <1>8, ReportsTyped
<1> QED
  BY <1>3, <1>4, <1>5, <1>6, <1>7, <1>8 DEF Storing

-----------------------------------------------------------------------------
(* Any step.                                                               *)

LEMMA RequestsStep ==
    ASSUME EventConstantsOK, StoryInv, RequestsInv, [EventNext]_allEventVars
    PROVE  RequestsInv'
<1>1. SlotMaps
  BY DEF StoryInv
<1>2. /\ \A r \in Rooms : feedback[r] \in [Users -> Nat]
      /\ feedback \in [Rooms -> [Users -> Nat]]
  BY DEF RequestsInv, RowsTyped, AftermathTypeOK
<1>3. ASSUME UNCHANGED <<matchVars, aftermathVars>> PROVE RowsTyped' /\ UNCHANGED feedback
  BY <1>3 DEF RequestsInv, matchVars, aftermathVars, RowsTyped, MatchTypeOK,
              MatchStatusInv, AftermathTypeOK
<1>4. ASSUME NEW s \in Slots, Others(s), Fits(pc'[s], task'[s], view'[s])
      PROVE  \A t \in Slots : Fits(pc'[t], task'[t], view'[t])
  BY <1>4 DEF Others, RequestsInv
(* A slot that goes on: it submits no feedback, or the first of a guest.   *)
<1>5. ASSUME NEW s \in Slots, Others(s), Fits(pc'[s], task'[s], view'[s]),
             RowsTyped', UNCHANGED feedback,
             pc'[s] = "store_feedback" =>
                \A r \in Rooms, u \in Users :
                   task'[s].room = r /\ task'[s].user = u => feedback[r][u] = 0
      PROVE  RequestsInv'
  <2>1. ASSUME NEW r \in Rooms, NEW u \in Users
        PROVE  \/ Submitting(pc', task', r, u) \subseteq Submitting(pc, task, r, u)
               \/ feedback[r][u] = 0
    BY <1>5 DEF Submitting, Others
  <2>2. FeedbackBounded(feedback, pc', task')
    BY <1>2, <2>1, FewerSubmitting DEF RequestsInv, EventConstantsOK
  <2>3. FeedbackBounded(feedback', pc', task')
    BY <1>5, <2>2
  <2>4. \A t \in Slots : Fits(pc'[t], task'[t], view'[t])
    BY <1>4, <1>5
  <2> QED
    BY <1>5, <2>3, <2>4 DEF RequestsInv
<1>6. ASSUME NEW s \in Slots, Arrive(s) PROVE RequestsInv'
  <2>1. UNCHANGED allAftermathVars /\ Others(s)
    BY <1>6, ArriveUnderway
  <2>2. RowsTyped' /\ UNCHANGED feedback
    BY <1>3, <2>1 DEF allAftermathVars, allMatchVars
  <2> QED
    BY <1>1, <1>5, <1>6, <2>1, <2>2, ArriveFits
<1>7. ASSUME NEW s \in Slots, Reading(s) PROVE RequestsInv'
  <2>1. UNCHANGED allAftermathVars /\ Others(s)
    BY <1>7, ReadingUnderway
  <2>2. RowsTyped' /\ UNCHANGED feedback
    BY <1>3, <2>1 DEF allAftermathVars, allMatchVars
  <2> QED
    BY <1>1, <1>5, <1>7, <2>1, <2>2, ReadingFits
<1>8. ASSUME NEW s \in Slots, Finish(s)
      PROVE  Others(s) /\ Fits(pc'[s], task'[s], view'[s]) /\ pc'[s] # "store_feedback"
  BY <1>1, <1>8, FinishShape DEF Others, Fits, Choosing
<1>9. ASSUME NEW s \in Slots, Storing(s) PROVE RequestsInv'
  <2>1. Finish(s)
    BY <1>9, StoringKinds
  <2>2. RowsTyped' /\ (StoreFeedback(s) \/ UNCHANGED feedback)
    BY <1>1, <1>9, StoringTyped
  <2>3. CASE StoreFeedback(s)
    <3>1. FeedbackBounded(feedback', pc', task')
      BY <1>1, <2>3, SubmittedFeedback DEF EventConstantsOK
    <3>2. \A t \in Slots : Fits(pc'[t], task'[t], view'[t])
      BY <1>4, <1>8, <2>1
    <3> QED
      BY <2>2, <3>1, <3>2 DEF RequestsInv
  <2>4. CASE UNCHANGED feedback
    BY <1>5, <1>8, <2>1, <2>2, <2>4
  <2> QED
    BY <2>2, <2>3, <2>4
<1>10. ASSUME NEW s \in Slots, Fail(s) PROVE RequestsInv'
  <2>1. Finish(s) /\ RowsTyped' /\ UNCHANGED feedback
    BY <1>3, <1>10 DEF Fail, allAftermathVars, allMatchVars
  <2> QED
    BY <1>5, <1>8, <2>1
<1>11. ASSUME UNCHANGED <<matchVars, aftermathVars, pc, task, view>> PROVE RequestsInv'
  <2>1. RowsTyped' /\ UNCHANGED <<feedback, pc, task, view>>
    BY <1>3, <1>11
  <2>2. FeedbackBounded(feedback', pc', task')
    BY <2>1 DEF RequestsInv
  <2> QED
    BY <2>1, <2>2 DEF RequestsInv
<1>12. CASE Background
  BY <1>11, <1>12 DEF Background
<1>13. CASE UNCHANGED allEventVars
  BY <1>11, <1>13 DEF allEventVars, allAftermathVars, allMatchVars, eventRequestVars
<1> QED
  BY <1>6, <1>7, <1>9, <1>10, <1>12, <1>13 DEF EventNext

LEMMA TouchedTyped ==
    ASSUME touched \in [Slots -> BOOLEAN], [EventNext]_allEventVars
    PROVE  touched' \in [Slots -> BOOLEAN]
<1>1. CASE Remember
  BY <1>1, Zenon DEF Remember
<1>2. CASE UNCHANGED allEventVars
  BY <1>2 DEF allEventVars, eventRequestVars
<1> QED
  BY <1>1, <1>2 DEF EventNext

LEMMA InitRequests ==
    ASSUME EventConstantsOK, MatchInit, AftermathInit, EventRequestInit
    PROVE  RequestsInv /\ touched \in [Slots -> BOOLEAN]
<1>1. MatchTypeOK /\ MatchStatusInv
  BY DEF MatchInit, MatchTypeOK, MatchStatusInv, Statuses
<1>2. AftermathTypeOK
  BY DEF AftermathInit, AftermathTypeOK, NoReport
<1>3. \A s \in Slots : Fits(pc[s], task[s], view[s])
  BY DEF EventRequestInit, Fits, Choosing
<1>4. FeedbackBounded(feedback, pc, task)
  <2>1. ASSUME NEW r \in Rooms, NEW u \in Users
        PROVE  feedback[r][u] = 0 /\ Submitting(pc, task, r, u) = {}
    BY DEF AftermathInit, EventRequestInit, Submitting
  <2>2. Cardinality({}) = 0 /\ Cardinality(Slots) \in Nat
    BY FS_EmptySet, FS_CardinalityType DEF EventConstantsOK, EventConstants
  <2>3. \A n \in Nat : 0 + 0 <= n
    OBVIOUS
  <2> QED
    BY <2>1, <2>2, <2>3 DEF FeedbackBounded
<1>5. touched \in [Slots -> BOOLEAN]
  BY DEF EventRequestInit
<1> QED
  BY <1>1, <1>2, <1>3, <1>4, <1>5 DEF RequestsInv, RowsTyped

LEMMA FeedbackPerSlot ==
    ASSUME EventConstantsOK, RequestsInv
    PROVE  \A r \in Rooms, u \in Users : feedback[r][u] <= Cardinality(Slots)
<1> SUFFICES ASSUME NEW r \in Rooms, NEW u \in Users
             PROVE  feedback[r][u] <= Cardinality(Slots)
  OBVIOUS
<1> DEFINE A == Submitting(pc, task, r, u)
<1>1. /\ feedback[r][u] \in Nat
      /\ feedback[r][u] + Cardinality(A) <= Cardinality(Slots)
  BY DEF RequestsInv, RowsTyped, AftermathTypeOK, FeedbackBounded
<1>2. A \subseteq Slots /\ IsFiniteSet(Slots)
  BY DEF Submitting, EventConstantsOK, EventConstants
<1> HIDE DEF A
<1>3. Cardinality(A) \in Nat /\ Cardinality(Slots) \in Nat
  BY <1>2, FS_Subset, FS_CardinalityType
<1> QED
  BY ONLY <1>1, <1>3

(* For any number of requests in flight: choices, matches, proposals and   *)
(* reports are rows the tables can hold, and a guest has at most as many   *)
(* feedbacks for a room as there are requests at once, those still to be   *)
(* stored included.                                                        *)
THEOREM EventRequestTypeCorrect ==
    ASSUME RoomConstants, AftermathConstants, EventConstants
    PROVE  EventSpec => []EventRequestTypeOK
<1> DEFINE IInv == RequestsInv /\ touched \in [Slots -> BOOLEAN]
<1>1. EventConstantsOK
  BY DEF EventConstantsOK
<1>2. MatchInit /\ AftermathInit /\ EventRequestInit => IInv
  BY <1>1, InitRequests
<1>3. StoryInv /\ IInv /\ [EventNext]_allEventVars => IInv'
  BY <1>1, RequestsStep, TouchedTyped
<1>4. IInv => EventRequestTypeOK
  BY <1>1, FeedbackPerSlot DEF EventRequestTypeOK, RequestsInv, RowsTyped
<1> HIDE DEF IInv
<1> QED
  BY <1>2, <1>3, <1>4, StoryAlways, PTL DEF EventSpec

-----------------------------------------------------------------------------
(* What a request for choices has in hand if nothing has changed under it  *)
(* and it names nobody twice: for each item it has passed, what it has     *)
(* read is still there.  p, k and w are what pc, task and view have for    *)
(* one slot, c and m the choices and the matches.                          *)

OwnSeen(k, w, c, j) ==
    w.own[k.items[j].to] = [was |-> c[k.room][k.user][k.items[j].to],
                            now |-> k.items[j].what]

(* The request looks at the match if it makes or ends one.                 *)
Looks(k, c, j) ==
    \/ /\ k.items[j].what = "interested"
       /\ c[k.room][k.items[j].to][k.user] = "interested"
    \/ /\ k.items[j].what # "interested"
       /\ c[k.room][k.user][k.items[j].to] = "interested"

ResSeen(k, w, c, m, j) ==
    w.res[k.items[j].to] =
        IF Looks(k, c, j)
        THEN [was |-> m[k.room][{k.user, k.items[j].to}],
              now |-> Rematch(m[k.room][{k.user, k.items[j].to}],
                              "interested", "interested", k.items[j].what)]
        ELSE Unread

ListSeen(p, k, w, c, m) ==
    /\ \A j \in DOMAIN k.items :
          IF j < w.at \/ p = "store_choices"
          THEN OwnSeen(k, w, c, j) /\ ResSeen(k, w, c, m, j)
          ELSE /\ w.res[k.items[j].to] = Unread
               /\ IF j = w.at /\ p # "read_choice"
                  THEN OwnSeen(k, w, c, j)
                  ELSE w.own[k.items[j].to] = Unread
    /\ p = "read_reverse" => k.items[w.at].what = "interested"
    /\ p = "read_match" => Looks(k, c, w.at)

SeenInv ==
    \A s \in Slots : ~touched[s] =>
        /\ pc[s] \in Choosing /\ ~NamesTwice(task[s].items) =>
              ListSeen(pc[s], task[s], view[s], choice, match)
        /\ pc[s] = "store_proposal" =>
              match[task[s].room][{task[s].user, task[s].other}] = view[s].loaded

SameElse(k, w, v) ==
    \A j \in DOMAIN k.items \ {w.at} :
        /\ v.own[k.items[j].to] = w.own[k.items[j].to]
        /\ v.res[k.items[j].to] = w.res[k.items[j].to]

LEMMA FootprintOfChoices ==
    ASSUME NEW s, task[s].op = "choose", task'[s] = task[s],
           Footprint(s)' = Footprint(s), NEW x \in Named(task[s].items)
    PROVE  LET r == task[s].room
               u == task[s].user
           IN  /\ choice'[r][u][x] = choice[r][u][x]
               /\ choice'[r][x][u] = choice[r][x][u]
               /\ match'[r][{u, x}] = match[r][{u, x}]
<1> DEFINE r == task[s].room
           u == task[s].user
           N == Named(task[s].items)
           seen == [v \in N |-> <<choice[r][u][v], choice[r][v][u],
                      match[r][{u, v}], v \in ValidTargets(r, u)>>]
           now == [v \in N |-> <<choice'[r][u][v], choice'[r][v][u],
                      match'[r][{u, v}], v \in ValidTargets(r, u)'>>]
           before == <<Active(u), status[r], Attended(r, u), seen>>
           after == <<Active(u)', status'[r], Attended(r, u)', now>>
<1>1. Footprint(s) = before
  BY DEF Footprint
<1>2. Footprint(s)' = after
  BY DEF Footprint
<1>3. /\ seen[x] = <<choice[r][u][x], choice[r][x][u], match[r][{u, x}],
                      x \in ValidTargets(r, u)>>
      /\ now[x] = <<choice'[r][u][x], choice'[r][x][u], match'[r][{u, x}],
                     x \in ValidTargets(r, u)'>>
  OBVIOUS
<1> HIDE DEF seen, now
<1>4. before[4] = seen /\ after[4] = now
  OBVIOUS
<1> HIDE DEF before, after
<1>5. seen = now
  BY <1>1, <1>2, <1>4
<1> QED
  BY <1>3, <1>5

LEMMA FootprintOfProposal ==
    ASSUME NEW s, task[s].op = "propose", task'[s] = task[s],
           Footprint(s)' = Footprint(s)
    PROVE  LET r == task[s].room
               pair == {task[s].user, task[s].other}
           IN  match'[r][pair] = match[r][pair]
<1> DEFINE r == task[s].room
           u == task[s].user
           x == task[s].other
<1>1. Footprint(s) = <<Active(u), match[r][{u, x}]>>
  BY DEF Footprint
<1>2. Footprint(s)' = <<Active(u)', match'[r][{u, x}]>>
  BY DEF Footprint
<1> QED
  BY <1>1, <1>2

-----------------------------------------------------------------------------
(* One item of the list at a time.                                         *)

AtItem == {"read_choice", "read_reverse", "read_match"}

LEMMA ItemDone ==
    ASSUME NEW p \in AtItem, NEW k, NEW w, NEW v, NEW c, NEW m,
           ListFits(k, w), ListSeen(p, k, w, c, m), SameElse(k, w, v),
           OwnSeen(k, v, c, w.at), ResSeen(k, v, c, m, w.at),
           v.at = IF w.at < Len(k.items) THEN w.at + 1 ELSE w.at
    PROVE  ListSeen(IF w.at < Len(k.items) THEN "read_choice" ELSE "store_choices",
                    k, v, c, m)
<1> DEFINE q == IF w.at < Len(k.items) THEN "read_choice" ELSE "store_choices"
<1>1. w.at \in 1..Len(k.items) /\ DOMAIN k.items = 1..Len(k.items) /\ Len(k.items) \in Nat
  BY DEF ListFits
<1>2. ASSUME NEW j \in DOMAIN k.items, j < w.at
      PROVE  OwnSeen(k, v, c, j) /\ ResSeen(k, v, c, m, j)
  <2>1. OwnSeen(k, w, c, j) /\ ResSeen(k, w, c, m, j)
    BY <1>2 DEF ListSeen
  <2>2. j # w.at
    BY <1>1, <1>2
  <2> QED
    BY <2>1, <2>2 DEF SameElse, OwnSeen, ResSeen
<1>3. ASSUME NEW j \in DOMAIN k.items, j > w.at
      PROVE  v.own[k.items[j].to] = Unread /\ v.res[k.items[j].to] = Unread
  <2>1. ~(j < w.at) /\ j # w.at /\ p # "store_choices"
    BY <1>1, <1>3 DEF AtItem
  <2>2. w.own[k.items[j].to] = Unread /\ w.res[k.items[j].to] = Unread
    BY <2>1 DEF ListSeen
  <2> QED
    BY <2>1, <2>2 DEF SameElse
<1>4. q # "read_reverse" /\ q # "read_match"
  OBVIOUS
<1>5. CASE w.at < Len(k.items)
  <2>1. q = "read_choice" /\ v.at = w.at + 1
    BY <1>5
  <2>2. ASSUME NEW j \in DOMAIN k.items
        PROVE  IF j < v.at THEN OwnSeen(k, v, c, j) /\ ResSeen(k, v, c, m, j)
               ELSE v.own[k.items[j].to] = Unread /\ v.res[k.items[j].to] = Unread
    <3>1. j < w.at \/ j = w.at \/ j > w.at
      BY <1>1
    <3>2. j < v.at <=> j < w.at \/ j = w.at
      BY <1>1, <2>1
    <3> QED
      BY <1>2, <1>3, <3>1, <3>2
  <2> HIDE DEF q
  <2> QED
    BY <1>4, <2>1, <2>2 DEF ListSeen, q
<1>6. CASE ~(w.at < Len(k.items))
  <2>1. q = "store_choices" /\ w.at = Len(k.items)
    BY <1>1, <1>6
  <2>2. ASSUME NEW j \in DOMAIN k.items
        PROVE  OwnSeen(k, v, c, j) /\ ResSeen(k, v, c, m, j)
    <3>1. j < w.at \/ j = w.at
      BY <1>1, <2>1
    <3> QED
      BY <1>2, <3>1
  <2> HIDE DEF q
  <2> QED
    BY <1>4, <2>1, <2>2 DEF ListSeen, q
<1> QED
  BY <1>5, <1>6

LEMMA ItemGoesOn ==
    ASSUME NEW p \in AtItem, NEW q \in {"read_reverse", "read_match"},
           NEW k, NEW w, NEW v, NEW c, NEW m,
           ListFits(k, w), ListSeen(p, k, w, c, m), SameElse(k, w, v),
           v.at = w.at, OwnSeen(k, v, c, w.at), v.res[k.items[w.at].to] = Unread,
           q = "read_reverse" => k.items[w.at].what = "interested",
           q = "read_match" => Looks(k, c, w.at)
    PROVE  ListSeen(q, k, v, c, m)
<1>1. w.at \in 1..Len(k.items) /\ DOMAIN k.items = 1..Len(k.items) /\ Len(k.items) \in Nat
  BY DEF ListFits
<1>2. ASSUME NEW j \in DOMAIN k.items
      PROVE  IF j < w.at THEN OwnSeen(k, v, c, j) /\ ResSeen(k, v, c, m, j)
             ELSE /\ v.res[k.items[j].to] = Unread
                  /\ IF j = w.at THEN OwnSeen(k, v, c, j)
                                 ELSE v.own[k.items[j].to] = Unread
  <2>1. CASE j = w.at
    BY <1>1, <2>1
  <2>2. CASE j # w.at
    <3>1. IF j < w.at THEN OwnSeen(k, w, c, j) /\ ResSeen(k, w, c, m, j)
          ELSE w.res[k.items[j].to] = Unread /\ w.own[k.items[j].to] = Unread
      BY <2>2 DEF ListSeen, AtItem
    <3> QED
      BY <2>2, <3>1 DEF SameElse, OwnSeen, ResSeen
  <2> QED
    BY <2>1, <2>2
<1> QED
  BY <1>2 DEF ListSeen

(* Whom a list without repetitions names elsewhere is somebody else.       *)
LEMMA NamedApart ==
    ASSUME NEW k, NEW w, ListFits(k, w), ~NamesTwice(k.items),
           NEW j \in DOMAIN k.items \ {w.at}
    PROVE  /\ k.items[j].to # k.items[w.at].to
           /\ k.items[j].to \in Named(k.items)
<1>1. w.at \in 1..Len(k.items) /\ DOMAIN k.items = 1..Len(k.items) /\ Len(k.items) \in Nat
  BY DEF ListFits
<1>2. j < w.at \/ w.at < j
  BY <1>1
<1> QED
  BY <1>1, <1>2 DEF NamesTwice, Named

PutOwn(k, w, o) == [w EXCEPT !.own[k.items[w.at].to] = o]

PutRes(k, w, o) == [w EXCEPT !.res[k.items[w.at].to] = o]

(* How the objects of the item in hand change.                             *)
LEMMA ObjectChanged ==
    ASSUME NEW k, NEW w, ListFits(k, w), ~NamesTwice(k.items), NEW o
    PROVE  LET x == k.items[w.at].to
               a == PutOwn(k, w, o)
               b == PutRes(k, w, o)
           IN  /\ a.own[x] = o /\ a.res = w.res /\ a.at = w.at /\ SameElse(k, w, a)
               /\ b.res[x] = o /\ b.own = w.own /\ b.at = w.at /\ SameElse(k, w, b)
<1> DEFINE x == k.items[w.at].to
           a == PutOwn(k, w, o)
           b == PutRes(k, w, o)
<1>1. /\ w \in [own : [Named(k.items) -> AnyObject(ChoiceType)],
                res : [Named(k.items) -> AnyObject(Statuses)],
                at : 1..Len(k.items)]
      /\ x \in Named(k.items)
  BY ListGoesOn DEF ListFits
<1>a. a = [w EXCEPT !.own[x] = o] /\ b = [w EXCEPT !.res[x] = o]
  BY DEF PutOwn, PutRes
<1> HIDE DEF a, b, x
<1>2. /\ a.own[x] = o /\ a.res = w.res /\ a.at = w.at
      /\ b.res[x] = o /\ b.own = w.own /\ b.at = w.at
  BY <1>1, <1>a
<1>3. \A y \in Named(k.items) \ {x} : a.own[y] = w.own[y] /\ b.res[y] = w.res[y]
  BY <1>1, <1>a
<1>4. \A j \in DOMAIN k.items \ {w.at} : k.items[j].to \in Named(k.items) \ {x}
  BY NamedApart DEF x
<1>5. SameElse(k, w, a) /\ SameElse(k, w, b)
  BY <1>2, <1>3, <1>4 DEF SameElse
<1> QED
  BY <1>2, <1>5 DEF a, b, x

LEMMA NextItemShape ==
    ASSUME NEW s, NEW k, NEW w, task[s] = k, ListFits(k, w)
    PROVE  LET v == NextItem(s, w)
           IN  /\ v.own = w.own /\ v.res = w.res
               /\ v.at = IF w.at < Len(k.items) THEN w.at + 1 ELSE w.at
<1>1. w \in [own : [Named(k.items) -> AnyObject(ChoiceType)],
             res : [Named(k.items) -> AnyObject(Statuses)], at : 1..Len(k.items)]
  BY DEF ListFits
<1> QED
  BY <1>1 DEF NextItem

LEMMA ReadingSeen ==
    ASSUME SlotMaps, RequestsInv, NEW s \in Slots, Reading(s), pc'[s] \in Choosing,
           pc[s] \in Choosing /\ ~NamesTwice(task[s].items) =>
              ListSeen(pc[s], task[s], view[s], choice, match),
           ~NamesTwice(task[s].items)
    PROVE  ListSeen(pc'[s], task[s], view'[s], choice, match)
<1> DEFINE k == task[s]
           w == view[s]
           x == k.items[w.at].to
           what == k.items[w.at].what
           next == IF w.at < Len(k.items) THEN "read_choice" ELSE "store_choices"
           Good == ListSeen(pc'[s], k, view'[s], choice, match)
<1>1. ReadChoice(s) \/ ReadReverse(s) \/ ReadMatch(s)
  <2>1. ASSUME NEW v, NEW where, Proceed(s, v, where),
               where \in {"store_openings", "store_session", "store_advance", "store_end"}
        PROVE  FALSE
    BY <2>1, ProceedShape DEF Choosing
  <2>2. ~ListCheckins(s)
    BY <2>1 DEF ListCheckins
  <2>3. ~ReadAttendance(s)
    BY <2>1 DEF ReadAttendance
  <2>4. ~ListRounds(s)
    <3> DEFINE where == IF k.op = "next" THEN "store_advance" ELSE "store_end"
               v == [current |-> w.current, rows |-> rounds[k.room]]
    <3>1. ListRounds(s) => Proceed(s, v, where)
      BY DEF ListRounds
    <3>2. where \in {"store_advance", "store_end"}
      OBVIOUS
    <3> HIDE DEF where, v
    <3> QED
      BY <2>1, <3>1, <3>2
  <2> QED
    BY <2>2, <2>3, <2>4 DEF Reading
<1>2. pc[s] \in AtItem
  BY <1>1 DEF ReadChoice, ReadReverse, ReadMatch, AtItem
<1>3. ListFits(k, w) /\ ListSeen(pc[s], k, w, choice, match)
  BY <1>2 DEF RequestsInv, Fits, AtItem, Choosing
<1>4. /\ Item(s) = k.items[w.at] /\ AfterItem(s) = next
      /\ w.at \in DOMAIN k.items /\ ~(w.at < w.at)
  BY <1>3 DEF Item, AfterItem, ListFits
(* The item is done, with the objects of v.                                *)
<1>5. ASSUME NEW v, Proceed(s, NextItem(s, v), AfterItem(s)), ListFits(k, v),
             v.at = w.at, SameElse(k, w, v),
             OwnSeen(k, v, choice, w.at), ResSeen(k, v, choice, match, w.at)
      PROVE  Good
  <2> DEFINE u == NextItem(s, v)
  <2>1. /\ u.own = v.own /\ u.res = v.res
        /\ u.at = IF w.at < Len(k.items) THEN w.at + 1 ELSE w.at
    BY <1>5, NextItemShape
  <2>2. pc'[s] = next /\ view'[s] = u
    BY <1>4, <1>5, ProceedShape
  <2> HIDE DEF u
  <2>3. /\ SameElse(k, w, u) /\ OwnSeen(k, u, choice, w.at)
        /\ ResSeen(k, u, choice, match, w.at)
    BY <1>5, <2>1 DEF SameElse, OwnSeen, ResSeen
  <2>4. ListSeen(next, k, u, choice, match)
    BY <1>2, <1>3, <2>1, <2>3, ItemDone
  <2> QED
    BY <2>2, <2>4
(* It goes on to another statement.                                        *)
<1>6. ASSUME NEW v, NEW q \in {"read_reverse", "read_match"}, Proceed(s, v, q),
             v.at = w.at, SameElse(k, w, v),
             OwnSeen(k, v, choice, w.at), v.res[x] = Unread,
             q = "read_reverse" => what = "interested",
             q = "read_match" => Looks(k, choice, w.at)
      PROVE  Good
  <2>1. ListSeen(q, k, v, choice, match)
    BY <1>2, <1>3, <1>6, ItemGoesOn
  <2> QED
    BY <1>6, <2>1, ProceedShape
<1>7. CASE ReadChoice(s)
  <2> DEFINE own == w.own[x]
             row == choice[k.room][k.user][x]
             object == IF own = Unread THEN [was |-> row, now |-> row] ELSE own
             new == [object EXCEPT !.now = what]
             seen == PutOwn(k, w, new)
  <2>1. /\ \/ what = "interested" /\ Proceed(s, seen, "read_reverse")
           \/ /\ what # "interested" /\ object.now = "interested"
              /\ Proceed(s, seen, "read_match")
           \/ /\ "interested" \notin {what, object.now}
              /\ Proceed(s, NextItem(s, seen), AfterItem(s))
        /\ pc[s] = "read_choice"
    BY <1>7 DEF ReadChoice, Item, PutOwn
  <2>a. pc[s] = "read_choice"
    BY <2>1
  <2> HIDE DEF x, what
  <2>2. own = Unread /\ w.res[x] = Unread
    BY <1>3, <1>4, <2>a DEF ListSeen, x
  <2> HIDE DEF own, row
  <2>3. object.now = row /\ new = [was |-> row, now |-> what]
    BY <2>2
  <2> USE DEF x, what, row
  <2>4. row \in ChoiceType \cup {"absent"} /\ what \in ChoiceType
    <3>1. k.room \in Rooms /\ k.user \in Users
      BY <1>3 DEF ListFits
    <3>2. x \in Users /\ what \in ChoiceType
      BY <1>3, ListGoesOn
    <3> HIDE DEF x, what
    <3> QED
      BY <3>1, <3>2 DEF RequestsInv, RowsTyped, MatchTypeOK
  <2>5. new \in AnyObject(ChoiceType)
    BY <2>3, <2>4 DEF AnyObject
  <2> HIDE DEF new
  <2>6. /\ seen.own[x] = new /\ seen.res = w.res /\ seen.at = w.at
        /\ SameElse(k, w, seen)
    BY <1>3, ObjectChanged
  <2>7. ListFits(k, seen)
    BY <1>3, <2>5, ListGoesOn DEF PutOwn
  <2> HIDE DEF seen, object
  <2>8. OwnSeen(k, seen, choice, w.at) /\ seen.res[x] = Unread
    BY <2>2, <2>3, <2>6 DEF OwnSeen
  <2>9. Looks(k, choice, w.at) <=>
           \/ what = "interested" /\ choice[k.room][x][k.user] = "interested"
           \/ what # "interested" /\ row = "interested"
    BY DEF Looks
  <2>10. CASE what = "interested" /\ Proceed(s, seen, "read_reverse")
    BY <1>6, <2>6, <2>8, <2>10
  <2>11. CASE /\ what # "interested" /\ object.now = "interested"
              /\ Proceed(s, seen, "read_match")
    BY <1>6, <2>3, <2>6, <2>8, <2>9, <2>11
  <2>12. CASE /\ "interested" \notin {what, object.now}
              /\ Proceed(s, NextItem(s, seen), AfterItem(s))
    <3>1. ResSeen(k, seen, choice, match, w.at)
      BY <2>3, <2>8, <2>9, <2>12 DEF ResSeen
    <3> QED
      BY <1>5, <2>6, <2>7, <2>8, <2>12, <3>1
  <2> QED
    BY <2>1, <2>10, <2>11, <2>12
<1>8. ASSUME pc[s] \in {"read_reverse", "read_match"}
      PROVE  /\ OwnSeen(k, w, choice, w.at) /\ w.res[x] = Unread
             /\ SameElse(k, w, w)
             /\ pc[s] = "read_reverse" => what = "interested"
             /\ pc[s] = "read_match" => Looks(k, choice, w.at)
  BY <1>3, <1>4, <1>8 DEF ListSeen, SameElse
<1>9. CASE ReadReverse(s)
  <2>1. /\ pc[s] = "read_reverse"
        /\ IF choice[k.room][x][k.user] = "interested"
           THEN Proceed(s, w, "read_match")
           ELSE Proceed(s, NextItem(s, w), AfterItem(s))
    BY <1>4, <1>9 DEF ReadReverse
  <2>2. CASE choice[k.room][x][k.user] = "interested"
    <3>1. Looks(k, choice, w.at)
      BY <1>8, <2>1, <2>2 DEF Looks
    <3> QED
      BY <1>6, <1>8, <2>1, <2>2, <3>1
  <2>3. CASE choice[k.room][x][k.user] # "interested"
    <3>1. ResSeen(k, w, choice, match, w.at)
      BY <1>8, <2>1, <2>3 DEF ResSeen, Looks
    <3> QED
      BY <1>3, <1>5, <1>8, <2>1, <2>3, <3>1
  <2> QED
    BY <2>2, <2>3
<1>10. CASE ReadMatch(s)
  <2> DEFINE res == w.res[x]
             row == match[k.room][{k.user, x}]
             object == IF res.now \in {"unread", "absent"}
                       THEN [was |-> row, now |-> row] ELSE res
             after == IF Added(res) THEN res
                      ELSE [object EXCEPT !.now =
                               Rematch(@, "interested", "interested", what)]
             new == PutRes(k, w, after)
             wanted == [was |-> row,
                        now |-> Rematch(row, "interested", "interested", what)]
  <2>1. Proceed(s, NextItem(s, new), AfterItem(s)) /\ pc[s] = "read_match"
    BY <1>10 DEF ReadMatch, Item, PutRes
  <2>a. res = Unread
    BY <1>8, <2>1
  <2>2. res = Unread /\ ~Added(res)
    BY <2>a DEF Unread, Added
  <2>3. after = wanted
    <3>1. object = [was |-> row, now |-> row]
      BY <2>2 DEF Unread
    <3> HIDE DEF object
    <3> QED
      BY <2>2, <3>1
  <2>4. wanted \in AnyObject(Statuses)
    <3>1. x \in Users \ {k.user} /\ k.room \in Rooms /\ k.user \in Users
      BY <1>3, ListGoesOn DEF ListFits
    <3>2. row \in Statuses
      BY <3>1, PairIn DEF RequestsInv, RowsTyped, MatchStatusInv
    <3> HIDE DEF row
    <3>3. Rematch(row, "interested", "interested", what) \in Statuses
      BY <3>2, RematchTyped
    <3> QED
      BY <3>2, <3>3 DEF AnyObject
  <2> HIDE DEF after
  <2>5. /\ new.res[x] = after /\ new.own = w.own /\ new.at = w.at
        /\ SameElse(k, w, new)
    BY <1>3, ObjectChanged
  <2>6. ListFits(k, new)
    BY <1>3, <2>3, <2>4, ListGoesOn DEF PutRes
  <2> HIDE DEF new
  <2>7. OwnSeen(k, new, choice, w.at)
    BY <1>8, <2>1, <2>5 DEF OwnSeen
  <2>8. ResSeen(k, new, choice, match, w.at)
    BY <1>8, <2>1, <2>3, <2>5 DEF ResSeen
  <2> QED
    BY <1>5, <2>1, <2>5, <2>6, <2>7, <2>8
<1> QED
  BY <1>1, <1>7, <1>9, <1>10

(* A request that arrives has passed nothing yet.                          *)
LEMMA ArriveSeen ==
    ASSUME SlotMaps, NEW s \in Slots, Arrive(s)
    PROVE  /\ pc'[s] \in Choosing =>
                 ListSeen(pc'[s], task'[s], view'[s], choice, match)
           /\ pc'[s] = "store_proposal" =>
                 match[task'[s].room][{task'[s].user, task'[s].other}] = view'[s].loaded
<1> DEFINE Good ==
              /\ pc'[s] \in Choosing =>
                    ListSeen(pc'[s], task'[s], view'[s], choice, match)
              /\ pc'[s] = "store_proposal" =>
                    match[task'[s].room][{task'[s].user, task'[s].other}]
                       = view'[s].loaded
<1>1. ASSUME NEW k, NEW v, NEW where, Begin(s, k, v, where),
             where \notin Choosing \cup {"store_proposal"}
      PROVE  Good
  BY <1>1, BeginShape
<1>2. ASSUME NEW r \in Rooms, NEW u \in Participants, LoadChoices(s, r, u) PROVE Good
  <2> DEFINE k(items) == [op |-> "choose", room |-> r, user |-> u, other |-> NoUser,
                          items |-> items]
             v(items) == [own |-> [w \in Named(items) |-> Unread],
                          res |-> [w \in Named(items) |-> Unread], at |-> 1]
  <2>1. PICK items \in ItemLists(ValidTargets(r, u)) :
           Begin(s, k(items), v(items), "read_choice")
    BY <1>2 DEF LoadChoices
  <2>2. pc'[s] = "read_choice" /\ task'[s] = k(items) /\ view'[s] = v(items)
    BY <2>1, BeginShape
  <2>3. items \in BoundedSeq([to : ValidTargets(r, u), what : ChoiceType], MaxItems)
    BY DEF ItemLists
  <2>4. PICK n \in 0..MaxItems :
           items \in [1..n -> [to : ValidTargets(r, u), what : ChoiceType]]
    BY <2>3 DEF BoundedSeq, SeqOf
  <2>5. \A j \in DOMAIN items : items[j].to \in Named(items) /\ ~(j < 1)
    BY <2>4 DEF Named
  <2>6. ListSeen("read_choice", k(items), v(items), choice, match)
    BY <2>5 DEF ListSeen
  <2> HIDE DEF k, v
  <2> QED
    BY <2>2, <2>6
<1>3. ASSUME NEW r \in Rooms, NEW u \in Participants,
             NEW v \in Participants \ {u}, LoadMatch(s, r, u, v)
      PROVE  Good
  <2>1. Begin(s, Ask("propose", r, u, v), [loaded |-> match[r][{u, v}]],
              "store_proposal")
    BY <1>3 DEF LoadMatch
  <2>2. /\ pc'[s] = "store_proposal" /\ task'[s] = Ask("propose", r, u, v)
        /\ view'[s].loaded = match[r][{u, v}]
    BY <2>1, BeginShape
  <2> QED
    BY <2>2 DEF Ask, Choosing
<1> HIDE DEF Good
<1>4. ASSUME NEW r, NEW p, NEW op, NEW u,
             \/ LoadOpenCheckin(s, r, p) \/ LoadStart(s, r, p)
             \/ LoadSession(s, op, r, p) \/ LoadCheckin(s, op, r, u, p)
      PROVE  Good
  <2>1. ASSUME LoadOpenCheckin(s, r, p) PROVE Good
    BY <1>1, <2>1 DEF LoadOpenCheckin, Choosing
  <2>2. ASSUME LoadStart(s, r, p) PROVE Good
    BY <1>1, <2>2 DEF LoadStart, Choosing
  <2>3. ASSUME LoadSession(s, op, r, p) PROVE Good
    BY <1>1, <2>3 DEF LoadSession, Choosing
  <2>4. ASSUME LoadCheckin(s, op, r, u, p) PROVE Good
    BY <1>1, <2>4 DEF LoadCheckin, Choosing
  <2> QED
    BY <1>4, <2>1, <2>2, <2>3, <2>4
<1>5. ASSUME NEW r, NEW u, NEW c, NEW i, NEW to,
             LoadFeedback(s, r, u) \/ LoadReport(s, c) \/ LoadClosing(s, i, to)
      PROVE  Good
  <2>1. ASSUME LoadFeedback(s, r, u) PROVE Good
    BY <1>1, <2>1 DEF LoadFeedback, Choosing
  <2>2. ASSUME LoadReport(s, c) PROVE Good
    BY <1>1, <2>2 DEF LoadReport, Choosing
  <2>3. ASSUME LoadClosing(s, i, to) PROVE Good
    BY <1>1, <2>3 DEF LoadClosing, Choosing
  <2> QED
    BY <1>5, <2>1, <2>2, <2>3
<1>6. Good
  BY <1>2, <1>3, <1>4, <1>5 DEF Arrive
<1> QED
  BY <1>6 DEF Good

-----------------------------------------------------------------------------
(* What is stored agrees with the choices if nothing changed under it.     *)

LEMMA ChoicesStored ==
    ASSUME RequestsInv, NEW s \in Slots, StoreChoices(s), NEW j \in DOMAIN task[s].items,
           OwnSeen(task[s], view[s], choice, j),
           ResSeen(task[s], view[s], choice, match, j)
    PROVE  LET r == task[s].room
               u == task[s].user
               x == task[s].items[j].to
               what == task[s].items[j].what
           IN  /\ choice'[r][u][x] = what
               /\ match'[r][{u, x}] =
                     IF Looks(task[s], choice, j)
                     THEN Rematch(match[r][{u, x}], "interested", "interested", what)
                     ELSE match[r][{u, x}]
<1> DEFINE k == task[s]
           own == view[s].own
           res == view[s].res
           r == k.room
           u == k.user
           x == k.items[j].to
           what == k.items[j].what
           row == match[r][{u, x}]
           wanted == Rematch(row, "interested", "interested", what)
<1>1. ListFits(k, view[s])
  BY DEF StoreChoices, RequestsInv, Fits, Choosing
<1>2. /\ DOMAIN own = Named(k.items) /\ DOMAIN res = Named(k.items)
      /\ r \in Rooms /\ u \in Users /\ x \in Named(k.items)
      /\ x \in Users \ {u}
  <2> DEFINE I == [to : Users \ {u}, what : ChoiceType]
  <2>1. k.items \in Seq(I)
    BY <1>1 DEF ListFits
  <2>2. k.items[j] \in I
    <3> HIDE DEF I
    <3> QED
      BY <2>1
  <2>3. x \in Users \ {u}
    BY <2>2
  <2> QED
    BY <1>1, <2>3 DEF ListFits, Named
<1>3. MatchTypeOK
  BY DEF RequestsInv, RowsTyped
<1>4. choice'[r][u][x] = what
  <2>1. choice'[r][u][x] = Stored(own[x], choice[r][u][x])
    BY <1>2, <1>3 DEF StoreChoices, MatchTypeOK
  <2>2. own[x] = [was |-> choice[r][u][x], now |-> what]
    BY DEF OwnSeen
  <2> HIDE DEF own, x, what, k
  <2> QED
    BY <2>1, <2>2 DEF Stored
<1>5. match'[r][{u, x}] = Stored(res[x], row)
  <2> DEFINE who == CHOOSE v \in DOMAIN res : {u, x} = {u, v}
  <2>1. {u, x} \in Pairs
    BY <1>2, PairIn
  <2>2. x \in DOMAIN res /\ \A v \in DOMAIN res : {u, x} = {u, v} => v = x
    BY <1>2
  <2>3. who = x
    BY <2>2
  <2>4. match'[r][{u, x}] = Stored(res[who], row)
    BY <1>2, <1>3, <2>1, <2>2 DEF StoreChoices, MatchTypeOK
  <2> QED
    BY <2>3, <2>4
<1>6. res[x] = IF Looks(k, choice, j) THEN [was |-> row, now |-> wanted] ELSE Unread
  BY DEF ResSeen
<1>7. match'[r][{u, x}] = IF Looks(k, choice, j) THEN wanted ELSE row
  <2> HIDE DEF res, row, wanted
  <2> QED
    BY <1>5, <1>6 DEF Stored, Unread
<1> QED
  BY <1>4, <1>7

LEMMA OtherChoices ==
    ASSUME RequestsInv, NEW s \in Slots, StoreChoices(s), NEW r \in Rooms,
           NEW a \in Users, NEW b \in Users,
           ~(r = task[s].room /\ a = task[s].user /\ b \in Named(task[s].items))
    PROVE  choice'[r][a][b] = choice[r][a][b]
<1> DEFINE k == task[s]
           own == view[s].own
<1>1. ListFits(k, view[s])
  BY DEF StoreChoices, RequestsInv, Fits, Choosing
<1>2. /\ DOMAIN own = Named(k.items)
      /\ k.room \in Rooms /\ k.user \in Users
  BY <1>1 DEF ListFits
<1>3. MatchTypeOK
  BY DEF RequestsInv, RowsTyped
<1> QED
  BY <1>2, <1>3 DEF StoreChoices, MatchTypeOK

LEMMA OtherMatches ==
    ASSUME RequestsInv, NEW s \in Slots, StoreChoices(s), NEW r \in Rooms,
           NEW a \in Users, NEW b \in Users, a # b,
           \/ r # task[s].room
           \/ a # task[s].user /\ b # task[s].user
           \/ a = task[s].user /\ b \notin Named(task[s].items)
    PROVE  match'[r][{a, b}] = match[r][{a, b}]
<1> DEFINE k == task[s]
           res == view[s].res
<1>1. ListFits(k, view[s])
  BY DEF StoreChoices, RequestsInv, Fits, Choosing
<1>2. /\ DOMAIN res = Named(k.items)
      /\ k.room \in Rooms /\ k.user \in Users
  BY <1>1 DEF ListFits
<1>3. MatchTypeOK
  BY DEF RequestsInv, RowsTyped
<1>4. {a, b} \in Pairs
  BY PairIn
<1>5. CASE r # k.room
  BY <1>2, <1>3, <1>5 DEF StoreChoices, MatchTypeOK
<1>6. CASE r = k.room
  <2>1. ~\E v \in DOMAIN res : {a, b} = {k.user, v}
    BY <1>2, <1>6
  <2> QED
    BY <1>2, <1>3, <1>4, <1>6, <2>1 DEF StoreChoices, MatchTypeOK
<1> QED
  BY <1>5, <1>6

LEMMA ChoicesAgree ==
    ASSUME RequestsInv, NEW s \in Slots, StoreChoices(s),
           ListSeen(pc[s], task[s], view[s], choice, match),
           NEW r \in Rooms, NEW a \in Users, NEW b \in Users, a # b, Agree(r, a, b)
    PROVE  Agree(r, a, b)'
<1> DEFINE k == task[s]
<1>1. ListFits(k, view[s]) /\ pc[s] = "store_choices"
  BY DEF StoreChoices, RequestsInv, Fits, Choosing
<1>2. ASSUME NEW q \in Rooms, NEW u \in Users, q = k.room, u = k.user,
             NEW x \in Users, x # u, Agree(q, u, x)
      PROVE  Agree(q, u, x)'
  <2>2. choice'[q][x][u] = choice[q][x][u]
    BY <1>2, OtherChoices
  <2>3. CASE x \notin Named(k.items)
    <3>1. choice'[q][u][x] = choice[q][u][x]
      BY <1>2, <2>3, OtherChoices
    <3>a. u = task[s].user /\ x \notin Named(task[s].items)
      BY <1>2, <2>3
    <3>2. match'[q][{u, x}] = match[q][{u, x}]
      BY <1>2, <3>a, OtherMatches
    <3> QED
      BY <1>2, <2>2, <3>1, <3>2 DEF Agree, Mutual
  <2>4. CASE x \in Named(k.items)
    <3>1. PICK j \in DOMAIN k.items : x = k.items[j].to
      BY <2>4 DEF Named
    <3> DEFINE what == k.items[j].what
               row == match[q][{u, x}]
    <3>2. OwnSeen(k, view[s], choice, j) /\ ResSeen(k, view[s], choice, match, j)
      BY <1>1 DEF ListSeen
    <3>3. /\ choice'[q][u][x] = what
          /\ match'[q][{u, x}] =
                IF Looks(k, choice, j)
                THEN Rematch(row, "interested", "interested", what) ELSE row
      BY <1>2, <3>1, <3>2, ChoicesStored
    <3>4. row \in Statuses
      <4>1. {u, x} \in Pairs
        BY <1>2, PairIn
      <4> QED
        BY <4>1 DEF RequestsInv, RowsTyped, MatchStatusInv
    <3>5. Looks(k, choice, j) <=>
             \/ what = "interested" /\ choice[q][x][u] = "interested"
             \/ what # "interested" /\ choice[q][u][x] = "interested"
      BY <1>2, <3>1 DEF Looks
    <3>6. row \in {"mutual", "after_proposed"}
             <=> choice[q][u][x] = "interested" /\ choice[q][x][u] = "interested"
      BY <1>2 DEF Agree, Mutual
    <3>7. match'[q][{u, x}] \in {"mutual", "after_proposed"}
             <=> what = "interested" /\ choice[q][x][u] = "interested"
      <4> HIDE DEF what, row, k
      <4> QED
        BY <3>3, <3>4, <3>5, <3>6 DEF Rematch, Statuses
    <3> QED
      BY <2>2, <3>3, <3>7 DEF Agree, Mutual
  <2> QED
    BY <2>3, <2>4
<1>3. CASE r = k.room /\ a = k.user
  BY <1>2, <1>3
<1>4. CASE r = k.room /\ b = k.user
  <2>1. {a, b} = {b, a}
    OBVIOUS
  <2>2. Agree(r, b, a)
    BY <2>1 DEF Agree, Mutual
  <2>3. Agree(r, b, a)'
    BY <1>2, <1>4, <2>2
  <2> QED
    BY <2>1, <2>3 DEF Agree, Mutual
<1>5. CASE r # k.room \/ (a # k.user /\ b # k.user)
  <2>1. /\ choice'[r][a][b] = choice[r][a][b] /\ choice'[r][b][a] = choice[r][b][a]
        /\ match'[r][{a, b}] = match[r][{a, b}]
    BY <1>5, OtherChoices, OtherMatches
  <2> QED
    BY <2>1 DEF Agree, Mutual
<1> QED
  BY <1>3, <1>4, <1>5

LEMMA ProposalAgrees ==
    ASSUME RequestsInv, NEW s \in Slots, StoreProposal(s),
           match[task[s].room][{task[s].user, task[s].other}] = view[s].loaded,
           NEW r \in Rooms, NEW a \in Users, NEW b \in Users, a # b, Agree(r, a, b)
    PROVE  Agree(r, a, b)'
<1> DEFINE k == task[s]
           pair == {k.user, k.other}
<1>1. k.room \in Rooms /\ pair \in Pairs
  BY PairIn DEF StoreProposal, RequestsInv, Fits
<1>2. MatchTypeOK
  BY DEF RequestsInv, RowsTyped
<1>3. match' = [match EXCEPT ![k.room][pair] =
                   IF view[s].loaded = "mutual" THEN "after_proposed" ELSE @]
  BY DEF StoreProposal
<1>4. match'[r][{a, b}] =
         IF r = k.room /\ {a, b} = pair /\ match[r][{a, b}] = "mutual"
         THEN "after_proposed" ELSE match[r][{a, b}]
  <2>1. {a, b} \in Pairs
    BY PairIn
  <2> HIDE DEF pair
  <2> DEFINE mine == {a, b}
  <2> HIDE DEF mine
  <2>2. mine \in Pairs /\ match[k.room][pair] = view[s].loaded
    BY <2>1 DEF mine, pair
  <2>3. match'[r][mine] =
           IF r = k.room /\ mine = pair /\ match[r][mine] = "mutual"
           THEN "after_proposed" ELSE match[r][mine]
    BY <1>1, <1>2, <1>3, <2>2 DEF MatchTypeOK
  <2> QED
    BY <2>3 DEF mine
<1>5. choice' = choice
  BY DEF StoreProposal
<1> HIDE DEF pair
<1> QED
  BY <1>4, <1>5 DEF Agree, Mutual

-----------------------------------------------------------------------------
(* Any step.                                                               *)

LEMMA SeenStays ==
    ASSUME SlotMaps, RequestsInv, SeenInv, NEW s \in Slots, Remember,
           pc'[s] = pc[s], task'[s] = task[s], view'[s] = view[s], ~touched'[s]
    PROVE  /\ pc'[s] \in Choosing /\ ~NamesTwice(task'[s].items) =>
                 ListSeen(pc'[s], task'[s], view'[s], choice', match')
           /\ pc'[s] = "store_proposal" =>
                 match'[task'[s].room][{task'[s].user, task'[s].other}] = view'[s].loaded
<1> DEFINE k == task[s]
           w == view[s]
<1>1. ASSUME pc[s] \in Choosing \cup {"store_proposal"}
      PROVE  ~touched[s] /\ Footprint(s)' = Footprint(s)
  <2>1. Busy(s) /\ Busy(s)'
    BY <1>1 DEF Busy, Choosing
  <2> QED
    BY <2>1, Zenon DEF Remember
<1>2. ASSUME pc[s] \in Choosing, ~NamesTwice(k.items)
      PROVE  ListSeen(pc[s], k, w, choice', match')
  <2>1. ListFits(k, w) /\ k.op = "choose" /\ ListSeen(pc[s], k, w, choice, match)
    BY <1>1, <1>2 DEF SeenInv, RequestsInv, Fits, ListFits
  <2>2. ASSUME NEW j \in DOMAIN k.items
        PROVE  /\ OwnSeen(k, w, choice, j) => OwnSeen(k, w, choice', j)
               /\ ResSeen(k, w, choice, match, j) => ResSeen(k, w, choice', match', j)
               /\ Looks(k, choice, j) => Looks(k, choice', j)
    <3>1. k.items[j].to \in Named(k.items)
      BY DEF Named
    <3> DEFINE x == k.items[j].to
    <3>2. /\ choice'[k.room][k.user][x] = choice[k.room][k.user][x]
          /\ choice'[k.room][x][k.user] = choice[k.room][x][k.user]
          /\ match'[k.room][{k.user, x}] = match[k.room][{k.user, x}]
      BY <1>1, <1>2, <2>1, <3>1, FootprintOfChoices
    <3>3. Looks(k, choice, j) <=> Looks(k, choice', j)
      BY <3>2 DEF Looks
    <3> QED
      BY <3>2, <3>3 DEF OwnSeen, ResSeen
  <2>3. w.at \in DOMAIN k.items
    BY <2>1 DEF ListFits
  <2> QED
    BY <2>1, <2>2, <2>3 DEF ListSeen
<1>3. ASSUME pc[s] = "store_proposal"
      PROVE  match'[k.room][{k.user, k.other}] = w.loaded
  <2>1. k.op = "propose"
    BY <1>3 DEF RequestsInv, Fits
  <2> QED
    BY <1>1, <1>3, <2>1, FootprintOfProposal DEF SeenInv
<1> QED
  BY <1>2, <1>3

LEMMA ReadingBusy == ASSUME NEW s, Reading(s) PROVE pc[s] # "idle"
BY DEF Reading, ListCheckins, ReadAttendance, ListRounds, ReadChoice, ReadReverse,
   ReadMatch

LEMMA ReadingKeeps ==
    ASSUME SlotMaps, NEW s \in Slots, Reading(s)
    PROVE  task'[s] = task[s] /\ pc'[s] # "store_proposal"
<1> DEFINE Good == task'[s] = task[s] /\ pc'[s] # "store_proposal"
           Places == Choosing \cup {"store_openings", "store_session",
                                    "store_advance", "store_end"}
<1> SUFFICES Good
  OBVIOUS
<1>1. ASSUME NEW v, NEW where, Proceed(s, v, where), where \in Places PROVE Good
  BY <1>1, ProceedShape DEF Choosing
<1> HIDE DEF Good
<1>2. AfterItem(s) \in Places /\ {"read_reverse", "read_match"} \subseteq Places
  BY DEF AfterItem, Choosing
<1>3. CASE ListCheckins(s) \/ ReadAttendance(s)
  BY <1>1, <1>3 DEF ListCheckins, ReadAttendance
<1>4. CASE ListRounds(s)
  <2> DEFINE where == IF task[s].op = "next" THEN "store_advance" ELSE "store_end"
             v == [current |-> view[s].current, rows |-> rounds[task[s].room]]
  <2>1. Proceed(s, v, where) /\ where \in Places
    BY <1>4 DEF ListRounds
  <2> HIDE DEF where, v
  <2> QED
    BY <1>1, <2>1
<1>5. CASE ReadChoice(s)
  <2>1. PICK v, where : Proceed(s, v, where) /\ where \in Places
    <3> DEFINE x == Item(s).to
               own == view[s].own[x]
               row == choice[task[s].room][task[s].user][x]
               object == IF own = Unread THEN [was |-> row, now |-> row] ELSE own
               seen == [view[s] EXCEPT !.own[x] = [object EXCEPT !.now = Item(s).what]]
    <3>1. \/ Proceed(s, seen, "read_reverse")
          \/ Proceed(s, seen, "read_match")
          \/ Proceed(s, NextItem(s, seen), AfterItem(s))
      BY <1>5 DEF ReadChoice
    <3> HIDE DEF seen
    <3> QED
      BY <1>2, <3>1
  <2> QED
    BY <1>1, <2>1
<1>6. CASE ReadReverse(s)
  BY <1>1, <1>2, <1>6 DEF ReadReverse
<1>7. CASE ReadMatch(s)
  <2>1. PICK v : Proceed(s, v, AfterItem(s))
    BY <1>7 DEF ReadMatch
  <2> QED
    BY <1>1, <1>2, <2>1
<1> QED
  BY <1>3, <1>4, <1>5, <1>6, <1>7 DEF Reading

LEMMA SeenStep ==
    ASSUME EventConstantsOK, StoryInv, RequestsInv, SeenInv, [EventNext]_allEventVars
    PROVE  SeenInv'
<1> DEFINE Good(s) ==
       /\ pc'[s] \in Choosing /\ ~NamesTwice(task'[s].items) =>
             ListSeen(pc'[s], task'[s], view'[s], choice', match')
       /\ pc'[s] = "store_proposal" =>
             match'[task'[s].room][{task'[s].user, task'[s].other}] = view'[s].loaded
<1>1. SlotMaps
  BY DEF StoryInv
<1>2. CASE UNCHANGED allEventVars
  BY <1>2 DEF SeenInv, allEventVars, eventRequestVars, allAftermathVars,
     allMatchVars, matchVars
<1>3. CASE EventNext
  <2>1. Remember
    BY <1>3 DEF EventNext
  <2>2. ASSUME NEW t \in Slots, pc'[t] = pc[t], task'[t] = task[t],
               view'[t] = view[t], ~touched'[t]
        PROVE  Good(t)
    BY <1>1, <2>1, <2>2, SeenStays
  <2>3. ASSUME NEW s \in Slots, Others(s), ~touched'[s] => Good(s) PROVE SeenInv'
    <3>1. ASSUME NEW t \in Slots, ~touched'[t] PROVE Good(t)
      <4>1. CASE t = s
        BY <2>3, <3>1, <4>1
      <4>2. CASE t # s
        <5>1. pc'[t] = pc[t] /\ task'[t] = task[t] /\ view'[t] = view[t]
          BY <2>3, <4>2 DEF Others
        <5> HIDE DEF Good
        <5> QED
          BY <2>2, <3>1, <5>1
      <4> QED
        BY <4>1, <4>2
    <3> QED
      BY <3>1 DEF SeenInv
  <2>4. ASSUME NEW s \in Slots, Arrive(s) PROVE SeenInv'
    <3>1. Others(s) /\ UNCHANGED <<choice, match>>
      BY <2>4, ArriveUnderway DEF allAftermathVars, allMatchVars, matchVars
    <3>2. Good(s)
      BY <1>1, <2>4, <3>1, ArriveSeen
    <3> HIDE DEF Good
    <3> QED
      BY <2>3, <3>1, <3>2
  <2>5. ASSUME NEW s \in Slots, Reading(s) PROVE SeenInv'
    <3>1. Others(s) /\ UNCHANGED <<choice, match>>
      BY <2>5, ReadingUnderway DEF allAftermathVars, allMatchVars, matchVars
    <3>2. task'[s] = task[s] /\ pc'[s] # "store_proposal"
      BY <1>1, <2>5, ReadingKeeps
    <3>3. ASSUME ~touched'[s], pc'[s] \in Choosing, ~NamesTwice(task[s].items)
          PROVE  ListSeen(pc'[s], task[s], view'[s], choice, match)
      <4>1. pc[s] \in Choosing => ~touched[s]
        <5>1. Busy(s) /\ Busy(s)'
          BY <1>1, <2>5, <3>3, ReadingBusy DEF Busy, Choosing
        <5> QED
          BY <2>1, <3>3, <5>1, Zenon DEF Remember
      <4>2. pc[s] \in Choosing /\ ~NamesTwice(task[s].items) =>
               ListSeen(pc[s], task[s], view[s], choice, match)
        BY <4>1 DEF SeenInv
      <4> QED
        BY <1>1, <2>5, <3>3, <4>2, ReadingSeen
    <3>4. ~touched'[s] => Good(s)
      BY <3>1, <3>2, <3>3
    <3> HIDE DEF Good
    <3> QED
      BY <2>3, <3>1, <3>4
  <2>6. ASSUME NEW s \in Slots, Finish(s) PROVE SeenInv'
    <3>1. Others(s) /\ pc'[s] = "idle"
      BY <1>1, <2>6, FinishShape DEF Others
    <3>2. Good(s)
      BY <3>1 DEF Choosing
    <3> HIDE DEF Good
    <3> QED
      BY <2>3, <3>1, <3>2
  <2>7. ASSUME NEW s \in Slots, Storing(s) PROVE SeenInv'
    BY <2>6, <2>7, StoringKinds
  <2>8. ASSUME NEW s \in Slots, Fail(s) PROVE SeenInv'
    BY <2>6, <2>8 DEF Fail
  <2>9. CASE Background
    BY <2>2, <2>9 DEF Background, SeenInv
  <2> HIDE DEF Good
  <2> QED
    BY <1>3, <2>4, <2>5, <2>7, <2>8, <2>9 DEF EventNext
<1> QED
  BY <1>2, <1>3

(* Only two statements write choices or matches.                           *)
LEMMA WhoMatches ==
    ASSUME EventConstantsOK, StoryInv, [EventNext]_allEventVars,
           ~UNCHANGED <<choice, match>>
    PROVE  \E s \in Slots : StoreChoices(s) \/ StoreProposal(s)
<1>1. ASSUME UNCHANGED allAftermathVars PROVE FALSE
  BY <1>1 DEF allAftermathVars, allMatchVars, matchVars
<1>2. ASSUME UNCHANGED matchVars PROVE FALSE
  BY <1>2 DEF matchVars
<1>3. ASSUME NEW s \in Slots, Storing(s) PROVE StoreChoices(s) \/ StoreProposal(s)
  <2>1. ~(StoreOpenings(s) \/ StoreCheckin(s))
    BY <1>2 DEF StoreOpenings, StoreCheckin
  <2>2. ~(StoreSession(s) \/ StoreAdvance(s) \/ StoreEnd(s))
    BY <1>2 DEF StoreSession, StoreAdvance, StoreEnd
  <2>3. ~(StoreFeedback(s) \/ StoreReport(s) \/ StoreClosing(s))
    BY <1>2 DEF StoreFeedback, StoreReport, StoreClosing, allMatchVars
  <2> QED
    BY <1>3, <2>1, <2>2, <2>3 DEF Storing
<1>4. \A s \in Slots : ~Arrive(s)
  BY <1>1, ArriveUnderway
<1>5. \A s \in Slots : ~Reading(s)
  BY <1>1, ReadingUnderway
<1>6. \A s \in Slots : ~Fail(s)
  BY <1>1 DEF Fail
<1>7. ~Background
  BY <1>2 DEF Background
<1>8. ~UNCHANGED allEventVars
  BY <1>1 DEF allEventVars
<1> QED
  BY <1>3, <1>4, <1>5, <1>6, <1>7, <1>8 DEF EventNext

LEMMA StrayStep ==
    ASSUME EventConstantsOK, StoryInv, RequestsInv, SeenInv, [EventNext]_allEventVars,
           ~UNCHANGED <<choice, match>>
    PROVE  \/ \E s \in Slots : /\ pc[s] \in {"store_choices", "store_proposal"}
                               /\ ~Busy(s)'
                               /\ touched[s] \/ NamesTwice(task[s].items)
           \/ \A r \in Rooms, u, v \in Users :
                 u # v /\ Agree(r, u, v) => Agree(r, u, v)'
<1>1. PICK s \in Slots : StoreChoices(s) \/ StoreProposal(s)
  BY WhoMatches
<1>2. /\ pc[s] \in {"store_choices", "store_proposal"}
      /\ ~Busy(s)'
  BY <1>1, FinishShape DEF StoreChoices, StoreProposal, StoryInv, Busy
<1>3. CASE touched[s] \/ NamesTwice(task[s].items)
  BY <1>2, <1>3
<1>4. CASE ~touched[s] /\ ~NamesTwice(task[s].items)
  <2>1. ASSUME NEW r \in Rooms, NEW u \in Users, NEW v \in Users, u # v, Agree(r, u, v)
        PROVE  Agree(r, u, v)'
    <3>1. CASE StoreChoices(s)
      <4>1. ListSeen(pc[s], task[s], view[s], choice, match)
        BY <1>4, <3>1 DEF SeenInv, StoreChoices, Choosing
      <4> QED
        BY <2>1, <3>1, <4>1, ChoicesAgree
    <3>2. CASE StoreProposal(s)
      <4>1. match[task[s].room][{task[s].user, task[s].other}] = view[s].loaded
        BY <1>4, <3>2 DEF SeenInv, StoreProposal
      <4> QED
        BY <2>1, <3>2, <4>1, ProposalAgrees
    <3> QED
      BY <1>1, <3>1, <3>2
  <2> QED
    BY <2>1
<1> QED
  BY <1>3, <1>4

(* For any number of requests in flight and of guests: live matches and    *)
(* mutual interest come apart only by a request that another changed       *)
(* something under, or that names one guest twice.                         *)
THEOREM MatchesStrayByRaces ==
    ASSUME RoomConstants, AftermathConstants, EventConstants
    PROVE  EventSpec => MatchesStrayOnlyIfRaced
<1>1. EventConstantsOK
  BY DEF EventConstantsOK
<1>2. MatchInit /\ AftermathInit /\ EventRequestInit => RequestsInv /\ SeenInv
  <2>1. EventRequestInit => SeenInv
    BY DEF EventRequestInit, SeenInv, Choosing
  <2> QED
    BY <1>1, <2>1, InitRequests
<1>3. StoryInv /\ RequestsInv /\ SeenInv /\ [EventNext]_allEventVars
         => RequestsInv' /\ SeenInv'
  BY <1>1, RequestsStep, SeenStep
<1>4. StoryInv /\ RequestsInv /\ SeenInv /\ [EventNext]_allEventVars
         => [(\E s \in Slots : /\ pc[s] \in {"store_choices", "store_proposal"}
                               /\ ~Busy(s)'
                               /\ touched[s] \/ NamesTwice(task[s].items))
             \/ \A r \in Rooms, u, v \in Users :
                   u # v /\ Agree(r, u, v) => Agree(r, u, v)']_<<choice, match>>
  BY <1>1, StrayStep
<1> QED
  BY <1>2, <1>3, <1>4, StoryAlways, PTL DEF EventSpec, MatchesStrayOnlyIfRaced

-----------------------------------------------------------------------------
(* The guests of an event under requests in flight: who is checked in has  *)
(* paid, who has arrived stays so, and what a request has in hand speaks   *)
(* of such guests only.  p, k and v are what pc, task and view have for    *)
(* one slot; S, A and C the rooms' statuses, applications and check-ins.   *)

Begun == {"in_progress", "completed"}

Arrived == {"checked_in", "no_show"}

Present(p, k, v, S, A, C) ==
    /\ p = "list_checkins" =>
          /\ k.room \in Rooms
          /\ \A u \in v.roster : u \in Users /\ A[k.room][u] = "confirmed"
    /\ p = "store_openings" =>
          /\ k.room \in Rooms /\ v.unopened = {}
          /\ \A u \in v.missing : u \in Users /\ A[k.room][u] = "confirmed"
    /\ p = "store_checkin" =>
          /\ k.room \in Rooms /\ k.other \in Users /\ k.op \in {"confirm", "miss"}
          /\ C[k.room][k.other] # "none"
    /\ p = "store_session" =>
          /\ k.room \in Rooms
          /\ v.males # {} /\ Cardinality(v.males) = Cardinality(v.females)
          /\ \A u \in v.males \cup v.females : u \in Users /\ C[k.room][u] # "none"
    /\ p \in Choosing =>
          /\ k.room \in Rooms /\ S[k.room] \in Begun
          /\ \A u \in {k.user} \cup Named(k.items) :
                u \in Users /\ C[k.room][u] \in Arrived
    /\ p = "store_proposal" =>
          /\ k.room \in Rooms /\ S[k.room] \in Begun
          /\ \A u \in {k.user, k.other} : u \in Users /\ C[k.room][u] \in Arrived

RowsOfGuests ==
    /\ PaidInv /\ SeatingIsFair /\ MetAtTheEvent
    /\ checkin \in [Rooms -> [Users -> Arrived \cup {"none", "open"}]]
    /\ DOMAIN seats = Rooms

GuestsInv ==
    /\ RowsOfGuests
    /\ \A s \in Slots :
          Present(pc[s], task[s], view[s], status, application, checkin)

(* A step takes nobody's payment, check-in or arrival back.                *)
GuestsStay ==
    \A r \in Rooms :
        /\ status[r] \in Begun => status'[r] \in Begun
        /\ \A u \in Users :
              /\ application[r][u] = "confirmed" => application'[r][u] = "confirmed"
              /\ checkin[r][u] # "none" => checkin'[r][u] # "none"
              /\ checkin[r][u] \in Arrived => checkin'[r][u] \in Arrived

LEMMA PresentKept ==
    ASSUME GuestsStay, NEW p, NEW k, NEW v,
           Present(p, k, v, status, application, checkin)
    PROVE  Present(p, k, v, status', application', checkin')
BY DEF Present, GuestsStay

LEMMA MatchedHaveArrived ==
    ASSUME GuestsInv, NEW r \in Rooms, NEW u \in Users, NEW v \in Users, u # v,
           match[r][{u, v}] # "absent"
    PROVE  status[r] \in Begun /\ checkin[r][u] \in Arrived
BY Zenon DEF GuestsInv, RowsOfGuests, MetAtTheEvent, Begun, Arrived

-----------------------------------------------------------------------------
(* What a request finds when it arrives.                                   *)

LEMMA ArrivePresent ==
    ASSUME EventConstantsOK, StoryInv, GuestsInv, NEW s \in Slots, Arrive(s)
    PROVE  Present(pc'[s], task'[s], view'[s], status, application, checkin)
<1> DEFINE Good == Present(pc'[s], task'[s], view'[s], status, application, checkin)
           Places == Choosing \cup {"list_checkins", "store_openings", "store_checkin",
                                    "store_session", "store_proposal"}
<1>a. SlotMaps /\ Participants \subseteq Users
  BY DEF StoryInv, EventConstantsOK, RoomConstants
<1>1. ASSUME NEW k, NEW v, NEW where, Begin(s, k, v, where),
             Present(where, k, v, status, application, checkin)
      PROVE  Good
  BY <1>a, <1>1, BeginShape
<1>2. ASSUME NEW k, NEW v, NEW where, Begin(s, k, v, where), where \notin Places
      PROVE  Good
  BY <1>a, <1>2, BeginShape DEF Present
<1>3. ASSUME NEW r \in Rooms, NEW p \in Planners, LoadOpenCheckin(s, r, p)
      PROVE  Good
  <2> DEFINE k == Ask("open", r, p, NoUser)
             v == [roster |-> ConfirmedIn(application[r])]
  <2>1. Present("list_checkins", k, v, status, application, checkin)
    BY DEF Present, Ask, ConfirmedIn, Choosing
  <2>2. Begin(s, k, v, "list_checkins")
    BY <1>3 DEF LoadOpenCheckin
  <2> QED
    BY <1>1, <2>1, <2>2
<1>4. ASSUME NEW r \in Rooms, NEW p \in Planners, NEW u \in Participants,
             NEW op \in DOMAIN CheckinFrom, LoadCheckin(s, op, r, u, p)
      PROVE  Good
  <2>1. op \in {"confirm", "miss"} /\ checkin[r][u] # "none"
    BY <1>4 DEF LoadCheckin, CheckinFrom
  <2>2. Present("store_checkin", Ask(op, r, p, u), NoView, status, application, checkin)
    BY <1>a, <2>1 DEF Present, Ask, Choosing
  <2>3. Begin(s, Ask(op, r, p, u), NoView, "store_checkin")
    BY <1>4 DEF LoadCheckin
  <2> QED
    BY <1>1, <2>2, <2>3
<1>5. ASSUME NEW r \in Rooms, NEW u \in Participants, LoadChoices(s, r, u) PROVE Good
  <2> DEFINE k(items) == [op |-> "choose", room |-> r, user |-> u, other |-> NoUser,
                          items |-> items]
             v(items) == [own |-> [w \in Named(items) |-> Unread],
                          res |-> [w \in Named(items) |-> Unread], at |-> 1]
  <2>1. PICK items \in ItemLists(ValidTargets(r, u)) :
           Begin(s, k(items), v(items), "read_choice")
    BY <1>5 DEF LoadChoices
  <2>2. PICK m \in 0..MaxItems : items \in [1..m -> [to : ValidTargets(r, u), what : ChoiceType]]
    BY DEF ItemLists, BoundedSeq, SeqOf
  <2>3. Named(items) \subseteq ValidTargets(r, u)
    BY <2>2 DEF Named
  <2>4. /\ status[r] \in Begun
        /\ \A w \in {u} \cup Named(items) : w \in Users /\ checkin[r][w] \in Arrived
    BY <1>a, <1>5, <2>3 DEF LoadChoices, CHOICE_OPEN_STATUSES, ValidTargets, Attended,
       Begun, Arrived
  <2>5. Present("read_choice", k(items), v(items), status, application, checkin)
    BY <2>4 DEF Present
  <2> HIDE DEF k, v
  <2> QED
    BY <1>1, <2>1, <2>5
<1>6. ASSUME NEW r \in Rooms, NEW u \in Participants,
             NEW v \in Participants \ {u}, LoadMatch(s, r, u, v)
      PROVE  Good
  <2>1. match[r][{u, v}] # "absent"
    BY <1>6 DEF LoadMatch
  <2>2. status[r] \in Begun /\ checkin[r][u] \in Arrived /\ checkin[r][v] \in Arrived
    <3>1. {u, v} = {v, u}
      OBVIOUS
    <3>2. match[r][{v, u}] # "absent"
      BY <2>1, <3>1, Zenon
    <3> QED
      BY <1>a, <2>1, <3>2, MatchedHaveArrived
  <2>3. Present("store_proposal", Ask("propose", r, u, v), [loaded |-> match[r][{u, v}]],
                status, application, checkin)
    BY <1>a, <2>2 DEF Present, Ask, Choosing
  <2>4. Begin(s, Ask("propose", r, u, v), [loaded |-> match[r][{u, v}]], "store_proposal")
    BY <1>6 DEF LoadMatch
  <2> QED
    BY <1>1, <2>3, <2>4
<1>7. ASSUME NEW k, NEW v, NEW where, Begin(s, k, v, where),
             where \in {"read_attendance", "list_rounds", "store_feedback",
                        "store_report", "store_closing"}
      PROVE  Good
  BY <1>2, <1>7 DEF Choosing
<1> HIDE DEF Good
<1>8. ASSUME NEW r \in Rooms, NEW p \in Planners, LoadStart(s, r, p) PROVE Good
  BY <1>7, <1>8 DEF LoadStart
<1>9. ASSUME NEW r \in Rooms, NEW p \in Planners, NEW op, LoadSession(s, op, r, p)
      PROVE  Good
  BY <1>7, <1>9 DEF LoadSession
<1>10. ASSUME NEW r \in Rooms, NEW u, LoadFeedback(s, r, u) PROVE Good
  BY <1>7, <1>10 DEF LoadFeedback
<1>11. ASSUME NEW c, LoadReport(s, c) PROVE Good
  BY <1>7, <1>11 DEF LoadReport
<1>12. ASSUME NEW i, NEW to, LoadClosing(s, i, to) PROVE Good
  BY <1>7, <1>12 DEF LoadClosing
<1>13. Good
  BY <1>3, <1>4, <1>5, <1>6, <1>8, <1>9, <1>10, <1>11, <1>12 DEF Arrive
<1> QED
  BY <1>13 DEF Good

(* What it reads later.                                                    *)
LEMMA ReadingPresent ==
    ASSUME StoryInv, GuestsInv, NEW s \in Slots, Reading(s)
    PROVE  Present(pc'[s], task'[s], view'[s], status, application, checkin)
<1> DEFINE k == task[s]
           Good == Present(pc'[s], task'[s], view'[s], status, application, checkin)
           Known(p, v) == Present(p, k, v, status, application, checkin)
<1> SUFFICES Good
  OBVIOUS
<1>a. SlotMaps /\ Known(pc[s], view[s])
  BY DEF StoryInv, GuestsInv
<1>1. ASSUME NEW v, NEW where, Proceed(s, v, where), Known(where, v) PROVE Good
  BY <1>a, <1>1, ProceedShape
<1>2. ASSUME NEW v, NEW where, Proceed(s, v, where), where \in Choosing,
             pc[s] \in Choosing
      PROVE  Good
  <2>1. Known(where, v)
    BY <1>a, <1>2 DEF Present, Choosing
  <2> HIDE DEF Good, Known
  <2> QED
    BY <1>1, <1>2, <2>1
<1>3. CASE ListCheckins(s)
  <2> DEFINE rows == checkin[k.room]
             v == [missing |-> {u \in view[s].roster : rows[u] = "none"},
                   unopened |-> {u \in view[s].roster : rows[u] = "not_open"}]
  <2>1. pc[s] = "list_checkins" /\ Proceed(s, v, "store_openings")
    BY <1>3 DEF ListCheckins
  <2>2. /\ k.room \in Rooms
        /\ \A u \in view[s].roster : u \in Users /\ application[k.room][u] = "confirmed"
    BY <1>a, <2>1 DEF Present
  <2>3. \A u \in view[s].roster : rows[u] # "not_open"
    BY <2>2 DEF GuestsInv, RowsOfGuests, Arrived
  <2>4. Known("store_openings", v)
    BY <2>2, <2>3 DEF Present, Choosing
  <2> HIDE DEF v, Good, Known
  <2> QED
    BY <1>1, <2>1, <2>4
<1>4. CASE ReadAttendance(s)
  <2> DEFINE M == CheckedInOf(k.room, "male")
             F == CheckedInOf(k.room, "female")
             v == [males |-> M, females |-> F]
  <2>1. /\ pc[s] = "read_attendance" /\ Proceed(s, v, "store_session")
        /\ M # {} /\ Cardinality(M) = Cardinality(F)
    BY <1>4 DEF ReadAttendance
  <2>2. k.room \in Rooms
    BY <2>1 DEF StoryInv, Underway
  <2>3. \A u \in M \cup F : u \in Users /\ checkin[k.room][u] # "none"
    BY DEF CheckedInOf
  <2>4. Known("store_session", v)
    <3> HIDE DEF M, F
    <3> QED
      BY <2>1, <2>2, <2>3 DEF Present, Choosing
  <2> HIDE DEF v, Good, Known
  <2> QED
    BY <1>1, <2>1, <2>4
<1>5. CASE ListRounds(s)
  <2> DEFINE where == IF k.op = "next" THEN "store_advance" ELSE "store_end"
             v == [current |-> view[s].current, rows |-> rounds[k.room]]
  <2>1. Proceed(s, v, where)
    BY <1>5 DEF ListRounds
  <2>2. where \in {"store_advance", "store_end"}
    OBVIOUS
  <2> HIDE DEF where, v
  <2>3. Known(where, v)
    BY <2>2 DEF Present, Choosing
  <2> HIDE DEF Good, Known
  <2> QED
    BY <1>1, <2>1, <2>3
<1>6. AfterItem(s) \in Choosing /\ "read_reverse" \in Choosing /\ "read_match" \in Choosing
  BY DEF AfterItem, Choosing
<1>7. CASE ReadChoice(s) \/ ReadReverse(s) \/ ReadMatch(s)
  <2>1. pc[s] \in Choosing
    BY <1>7 DEF ReadChoice, ReadReverse, ReadMatch, Choosing
  <2>2. \E v, where : where \in Choosing /\ Proceed(s, v, where)
    <3>1. CASE ReadChoice(s)
      BY <1>6, <3>1 DEF ReadChoice
    <3>2. CASE ReadReverse(s)
      BY <1>6, <3>2 DEF ReadReverse
    <3>3. CASE ReadMatch(s)
      BY <1>6, <3>3 DEF ReadMatch
    <3> QED
      BY <1>7, <3>1, <3>2, <3>3
  <2> HIDE DEF Good
  <2> QED
    BY <1>2, <2>1, <2>2
<1> QED
  BY <1>3, <1>4, <1>5, <1>7 DEF Reading

-----------------------------------------------------------------------------
(* What the steps that store do to the guests.                             *)

(* The room of an event that has begun is in progress or completed.        *)
LEMMA BegunAlike ==
    ASSUME StoryInv, NEW r \in Rooms
    PROVE  status[r] \in Begun <=> session[r].status \in Started
<1>1. /\ status[r] = "in_progress" <=> session[r].status = "running"
      /\ status[r] = "completed" <=> session[r].status = "completed"
  BY DEF StoryInv, RoomFollowsSession
<1> QED
  BY <1>1 DEF Begun, Started

LEMMA BegunStays ==
    ASSUME RoomConstants, StoryInv, [EventNext]_allEventVars, NEW r \in Rooms,
           status[r] \in Begun
    PROVE  status'[r] \in Begun
<1>1. session'[r].status \in Started
  BY BegunAlike, StoryKept DEF StoryStep
<1>2. /\ status'[r] = "in_progress" <=> session'[r].status = "running"
      /\ status'[r] = "completed" <=> session'[r].status = "completed"
  BY StoryKept DEF StoryInv, RoomFollowsSession
<1> QED
  BY <1>1, <1>2 DEF Begun, Started

CheckinRows == [Rooms -> [Users -> Arrived \cup {"none", "open"}]]

(* Check-ins are opened for who has paid, and set for who has one.         *)
LEMMA CheckinsStored ==
    ASSUME GuestsInv, NEW s \in Slots, StoreOpenings(s) \/ StoreCheckin(s)
    PROVE  /\ checkin' \in CheckinRows
           /\ \A r \in Rooms, u \in Users :
                 /\ checkin'[r][u] # "none" => application[r][u] = "confirmed"
                 /\ checkin[r][u] # "none" => checkin'[r][u] # "none"
                 /\ checkin[r][u] \in Arrived => checkin'[r][u] \in Arrived
<1> DEFINE r == task[s].room
           w == view[s]
<1>1. /\ checkin \in CheckinRows
      /\ \A q \in Rooms, u \in Users :
            checkin[q][u] # "none" => application[q][u] = "confirmed"
      /\ Present(pc[s], task[s], w, status, application, checkin)
  BY DEF GuestsInv, RowsOfGuests, PaidInv, CheckinRows
<1>2. CASE StoreOpenings(s)
  <2> DEFINE before == checkin[r]
             row == [u \in Users |-> IF u \in w.missing \cup w.unopened THEN "open"
                                     ELSE before[u]]
  <2>1. /\ pc[s] = "store_openings" /\ \A u \in w.missing : before[u] = "none"
        /\ checkin' = [checkin EXCEPT ![r] = row]
    BY <1>2 DEF StoreOpenings
  <2>2. /\ r \in Rooms /\ w.unopened = {}
        /\ \A u \in w.missing : u \in Users /\ application[r][u] = "confirmed"
    BY <1>1, <2>1 DEF Present
  <2>3. \A u \in Users :
           \/ row[u] = before[u]
           \/ /\ row[u] = "open" /\ before[u] = "none"
              /\ application[r][u] = "confirmed"
    BY <2>1, <2>2
  <2>4. row \in [Users -> Arrived \cup {"none", "open"}]
    BY <1>1, <2>2, <2>3 DEF CheckinRows
  <2> HIDE DEF row
  <2>5. /\ checkin' \in CheckinRows
        /\ \A q \in Rooms : checkin'[q] = IF q = r THEN row ELSE checkin[q]
    BY <1>1, <2>1, <2>2, <2>4 DEF CheckinRows
  <2> HIDE DEF r
  <2> QED
    BY <1>1, <2>3, <2>5 DEF Arrived, r
<1>3. CASE StoreCheckin(s)
  <2> DEFINE x == task[s].other
             to == CheckinTo[task[s].op]
  <2>1. pc[s] = "store_checkin" /\ checkin' = [checkin EXCEPT ![r][x] = to]
    BY <1>3 DEF StoreCheckin
  <2>2. /\ r \in Rooms /\ x \in Users /\ to \in Arrived /\ checkin[r][x] # "none"
    BY <1>1, <2>1 DEF Present, CheckinTo, Arrived
  <2> HIDE DEF r, x, to
  <2>3. /\ checkin' \in CheckinRows
        /\ \A q \in Rooms, u \in Users :
              checkin'[q][u] = IF q = r /\ u = x THEN to ELSE checkin[q][u]
    BY <1>1, <2>1, <2>2 DEF CheckinRows
  <2> QED
    BY <1>1, <2>2, <2>3 DEF Arrived
<1> QED
  BY <1>2, <1>3

(* The seats of a session are fair, and for guests with a check-in.        *)
LEMMA SeatsStored ==
    ASSUME RoomConstants, GuestsInv, NEW s \in Slots, StoreSession(s)
    PROVE  /\ DOMAIN seats' = Rooms
           /\ \A r \in Rooms :
                 /\ NobodyTwice(seats'[r]) /\ EverybodyMeets(seats'[r])
                 /\ \A t \in seats'[r] :
                       {t.male, t.female} \subseteq ConfirmedIn(application[r])
<1> DEFINE r == task[s].room
           M == view[s].males
           F == view[s].females
           pairs == RoundRobinPairs(SetToSeq(M), SetToSeq(F))
           n == Cardinality(M)
<1>1. pc[s] = "store_session" /\ seats' = [seats EXCEPT ![r] = pairs]
  BY DEF StoreSession, SeatGuests
<1>2. /\ r \in Rooms /\ M # {} /\ Cardinality(M) = Cardinality(F)
      /\ \A u \in M \cup F : u \in Users /\ checkin[r][u] # "none"
  BY <1>1 DEF GuestsInv, Present
<1>3. M \in SUBSET Users /\ F \in SUBSET Users /\ IsFiniteSet(Users)
  BY <1>2 DEF RoomConstants
<1> HIDE DEF M, F, r
<1>4. /\ pairs \subseteq [round : 1..n, table : 1..n, male : M, female : F]
      /\ NobodyTwice(pairs) /\ EverybodyMeets(pairs)
  BY <1>2, <1>3, SeatingOfPeople
<1> HIDE DEF pairs, n
<1>5. M \cup F \subseteq ConfirmedIn(application[r])
  BY <1>2 DEF GuestsInv, RowsOfGuests, PaidInv, ConfirmedIn
<1>6. \A t \in pairs : {t.male, t.female} \subseteq ConfirmedIn(application[r])
  BY <1>4, <1>5
<1>7. /\ DOMAIN seats = Rooms
      /\ \A q \in Rooms :
            /\ NobodyTwice(seats[q]) /\ EverybodyMeets(seats[q])
            /\ \A t \in seats[q] : {t.male, t.female} \subseteq ConfirmedIn(application[q])
  BY DEF GuestsInv, RowsOfGuests, PaidInv, SeatedHavePaid, SeatingIsFair
<1> QED
  BY <1>1, <1>2, <1>4, <1>6, <1>7

(* Matches are made and proposed for guests who have arrived.              *)
LEMMA MatchesStored ==
    ASSUME RequestsInv, GuestsInv, NEW s \in Slots,
           StoreChoices(s) \/ StoreProposal(s),
           NEW r \in Rooms, NEW pair \in Pairs, match'[r][pair] # match[r][pair]
    PROVE  status[r] \in Begun /\ \A u \in pair : checkin[r][u] \in Arrived
<1> DEFINE k == task[s]
           u == k.user
<1>1. match \in [Rooms -> [Pairs -> Statuses]]
  BY DEF RequestsInv, RowsTyped, MatchStatusInv
<1>2. Present(pc[s], k, view[s], status, application, checkin)
      /\ Fits(pc[s], k, view[s])
  BY DEF GuestsInv, RequestsInv
<1>3. CASE StoreChoices(s)
  <2> DEFINE res == view[s].res
             who(p) == CHOOSE v \in DOMAIN res : p = {u, v}
             row == [p \in Pairs |-> IF \E v \in DOMAIN res : p = {u, v}
                                     THEN Stored(res[who(p)], match[k.room][p])
                                     ELSE match[k.room][p]]
  <2>1. pc[s] = "store_choices" /\ match' = [match EXCEPT ![k.room] = row]
    BY <1>3 DEF StoreChoices
  <2>2. DOMAIN res = Named(k.items)
    BY <1>2, <2>1 DEF Fits, Choosing, ListFits
  <2>3. /\ k.room \in Rooms /\ status[k.room] \in Begun
        /\ \A v \in {u} \cup Named(k.items) : checkin[k.room][v] \in Arrived
    BY <1>2, <2>1 DEF Present, Choosing
  <2>4. (~\E v \in DOMAIN res : pair = {u, v}) => row[pair] = match[k.room][pair]
    BY Zenon
  <2> HIDE DEF row, u, res
  <2>5. r = k.room /\ row[pair] # match[r][pair]
    BY <1>1, <2>1, <2>3
  <2>6. PICK v \in Named(k.items) : pair = {u, v}
    BY <2>2, <2>4, <2>5
  <2> QED
    BY <2>3, <2>5, <2>6
<1>4. CASE StoreProposal(s)
  <2> DEFINE asked == {u, k.other}
             to == IF view[s].loaded = "mutual" THEN "after_proposed"
                   ELSE match[k.room][asked]
  <2>1. pc[s] = "store_proposal" /\ match' = [match EXCEPT ![k.room][asked] = to]
    BY <1>4 DEF StoreProposal
  <2>2. /\ k.room \in Rooms /\ status[k.room] \in Begun
        /\ \A v \in asked : checkin[k.room][v] \in Arrived
    BY <1>2, <2>1 DEF Present
  <2> HIDE DEF asked, to
  <2>3. r = k.room /\ pair = asked
    BY <1>1, <2>1, <2>2
  <2> QED
    BY <2>2, <2>3
<1> QED
  BY <1>3, <1>4

-----------------------------------------------------------------------------
(* Any step.                                                               *)

(* What a storing step may write.                                          *)
LEMMA StoringRows ==
    ASSUME NEW s \in Slots, Storing(s)
    PROVE  /\ UNCHANGED application
           /\ UNCHANGED checkin \/ StoreOpenings(s) \/ StoreCheckin(s)
           /\ UNCHANGED seats \/ StoreSession(s)
           /\ UNCHANGED match \/ StoreChoices(s) \/ StoreProposal(s)
<1>1. CASE StoreOpenings(s) \/ StoreCheckin(s)
  BY <1>1 DEF StoreOpenings, StoreCheckin, vars, matchVars
<1>2. CASE StoreSession(s) \/ StoreAdvance(s) \/ StoreEnd(s)
  BY <1>2 DEF StoreSession, StoreAdvance, StoreEnd, vars, matchVars
<1>3. CASE StoreChoices(s) \/ StoreProposal(s)
  <2>1. UNCHANGED allDayVars
    BY <1>3 DEF StoreChoices, StoreProposal
  <2> QED
    BY <1>3, <2>1 DEF allDayVars, dayVars, vars
<1>4. CASE StoreFeedback(s) \/ StoreReport(s) \/ StoreClosing(s)
  <2>1. UNCHANGED allMatchVars
    BY <1>4 DEF StoreFeedback, StoreReport, StoreClosing
  <2> QED
    BY <2>1 DEF allMatchVars, matchVars, allDayVars, dayVars, vars
<1> QED
  BY <1>1, <1>2, <1>3, <1>4 DEF Storing

(* What a step writes, of the rows that concern the guests.                *)
RowsWritten ==
    /\ \A r \in Rooms, u \in Users :
          application[r][u] = "confirmed" => application'[r][u] = "confirmed"
    /\ \/ UNCHANGED checkin
       \/ \E s \in Slots : StoreOpenings(s) \/ StoreCheckin(s)
    /\ \/ UNCHANGED seats
       \/ \E s \in Slots : StoreSession(s)
    /\ \/ UNCHANGED match
       \/ \E s \in Slots : StoreChoices(s) \/ StoreProposal(s)

LEMMA GuestRowsWritten ==
    ASSUME RoomConstants, StoryInv, [EventNext]_allEventVars
    PROVE  RowsWritten
<1>1. ASSUME UNCHANGED <<application, checkin, seats, match>> PROVE RowsWritten
  BY <1>1 DEF RowsWritten
<1>2. ASSUME UNCHANGED allAftermathVars PROVE RowsWritten
  BY <1>1, <1>2 DEF allAftermathVars, allMatchVars, matchVars, allDayVars, dayVars, vars
<1>3. ASSUME NEW s \in Slots, Arrive(s) \/ Reading(s) \/ Fail(s) PROVE RowsWritten
  BY <1>2, <1>3, ArriveUnderway, ReadingUnderway DEF Fail
<1>4. ASSUME NEW s \in Slots, Storing(s) PROVE RowsWritten
  BY <1>4, StoringRows DEF RowsWritten
<1>5. CASE Background
  <2>1. UNCHANGED <<checkin, seats, match>> /\ Next
    BY <1>5 DEF Background, dayVars, matchVars
  <2>2. \A r \in Rooms, u \in Users :
           application[r][u] = "confirmed" => application'[r][u] = "confirmed"
    BY <2>1, SettledStep DEF StoryInv
  <2> QED
    BY <2>1, <2>2 DEF RowsWritten
<1>6. CASE UNCHANGED allEventVars
  BY <1>2, <1>6 DEF allEventVars
<1> QED
  BY <1>3, <1>4, <1>5, <1>6 DEF EventNext

LEMMA GuestsStayStep ==
    ASSUME RoomConstants, StoryInv, GuestsInv, [EventNext]_allEventVars
    PROVE  GuestsStay
<1>1. ASSUME NEW r \in Rooms, NEW u \in Users
      PROVE  /\ checkin[r][u] # "none" => checkin'[r][u] # "none"
             /\ checkin[r][u] \in Arrived => checkin'[r][u] \in Arrived
  BY CheckinsStored, GuestRowsWritten DEF RowsWritten
<1> QED
  BY <1>1, BegunStays, GuestRowsWritten DEF GuestsStay, RowsWritten

LEMMA GuestRowsKept ==
    ASSUME RoomConstants, StoryInv, RequestsInv, GuestsInv, [EventNext]_allEventVars
    PROVE  RowsOfGuests'
<1>1. GuestsStay /\ RowsWritten
  BY GuestsStayStep, GuestRowsWritten
<1>2. \A r \in Rooms, u \in Users :
         application[r][u] = "confirmed" => application'[r][u] = "confirmed"
  BY <1>1 DEF RowsWritten
<1>3. /\ checkin' \in CheckinRows
      /\ \A r \in Rooms, u \in Users :
            checkin'[r][u] # "none" => application'[r][u] = "confirmed"
  <2>1. CASE UNCHANGED checkin
    BY <1>2, <2>1 DEF GuestsInv, RowsOfGuests, PaidInv, CheckinRows
  <2> QED
    BY <1>1, <1>2, <2>1, CheckinsStored DEF RowsWritten
<1>4. /\ DOMAIN seats' = Rooms
      /\ \A r \in Rooms :
            /\ NobodyTwice(seats'[r]) /\ EverybodyMeets(seats'[r])
            /\ \A t \in seats'[r] :
                  {t.male, t.female} \subseteq ConfirmedIn(application[r])
  <2>1. CASE UNCHANGED seats
    BY <2>1 DEF GuestsInv, RowsOfGuests, PaidInv, SeatedHavePaid, SeatingIsFair
  <2> QED
    BY <1>1, <2>1, SeatsStored DEF RowsWritten
<1>5. \A r \in Rooms : ConfirmedIn(application[r]) \subseteq ConfirmedIn(application'[r])
  BY <1>2 DEF ConfirmedIn
<1>6. \A r \in Rooms : \A t \in seats'[r] :
         {t.male, t.female} \subseteq ConfirmedIn(application'[r])
  BY <1>4, <1>5
<1>7. ASSUME NEW r \in Rooms, NEW u \in Users, NEW v \in Users, u # v,
             match'[r][{u, v}] # "absent"
      PROVE  status'[r] \in Begun /\ checkin'[r][u] \in Arrived
  <2> DEFINE pair == {u, v}
  <2>1. pair \in Pairs /\ u \in pair
    BY <1>7, PairIn
  <2>2. CASE match[r][pair] # "absent"
    <3>1. status[r] \in Begun /\ checkin[r][u] \in Arrived
      BY <1>7, <2>2, MatchedHaveArrived
    <3> QED
      BY <1>1, <3>1 DEF GuestsStay
  <2>3. CASE match'[r][pair] # match[r][pair]
    <3> HIDE DEF pair
    <3>1. status[r] \in Begun /\ checkin[r][u] \in Arrived
      BY <1>1, <2>1, <2>3, MatchesStored DEF RowsWritten
    <3> QED
      BY <1>1, <3>1 DEF GuestsStay
  <2> QED
    BY <1>7, <2>2, <2>3
<1>8. PaidInv'
  BY <1>3, <1>6 DEF PaidInv, SeatedHavePaid, ConfirmedIn
<1>9. SeatingIsFair'
  BY <1>4 DEF SeatingIsFair, NobodyTwice, EverybodyMeets
<1>10. MetAtTheEvent'
  BY <1>7 DEF MetAtTheEvent, Begun, Arrived
<1> QED
  BY <1>3, <1>4, <1>8, <1>9, <1>10 DEF RowsOfGuests, CheckinRows

LEMMA GuestsKept ==
    ASSUME EventConstantsOK, StoryInv, RequestsInv, GuestsInv,
           [EventNext]_allEventVars
    PROVE  GuestsInv'
<1> DEFINE Now(t) == Present(pc'[t], task'[t], view'[t], status', application', checkin')
<1>a. RoomConstants /\ SlotMaps
  BY DEF EventConstantsOK, StoryInv
<1>1. RowsOfGuests' /\ GuestsStay
  BY <1>a, GuestRowsKept, GuestsStayStep
<1>2. ASSUME NEW t \in Slots, pc'[t] = pc[t], task'[t] = task[t], view'[t] = view[t]
      PROVE  Now(t)
  BY <1>1, <1>2, PresentKept DEF GuestsInv
<1>3. ASSUME NEW s \in Slots, Others(s),
             Present(pc'[s], task'[s], view'[s], status, application, checkin)
      PROVE  \A t \in Slots : Now(t)
  <2>1. Now(s)
    BY <1>1, <1>3, PresentKept
  <2>2. \A t \in Slots \ {s} : Now(t)
    BY <1>2, <1>3 DEF Others
  <2> QED
    BY <2>1, <2>2
<1>4. ASSUME NEW s \in Slots, Arrive(s) PROVE \A t \in Slots : Now(t)
  BY <1>3, <1>4, ArriveUnderway, ArrivePresent
<1>5. ASSUME NEW s \in Slots, Reading(s) PROVE \A t \in Slots : Now(t)
  BY <1>3, <1>5, ReadingUnderway, ReadingPresent
<1>6. ASSUME NEW s \in Slots, Storing(s) \/ Fail(s) PROVE \A t \in Slots : Now(t)
  <2>1. Finish(s)
    BY <1>6, StoringKinds DEF Fail
  <2>2. Others(s) /\ pc'[s] = "idle"
    BY <1>a, <2>1, FinishShape DEF Others
  <2>3. Present("idle", task'[s], view'[s], status, application, checkin)
    BY DEF Present, Choosing
  <2> QED
    BY <1>3, <2>2, <2>3
<1>7. ASSUME UNCHANGED <<pc, task, view>> PROVE \A t \in Slots : Now(t)
  BY <1>2, <1>7
<1>8. \A t \in Slots : Now(t)
  <2> HIDE DEF Now
  <2>1. CASE Background
    BY <1>7, <2>1 DEF Background
  <2>2. CASE UNCHANGED allEventVars
    BY <1>7, <2>2 DEF allEventVars, eventRequestVars
  <2> QED
    BY <1>4, <1>5, <1>6, <2>1, <2>2 DEF EventNext
<1> QED
  BY <1>1, <1>8 DEF GuestsInv

LEMMA GuestsAlways ==
    ASSUME RoomConstants, AftermathConstants, EventConstants
    PROVE  EventSpec => []GuestsInv
<1>1. EventConstantsOK
  BY DEF EventConstantsOK
<1>2. Init /\ DayInit /\ MatchInit /\ AftermathInit /\ EventRequestInit
         => RequestsInv /\ GuestsInv
  <2>1. ASSUME DayInit, MatchInit, EventRequestInit PROVE GuestsInv
    <3>1. PaidInv /\ SeatingIsFair /\ DOMAIN seats = Rooms
      BY <2>1 DEF DayInit, PaidInv, SeatedHavePaid, SeatingIsFair, NobodyTwice,
         EverybodyMeets
    <3>2. MetAtTheEvent
      BY <2>1, PairIn DEF MatchInit, MetAtTheEvent
    <3>3. checkin \in [Rooms -> [Users -> Arrived \cup {"none", "open"}]]
      BY <2>1 DEF DayInit
    <3>4. \A s \in Slots :
             Present(pc[s], task[s], view[s], status, application, checkin)
      BY <2>1 DEF EventRequestInit, Present, Choosing
    <3> QED
      BY <3>1, <3>2, <3>3, <3>4 DEF GuestsInv, RowsOfGuests
  <2> QED
    BY <1>1, <2>1, InitRequests
<1>3. StoryInv /\ RequestsInv /\ GuestsInv /\ [EventNext]_allEventVars
         => RequestsInv' /\ GuestsInv'
  BY <1>1, RequestsStep, GuestsKept
<1> QED
  BY <1>2, <1>3, StoryAlways, PTL DEF EventSpec

(* For any number of requests in flight: check-ins are opened from a       *)
(* roster and seats taken from an attendance that were read before, and    *)
(* still nobody sits who has not paid, for payments are never taken back   *)
(* (checkin_service.py:41-81, rotation_service.py:84-129).                       *)
THEOREM SeatedGuestsPaid ==
    ASSUME RoomConstants, AftermathConstants, EventConstants
    PROVE  EventSpec => []SeatedHavePaid
<1>1. GuestsInv => SeatedHavePaid
  BY DEF GuestsInv, RowsOfGuests, PaidInv
<1> QED
  BY <1>1, GuestsAlways, PTL

(* For any number of requests in flight: starts, check-ins and profile     *)
(* edits between reading the attendance and storing the session leave a    *)
(* seating in which everybody meets everybody once                         *)
(* (rotation_service.py:46-60, 84-129).                                    *)
THEOREM SeatsStayFair ==
    ASSUME RoomConstants, AftermathConstants, EventConstants
    PROVE  EventSpec => []SeatingIsFair
<1>1. GuestsInv => SeatingIsFair
  BY DEF GuestsInv, RowsOfGuests
<1> QED
  BY <1>1, GuestsAlways, PTL

(* For any number of requests in flight: choices that are stored after the *)
(* event has ended or their guest was marked absent still match only those *)
(* who paid and had a check-in when the list was accepted                  *)
(* (choice_service.py:119-236).                                   *)
THEOREM MatchesComeFromTheEvent ==
    ASSUME RoomConstants, AftermathConstants, EventConstants
    PROVE  EventSpec => []MatchedAtTheEvent
<1>1. GuestsInv => MatchedAtTheEvent
  BY MetHavePaid DEF GuestsInv, RowsOfGuests
<1> QED
  BY <1>1, GuestsAlways, PTL

-----------------------------------------------------------------------------
(* The promises of RoomPromise with requests in flight.  Whoever is about  *)
(* to start an event has found the room confirmed; only the start or the   *)
(* end of its session moves it on from there.                              *)

Starting(p, k, S, T) ==
    p \in {"read_attendance", "store_session"} /\ S[k.room].status \notin Started
        => T[k.room] = "confirmed"

PhaseInv ==
    /\ EarlyInv /\ BonusInv
    /\ \A s \in Slots : Starting(pc[s], task[s], session, status)

(* The room and its session move with the room's own operations or with a  *)
(* statement that stores the session, never with both.                     *)
LEMMA StoryMoves ==
    ASSUME StoryInv, [EventNext]_allEventVars
    PROVE  \/ [Next]_vars /\ UNCHANGED session
           \/ \E s \in Slots : StoreSession(s) \/ StoreAdvance(s) \/ StoreEnd(s)
<1> DEFINE Aside == [Next]_vars /\ UNCHANGED session
<1>1. ASSUME UNCHANGED allAftermathVars PROVE Aside
  BY <1>1 DEF allAftermathVars, allMatchVars, allDayVars, dayVars
<1>2. ASSUME NEW s \in Slots, Arrive(s) \/ Reading(s) \/ Fail(s) PROVE Aside
  BY <1>1, <1>2, ArriveUnderway, ReadingUnderway DEF Fail
<1>3. ASSUME NEW s \in Slots, Storing(s)
      PROVE  Aside \/ StoreSession(s) \/ StoreAdvance(s) \/ StoreEnd(s)
  BY <1>3, StoringKinds DEF Quiet
<1>4. CASE Background
  BY <1>4 DEF Background, dayVars
<1>5. CASE UNCHANGED allEventVars
  BY <1>1, <1>5 DEF allEventVars
<1> HIDE DEF Aside
<1>6. Aside \/ \E s \in Slots : StoreSession(s) \/ StoreAdvance(s) \/ StoreEnd(s)
  <2>1. CASE Background
    BY <1>4, <2>1 DEF Aside
  <2> QED
    BY <1>2, <1>3, <1>5, <2>1 DEF EventNext, Aside
<1> QED
  BY <1>6 DEF Aside

LEMMA ConfirmedStays ==
    ASSUME RoomConstants, StoryInv, [EventNext]_allEventVars, NEW r \in Rooms,
           status[r] = "confirmed", session'[r].status \notin Started
    PROVE  status'[r] = "confirmed"
<1>1. CASE [Next]_vars
  <2>1. ASSUME NEW q \in Rooms, NEW u \in Users, MarkApplicationPaid(q, u)
        PROVE  status'[r] = "confirmed"
    BY <2>1 DEF MarkApplicationPaid, MaybePromoteToViable, PROMOTABLE_FROM,
       StoryInv, TypeOK
  <2>2. \/ UNCHANGED status
        \/ \E q \in Rooms : \E to :
              status[q] # "confirmed" /\ status' = [status EXCEPT ![q] = to]
        \/ \E q \in Rooms, u \in Users : MarkApplicationPaid(q, u)
    BY <1>1, StatusStep DEF StoryInv
  <2> QED
    BY <2>1, <2>2 DEF StoryInv, TypeOK
<1>2. ASSUME NEW s \in Slots, StoreSession(s) \/ StoreAdvance(s) \/ StoreEnd(s)
      PROVE  status'[r] = "confirmed"
  <2>1. PICK q \in Rooms, to \in SessionRow :
           /\ session' = [session EXCEPT ![q] = to]
           /\ \/ UNCHANGED status
              \/ /\ to.status \in Started
                 /\ \E x : status' = [status EXCEPT ![q] = x]
    BY <1>2, SessionMoves DEF Started
  <2> QED
    BY <2>1 DEF StoryInv, TypeOK
<1> QED
  BY <1>1, <1>2, StoryMoves

LEMMA ReadingStarts ==
    ASSUME SlotMaps, NEW s \in Slots, Reading(s),
           pc'[s] \in {"read_attendance", "store_session"}
    PROVE  pc[s] = "read_attendance"
<1> DEFINE Bad == pc[s] # "read_attendance"
<1> SUFFICES ASSUME Bad PROVE FALSE
  OBVIOUS
<1>1. ASSUME NEW v, NEW where, Proceed(s, v, where),
             where \notin {"read_attendance", "store_session"}
      PROVE  FALSE
  BY <1>1, ProceedShape
<1>2. AfterItem(s) \notin {"read_attendance", "store_session"}
  BY DEF AfterItem
<1>3. CASE ListCheckins(s)
  BY <1>1, <1>3 DEF ListCheckins
<1>4. CASE ListRounds(s)
  <2> DEFINE where == IF task[s].op = "next" THEN "store_advance" ELSE "store_end"
             v == [current |-> view[s].current, rows |-> rounds[task[s].room]]
  <2>1. Proceed(s, v, where) /\ where \notin {"read_attendance", "store_session"}
    BY <1>4 DEF ListRounds
  <2> HIDE DEF where, v
  <2> QED
    BY <1>1, <2>1
<1>5. CASE ReadChoice(s)
  <2> DEFINE x == Item(s).to
             own == view[s].own[x]
             row == choice[task[s].room][task[s].user][x]
             object == IF own = Unread THEN [was |-> row, now |-> row] ELSE own
             seen == [view[s] EXCEPT !.own[x] = [object EXCEPT !.now = Item(s).what]]
  <2>1. \/ Proceed(s, seen, "read_reverse")
        \/ Proceed(s, seen, "read_match")
        \/ Proceed(s, NextItem(s, seen), AfterItem(s))
    BY <1>5 DEF ReadChoice
  <2> HIDE DEF seen
  <2> QED
    BY <1>1, <1>2, <2>1
<1>6. CASE ReadReverse(s)
  BY <1>1, <1>2, <1>6 DEF ReadReverse
<1>7. CASE ReadMatch(s)
  <2>1. \E v : Proceed(s, v, AfterItem(s))
    BY <1>7 DEF ReadMatch
  <2> QED
    BY <1>1, <1>2, <2>1
<1> QED
  BY <1>3, <1>4, <1>5, <1>6, <1>7 DEF Reading, ReadAttendance

LEMMA StartingKept ==
    ASSUME RoomConstants, StoryInv, PhaseInv, [EventNext]_allEventVars
    PROVE  \A s \in Slots : Starting(pc'[s], task'[s], session', status')
<1> DEFINE Now(t) == Starting(pc'[t], task'[t], session', status')
           Places == {"read_attendance", "store_session"}
<1>a. SlotMaps /\ StoryStep
  BY StoryKept DEF StoryInv
<1>1. ASSUME NEW p, NEW k, Starting(p, k, session, status),
             p \in Places => k.room \in Rooms
      PROVE  Starting(p, k, session', status')
  BY <1>a, <1>1, ConfirmedStays DEF Starting, StoryStep
<1>2. ASSUME NEW t \in Slots, pc'[t] = pc[t], task'[t] = task[t] PROVE Now(t)
  BY <1>1, <1>2 DEF PhaseInv, StoryInv, Underway
<1>3. ASSUME NEW t \in Slots, pc'[t] \notin Places PROVE Now(t)
  BY <1>3 DEF Starting
<1>4. ASSUME NEW s \in Slots, Others(s), Now(s) PROVE \A t \in Slots : Now(t)
  BY <1>2, <1>4 DEF Others
<1>5. ASSUME NEW s \in Slots, Arrive(s) PROVE \A t \in Slots : Now(t)
  <2>1. UNCHANGED allAftermathVars /\ Others(s)
    BY <1>5, ArriveUnderway
  <2>2. UNCHANGED <<status, session>>
    BY <2>1 DEF allAftermathVars, allMatchVars, allDayVars, dayVars, vars, roomVars
  <2>3. ASSUME NEW k, NEW v, NEW where, Begin(s, k, v, where), where \notin Places
        PROVE  Now(s)
    BY <1>a, <1>3, <2>3, BeginShape
  <2>4. ASSUME NEW r \in Rooms, NEW p \in Planners, LoadStart(s, r, p) PROVE Now(s)
    <3>1. task'[s] = Ask("start", r, p, NoUser) /\ status[r] = "confirmed"
      BY <1>a, <2>4, BeginShape DEF LoadStart
    <3> QED
      BY <2>2, <3>1 DEF Starting, Ask
  <2> HIDE DEF Now
  <2>5. ASSUME NEW r \in Rooms, NEW p \in Planners, LoadOpenCheckin(s, r, p) PROVE Now(s)
    BY <2>3, <2>5 DEF LoadOpenCheckin
  <2>6. ASSUME NEW r \in Rooms, NEW p \in Planners, NEW u, NEW op,
               LoadCheckin(s, op, r, u, p)
        PROVE  Now(s)
    BY <2>3, <2>6 DEF LoadCheckin
  <2>7. ASSUME NEW r \in Rooms, NEW p \in Planners, NEW op, LoadSession(s, op, r, p)
        PROVE  Now(s)
    BY <2>3, <2>7 DEF LoadSession
  <2>8. ASSUME NEW r \in Rooms, NEW u, LoadChoices(s, r, u) PROVE Now(s)
    BY <2>3, <2>8 DEF LoadChoices
  <2>9. ASSUME NEW r \in Rooms, NEW u, NEW v, LoadMatch(s, r, u, v) PROVE Now(s)
    BY <2>3, <2>9 DEF LoadMatch
  <2>10. ASSUME NEW r \in Rooms, NEW u, LoadFeedback(s, r, u) PROVE Now(s)
    BY <2>3, <2>10 DEF LoadFeedback
  <2>11. ASSUME NEW c, LoadReport(s, c) PROVE Now(s)
    BY <2>3, <2>11 DEF LoadReport
  <2>12. ASSUME NEW i, NEW to, LoadClosing(s, i, to) PROVE Now(s)
    BY <2>3, <2>12 DEF LoadClosing
  <2>13. Now(s)
    BY <1>5, <2>4, <2>5, <2>6, <2>7, <2>8, <2>9, <2>10, <2>11, <2>12 DEF Arrive
  <2> QED
    BY <1>4, <2>1, <2>13
<1>6. ASSUME NEW s \in Slots, Reading(s) PROVE \A t \in Slots : Now(t)
  <2>1. task'[s] = task[s] /\ Others(s) /\ UNCHANGED allAftermathVars
    BY <1>a, <1>6, ReadingKeeps, ReadingUnderway
  <2>2. CASE pc'[s] \in Places
    <3>1. pc[s] = "read_attendance"
      BY <1>a, <1>6, <2>2, ReadingStarts
    <3>2. UNCHANGED <<status, session>>
      BY <2>1 DEF allAftermathVars, allMatchVars, allDayVars, dayVars, vars, roomVars
    <3>3. Now(s)
      BY <2>1, <3>1, <3>2 DEF Starting, PhaseInv
    <3> QED
      BY <1>4, <2>1, <3>3
  <2> QED
    BY <1>3, <1>4, <2>1, <2>2
<1>7. ASSUME NEW s \in Slots, Storing(s) \/ Fail(s) PROVE \A t \in Slots : Now(t)
  <2>1. Finish(s)
    BY <1>7, StoringKinds DEF Fail
  <2>2. Others(s) /\ pc'[s] = "idle"
    BY <1>a, <2>1, FinishShape DEF Others
  <2> QED
    BY <1>3, <1>4, <2>2
<1>8. ASSUME UNCHANGED <<pc, task>> PROVE \A t \in Slots : Now(t)
  BY <1>2, <1>8
<1> HIDE DEF Now
<1>9. \A t \in Slots : Now(t)
  <2>1. CASE Background
    BY <1>8, <2>1 DEF Background
  <2>2. CASE UNCHANGED allEventVars
    BY <1>8, <2>2 DEF allEventVars, eventRequestVars
  <2> QED
    BY <1>5, <1>6, <1>7, <2>1, <2>2 DEF EventNext
<1> QED
  BY <1>9 DEF Now

LEMMA PhaseStep ==
    ASSUME RoomConstants, StoryInv, PhaseInv, [EventNext]_allEventVars
    PROVE  PhaseInv' /\ [Promise!Next]_(Promise!vars)
<1>1. TypeOK /\ EarlyInv /\ BonusInv
  BY DEF StoryInv, PhaseInv
<1>2. CASE [Next]_vars
  BY <1>1, <1>2, EarlyStep, BonusStep, StepRefines, StartingKept DEF PhaseInv
<1>3. ASSUME NEW s \in Slots, StoreSession(s) \/ StoreAdvance(s) \/ StoreEnd(s)
      PROVE  /\ [Promise!Next]_(Promise!vars) /\ EarlyInv' /\ BonusInv'
  <2>1. PICK r \in Rooms :
           /\ UNCHANGED <<application, creditVars>>
           /\ \/ UNCHANGED status
              \/ /\ status[r] = "confirmed"
                 /\ status' = [status EXCEPT ![r] = "in_progress"]
              \/ /\ status[r] \in Begun
                 /\ status' = [status EXCEPT ![r] = "completed"]
    <3>1. CASE StoreSession(s)
      <4>1. /\ task[s].room \in Rooms /\ pc[s] = "store_session"
            /\ session[task[s].room] = NoSession
        BY <3>1 DEF StoreSession, StoryInv, Underway
      <4>2. status[task[s].room] = "confirmed"
        BY <4>1 DEF PhaseInv, Starting, NoSession, Started
      <4> QED
        BY <3>1, <4>1, <4>2 DEF StoreSession, SeatGuests
    <3>2. CASE StoreAdvance(s)
      BY <3>2 DEF StoreAdvance, StoryInv, Underway, vars, roomVars
    <3>3. CASE StoreEnd(s)
      <4>1. task[s].room \in Rooms /\ session[task[s].room].status \in Started
        BY <3>3 DEF StoreEnd, StoryInv, Underway
      <4>2. status[task[s].room] \in Begun
        BY <4>1, BegunAlike
      <4> QED
        BY <3>3, <4>1, <4>2 DEF StoreEnd
    <3> QED
      BY <1>3, <3>1, <3>2, <3>3
  <2>2. CASE status[r] = "completed" /\ status' = [status EXCEPT ![r] = "completed"]
    <3>1. UNCHANGED status
      BY <1>1, <2>2 DEF TypeOK
    <3> QED
      BY <1>1, <2>1, <3>1, EventMoveRefines
  <2> QED
    BY <1>1, <2>1, <2>2, EventMoveRefines DEF Begun
<1> QED
  BY <1>2, <1>3, StoryMoves, StartingKept DEF PhaseInv

(* For any number of requests in flight on the day of the event, the rooms *)
(* take no step that RoomPromise does not: no phase is skipped, repeated   *)
(* or taken back, not by two starts at once, an advance beside an end, or  *)
(* an end beside an end (rotation_service.py:153, 234).                    *)
THEOREM EventsKeepPromise == ASSUME RoomConstants PROVE EventSpec => DayKeepsPromise
<1>1. Init /\ EventRequestInit => PhaseInv
  BY DEF Init, EarlyInv, BonusInv, Promoted, EventRequestInit, PhaseInv, Starting
<1>2. StoryInv /\ PhaseInv /\ [EventNext]_allEventVars
         => PhaseInv' /\ [Promise!Next]_(Promise!vars)
  BY PhaseStep
<1> QED
  BY <1>1, <1>2, StoryAlways, PTL DEF EventSpec, DayKeepsPromise
=============================================================================
