--------------------------- MODULE EventRequests ---------------------------
(***************************************************************************)
(* The day of the event, the choices and the aftermath as the backend runs *)
(* them: requests in flight together, each a transaction at PostgreSQL's   *)
(* READ COMMITTED that decides on what it has read and writes later, as in *)
(* RoomRequests.                                                           *)
(*                                                                         *)
(* The variables of Aftermath are the committed database.  A statement is  *)
(* a step; what a request checks before its first statement that can tell  *)
(* the difference is one step with it.  The handlers here write at their   *)
(* end only, in one flush before the commit: writing and committing is one *)
(* step, and a request whose flush meets a unique constraint can only      *)
(* fail.  The operations of RoomLifecycle are atomic here.                 *)
(***************************************************************************)
EXTENDS Aftermath

CONSTANTS
    Slots,      \* bound: requests served at the same time
    MaxItems    \* bound: the choices that one request submits

ASSUME EventConstants == IsFiniteSet(Slots) /\ MaxItems \in Nat

VARIABLES
    pc,        \* pc[s]: the statement that the request in slot s runs next
    task,      \* task[s]: what it asks for
    view,      \* view[s]: what it has read, and the objects it has changed
    touched    \* history: whether what it decides on has changed under it

eventRequestVars == <<pc, task, view, touched>>
allEventVars == <<allAftermathVars, eventRequestVars>>

(* The operators named ...Variant are mistakes the properties must reveal. *)

NoTask == [op |-> "none", room |-> "none", user |-> NoUser, other |-> NoUser,
           items |-> <<>>]

NoView == [read |-> "nothing"]

EventRequestInit ==
    /\ pc = [s \in Slots |-> "idle"]
    /\ task = [s \in Slots |-> NoTask]
    /\ view = [s \in Slots |-> NoView]
    /\ touched = [s \in Slots |-> FALSE]

-----------------------------------------------------------------------------
(* Steps of a slot.                                                        *)

Busy(s) == pc[s] # "idle"

Begin(s, t, v, where) ==
    /\ pc' = [pc EXCEPT ![s] = where]
    /\ task' = [task EXCEPT ![s] = t]
    /\ view' = [view EXCEPT ![s] = v]
    /\ UNCHANGED allAftermathVars

Ask(op, r, u, x) ==
    [op |-> op, room |-> r, user |-> u, other |-> x, items |-> <<>>]

Proceed(s, v, where) ==
    /\ pc' = [pc EXCEPT ![s] = where]
    /\ view' = [view EXCEPT ![s] = v]
    /\ UNCHANGED <<allAftermathVars, task>>

Finish(s) ==
    /\ pc' = [pc EXCEPT ![s] = "idle"]
    /\ task' = [task EXCEPT ![s] = NoTask]
    /\ view' = [view EXCEPT ![s] = NoView]

(* The request fails, by an error or by the loss of the process.           *)
Fail(s) ==
    /\ Busy(s)
    /\ Finish(s)
    /\ UNCHANGED allAftermathVars

-----------------------------------------------------------------------------
(* Check-in.                                                               *)

LoadOpenCheckin(s, r, p) ==
    /\ PlannerActs(r, p)
    /\ status[r] = "confirmed"
    /\ ConfirmedIn(application[r]) # {}
    /\ Begin(s, Ask("open", r, p, NoUser),
             [roster |-> ConfirmedIn(application[r])], "list_checkins")

ListCheckins(s) ==
    LET rows == checkin[task[s].room]
        roster == view[s].roster
    IN  /\ pc[s] = "list_checkins"
        /\ Proceed(s, [missing |-> {u \in roster : rows[u] = "none"},
                       unopened |-> {u \in roster : rows[u] = "not_open"}],
                   "store_openings")

StoreOpenings(s) ==
    LET r == task[s].room
    IN  /\ pc[s] = "store_openings"
        /\ \A u \in view[s].missing : checkin[r][u] = "none"
        /\ checkin' = [checkin EXCEPT ![r] = [u \in Users |->
              IF u \in view[s].missing \cup view[s].unopened THEN "open" ELSE @[u]]]
        /\ Finish(s)
        /\ UNCHANGED <<vars, session, rounds, seats, matchVars, aftermathVars>>

CheckinFrom == [confirm |-> {"open", "no_show"}, miss |-> {"open", "checked_in"}]

CheckinTo == [confirm |-> "checked_in", miss |-> "no_show"]

LoadCheckin(s, op, r, u, p) ==
    /\ PlannerActs(r, p)
    /\ checkin[r][u] \in CheckinFrom[op]
    /\ Begin(s, Ask(op, r, p, u), NoView, "store_checkin")

StoreCheckin(s) ==
    /\ pc[s] = "store_checkin"
    /\ checkin' = [checkin EXCEPT ![task[s].room][task[s].other] =
                      CheckinTo[task[s].op]]
    /\ Finish(s)
    /\ UNCHANGED <<vars, session, rounds, seats, matchVars, aftermathVars>>

-----------------------------------------------------------------------------
(* Rotation.                                                               *)

LoadStart(s, r, p) ==
    /\ PlannerActs(r, p)
    /\ status[r] = "confirmed"
    /\ session[r] = NoSession
    /\ Begin(s, Ask("start", r, p, NoUser), NoView, "read_attendance")

ReadExpectedVariant(s) ==
    LET there(g) == {u \in Users : checkin[task[s].room][u] \in {"open", "checked_in"}
                                   /\ profile[u].gender = g}
        males == there("male")
        females == there("female")
    IN  /\ pc[s] = "read_attendance"
        /\ males # {} /\ females # {}
        /\ Cardinality(males) = Cardinality(females)
        /\ Proceed(s, [males |-> males, females |-> females], "store_session")

ReadAttendance(s) ==
    LET males == CheckedInOf(task[s].room, "male")
        females == CheckedInOf(task[s].room, "female")
    IN  /\ pc[s] = "read_attendance"
        /\ males # {} /\ females # {}
        /\ Cardinality(males) = Cardinality(females)
        /\ Proceed(s, [males |-> males, females |-> females], "store_session")

SeatGuests(s) ==
    LET r == task[s].room
        n == Cardinality(view[s].males)
    IN  /\ session' = [session EXCEPT ![r] = [status |-> "running", current |-> 1]]
        /\ rounds' = [rounds EXCEPT ![r] =
              [k \in 1..n |-> IF k = 1 THEN "active" ELSE "pending"]]
        /\ seats' = [seats EXCEPT ![r] =
              RoundRobinPairs(SetToSeq(view[s].males), SetToSeq(view[s].females))]
        /\ status' = [status EXCEPT ![r] = "in_progress"]

StoreSecondSessionVariant(s) ==
    /\ pc[s] = "store_session"
    /\ SeatGuests(s)
    /\ Finish(s)
    /\ UNCHANGED <<capacity, deadlinePassed, planner, application, accountVars,
                   creditVars, checkin, matchVars, aftermathVars>>

(* rotation_sessions.room_id is unique.                                    *)
StoreSession(s) ==
    /\ pc[s] = "store_session"
    /\ session[task[s].room] = NoSession
    /\ SeatGuests(s)
    /\ Finish(s)
    /\ UNCHANGED <<capacity, deadlinePassed, planner, application, accountVars,
                   creditVars, checkin, matchVars, aftermathVars>>

LoadSession(s, op, r, p) ==
    /\ PlannerActs(r, p)
    /\ IF op = "next" THEN session[r].status = "running"
                      ELSE session[r].status \notin {"none", "completed"}
    /\ Begin(s, Ask(op, r, p, NoUser), [current |-> session[r].current],
             "list_rounds")

ListRounds(s) ==
    LET rows == rounds[task[s].room]
    IN  /\ pc[s] = "list_rounds"
        /\ task[s].op = "next" => view[s].current < Len(rows)
        /\ Proceed(s, [current |-> view[s].current, rows |-> rows],
                   IF task[s].op = "next" THEN "store_advance" ELSE "store_end")

(* The rounds and the session are written by column, if changed: a round   *)
(* that was loaded as completed is not completed again.                    *)
RoundsWritten(s, now, wanted) ==
    [k \in DOMAIN now |-> IF k \in DOMAIN wanted /\ wanted[k] # view[s].rows[k]
                          THEN wanted[k] ELSE now[k]]

StoreWholeSessionVariant(s) ==
    LET r == task[s].room
        now == view[s].current
    IN  /\ pc[s] = "store_advance"
        /\ rounds' = [rounds EXCEPT ![r] = RoundsWritten(s, @,
              [view[s].rows EXCEPT ![now] = "completed", ![now + 1] = "active"])]
        /\ session' = [session EXCEPT ![r] =
              [status |-> "running", current |-> now + 1]]
        /\ Finish(s)
        /\ UNCHANGED <<vars, checkin, seats, matchVars, aftermathVars>>

StoreAdvance(s) ==
    LET r == task[s].room
        now == view[s].current
    IN  /\ pc[s] = "store_advance"
        /\ rounds' = [rounds EXCEPT ![r] = RoundsWritten(s, @,
              [view[s].rows EXCEPT ![now] = "completed", ![now + 1] = "active"])]
        /\ session' = [session EXCEPT ![r].current = now + 1]
        /\ Finish(s)
        /\ UNCHANGED <<vars, checkin, seats, matchVars, aftermathVars>>

StoreEnd(s) ==
    LET r == task[s].room
    IN  /\ pc[s] = "store_end"
        /\ rounds' = [rounds EXCEPT ![r] = RoundsWritten(s, @,
              [k \in DOMAIN view[s].rows |-> "completed"])]
        /\ session' = [session EXCEPT ![r].status = "completed"]
        /\ status' = [status EXCEPT ![r] = "completed"]
        /\ Finish(s)
        /\ UNCHANGED <<capacity, deadlinePassed, planner, application,
                       accountVars, creditVars, checkin, seats, matchVars,
                       aftermathVars>>

-----------------------------------------------------------------------------
(* Choices.  own[v] is the row of the user's choice for v and res[v] that  *)
(* of their match, as an object of the session: what was read ("absent"    *)
(* without a row) and what it is now.  An object is read once; a row added *)
(* and not flushed is not found by a later query.                          *)

Unread == [was |-> "unread", now |-> "unread"]

Added(object) == object.was = "absent" /\ object.now # "absent"

Item(s) == task[s].items[view[s].at]

Named(items) == {items[k].to : k \in DOMAIN items}

Positions(items, v) == {k \in DOMAIN items : items[k].to = v}

(* items has cs for v, in this order, and nothing else.                    *)
ChosenFor(items, v, cs) ==
    \E i, j \in DOMAIN items :
        /\ i <= j /\ Positions(items, v) = {i, j}
        /\ cs = IF i = j THEN <<items[i].what>> ELSE <<items[i].what, items[j].what>>

ItemLists(T) ==
    {items \in BoundedSeq([to : T, what : ChoiceType], MaxItems) :
        /\ items # <<>>
        /\ \A v \in Named(items) : \E cs \in ChoiceLists : ChosenFor(items, v, cs)}

LoadChoices(s, r, u) ==
    /\ Active(u)
    /\ status[r] \in CHOICE_OPEN_STATUSES
    /\ profile[u] # NoProfile
    /\ Attended(r, u)
    /\ \E items \in ItemLists(ValidTargets(r, u)) :
          Begin(s, [op |-> "choose", room |-> r, user |-> u, other |-> NoUser,
                    items |-> items],
                [own |-> [v \in Named(items) |-> Unread],
                 res |-> [v \in Named(items) |-> Unread], at |-> 1],
                "read_choice")

NextItem(s, v) ==
    [v EXCEPT !.at = IF @ < Len(task[s].items) THEN @ + 1 ELSE @]

AfterItem(s) ==
    IF view[s].at < Len(task[s].items) THEN "read_choice" ELSE "store_choices"

(* A guest whose row this request has added is added a second time: such a *)
(* request has no step but Fail.                                           *)
ReadChoice(s) ==
    LET v == Item(s).to
        own == view[s].own[v]
        row == choice[task[s].room][task[s].user][v]
        object == IF own = Unread THEN [was |-> row, now |-> row] ELSE own
        seen == [view[s] EXCEPT !.own[v] = [object EXCEPT !.now = Item(s).what]]
    IN  /\ pc[s] = "read_choice"
        /\ ~Added(own)
        /\ \/ /\ Item(s).what = "interested"
              /\ Proceed(s, seen, "read_reverse")
           \/ /\ Item(s).what # "interested" /\ object.now = "interested"
              /\ Proceed(s, seen, "read_match")
           \/ /\ "interested" \notin {Item(s).what, object.now}
              /\ Proceed(s, NextItem(s, seen), AfterItem(s))

ReadReverse(s) ==
    /\ pc[s] = "read_reverse"
    /\ IF choice[task[s].room][Item(s).to][task[s].user] = "interested"
       THEN Proceed(s, view[s], "read_match")
       ELSE Proceed(s, NextItem(s, view[s]), AfterItem(s))

ReadMatch(s) ==
    LET v == Item(s).to
        res == view[s].res[v]
        row == match[task[s].room][{task[s].user, v}]
        object == IF res.now \in {"unread", "absent"}
                  THEN [was |-> row, now |-> row] ELSE res
        after == IF Added(res) THEN res
                 ELSE [object EXCEPT !.now =
                          Rematch(@, "interested", "interested", Item(s).what)]
    IN  /\ pc[s] = "read_match"
        /\ Added(res) => Item(s).what # "interested"
        /\ Proceed(s, NextItem(s, [view[s] EXCEPT !.res[v] = after]), AfterItem(s))

Stored(object, row) == IF object.was # object.now THEN object.now ELSE row

StoreChoices(s) ==
    LET r == task[s].room
        u == task[s].user
        own == view[s].own
        res == view[s].res
    IN  /\ pc[s] = "store_choices"
        /\ \A v \in DOMAIN own :
              /\ Added(own[v]) => choice[r][u][v] = "absent"
              /\ Added(res[v]) => match[r][{u, v}] = "absent"
        /\ choice' = [choice EXCEPT ![r][u] =
              [v \in Users |-> IF v \in DOMAIN own THEN Stored(own[v], @[v])
                               ELSE @[v]]]
        /\ match' = [match EXCEPT ![r] = [pair \in Pairs |->
              IF \E v \in DOMAIN res : pair = {u, v}
              THEN Stored(res[CHOOSE v \in DOMAIN res : pair = {u, v}], @[pair])
              ELSE @[pair]]]
        /\ Finish(s)
        /\ UNCHANGED <<allDayVars, proposers, aftermathVars>>

LoadMatch(s, r, u, v) ==
    /\ Active(u)
    /\ match[r][{u, v}] \in {"mutual", "after_proposed"}
    /\ Begin(s, Ask("propose", r, u, v), [loaded |-> match[r][{u, v}]],
             "store_proposal")

StoreProposal(s) ==
    LET r == task[s].room
        pair == {task[s].user, task[s].other}
    IN  /\ pc[s] = "store_proposal"
        /\ proposers' = [proposers EXCEPT ![r][pair] = @ \cup {task[s].user}]
        /\ match' = [match EXCEPT ![r][pair] =
              IF view[s].loaded = "mutual" THEN "after_proposed" ELSE @]
        /\ Finish(s)
        /\ UNCHANGED <<allDayVars, choice, aftermathVars>>

-----------------------------------------------------------------------------
(* Feedback and reports.                                                   *)

LoadFeedback(s, r, u) ==
    /\ MayGiveFeedback(r, u)
    /\ Begin(s, Ask("feedback", r, u, NoUser), NoView, "store_feedback")

(* Table feedback has no unique constraint on room and user.               *)
StoreFeedback(s) ==
    /\ pc[s] = "store_feedback"
    /\ feedback' = [feedback EXCEPT ![task[s].room][task[s].user] = @ + 1]
    /\ Finish(s)
    /\ UNCHANGED <<allMatchVars, report>>

LoadReport(s, c) ==
    /\ MayReport(c)
    /\ Begin(s, Ask("report", c.room, c.by, c.about), [complaint |-> c],
             "store_report")

StoreReport(s) ==
    /\ pc[s] = "store_report"
    /\ \E i \in Reports :
          /\ report[i] = NoReport
          /\ report' = [report EXCEPT ![i] = Filed(view[s].complaint)]
    /\ Finish(s)
    /\ UNCHANGED <<allMatchVars, feedback>>

LoadClosing(s, i, to) ==
    /\ report[i].status \in OPEN_REPORT_STATUSES
    /\ Begin(s, Ask("close", "none", NoUser, i), [to |-> to], "store_closing")

StoreClosing(s) ==
    /\ pc[s] = "store_closing"
    /\ report' = [report EXCEPT ![task[s].other].status = view[s].to]
    /\ Finish(s)
    /\ UNCHANGED <<allMatchVars, feedback>>

-----------------------------------------------------------------------------
Arrive(s) ==
    /\ ~Busy(s)
    /\ \/ \E r \in Rooms, p \in Planners :
             \/ LoadOpenCheckin(s, r, p)
             \/ \E u \in Participants, op \in DOMAIN CheckinFrom :
                   LoadCheckin(s, op, r, u, p)
             \/ LoadStart(s, r, p)
             \/ LoadSession(s, "next", r, p)
             \/ LoadSession(s, "end", r, p)
       \/ \E r \in Rooms, u \in Participants :
             \/ LoadChoices(s, r, u)
             \/ \E v \in Participants \ {u} : LoadMatch(s, r, u, v)
             \/ LoadFeedback(s, r, u)
       \/ \E c \in Complaints : LoadReport(s, c)
       \/ \E i \in Reports, to \in CLOSED_REPORT_STATUSES : LoadClosing(s, i, to)

Reading(s) ==
    \/ ListCheckins(s) \/ ReadAttendance(s) \/ ListRounds(s)
    \/ ReadChoice(s) \/ ReadReverse(s) \/ ReadMatch(s)

Storing(s) ==
    \/ StoreOpenings(s) \/ StoreCheckin(s)
    \/ StoreSession(s) \/ StoreAdvance(s) \/ StoreEnd(s)
    \/ StoreChoices(s) \/ StoreProposal(s)
    \/ StoreFeedback(s) \/ StoreReport(s) \/ StoreClosing(s)

(* All that the request in slot s decides on.                              *)
Footprint(s) ==
    LET r == task[s].room
        u == task[s].user
        x == task[s].other
        op == task[s].op
    IN  CASE op = "open" ->
               <<PlannerActs(r, u), status[r], ConfirmedIn(application[r]), checkin[r]>>
          [] op \in {"confirm", "miss"} -> <<PlannerActs(r, u), checkin[r][x]>>
          [] op = "start" ->
               <<PlannerActs(r, u), status[r], session[r],
                 CheckedInOf(r, "male"), CheckedInOf(r, "female")>>
          [] op \in {"next", "end"} ->
               <<PlannerActs(r, u), session[r], rounds[r]>>
          [] op = "choose" ->
               <<Active(u), status[r], Attended(r, u), [v \in Named(task[s].items) |->
                   <<choice[r][u][v], choice[r][v][u], match[r][{u, v}],
                     v \in ValidTargets(r, u)>>]>>
          [] op = "propose" -> <<Active(u), match[r][{u, x}]>>
          [] op = "feedback" -> <<MayGiveFeedback(r, u)>>
          [] op = "report" -> <<MayReport(view[s].complaint)>>
          [] op = "close" -> <<report[x]>>
          [] OTHER -> <<>>

Remember ==
    touched' = [s \in Slots |-> /\ Busy(s)
                                /\ Busy(s)'
                                /\ touched[s] \/ Footprint(s)' # Footprint(s)]

(* The operations of the rooms, the applications and the accounts.         *)
Background == Next /\ UNCHANGED <<dayVars, matchVars, aftermathVars, pc, task, view>>

EventNext ==
    \/ \E s \in Slots :
          \/ Arrive(s) /\ Remember
          \/ Reading(s) /\ Remember
          \/ Storing(s) /\ Remember
          \/ Fail(s) /\ Remember
    \/ Background /\ Remember

EventSpec ==
    Init /\ DayInit /\ MatchInit /\ AftermathInit /\ EventRequestInit
        /\ [][EventNext]_allEventVars

-----------------------------------------------------------------------------
(* Types of the requests in flight.  Nothing but the check before it stops *)
(* a second feedback: a guest has at most as many as there are requests at *)
(* once (feedback_service.py:44-53).                                       *)
EventRequestTypeOK ==
    /\ MatchTypeOK /\ AftermathTypeOK
    /\ \A r \in Rooms, u \in Users : feedback[r][u] <= Cardinality(Slots)
    /\ touched \in [Slots -> BOOLEAN]

(* README, the domain model: "Feedback (N) — 1 user 1 room".               *)
FeedbackOnce == \A r \in Rooms, u \in Users : feedback[r][u] <= 1

(* However starts, advances and ends of a session interleave, the room and *)
(* its session tell one story: in progress while it runs, completed when   *)
(* it is (rotation_service.py:121, 153, 203, 232-234).                     *)
RoomFollowsSession ==
    \A r \in Rooms :
        /\ status[r] = "in_progress" <=> session[r].status = "running"
        /\ status[r] = "completed" <=> session[r].status = "completed"

(* An event is started once and ended once: of two starts in flight one    *)
(* fails on the session's unique room and leaves the seating of the other, *)
(* and no request that was underway when the event ended revives it        *)
(* (rotation_service.py:71-80, 121-129, 218).                              *)
StartedOnceEndedOnce ==
    [][\A r \in Rooms :
          /\ session[r] # NoSession => seats'[r] = seats[r]
          /\ session[r].status = "completed" => session'[r].status = "completed"
      ]_allEventVars

(* The same operation as one step of the serial specification.             *)
Serially(s) ==
    LET r == task[s].room
        u == task[s].user
        x == task[s].other
        op == task[s].op
    IN  \/ /\ \/ op = "open" /\ OpenCheckin(r, u)
              \/ op = "confirm" /\ ConfirmCheckinById(r, x, u)
              \/ op = "miss" /\ MarkNoShow(r, x, u)
              \/ op = "start" /\ StartSession(r, u)
              \/ op = "next" /\ NextRound(r, u)
              \/ op = "end" /\ EndSession(r, u)
           /\ UNCHANGED <<matchVars, aftermathVars>>
        \/ /\ \/ op = "choose" /\ SubmitChoices(r, u)
              \/ op = "propose" /\ ProposeAfterDate(r, u, x)
           /\ UNCHANGED aftermathVars
        \/ op = "feedback" /\ SubmitFeedback(r, u)
        \/ op = "report" /\ \E i \in Reports : SubmitReport(i, view[s].complaint)
        \/ op = "close" /\ SetReportStatus(x, view[s].to)

(* A request under which nothing it decides on has changed commits exactly *)
(* what the serial operation does, statement order, unflushed objects and  *)
(* columns included: whatever differs from the serial specifications is    *)
(* the work of a race (rotation_service.py, checkin_service.py,            *)
(* choice_service.py, feedback_service.py, admin_service.py:424-447).      *)
UndisturbedIsSerial ==
    [][\A s \in Slots : Busy(s) /\ ~Busy(s)' /\ ~touched[s] =>
          Serially(s) \/ UNCHANGED allAftermathVars]_allEventVars

NamesTwice(items) ==
    \E j, k \in DOMAIN items : j < k /\ items[j].to = items[k].to

Agree(r, u, v) ==
    match[r][{u, v}] \in {"mutual", "after_proposed"} <=> Mutual(r, u, v)

(* Two guests have a live match exactly if each is interested in the       *)
(* other, and only two things end this: a choice or a proposal whose match *)
(* or choices another request changed under it, and a request that names   *)
(* one guest twice (choice_service.py:160-236, 344-345).                   *)
MatchesStrayOnlyIfRaced ==
    [][(\E s \in Slots : /\ pc[s] \in {"store_choices", "store_proposal"}
                         /\ ~Busy(s)'
                         /\ touched[s] \/ NamesTwice(task[s].items))
       \/ \A r \in Rooms, u, v \in Users :
             u # v /\ Agree(r, u, v) => Agree(r, u, v)']_<<choice, match>>
=============================================================================
