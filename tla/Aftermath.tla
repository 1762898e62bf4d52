----------------------------- MODULE Aftermath -----------------------------
(***************************************************************************)
(* What people say of an event: the guests' feedback, and the reports that *)
(* anybody files and an admin closes.  As in the modules this one extends, *)
(* one action is one whole endpoint; EventRequests has the same operations *)
(* in flight together.                                                     *)
(***************************************************************************)
EXTENDS MatchChoices

CONSTANTS
    Reports,      \* bound: the reports that are filed
    Complaints    \* bound: who may report whom, and which room

ASSUME AftermathConstants ==
    Complaints \subseteq [by : Users, about : Users \cup {NoUser},
                          room : Rooms \cup {"none"}]

ReportStatus == {"open", "investigating", "resolved", "dismissed"}

VARIABLES
    feedback,   \* feedback[r][u]: how many rows of table feedback u has for r
    report      \* report[i]: a row of table reports, or NoReport

aftermathVars == <<feedback, report>>
allAftermathVars == <<allMatchVars, aftermathVars>>

(* A report is of a user, of a room, of both or of neither.                *)
NoReport == [status |-> "none", by |-> NoUser, about |-> NoUser, room |-> "none"]

AftermathInit ==
    /\ feedback = [r \in Rooms |-> [u \in Users |-> 0]]
    /\ report = [i \in Reports |-> NoReport]

-----------------------------------------------------------------------------
(* The operators named ...Variant are mistakes the properties must reveal. *)

MayGiveFeedbackAgainVariant(r, u) ==
    /\ Active(u)
    /\ status[r] \in CHOICE_OPEN_STATUSES
    /\ Attended(r, u)

MayGiveFeedback(r, u) ==
    /\ Active(u)
    /\ status[r] \in CHOICE_OPEN_STATUSES
    /\ Attended(r, u)
    /\ feedback[r][u] = 0

SubmitFeedback(r, u) ==
    /\ MayGiveFeedback(r, u)
    /\ feedback' = [feedback EXCEPT ![r][u] = @ + 1]
    /\ UNCHANGED <<allMatchVars, report>>

(* The reporter applied for the room at some time; the reported is present *)
(* there, or approved or confirmed for it.                                 *)
RelatedTo(r, u) == checkin[r][u] # "none" \/ application[r][u] # "none"

PartOf(r, v) ==
    Attended(r, v) \/ application[r][v] \in {"confirmed", "paid", "approved"}

MayReport(c) ==
    /\ Active(c.by)
    /\ c.about # c.by
    /\ c.room \in Rooms =>
          /\ status[c.room] # "none"
          /\ RelatedTo(c.room, c.by)
          /\ c.about \in Users => PartOf(c.room, c.about)

Filed(c) == [status |-> "open", by |-> c.by, about |-> c.about, room |-> c.room]

SubmitReport(i, c) ==
    /\ MayReport(c)
    /\ report[i] = NoReport
    /\ report' = [report EXCEPT ![i] = Filed(c)]
    /\ UNCHANGED <<allMatchVars, feedback>>

OPEN_REPORT_STATUSES == {"open", "investigating"}

CLOSED_REPORT_STATUSES == {"resolved", "dismissed"}

SetReportStatus(i, to) ==
    /\ report[i].status \in OPEN_REPORT_STATUSES
    /\ to \in CLOSED_REPORT_STATUSES
    /\ report' = [report EXCEPT ![i].status = to]
    /\ UNCHANGED <<allMatchVars, feedback>>

-----------------------------------------------------------------------------
AftermathStep ==
    \/ \E r \in Rooms, u \in Participants : SubmitFeedback(r, u)
    \/ \E i \in Reports, c \in Complaints : SubmitReport(i, c)
    \/ \E i \in Reports, to \in CLOSED_REPORT_STATUSES : SetReportStatus(i, to)

AftermathNext ==
    \/ MatchNext /\ UNCHANGED aftermathVars
    \/ AftermathStep

AftermathSpec ==
    Init /\ DayInit /\ MatchInit /\ AftermathInit /\ [][AftermathNext]_allAftermathVars

-----------------------------------------------------------------------------
(* Types of the rows of feedback and reports.                              *)
AftermathTypeOK ==
    /\ feedback \in [Rooms -> [Users -> Nat]]
    /\ report \in [Reports ->
          [status : ReportStatus \cup {"none"}, by : Users \cup {NoUser},
           about : Users \cup {NoUser}, room : Rooms \cup {"none"}]]
=============================================================================
