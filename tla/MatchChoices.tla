---------------------------- MODULE MatchChoices ----------------------------
(***************************************************************************)
(* The guests' choices during and after the event, the mutual matches that *)
(* come out of them and the proposals of an after-date.                    *)
(*                                                                         *)
(* Check-ins and profiles go on changing under the choices, as EventDay    *)
(* has it.  One action is one whole endpoint.                              *)
(***************************************************************************)
EXTENDS EventDay

CONSTANT
    ChoiceLists   \* what one request may choose for one guest, in order

ChoiceType == {"interested", "not_interested", "maybe"}

MatchStatus == {"pending", "mutual", "one_sided", "none", "after_proposed",
                "after_confirmed", "closed"}

ASSUME ChoiceConstants ==
    \A cs \in ChoiceLists : cs \in Seq(ChoiceType) /\ Len(cs) \in {1, 2}

VARIABLES
    choice,     \* choice[r][u][v]: what u chose for v, "absent" without a row
    match,      \* match[r][{u, v}]: match_results.status, "absent" likewise
    proposers   \* proposers[r][{u, v}]: who proposed an after-date

matchVars == <<choice, match, proposers>>
allMatchVars == <<allDayVars, matchVars>>

(* The operators named ...Variant are mistakes the properties must reveal. *)

(* A match belongs to two people, in whichever order they chose.           *)
Pairs == {{p[1], p[2]} : p \in {q \in Users \X Users : q[1] # q[2]}}

MatchInit ==
    /\ choice = [r \in Rooms |-> [u \in Users |-> [v \in Users |-> "absent"]]]
    /\ match = [r \in Rooms |-> [pair \in Pairs |-> "absent"]]
    /\ proposers = [r \in Rooms |-> [pair \in Pairs |-> {}]]

-----------------------------------------------------------------------------
CHOICE_OPEN_STATUSES == {"in_progress", "completed"}

AnyCheckinVariant(r, u) == checkin[r][u] # "none"

Attended(r, u) == checkin[r][u] = "checked_in"

ValidTargets(r, u) ==
    {v \in Users \ {u} : /\ Attended(r, v)
                         /\ profile[v].gender \notin {"none", profile[u].gender}}

(* What one choice makes of the match with status m, if prev is what the   *)
(* chooser had chosen before and back what the chosen one has chosen.      *)
KeepsProposedVariant(m, prev, back, c) ==
    IF c = "interested"
    THEN IF back = "interested" /\ m \in {"absent", "none"} THEN "mutual" ELSE m
    ELSE IF prev = "interested" /\ m = "mutual" THEN "none" ELSE m

OneSidedMatchVariant(m, prev, back, c) ==
    IF c = "interested"
    THEN IF back = "interested" /\ m \in {"absent", "none"} THEN "mutual" ELSE m
    ELSE IF prev = "interested" /\ m \in {"mutual", "after_proposed"}
         THEN "withdrawn" ELSE m

Rematch(m, prev, back, c) ==
    IF c = "interested"
    THEN IF back = "interested" /\ m \in {"absent", "none"} THEN "mutual" ELSE m
    ELSE IF prev = "interested" /\ m \in {"mutual", "after_proposed"}
         THEN "none" ELSE m

(* A match that the first choice of a list adds is not flushed: the second *)
(* choice for the same guest does not find it.                             *)
MatchAfter(m, prev, back, cs) ==
    LET first == Rematch(m, prev, back, Head(cs))
    IN  IF Len(cs) = 1 \/ (m = "absent" /\ first # "absent") THEN first
        ELSE Rematch(first, Head(cs), back, cs[2])

(* A second choice for the same guest is a second row, against a unique    *)
(* constraint, unless the first one found a row; likewise for the match.   *)
Storable(m, prev, back, cs) ==
    Len(cs) = 2 =>
        /\ prev # "absent"
        /\ ~(m = "absent" /\ back = "interested" /\ cs = <<"interested", "interested">>)

(* One request chooses for any number of guests, for some of them perhaps  *)
(* more than once: list[v] is what it has for v, in order.                 *)
SubmitChoices(r, u) ==
    /\ Active(u)
    /\ status[r] \in CHOICE_OPEN_STATUSES
    /\ profile[u] # NoProfile
    /\ Attended(r, u)
    /\ \E T \in (SUBSET ValidTargets(r, u)) \ {{}} : \E list \in [T -> ChoiceLists] :
          /\ \A v \in T :
                Storable(match[r][{u, v}], choice[r][u][v], choice[r][v][u], list[v])
          /\ choice' = [choice EXCEPT ![r][u] = [v \in Users |->
                IF v \in T THEN list[v][Len(list[v])] ELSE @[v]]]
          /\ match' = [match EXCEPT ![r] = [pair \in Pairs |->
                IF \E v \in T : pair = {u, v}
                THEN LET v == CHOOSE v \in T : pair = {u, v}
                     IN  MatchAfter(@[pair], choice[r][u][v], choice[r][v][u], list[v])
                ELSE @[pair]]]
    /\ UNCHANGED <<allDayVars, proposers>>

ProposeAnywayVariant(r, u, v) ==
    /\ Active(u)
    /\ match[r][{u, v}] # "absent"
    /\ proposers' = [proposers EXCEPT ![r][{u, v}] = @ \cup {u}]
    /\ match' = [match EXCEPT ![r][{u, v}] = IF @ = "mutual" THEN "after_proposed" ELSE @]
    /\ UNCHANGED <<allDayVars, choice>>

ProposeAfterDate(r, u, v) ==
    /\ Active(u)
    /\ match[r][{u, v}] \in {"mutual", "after_proposed"}
    /\ proposers' = [proposers EXCEPT ![r][{u, v}] = @ \cup {u}]
    /\ match' = [match EXCEPT ![r][{u, v}] = "after_proposed"]
    /\ UNCHANGED <<allDayVars, choice>>

-----------------------------------------------------------------------------
MatchStep(r, u) ==
    \/ SubmitChoices(r, u)
    \/ \E v \in Participants \ {u} : ProposeAfterDate(r, u, v)

MatchNext ==
    \/ DayNext /\ UNCHANGED matchVars
    \/ \E r \in Rooms, u \in Participants : MatchStep(r, u)

MatchSpec == Init /\ DayInit /\ MatchInit /\ [][MatchNext]_allMatchVars

-----------------------------------------------------------------------------
MatchTypeOK ==
    /\ choice \in [Rooms -> [Users -> [Users -> ChoiceType \cup {"absent"}]]]
    /\ match \in [Rooms -> [Pairs -> MatchStatus \cup {"absent"}]]
    /\ proposers \in [Rooms -> [Pairs -> SUBSET Users]]

(* The two of a pair are each interested in the other.                     *)
Mutual(r, u, v) ==
    choice[r][u][v] = "interested" /\ choice[r][v][u] = "interested"

(* Two guests have a live match exactly when each of them is interested in *)
(* the other now, however often they changed their minds and whatever was  *)
(* proposed in between: nobody learns of an interest that is not returned  *)
(* (choice_service.py:188-239, README.md:244).                             *)
MatchIffMutual ==
    \A r \in Rooms, u, v \in Users : u # v =>
        (match[r][{u, v}] \in {"mutual", "after_proposed"} <=> Mutual(r, u, v))

(* A match is one of the event: it was begun, both guests have paid, and   *)
(* each has been checked in (choice_service.py:131-155).                   *)
MatchedAtTheEvent ==
    \A r \in Rooms, u, v \in Users :
        u # v /\ match[r][{u, v}] # "absent" =>
            /\ status[r] \in {"in_progress", "completed"}
            /\ u \in ConfirmedIn(application[r])
            /\ checkin[r][u] \in {"checked_in", "no_show"}

(* An after-date is proposed only to a guest who is interested at that     *)
(* moment (choice_service.py:331-337).                                     *)
ProposedToTheInterested ==
    [][\A r \in Rooms, u, v \in Users : u # v =>
          (proposers'[r][{u, v}] # proposers[r][{u, v}] => Mutual(r, u, v))]_allMatchVars
=============================================================================
