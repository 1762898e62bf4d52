------------------------- MODULE MatchChoicesProofs -------------------------
(***************************************************************************)
(* What choices and matches guarantee for every number of guests, whatever *)
(* becomes of check-ins, profiles and the rotation in the meantime.        *)
(***************************************************************************)
EXTENDS MatchChoices, EventDayProofs

-----------------------------------------------------------------------------
(* One request's effect on one pair. *)

Statuses == {"absent", "none", "mutual", "after_proposed"}

Live == {"mutual", "after_proposed"}

(* A choice keeps a match live exactly while both sides are interested.    *)
LEMMA RematchIffMutual ==
    ASSUME NEW m \in Statuses, NEW prev, NEW back, NEW c,
           m \in Live <=> prev = "interested" /\ back = "interested"
    PROVE  /\ Rematch(m, prev, back, c) \in Statuses
           /\ Rematch(m, prev, back, c) \in Live
                 <=> c = "interested" /\ back = "interested"
  BY DEF Rematch, Statuses, Live

LEMMA PairIn ==
    ASSUME NEW u \in Users, NEW v \in Users, u # v PROVE {u, v} \in Pairs
<1>1. <<u, v>> \in {q \in Users \X Users : q[1] # q[2]}
  OBVIOUS
<1>2. QED
  BY <1>1 DEF Pairs

MatchStatusInv == match \in [Rooms -> [Pairs -> Statuses]]

(* What a request of u for the guests in T leaves of choices and matches,  *)
(* if it names nobody twice.                                               *)
Submitted(r, u, T, list) ==
    /\ choice' = [choice EXCEPT ![r][u] = [v \in Users |->
          IF v \in T THEN list[v][1] ELSE @[v]]]
    /\ match' = [match EXCEPT ![r] = match'[r]]
    /\ match'[r] \in [Pairs -> {match'[r][pair] : pair \in Pairs}]
    /\ \A v \in T : match'[r][{u, v}]
          = Rematch(match[r][{u, v}], choice[r][u][v],
                    choice[r][v][u], list[v][1])
    /\ \A pair \in Pairs : (~\E v \in T : pair = {u, v})
          => match'[r][pair] = match[r][pair]

LEMMA SubmitEffect ==
    ASSUME MatchTypeOK, \A cs \in ChoiceLists : Len(cs) = 1,
           NEW r \in Rooms, NEW u \in Users, SubmitChoices(r, u)
    PROVE  \E T \in SUBSET (Users \ {u}) : \E list \in [T -> ChoiceLists] :
              Submitted(r, u, T, list)
<1> DEFINE Submits(T, list) ==
        /\ choice' = [choice EXCEPT ![r][u] = [v \in Users |->
              IF v \in T THEN list[v][Len(list[v])] ELSE @[v]]]
        /\ match' = [match EXCEPT ![r] = [pair \in Pairs |->
              IF \E v \in T : pair = {u, v}
              THEN LET v == CHOOSE v \in T : pair = {u, v}
                   IN  MatchAfter(@[pair], choice[r][u][v], choice[r][v][u], list[v])
              ELSE @[pair]]]
<1>0. PICK T \in (SUBSET ValidTargets(r, u)) \ {{}} :
        \E list \in [T -> ChoiceLists] : Submits(T, list)
  BY Zenon DEF SubmitChoices
<1>1. PICK list \in [T -> ChoiceLists] : Submits(T, list)
  BY <1>0, Zenon
<1>2. T \in SUBSET (Users \ {u})
  BY DEF ValidTargets
<1>3. \A v \in T : Len(list[v]) = 1
  OBVIOUS
<1> DEFINE new == [pair \in Pairs |->
              IF \E v \in T : pair = {u, v}
              THEN LET v == CHOOSE v \in T : pair = {u, v}
                   IN  MatchAfter(match[r][pair], choice[r][u][v], choice[r][v][u], list[v])
              ELSE match[r][pair]]
<1>4. match' = [match EXCEPT ![r] = new]
  BY <1>1, Zenon
<1>5. match'[r] = new
  BY <1>4 DEF MatchTypeOK
<1>6. ASSUME NEW v \in T
      PROVE  new[{u, v}] = Rematch(match[r][{u, v}], choice[r][u][v],
                                   choice[r][v][u], list[v][1])
  <2>1. {u, v} \in Pairs
    BY <1>2, PairIn
  <2>2. (CHOOSE w \in T : {u, v} = {u, w}) = v
    <3>1. \A w \in T : {u, v} = {u, w} => w = v
      BY <1>2
    <3>2. QED
      BY <3>1
  <2>3. new[{u, v}] = MatchAfter(match[r][{u, v}], choice[r][u][v],
                                 choice[r][v][u], list[v])
    BY <2>1, <2>2, Zenon
  <2>4. Head(list[v]) = list[v][1]
    OBVIOUS
  <2>5. QED
    BY <1>3, <2>3, <2>4 DEF MatchAfter
<1>7. \A pair \in Pairs : (~\E v \in T : pair = {u, v})
         => new[pair] = match[r][pair]
  BY Zenon
<1>8. choice' = [choice EXCEPT ![r][u] = [v \in Users |->
                   IF v \in T THEN list[v][1] ELSE @[v]]]
  BY <1>1, <1>3
<1> HIDE DEF new
<1>9. new \in [Pairs -> {new[pair] : pair \in Pairs}]
  BY DEF new
<1>10. match' = [match EXCEPT ![r] = match'[r]]
  BY <1>4, <1>5
<1>11. Submitted(r, u, T, list)
  BY <1>5, <1>6, <1>7, <1>8, <1>9, <1>10 DEF Submitted
<1>12. QED
  BY <1>2, <1>11, Zenon

-----------------------------------------------------------------------------
(* Matches and choices agree. *)

NobodyTwiceInAList == ChoiceConstants /\ \A cs \in ChoiceLists : Len(cs) = 1

MatchInv == MatchTypeOK /\ MatchStatusInv /\ MatchIffMutual

LEMMA LiveIffMutual ==
    ASSUME MatchInv, NEW r \in Rooms, NEW u \in Users, NEW v \in Users, u # v
    PROVE  /\ match[r][{u, v}] \in Statuses
           /\ match[r][{u, v}] \in Live
                 <=> choice[r][u][v] = "interested" /\ choice[r][v][u] = "interested"
<1>1. {u, v} \in Pairs
  BY PairIn
<1>2. QED
  BY <1>1 DEF MatchInv, MatchStatusInv, MatchIffMutual, Mutual, Live

LEMMA SubmitStep ==
    ASSUME NobodyTwiceInAList, MatchInv, NEW r \in Rooms, NEW u \in Users,
           SubmitChoices(r, u)
    PROVE  MatchInv'
<1>1. PICK T \in SUBSET (Users \ {u}) : \E list \in [T -> ChoiceLists] :
         Submitted(r, u, T, list)
  BY SubmitEffect DEF MatchInv, NobodyTwiceInAList
<1>2. PICK list \in [T -> ChoiceLists] : Submitted(r, u, T, list)
  BY <1>1, Zenon
<1>3. \A v \in T : list[v][1] \in ChoiceType
  <2>1. ASSUME NEW v \in T PROVE list[v][1] \in ChoiceType
    <3>1. list[v] \in Seq(ChoiceType) /\ Len(list[v]) = 1
      BY DEF NobodyTwiceInAList, ChoiceConstants
    <3>2. QED
      BY <3>1
  <2>2. QED
    BY <2>1
<1>4. choice' \in [Rooms -> [Users -> [Users -> ChoiceType \cup {"absent"}]]]
  BY <1>2, <1>3 DEF Submitted, MatchInv, MatchTypeOK
<1>5. \A q \in Rooms, w, v \in Users :
         choice'[q][w][v] = IF q = r /\ w = u /\ v \in T THEN list[v][1]
                            ELSE choice[q][w][v]
  BY <1>2 DEF Submitted, MatchInv, MatchTypeOK
<1>6. /\ match' = [match EXCEPT ![r] = match'[r]]
      /\ \A q \in Rooms \ {r} : match'[q] = match[q]
  BY <1>2 DEF Submitted, MatchInv, MatchTypeOK
<1>7. ASSUME NEW v \in T
      PROVE  /\ match'[r][{u, v}] \in Statuses
             /\ match'[r][{u, v}] \in Live <=>
                   choice'[r][u][v] = "interested" /\ choice'[r][v][u] = "interested"
  <2>1. v \in Users /\ v # u
    BY <1>1
  <2>2. choice'[r][u][v] = list[v][1] /\ choice'[r][v][u] = choice[r][v][u]
    BY <1>5, <2>1
  <2>3. match'[r][{u, v}] = Rematch(match[r][{u, v}], choice[r][u][v],
                                    choice[r][v][u], list[v][1])
    BY <1>2 DEF Submitted
  <2> DEFINE m == match[r][{u, v}]
             prev == choice[r][u][v]
             back == choice[r][v][u]
             c == list[v][1]
  <2>4. m \in Statuses /\ (m \in Live <=> prev = "interested" /\ back = "interested")
    BY <2>1, LiveIffMutual
  <2> DEFINE after == match'[r][{u, v}]
  <2>5. after = Rematch(m, prev, back, c)
    BY <2>3
  <2> HIDE DEF m, prev, back, c, after
  <2>6. after \in Statuses /\ (after \in Live <=> c = "interested" /\ back = "interested")
    BY <2>4, <2>5, RematchIffMutual
  <2>7. QED
    BY <2>2, <2>6 DEF after, back, c
<1>8. ASSUME NEW w \in Users, NEW v \in Users, w # v,
             ~(w = u /\ v \in T), ~(v = u /\ w \in T)
      PROVE  /\ match'[r][{w, v}] = match[r][{w, v}]
             /\ choice'[r][w][v] = choice[r][w][v]
             /\ choice'[r][v][w] = choice[r][v][w]
  <2>1. ~\E x \in T : {w, v} = {u, x}
    BY <1>8
  <2>2. {w, v} \in Pairs
    BY <1>8, PairIn
  <2>3. match'[r][{w, v}] = match[r][{w, v}]
    BY <1>2, <2>1, <2>2 DEF Submitted
  <2>4. QED
    BY <1>5, <1>8, <2>3
<1>9. ASSUME NEW q \in Rooms, NEW w \in Users, NEW v \in Users, w # v
      PROVE  /\ match'[q][{w, v}] \in Statuses
             /\ match'[q][{w, v}] \in Live <=>
                   choice'[q][w][v] = "interested" /\ choice'[q][v][w] = "interested"
  <2> DEFINE pair == {w, v}
  <2>0. /\ match[q][pair] \in Statuses
        /\ match[q][pair] \in Live
              <=> choice[q][w][v] = "interested" /\ choice[q][v][w] = "interested"
    BY <1>9, LiveIffMutual
  <2>1. CASE q # r
    <3> HIDE DEF pair
    <3>1. /\ match'[q] = match[q] /\ choice'[q][w][v] = choice[q][w][v]
          /\ choice'[q][v][w] = choice[q][v][w]
      BY <1>5, <1>6, <2>1
    <3>2. /\ match'[q][pair] \in Statuses
          /\ match'[q][pair] \in Live <=>
                choice'[q][w][v] = "interested" /\ choice'[q][v][w] = "interested"
      BY <2>0, <3>1
    <3>3. QED
      BY <3>2 DEF pair
  <2>2. CASE q = r /\ w = u /\ v \in T
    BY <1>7, <2>2
  <2>3. CASE q = r /\ v = u /\ w \in T
    <3>1. {w, v} = {v, w}
      OBVIOUS
    <3>2. QED
      BY <1>7, <2>3, <3>1
  <2>4. CASE q = r /\ ~(w = u /\ v \in T) /\ ~(v = u /\ w \in T)
    <3>1. /\ match'[q][pair] = match[q][pair]
          /\ choice'[q][w][v] = choice[q][w][v]
          /\ choice'[q][v][w] = choice[q][v][w]
      BY <1>8, <1>9, <2>4
    <3> HIDE DEF pair
    <3>2. /\ match'[q][pair] \in Statuses
          /\ match'[q][pair] \in Live <=>
                choice'[q][w][v] = "interested" /\ choice'[q][v][w] = "interested"
      BY <2>0, <3>1
    <3>3. QED
      BY <3>2 DEF pair
  <2>5. QED
    BY <2>1, <2>2, <2>3, <2>4
<1>10. MatchIffMutual'
  BY <1>9 DEF MatchIffMutual, Mutual, Live
<1>11. MatchStatusInv'
  <2>1. match'[r] \in [Pairs -> Statuses]
    <3>1. \A pair \in Pairs : \E w, v \in Users : w # v /\ pair = {w, v}
      BY DEF Pairs
    <3>2. \A pair \in Pairs : match'[r][pair] \in Statuses
      BY <1>9, <3>1
    <3>3. QED
      BY <1>2, <3>2 DEF Submitted
  <2>2. QED
    BY <1>6, <2>1 DEF MatchInv, MatchStatusInv
<1>12. MatchTypeOK'
  <2>1. Statuses \subseteq MatchStatus \cup {"absent"}
    BY DEF Statuses, MatchStatus
  <2>2. match' \in [Rooms -> [Pairs -> MatchStatus \cup {"absent"}]]
    BY <1>11, <2>1 DEF MatchStatusInv
  <2>3. UNCHANGED proposers
    BY DEF SubmitChoices
  <2>4. QED
    BY <1>4, <2>2, <2>3 DEF MatchTypeOK, MatchInv
<1>13. QED
  BY <1>10, <1>11, <1>12 DEF MatchInv

LEMMA ProposeStep ==
    ASSUME MatchInv, NEW r \in Rooms, NEW u \in Users, NEW v \in Users, u # v,
           ProposeAfterDate(r, u, v)
    PROVE  MatchInv'
<1>1. {u, v} \in Pairs /\ match[r][{u, v}] \in Live
  BY PairIn DEF ProposeAfterDate, Live
<1>2. /\ match' = [match EXCEPT ![r][{u, v}] = "after_proposed"]
      /\ UNCHANGED choice
  BY DEF ProposeAfterDate
<1> DEFINE pair == {u, v}
<1>3. MatchTypeOK'
  <2>1. /\ proposers' = [proposers EXCEPT ![r][pair] = @ \cup {u}]
        /\ match' = [match EXCEPT ![r][pair] = "after_proposed"]
        /\ pair \in Pairs /\ MatchTypeOK
    BY <1>1 DEF ProposeAfterDate, MatchInv
  <2> HIDE DEF pair
  <2>2. match' \in [Rooms -> [Pairs -> MatchStatus \cup {"absent"}]]
    BY <2>1 DEF MatchTypeOK, MatchStatus
  <2>3. proposers' \in [Rooms -> [Pairs -> SUBSET Users]]
    BY <2>1 DEF MatchTypeOK
  <2>4. QED
    BY <1>2, <2>1, <2>2, <2>3 DEF MatchTypeOK
<1>4. MatchStatusInv'
  BY <1>1, <1>2 DEF MatchInv, MatchStatusInv, Statuses
<1>5. ASSUME NEW q \in Rooms, NEW other \in Pairs
      PROVE  match'[q][other] \in Live <=> match[q][other] \in Live
  <2>1. /\ match' = [match EXCEPT ![r][pair] = "after_proposed"]
        /\ match[r][pair] \in Live
    BY <1>1, <1>2
  <2> HIDE DEF pair
  <2>2. QED
    BY <2>1 DEF MatchInv, MatchTypeOK, Live
<1>6. MatchIffMutual'
  <2>1. ASSUME NEW q \in Rooms, NEW a \in Users, NEW b \in Users, a # b
        PROVE  match'[q][{a, b}] \in Live <=> Mutual(q, a, b)'
    <3>1. match'[q][{a, b}] \in Live <=> match[q][{a, b}] \in Live
      BY <1>5, <2>1, PairIn
    <3>2. match[q][{a, b}] \in Live <=> Mutual(q, a, b)
      BY <2>1, LiveIffMutual DEF Mutual
    <3>3. Mutual(q, a, b)' <=> Mutual(q, a, b)
      BY <1>2 DEF Mutual
    <3>4. QED
      BY <3>1, <3>2, <3>3
  <2>2. QED
    BY <2>1 DEF MatchIffMutual, Live
<1>7. QED
  BY <1>3, <1>4, <1>6 DEF MatchInv

LEMMA MatchInvStep ==
    ASSUME RoomConstants, NobodyTwiceInAList, MatchInv, [MatchNext]_allMatchVars
    PROVE  MatchInv'
<1>1. CASE UNCHANGED matchVars
  <2>1. match' = match /\ choice' = choice /\ proposers' = proposers
    BY <1>1 DEF matchVars
  <2>2. MatchTypeOK' /\ MatchStatusInv'
    BY <2>1 DEF MatchInv, MatchTypeOK, MatchStatusInv
  <2>3. MatchIffMutual'
    <3>1. \A q \in Rooms, a, b \in Users : Mutual(q, a, b)' <=> Mutual(q, a, b)
      BY <2>1 DEF Mutual
    <3>2. ASSUME NEW q \in Rooms, NEW a \in Users, NEW b \in Users, a # b
          PROVE  match'[q][{a, b}] \in Live <=> Mutual(q, a, b)'
      <4>1. match[q][{a, b}] \in Live <=> Mutual(q, a, b)
        BY <3>2, LiveIffMutual DEF Mutual
      <4>2. QED
        BY <2>1, <3>1, <4>1
    <3>3. QED
      BY <3>2 DEF MatchIffMutual, Live
  <2>4. QED
    BY <2>2, <2>3 DEF MatchInv
<1>2. ASSUME NEW r \in Rooms, NEW u \in Participants, MatchStep(r, u)
      PROVE  MatchInv'
  BY <1>2, SubmitStep, ProposeStep DEF MatchStep, RoomConstants
<1>3. QED
  BY <1>1, <1>2 DEF MatchNext, allMatchVars

LEMMA MatchInvInit == ASSUME MatchInit PROVE MatchInv
<1>1. \A r \in Rooms, u, v \in Users : u # v => match[r][{u, v}] = "absent"
  BY PairIn DEF MatchInit
<1>2. MatchIffMutual
  BY <1>1 DEF MatchInit, MatchIffMutual, Mutual
<1>3. QED
  BY <1>2 DEF MatchInit, MatchInv, MatchTypeOK, MatchStatusInv, Statuses

(* If no list names a guest twice, two guests have a live match exactly    *)
(* when each is interested in the other, whatever they chose before.       *)
THEOREM MatchesAreMutual ==
    ASSUME RoomConstants, NobodyTwiceInAList
    PROVE  MatchSpec => []MatchIffMutual
<1>1. MatchInit => MatchInv
  BY MatchInvInit
<1>2. MatchInv /\ [MatchNext]_allMatchVars => MatchInv'
  BY MatchInvStep
<1>3. MatchInv => MatchIffMutual
  BY DEF MatchInv
<1>4. QED
  BY <1>1, <1>2, <1>3, PTL DEF MatchSpec

(* And nobody is proposed to who is not interested.                        *)
THEOREM OnlyTheInterestedAreAsked ==
    ASSUME RoomConstants, NobodyTwiceInAList
    PROVE  MatchSpec => ProposedToTheInterested
<1>1. ASSUME MatchInv, [MatchNext]_allMatchVars
      PROVE  [\A r \in Rooms, u, v \in Users : u # v =>
                (proposers'[r][{u, v}] # proposers[r][{u, v}]
                    => Mutual(r, u, v))]_allMatchVars
  <2>1. CASE UNCHANGED proposers
    BY <2>1
  <2>2. ASSUME NEW q \in Rooms, NEW a \in Users, NEW b \in Users, a # b,
               ProposeAfterDate(q, a, b),
               NEW r \in Rooms, NEW u \in Users, NEW v \in Users, u # v,
               proposers'[r][{u, v}] # proposers[r][{u, v}]
        PROVE  Mutual(r, u, v)
    <3>1. r = q /\ {u, v} = {a, b}
      BY <1>1, <2>2, PairIn DEF ProposeAfterDate, MatchInv, MatchTypeOK
    <3>2. match[r][{u, v}] \in {"mutual", "after_proposed"}
      BY <2>2, <3>1 DEF ProposeAfterDate
    <3>3. QED
      BY <1>1, <2>2, <3>2 DEF MatchInv, MatchIffMutual
  <2>3. QED
    BY <1>1, <2>1, <2>2 DEF MatchNext, MatchStep, SubmitChoices, matchVars,
       allMatchVars, RoomConstants
<1>2. MatchInit => MatchInv
  BY MatchInvInit
<1>3. MatchInv /\ [MatchNext]_allMatchVars => MatchInv'
  BY MatchInvStep
<1>4. QED
  BY <1>1, <1>2, <1>3, PTL DEF MatchSpec, ProposedToTheInterested

-----------------------------------------------------------------------------
(* Matches come from the event. *)

MetAtTheEvent ==
    \A r \in Rooms, u, v \in Users :
        u # v /\ match[r][{u, v}] # "absent" =>
            /\ status[r] \in {"in_progress", "completed"}
            /\ checkin[r][u] \in {"checked_in", "no_show"}

(* Once begun, the event of a room stays begun, and who was checked in has *)
(* been there or not, but has a check-in.                                  *)
LEMMA BegunStaysBegun ==
    ASSUME RoomConstants, DayTypeOK, [DayNext]_allDayVars, NEW r \in Rooms
    PROVE  /\ status[r] \in {"in_progress", "completed"}
                 => status'[r] \in {"in_progress", "completed"}
           /\ \A u \in Users : checkin[r][u] \in {"checked_in", "no_show"}
                 => checkin'[r][u] \in {"checked_in", "no_show"}
<1>1. CASE [Next]_vars /\ UNCHANGED dayVars
  BY <1>1, EventKept DEF DayTypeOK, dayVars
<1>2. ASSUME NEW q \in Rooms, NEW p \in Planners, DayStep(q, p)
      PROVE  /\ status[r] \in {"in_progress", "completed"}
                   => status'[r] \in {"in_progress", "completed"}
             /\ \A u \in Users : checkin[r][u] \in {"checked_in", "no_show"}
                   => checkin'[r][u] \in {"checked_in", "no_show"}
  <2>1. \/ UNCHANGED status
        \/ \E s \in {"in_progress", "completed"} :
              status' = [status EXCEPT ![q] = s]
    BY <1>2, DayStepFrame
  <2>2. status[r] \in {"in_progress", "completed"}
           => status'[r] \in {"in_progress", "completed"}
    BY <2>1 DEF DayTypeOK, TypeOK
  <2>3. CASE OpenCheckin(q, p)
    <3>1. checkin' = [checkin EXCEPT ![q] = [u \in Users |->
             IF u \in ConfirmedIn(application[q]) /\ @[u] \in {"none", "not_open"}
             THEN "open" ELSE @[u]]]
      BY <2>3, Zenon DEF OpenCheckin
    <3>2. QED
      BY <2>2, <3>1 DEF DayTypeOK
  <2>4. CASE \E u \in Participants : ConfirmCheckinById(q, u, p) \/ MarkNoShow(q, u, p)
    <3>1. PICK u \in Users, s \in {"checked_in", "no_show"} :
             checkin' = [checkin EXCEPT ![q][u] = s]
      BY <2>4 DEF ConfirmCheckinById, MarkNoShow, SetCheckin, RoomConstants
    <3>2. QED
      BY <2>2, <3>1 DEF DayTypeOK
  <2>5. CASE UNCHANGED checkin
    BY <2>2, <2>5
  <2>6. QED
    BY <1>2, <2>3, <2>4, <2>5 DEF DayStep, StartSession, NextRound, EndSession
<1>3. QED
  BY <1>1, <1>2 DEF DayNext, allDayVars

(* A request adds matches only between guests who are checked in then.     *)
LEMMA SubmitAddsAttended ==
    ASSUME MatchTypeOK, NEW r \in Rooms, NEW u \in Users, SubmitChoices(r, u),
           NEW q \in Rooms, NEW pair \in Pairs, match'[q][pair] # match[q][pair]
    PROVE  /\ q = r /\ status[r] \in {"in_progress", "completed"}
           /\ \A w \in pair : Attended(r, w)
<1> DEFINE Submits(T, list) ==
        /\ choice' = [choice EXCEPT ![r][u] = [v \in Users |->
              IF v \in T THEN list[v][Len(list[v])] ELSE @[v]]]
        /\ match' = [match EXCEPT ![r] = [other \in Pairs |->
              IF \E v \in T : other = {u, v}
              THEN LET v == CHOOSE v \in T : other = {u, v}
                   IN  MatchAfter(@[other], choice[r][u][v], choice[r][v][u], list[v])
              ELSE @[other]]]
<1>1. PICK T \in (SUBSET ValidTargets(r, u)) \ {{}} :
        \E list \in [T -> ChoiceLists] : Submits(T, list)
  BY Zenon DEF SubmitChoices
<1>2. PICK list \in [T -> ChoiceLists] : Submits(T, list)
  BY <1>1, Zenon
<1> DEFINE new == [other \in Pairs |->
              IF \E v \in T : other = {u, v}
              THEN LET v == CHOOSE v \in T : other = {u, v}
                   IN  MatchAfter(match[r][other], choice[r][u][v], choice[r][v][u], list[v])
              ELSE match[r][other]]
<1>3. match' = [match EXCEPT ![r] = new]
  BY <1>2, Zenon
<1>4. \A other \in Pairs : (~\E v \in T : other = {u, v})
         => new[other] = match[r][other]
  BY Zenon
<1> HIDE DEF new
<1>5. q = r /\ \E v \in T : pair = {u, v}
  BY <1>3, <1>4 DEF MatchTypeOK
<1>6. Attended(r, u) /\ \A v \in T : Attended(r, v)
  BY <1>1 DEF SubmitChoices, ValidTargets
<1>7. status[r] \in {"in_progress", "completed"}
  BY DEF SubmitChoices, CHOICE_OPEN_STATUSES
<1>8. QED
  BY <1>5, <1>6, <1>7

LEMMA LastChoice ==
    ASSUME ChoiceConstants, NEW cs \in ChoiceLists
    PROVE  cs[Len(cs)] \in ChoiceType
<1>1. cs \in Seq(ChoiceType) /\ Len(cs) \in {1, 2}
  BY DEF ChoiceConstants
<1>2. QED
  BY <1>1

(* Types, lists that name a guest twice included.                          *)
LEMMA SubmitTypeStep ==
    ASSUME ChoiceConstants, MatchTypeOK, NEW r \in Rooms, NEW u \in Users,
           SubmitChoices(r, u)
    PROVE  MatchTypeOK'
<1> DEFINE Submits(T, list) ==
        /\ choice' = [choice EXCEPT ![r][u] = [v \in Users |->
              IF v \in T THEN list[v][Len(list[v])] ELSE @[v]]]
        /\ match' = [match EXCEPT ![r] = [other \in Pairs |->
              IF \E v \in T : other = {u, v}
              THEN LET v == CHOOSE v \in T : other = {u, v}
                   IN  MatchAfter(@[other], choice[r][u][v], choice[r][v][u], list[v])
              ELSE @[other]]]
<1>1. PICK T \in (SUBSET ValidTargets(r, u)) \ {{}} :
        \E list \in [T -> ChoiceLists] : Submits(T, list)
  BY Zenon DEF SubmitChoices
<1>2. PICK list \in [T -> ChoiceLists] : Submits(T, list)
  BY <1>1, Zenon
<1>3. \A v \in T : list[v][Len(list[v])] \in ChoiceType
  <2>1. ASSUME NEW v \in T PROVE list[v][Len(list[v])] \in ChoiceType
    <3>1. list[v] \in ChoiceLists
      OBVIOUS
    <3>2. QED
      BY <3>1, LastChoice
  <2>2. QED
    BY <2>1
<1>4. choice' \in [Rooms -> [Users -> [Users -> ChoiceType \cup {"absent"}]]]
  <2> DEFINE row == [v \in Users |-> IF v \in T THEN list[v][Len(list[v])]
                                     ELSE choice[r][u][v]]
  <2>1. row \in [Users -> ChoiceType \cup {"absent"}]
    BY <1>3 DEF MatchTypeOK
  <2>2. choice' = [choice EXCEPT ![r][u] = row]
    BY <1>2, Zenon
  <2> HIDE DEF row
  <2>3. QED
    BY <2>1, <2>2 DEF MatchTypeOK
<1> DEFINE Known == MatchStatus \cup {"absent"}
<1>5. \A m \in Known : \A prev, back, c : Rematch(m, prev, back, c) \in Known
  BY DEF Rematch, MatchStatus
<1>6. \A m \in Known : \A prev, back, cs : MatchAfter(m, prev, back, cs) \in Known
  <2> HIDE DEF Known
  <2>1. QED
    BY <1>5 DEF MatchAfter
<1> DEFINE new == [other \in Pairs |->
              IF \E v \in T : other = {u, v}
              THEN LET v == CHOOSE v \in T : other = {u, v}
                   IN  MatchAfter(match[r][other], choice[r][u][v], choice[r][v][u], list[v])
              ELSE match[r][other]]
<1>7. match' = [match EXCEPT ![r] = new]
  BY <1>2, Zenon
<1>8. new \in [Pairs -> Known]
  <2>1. \A other \in Pairs : match[r][other] \in Known
    BY DEF MatchTypeOK
  <2> HIDE DEF Known
  <2>2. \A other \in Pairs : new[other] \in Known
    BY <1>6, <2>1
  <2>3. QED
    BY <2>2
<1> HIDE DEF new
<1>9. match' \in [Rooms -> [Pairs -> Known]]
  BY <1>7, <1>8 DEF MatchTypeOK
<1>10. UNCHANGED proposers
  BY DEF SubmitChoices
<1>11. QED
  BY <1>4, <1>9, <1>10 DEF MatchTypeOK

LEMMA ProposeTypeStep ==
    ASSUME MatchTypeOK, NEW r \in Rooms, NEW u \in Users, NEW v \in Users,
           u # v, ProposeAfterDate(r, u, v)
    PROVE  MatchTypeOK'
<1> DEFINE pair == {u, v}
<1>1. /\ proposers' = [proposers EXCEPT ![r][pair] = @ \cup {u}]
      /\ match' = [match EXCEPT ![r][pair] = "after_proposed"]
      /\ pair \in Pairs /\ UNCHANGED choice
  BY PairIn DEF ProposeAfterDate
<1> HIDE DEF pair
<1>2. match' \in [Rooms -> [Pairs -> MatchStatus \cup {"absent"}]]
  BY <1>1 DEF MatchTypeOK, MatchStatus
<1>3. proposers' \in [Rooms -> [Pairs -> SUBSET Users]]
  BY <1>1 DEF MatchTypeOK
<1>4. QED
  BY <1>1, <1>2, <1>3 DEF MatchTypeOK

(* What the guests do leaves the event alone; the event goes on as it does.*)
LEMMA MatchNextIsDayNext ==
    ASSUME [MatchNext]_allMatchVars PROVE [DayNext]_allDayVars
  BY DEF MatchNext, MatchStep, SubmitChoices, ProposeAfterDate, allMatchVars

(* Choices, matches and proposals keep their types.                        *)
THEOREM MatchTypeCorrect ==
    ASSUME RoomConstants, ChoiceConstants
    PROVE  MatchSpec => [](DayTypeOK /\ MatchTypeOK)
<1>1. MatchInit => MatchTypeOK
  BY DEF MatchInit, MatchTypeOK
<1>2. ASSUME MatchTypeOK, [MatchNext]_allMatchVars PROVE MatchTypeOK'
  <2>1. CASE UNCHANGED matchVars
    BY <1>2, <2>1 DEF matchVars, MatchTypeOK
  <2>2. ASSUME NEW r \in Rooms, NEW u \in Participants, MatchStep(r, u)
        PROVE  MatchTypeOK'
    BY <1>2, <2>2, SubmitTypeStep, ProposeTypeStep DEF MatchStep, RoomConstants
  <2>3. QED
    BY <1>2, <2>1, <2>2 DEF MatchNext, allMatchVars
<1>3. [MatchNext]_allMatchVars => [DayNext]_allDayVars
  BY MatchNextIsDayNext
<1>4. QED
  BY <1>1, <1>2, <1>3, DayTypeCorrect, PTL DEF MatchSpec, DaySpec

LEMMA MetKept ==
    ASSUME RoomConstants, DayTypeOK, MatchTypeOK, MetAtTheEvent,
           [MatchNext]_allMatchVars, NEW r \in Rooms, NEW u \in Users,
           NEW v \in Users, u # v, match'[r][{u, v}] # "absent"
    PROVE  /\ status'[r] \in {"in_progress", "completed"}
           /\ checkin'[r][u] \in {"checked_in", "no_show"}
<1> DEFINE pair == {u, v}
<1>1. pair \in Pairs
  BY PairIn
<1>2. \/ match[r][pair] # "absent"
      \/ status[r] \in {"in_progress", "completed"} /\ \A w \in pair : Attended(r, w)
  <2>1. ASSUME NEW q \in Rooms, NEW a \in Users, NEW b \in Users, a # b,
               ProposeAfterDate(q, a, b), match'[r][pair] # match[r][pair]
        PROVE  match[r][pair] # "absent"
    <3> DEFINE asked == {a, b}
    <3>1. /\ match' = [match EXCEPT ![q][asked] = "after_proposed"]
          /\ match[q][asked] \in {"mutual", "after_proposed"}
      BY <2>1 DEF ProposeAfterDate
    <3> HIDE DEF asked, pair
    <3>2. r = q /\ pair = asked
      BY <1>1, <2>1, <3>1 DEF MatchTypeOK
    <3>3. QED
      BY <3>1, <3>2
  <2>2. ASSUME NEW q \in Rooms, NEW a \in Users, SubmitChoices(q, a),
               match'[r][pair] # match[r][pair]
        PROVE  status[r] \in {"in_progress", "completed"}
               /\ \A w \in pair : Attended(r, w)
    <3> HIDE DEF pair
    <3>1. QED
      BY <1>1, <2>2, SubmitAddsAttended
  <2>3. CASE match'[r][pair] = match[r][pair]
    BY <2>3
  <2>4. CASE match'[r][pair] # match[r][pair]
    BY <2>1, <2>2, <2>4 DEF MatchNext, MatchStep, RoomConstants, matchVars,
       allMatchVars
  <2>5. QED
    BY <2>3, <2>4
<1>3. /\ status[r] \in {"in_progress", "completed"}
      /\ checkin[r][u] \in {"checked_in", "no_show"}
  BY <1>2 DEF MetAtTheEvent, Attended
<1>4. [DayNext]_allDayVars
  BY MatchNextIsDayNext
<1>5. QED
  BY <1>3, <1>4, BegunStaysBegun

LEMMA MetStep ==
    RoomConstants /\ DayTypeOK /\ MatchTypeOK /\ MetAtTheEvent
        /\ [MatchNext]_allMatchVars => MetAtTheEvent'
<1>1. ASSUME RoomConstants, DayTypeOK, MatchTypeOK, MetAtTheEvent,
             [MatchNext]_allMatchVars
      PROVE  \A r \in Rooms, u, v \in Users :
                u # v /\ match'[r][{u, v}] # "absent" =>
                    /\ status'[r] \in {"in_progress", "completed"}
                    /\ checkin'[r][u] \in {"checked_in", "no_show"}
  BY <1>1, MetKept
<1>2. QED
  BY <1>1 DEF MetAtTheEvent

LEMMA MetHavePaid == PaidInv /\ MetAtTheEvent => MatchedAtTheEvent
  BY DEF PaidInv, MetAtTheEvent, MatchedAtTheEvent, ConfirmedIn

(* Nobody is matched with a guest who did not pay or was never checked in, *)
(* nor before the event begins; lists that name a guest twice included.    *)
THEOREM MatchesAreOfTheEvent ==
    ASSUME RoomConstants, ChoiceConstants
    PROVE  MatchSpec => []MatchedAtTheEvent
<1>1. Init /\ DayInit /\ MatchInit => PaidInv /\ MetAtTheEvent
  <2>1. ASSUME MatchInit PROVE MetAtTheEvent
    BY <2>1, PairIn DEF MatchInit, MetAtTheEvent
  <2>2. QED
    BY <2>1 DEF DayInit, PaidInv, SeatedHavePaid
<1>2. DayTypeOK /\ PaidInv /\ [MatchNext]_allMatchVars => PaidInv'
  BY PaidKept, MatchNextIsDayNext
<1>3. DayTypeOK /\ MatchTypeOK /\ MetAtTheEvent /\ [MatchNext]_allMatchVars
         => MetAtTheEvent'
  BY MetStep
<1>4. PaidInv /\ MetAtTheEvent => MatchedAtTheEvent
  BY MetHavePaid
<1>5. QED
  BY <1>1, <1>2, <1>3, <1>4, MatchTypeCorrect, PTL DEF MatchSpec
=============================================================================
