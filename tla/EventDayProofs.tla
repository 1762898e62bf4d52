--------------------------- MODULE EventDayProofs ---------------------------
(***************************************************************************)
(* What the day of an event guarantees for every number of rooms and       *)
(* guests, beside everything else that goes on in the rooms.               *)
(***************************************************************************)
EXTENDS EventDay, RoomLifecycleProofs, SequenceTheorems

-----------------------------------------------------------------------------
(* The seating is fair for every number of couples.                        *)

(* The women's move by one round after round is a bijection: as an index   *)
(* into the tables, and as an index into the rounds.                       *)
LEMMA ShiftValue ==
    ASSUME NEW n \in Nat \ {0}, NEW i \in 1..n, NEW k \in 1..n
    PROVE  Opposite(i, k, n) = IF i + k - 1 <= n THEN i + k - 1 ELSE i + k - 1 - n
<1>1. CASE i + k - 1 <= n
  <2>1. i + k - 2 \in 0..(n - 1)
    BY <1>1
  <2>2. (i + k - 2) % n = i + k - 2
    BY <2>1
  <2>3. QED
    BY <1>1, <2>2 DEF Opposite
<1>2. CASE i + k - 1 > n
  <2>1. i + k - 2 \in n..(2 * n - 1)
    BY <1>2
  <2>2. (i + k - 2) % n = i + k - 2 - n
    BY <2>1
  <2>3. QED
    BY <1>2, <2>2 DEF Opposite
<1>3. QED
  BY <1>1, <1>2

LEMMA ShiftIsInjective ==
    ASSUME NEW n \in Nat \ {0}, NEW i \in 1..n, NEW j \in 1..n,
           NEW k \in 1..n, NEW l \in 1..n
    PROVE  /\ Opposite(i, k, n) \in 1..n
           /\ Opposite(i, k, n) = Opposite(j, k, n) => i = j
           /\ Opposite(i, k, n) = Opposite(i, l, n) => k = l
<1>1. Opposite(i, k, n) = IF i + k - 1 <= n THEN i + k - 1 ELSE i + k - 1 - n
  BY ShiftValue
<1>2. Opposite(j, k, n) = IF j + k - 1 <= n THEN j + k - 1 ELSE j + k - 1 - n
  BY ShiftValue
<1>3. Opposite(i, l, n) = IF i + l - 1 <= n THEN i + l - 1 ELSE i + l - 1 - n
  BY ShiftValue
<1>4. QED
  BY <1>1, <1>2, <1>3

LEMMA ShiftIsSurjective ==
    ASSUME NEW n \in Nat \ {0}, NEW i \in 1..n, NEW j \in 1..n
    PROVE  \E k \in 1..n : Opposite(i, k, n) = j
<1> DEFINE k == IF j >= i THEN j - i + 1 ELSE j - i + 1 + n
<1>1. k \in 1..n
  OBVIOUS
<1>2. Opposite(i, k, n) = j
  BY <1>1, ShiftValue
<1>3. QED
  BY <1>1, <1>2

(* The schedule that start_session makes of two lists of people, each      *)
(* person listed once, is fair: nobody sits twice in a round or twice with *)
(* the same person, and everybody meets everybody of the other list.       *)
THEOREM RoundRobinIsFair ==
    ASSUME NEW n \in Nat \ {0}, NEW males, NEW females,
           Len(males) = n,
           \A i, j \in 1..n : males[i] = males[j] => i = j,
           \A i, j \in 1..n : females[i] = females[j] => i = j
    PROVE  /\ NobodyTwice(RoundRobinPairs(males, females))
           /\ EverybodyMeets(RoundRobinPairs(males, females))
<1> DEFINE pair(k, i) == [round |-> k, table |-> i, male |-> males[i],
                          female |-> females[Opposite(i, k, n)]]
           pairs == RoundRobinPairs(males, females)
<1>1. pairs = {pair(k, i) : k \in 1..n, i \in 1..n}
  BY DEF RoundRobinPairs
<1>2. \A s \in pairs : \E k, i \in 1..n : s = pair(k, i)
  BY <1>1
<1>3. ASSUME NEW k \in 1..n, NEW i \in 1..n, NEW l \in 1..n, NEW j \in 1..n
      PROVE  /\ males[i] = males[j]
                /\ females[Opposite(i, k, n)] = females[Opposite(j, l, n)]
                => i = j /\ k = l
             /\ k = l /\ females[Opposite(i, k, n)] = females[Opposite(j, l, n)]
                => i = j
  <2>1. /\ Opposite(i, k, n) \in 1..n
        /\ Opposite(j, l, n) \in 1..n
    BY ShiftIsInjective
  <2>2. ASSUME females[Opposite(i, k, n)] = females[Opposite(j, l, n)]
        PROVE  Opposite(i, k, n) = Opposite(j, l, n)
    BY <2>1, <2>2
  <2>3. i = j /\ Opposite(i, k, n) = Opposite(i, l, n) => k = l
    BY ShiftIsInjective
  <2>4. k = l /\ Opposite(i, k, n) = Opposite(j, k, n) => i = j
    BY ShiftIsInjective
  <2>5. males[i] = males[j] => i = j
    OBVIOUS
  <2>6. QED
    BY <2>2, <2>3, <2>4, <2>5
<1>4. NobodyTwice(pairs)
  <2> SUFFICES ASSUME NEW s \in pairs, NEW t \in pairs
               PROVE  /\ s.male = t.male /\ s.female = t.female => s = t
                      /\ /\ s.round = t.round
                         /\ \/ s.male = t.male
                            \/ s.female = t.female
                            \/ s.table = t.table
                         => s = t
    BY DEF NobodyTwice
  <2>1. PICK k, i \in 1..n : s = pair(k, i)
    BY <1>2
  <2>2. PICK l, j \in 1..n : t = pair(l, j)
    BY <1>2
  <2>3. males[i] = males[j] => i = j
    OBVIOUS
  <2>4. QED
    BY <1>3, <2>1, <2>2, <2>3
<1>5. EverybodyMeets(pairs)
  <2> SUFFICES ASSUME NEW s \in pairs, NEW t \in pairs
               PROVE  \E w \in pairs : w.male = s.male /\ w.female = t.female
    BY DEF EverybodyMeets
  <2>1. PICK k, i \in 1..n : s = pair(k, i)
    BY <1>2
  <2>2. PICK l, j \in 1..n : t = pair(l, j)
    BY <1>2
  <2>3. Opposite(j, l, n) \in 1..n
    BY ShiftIsInjective
  <2>4. PICK m \in 1..n : Opposite(i, m, n) = Opposite(j, l, n)
    BY <2>3, ShiftIsSurjective
  <2>5. /\ pair(m, i) \in pairs
        /\ pair(m, i).male = s.male
        /\ pair(m, i).female = t.female
    BY <1>1, <2>1, <2>2, <2>4
  <2>6. QED
    BY <2>5
<1>6. QED
  BY <1>4, <1>5

-----------------------------------------------------------------------------
(* The seating of a session. *)

LEMMA SequenceOfPeople ==
    ASSUME NEW S \in SUBSET Users, IsFiniteSet(Users)
    PROVE  /\ Cardinality(S) \in Nat
           /\ SetToSeq(S) \in [1..Cardinality(S) -> S]
           /\ \A i, j \in 1..Cardinality(S) :
                 SetToSeq(S)[i] = SetToSeq(S)[j] => i = j
           /\ Len(SetToSeq(S)) = Cardinality(S)
<1>1. IsFiniteSet(S)
  BY FS_Subset
<1>2. Cardinality(S) \in Nat /\ ExistsBijection(1..Cardinality(S), S)
  BY <1>1, FS_CardinalityType
<1>3. \E f \in [1..Cardinality(S) -> S] : IsInjective(f)
  BY <1>2 DEF ExistsBijection, Bijection, Injection
<1>4. SetToSeq(S) \in [1..Cardinality(S) -> S] /\ IsInjective(SetToSeq(S))
  BY <1>3 DEF SetToSeq
<1>5. Len(SetToSeq(S)) = Cardinality(S)
  BY <1>2, <1>4
<1>6. QED
  BY <1>2, <1>4, <1>5 DEF IsInjective

(* Two lists of as many people, each in its fixed order, are seated fairly. *)
LEMMA SeatingOfPeople ==
    ASSUME IsFiniteSet(Users), NEW M \in SUBSET Users, NEW F \in SUBSET Users,
           M # {}, Cardinality(M) = Cardinality(F)
    PROVE  LET n == Cardinality(M)
               pairs == RoundRobinPairs(SetToSeq(M), SetToSeq(F))
           IN  /\ n \in Nat \ {0}
               /\ pairs \subseteq [round : 1..n, table : 1..n, male : M, female : F]
               /\ NobodyTwice(pairs) /\ EverybodyMeets(pairs)
<1> DEFINE n == Cardinality(M)
           males == SetToSeq(M)
           females == SetToSeq(F)
           pairs == RoundRobinPairs(males, females)
<1>1. n \in Nat \ {0}
  BY FS_Subset, FS_EmptySet, FS_CardinalityType
<1>2. /\ males \in [1..n -> M] /\ Len(males) = n
      /\ \A i, j \in 1..n : males[i] = males[j] => i = j
  BY SequenceOfPeople
<1>3. /\ females \in [1..n -> F]
      /\ \A i, j \in 1..n : females[i] = females[j] => i = j
  BY SequenceOfPeople
<1> HIDE DEF n, males, females
<1>4. NobodyTwice(pairs) /\ EverybodyMeets(pairs)
  BY <1>1, <1>2, <1>3, RoundRobinIsFair
<1>5. ASSUME NEW s \in pairs
      PROVE  s \in [round : 1..n, table : 1..n, male : M, female : F]
  <2>1. PICK k, i \in 1..n :
           s = [round |-> k, table |-> i, male |-> males[i],
                female |-> females[Opposite(i, k, n)]]
    BY <1>2 DEF RoundRobinPairs
  <2>2. males[i] \in M /\ females[Opposite(i, k, n)] \in F
    BY <1>1, <1>2, <1>3, ShiftIsInjective
  <2>3. QED
    BY <2>1, <2>2
<1>6. QED
  BY <1>1, <1>4, <1>5 DEF n, males, females

(* The seats that a start leaves: fair, and for people checked in only.    *)
LEMMA StartSeats ==
    ASSUME RoomConstants, DayTypeOK, NEW r \in Rooms, NEW p \in Planners,
           StartSession(r, p)
    PROVE  /\ Len(rounds'[r]) \in Nat \ {0}
           /\ DOMAIN rounds'[r] = 1..Len(rounds'[r])
           /\ rounds'[r] \in Seq(RotationRoundStatus)
           /\ \A s \in seats'[r] : /\ s \in Seat
                                   /\ s.round \in DOMAIN rounds'[r]
                                   /\ s.table \in DOMAIN rounds'[r]
           /\ NobodyTwice(seats'[r]) /\ EverybodyMeets(seats'[r])
           /\ \A s \in seats'[r] : /\ checkin[r][s.male] = "checked_in"
                                   /\ checkin[r][s.female] = "checked_in"
<1> DEFINE M == CheckedInOf(r, "male")
           F == CheckedInOf(r, "female")
           n == Cardinality(M)
           pairs == RoundRobinPairs(SetToSeq(M), SetToSeq(F))
<1>1. IsFiniteSet(Users) /\ M \in SUBSET Users /\ F \in SUBSET Users
  BY DEF RoomConstants, CheckedInOf
<1>2. M # {} /\ n = Cardinality(F)
  BY DEF StartSession
<1>3. seats'[r] = pairs
  BY DEF StartSession, DayTypeOK
<1>4. /\ n \in Nat \ {0}
      /\ pairs \subseteq [round : 1..n, table : 1..n, male : M, female : F]
      /\ NobodyTwice(pairs) /\ EverybodyMeets(pairs)
  <2> HIDE DEF M, F
  <2>1. QED
    BY <1>1, <1>2, SeatingOfPeople
<1> HIDE DEF pairs
<1>6. /\ Len(rounds'[r]) = n /\ DOMAIN rounds'[r] = 1..n
      /\ rounds'[r] \in Seq({"active", "pending"})
  <2> DEFINE plan == [k \in 1..n |-> IF k = 1 THEN "active" ELSE "pending"]
  <2>1. rounds' = [rounds EXCEPT ![r] = plan]
    BY Zenon DEF StartSession
  <2>2. /\ plan \in Seq({"active", "pending"})
        /\ Len(plan) = n /\ DOMAIN plan = 1..n
    <3> HIDE DEF n
    <3>1. plan \in Seq({"active", "pending"})
      BY <1>4
    <3>2. QED
      BY <1>4, <3>1
  <2>3. r \in DOMAIN rounds
    BY DEF DayTypeOK
  <2> HIDE DEF plan
  <2>4. QED
    BY <2>1, <2>2, <2>3
<1>7. NobodyTwice(seats'[r]) /\ EverybodyMeets(seats'[r])
  BY <1>4, <1>3
<1>8. ASSUME NEW s \in seats'[r]
      PROVE  /\ s \in Seat /\ s.round \in 1..n /\ s.table \in 1..n
             /\ s.male \in M /\ s.female \in F
  BY <1>1, <1>4, <1>3 DEF Seat
<1>9. rounds'[r] \in Seq(RotationRoundStatus)
  BY <1>6 DEF RotationRoundStatus
<1>10. QED
  BY <1>4, <1>6, <1>7, <1>8, <1>9 DEF CheckedInOf

-----------------------------------------------------------------------------
(* Type correctness. *)

(* What a step of the event may do to the rest of the system.              *)
LEMMA DayStepFrame ==
    ASSUME DayTypeOK, NEW r \in Rooms, NEW p \in Planners, DayStep(r, p)
    PROVE  /\ UNCHANGED <<capacity, deadlinePassed, planner, application,
                          accountVars, creditVars>>
           /\ \/ UNCHANGED status
              \/ /\ StartSession(r, p) /\ status[r] = "confirmed"
                 /\ status' = [status EXCEPT ![r] = "in_progress"]
              \/ /\ EndSession(r, p)
                 /\ status' = [status EXCEPT ![r] = "completed"]
<1>1. CASE UNCHANGED vars
  BY <1>1 DEF vars, roomVars
<1>2. CASE StartSession(r, p)
  BY <1>2 DEF StartSession
<1>3. CASE EndSession(r, p)
  BY <1>3 DEF EndSession
<1>4. QED
  BY <1>1, <1>2, <1>3 DEF DayStep, OpenCheckin, ConfirmCheckinById,
     MarkNoShow, SetCheckin, NextRound

LEMMA DayInitTypeOK ==
    ASSUME RoomConstants, Init, DayInit PROVE DayTypeOK
<1>1. TypeOK
  BY InitTypeOK
<1>2. <<>> \in Seq(RotationRoundStatus)
  OBVIOUS
<1>3. QED
  BY <1>1, <1>2 DEF DayInit, DayTypeOK, NoSession

(* A step that moves no seat and lengthens no plan of rounds.              *)
LEMMA PlanKept ==
    ASSUME DayTypeOK, UNCHANGED seats,
           rounds' \in [Rooms -> Seq(RotationRoundStatus)],
           \A q \in Rooms : DOMAIN rounds'[q] = DOMAIN rounds[q],
           TypeOK',
           checkin' \in [Rooms -> [Users -> CheckInStatus \cup {"none"}]],
           session' \in [Rooms -> [status : RotationSessionStatus \cup {"none"},
                                   current : Nat]]
    PROVE  DayTypeOK'
  BY DEF DayTypeOK

LEMMA DayTypeStep ==
    ASSUME RoomConstants, DayTypeOK, NEW r \in Rooms, NEW p \in Planners,
           DayStep(r, p)
    PROVE  DayTypeOK'
<1>1. TypeOK'
  <2>1. /\ TypeOK
        /\ UNCHANGED <<capacity, deadlinePassed, planner, application,
                       accountVars, creditVars>>
        /\ \/ UNCHANGED status
           \/ \E s \in {"in_progress", "completed"} :
                 status' = [status EXCEPT ![r] = s]
    BY DayStepFrame DEF DayTypeOK
  <2>2. status' \in [Rooms -> RoomStatus \cup {"none"}]
    BY <2>1 DEF TypeOK, RoomStatus
  <2>3. QED
    BY <2>1, <2>2 DEF TypeOK, accountVars, creditVars
<1>2. CASE OpenCheckin(r, p)
  BY <1>1, <1>2, PlanKept DEF OpenCheckin, DayTypeOK, CheckInStatus
<1>3. CASE \E u \in Participants : ConfirmCheckinById(r, u, p) \/ MarkNoShow(r, u, p)
  <2>1. PICK u \in Users, s \in CheckInStatus :
           /\ checkin' = [checkin EXCEPT ![r][u] = s]
           /\ UNCHANGED <<session, rounds, seats>>
    BY <1>3 DEF ConfirmCheckinById, MarkNoShow, SetCheckin, CheckInStatus,
                RoomConstants
  <2>2. checkin' \in [Rooms -> [Users -> CheckInStatus \cup {"none"}]]
    BY <2>1 DEF DayTypeOK
  <2>3. QED
    BY <1>1, <2>1, <2>2, PlanKept DEF DayTypeOK
<1>4. CASE StartSession(r, p)
  <2>1. /\ \A q \in Rooms \ {r} :
              rounds'[q] = rounds[q] /\ seats'[q] = seats[q]
        /\ rounds' = [rounds EXCEPT ![r] = rounds'[r]]
        /\ seats' = [seats EXCEPT ![r] = seats'[r]]
        /\ session' = [session EXCEPT ![r] = [status |-> "running", current |-> 1]]
        /\ UNCHANGED checkin
    BY <1>4 DEF StartSession, DayTypeOK
  <2>2. /\ rounds' \in [Rooms -> Seq(RotationRoundStatus)]
        /\ seats' \in [Rooms -> SUBSET Seat]
    BY <1>4, <2>1, StartSeats DEF DayTypeOK
  <2>3. session' \in [Rooms -> [status : RotationSessionStatus \cup {"none"},
                                current : Nat]]
    BY <2>1 DEF DayTypeOK, RotationSessionStatus
  <2>4. \A q \in Rooms : \A s \in seats'[q] :
           s.round \in DOMAIN rounds'[q] /\ s.table \in DOMAIN rounds'[q]
    BY <1>4, <2>1, StartSeats DEF DayTypeOK
  <2>5. QED
    BY <1>1, <2>1, <2>2, <2>3, <2>4 DEF DayTypeOK
<1>5. CASE NextRound(r, p)
  <2> DEFINE now == session[r].current
             plan == [rounds[r] EXCEPT ![now] = "completed",
                                       ![now + 1] = "active"]
  <2>1. /\ rounds' = [rounds EXCEPT ![r] = plan]
        /\ session' = [session EXCEPT ![r].current = now + 1]
        /\ UNCHANGED <<checkin, seats>>
    BY <1>5, Zenon DEF NextRound
  <2>2. plan \in Seq(RotationRoundStatus) /\ DOMAIN plan = DOMAIN rounds[r]
    <3>1. /\ Len(rounds[r]) \in Nat
          /\ rounds[r] \in [1..Len(rounds[r]) -> RotationRoundStatus]
      BY DEF DayTypeOK
    <3>2. plan \in [1..Len(rounds[r]) -> RotationRoundStatus]
      BY <3>1 DEF RotationRoundStatus
    <3> HIDE DEF plan
    <3>3. plan \in Seq(RotationRoundStatus)
      BY <3>1, <3>2, IsASeq
    <3>4. QED
      BY <3>1, <3>2, <3>3
  <2> HIDE DEF plan
  <2>3. rounds' \in [Rooms -> Seq(RotationRoundStatus)]
    BY <2>1, <2>2 DEF DayTypeOK
  <2>4. session' \in [Rooms -> [status : RotationSessionStatus \cup {"none"},
                                current : Nat]]
    <3>1. now + 1 \in Nat
      BY DEF DayTypeOK
    <3> HIDE DEF now
    <3>2. [session[r] EXCEPT !.current = now + 1]
              \in [status : RotationSessionStatus \cup {"none"}, current : Nat]
      <4>1. session[r] \in [status : RotationSessionStatus \cup {"none"}, current : Nat]
        BY DEF DayTypeOK
      <4>2. QED
        BY <3>1, <4>1
    <3>3. session' = [session EXCEPT ![r] = [session[r] EXCEPT !.current = now + 1]]
      BY <2>1
    <3>4. QED
      BY <3>2, <3>3 DEF DayTypeOK
  <2>5. QED
    BY <1>1, <2>1, <2>2, <2>3, <2>4, PlanKept DEF DayTypeOK
<1>6. CASE EndSession(r, p)
  <2> DEFINE plan == [k \in DOMAIN rounds[r] |-> "completed"]
  <2>1. /\ rounds' = [rounds EXCEPT ![r] = plan]
        /\ session' = [session EXCEPT ![r].status = "completed"]
        /\ UNCHANGED <<checkin, seats>>
    BY <1>6 DEF EndSession, DayTypeOK
  <2>2. plan \in Seq(RotationRoundStatus) /\ DOMAIN plan = DOMAIN rounds[r]
    <3>1. Len(rounds[r]) \in Nat /\ DOMAIN rounds[r] = 1..Len(rounds[r])
      BY DEF DayTypeOK
    <3>2. QED
      BY <3>1 DEF RotationRoundStatus
  <2> HIDE DEF plan
  <2>3. rounds' \in [Rooms -> Seq(RotationRoundStatus)]
    BY <2>1, <2>2 DEF DayTypeOK
  <2>4. session' \in [Rooms -> [status : RotationSessionStatus \cup {"none"},
                                current : Nat]]
    <3> DEFINE row == [status : RotationSessionStatus \cup {"none"},
                       current : Nat]
    <3> DEFINE done == [session[r] EXCEPT !.status = "completed"]
    <3>1. session \in [Rooms -> row]
      BY DEF DayTypeOK
    <3>2. session' = [session EXCEPT ![r] = done]
      BY <2>1
    <3>3. "completed" \in RotationSessionStatus
      BY DEF RotationSessionStatus
    <3>4. done \in row
      BY <3>1, <3>3
    <3> HIDE DEF row, done
    <3>5. session' \in [Rooms -> row]
      BY <3>1, <3>2, <3>4
    <3>6. QED
      BY <3>5 DEF row
  <2>5. QED
    BY <1>1, <2>1, <2>2, <2>3, <2>4, PlanKept DEF DayTypeOK
<1>7. QED
  BY <1>2, <1>3, <1>4, <1>5, <1>6 DEF DayStep

LEMMA DayNextTypeOK ==
    ASSUME RoomConstants, DayTypeOK, [DayNext]_allDayVars PROVE DayTypeOK'
<1>1. CASE [Next]_vars /\ UNCHANGED dayVars
  <2>1. TypeOK'
    BY <1>1, NextTypeOK DEF DayTypeOK
  <2>2. QED
    BY <1>1, <2>1 DEF DayTypeOK, dayVars
<1>2. QED
  BY <1>1, DayTypeStep DEF DayNext, allDayVars

(* Every row of the event's tables is well formed, every seat at a table   *)
(* and in a round of its own session.                                      *)
THEOREM DayTypeCorrect == ASSUME RoomConstants PROVE DaySpec => []DayTypeOK
<1>1. Init /\ DayInit => DayTypeOK
  BY DayInitTypeOK
<1>2. DayTypeOK /\ [DayNext]_allDayVars => DayTypeOK'
  BY DayNextTypeOK
<1>3. QED
  BY <1>1, <1>2, PTL DEF DaySpec

-----------------------------------------------------------------------------
(* The order of the rounds. *)

OrderInv == RoundsInOrder /\ \A r \in Rooms :
    session[r].status \in {"none", "running", "completed"}

(* The part of OrderInv that is about room r.                              *)
InOrder(r) ==
    /\ session[r].status \in {"none", "running", "completed"}
    /\ status[r] = "in_progress" <=> session[r].status = "running"
    /\ status[r] = "completed" <=> session[r].status = "completed"
    /\ session[r].status = "running" =>
          /\ session[r].current \in DOMAIN rounds[r]
          /\ \A k \in DOMAIN rounds[r] :
                rounds[r][k] = IF k < session[r].current THEN "completed"
                               ELSE IF k = session[r].current THEN "active"
                               ELSE "pending"
    /\ session[r].status = "completed" =>
          \A k \in DOMAIN rounds[r] : rounds[r][k] = "completed"

LEMMA OrderByRoom == /\ OrderInv <=> \A r \in Rooms : InOrder(r)
                     /\ OrderInv' <=> \A r \in Rooms : InOrder(r)'
  BY DEF OrderInv, RoundsInOrder, InOrder

(* What goes on beside the event starts no event and ends none.            *)
LEMMA EventKept ==
    ASSUME RoomConstants, TypeOK, [Next]_vars, NEW r \in Rooms
    PROVE  \A s \in {"in_progress", "completed"} :
              status'[r] = s <=> status[r] = s
<1> USE DEF TypeOK
<1>1. ASSUME NEW q \in Rooms, NEW u \in Users, MarkApplicationPaid(q, u)
      PROVE  \/ UNCHANGED status
             \/ /\ status[q] \notin {"in_progress", "completed"}
                /\ status' = [status EXCEPT ![q] = "viable"]
  BY <1>1 DEF MarkApplicationPaid, MaybePromoteToViable, PROMOTABLE_FROM
<1>2. \/ UNCHANGED status
      \/ \E q \in Rooms, s \in {"draft", "published", "viable", "assigned",
                                "confirmed"} :
            /\ status[q] \notin {"in_progress", "completed"}
            /\ status' = [status EXCEPT ![q] = s]
  BY <1>1, StatusStep
<1>3. QED
  BY <1>2

LEMMA OrderStep ==
    ASSUME RoomConstants, DayTypeOK, OrderInv, NEW q \in Rooms,
           NEW p \in Planners, DayStep(q, p), NEW r \in Rooms
    PROVE  InOrder(r)'
<1>1. InOrder(r)
  BY OrderByRoom
<1>2. CASE UNCHANGED <<status, session, rounds>>
  BY <1>1, <1>2 DEF InOrder
<1>3. CASE StartSession(q, p)
  <2> DEFINE n == Cardinality(CheckedInOf(q, "male"))
             plan == [k \in 1..n |-> IF k = 1 THEN "active" ELSE "pending"]
  <2>1. /\ session' = [session EXCEPT ![q] = [status |-> "running", current |-> 1]]
        /\ rounds' = [rounds EXCEPT ![q] = plan]
        /\ status' = [status EXCEPT ![q] = "in_progress"]
    BY <1>3, Zenon DEF StartSession
  <2>2. CASE r # q
    BY <1>1, <2>1, <2>2 DEF InOrder, DayTypeOK, TypeOK
  <2>3. CASE r = q
    <3>1. n \in Nat \ {0}
      <4>1. Len(rounds'[q]) \in Nat \ {0} /\ DOMAIN rounds'[q] = 1..Len(rounds'[q])
        BY <1>3, StartSeats
      <4>2. CheckedInOf(q, "male") # {} /\ IsFiniteSet(CheckedInOf(q, "male"))
        BY <1>3, FS_Subset DEF StartSession, CheckedInOf, RoomConstants
      <4>3. QED
        BY <4>2, FS_EmptySet, FS_CardinalityType
    <3>2. rounds'[r] = plan /\ status'[r] = "in_progress"
          /\ session'[r] = [status |-> "running", current |-> 1]
      BY <2>1, <2>3 DEF DayTypeOK, TypeOK
    <3> HIDE DEF n
    <3>3. QED
      BY <3>1, <3>2 DEF InOrder
  <2>4. QED
    BY <2>2, <2>3
<1>4. CASE NextRound(q, p)
  <2> DEFINE now == session[q].current
             plan == [rounds[q] EXCEPT ![now] = "completed",
                                       ![now + 1] = "active"]
  <2>1. /\ rounds' = [rounds EXCEPT ![q] = plan]
        /\ session' = [session EXCEPT ![q].current = now + 1]
        /\ UNCHANGED status
        /\ session[q].status = "running" /\ now < Len(rounds[q])
    BY <1>4, Zenon DEF NextRound, vars, roomVars
  <2>2. CASE r # q
    BY <1>1, <2>1, <2>2 DEF InOrder, DayTypeOK
  <2>3. CASE r = q
    <3>1. /\ rounds'[r] = plan
          /\ session'[r].current = now + 1 /\ session'[r].status = "running"
      BY <2>1, <2>3 DEF DayTypeOK
    <3>2. now \in Nat /\ Len(rounds[q]) \in Nat /\ DOMAIN rounds[q] = 1..Len(rounds[q])
      BY DEF DayTypeOK
    <3>3. /\ now \in DOMAIN rounds[q]
          /\ \A k \in DOMAIN rounds[q] :
                rounds[q][k] = IF k < now THEN "completed"
                               ELSE IF k = now THEN "active" ELSE "pending"
      BY <1>1, <2>1, <2>3 DEF InOrder
    <3> HIDE DEF now
    <3>4. /\ DOMAIN plan = DOMAIN rounds[q] /\ now + 1 \in DOMAIN plan
          /\ \A k \in DOMAIN plan :
                plan[k] = IF k < now + 1 THEN "completed"
                          ELSE IF k = now + 1 THEN "active" ELSE "pending"
      <4>1. now + 1 \in DOMAIN rounds[q] /\ now # now + 1
        BY <2>1, <3>2, <3>3
      <4>2. /\ DOMAIN plan = DOMAIN rounds[q]
            /\ plan[now] = "completed" /\ plan[now + 1] = "active"
            /\ \A k \in DOMAIN rounds[q] \ {now, now + 1} :
                  plan[k] = rounds[q][k]
        BY <3>3, <4>1
      <4> HIDE DEF plan
      <4>3. ASSUME NEW k \in DOMAIN rounds[q]
            PROVE  plan[k] = IF k < now + 1 THEN "completed"
                             ELSE IF k = now + 1 THEN "active" ELSE "pending"
        BY <3>2, <3>3, <4>2
      <4>4. QED
        BY <4>1, <4>2, <4>3
    <3> HIDE DEF plan
    <3>5. QED
      BY <1>1, <2>1, <2>3, <3>1, <3>4 DEF InOrder
  <2>4. QED
    BY <2>2, <2>3
<1>5. CASE EndSession(q, p)
  <2> DEFINE plan == [k \in DOMAIN rounds[q] |-> "completed"]
  <2>1. /\ rounds' = [rounds EXCEPT ![q] = plan]
        /\ session' = [session EXCEPT ![q].status = "completed"]
        /\ status' = [status EXCEPT ![q] = "completed"]
    BY <1>5, Zenon DEF EndSession
  <2>2. CASE r # q
    BY <1>1, <2>1, <2>2 DEF InOrder, DayTypeOK, TypeOK
  <2>3. CASE r = q
    BY <2>1, <2>3 DEF InOrder, DayTypeOK, TypeOK
  <2>4. QED
    BY <2>2, <2>3
<1>6. QED
  BY <1>2, <1>3, <1>4, <1>5 DEF DayStep, OpenCheckin, ConfirmCheckinById,
     MarkNoShow, SetCheckin, vars, roomVars

LEMMA OrderKept ==
    ASSUME RoomConstants, DayTypeOK, OrderInv, [DayNext]_allDayVars
    PROVE  OrderInv'
<1>1. CASE [Next]_vars /\ UNCHANGED dayVars
  <2>1. ASSUME NEW r \in Rooms PROVE InOrder(r)'
    <3>1. InOrder(r) /\ TypeOK
      BY OrderByRoom DEF DayTypeOK
    <3>2. UNCHANGED <<session, rounds>>
      BY <1>1 DEF dayVars
    <3>3. QED
      BY <1>1, <3>1, <3>2, EventKept DEF InOrder
  <2>2. QED
    BY <2>1, OrderByRoom
<1>2. CASE \E r \in Rooms, p \in Planners : DayStep(r, p)
  BY <1>2, OrderStep, OrderByRoom
<1>3. QED
  BY <1>1, <1>2 DEF DayNext, allDayVars

(* The room, its session and the rounds agree through every step, for any  *)
(* number of rounds.                                                       *)
THEOREM RoundsKeepOrder == ASSUME RoomConstants PROVE DaySpec => []RoundsInOrder
<1>1. Init /\ DayInit => OrderInv
  BY DEF Init, DayInit, OrderInv, RoundsInOrder, NoSession
<1>2. DayTypeOK /\ OrderInv /\ [DayNext]_allDayVars => OrderInv'
  BY OrderKept
<1>3. OrderInv => RoundsInOrder
  BY DEF OrderInv
<1>4. QED
  BY <1>1, <1>2, <1>3, DayTypeCorrect, PTL DEF DaySpec

-----------------------------------------------------------------------------
(* The seats. *)

PaidInv == /\ SeatedHavePaid
           /\ \A r \in Rooms, u \in Users :
                 checkin[r][u] # "none" => application[r][u] = "confirmed"

LEMMA PaidStep ==
    ASSUME RoomConstants, DayTypeOK, PaidInv, NEW r \in Rooms,
           NEW p \in Planners, DayStep(r, p)
    PROVE  PaidInv'
<1>1. UNCHANGED application
  BY DayStepFrame
<1>2. CASE UNCHANGED <<checkin, seats>>
  BY <1>1, <1>2 DEF PaidInv, SeatedHavePaid, ConfirmedIn
<1>3. CASE OpenCheckin(r, p)
  <2>1. /\ checkin' = [checkin EXCEPT ![r] = [u \in Users |->
              IF u \in ConfirmedIn(application[r]) /\ @[u] \in {"none", "not_open"}
              THEN "open" ELSE @[u]]]
        /\ UNCHANGED seats
    BY <1>3, Zenon DEF OpenCheckin
  <2>2. \A q \in Rooms, u \in Users :
           checkin'[q][u] # "none" => application[q][u] = "confirmed"
    BY <2>1 DEF PaidInv, DayTypeOK, ConfirmedIn
  <2>3. QED
    BY <1>1, <2>1, <2>2 DEF PaidInv, SeatedHavePaid, ConfirmedIn
<1>4. CASE \E u \in Participants : ConfirmCheckinById(r, u, p) \/ MarkNoShow(r, u, p)
  <2>1. PICK u \in Users, s \in CheckInStatus :
           /\ checkin[r][u] # "none"
           /\ checkin' = [checkin EXCEPT ![r][u] = s]
           /\ UNCHANGED seats
    BY <1>4 DEF ConfirmCheckinById, MarkNoShow, SetCheckin, CheckInStatus,
                RoomConstants
  <2>2. \A q \in Rooms, v \in Users :
           checkin'[q][v] # "none" => application[q][v] = "confirmed"
    BY <2>1 DEF PaidInv, DayTypeOK
  <2>3. QED
    BY <1>1, <2>1, <2>2 DEF PaidInv, SeatedHavePaid, ConfirmedIn
<1>5. CASE StartSession(r, p)
  <2>1. /\ seats' = [seats EXCEPT ![r] = seats'[r]] /\ UNCHANGED checkin
        /\ \A s \in seats'[r] : s \in Seat
        /\ \A s \in seats'[r] : /\ checkin[r][s.male] = "checked_in"
                                /\ checkin[r][s.female] = "checked_in"
    BY <1>5, StartSeats DEF StartSession, DayTypeOK
  <2>2. \A s \in seats'[r] : {s.male, s.female} \subseteq ConfirmedIn(application[r])
    BY <2>1 DEF PaidInv, ConfirmedIn, Seat
  <2>3. ASSUME NEW q \in Rooms, NEW s \in seats'[q]
        PROVE  {s.male, s.female} \subseteq ConfirmedIn(application'[q])
    <3>1. CASE q = r
      BY <1>1, <2>2, <2>3, <3>1
    <3>2. CASE q # r
      <4>1. s \in seats[q]
        BY <2>1, <2>3, <3>2 DEF DayTypeOK
      <4>2. QED
        BY <1>1, <4>1 DEF PaidInv, SeatedHavePaid
    <3>3. QED
      BY <3>1, <3>2
  <2>4. SeatedHavePaid'
    BY <2>3 DEF SeatedHavePaid, ConfirmedIn
  <2>5. QED
    BY <1>1, <2>1, <2>4 DEF PaidInv
<1>6. QED
  BY <1>2, <1>3, <1>4, <1>5 DEF DayStep, NextRound, EndSession

LEMMA PaidKept ==
    ASSUME RoomConstants, DayTypeOK, PaidInv, [DayNext]_allDayVars
    PROVE  PaidInv'
<1>1. CASE [Next]_vars /\ UNCHANGED dayVars
  <2>1. \A r \in Rooms, u \in Users :
           application[r][u] = "confirmed" => application'[r][u] = "confirmed"
    BY <1>1, SettledStep DEF DayTypeOK
  <2>2. \A r \in Rooms : ConfirmedIn(application[r]) \subseteq ConfirmedIn(application'[r])
    BY <2>1 DEF ConfirmedIn
  <2>3. SeatedHavePaid'
    <3>1. ASSUME NEW r \in Rooms, NEW s \in seats[r]
          PROVE  {s.male, s.female} \subseteq ConfirmedIn(application'[r])
      BY <2>2, <3>1 DEF PaidInv, SeatedHavePaid
    <3>2. UNCHANGED seats
      BY <1>1 DEF dayVars
    <3>3. QED
      BY <3>1, <3>2 DEF SeatedHavePaid, ConfirmedIn
  <2>4. QED
    BY <1>1, <2>1, <2>3 DEF PaidInv, dayVars
<1>2. CASE \E r \in Rooms, p \in Planners : DayStep(r, p)
  BY <1>2, PaidStep
<1>3. QED
  BY <1>1, <1>2 DEF DayNext, allDayVars

(* Only guests who paid have a check-in, and only those who checked in are *)
(* seated: payments are never taken back.                                  *)
THEOREM GuestsHavePaid == ASSUME RoomConstants PROVE DaySpec => []SeatedHavePaid
<1>1. Init /\ DayInit => PaidInv
  BY DEF DayInit, PaidInv, SeatedHavePaid
<1>2. DayTypeOK /\ PaidInv /\ [DayNext]_allDayVars => PaidInv'
  BY PaidKept
<1>3. PaidInv => SeatedHavePaid
  BY DEF PaidInv
<1>4. QED
  BY <1>1, <1>2, <1>3, DayTypeCorrect, PTL DEF DaySpec

(* Whoever is present, everybody meets everybody once.                     *)
THEOREM SeatsAreFair == ASSUME RoomConstants PROVE DaySpec => []SeatingIsFair
<1>1. Init /\ DayInit => SeatingIsFair
  BY DEF DayInit, SeatingIsFair, NobodyTwice, EverybodyMeets
<1>2. ASSUME DayTypeOK, SeatingIsFair, [DayNext]_allDayVars PROVE SeatingIsFair'
  <2>1. CASE UNCHANGED seats
    BY <1>2, <2>1 DEF SeatingIsFair, NobodyTwice, EverybodyMeets
  <2>2. ASSUME NEW r \in Rooms, NEW p \in Planners, StartSession(r, p)
        PROVE  SeatingIsFair'
    <3>1. /\ NobodyTwice(seats'[r]) /\ EverybodyMeets(seats'[r])
          /\ \A q \in Rooms \ {r} : seats'[q] = seats[q]
      BY <1>2, <2>2, StartSeats DEF StartSession, DayTypeOK
    <3>2. ASSUME NEW q \in Rooms
          PROVE  NobodyTwice(seats'[q]) /\ EverybodyMeets(seats'[q])
      BY <1>2, <3>1 DEF SeatingIsFair
    <3>3. QED
      BY <3>2 DEF SeatingIsFair, NobodyTwice, EverybodyMeets
  <2>3. QED
    BY <1>2, <2>1, <2>2 DEF DayNext, DayStep, OpenCheckin, ConfirmCheckinById,
       MarkNoShow, SetCheckin, NextRound, EndSession, dayVars, allDayVars
<1>3. QED
  BY <1>1, <1>2, DayTypeCorrect, PTL DEF DaySpec

-----------------------------------------------------------------------------
(* The promises of RoomPromise through the event. *)

(* The two moves of a room's phase that the event makes.                   *)
LEMMA EventMoveRefines ==
    ASSUME TypeOK, EarlyInv, BonusInv, NEW r \in Rooms,
           UNCHANGED <<application, creditVars>>,
           \/ UNCHANGED status
           \/ /\ status[r] = "confirmed"
              /\ status' = [status EXCEPT ![r] = "in_progress"]
           \/ /\ status[r] = "in_progress"
              /\ status' = [status EXCEPT ![r] = "completed"]
    PROVE  [Promise!Next]_(Promise!vars) /\ EarlyInv' /\ BonusInv'
<1>1. Roster' = Roster /\ Rewarded' = Rewarded
  BY DEF Roster, Rewarded, Confirmed, ConfirmedIn, creditVars
<1>2. CASE UNCHANGED status
  BY <1>1, <1>2 DEF Promise!vars, EarlyInv, BonusInv, creditVars
<1>3. CASE ~UNCHANGED status
  <2>1. \/ Promise!Advance(r, "confirmed", "in_progress")
        \/ Promise!Advance(r, "in_progress", "completed")
    BY <1>1, <1>3 DEF Promise!Advance
  <2>2. Promise!Next
    BY <2>1 DEF Promise!Next
  <2>3. \A q \in Rooms :
           /\ q # r => status'[q] = status[q]
           /\ q = r => /\ status'[q] \in {"in_progress", "completed"}
                       /\ status[q] \in {"confirmed", "in_progress"}
    BY <1>3 DEF TypeOK
  <2>4. EarlyInv'
    BY <2>3 DEF EarlyInv
  <2>5. \A q \in Rooms : status'[q] \in Promoted <=> status[q] \in Promoted
    BY <2>3 DEF Promoted
  <2>6. BonusInv'
    BY <2>5 DEF BonusInv, creditVars
  <2>7. QED
    BY <2>2, <2>4, <2>6
<1>4. QED
  BY <1>2, <1>3

LEMMA DayStepRefines ==
    ASSUME DayTypeOK, OrderInv, EarlyInv, BonusInv, NEW r \in Rooms,
           NEW p \in Planners, DayStep(r, p)
    PROVE  [Promise!Next]_(Promise!vars) /\ EarlyInv' /\ BonusInv'
<1>1. UNCHANGED <<application, creditVars>>
  BY DayStepFrame
<1>2. CASE EndSession(r, p) /\ status' = [status EXCEPT ![r] = "completed"]
  <2>1. status[r] = "in_progress"
    BY <1>2 DEF EndSession, OrderInv, RoundsInOrder
  <2>2. QED
    BY <1>1, <1>2, <2>1, EventMoveRefines DEF DayTypeOK
<1>3. QED
  BY <1>1, <1>2, DayStepFrame, EventMoveRefines DEF DayTypeOK

(* With the event's own steps beside them the rooms still keep what        *)
(* RoomPromise says.                                                       *)
THEOREM DayImplementsPromise == ASSUME RoomConstants PROVE DaySpec => DayKeepsPromise
<1>1. Init /\ DayInit => OrderInv /\ EarlyInv /\ BonusInv
  BY DEF Init, DayInit, OrderInv, RoundsInOrder, NoSession, EarlyInv, BonusInv,
         Promoted
<1>2. DayTypeOK /\ OrderInv /\ [DayNext]_allDayVars => OrderInv'
  BY OrderKept
<1>3. ASSUME DayTypeOK, OrderInv, EarlyInv, BonusInv, [DayNext]_allDayVars
      PROVE  [Promise!Next]_(Promise!vars) /\ EarlyInv' /\ BonusInv'
  <2>1. CASE [Next]_vars
    BY <1>3, <2>1, EarlyStep, BonusStep, StepRefines DEF DayTypeOK
  <2>2. CASE \E r \in Rooms, p \in Planners : DayStep(r, p)
    BY <1>3, <2>2, DayStepRefines
  <2>3. QED
    BY <1>3, <2>1, <2>2 DEF DayNext, allDayVars
<1>4. QED
  BY <1>1, <1>2, <1>3, DayTypeCorrect, PTL DEF DaySpec, DayKeepsPromise
=============================================================================
