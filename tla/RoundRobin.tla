----------------------------- MODULE RoundRobin -----------------------------
(***************************************************************************)
(* The seating of a balanced event: with n men and n women, n rounds of n  *)
(* tables in which the men stay and the women move on by one.              *)
(***************************************************************************)
EXTENDS Integers, Sequences

(* Rounds, tables and people are counted from 1 here.  ClampedVariant and  *)
(* ZeroBasedVariant are mistakes the properties must reveal.               *)

ClampedVariant(i, k, n) == IF i + k - 1 > n THEN n ELSE i + k - 1

(* Who sits opposite male i in round k: females[(i + r) % n].              *)
Opposite(i, k, n) == ((i + k - 2) % n) + 1

ZeroBasedVariant(males, females) ==
    LET n == Len(males)
    IN  {[round |-> k - 1, table |-> i, male |-> males[i],
          female |-> females[Opposite(i, k, n)]] : k \in 1..n, i \in 1..n}

RoundRobinPairs(males, females) ==
    LET n == Len(males)
    IN  {[round |-> k, table |-> i, male |-> males[i],
          female |-> females[Opposite(i, k, n)]] : k \in 1..n, i \in 1..n}

-----------------------------------------------------------------------------
(* Two people sit together at most once, and nobody sits at two tables of  *)
(* one round, nor shares a table with a second pair.                       *)
NobodyTwice(seats) ==
    /\ \A s, t \in seats :
          s.male = t.male /\ s.female = t.female => s = t
    /\ \A s, t \in seats :
          /\ s.round = t.round
          /\ s.male = t.male \/ s.female = t.female \/ s.table = t.table
          => s = t

EverybodyMeets(seats) ==
    \A s, t \in seats : \E w \in seats : w.male = s.male /\ w.female = t.female
=============================================================================
