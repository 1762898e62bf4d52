------------------------- MODULE RateLimiterProofs -------------------------
(***************************************************************************)
(* The rate limiter keeps its rule and its word, for every rule and over   *)
(* any length of time.                                                     *)
(*                                                                         *)
(* The deque is the end of the list of all admitted requests, and what has *)
(* left it is older than the window; a promise lies beyond the expiry of   *)
(* the oldest request of a full deque.                                     *)
(***************************************************************************)
EXTENDS RateLimiter, WellFoundedInduction, TLAPS

(* b is the end of a, and the rest of a is older than w at time t.         *)
IsEndOf(b, a, w, t) ==
    /\ Len(a) - Len(b) \in Nat
    /\ \A i \in 1..Len(b) : b[i] = a[Len(a) - Len(b) + i]
    /\ \A i \in 1..Len(a) - Len(b) : a[i] + w < t

EndOfAdmitted ==
    \A k \in Keys : IsEndOf(bucket[k], admitted[k], Window[k], now)

PromisesKept ==
    \A k \in Keys :
        /\ Len(bucket[k]) <= Limit[k]
        /\ promised[k] # NoPromise /\ Len(bucket[k]) = Limit[k] =>
              bucket[k][1] + Window[k] < promised[k]

LimiterInv ==
    LimiterTypeOK /\ EndOfAdmitted /\ NeverMoreThanLimit /\ PromisesKept

-----------------------------------------------------------------------------
(* Sets of numbers, deques and whole seconds.                              *)

LEMMA LessThanIsWellFounded ==
    \E R : /\ IsWellFoundedOn(R, Nat)
           /\ \A x, y \in Nat : x < y => <<x, y>> \in R
<1> WITNESS OpToRel(<, Nat)
<1>1. IsWellFoundedOn(OpToRel(<, Nat), Nat)
  BY NatLessThanWellFounded
<1>2. \A x, y \in Nat : x < y => <<x, y>> \in OpToRel(<, Nat)
  BY DEF OpToRel
<1> QED
  BY <1>1, <1>2

(* A set of numbers has a least element.                                   *)
LEMMA LeastElement ==
    ASSUME NEW S, S \subseteq Nat, S # {}
    PROVE  \E n \in S : \A k \in S : n <= k
<1>1. PICK R : /\ IsWellFoundedOn(R, Nat)
               /\ \A x, y \in Nat : x < y => <<x, y>> \in R
  BY LessThanIsWellFounded
<1>2. \E n \in S : \A k \in S : ~ (<<k, n>> \in R)
  <2>1. IsWellFoundedOn(R, Nat)
    BY <1>1
  <2> QED
    BY <2>1, WFMin
<1>3. PICK n \in S : \A k \in S : ~ (<<k, n>> \in R)
  BY <1>2
<1>4. n \in Nat
  OBVIOUS
<1>5. ASSUME NEW k \in S PROVE n <= k
  <2>1. k \in Nat
    OBVIOUS
  <2>2. ~(k < n)
    BY <1>1, <1>3, <1>4, <2>1
  <2> QED
    BY <1>4, <2>1, <2>2
<1> QED
  BY <1>5

(* What popping expired times from the left of a deque leaves.             *)
LEMMA SinceIsSuffix ==
    ASSUME NEW b \in Seq(Nat), NEW cutoff \in Int
    PROVE  \E n \in 0..Len(b) :
              /\ Since(b, cutoff) = SubSeq(b, n + 1, Len(b))
              /\ \A i \in 1..n : b[i] < cutoff
              /\ n < Len(b) => b[n + 1] >= cutoff
<1> DEFINE Good(n) == /\ \A i \in 1..n : b[i] < cutoff
                      /\ n < Len(b) => b[n + 1] >= cutoff
<1>1. \E n \in 0..Len(b) : Good(n)
  <2>1. CASE \A i \in 1..Len(b) : b[i] < cutoff
    <3>1. Len(b) \in 0..Len(b) /\ Good(Len(b))
      BY <2>1
    <3> QED
      BY <3>1
  <2>2. CASE \E i \in 1..Len(b) : ~(b[i] < cutoff)
    <3> DEFINE Late == {i \in 1..Len(b) : ~(b[i] < cutoff)}
    <3>1. Late \subseteq Nat /\ Late # {}
      BY <2>2
    <3>2. \E n \in Late : \A j \in Late : n <= j
      <4> HIDE DEF Late
      <4> QED
        BY <3>1, LeastElement
    <3>3. PICK n \in Late : \A j \in Late : n <= j
      BY <3>2
    <3>4. n \in 1..Len(b) /\ ~(b[n] < cutoff) /\ b[n] \in Int
      OBVIOUS
    <3>5. \A i \in 1..n - 1 : b[i] < cutoff
      <4> SUFFICES ASSUME NEW i \in 1..n - 1, ~(b[i] < cutoff)
                   PROVE  FALSE
        OBVIOUS
      <4>1. i \in Late
        BY <3>4
      <4> QED
        BY <3>3, <3>4, <4>1
    <3>6. n - 1 \in 0..Len(b) /\ Good(n - 1)
      BY <3>4, <3>5
    <3> QED
      BY <3>6
  <2> QED
    BY <2>1, <2>2
<1> DEFINE m == CHOOSE n \in 0..Len(b) : Good(n)
<1>2. m \in 0..Len(b) /\ Good(m)
  <2> HIDE DEF Good
  <2> QED
    BY <1>1
<1>3. Since(b, cutoff) = SubSeq(b, m + 1, Len(b))
  BY DEF Since
<1> HIDE DEF m
<1> QED
  BY <1>2, <1>3

(* The same of the deque of k: some n requests have expired.               *)
LEMMA RecentIsEnd ==
    ASSUME LimiterTypeOK, NEW k \in Keys
    PROVE  \E n \in 0..Len(bucket[k]) :
              /\ Recent(k) \in Seq(Nat)
              /\ Len(Recent(k)) = Len(bucket[k]) - n
              /\ \A i \in 1..Len(bucket[k]) - n : Recent(k)[i] = bucket[k][n + i]
              /\ \A i \in 1..n : bucket[k][i] + Window[k] < now
              /\ n < Len(bucket[k]) => bucket[k][n + 1] + Window[k] >= now
<1> DEFINE b == bucket[k]
<1>1. b \in Seq(Nat) /\ now \in Nat /\ Window[k] \in Nat
  BY LimiterConstants DEF LimiterTypeOK
<1>2. PICK n \in 0..Len(b) :
         /\ Since(b, now - Window[k]) = SubSeq(b, n + 1, Len(b))
         /\ \A i \in 1..n : b[i] < now - Window[k]
         /\ n < Len(b) => b[n + 1] >= now - Window[k]
  <2>1. now - Window[k] \in Int
    BY <1>1
  <2> HIDE DEF b
  <2> QED
    BY <1>1, <2>1, SinceIsSuffix
<1>3. Recent(k) = SubSeq(b, n + 1, Len(b))
  BY <1>2 DEF Recent
<1> HIDE DEF b
<1>4. /\ Recent(k) \in Seq(Nat)
      /\ Len(Recent(k)) = Len(b) - n
      /\ \A i \in 1..Len(b) - n : Recent(k)[i] = b[n + i]
  BY <1>1, <1>3
<1>5. \A i \in 1..n : b[i] + Window[k] < now
  BY <1>1, <1>2
<1>6. n < Len(b) => b[n + 1] + Window[k] >= now
  BY <1>1, <1>2
<1> QED
  BY <1>4, <1>5, <1>6 DEF b

(* Rounding down and adding one second is later than the exact time.       *)
LEMMA WholeSecondsSuffice ==
    ASSUME NEW t \in Nat, NEW q \in Nat \ {0}
    PROVE  /\ t \div q \in Nat
           /\ q * (t \div q + 1) \in Nat
           /\ t < q * (t \div q + 1)
OBVIOUS

-----------------------------------------------------------------------------
(* The invariant.                                                          *)

LEMMA LimiterInitially == LimiterInit => LimiterInv
BY LimiterConstants
   DEF LimiterInit, LimiterInv, LimiterTypeOK, EndOfAdmitted, IsEndOf,
       NeverMoreThanLimit, PromisesKept, NoPromise

(* What one more admitted request does to a deque b and to the list a of   *)
(* all: n requests have expired and c is the rest of the deque.            *)
LEMMA OneMoreAdmitted ==
    ASSUME NEW a \in Seq(Nat), NEW b \in Seq(Nat), NEW c \in Seq(Nat),
           NEW w \in Nat, NEW t \in Nat, NEW l \in Nat \ {0},
           NEW n \in 0..Len(b),
           IsEndOf(b, a, w, t),
           \A i \in 1..Len(a) - l : a[i + l] - a[i] > w,
           Len(c) = Len(b) - n,
           \A i \in 1..Len(b) - n : c[i] = b[n + i],
           \A i \in 1..n : b[i] + w < t,
           Len(c) < l
    PROVE  /\ IsEndOf(Append(c, t), Append(a, t), w, t)
           /\ \A i \in 1..Len(Append(a, t)) - l :
                 Append(a, t)[i + l] - Append(a, t)[i] > w
<1> DEFINE d == Append(c, t)
           e == Append(a, t)
           la == Len(a)
           lb == Len(b)
           lc == Len(c)
<1>1. /\ la \in Nat /\ lb \in Nat /\ lc \in Nat /\ n \in Nat
      /\ n <= lb /\ lb <= la /\ lc = lb - n /\ lc < l
  BY DEF IsEndOf
<1>2. /\ \A i \in 1..lb : b[i] = a[la - lb + i]
      /\ \A i \in 1..la - lb : a[i] + w < t
      /\ \A i \in 1..la - l : a[i + l] - a[i] > w
      /\ \A i \in 1..lc : c[i] = b[n + i]
      /\ \A i \in 1..n : b[i] + w < t
  BY DEF IsEndOf
<1>3. /\ Len(d) = lc + 1 /\ Len(e) = la + 1
      /\ \A i \in 1..lc : d[i] = c[i]
      /\ \A i \in 1..la : e[i] = a[i] /\ a[i] \in Nat
      /\ d[lc + 1] = t /\ e[la + 1] = t
  <2>1. \A i \in 1..la : a[i] \in Nat
    OBVIOUS
  <2>2. /\ Len(d) = lc + 1 /\ d[lc + 1] = t
        /\ \A i \in 1..lc : d[i] = c[i]
    BY ONLY c \in Seq(Nat), t \in Nat
  <2>3. /\ Len(e) = la + 1 /\ e[la + 1] = t
        /\ \A i \in 1..la : e[i] = a[i]
    BY ONLY a \in Seq(Nat), t \in Nat
  <2> QED
    BY ONLY <2>1, <2>2, <2>3
<1> HIDE DEF d, e, la, lb, lc
<1>4. \A i \in 1..la - lc : a[i] + w < t
  <2> SUFFICES ASSUME NEW i \in 1..la - lc
               PROVE  a[i] + w < t
    OBVIOUS
  <2>1. CASE i \in 1..la - lb
    BY ONLY <1>2, <2>1
  <2>2. CASE i \notin 1..la - lb
    <3> DEFINE p == i - (la - lb)
    <3>1. p \in 1..n /\ p \in 1..lb /\ la - lb + p = i
      BY ONLY <1>1, <2>2, i \in 1..la - lc
    <3> HIDE DEF p
    <3> QED
      BY ONLY <1>2, <3>1
  <2> QED
    BY ONLY <2>1, <2>2
<1>5. IsEndOf(d, e, w, t)
  <2>1. Len(e) - Len(d) = la - lc /\ la - lc \in Nat
    BY ONLY <1>1, <1>3
  <2>2. ASSUME NEW i \in 1..lc
        PROVE  d[i] = e[la - lc + i]
    <3>1. n + i \in 1..lb /\ la - lb + (n + i) = la - lc + i
          /\ la - lc + i \in 1..la
      BY ONLY <1>1, i \in 1..lc
    <3>2. c[i] = a[la - lc + i]
      BY ONLY <1>2, <3>1, i \in 1..lc
    <3> QED
      BY ONLY <1>3, <3>1, <3>2, i \in 1..lc
  <2>3. \A i \in 1..Len(d) : d[i] = e[la - lc + i]
    <3>1. la - lc + (lc + 1) = la + 1
      BY ONLY <1>1
    <3>2. \A i \in 1..lc + 1 : i \in 1..lc \/ i = lc + 1
      BY ONLY <1>1
    <3> QED
      BY ONLY <1>3, <2>2, <3>1, <3>2
  <2>4. \A i \in 1..la - lc : e[i] + w < t
    <3>1. \A i \in 1..la - lc : i \in 1..la
      BY ONLY <1>1
    <3> QED
      BY ONLY <1>3, <1>4, <3>1
  <2> QED
    BY <2>1, <2>3, <2>4 DEF IsEndOf
<1>6. ASSUME NEW i \in 1..la + 1 - l
      PROVE  e[i + l] - e[i] > w
  <2>1. i \in 1..la
    BY <1>1
  <2>2. CASE i \in 1..la - l
    <3>1. i + l \in 1..la
      BY ONLY <1>1, <2>2, l \in Nat
    <3>2. a[i + l] - a[i] > w
      BY ONLY <1>2, <2>2
    <3> QED
      BY ONLY <1>3, <2>1, <3>1, <3>2
  <2>3. CASE i = la + 1 - l
    <3>1. i + l = la + 1 /\ i \in 1..la - lc
      BY <1>1, <2>3
    <3>2. e[i + l] = t /\ e[i] = a[i] /\ a[i] \in Nat /\ a[i] + w < t
      BY ONLY <1>3, <1>4, <2>1, <3>1
    <3> QED
      BY ONLY <3>2, w \in Nat, t \in Nat
  <2> QED
    BY <1>1, <2>2, <2>3
<1>7. \A i \in 1..Len(e) - l : e[i + l] - e[i] > w
  <2>1. Len(e) - l = la + 1 - l
    BY ONLY <1>1, <1>3, l \in Nat
  <2> QED
    BY ONLY <1>6, <2>1
<1> QED
  BY <1>5, <1>7 DEF d, e

LEMMA AdmitKeepsInv ==
    ASSUME LimiterInv, NEW k \in Keys, Admit(k)
    PROVE  LimiterInv'
<1> USE LimiterConstants
<1>1. PICK n \in 0..Len(bucket[k]) :
         /\ Recent(k) \in Seq(Nat)
         /\ Len(Recent(k)) = Len(bucket[k]) - n
         /\ \A i \in 1..Len(bucket[k]) - n : Recent(k)[i] = bucket[k][n + i]
         /\ \A i \in 1..n : bucket[k][i] + Window[k] < now
  BY RecentIsEnd DEF LimiterInv
<1>2. LimiterTypeOK
  BY DEF LimiterInv
<1>3. /\ now \in Nat /\ now' = now
      /\ bucket[k] \in Seq(Nat) /\ admitted[k] \in Seq(Nat)
      /\ Window[k] \in Nat /\ Limit[k] \in Nat \ {0}
  BY <1>2 DEF LimiterTypeOK, Admit
<1>4. /\ bucket'[k] = Append(Recent(k), now)
      /\ admitted'[k] = Append(admitted[k], now)
      /\ promised'[k] = NoPromise
      /\ Len(Recent(k)) < Limit[k]
  BY <1>2 DEF Admit, LimiterTypeOK
<1>5. \A j \in Keys \ {k} : /\ bucket'[j] = bucket[j]
                            /\ admitted'[j] = admitted[j]
                            /\ promised'[j] = promised[j]
  BY <1>2 DEF Admit, LimiterTypeOK
<1>6. LimiterTypeOK'
  BY <1>1, <1>2 DEF Admit, LimiterTypeOK, NoPromise
<1>7. /\ IsEndOf(bucket'[k], admitted'[k], Window[k], now)
      /\ \A i \in 1..Len(admitted'[k]) - Limit[k] :
            admitted'[k][i + Limit[k]] - admitted'[k][i] > Window[k]
  <2>1. /\ IsEndOf(bucket[k], admitted[k], Window[k], now)
        /\ \A i \in 1..Len(admitted[k]) - Limit[k] :
              admitted[k][i + Limit[k]] - admitted[k][i] > Window[k]
    BY DEF LimiterInv, EndOfAdmitted, NeverMoreThanLimit
  <2> DEFINE a == admitted[k]
             b == bucket[k]
             c == Recent(k)
  <2>2. /\ a \in Seq(Nat) /\ b \in Seq(Nat) /\ c \in Seq(Nat)
        /\ n \in 0..Len(b) /\ Len(c) = Len(b) - n /\ Len(c) < Limit[k]
        /\ \A i \in 1..Len(b) - n : c[i] = b[n + i]
        /\ \A i \in 1..n : b[i] + Window[k] < now
    BY <1>1, <1>3, <1>4
  <2>3. bucket'[k] = Append(c, now) /\ admitted'[k] = Append(a, now)
    BY <1>4
  <2>4. /\ IsEndOf(Append(c, now), Append(a, now), Window[k], now)
        /\ \A i \in 1..Len(Append(a, now)) - Limit[k] :
              Append(a, now)[i + Limit[k]] - Append(a, now)[i] > Window[k]
    <3> HIDE DEF a, b, c
    <3> QED
      BY <1>3, <2>1, <2>2, OneMoreAdmitted DEF a, b
  <2> QED
    BY ONLY <2>3, <2>4
<1>8. EndOfAdmitted'
  <2>1. \A j \in Keys : IsEndOf(bucket'[j], admitted'[j], Window[j], now)
    BY <1>5, <1>7 DEF LimiterInv, EndOfAdmitted
  <2> QED
    BY <1>3, <2>1 DEF EndOfAdmitted
<1>9. NeverMoreThanLimit'
  BY <1>5, <1>7 DEF LimiterInv, NeverMoreThanLimit
<1>10. PromisesKept'
  <2>1. Len(bucket'[k]) <= Limit[k]
    BY <1>1, <1>3, <1>4
  <2> QED
    BY <1>4, <1>5, <2>1 DEF LimiterInv, PromisesKept
<1> QED
  BY <1>6, <1>8, <1>9, <1>10 DEF LimiterInv

(* A refusal finds a full deque of which nothing has expired.              *)
LEMMA RefusedWhenFull ==
    ASSUME LimiterInv, NEW k \in Keys, Len(Recent(k)) >= Limit[k]
    PROVE  /\ Recent(k) = bucket[k]
           /\ Len(bucket[k]) = Limit[k]
           /\ bucket[k][1] \in Nat
           /\ bucket[k][1] + Window[k] >= now
<1> USE LimiterConstants
<1>1. PICK n \in 0..Len(bucket[k]) :
         /\ Recent(k) \in Seq(Nat)
         /\ Len(Recent(k)) = Len(bucket[k]) - n
         /\ \A i \in 1..Len(bucket[k]) - n : Recent(k)[i] = bucket[k][n + i]
         /\ n < Len(bucket[k]) => bucket[k][n + 1] + Window[k] >= now
  BY RecentIsEnd DEF LimiterInv
<1>2. /\ bucket[k] \in Seq(Nat) /\ Len(bucket[k]) \in Nat
      /\ Limit[k] \in Nat \ {0} /\ Len(bucket[k]) <= Limit[k]
  BY DEF LimiterInv, LimiterTypeOK, PromisesKept
<1>3. n = 0 /\ Len(bucket[k]) = Limit[k] /\ n < Len(bucket[k])
  BY <1>1, <1>2
<1>4. Recent(k) = bucket[k]
  BY <1>1, <1>2, <1>3
<1>5. bucket[k][1] + Window[k] >= now
  BY <1>1, <1>3
<1> QED
  BY <1>2, <1>3, <1>4, <1>5

LEMMA RefuseKeepsInv ==
    ASSUME LimiterInv, NEW k \in Keys, Refuse(k)
    PROVE  LimiterInv'
<1> USE LimiterConstants
<1>1. /\ Recent(k) = bucket[k]
      /\ Len(bucket[k]) = Limit[k]
      /\ bucket[k][1] \in Nat
      /\ bucket[k][1] + Window[k] >= now
  BY RefusedWhenFull DEF Refuse
<1>2. /\ LimiterTypeOK /\ now \in Nat /\ now' = now /\ admitted' = admitted
      /\ Window[k] \in Nat /\ Second \in Nat \ {0}
  BY DEF LimiterInv, LimiterTypeOK, Refuse
<1>3. bucket' = bucket
  BY <1>1, <1>2 DEF Refuse, LimiterTypeOK
<1> DEFINE left == Window[k] - (now - bucket[k][1])
           wait == Second * (left \div Second + 1)
<1>4. left \in Nat /\ wait \in Nat /\ left < wait
  <2>1. left \in Nat
    BY <1>1, <1>2
  <2> HIDE DEF left
  <2> QED
    BY <1>2, <2>1, WholeSecondsSuffice
<1>5. Second * RetryAfter(k, Recent(k)) = wait
  <2>1. Head(Recent(k)) = bucket[k][1]
    BY <1>1
  <2> QED
    BY <1>4, <2>1 DEF RetryAfter
<1>6. /\ now + wait \in Nat
      /\ bucket[k][1] + Window[k] < now + wait
  <2> DEFINE first == bucket[k][1]
  <2>1. left = Window[k] - (now - first)
    OBVIOUS
  <2> HIDE DEF left, wait, first
  <2> QED
    BY ONLY <1>1, <1>2, <1>4, <2>1 DEF first
<1>7. /\ promised'[k] = IF promised[k] # NoPromise THEN promised[k] ELSE now + wait
      /\ \A j \in Keys \ {k} : promised'[j] = promised[j]
      /\ promised' \in [Keys -> Nat]
  BY <1>2, <1>5, <1>6 DEF Refuse, LimiterTypeOK
<1>8. LimiterTypeOK'
  BY <1>2, <1>3, <1>7 DEF LimiterTypeOK
<1>9. EndOfAdmitted' /\ NeverMoreThanLimit'
  BY <1>2, <1>3 DEF LimiterInv, EndOfAdmitted, NeverMoreThanLimit
<1>10. PromisesKept'
  <2> HIDE DEF wait
  <2> QED
    BY <1>3, <1>6, <1>7 DEF LimiterInv, PromisesKept
<1> QED
  BY <1>8, <1>9, <1>10 DEF LimiterInv

LEMMA EndStaysEnd ==
    ASSUME NEW a \in Seq(Nat), NEW b \in Seq(Nat), NEW w \in Nat, NEW t \in Nat,
           IsEndOf(b, a, w, t)
    PROVE  IsEndOf(b, a, w, t + 1)
<1>1. ASSUME NEW i \in 1..Len(a) - Len(b)
      PROVE  a[i] + w < t + 1
  <2>1. i \in 1..Len(a) /\ a[i] \in Nat
    BY DEF IsEndOf
  <2>2. a[i] + w < t
    BY DEF IsEndOf
  <2> QED
    BY ONLY <2>1, <2>2, w \in Nat, t \in Nat
<1> QED
  BY <1>1 DEF IsEndOf

LEMMA TickKeepsInv ==
    ASSUME LimiterInv, Tick
    PROVE  LimiterInv'
<1> USE LimiterConstants
<1>1. /\ now \in Nat /\ now' = now + 1
      /\ bucket' = bucket /\ admitted' = admitted /\ promised' = promised
  BY DEF LimiterInv, LimiterTypeOK, Tick
<1>2. LimiterTypeOK' /\ NeverMoreThanLimit' /\ PromisesKept'
  BY <1>1 DEF LimiterInv, LimiterTypeOK, NeverMoreThanLimit, PromisesKept
<1>3. EndOfAdmitted'
  <2>1. ASSUME NEW k \in Keys
        PROVE  IsEndOf(bucket[k], admitted[k], Window[k], now + 1)
    <3>1. IsEndOf(bucket[k], admitted[k], Window[k], now)
      BY DEF LimiterInv, EndOfAdmitted
    <3>2. admitted[k] \in Seq(Nat) /\ bucket[k] \in Seq(Nat) /\ Window[k] \in Nat
      BY DEF LimiterInv, LimiterTypeOK
    <3> QED
      BY <1>1, <3>1, <3>2, EndStaysEnd
  <2> QED
    BY <1>1, <2>1 DEF EndOfAdmitted
<1> QED
  BY <1>2, <1>3 DEF LimiterInv

LEMMA RestartKeepsInv ==
    ASSUME LimiterInv, Restart
    PROVE  LimiterInv'
BY LimiterConstants
   DEF Restart, LimiterInv, LimiterTypeOK, EndOfAdmitted, IsEndOf,
       NeverMoreThanLimit, PromisesKept, NoPromise

LEMMA LimiterInvAlways == LimiterSpec => []LimiterInv
<1>1. LimiterInit => LimiterInv
  BY LimiterInitially
<1>2. LimiterInv /\ [LimiterNext]_limiterVars => LimiterInv'
  <2> SUFFICES ASSUME LimiterInv, [LimiterNext]_limiterVars
               PROVE  LimiterInv'
    OBVIOUS
  <2>1. ASSUME NEW k \in Keys, Admit(k) PROVE LimiterInv'
    BY <2>1, AdmitKeepsInv
  <2>2. ASSUME NEW k \in Keys, Refuse(k) PROVE LimiterInv'
    BY <2>2, RefuseKeepsInv
  <2>3. CASE Tick
    BY <2>3, TickKeepsInv
  <2>4. CASE Restart
    BY <2>4, RestartKeepsInv
  <2>5. CASE UNCHANGED limiterVars
    BY <2>5 DEF limiterVars, LimiterInv, LimiterTypeOK, EndOfAdmitted,
                NeverMoreThanLimit, PromisesKept
  <2> QED
    BY <2>1, <2>2, <2>3, <2>4, <2>5 DEF LimiterNext
<1> QED
  BY <1>1, <1>2, PTL DEF LimiterSpec

-----------------------------------------------------------------------------
(* Times are numbers and deques are sequences of them.                     *)
THEOREM LimiterTypeCorrect == LimiterSpec => []LimiterTypeOK
BY LimiterInvAlways, PTL DEF LimiterInv

(* Whatever the rules and however long the process runs, no window of a    *)
(* rule's length holds more admitted requests than the rule admits         *)
(* (middleware.py:88-108).                                                 *)
THEOREM LimitKept == LimiterSpec => []NeverMoreThanLimit
BY LimiterInvAlways, PTL DEF LimiterInv

(* Whoever waits as long as Retry-After says is admitted, if nobody with   *)
(* the same key was admitted meanwhile (middleware.py:91-106).             *)
THEOREM RetryAfterIsHonest == LimiterSpec => []RetryIsHonest
<1>1. LimiterInv => RetryIsHonest
  <2> SUFFICES ASSUME LimiterInv, NEW k \in Keys,
                      promised[k] # NoPromise, now >= promised[k],
                      ~(Len(Recent(k)) < Limit[k])
               PROVE  FALSE
    BY DEF RetryIsHonest
  <2>1. /\ now \in Nat /\ promised[k] \in Nat
        /\ Window[k] \in Nat /\ Limit[k] \in Nat
    BY LimiterConstants DEF LimiterInv, LimiterTypeOK
  <2>2. Len(Recent(k)) >= Limit[k]
    <3>1. Len(Recent(k)) \in Nat
      BY RecentIsEnd DEF LimiterInv
    <3> QED
      BY <2>1, <3>1
  <2>3. /\ Len(bucket[k]) = Limit[k]
        /\ bucket[k][1] \in Nat
        /\ bucket[k][1] + Window[k] >= now
    BY <2>2, RefusedWhenFull
  <2>4. bucket[k][1] + Window[k] < promised[k]
    BY <2>3 DEF LimiterInv, PromisesKept
  <2> QED
    BY <2>1, <2>3, <2>4
<1> QED
  BY <1>1, LimiterInvAlways, PTL
=============================================================================
