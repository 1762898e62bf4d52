---------------------------- MODULE RateLimiter ----------------------------
(***************************************************************************)
(* RateLimitMiddleware: a sliding window of accepted requests per client   *)
(* and path, in the memory of one process.  A request is admitted or       *)
(* refused between two awaits of the event loop, in one step.              *)
(***************************************************************************)
EXTENDS Integers, Sequences

CONSTANTS
    Keys,       \* "address:path" of a limited path
    Limit,      \* Limit[k]: how many requests its rule admits ...
    Window,     \* ... in how many ticks
    Second,     \* the ticks of a second, the unit of Retry-After
    LastTick    \* bound on the clock

ASSUME LimiterConstants ==
    /\ Limit \in [Keys -> Nat \ {0}]
    /\ Window \in [Keys -> Nat \ {0}]
    /\ Second \in Nat \ {0}
    /\ LastTick \in Nat

VARIABLES
    now,        \* time.monotonic()
    bucket,     \* bucket[k]: the deque of the times of admitted requests
    admitted,   \* history: the times of all requests admitted since the start
    promised    \* history: when a refused client of k was told to come again

limiterVars == <<now, bucket, admitted, promised>>

NoPromise == 0

LimiterInit ==
    /\ now = 0
    /\ bucket = [k \in Keys |-> <<>>]
    /\ admitted = [k \in Keys |-> <<>>]
    /\ promised = [k \in Keys |-> NoPromise]

-----------------------------------------------------------------------------
(* The operators named ...Variant are mistakes the properties must reveal. *)

(* Times before the cutoff are dropped from the left of the deque, as long *)
(* as there are any.                                                       *)
Since(b, cutoff) ==
    LET n == CHOOSE n \in 0..Len(b) :
                /\ \A i \in 1..n : b[i] < cutoff
                /\ n < Len(b) => b[n + 1] >= cutoff
    IN  SubSeq(b, n + 1, Len(b))

RecentTooShortVariant(k) == Since(bucket[k], now - Window[k] + 1)

Recent(k) == Since(bucket[k], now - Window[k])

(* The Retry-After header, in whole seconds.                               *)
RetryRoundedDownVariant(k, recent) ==
    LET left == Window[k] - (now - Head(recent))
    IN  (IF left < 0 THEN 0 ELSE left) \div Second

RetryAfter(k, recent) ==
    LET left == Window[k] - (now - Head(recent))
    IN  (IF left < 0 THEN 0 ELSE left) \div Second + 1

Admit(k) ==
    /\ Len(Recent(k)) < Limit[k]
    /\ bucket' = [bucket EXCEPT ![k] = Append(Recent(k), now)]
    /\ admitted' = [admitted EXCEPT ![k] = Append(@, now)]
    /\ promised' = [promised EXCEPT ![k] = NoPromise]
    /\ UNCHANGED now

(* The first refused client's promise is the earliest of them.             *)
Refuse(k) ==
    /\ Len(Recent(k)) >= Limit[k]
    /\ bucket' = [bucket EXCEPT ![k] = Recent(k)]
    /\ promised' = [promised EXCEPT ![k] =
          IF @ # NoPromise THEN @ ELSE now + Second * RetryAfter(k, Recent(k))]
    /\ UNCHANGED <<now, admitted>>

Tick ==
    /\ now < LastTick
    /\ now' = now + 1
    /\ UNCHANGED <<bucket, admitted, promised>>

(* The process starts anew and has forgotten every request.                *)
Restart ==
    /\ bucket' = [k \in Keys |-> <<>>]
    /\ admitted' = [k \in Keys |-> <<>>]
    /\ promised' = [k \in Keys |-> NoPromise]
    /\ UNCHANGED now

LimiterNext ==
    \/ \E k \in Keys : Admit(k) \/ Refuse(k)
    \/ Tick
    \/ Restart

LimiterSpec == LimiterInit /\ [][LimiterNext]_limiterVars

-----------------------------------------------------------------------------
(* Times and deques.                                                       *)
LimiterTypeOK ==
    /\ now \in Nat
    /\ bucket \in [Keys -> Seq(Nat)]
    /\ admitted \in [Keys -> Seq(Nat)]
    /\ promised \in [Keys -> Nat]

(* No window of a rule's length holds more admitted requests than the rule *)
(* admits, wherever the window begins, refusals and expiry at its very     *)
(* edge included (middleware.py:88-108).                                   *)
NeverMoreThanLimit ==
    \A k \in Keys : \A i \in 1..Len(admitted[k]) - Limit[k] :
        admitted[k][i + Limit[k]] - admitted[k][i] > Window[k]

(* A refused client that comes again when Retry-After told it to is        *)
(* admitted, unless somebody with the same key was admitted meanwhile: the *)
(* header, in whole seconds, and the expiry, in fractions, agree           *)
(* (middleware.py:91-106).                                                 *)
RetryIsHonest ==
    \A k \in Keys : promised[k] # NoPromise /\ now >= promised[k] =>
        Len(Recent(k)) < Limit[k]
=============================================================================
