--------------------------- MODULE MCRateLimiter ---------------------------
(***************************************************************************)
(* An instance of RateLimiter for TLC: two rules, seconds of two ticks.    *)
(***************************************************************************)
EXTENDS RateLimiter

CONSTANTS login, refresh

Limits == [k \in Keys |-> IF k = login THEN 2 ELSE 1]

Windows == [k \in Keys |-> IF k = login THEN 4 ELSE 3]
=============================================================================
