--------------------------- MODULE MCRateLimiter ----------------------------
(* Three agents and room for one bucket before a sweep.  Two belong to a     *)
(* tenant of one token a second, the third to one of two tokens in three     *)
(* seconds and a larger burst: each may set off the sweep that judges the    *)
(* others.                                                                   *)
EXTENDS RateLimiter, TLC

CONSTANTS a, b, c

MCKeys == {a, b, c}

MCRate == [k \in MCKeys |-> IF k = a THEN 40 ELSE 60]

MCBurst == [k \in MCKeys |-> IF k = a THEN 2 ELSE 1]

\* The two agents of one tenant are interchangeable.
MCSymmetry == Permutations({b, c})
=============================================================================
