--------------------------- MODULE MCRateLimiter ---------------------------
(***************************************************************************)
(* Instances of RateLimiter for TLC: a key whose limits appear, change and  *)
(* vanish, and one that never has any.                                      *)
(***************************************************************************)
EXTENDS RateLimiter

CONSTANTS limited, free, RpmLimits

Unlimited ==
    [requests_per_minute |-> None, requests_per_day |-> None,
     tokens_per_minute |-> None, tokens_per_day |-> None]

\* The limits of the key "limited": none, on tokens only, or one of RpmLimits.
LimitedConfigs ==
    {None, [Unlimited EXCEPT !.tokens_per_minute = 1]} \cup
    {[Unlimited EXCEPT !.requests_per_minute = n, !.tokens_per_minute = 1] : n \in RpmLimits}

MCConfigs ==
    {[k \in Keys |-> IF k = free THEN Unlimited ELSE c] : c \in LimitedConfigs}

Symmetry == Permutations(Requests)
=============================================================================
