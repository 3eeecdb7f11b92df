---------------------------- MODULE MCRateLimiter ---------------------------
(* A finite instance of RateLimiter: three requests of one address, one of *)
(* another, one without the key; a bucket that fills up just as its        *)
(* visitor expires.                                                        *)
EXTENDS RateLimiter

CONSTANTS r1, r2, r3, r4, r5, a1, a2

MCFrom == [r \in Reqs |-> IF r = r4 THEN a2 ELSE a1]
=============================================================================
