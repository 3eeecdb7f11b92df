----------------------------- MODULE MCLifecycle ----------------------------
(* A finite instance of Lifecycle: two connections, two workers.           *)
EXTENDS Lifecycle

CONSTANTS c1, c2, w1, w2
=============================================================================
