-------------------------- MODULE MCAdkInvocation ---------------------------
(* Three calls of other agents under a cap of one: two can be in excess of *)
(* it at once, and one of the calls needs a confirmation.                  *)
EXTENDS AdkInvocation

CONSTANTS c1, c2, c3
=============================================================================
