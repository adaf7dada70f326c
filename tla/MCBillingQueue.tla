---------------------------- MODULE MCBillingQueue ----------------------------
(* Instance of BillingQueue for TLC: the threads and payloads are model values. *)
EXTENDS BillingQueue

CONSTANTS s1, s2, r1, r2, p1, p2
===============================================================================
