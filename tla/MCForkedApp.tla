----------------------------- MODULE MCForkedApp -----------------------------
(* Instance of ForkedApp for TLC: three requests. *)
EXTENDS ForkedApp

CONSTANTS original, c1, c2, c3
===============================================================================
