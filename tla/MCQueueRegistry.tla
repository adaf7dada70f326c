--------------------------- MODULE MCQueueRegistry ---------------------------
(* Instance of QueueRegistry for TLC: threads and names are model values. *)
EXTENDS QueueRegistry

CONSTANTS t1, t2, t3, billing, other
===============================================================================
