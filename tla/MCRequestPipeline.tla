-------------------------- MODULE MCRequestPipeline --------------------------
(* Instance of RequestPipeline for TLC: two texts, one of them invalid. *)
EXTENDS RequestPipeline

CONSTANTS text, bang
===============================================================================
