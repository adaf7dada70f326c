---------------------------- MODULE MCSample1App ----------------------------
(* Instance of Sample1App for TLC: a text, one that costs nothing, one so long *)
(* that its cost wraps to zero in three bits.                                  *)
EXTENDS Sample1App, TLC

CONSTANTS text, empty, wide

MCTotal == (text :> 2) @@ (empty :> 0) @@ (wide :> 4)
MCChanged == (text :> 1) @@ (empty :> 0) @@ (wide :> 2)
=============================================================================
