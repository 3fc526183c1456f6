------------------------ MODULE MCSubconsciousTicks ------------------------
(* Instances of SubconsciousTicks for TLC. *)
EXTENDS SubconsciousTicks

CONSTANTS t1, t2
==============================================================================
