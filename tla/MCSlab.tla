------------------------------- MODULE MCSlab -------------------------------
(* Model-checking instance of Slab: two slab pages of three objects.       *)
EXTENDS Slab
=============================================================================
