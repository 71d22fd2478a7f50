------------------------------ MODULE Transfer ------------------------------
(***************************************************************************)
(* What a layer of the block stack promises: an item handed down is        *)
(* `pending' until the device has really transferred it, then `finished'   *)
(* until it is reported back, once, to whoever submitted it.  The ring     *)
(* (VirtioDriver) implements this for buffers and the whole block stack    *)
(* (BlockIO) implements it for bios.                                       *)
(***************************************************************************)
CONSTANT Items
VARIABLES pending, finished

Init == pending = {} /\ finished = {}

Submit == \E x \in Items \ (pending \cup finished) :
  pending' = pending \cup {x} /\ UNCHANGED finished

Finish == \E x \in pending :
  pending' = pending \ {x} /\ finished' = finished \cup {x}

Report == \E x \in finished :
  finished' = finished \ {x} /\ UNCHANGED pending

Next == Submit \/ Finish \/ Report

Spec == Init /\ [][Next]_<<pending, finished>>
=============================================================================
