----------------------------- MODULE Allocator -----------------------------
(***************************************************************************)
(* What an object allocator promises its callers.  An object is in use     *)
(* (`held'), kept for the next caller (`stock') or not there yet.  It is   *)
(* handed out only from stock, which it then leaves, only an object in use *)
(* can be given back, and nothing in stock is lost.  Slab.tla implements   *)
(* this.                                                                   *)
(***************************************************************************)
CONSTANT Objects
VARIABLES held, stock

Init == held = {} /\ stock = {}

\* An allocation hands out one object in stock.
Alloc == \E o \in stock : held' = held \cup {o} /\ stock' = stock \ {o}

\* A free puts one object back in stock.
Free == \E o \in held : held' = held \ {o} /\ stock' = stock \cup {o}

\* New memory brings objects that were not there before.
Grow == \E fresh \in SUBSET (Objects \ (held \cup stock)) :
  stock' = stock \cup fresh /\ UNCHANGED held

Next == Alloc \/ Free \/ Grow

Spec == Init /\ [][Next]_<<held, stock>>
=============================================================================
