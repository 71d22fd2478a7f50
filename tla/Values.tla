------------------------------- MODULE Values -------------------------------
(***************************************************************************)
(* A step that returns a new state record is followed by one that reads it *)
(* several times.  Bind works the first out once and hands it on.          *)
(***************************************************************************)
Bind(x, F(_)) == CHOOSE r \in {F(y) : y \in {x}} : TRUE
=============================================================================
