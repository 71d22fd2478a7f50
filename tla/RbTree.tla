------------------------------- MODULE RbTree -------------------------------
(***************************************************************************)
(* The red-black trees of rbtree/rbtree.c, with the augmented callbacks of *)
(* include/rbtree.h.  A tree is a record: "root" is a node or Nil, and     *)
(* n[x] holds node x's parent, colour and children (kid[1] is rb_left,     *)
(* kid[2] is rb_right), the scalar RBCOMPUTE yields for x alone ("own")    *)
(* and the field RBAUGMENTED caches for x's subtree ("aug").  A tree that  *)
(* is not augmented has own = aug = 0 everywhere, for which the callbacks  *)
(* do nothing, like dummy_callbacks.  The code's mirrored branches are one *)
(* branch here, taken for a side d and its opposite.                       *)
(***************************************************************************)
EXTENDS Values, Integers, Sequences, FiniteSets, FiniteSetsExt

Nil == 0

Sides == {1, 2}

Opp(d) == 3 - d

EmptyTree == [root |-> Nil, n |-> [x \in {} |-> 0]]

Node(p, own, aug) ==
  [par |-> p, red |-> TRUE, kid |-> <<Nil, Nil>>, own |-> own, aug |-> aug]

SideOf(T, p, x) == IF T.n[p].kid[1] = x THEN 1 ELSE 2

IsRed(T, x) == x # Nil /\ T.n[x].red

__rb_change_child(T, old, new, p) ==
  IF p = Nil THEN [T EXCEPT !.root = new]
             ELSE [T EXCEPT !.n[p].kid[SideOf(T, p, old)] = new]

rb_set_parent(T, x, p) == IF x = Nil THEN T ELSE [T EXCEPT !.n[x].par = p]

-----------------------------------------------------------------------------
(* The callbacks RB_DECLARE_CALLBACKS_MAX makes.                           *)

compute_max(T, x) ==
  Max({T.n[x].own} \cup {T.n[c].aug : c \in {T.n[x].kid[d] : d \in Sides} \ {Nil}})

RECURSIVE propagate(_, _, _)
propagate(T, x, stop) ==
  IF x = stop \/ T.n[x].aug = compute_max(T, x) THEN T
  ELSE Bind([T EXCEPT !.n[x].aug = compute_max(T, x)],
            LAMBDA U : propagate(U, T.n[x].par, stop))

augment_rotate(T, old, new) ==
  Bind([T EXCEPT !.n[new].aug = T.n[old].aug],
       LAMBDA U : [U EXCEPT !.n[old].aug = compute_max(U, old)])

-----------------------------------------------------------------------------
(* x's child y on the side opposite d takes x's place and colour, and x    *)
(* becomes y's child on side d with colour "red"; y's former child there   *)
(* moves to x, blackened when the code blackens it.                        *)

Rotate(T, x, d, red, blacken) ==
  LET y == T.n[x].kid[Opp(d)]
      m == T.n[y].kid[d]
      p == T.n[x].par
      A == __rb_change_child(T, x, y, p)
      B == [A EXCEPT !.n[x].kid[Opp(d)] = m, !.n[y].kid[d] = x,
                     !.n[y].par = p, !.n[y].red = T.n[x].red,
                     !.n[x].par = y, !.n[x].red = red]
      C == IF m = Nil THEN B
           ELSE [B EXCEPT !.n[m].par = x, !.n[m].red = IF blacken THEN FALSE ELSE @]
  IN  augment_rotate(C, x, y)

RECURSIVE __rb_insert(_, _)
__rb_insert(T, x) ==
  LET p == T.n[x].par
      g == T.n[p].par
      d == SideOf(T, g, p)
      u == T.n[g].kid[Opp(d)]
      inner == x = T.n[p].kid[Opp(d)]
      U == IF inner THEN Rotate(T, p, d, TRUE, TRUE) ELSE T
  IN  IF p = Nil THEN [T EXCEPT !.n[x].red = FALSE]
      ELSE IF ~IsRed(T, p) THEN T
      ELSE IF IsRed(T, u)
      THEN __rb_insert([T EXCEPT !.n[u].red = FALSE, !.n[p].red = FALSE,
                                 !.n[g].red = TRUE], g)
      ELSE Rotate(U, g, Opp(d), TRUE, TRUE)

rb_link_node(T, x, p, d, own, aug) ==
  LET A == [T EXCEPT !.n = [y \in DOMAIN T.n \cup {x} |->
                              IF y = x THEN Node(p, own, aug) ELSE T.n[y]]]
  IN  IF p = Nil THEN [A EXCEPT !.root = x] ELSE [A EXCEPT !.n[p].kid[d] = x]

(* rb_link_node below p on side d, then the rebalancing.                   *)
rb_link_insert(T, x, p, d, own, aug) ==
  __rb_insert(rb_link_node(T, x, p, d, own, aug), x)

-----------------------------------------------------------------------------
(* Removal: p has a child x (perhaps Nil) whose subtree is one black node  *)
(* short.                                                                  *)

RECURSIVE ____rb_erase_color(_, _, _)
____rb_erase_color(T, x, p) ==
  LET d == IF x # T.n[p].kid[2] THEN 1 ELSE 2
      Far(A) == A.n[A.n[p].kid[Opp(d)]].kid[Opp(d)]
      Near(A) == A.n[A.n[p].kid[Opp(d)]].kid[d]
      Up(B) == IF IsRed(B, p) THEN [B EXCEPT !.n[p].red = FALSE]
               ELSE IF B.n[p].par = Nil THEN B
               ELSE ____rb_erase_color(B, p, B.n[p].par)
      Down(C) == Rotate([C EXCEPT !.n[Far(C)].red = FALSE], p, d, FALSE, FALSE)
  IN  Bind(IF IsRed(T, T.n[p].kid[Opp(d)]) THEN Rotate(T, p, d, TRUE, TRUE) ELSE T,
        LAMBDA A :
          IF ~IsRed(A, Far(A)) /\ ~IsRed(A, Near(A))
          THEN Up([A EXCEPT !.n[A.n[p].kid[Opp(d)]].red = TRUE])
          ELSE Down(IF IsRed(A, Far(A)) THEN A
                    ELSE Rotate(A, A.n[p].kid[Opp(d)], Opp(d), FALSE, TRUE)))

RECURSIVE Leftmost(_, _)
Leftmost(T, x) == IF T.n[x].kid[1] = Nil THEN x ELSE Leftmost(T, T.n[x].kid[1])

(* The node taken out has at most one child c: c, or nothing, replaces it. *)
Splice(T, x) ==
  LET c == IF T.n[x].kid[1] = Nil THEN T.n[x].kid[2] ELSE T.n[x].kid[1]
      p == T.n[x].par
      A == __rb_change_child(T, x, c, p)
      B == IF c = Nil THEN A
           ELSE [A EXCEPT !.n[c].par = p, !.n[c].red = T.n[x].red]
  IN  [t |-> propagate(B, p, Nil), up |-> p,
       rebalance |-> c = Nil /\ ~T.n[x].red /\ p # Nil]

(* The successor s of x takes x's place, colour and cached scalar.         *)
Replace(T, x) ==
  LET y == T.n[x].kid[2]
      s == Leftmost(T, y)
      c == T.n[s].kid[2]
      q == IF s = y THEN s ELSE T.n[s].par
      A == IF s = y THEN [T EXCEPT !.n[s].aug = T.n[x].aug]
           ELSE propagate(rb_set_parent([T EXCEPT !.n[q].kid[1] = c,
                                                  !.n[s].kid[2] = y,
                                                  !.n[s].aug = T.n[x].aug], y, s), q, s)
      B == rb_set_parent([A EXCEPT !.n[s].kid[1] = T.n[x].kid[1]], T.n[x].kid[1], s)
      C == __rb_change_child(B, x, s, T.n[x].par)
      D == IF c = Nil THEN C ELSE [C EXCEPT !.n[c].par = q, !.n[c].red = FALSE]
      E == [D EXCEPT !.n[s].par = T.n[x].par, !.n[s].red = T.n[x].red]
  IN  [t |-> propagate(E, s, Nil), up |-> q, rebalance |-> c = Nil /\ ~T.n[s].red]

rb_erase_augmented(T, x) ==
  LET Drop(U) == [U EXCEPT !.n = [y \in DOMAIN U.n \ {x} |-> U.n[y]]]
  IN  Bind(IF Nil \in {T.n[x].kid[d] : d \in Sides} THEN Splice(T, x) ELSE Replace(T, x),
           LAMBDA r : Drop(IF r.rebalance THEN ____rb_erase_color(r.t, Nil, r.up) ELSE r.t))

RECURSIVE Above(_, _)
Above(T, x) ==
  LET p == T.n[x].par
  IN  IF p # Nil /\ x = T.n[p].kid[2] THEN Above(T, p) ELSE p

rb_next(T, x) ==
  IF T.n[x].kid[2] # Nil THEN Leftmost(T, T.n[x].kid[2]) ELSE Above(T, x)

rb_first(T) == IF T.root = Nil THEN Nil ELSE Leftmost(T, T.root)

-----------------------------------------------------------------------------
(* What a tree should be, by reference definitions.                        *)

RECURSIVE InOrder(_, _)
InOrder(T, x) ==
  IF x = Nil THEN <<>>
  ELSE InOrder(T, T.n[x].kid[1]) \o <<x>> \o InOrder(T, T.n[x].kid[2])

RECURSIVE BlackHeights(_, _)
BlackHeights(T, x) ==
  IF x = Nil THEN {0}
  ELSE {h + (IF T.n[x].red THEN 0 ELSE 1) :
          h \in UNION {BlackHeights(T, T.n[x].kid[d]) : d \in Sides}}

ParentsAgree(T) ==
  \A x \in DOMAIN T.n :
    /\ (T.root = x) <=> (T.n[x].par = Nil)
    /\ \A d \in Sides : T.n[x].kid[d] # Nil => T.n[T.n[x].kid[d]].par = x

RedBlack(T) ==
  /\ ~IsRed(T, T.root)
  /\ \A x \in DOMAIN T.n : T.n[x].red => ~IsRed(T, T.n[x].par)
  /\ Cardinality(BlackHeights(T, T.root)) = 1

AugExact(T) ==
  \A x \in DOMAIN T.n :
    LET s == InOrder(T, x) IN T.n[x].aug = Max({T.n[s[i]].own : i \in DOMAIN s})
=============================================================================
