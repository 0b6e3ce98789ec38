---------------------------- MODULE BddFunctions ----------------------------
(***************************************************************************)
(* Functions as reduced BDDs (src/bdd.h, src/bdd.cc): a vertex and a flag  *)
(* for its complement.  BddApply shows that vertices alive are equal as    *)
(* functions only if they are one object; so here a vertex is the record   *)
(* of its fields, equality of records is identity of vertices, and Apply   *)
(* is the function that BddApply computes step by step.  An order maps     *)
(* the indices of variables and modules to their positions.                *)
(***************************************************************************)
EXTENDS Integers

One == [index |-> 0]
Ite(x, high, low, complement_edge) ==
  [index |-> x, high |-> high, low |-> low, complement_edge |-> complement_edge]
Fun(c, v) == [complement |-> c, vertex |-> v]
Flip(f, c) == [f EXCEPT !.complement = @ # c]
Literal(x) == Fun(FALSE, Ite(x, One, One, TRUE))

HighOf(f) == Fun(f.complement, f.vertex.high)
LowOf(f) == Fun(f.complement # f.vertex.complement_edge, f.vertex.low)

Unique(x, high, low) ==
  IF high = low THEN high
  ELSE Fun(high.complement, Ite(x, high.vertex, low.vertex, high.complement # low.complement))
HighAt(f, x) == IF f.vertex.index = x THEN HighOf(f) ELSE f
LowAt(f, x) == IF f.vertex.index = x THEN LowOf(f) ELSE f
Absorbing(type) == Fun(type = "and", One)
=============================================================================
