------------------------------ MODULE BddFolds ------------------------------
(***************************************************************************)
(* Apply, the fold of a gate over its arguments, and the value of a        *)
(* function (src/bdd.cc).  An order maps the indices of variables and      *)
(* modules to their positions, and a diagram is over an order if no path   *)
(* is longer than that; so the recursions are functions on a set.          *)
(***************************************************************************)
EXTENDS BddFunctions, FiniteSets, Sequences

\* Vertices in layers: one of a layer has its indices and branches in the layers before.
Layers(indices) ==
  LET layer[n \in 0 .. Len(indices)] ==
        IF n = 0 THEN {One}
        ELSE LET below == layer[n - 1]
             IN  [index : indices[n], high : below, low : below, complement_edge : BOOLEAN]
                   \cup below
  IN  layer

VerticesOver(order) ==
  LET N == Cardinality(DOMAIN order) IN Layers([n \in 1 .. N |-> DOMAIN order])[N]
DiagramsOver(order) == [complement : BOOLEAN, vertex : VerticesOver(order)]

-----------------------------------------------------------------------------
\* Where no recursion is needed: an argument is constant, or they are equal or opposite.
IsSettled(f, g) == f.vertex = One \/ g.vertex = One \/ f.vertex = g.vertex
Settled(type, f, g) ==
  IF f.vertex = One THEN (IF f = Absorbing(type) THEN f ELSE g)
  ELSE IF g.vertex = One THEN (IF g = Absorbing(type) THEN g ELSE f)
  ELSE IF f = g THEN f ELSE Absorbing(type)

\* The variable that comes first, and the branches of both arguments there.
FirstIn(order, f, g) ==
  IF order[f.vertex.index] <= order[g.vertex.index] THEN f.vertex.index ELSE g.vertex.index
HighPair(order, f, g) == LET x == FirstIn(order, f, g) IN <<HighAt(f, x), HighAt(g, x)>>
LowPair(order, f, g) == LET x == FirstIn(order, f, g) IN <<LowAt(f, x), LowAt(g, x)>>

Apply(order, type, f, g) ==
  LET apply[pair \in DiagramsOver(order) \X DiagramsOver(order)] ==
        LET h == pair[1]
            k == pair[2]
        IN  IF IsSettled(h, k) THEN Settled(type, h, k)
            ELSE Unique(FirstIn(order, h, k),
                        apply[HighPair(order, h, k)], apply[LowPair(order, h, k)])
  IN  apply[<<f, g>>]

\* The fold of a gate over its arguments; the result does not depend on their order.
ApplyAll(order, type, args) ==
  LET fold[S \in (SUBSET args) \ {{}}] ==
        LET f == CHOOSE f \in S : TRUE
        IN  IF S = {f} THEN f ELSE Apply(order, type, f, fold[S \ {f}])
  IN  fold[args]

-----------------------------------------------------------------------------
\* The value of a function when exactly the variables and proxies in true are.
Evaluate(order, f, true) ==
  LET value[g \in DiagramsOver(order)] ==
        IF g.vertex = One THEN ~g.complement
        ELSE IF g.vertex.index \in true THEN value[HighOf(g)] ELSE value[LowOf(g)]
  IN  value[f]
=============================================================================
