--------------------------- MODULE MCBddProbability -------------------------
\* Constants of BddProbability for TLC: small graphs, each with a difficulty of its own.
EXTENDS BddExactness

Pos(n) == <<FALSE, n>>
Neg(n) == <<TRUE, n>>
And(args) == [type |-> "and", args |-> args]
Or(args) == [type |-> "or", args |-> args]
Graph(complement, gate) ==
  [root |-> 10, complement |-> complement,
   type |-> [n \in DOMAIN gate |-> gate[n].type],
   args |-> [n \in DOMAIN gate |-> gate[n].args]]
PassThrough(arg) ==
  [root |-> 10, complement |-> FALSE, type |-> 10 :> "null", args |-> 10 :> {arg}]

\* One variable, its complement, a constant.
Trivial == {PassThrough(Pos(2)), PassThrough(Neg(2)), PassThrough(Pos(1)), PassThrough(Neg(1))}

\* A module next to variables, positive or negated, in a graph that may be complemented.
OneModule ==
  {Graph(c, 10 :> Or({Pos(2), Pos(11)}) @@ 11 :> And({<<n, 3>>, <<m, 12>>})
           @@ 12 :> Or({Pos(4), <<k, 5>>})) : c, n, m, k \in BOOLEAN}

\* A gate with two parents and variables in common with them, so that it is no module.
Shared ==
  {Graph(c, 10 :> Or({Pos(11), Pos(12)}) @@ 11 :> And({<<n, 13>>, Pos(2)})
           @@ 12 :> And({<<m, 13>>, Pos(4)}) @@ 13 :> Or({Pos(2), Pos(3)})) :
     c, n, m \in BOOLEAN}

\* A module with two parents.
SharedModule ==
  {Graph(FALSE, 10 :> Or({Pos(11), Pos(12)}) @@ 11 :> And({Pos(13), Pos(2)})
               @@ 12 :> And({<<m, 13>>, Pos(4)}) @@ 13 :> t) :
     m \in BOOLEAN, t \in {Or({Pos(3), Pos(5)}), And({Neg(3), Pos(5)})}}

\* A module that only the consensus of the other products needs.
Absorbed ==
  {Graph(FALSE, 10 :> Or({Pos(11), Pos(12), Pos(13)})
               @@ 11 :> And({Pos(2), Pos(3)}) @@ 12 :> And({Neg(2), Pos(4)})
               @@ 13 :> And({Pos(3), Pos(4), <<m, 14>>})
               @@ 14 :> Or({Pos(5), Pos(6)})) : m \in BOOLEAN}

\* Modules inside modules inside a module, on both sides of a variable.
NestedModules ==
  {Graph(c, 10 :> And({Pos(2), Pos(11)}) @@ 11 :> Or({Pos(3), <<n, 12>>})
           @@ 12 :> And({<<n, 4>>, <<m, 13>>}) @@ 13 :> Or({Pos(5), Pos(6)})) :
     c, n, m \in BOOLEAN}

MCGraphs == Trivial \cup OneModule \cup Shared \cup SharedModule \cup Absorbed \cup NestedModules

\* The probability in eighths of variable x at time t or in trial t.
MCP(x, t) == Dyadic(1 + ((3 * x + 2 * t + x * t) % 7), 3)

MCSeries == {<<>>, <<0, 1, 2>>}
MCTrials == {<<5, 6>>}
=============================================================================
