-------------------------------- MODULE Pdag --------------------------------
(***************************************************************************)
(* The propositional directed acyclic graphs of src/pdag.h as the BDD      *)
(* construction meets them, after preprocessing: AND and OR gates (or one  *)
(* pass-through root, type "null", over a variable or the constant) whose  *)
(* arguments are nodes with a sign.                                        *)
(*                                                                         *)
(* A graph is a record: root is the index of the root gate, complement     *)
(* says whether the graph stands for the complement of the root, type maps *)
(* the gates to their connectives, and args maps them to the sets of their *)
(* arguments <<negated, node>>.  Any other node is a variable, but for the *)
(* node Constant, which is true.                                           *)
(* The operators here state what a graph means, independently of the       *)
(* algorithms that convert it.                                             *)
(***************************************************************************)
EXTENDS Integers, FiniteSets

Constant == 1   \* variables have the indices from kVariableStartIndex = 2 on

GatesOf(g) == DOMAIN g.args
ArgNodes(g, gate) == {arg[2] : arg \in g.args[gate]}
VariablesOf(g) == (UNION {ArgNodes(g, gate) : gate \in GatesOf(g)}) \ (GatesOf(g) \cup {Constant})
ParentsOf(g, node) == {gate \in GatesOf(g) : node \in ArgNodes(g, gate)}

\* What a gate makes of its arguments when exactly the nodes in true are.
GateHolds(g, gate, true) ==
  LET Holds(arg) == arg[1] # (arg[2] \in true \cup {Constant})
  IN  IF g.type[gate] = "and" THEN \A arg \in g.args[gate] : Holds(arg)
                              ELSE \E arg \in g.args[gate] : Holds(arg)

\* The value of every gate when exactly the variables in a are true.
Values(g, a) ==
  LET value[gate \in GatesOf(g)] ==
        GateHolds(g, gate, {n \in ArgNodes(g, gate) : IF n \in GatesOf(g) THEN value[n] ELSE n \in a})
  IN  value
\* The nodes that are true then.
TrueNodes(g, a) == a \cup {gate \in GatesOf(g) : Values(g, a)[gate]}
\* The value of the graph.
Root(g, a) == g.complement # Values(g, a)[g.root]

\* A gate and the gates under it: the smallest set with the gate and the gates among
\* the arguments of its members.
GatesUnder(g, gate) ==
  LET Closed(gates) == \A b \in gates : ArgNodes(g, b) \cap GatesOf(g) \subseteq gates
  IN  {b \in GatesOf(g) : \A gates \in SUBSET GatesOf(g) : gate \in gates /\ Closed(gates) => b \in gates}

\* All nodes under a gate.
Descendants(g, gate) == UNION {ArgNodes(g, b) : b \in GatesUnder(g, gate)}

\* A module shares no node with the rest of the graph.
IsModule(g, gate) ==
  \A n \in Descendants(g, gate) : ParentsOf(g, n) \subseteq Descendants(g, gate) \cup {gate}

\* The graph is one variable or the constant (Pdag::IsTrivial).
IsTrivial(g) ==
  /\ g.type[g.root] = "null" /\ ~g.complement
  /\ \E arg \in g.args[g.root] : g.args[g.root] = {arg} /\ arg[2] \notin GatesOf(g)

\* A graph that holds together: no gate is among its own ancestors, and the root alone has
\* no parent.  In one that is not trivial, all gates are connectives of other nodes than
\* the constant.
IsPdag(g) ==
  /\ IsFiniteSet(GatesOf(g)) /\ g.root \in GatesOf(g) /\ g.complement \in BOOLEAN
  /\ \A gate \in GatesOf(g) :
       /\ gate \in Nat \ {0}
       /\ IsFiniteSet(g.args[gate])
       /\ \A arg \in g.args[gate] : arg[1] \in BOOLEAN /\ arg[2] \in Nat \ {0}
       /\ ParentsOf(g, gate) = {} <=> gate = g.root
  /\ \A gates \in (SUBSET GatesOf(g)) \ {{}} : \E gate \in gates : ParentsOf(g, gate) \cap gates = {}
  /\ \/ IsTrivial(g)
     \/ \A gate \in GatesOf(g) :
          g.type[gate] \in {"and", "or"} /\ g.args[gate] # {} /\ Constant \notin ArgNodes(g, gate)
=============================================================================
