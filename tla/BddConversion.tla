--------------------------- MODULE BddConversion ----------------------------
(***************************************************************************)
(* From a preprocessed PDAG to a BDD: TopologicalOrder of                  *)
(* src/preprocessor.cc and the constructor and ConvertGraph of src/bdd.cc. *)
(*                                                                         *)
(* The recursions over the graph run one gate per step, in every order of  *)
(* arguments the containers may have; what a gate is folded to is          *)
(* ApplyAll of BddFolds.                                                   *)
(***************************************************************************)
EXTENDS Pdag, BddFolds, Sequences, TLC

CONSTANT Graphs   \* the graphs to convert

ASSUME GraphsAssumption == \A g \in Graphs : IsPdag(g)

VARIABLES
  graph,           \* the PDAG
  order,           \* the order of the nodes that have one
  phase,           \* "order", "convert" or what follows the construction
  frames,          \* the active calls of the recursion over gates, outermost first
  gates,           \* memo of converted gates that have parents left to come
  modules,         \* modules_: the functions of the module gates
  index_to_order,  \* index_to_order_
  root             \* root_: the function of the graph

conversion == <<graph, order, phase, frames, gates, modules, index_to_order, root>>

Module(gate) == IsModule(graph, gate)
Gates == GatesOf(graph)
ArgGates(gate) == ArgNodes(graph, gate) \cap Gates
ArgVariables(gate) == ArgNodes(graph, gate) \ Gates
Signs(gate, node) == {arg[1] : arg \in {b \in graph.args[gate] : b[2] = node}}

Frame == frames[Len(frames)]
Pop == SubSeq(frames, 1, Len(frames) - 1)
WithTop(frame) == Append(Pop, frame)

\* emplace of a map: what a key has stays.
Emplace(m, k, v) == [x \in DOMAIN m \cup {k} |-> IF x \in DOMAIN m THEN m[x] ELSE v]

-----------------------------------------------------------------------------
\* TopologicalOrder: a gate comes after its gates, then its variables.

\* OrderArguments puts the arguments with most parents first.
First(nodes) ==
  {n \in nodes : \A m \in nodes :
     Cardinality(ParentsOf(graph, n)) >= Cardinality(ParentsOf(graph, m))}
NextOrder == Cardinality(DOMAIN order) + 1

OrderGateArgument ==
  /\ phase = "order" /\ Frame.gates # {}
  /\ \E b \in First(Frame.gates) :
       LET rest == [Frame EXCEPT !.gates = @ \ {b}]
       IN  frames' = IF b \in DOMAIN order THEN WithTop(rest)
                     ELSE Append(WithTop(rest), [gate |-> b, gates |-> ArgGates(b)])
  /\ UNCHANGED <<graph, order, phase, gates, modules, index_to_order, root>>

\* Mutant: the variables of all gates on the way are taken, as breadth first.
UnorderedOnTheWay ==
  UNION {ArgVariables(frames[i].gate) : i \in 1 .. Len(frames)} \ DOMAIN order

Unordered == ArgVariables(Frame.gate) \ DOMAIN order

OrderVariable ==
  /\ phase = "order" /\ Frame.gates = {} /\ Unordered # {}
  /\ \E x \in First(Unordered) : order' = Emplace(order, x, NextOrder)
  /\ UNCHANGED <<graph, phase, frames, gates, modules, index_to_order, root>>

OrderGate ==
  /\ phase = "order" /\ Frame.gates = {} /\ Unordered = {}
  /\ order' = Emplace(order, Frame.gate, NextOrder)
  /\ frames' = Pop
  /\ phase' = IF Pop = <<>> THEN "construct" ELSE "order"
  /\ UNCHANGED <<graph, gates, modules, index_to_order, root>>

-----------------------------------------------------------------------------
\* The constructor and ConvertGraph.

\* A call for a gate begins with its variables.
SignedVariables(gate) == {arg \in graph.args[gate] : arg[2] \notin Gates}
Converting(gate) ==
  [gate |-> gate, gates |-> ArgGates(gate),
   args |-> {Flip(Literal(arg[2]), arg[1]) : arg \in SignedVariables(gate)}]
AddOrders(gate) == index_to_order' = index_to_order @@ [x \in ArgVariables(gate) |-> order[x]]

\* A graph that is one variable or a constant needs no conversion.
ConstructTrivial ==
  /\ phase = "construct" /\ graph.type[graph.root] = "null"
  /\ \E arg \in graph.args[graph.root] :
       /\ root' = IF arg[2] = Constant THEN Fun(arg[1], One) ELSE Flip(Literal(arg[2]), arg[1])
       /\ index_to_order' = IF arg[2] = Constant THEN <<>> ELSE arg[2] :> order[arg[2]]
  /\ phase' = "built"
  /\ UNCHANGED <<graph, order, frames, gates, modules>>

Construct ==
  /\ phase = "construct" /\ graph.type[graph.root] # "null"
  /\ frames' = <<Converting(graph.root)>>
  /\ AddOrders(graph.root)
  /\ phase' = "convert"
  /\ UNCHANGED <<graph, order, gates, modules, root>>

\* The argument that a converted gate is for its parent: a module is replaced by its proxy.
AsArgument(gate, f) == IF Module(gate) THEN Literal(gate) ELSE f
\* The frame of the parent with the next gate argument converted.
Converted(frame, gate, f) ==
  [frame EXCEPT !.gates = @ \ {gate},
                !.args = @ \cup {Flip(AsArgument(gate, f), c) : c \in Signs(frame.gate, gate)}]
Without(m, gate) == [b \in DOMAIN m \ {gate} |-> m[b]]
Parents(gate) == Cardinality(ParentsOf(graph, gate))

\* Mutant: a memo entry counts one visit less, so that it outlives the last parent.
ConvertMemoizedLate ==
  /\ phase = "convert"
  /\ \E b \in Frame.gates \cap DOMAIN gates :
       /\ frames' = WithTop(Converted(Frame, b, gates[b].function))
       /\ gates' = IF gates[b].processed = Parents(b) THEN Without(gates, b)
                   ELSE [gates EXCEPT ![b].processed = @ + 1]
  /\ UNCHANGED <<graph, order, phase, modules, index_to_order, root>>

\* A gate argument that is in the memo; the last parent to ask removes it.
ConvertMemoized ==
  /\ phase = "convert"
  /\ \E b \in Frame.gates \cap DOMAIN gates :
       /\ frames' = WithTop(Converted(Frame, b, gates[b].function))
       /\ gates' = IF gates[b].processed + 1 = Parents(b) THEN Without(gates, b)
                   ELSE [gates EXCEPT ![b].processed = @ + 1]
  /\ UNCHANGED <<graph, order, phase, modules, index_to_order, root>>

\* Any other gate argument is converted by a call of its own.
ConvertArgument ==
  /\ phase = "convert"
  /\ \E b \in Frame.gates \ DOMAIN gates :
       /\ frames' = Append(frames, Converting(b))
       /\ AddOrders(b)
  /\ UNCHANGED <<graph, order, phase, gates, modules, root>>

\* Mutant: the complement of the graph is lost.
FinishConversionPlain(f) == root' = f /\ phase' = "built" /\ frames' = <<>>

FinishConversion(f) ==
  /\ root' = Flip(f, graph.complement)
  /\ phase' = "built"
  /\ frames' = <<>>

ReturnTo(parent, gate, f) ==
  /\ frames' = [Pop EXCEPT ![Len(Pop)] = Converted(parent, gate, f)]
  /\ UNCHANGED <<root, phase>>

\* Mutant: a module that goes into the memo is not registered.
RegisteredUnshared(gate, f) ==
  IF Module(gate) /\ Parents(gate) <= 1 THEN Emplace(modules, gate, f) ELSE modules

Registered(gate, f) == IF Module(gate) THEN Emplace(modules, gate, f) ELSE modules

\* All arguments are there: the gate is folded, registered and memoized.
FinishGate ==
  /\ phase = "convert" /\ Frame.gates = {}
  /\ LET gate == Frame.gate
         f == ApplyAll(order, graph.type[gate], Frame.args)
     IN  /\ modules' = Registered(gate, f)
         /\ gates' = IF Parents(gate) > 1 THEN Emplace(gates, gate, [function |-> f, processed |-> 1])
                     ELSE gates
         /\ IF Pop = <<>> THEN FinishConversion(f) ELSE ReturnTo(frames[Len(Pop)], gate, f)
  /\ UNCHANGED <<graph, order, index_to_order>>

-----------------------------------------------------------------------------
ConversionInit ==
  /\ graph \in Graphs
  /\ phase = IF graph.type[graph.root] = "null" THEN "construct" ELSE "order"
  \* The preprocessor gives the only variable of a trivial graph its order.
  /\ order = [x \in IF phase = "order" THEN {} ELSE VariablesOf(graph) |-> 1]
  /\ frames = IF phase = "order" THEN <<[gate |-> graph.root, gates |-> ArgGates(graph.root)]>>
              ELSE <<>>
  /\ gates = <<>> /\ modules = <<>> /\ index_to_order = <<>>
  /\ root = Fun(FALSE, One)

Conversion ==
  \/ OrderGateArgument \/ OrderVariable \/ OrderGate
  \/ ConstructTrivial \/ Construct
  \/ ConvertMemoized \/ ConvertArgument \/ FinishGate

-----------------------------------------------------------------------------
Built == phase \notin {"order", "construct", "convert"}

\* The value of a function when exactly the given nodes are true.
Value(f, true) == Evaluate(order, f, true)

\* Only what is in nodes makes a difference to f.
DependsOn(f, nodes) ==
  \A true \in SUBSET (Gates \cup VariablesOf(graph)) : Value(f, true) = Value(f, true \cap nodes)

\* The BDD stands for the graph and the function of every module for its gate, when the
\* proxies of modules have the values of their gates; and it stands on what is under the
\* gate, so that no module is defined by itself (ConvertGraph, src/bdd.cc:138-188, and
\* the complement taken over in the constructor).
ConversionIsRight ==
  phase = "built" =>
    /\ \A a \in SUBSET VariablesOf(graph) :
         /\ Value(root, TrueNodes(graph, a)) = Root(graph, a)
         /\ \A m \in DOMAIN modules : Value(modules[m], TrueNodes(graph, a)) = Values(graph, a)[m]
    /\ DependsOn(root, Descendants(graph, graph.root))
    /\ \A m \in DOMAIN modules : DependsOn(modules[m], Descendants(graph, m))

\* The memo has a gate between its first and its last parent only, no gate is
\* converted twice, and nothing is left in the memo at the end (src/bdd.cc:143-151).
MemoIsBalanced ==
  /\ \A b \in DOMAIN gates : gates[b].processed \in 1 .. Parents(b) - 1
  /\ \A i \in 1 .. Len(frames) : frames[i].gate \notin DOMAIN gates
  /\ Built => gates = <<>>

\* The orders of what is under a module are the ones right before its own: no
\* variable from outside comes between.  The search for a variable in
\* importance analysis relies on it (src/importance_analysis.cc:98-100).
ModulesAreContiguous ==
  phase = "built" => \A m \in DOMAIN order \cap Gates :
    Module(m) =>
      {order[n] : n \in Descendants(graph, m)} =
        (order[m] - Cardinality(Descendants(graph, m))) .. (order[m] - 1)
=============================================================================
