---------------------- MODULE PreprocessorOptimization ----------------------
(***************************************************************************)
(* The algorithms of src/preprocessor.cc for nodes with several parents:   *)
(* Boolean optimization, which lets a common node fail and looks where the *)
(* failure shows, and decomposition, which treats a common node as a       *)
(* constant under a gate that it is an argument of.                        *)
(***************************************************************************)
EXTENDS PreprocessorNormalization, PreprocessorModules

\* Gates and variables with more than one parent, in breadth-first order.
NewNodes(G, met, args) ==
  SelectSeq([i \in DOMAIN args |-> Node(args[i])], LAMBDA n : ~Contains(met, n))
RECURSIVE NodesFrom(_, _, _)
NodesFrom(G, met, i) ==
  IF i > Len(met) THEN met
  ELSE NodesFrom(G, IF met[i] \in Gates(G)
                      THEN met \o NewNodes(G, met, GateArgs(G, met[i]) \o VariableArgs(G, met[i])) ELSE met,
                 i + 1)
CommonNodesOf(G, nodes) ==
  [gates |-> SelectSeq(nodes, LAMBDA n : n \in Gates(G)),
   variables |-> SelectSeq(nodes, LAMBDA n : n \in G.variables)]
GatherCommonNodes(G) ==
  CommonNodesOf(G, SelectSeq(NodesFrom(G, <<G.root>>, 1), LAMBDA n : Cardinality(Parents(G, n)) > 1))
\* Nothing refers to the node any more.
Expired(G, n) == IF n \in Gates(G) THEN n \notin Alive(G) ELSE Parents(G, n) = {}

-----------------------------------------------------------------------------
(* Boolean optimization.  S = [graph, opti, descendant]: the optimization values of nodes (1  *)
(* failed, -1 works, 2 neither but above the node, 0 unknown) and the marks of its ancestors. *)

At(f, n) == IF n \in DOMAIN f THEN f[n] ELSE 0
SetOpti(S, n, value) == [S EXCEPT !.opti = (n :> value) @@ @]
Opti(S, n) == At(S.opti, n)
Require(S, condition, name) == [S EXCEPT !.graph = Ensure(@, condition, name)]

\* The ancestors of the node up to the module that it is in.  A = [graph, module], module 0 for none.
RECURSIVE MarkAncestors(_, _)
NoteModule(A, p) ==
  [graph |-> Mark(Ensure(A.graph, A.module = 0, "two modules above a node"), p), module |-> p]
MarkAncestor(A, p) ==
  IF A.graph.gate[p].mark THEN A
  ELSE IF IsModule(A.graph, p) THEN NoteModule(A, p)
  ELSE MarkAncestors([A EXCEPT !.graph = Mark(@, p)], p)
MarkAncestors(A, n) == FoldLeft(MarkAncestor, A, InOrder(A.graph, Parents(A.graph, n)))

\* The value of a gate of which failure arguments have failed, and success arguments work.
DetermineGateState(G, g, failure, success) ==
  LET type == Type(G, g)
      size == Cardinality(Args(G, g))
      State(f, s) == IF failure >= f THEN 1 ELSE IF success >= s THEN -1 ELSE 0
  IN  IF failure + success = 0 THEN 0
      ELSE CASE type = "null" -> State(1, 1)
             [] type = "not" -> -State(1, 1)
             [] type = "or" -> State(1, size)
             [] type = "nor" -> -State(1, size)
             [] type = "and" -> State(size, 1)
             [] type = "nand" -> -State(size, 1)
             [] type = "atleast" -> State(G.gate[g].min, size - G.gate[g].min + 1)
             [] type = "xor" -> IF failure = 1 /\ success = 1 THEN 1
                                ELSE IF failure = 2 \/ success = 2 THEN -1 ELSE 0

\* The node fails; marked gates are visited and unmarked.  The multiplicity is in total.
ArgValue(S, a, n) == IF Node(a) \in Gates(S.graph) \/ Node(a) = n THEN Sign(a) * Opti(S, Node(a)) ELSE 0
SetState(S, g, state, parents) ==
  [SetOpti(S, g, state) EXCEPT !.total = IF state # 0 /\ parents > 1 THEN @ + parents ELSE @]
IsDeterminable(G, g, known) ==
  /\ Type(G, g) \in {"null", "not"} => known = 1
  /\ Type(G, g) = "atleast" => Cardinality(Args(G, g)) > G.gate[g].min
DetermineState(S, g, failure, success) ==
  SetState(Require(Require(S, ~(success > 0 /\ S.graph.coherent), "success in a coherent graph"),
                   failure + success > 0 => IsDeterminable(S.graph, g, failure + success), "state of a gate"), g,
           DetermineGateState(S.graph, g, failure, success), Cardinality(Parents(S.graph, g)))
SettleState(S, g, n) ==
  LET Count(value) == Cardinality({a \in Args(S.graph, g) : ArgValue(S, a, n) = value})
  IN  DetermineState(Require(S, ~IsConstant(S.graph, g) /\ \A a \in Args(S.graph, g) : ArgValue(S, a, n) \in -1..1,
                             "states of arguments"), g, Count(1), Count(-1))
RECURSIVE PropagateState(_, _, _)
PropagateState(S, g, n) ==
  IF ~S.graph.gate[g].mark THEN S
  ELSE SettleState(
         FoldLeft(LAMBDA T, a : PropagateState(T, Node(a), n),
                  [Require(S, At(S.descendant, g) = 0 /\ Opti(S, g) = 0, "marks of an earlier node")
                     EXCEPT !.graph.gate[g].mark = FALSE, !.descendant = (g :> n) @@ @],
                  GateArgs(S.graph, g)), g, n)

\* The topmost gates that the failure determines: [.., total, destinations].
NoteDestination(S, m, n) ==
  IF m # n /\ Opti(S, m) \in {1, -1}
    THEN [S EXCEPT !.total = @ + 1, !.destinations = @ \cup {m}] ELSE S
RECURSIVE CollectStateDestinations(_, _, _)
CollectStateDestinations(S, g, n) ==
  IF At(S.descendant, g) = 0 \/ Opti(S, g) # 0 THEN S
  ELSE FoldLeft(LAMBDA T, a : NoteDestination(CollectStateDestinations(T, Node(a), n), Node(a), n),
                SetOpti(Require(S, S.descendant[g] = n, "descendant of another"), g, 2),
                GateArgs(S.graph, g))

\* Parents for which the node may be taken to be false; a parent that is itself a destination
\* and would only get the node back is neither.
StateType(S, g) == IF Opti(S, g) = 1 THEN "or" ELSE "and"
IsAlternative(S, p) == Opti(S, p) \in {1, -1} /\ Type(S.graph, p) = StateType(S, p)
CheckParents(S, n) ==
  Require(S, \A p \in Parents(S.graph, n) :
               /\ ~S.graph.gate[p].mark /\ Opti(S, p) \in {-1, 0, 1, 2}
               /\ S.graph.coherent /\ p \in S.destinations /\ IsAlternative(S, p)
                    => Opti(S, p) = GetArgSign(S.graph, p, n), "states of parents")
CollectRedundantParents(S, n, destinations) ==
  LET G == S.graph
      Collides(p) == p \in destinations /\ IsAlternative(S, p) /\ Opti(S, p) = GetArgSign(G, p, n)
      candidates == {p \in Parents(G, n) : Opti(S, p) # 2}
      collided == {p \in candidates : Collides(p)}
  IN  [destinations |-> destinations \ collided, redundant |-> candidates \ collided]
ProcessRedundantParents(G, n, redundant) ==
  FoldLeft(LAMBDA H, p : IF p \in Alive(H) THEN ProcessConstantArg(H, p, n, FALSE) ELSE H,
           G, InOrder(G, redundant))

\* The node becomes an alternative (or its complement a condition) of the destination.
KeepsState(G, target) == Ensure(G, IsConstant(G, target) \/ Type(G, target) # "null", "state lost")
TakeModule(G, target, new) ==
  IF IsModule(G, target) THEN SetModule(SetModule(G, target, FALSE), new, TRUE) ELSE G
TakePlace(G, target, new) ==
  IF target = G.root THEN [G EXCEPT !.root = new] ELSE ReplaceGate(G, target, new)
Interpose(G, type, a, target, new) ==
  [AddArg(TakePlace(Hold(TakeModule(AddArg(NewGate(G, type), new, a), target, new), {target}), target, new),
          new, target) EXCEPT !.held = G.held]
ProcessDestinationState(S, n, target) ==
  LET type == StateType(S, target)
      a == IF Opti(S, target) < 0 THEN -n ELSE n
      new == S.graph.next + 1
  IN  IF Type(S.graph, target) = type /\ IsConstant(S.graph, target) THEN S
      ELSE IF Type(S.graph, target) = type
        THEN [S EXCEPT !.graph = KeepsState(AddArg(@, target, a), target)]
      ELSE [S EXCEPT !.graph = Interpose(@, type, a, target, new), !.descendant = (new :> n) @@ @]
ProcessStateDestination(S, n, target) ==
  IF target \notin Alive(S.graph) THEN S
  ELSE ProcessDestinationState(Require(S, ~S.graph.gate[target].mark /\ Opti(S, target) \in {1, -1},
                                       "state of a destination"), n, target)
ProcessStateDestinations(S, n, destinations) ==
  FoldLeft(LAMBDA T, target : ProcessStateDestination(T, n, target), S, InOrder(S.graph, destinations))

\* Marks are cleared down and up, as far as the gates are marked.
RECURSIVE ClearStateMarks(_, _)
ClearStateMarks(S, g) ==
  IF At(S.descendant, g) = 0 THEN S
  ELSE FoldLeft(ClearStateMarks, SetOpti([S EXCEPT !.descendant = (g :> 0) @@ @], g, 0),
                [i \in DOMAIN GateArgs(S.graph, g) |-> Node(GateArgs(S.graph, g)[i])]
                \o InOrder(S.graph, Parents(S.graph, g)))

\* From the module above the node.
FailNode(S, A, n) ==
  PropagateState(SetOpti(Require([graph |-> A.graph, opti |-> S.opti, descendant |-> S.descendant,
                                  total |-> Cardinality(Parents(A.graph, n)), destinations |-> {}],
                                 A.module # 0 /\ At(S.opti, A.module) = 0 /\ Opti(S, n) = 0,
                                 "no clean module above a node"), n, 1),
                 A.module, n)
CheckReached(S, root, n) ==
  Require(S, ~S.graph.gate[root].mark /\ At(S.descendant, root) = n, "ancestors not reached")
FindDestinations(S, root, n) ==
  IF Opti(S, root) # 0 THEN [S EXCEPT !.total = 1, !.destinations = {root}]
  ELSE CollectStateDestinations([S EXCEPT !.total = 0], root, n)
\* It is worth it if there are fewer destinations than there were parents.
MoveNode(S, C, root, n) ==
  IF C.redundant # {}
    THEN ProcessStateDestinations(
           [S EXCEPT !.graph = Hold(ProcessRedundantParents(Hold(@, {root}), n, C.redundant), {root})],
           n, C.destinations)
    ELSE S
MoveToDestinations(S, root, n, multiplicity) ==
  IF S.total > 0 /\ S.total < multiplicity
    THEN MoveNode(CheckParents(S, n), CollectRedundantParents(S, n, S.destinations), root, n) ELSE S
ProcessFailed(S, root, n) == MoveToDestinations(FindDestinations(S, root, n), root, n, S.total)
\* Mutant: the marks of the gates stay.
ClearStateOfNode(S, root, n) == SetOpti(S, n, 0)
ClearState(S, root, n) == SetOpti(ClearStateMarks(S, root), n, 0)
OptimizeBelow(S, A, n) ==
  ClearState(ProcessFailed(CheckReached(FailNode(S, A, n), A.module, n), A.module, n), A.module, n)
FinishNode(S) == [graph |-> RemoveNullGates(S.graph), opti |-> S.opti, descendant |-> S.descendant]
ProcessCheckedNode(S, n) ==
  IF Expired(S.graph, n) \/ Cardinality(Parents(S.graph, n)) = 1 THEN S
  ELSE FinishNode(OptimizeBelow(S,
         MarkAncestors([graph |-> Hold(S.graph, {n} \cap Gates(S.graph)), module |-> 0], n), n))

ProcessCommonNode(S, n) ==
  ProcessCheckedNode([S EXCEPT !.graph = CheckNoNulls(@, "pass-through gates over a node")], n)

RootIsModule(G) == IF IsModule(G, G.root) THEN G ELSE SetModule(G, G.root, TRUE)
OptimizeNodes(G, common) ==
  FoldLeft(ProcessCommonNode,
           [graph |-> RootIsModule(ClearGateMarks(G)), opti |-> <<>>, descendant |-> <<>>],
           common.gates \o common.variables).graph
CheckCommon(G) == CheckArgGates(CheckNoNulls(G, "pass-through gates over nodes"), "constant over nodes")
BooleanOptimization(G) == OptimizeNodes(CheckCommon(G), GatherCommonNodes(G))

-----------------------------------------------------------------------------
(* Decomposition.  D = [graph, descendant, ancestor]: marks of the ancestors of the node, and  *)
(* of what is known to be inside (or, negative, not inside) the graph under a destination.     *)

CanDecompose(type) == type \in {"and", "nand", "or", "nor"}

RECURSIVE MarkDestinations(_, _, _)
MarkDestination(D, p, n) ==
  IF At(D.descendant, p) = n THEN D ELSE MarkDestinations([D EXCEPT !.descendant = (p :> n) @@ @], p, n)
MarkDestinations(D, g, n) ==
  IF IsModule(D.graph, g) THEN D
  ELSE FoldLeft(LAMBDA E, p : MarkDestination(E, p, n), D, InOrder(D.graph, Parents(D.graph, g)))

\* [.., within]: whether all ancestors of the gate are inside the graph under the root.
NoteAncestry(D, g, root) == [D EXCEPT !.ancestor = (g :> IF D.within THEN root ELSE -root) @@ @]
RECURSIVE IsAncestryWithinGraph(_, _, _, _)
IsAncestryWithinGraph(D, T, g, root) ==
  IF g = root \/ At(D.ancestor, g) \in {root, -root}
    THEN [D EXCEPT !.within = g = root \/ At(D.ancestor, g) = root]
    ELSE NoteAncestry(FoldLeft(LAMBDA E, p : IF E.within THEN IsAncestryWithinGraph(E, T, p, root) ELSE E,
                               Require([D EXCEPT !.within = IsNodeWithinGraph(T, g, root)],
                                       /\ EnterTime(T, root) > 0 /\ ExitTime(T, root) > EnterTime(T, root)
                                       /\ LastVisit(T, g) >= EnterTime(T, g), "root without times"),
                               InOrder(D.graph, Parents(D.graph, g))), g, root)

RECURSIVE ClearAncestorMarks(_, _, _)
ClearAncestorMarks(D, g, root) ==
  IF At(D.ancestor, g) = 0 THEN D
  ELSE FoldLeft(LAMBDA E, p : ClearAncestorMarks(E, p, root),
                [Require(D, D.ancestor[g] \in {root, -root}, "ancestor of another root")
                   EXCEPT !.ancestor = (g :> 0) @@ @],
                InOrder(D.graph, Parents(D.graph, g)))

\* Under the destination the node has the given state.  A gate that is also used elsewhere is
\* cloned, but the clone is only put to use if it passes through, which no clone does.
IsParent(D, m, n) == n \in {Node(b) : b \in Args(D.graph, m)}
SetNode(D, m, n, state) ==
  [D EXCEPT !.graph = IF D.within THEN ProcessConstantArg(@, m, n, state)
                      ELSE Ensure(@, ~IsConstant(@, m) /\ Type(@, m) # "null", "clone")]
SetIfParent(D, T, m, n, state, root) ==
  IF IsParent(D, m, n) THEN SetNode(IsAncestryWithinGraph(D, T, m, root), m, n, state) ELSE D
FinishAncestor(D, g, n) ==
  IF IsParent(D, g, n) \/ \E m \in SubGates(D.graph, g) : At(D.descendant, m) = n THEN D
  ELSE [D EXCEPT !.descendant = (g :> 0) @@ @]
RECURSIVE ProcessAncestors(_, _, _, _, _, _)
DescendWithin(D, T, m, n, state, root) ==
  IF D.within THEN ProcessAncestors(D, T, m, n, state, root) ELSE D
ProcessAncestor(D, T, m, n, state, root) ==
  IF At(D.descendant, m) = n THEN DescendWithin(IsAncestryWithinGraph(D, T, m, root), T, m, n, state, root)
  ELSE D
ClearAncestors(D, g, root) ==
  FoldLeft(LAMBDA E, a : ClearAncestorMarks(E, Node(a), root), D, GateArgs(D.graph, g))
ProcessAncestors(D, T, g, n, state, root) ==
  IF D.graph.gate[g].mark THEN D
  ELSE FinishAncestor(ClearAncestors(
         FoldLeft(LAMBDA E, a : ProcessAncestor(SetIfParent(E, T, Node(a), n, state, root),
                                                T, Node(a), n, state, root),
                  [D EXCEPT !.graph = Mark(@, g)], GateArgs(D.graph, g)), g, root), g, n)

StateUnder(G, p, n) == (Type(G, p) \in {"and", "nand"}) = (GetArgSign(G, p, n) > 0)
CheckClean(D, p) ==
  Require(D, ~D.graph.gate[p].mark /\ At(D.ancestor, p) = 0 /\ CanDecompose(Type(D.graph, p)),
          "destination not clean")
ClearDestination(D, p, held) == [D EXCEPT !.graph = [ClearMarks(@, p) EXCEPT !.held = held]]
ProcessDestination(D, T, n, p) ==
  IF p \notin Alive(D.graph) \/ p \notin Parents(D.graph, n) THEN D
  ELSE ClearDestination(ProcessAncestors([CheckClean(D, p) EXCEPT !.graph = Hold(@, {p})], T, p, n,
                                         StateUnder(D.graph, p, n), p), p, D.graph.held)
ProcessDestinations(D, T, n, destinations) ==
  [FoldLeft(LAMBDA E, p : ProcessDestination(E, T, n, p), D, destinations) EXCEPT !.graph = RemoveNullGates(@)]

ProcessMarked(D, T, n, parents, held) ==
  LET destinations == SelectSeq(parents, LAMBDA p : At(D.descendant, p) = n
                                                    /\ CanDecompose(Type(D.graph, p)))
  IN  IF destinations = <<>> THEN [D EXCEPT !.graph.held = held]
      ELSE ProcessDestinations(D, T, n, destinations)
ProcessParents(D, T, n, parents) ==
  LET modules == {p \in ToSet(parents) : IsModule(D.graph, p)}
  IN  IF \A p \in ToSet(parents) : ~CanDecompose(Type(D.graph, p)) THEN D
      ELSE ProcessMarked(
             FoldLeft(LAMBDA E, p : MarkDestinations(E, p, n),
                      [D EXCEPT !.graph = Ensure(Hold(@, {n} \cap Gates(@)), Cardinality(modules) < 2,
                                                 "two module parents")], parents),
             T, n, parents, D.graph.held)
DecompositionProcessor(D, T, n) ==
  LET parents == Parents(D.graph, n)
  IN  IF Expired(D.graph, n) \/ Cardinality(parents) < 2 THEN D
      ELSE ProcessParents([D EXCEPT !.graph = CheckNoNulls(@, "pass-through gates over a common node")],
                          T, n, InOrder(D.graph, parents))

DecomposeNodes(G, T, common) ==
  FoldLeft(LAMBDA D, n : DecompositionProcessor(D, T, n),
           [graph |-> ClearGateMarks(G), descendant |-> <<>>, ancestor |-> <<>>, within |-> FALSE],
           Reverse(common.gates) \o Reverse(common.variables)).graph
DecomposeCommonNodes(G) == DecomposeNodes(CheckTiming(CheckCommon(G)), AssignTiming(G), GatherCommonNodes(G))
=============================================================================
