---------------------- MODULE PreprocessorNormalization ----------------------
(***************************************************************************)
(* The algorithms of src/preprocessor.cc that bring the gates of a graph   *)
(* into a normal form: order, coherence, normalization of gates, complement*)
(* propagation, coalescing, and the removal of gates defined twice.        *)
(***************************************************************************)
EXTENDS PdagGates

-----------------------------------------------------------------------------
(* Order and coherence *)

\* Arguments with more parents come first.
OrderArguments(G, args) ==
  LET parents == [a \in ToSet(args) |-> Cardinality(Parents(G, Node(a)))]
      At(a) == CHOOSE i \in DOMAIN args : args[i] = a
      First(a, b) == parents[a] > parents[b] \/ (parents[a] = parents[b] /\ At(a) < At(b))
  IN  [i \in DOMAIN args |->
         CHOOSE a \in ToSet(args) : Cardinality({b \in ToSet(args) : First(b, a)}) = i - 1]

Numbered(order, n) == IF n \in DOMAIN order THEN order ELSE (n :> Cardinality(DOMAIN order) + 1) @@ order
RECURSIVE OrderFrom(_, _, _)
OrderFrom(G, order, g) ==
  IF g \in DOMAIN order THEN order
  ELSE Numbered(FoldLeft(LAMBDA o, a : Numbered(o, Node(a)),
                         FoldLeft(LAMBDA o, a : OrderFrom(G, o, Node(a)), order,
                                  OrderArguments(G, GateArgs(G, g))),
                         OrderArguments(G, VariableArgs(G, g))), g)
TopologicalOrder(G) == OrderFrom(G, [n \in {} |-> 0], G.root)

\* Mutant: complements of arguments do not matter.
FlagCoherenceByType(G, g) ==
  [G EXCEPT !.gate[g].coherent = /\ Type(G, g) \notin {"xor", "nor", "not", "nand"}
                                 /\ \A n \in SubGates(G, g) : G.gate[n].coherent]
\* After the gates below.
FlagCoherence(G, g) ==
  [G EXCEPT !.gate[g].coherent = /\ Type(G, g) \notin {"xor", "nor", "not", "nand"}
                                 /\ \A a \in Args(G, g) : a > 0
                                 /\ \A n \in SubGates(G, g) : G.gate[n].coherent]
RECURSIVE MarkCoherenceOf(_, _)
MarkCoherenceOf(G, g) ==
  IF G.gate[g].mark THEN G
  ELSE FlagCoherence(FoldLeft(LAMBDA F, a : MarkCoherenceOf(F, Node(a)),
                              Ensure(Mark(G, g), ~IsConstant(G, g), "coherence of a constant"),
                              GateArgs(G, g)), g)
TakeCoherence(G) ==
  [Ensure(G, G.coherent => G.gate[G.root].coherent, "coherence lost") EXCEPT
     !.coherent = ~G.complement /\ G.gate[G.root].coherent]
MarkCoherence(G) == TakeCoherence(MarkCoherenceOf(ClearGateMarks(G), G.root))

-----------------------------------------------------------------------------
(* Normal gates: AND and OR only, or XOR and K/N besides if not full *)

RECURSIVE NotifyParentsOfNegativeGates(_, _)
NotifyParentsOfNegativeGates(G, g) ==
  IF G.gate[g].mark THEN G
  ELSE FoldLeft(LAMBDA H, a : NotifyParentsOfNegativeGates(H, Node(a)),
                NegateNonCoherentGateArgs(Mark(G, g), g), GateArgs(G, g))

\* x xor y = x & y' | x' & y
NormalizeXorGate(G, g) ==
  LET x == CHOOSE a \in Args(G, g) : \A b \in Args(G, g) \ {a} : Before(G, a, b)
      y == CHOOSE a \in Args(G, g) \ {x} : TRUE
      one == G.next + 1
      two == G.next + 2
      opened == NewGate(NewGate(Ensure(G, Cardinality(Args(G, g)) = 2, "XOR arguments"), "and"), "and")
  IN  \* the arguments are shared with both, negated in one of them each, and given up by the gate
      [FoldLeft(LAMBDA H, arg : AddArg(H, g, arg),
                 EraseArgs(NegateArg(NegateArg(
                   FoldLeft(LAMBDA H, move : ShareArg(H, g, move[1], move[2]),
                            SetType(Mark(Mark(opened, one), two), g, "or"),
                            <<<<x, one>>, <<x, two>>, <<y, one>>, <<y, two>>>>), two, x), one, y), g),
                 <<one, two>>) EXCEPT !.held = G.held]

\* @(k, [x, y]) = x & @(k-1, [y]) | @(k, [y]) for the argument x of the highest order.
ExpandAtleastGate(G, order, g, k) ==
  LET x == CHOOSE a \in Args(G, g) : \A b \in Args(G, g) : order[Node(b)] <= order[Node(a)]
      rest == InOrder(G, Args(G, g) \ {x})
      first == G.next + 1
      grand == G.next + 2
      second == G.next + 3
      opened == SetMin(SetMin(NewGate(NewGate(NewGate(G, "and"), "atleast"), "atleast"),
                              grand, k - 1), second, k)
  IN  [FoldLeft(LAMBDA H, arg : AddArg(H, arg[1], arg[2]),
                EraseArgs(SetType(Mark(Mark(Mark(
                  FoldLeft(LAMBDA H, arg : ShareArg(H, g, arg[1], arg[2]), opened,
                           <<<<x, first>>>> \o FlattenSeq([i \in DOMAIN rest |->
                                                <<<<rest[i], grand>>, <<rest[i], second>>>>])),
                  first), second), grand), g, "or"), g),
                <<<<first, grand>>, <<g, first>>, <<g, second>>>>) EXCEPT !.held = G.held]
RECURSIVE NormalizeAtleastGate(_, _, _)
NormalizeAtleastGate(G, order, g) ==
  LET k == G.gate[g].min
  IN  IF k \in {1, Cardinality(Args(G, g))}
        THEN SetType(Ensure(G, Cardinality(Args(G, g)) > 1, "K/N to normalize"), g,
                     IF k = 1 /\ Cardinality(Args(G, g)) > 1 THEN "or" ELSE "and")
        ELSE FoldLeft(LAMBDA H, part : NormalizeAtleastGate(H, order, part),
                      ExpandAtleastGate(Ensure(G, k > 0 /\ Cardinality(Args(G, g)) > 1, "K/N to normalize"),
                                        order, g, k),
                      <<G.next + 2, G.next + 3>>)

IsNormalizable(G, g) ==
  LET size == Cardinality(Args(G, g))
  IN  CASE Type(G, g) \in {"and", "or", "nand", "nor"} -> size > 1
        [] Type(G, g) = "atleast" -> size > 2 /\ G.gate[g].min > 1
        [] OTHER -> size = (CASE Type(G, g) = "xor" -> 2 [] Type(G, g) = "not" -> 1 [] OTHER -> -1)
\* After the gates below.
NormalType(type) == CASE type = "nor" -> "or" [] type = "nand" -> "and" [] type = "not" -> "null"
NormalizeChecked(G, order, g, full) ==
  CASE Type(G, g) \in {"nor", "nand", "not"} -> SetType(G, g, NormalType(Type(G, g)))
    [] Type(G, g) = "xor" /\ full -> NormalizeXorGate(G, g)
    [] Type(G, g) = "atleast" /\ full -> NormalizeAtleastGate(G, order, g)
    [] OTHER -> G
NormalizeType(G, order, g, full) ==
  NormalizeChecked(Ensure(G, IsNormalizable(G, g), "gate to normalize"), order, g, full)
RECURSIVE NormalizeGate(_, _, _, _)
NormalizeGate(G, order, g, full) ==
  IF G.gate[g].mark THEN G
  ELSE NormalizeType(FoldLeft(LAMBDA F, a : NormalizeGate(F, order, Node(a), full),
                              Ensure(Mark(G, g), ~IsConstant(G, g) /\ Args(G, g) # {}, "normalize"),
                              GateArgs(G, g)),
                     order, g, full)

CheckConstants(G) == Ensure(G, ~HasConstants(G), "constants left in the graph")
NormalizeGates(G, full) ==
  LET order == IF full THEN TopologicalOrder(G) ELSE <<>>
      negative == Type(G, G.root) \in {"nor", "nand", "not"}
  IN  RemoveNullGates(CheckConstants(NormalizeGate(
        ClearGateMarks(NotifyParentsOfNegativeGates(
          ClearGateMarks([CheckNoNulls(G, "pass-through gates to normalize")
                            EXCEPT !.complement = (@ # negative)]), G.root)), order, G.root, full)))

-----------------------------------------------------------------------------
(* Complements of gates are pushed to the variables *)

\* A complement gate is reused when nothing else refers to it; otherwise it is cloned, and the
\* clone is kept for further complements.  P = [graph, complements].
Dual(G, g) == NegateArgs(SetType(G, g, IF Type(G, g) = "or" THEN "and" ELSE "or"), g)
\* P = [graph, complements, swap]: swap the list of replacements for the current gate.
MakeDual(P, a, n, alone) ==
  LET copy == P.graph.next + 1
      checked == Ensure(P.graph, Type(P.graph, n) \in {"and", "or"}, "complement of a gate not normal")
  IN  IF alone THEN [P EXCEPT !.graph = Dual(checked, n), !.swap = Append(@, <<a, n>>)]
      ELSE [graph |-> Dual(Clone(IF IsModule(checked, n) THEN SetModule(checked, n, FALSE) ELSE checked, n), copy),
            complements |-> (n :> copy) @@ P.complements, swap |-> Append(P.swap, <<a, copy>>)]
RECURSIVE PropagateComplementsOf(_, _)
\* The list of the current gate survives the visit of an argument.
VisitComplements(P, n) == [PropagateComplementsOf([P EXCEPT !.swap = <<>>], n) EXCEPT !.swap = P.swap]
PropagateArg(P, a, n, alone) ==
  IF a < 0 /\ n \in DOMAIN P.complements
    THEN [P EXCEPT !.graph = Ensure(@, @.gate[P.complements[n]].mark, "complement not processed"),
                   !.swap = Append(@, <<a, P.complements[n]>>)]
  ELSE VisitComplements(IF a > 0 THEN P ELSE MakeDual(P, a, n, alone),
                        IF a > 0 \/ alone THEN n ELSE P.graph.next + 1)
CheckNotConstant(G, g, name) == Ensure(G, ~IsConstant(G, g), name)
SwapArgs(P, g) ==
  [P EXCEPT !.graph = FoldLeft(LAMBDA G, s : CheckNotConstant(AddArg(EraseArg(G, g, s[1]), g, s[2]), g,
                                                              "duplicate complement"), @, P.swap)]
PropagateComplementsOf(P, g) ==
  IF P.graph.gate[g].mark THEN P
  ELSE SwapArgs(FoldLeft(LAMBDA Q, a : PropagateArg(Q, a, Node(a), Cardinality(Parents(Q.graph, Node(a))) = 1),
                         [P EXCEPT !.graph = Mark(@, g)], GateArgs(P.graph, g)), g)
PropagateComplements(G) ==
  Collected(PropagateComplementsOf([graph |-> ClearGateMarks(G), complements |-> <<>>, swap |-> <<>>],
                                   G.root).graph)

\* The complement of the whole graph moves into its root (RunPhaseFour).
ComplementRoot(G) ==
  LET type == Type(G, G.root)
      H == Ensure(G, type \in {"and", "or", "null"}, "root of phase IV")
  IN  IF ~G.complement THEN G
      ELSE [IF type = "null" THEN NegateArgs(H, G.root) ELSE Dual(H, G.root) EXCEPT !.complement = FALSE]

-----------------------------------------------------------------------------
(* Coalescing: an AND (OR) argument of an AND (OR) gate is absorbed *)

TargetType(type) == CASE type \in {"and", "nand"} -> "and"
                      [] type \in {"or", "nor"} -> "or"
                      [] OTHER -> "none"
CanJoin(G, g, a, common) ==
  LET target == TargetType(Type(G, g))
  IN  /\ target # "none" /\ a > 0
      /\ ~IsConstant(G, a) /\ ~IsModule(G, a)
      /\ common \/ Cardinality(Parents(G, a)) = 1
      /\ Type(G, a) = target
CheckJoined(G, g) ==
  Ensure(G, IsConstant(G, g) \/ Cardinality(Args(G, g)) > 1, "coalesced to one argument")
\* R = [graph, changed, join]: join the list of arguments to be joined to the current gate.
NoteJoin(R, g, a, join, common) ==
  [R EXCEPT !.join = IF CanJoin(R.graph, g, a, common) THEN Append(join, a) ELSE join]
\* Mutant: every gate with arguments of its own type counts as changed.
JoinArgsAlwaysChanged(R, g) ==
  [R EXCEPT !.graph = FoldLeft(LAMBDA G, n : IF IsConstant(G, g) THEN G ELSE CheckJoined(CoalesceGate(G, g, n), g),
                               @, R.join),
            !.changed = TRUE]
JoinArgs(R, g) ==
  [R EXCEPT !.graph = FoldLeft(LAMBDA G, n : IF IsConstant(G, g) THEN G ELSE CheckJoined(CoalesceGate(G, g, n), g),
                               @, R.join),
            !.changed = @ \/ R.join # <<>>]
CheckCoalescing(G, g) ==
  Ensure(G, Args(G, g) # {} /\ (TargetType(Type(G, g)) # "none" => Cardinality(Args(G, g)) > 1), "gate to coalesce")
RECURSIVE CoalesceFrom(_, _, _)
CoalesceFrom(R, g, common) ==
  IF R.graph.gate[g].mark THEN R
  ELSE JoinArgs(FoldLeft(LAMBDA Q, a : NoteJoin(CoalesceFrom([Q EXCEPT !.join = <<>>], Node(a), common),
                                                g, a, Q.join, common),
                         [R EXCEPT !.graph = CheckCoalescing(Mark(@, g), g)], GateArgs(R.graph, g)), g)
CoalesceAllGates(G, common) ==
  IF IsConstant(G, G.root) THEN [graph |-> G, changed |-> FALSE]
  ELSE [CoalesceFrom([graph |-> ClearGateMarks(G), changed |-> FALSE, join |-> <<>>], G.root, common)
          EXCEPT !.graph = RemoveNullGates(@)]
CoalesceGates(G, common) == CoalesceAllGates(CheckNoNulls(G, "pass-through gates to coalesce"), common)

-----------------------------------------------------------------------------
(* Gates defined more than once *)

ReplaceArg(G, parent, sign, g, replacement) ==
  AddArg(EraseArg(G, parent, sign * g), parent, sign * replacement)
ReplaceGate(G, g, replacement) ==
  FoldLeft(LAMBDA H, p : IF p \in Parents(H, g) THEN ReplaceArg(H, p, GetArgSign(H, p, g), g, replacement) ELSE H,
           Ensure(G, Parents(G, g) # {}, "replace"), InOrder(G, Parents(G, g)))

SameGate(G, g, h) ==
  /\ Type(G, g) = Type(G, h) /\ Args(G, g) = Args(G, h)
  /\ Type(G, g) = "atleast" => G.gate[g].min = G.gate[h].min
\* D = [graph, unique, multiple], multiple the list of <<original, duplicate>>.
RECURSIVE DetectMultipleDefinitions(_, _)
DetectMultipleDefinitions(D, g) ==
  LET G == D.graph
      same == {h \in D.unique : SameGate(G, g, h)}
      marked == [D EXCEPT !.graph = Mark(CheckNotConstant(G, g, "constant gate"), g)]
  IN  IF G.gate[g].mark THEN D
      ELSE IF ~IsModule(G, g) /\ same # {}
        THEN [marked EXCEPT !.multiple = Append(@, <<CHOOSE h \in same : TRUE, g>>)]
        ELSE FoldLeft(LAMBDA E, a : DetectMultipleDefinitions(E, Node(a)),
                      [marked EXCEPT !.unique = IF IsModule(G, g) THEN @ ELSE @ \cup {g}], GateArgs(G, g))
Unify(G, multiple) ==
  IF multiple = <<>> THEN G
  ELSE RemoveNullGates(FoldLeft(LAMBDA H, pair : IF pair[2] \in Alive(H) THEN ReplaceGate(H, pair[2], pair[1])
                                                 ELSE H, G, multiple))
UnifyDetected(D) ==
  [graph |-> Unify(Hold(ClearGateMarks(D.graph), {pair[1] : pair \in ToSet(D.multiple)}), D.multiple),
   changed |-> D.multiple # <<>>]
ProcessDefinitions(G) ==
  IF IsConstant(G, G.root) THEN [graph |-> G, changed |-> FALSE]
  ELSE UnifyDetected(DetectMultipleDefinitions(
         [graph |-> ClearGateMarks(G), unique |-> {}, multiple |-> <<>>], G.root))
ProcessMultipleDefinitions(G) == ProcessDefinitions(CheckNoNulls(G, "pass-through gates defined twice"))
=============================================================================
