-------------------------- MODULE PdagConstruction --------------------------
(***************************************************************************)
(* The constructor of Pdag (src/pdag.cc): a graph from the formulas of a   *)
(* model that ModelSetup has prepared; top is the gate to be analyzed, ccf *)
(* the basic events that are treated as common-cause gates, with those.    *)
(***************************************************************************)
EXTENDS ModelSetup, PdagGates

EmptyGraph(descending) ==
  [gate |-> [g \in {} |-> {}], next |-> Constant, root |-> Constant, complement |-> FALSE,
   coherent |-> TRUE, normal |-> TRUE, registering |-> TRUE, nulls |-> <<>>, variables |-> {},
   substitutions |-> <<>>, descending |-> descending, failed |-> {},
   held |-> {}, lost |-> FALSE]

\* The basic events (and gates) met so far, basic events in the order of their indices.
RECURSIVE GatherFormula(_, _, _), GatherEvent(_, _, _)
GatherFormula(M, met, formula) ==
  FoldLeft(LAMBDA m, arg : GatherEvent(M, m, arg.event), met, formula.args)
GatherEvent(M, met, event) ==
  IF event \in DOMAIN M.house \/ Contains(met.events, event) \/ event \in met.gates THEN met
  ELSE IF event \in DOMAIN M.formula
    THEN GatherFormula(M, [met EXCEPT !.gates = @ \cup {event}], M.formula[event])
  ELSE IF event \in DOMAIN M.ccf THEN GatherEvent(M, met, M.ccf[event])
  ELSE [met EXCEPT !.events = Append(@, event)]
GatherVariables(M) ==
  LET OfTarget(met, s) == IF HasTarget(s) THEN GatherEvent(M, met, s.target) ELSE met
      OfSubstitution(met, s) ==
        OfTarget(FoldLeft(LAMBDA m, e : GatherEvent(M, m, e), GatherFormula(M, met, s.hypothesis), s.source), s)
  IN  FoldLeft(OfSubstitution,
               GatherFormula(M, [gates |-> {}, events |-> <<>>], M.formula[M.top]),
               M.substitutions).events

\* Gates are constructed once; node maps what is constructed to its index.
\* A result is [graph, node], with the gate constructed last in gate.
Incoherent(C) == [C EXCEPT !.graph.coherent = FALSE]
NotNormal(C) == [C EXCEPT !.graph.normal = FALSE]
OpenGate(C, type) ==
  LET H == NewGate(C.graph, type) IN [C EXCEPT !.graph = H, !.gate = H.next]
AddTo(C, parent, a) == [C EXCEPT !.graph = AddArg(@, parent, a)]
\* null_gates_.push_back
Register(C, g) == [C EXCEPT !.graph.nulls = Append(@, g)]

RECURSIVE ConstructGate(_, _, _), AddEvent(_, _, _, _, _)
Enter(C, event) == [C EXCEPT !.node = (event :> C.gate) @@ @]
AddNode(C, parent, event, complement) ==
  AddTo(C, parent, IF complement THEN -C.node[event] ELSE C.node[event])
\* A house event becomes a pass-through gate of its own.
AddHouseEvent(C, parent, state) ==
  LET null == C.graph.next + 1
  IN  Register(FoldLeft(LAMBDA B, arg : AddTo(B, arg[1], arg[2]), OpenGate(C, "null"),
                        <<<<null, IF state THEN Constant ELSE -Constant>>, <<parent, null>>>>), null)
AddEvent(M, C, parent, event, complement) ==
  CASE event \in DOMAIN M.house -> AddHouseEvent(C, parent, complement # M.house[event])
    [] event \in DOMAIN M.ccf -> AddEvent(M, C, parent, M.ccf[event], complement)
    [] OTHER -> AddNode(IF event \in DOMAIN C.node THEN C
                        ELSE Enter(ConstructGate(M, C, M.formula[event]), event), parent, event, complement)

AddEvents(M, C, parent, args) ==
  FoldLeft(LAMBDA B, arg : AddEvent(M, B, parent, arg.event, arg.complement), C, args)

\* The gates that are opened, and the one that the arguments go to.
ConstructSimpleGate(C, formula) ==
  LET type == formula.connective
      g == C.graph.next + 1
      isNormal == type \in {"and", "or"}
      isCoherent == /\ type \in {"and", "or", "atleast", "null"}
                    /\ \A i \in DOMAIN formula.args : ~formula.args[i].complement
  IN  [OpenGate(C, type) EXCEPT
         !.graph = [@ EXCEPT !.gate[g].min = IF type = "atleast" THEN formula.min ELSE @,
                             !.nulls = IF type = "null" THEN Append(@, g) ELSE @,
                             !.normal = @ /\ isNormal, !.coherent = @ /\ isCoherent]]

\* An equality is the complement of a XOR gate.
ConstructIff(C) == OpenGate(OpenGate(NotNormal(Incoherent(C)), "null"), "xor")
FinishIff(C, parent) == [Register(AddTo(C, parent, -(parent + 1)), parent) EXCEPT !.gate = parent]

\* An implication is an OR with the complement of the premise.
PremiseNegated(args) == <<[args[1] EXCEPT !.complement = ~@], args[2]>>

\* From min to max of the arguments: at least min, and at least size - max of the complements.
ConstructCardinality(C, formula) ==
  [OpenGate(OpenGate(NotNormal(Incoherent(C)), "and"), "atleast") EXCEPT
     !.graph.gate[C.graph.next + 2].min = formula.min]
WellForm(G, g) ==
  LET min == G.gate[g].min
  IN  IF min = 0 THEN MakeConstant(G, g, TRUE)
      ELSE IF min = 1 THEN SetType(G, g, "or")
      ELSE AndIfAll(G, g)
\* G.next is the clone.
NegateVote(G, min) == SetMin(NegateArgs(G, G.next), G.next, min)
JoinVotes(G, parent) ==
  FoldLeft(LAMBDA H, vote : AddArg(H, parent, vote),
           FoldLeft(WellForm, G, <<parent + 1, G.next>>), <<parent + 1, G.next>>)
FinishCardinality(C, parent, formula) ==
  [C EXCEPT !.graph = JoinVotes(NegateVote(Clone(@, parent + 1), Len(formula.args) - formula.max), parent),
            !.gate = parent]

OpenFormula(C, formula) ==
  CASE formula.connective = "iff" -> ConstructIff(C)
    [] formula.connective = "imply" -> OpenGate(Incoherent(C), "or")
    [] formula.connective = "cardinality" -> ConstructCardinality(C, formula)
    [] OTHER -> ConstructSimpleGate(C, formula)
FinishFormula(C, g, formula) ==
  CASE formula.connective = "iff" -> FinishIff(C, g)
    [] formula.connective = "cardinality" -> FinishCardinality(C, g, formula)
    [] OTHER -> [C EXCEPT !.gate = g]
CheckFormula(C, formula) ==
  LET size == Len(formula.args)
  IN  [C EXCEPT !.graph = Ensure(@, /\ formula.connective \in {"iff", "imply"} => size = 2
                                    /\ formula.connective = "cardinality"
                                         => formula.max <= size /\ formula.min <= formula.max, "formula")]
ConstructGate(M, C, formula) ==
  LET g == C.graph.next + 1
      parent == IF formula.connective \in {"iff", "cardinality"} THEN g + 1 ELSE g
      args == IF formula.connective = "imply" THEN PremiseNegated(formula.args) ELSE formula.args
  IN  FinishFormula(AddEvents(M, OpenFormula(CheckFormula(C, formula), formula), parent, args), g, formula)

\* A declarative substitution is an implication that holds besides the top event.
NegatePremise(C, implication) == AddTo(C, implication, -C.gate)
ConcludeTarget(M, C, implication, target) ==
  IF target = DeleteTerms THEN [C EXCEPT !.graph = SetType(@, implication, "null")]
  ELSE AddEvent(M, C, implication, target, FALSE)
ConstructSubstitution(M, C, s) ==
  [ConcludeTarget(M, NegatePremise(ConstructGate(M, OpenGate(C, "or"), s.hypothesis), C.graph.next + 1),
                  C.graph.next + 1, s.target) EXCEPT !.gate = C.graph.next + 1]

\* The others are kept as lists of indices, for the products.
CollectSubstitution(C, s) ==
  LET Indices(events) == [i \in DOMAIN events |-> C.node[events[i]]]
      hypothesis == Indices([i \in DOMAIN s.hypothesis.args |-> s.hypothesis.args[i].event])
      Kept(args) == [hypothesis |-> args, source |-> Indices(s.source),
                     target |-> IF s.target = Nothing THEN 0 ELSE C.node[s.target]]
      kept == IF s.hypothesis.connective = "or"
                THEN [i \in DOMAIN hypothesis |-> Kept(<<hypothesis[i]>>)]
                ELSE <<Kept(hypothesis)>>
  IN  [C EXCEPT !.graph.substitutions = @ \o kept]

\* What has been made sure of before: no complements, gates or common-cause events.
CheckSubstitution(M, C, s) ==
  [C EXCEPT !.graph = Ensure(@, /\ s.hypothesis.connective \in {"null", "and", "or"}
                                /\ \A arg \in ToSet(s.hypothesis.args) :
                                     ~arg.complement /\ C.node[arg.event] \in @.variables
                                /\ ToSet(s.source) \cap DOMAIN M.ccf = {}, "substitution")]

\* The substitutions and the top event are arguments of an AND gate, if there are any.
JoinSubstitution(C, application) == AddTo(C, application, C.gate)
TakeRoot(G, application, top) ==
  IF Args(G, application) = {} THEN [G EXCEPT !.root = top]
  ELSE [AddArg(G, application, top) EXCEPT !.root = application, !.coherent = FALSE]
ApplySubstitutionsTo(M, C) ==
  LET application == C.graph.next + 1
  IN  Collected(TakeRoot(
        FoldLeft(LAMBDA B, s : IF Declarative(s) THEN JoinSubstitution(ConstructSubstitution(M, B, s), application)
                               ELSE CollectSubstitution(CheckSubstitution(M, B, s), s),
                 OpenGate(C, "and"), M.substitutions).graph, application, C.gate))

StartGraph(events, descending) ==
  [graph |-> [EmptyGraph(descending) EXCEPT !.next = Constant + Len(events),
                                            !.variables = 2..(Len(events) + 1)],
   node |-> [e \in ToSet(events) |-> 1 + CHOOSE i \in DOMAIN events : events[i] = e],
   gate |-> 0]
ConstructPdag(M, descending) ==
  ApplySubstitutionsTo(M, ConstructGate(M, StartGraph(GatherVariables(M), descending), M.formula[M.top]))

-----------------------------------------------------------------------------
(* What the formulas mean, with house events and common-cause gates in place *)

RECURSIVE EventHolds(_, _, _), FormulaHolds(_, _, _)
EventHolds(M, event, on) ==
  CASE event \in DOMAIN M.house -> M.house[event]
    [] event \in DOMAIN M.formula -> FormulaHolds(M, M.formula[event], on)
    [] event \in DOMAIN M.ccf -> FormulaHolds(M, M.formula[M.ccf[event]], on)
    [] OTHER -> event \in on
FormulaHolds(M, formula, on) ==
  LET n == Len(formula.args)
      Holds(i) == formula.args[i].complement # EventHolds(M, formula.args[i].event, on)
      k == Cardinality({i \in 1..n : Holds(i)})
  IN  CASE formula.connective = "iff" -> k # 1
        [] formula.connective = "imply" -> Holds(1) => Holds(2)
        [] formula.connective = "cardinality" -> k \in formula.min..formula.max
        [] OTHER -> Connect(formula.connective, formula.min, k, n)
\* The sets of indices of true basic events for which the top event happens, and every
\* declarative substitution holds.
ModelMeaning(M) ==
  LET events == GatherVariables(M)
      Events(on) == {events[i - 1] : i \in on}
      Applies(s, on) == FormulaHolds(M, s.hypothesis, Events(on))
      Substituted(on) ==
        \A i \in DOMAIN M.substitutions :
          LET s == M.substitutions[i]
          IN  Declarative(s) /\ Applies(s, on) => s.target \in Events(on)
  IN  {on \in SUBSET (2..(Len(events) + 1)) :
         FormulaHolds(M, M.formula[M.top], Events(on)) /\ Substituted(on)}
=============================================================================
