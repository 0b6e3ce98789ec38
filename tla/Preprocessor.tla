---------------------------- MODULE Preprocessor ----------------------------
(***************************************************************************)
(* The phases of preprocessing (src/preprocessor.cc and Transform of       *)
(* src/preprocessor.h): which algorithm is applied to the graph when, for  *)
(* each of the three engines.  One step is one algorithm; the agenda is    *)
(* the stack of the procedures that are active, each with what it has left *)
(* to do, the innermost one last.                                          *)
(***************************************************************************)
EXTENDS PreprocessorMerging, PreprocessorOptimization

VARIABLES
  graph,    \* graph_
  order,    \* the orders of the nodes
  engine,   \* the engine that the graph is prepared for, as far as it matters yet
  agenda    \* the active procedures

preprocessing == <<graph, order, engine, agenda>>

\* Transform: each operation is preceded by a test whether the graph has become trivial.
Transform(operations) ==
  [i \in 1..(2 * Len(operations)) |->
     IF i % 2 = 1 THEN "IsTrivial" ELSE operations[i \div 2]]

Run == Transform(<<"PhaseOne", "PhaseTwo", "PhaseThree">>)
RunForBdd == Transform(<<"MarkCoherence", "TopologicalOrder">>)
RunForZbdd == Transform(<<"PhaseFour", "PhaseFive", "MarkCoherence", "TopologicalOrder">>)
RunForMocus == Transform(<<"InvertOrder">>)
PhaseTwo ==
  <<"Sanity">> \o
  Transform(<<"MultipleDefinitions", "Modules", "Coalesce", "CommonArgs", "Distributivity", "Modules",
              "BooleanOptimization", "CommonNodes", "Modules", "Coalesce", "Modules">>)
PhaseFive ==
  <<"Sanity", "CoalesceAll", "IsTrivial", "PhaseTwo", "IsTrivial", "CoalesceAll", "IsTrivial">>

Doing(step) == agenda # <<>> /\ agenda[Len(agenda)] # <<>> /\ Head(agenda[Len(agenda)]) = step
Caller == Front(agenda)
Rest == Append(Caller, Tail(agenda[Len(agenda)]))
Call(procedure) == agenda' = Append(Rest, procedure)
Transformed(step, G) ==
  /\ Doing(step)
  /\ graph' = G
  /\ agenda' = Rest
  /\ UNCHANGED <<order, engine>>
\* while (algorithm()) continue; the loop goes on by way of Return.
Repeated(step, R) ==
  /\ Doing(step)
  /\ graph' = R.graph
  /\ agenda' = IF R.changed THEN Append(agenda, <<>>) ELSE Rest
  /\ UNCHANGED <<order, engine>>

-----------------------------------------------------------------------------
(* Control *)

Return ==
  /\ agenda # <<>> /\ agenda[Len(agenda)] = <<>>
  /\ agenda' = Caller
  /\ UNCHANGED <<graph, order, engine>>

\* A procedure returns when the graph is trivial, but not the ones that called it.
IsTrivial ==
  /\ Doing("IsTrivial")
  /\ graph' = IsTrivialStep(graph)
  /\ agenda' = IF HasTrivialRoot(graph') THEN Caller ELSE Rest
  /\ order' = IF HasTrivialRoot(graph') /\ ~IsConstant(graph', graph'.root)
                THEN [n \in {Node(a) : a \in Args(graph', graph'.root)} |-> 1] @@ order ELSE order
  /\ UNCHANGED engine

\* SANITY_ASSERT
StructureIsRight(G) ==
  \A g \in Alive(G) :
    LET size == Cardinality(Args(G, g))
    IN  /\ ~IsConstant(G, g)
        /\ CASE Type(G, g) \in {"null", "not"} -> size = 1
             [] Type(G, g) = "xor" -> size = 2
             [] Type(G, g) = "atleast" -> G.gate[g].min > 1 /\ size > G.gate[g].min
             [] OTHER -> size > 1
MarksAreContinuous(G) == \A g \in Alive(G) : G.gate[g].mark = G.gate[G.root].mark
Sanity ==
  Transformed("Sanity",
    FoldLeft(LAMBDA G, test : Ensure(G, test[1], test[2]), graph,
             << <<Parents(graph, graph.root) = {}, "root with parents">>,
                <<~(graph.coherent /\ graph.complement), "coherent complement">>,
                <<~HasConstants(graph), "constants">>,
                <<graph.nulls = <<>>, "pass-through gates">>,
                <<StructureIsRight(graph), "structure">>,
                <<MarksAreContinuous(graph), "marks">> >>))

StartRun ==
  /\ Doing("Run")
  /\ Call(Run)
  /\ UNCHANGED <<graph, order, engine>>
\* All preprocessors begin with Run; the one for MOCUS goes on as the one for ZBDDs does, so
\* that engine "zbdd" stands for both until that is done.
RunCustom ==
  /\ Doing("RunCustom")
  /\ \E e \in {"bdd", "zbdd"} :
       /\ engine' = e
       /\ Call(IF e = "bdd" THEN RunForBdd ELSE RunForZbdd)
  /\ UNCHANGED <<graph, order>>
FinishCustom ==
  /\ Doing("FinishCustom")
  /\ \E e \in IF engine = "zbdd" THEN {"zbdd", "mocus"} ELSE {engine} :
       /\ engine' = e
       /\ Call(IF e = "mocus" THEN RunForMocus ELSE <<>>)
  /\ UNCHANGED <<graph, order>>
StartPhaseOne ==
  /\ Doing("PhaseOne")
  /\ Call((IF graph.nulls # <<>> THEN <<"NullGates", "IsTrivial">> ELSE <<>>) \o <<"Sanity">>
          \o (IF graph.coherent THEN <<>> ELSE <<"Normalize">>))
  /\ UNCHANGED <<graph, order, engine>>
StartPhaseTwo ==
  /\ Doing("PhaseTwo")
  /\ Call(PhaseTwo)
  /\ UNCHANGED <<graph, order, engine>>
StartPhaseThree ==
  /\ Doing("PhaseThree")
  /\ Call(IF graph.normal THEN <<>> ELSE <<"Sanity", "NormalizeFully", "IsTrivial", "PhaseTwo">>)
  /\ UNCHANGED <<graph, order, engine>>
StartPhaseFour ==
  /\ Doing("PhaseFour")
  /\ Call(IF graph.coherent THEN <<>> ELSE <<"Sanity", "Complements", "IsTrivial", "PhaseTwo">>)
  /\ UNCHANGED <<graph, order, engine>>
StartPhaseFive ==
  /\ Doing("PhaseFive")
  /\ Call(PhaseFive)
  /\ UNCHANGED <<graph, order, engine>>

-----------------------------------------------------------------------------
(* Algorithms *)

RemoveNulls == Transformed("NullGates", RemoveNullGates(graph))
Normalize == Transformed("Normalize", NormalizeGates(graph, FALSE))
NormalizeFully == Transformed("NormalizeFully", [NormalizeGates(graph, TRUE) EXCEPT !.normal = TRUE])
Complements == Transformed("Complements", PropagateComplements(ComplementRoot(graph)))
MultipleDefinitions == Repeated("MultipleDefinitions", ProcessMultipleDefinitions(graph))
Modules == Transformed("Modules", DetectModules(graph))
Coalesce == Repeated("Coalesce", CoalesceGates(graph, FALSE))
CoalesceAll == Repeated("CoalesceAll", CoalesceGates(graph, TRUE))
Merged(G) ==
  CheckNoNulls(FoldLeft(MergeCommonArgs, CheckNoNulls(G, "pass-through gates to merge"), <<"and", "or">>),
               "pass-through gates merged")
CommonArgs == Transformed("CommonArgs", Merged(graph))
Distributivity == Transformed("Distributivity", DetectDistributivity(graph))
OptimizeBoolean == Transformed("BooleanOptimization", BooleanOptimization(graph))
CommonNodes == Transformed("CommonNodes", DecomposeCommonNodes(graph))
Coherence == Transformed("MarkCoherence", MarkCoherence(graph))

Order(step, orders) ==
  /\ Doing(step)
  /\ order' = orders
  /\ agenda' = Rest
  /\ UNCHANGED <<graph, engine>>
OrderNodes == Order("TopologicalOrder", TopologicalOrder(graph))

\* Gates that are not modules come first, the ones above before the ones below.
Inverted ==
  LET plain == {g \in Alive(graph) : ~IsModule(graph, g)}
      shift == Cardinality(plain)
  IN  [n \in DOMAIN order |->
         IF n \in plain THEN Cardinality({g \in plain : order[g] >= order[n]})
         ELSE shift + order[n]]
InvertOrder == Order("InvertOrder", Inverted)

-----------------------------------------------------------------------------
Preprocess ==
  \/ Return \/ IsTrivial \/ Sanity
  \/ StartRun \/ RunCustom \/ FinishCustom
  \/ StartPhaseOne \/ StartPhaseTwo \/ StartPhaseThree \/ StartPhaseFour \/ StartPhaseFive
  \/ RemoveNulls \/ Normalize \/ NormalizeFully \/ Complements \/ MultipleDefinitions \/ Modules
  \/ Coalesce \/ CoalesceAll \/ CommonArgs \/ Distributivity \/ OptimizeBoolean \/ CommonNodes
  \/ Coherence \/ OrderNodes \/ InvertOrder
=============================================================================
