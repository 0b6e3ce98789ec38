------------------------------- MODULE Mocus -------------------------------
(***************************************************************************)
(* MOCUS (src/mocus.cc) on the cut set containers of src/zbdd.cc: ZBDDs    *)
(* with gates among the literals, gates that are not modules at the top;   *)
(* the gate at the root is taken out of its sets, expanded, and the result *)
(* is merged again, until the root is not a gate.                          *)
(***************************************************************************)
EXTENDS Zbdd

LastVariable(G) == Constant + Cardinality(G.variables)
ConvertGate(G, order, S, g) ==
  ApplyGate(S, Type(G, g), {VertexOf(G, order, a) : a \in Args(G, g)})

RECURSIVE Expanded(_, _, _, _)
Expanded(G, order, S, root) ==
  IF IsTerminal(root) \/ ~IsGate(S, root) \/ root.module THEN root
  ELSE Expanded(G, order, S, Or(S, root.low, And(S, ConvertGate(G, order, S, root.index), root.high, S.limit),
                                S.limit))

\* What is left of the limit for a module only matters if it is nothing: every container is made
\* with the settings of the analysis, and the settings that are adjusted for the module are logged.
RECURSIVE AnalyzeModule(_, _, _, _)
AnalyzeModules(G, order, S, root, limits) ==
  WithModules(S, root,
    [m \in DOMAIN limits |->
       IF limits[m].limit = 0 /\ limits[m].coherent THEN EmptyZbdd(S)   \* no unity
       ELSE AnalyzeModule(G, order, S, m)])
AnalyzeRoot(G, order, S, root) ==
  [AnalyzeModules(G, order, S, root, ModuleLimits(S, root)) EXCEPT !.root = Minimize(@)]
AnalyzeModule(G, order, S, g) ==
  Asserted(
    AnalyzeRoot(G, order, S,
      Minimize(WithoutComplements(S,
        Minimize(Expanded(G, order, S, Or(S, Empty, ConvertGate(G, order, S, g), S.limit))),
        G.gate[g].coherent))),
    IsModule(G, g), "converted gate is no module")
=============================================================================
