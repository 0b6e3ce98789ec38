------------------------- MODULE PreprocessorModules -------------------------
(***************************************************************************)
(* Detection and creation of modules (src/preprocessor.cc): one traversal  *)
(* notes when every node is entered, left and visited for the last time;   *)
(* a gate is a module when everything under it is visited between its      *)
(* entry and its exit.                                                     *)
(***************************************************************************)
EXTENDS PdagGates

-----------------------------------------------------------------------------
(* Visit times *)

\* [time, visits]: visits maps the visited nodes to <<enter, exit, last>>, 0 for none.
Unvisited == <<0, 0, 0>>
VisitsOf(T, n) == IF n \in DOMAIN T.visits THEN T.visits[n] ELSE Unvisited
Visit(T, n) ==
  LET v == VisitsOf(T, n)
      at == IF v[1] = 0 THEN 1 ELSE IF v[2] = 0 THEN 2 ELSE 3
  IN  [T EXCEPT !.visits = (n :> [v EXCEPT ![at] = T.time]) @@ @]
Tick(T) == [T EXCEPT !.time = @ + 1]
EnterTime(T, n) == VisitsOf(T, n)[1]
ExitTime(T, n) == VisitsOf(T, n)[2]
Revisited(T, n) == VisitsOf(T, n)[3] # 0
LastVisit(T, n) == IF Revisited(T, n) THEN VisitsOf(T, n)[3] ELSE ExitTime(T, n)

RECURSIVE AssignTimingFrom(_, _, _)
VisitLeaf(T, n) == Visit(Visit(T, n), n)
AssignTimingFrom(G, T, g) ==
  IF ExitTime(T, g) # 0 THEN Visit(Tick(T), g)
  ELSE Visit(Tick(FoldLeft(LAMBDA U, a : VisitLeaf(Tick(U), Node(a)),
                           FoldLeft(LAMBDA U, a : AssignTimingFrom(G, U, Node(a)), Visit(Tick(T), g),
                                    GateArgs(G, g)),
                           VariableArgs(G, g))), g)
AssignTiming(G) == AssignTimingFrom(G, [time |-> 0, visits |-> <<>>], G.root)

IsNodeWithinGraph(T, n, g) == EnterTime(T, n) > EnterTime(T, g) /\ LastVisit(T, n) < ExitTime(T, g)

-----------------------------------------------------------------------------
(* Modules.  F = [graph, min, max], min and max the times of the finished gates. *)

MinTime(F, T, n) == IF n \in DOMAIN F.min THEN F.min[n] ELSE EnterTime(T, n)
MaxTime(F, T, n) == IF n \in DOMAIN F.max THEN F.max[n] ELSE LastVisit(T, n)
DetectOverlap(F, T, a, b) ==
  /\ MinTime(F, T, Node(a)) <= MaxTime(F, T, Node(b))
  /\ MaxTime(F, T, Node(a)) >= MinTime(F, T, Node(b))

\* The given arguments of the gate become the arguments of a new module.
CreateNewModule(G, g, args) ==
  LET m == G.next + 1
      type == IF Type(G, g) \in {"and", "nand"} THEN "and" ELSE "or"
  IN  CASE args = Args(G, g) /\ Cardinality(args) > 1 -> Ensure(G, IsModule(G, g), "all arguments are modular")
        [] args # Args(G, g) /\ Cardinality(args) > 1 ->
             [AddArg(FoldLeft(LAMBDA H, a : TransferArg(H, g, a, m),
                              Mark(SetModule(NewGate(G, type), m, TRUE), m), InOrder(G, args)), g, m)
                EXCEPT !.held = G.held]
        [] OTHER -> G

\* Without those that overlap an argument that is not modular, directly or not.
RECURSIVE FilterModularArgs(_, _, _, _)
FilterModularArgs(F, T, modular, others) ==
  LET bad == {a \in modular : \E b \in others : DetectOverlap(F, T, a, b)}
  IN  IF bad = {} THEN modular ELSE FilterModularArgs(F, T, modular \ bad, bad)

\* Arguments whose times overlap, directly or not, are in one group.
RECURSIVE GroupAround(_, _, _, _)
GroupAround(F, T, modular, group) ==
  LET more == {a \in modular : \E b \in group : DetectOverlap(F, T, a, b)}
  IN  IF more = group THEN group ELSE GroupAround(F, T, modular, more)
GroupModularArgs(F, T, modular) == {GroupAround(F, T, modular, {a}) : a \in modular}

\* All modular arguments go under one module, and in there each group goes under another one.
CreateGroupModules(G, host, groups) ==
  LET Leader(group) == InOrder(G, group)[1]
      Group(a) == CHOOSE group \in groups : a \in group
  IN  FoldLeft(LAMBDA H, a : CreateNewModule(H, host, Group(a)), G,
               InOrder(G, {Leader(group) : group \in groups}))
CreateNewModules(G, g, modular, groups) ==
  LET all == modular = Args(G, g)
  IN  IF modular = {} THEN G
      ELSE CreateGroupModules(IF all THEN Ensure(G, IsModule(G, g), "modular arguments of no module")
                              ELSE CreateNewModule(G, g, modular),
                              IF all THEN g ELSE G.next + 1,
                              IF all /\ Cardinality(groups) = 1 THEN {} ELSE groups)

CheckGroups(G, kept, groups) ==
  Ensure(Ensure(G, Cardinality(kept) # 1, "one modular argument"),
         \A group \in groups : Cardinality(group) > 1, "group of one argument")
CreateModularModules(F, T, G, g, kept) ==
  LET groups == GroupModularArgs(F, T, kept)
  IN  [F EXCEPT !.graph = CreateNewModules(CheckGroups(G, kept, groups), g, kept, groups)]
ProcessModularArgs(F, T, g, single, modular, others) ==
  IF Type(F.graph, g) \notin {"and", "or", "nand", "nor"} THEN F
  ELSE CreateModularModules(F, T, CreateNewModule(F.graph, g, single), g,
                            FilterModularArgs(F, T, modular, others))

\* What has been found below the gate decides: its arguments are its own modules and variables
\* (single), visited within the gate (modular), or others.
\* Mutant: a module stays single when it is visited again.
IsSingleWhenRevisited(F, T, a) ==
  IF Node(a) \in Gates(F.graph) THEN IsModule(F.graph, Node(a))
  ELSE Cardinality(Parents(F.graph, Node(a))) = 1
IsSingle(F, T, a) ==
  IF Node(a) \in Gates(F.graph) THEN IsModule(F.graph, Node(a)) /\ ~Revisited(T, Node(a))
  ELSE Cardinality(Parents(F.graph, Node(a))) = 1
Within(F, T, g, a) == MinTime(F, T, Node(a)) > EnterTime(T, g) /\ MaxTime(F, T, Node(a)) < ExitTime(T, g)
Least(times) == CHOOSE t \in times : \A u \in times : t <= u
Greatest(times) == CHOOSE t \in times : \A u \in times : t >= u
FlagModule(G, g, original) == IF original THEN SetModule(G, g, TRUE) ELSE G
\* Single arguments are only used here; the times of the others, and of gates, are ranges.
CheckTimes(F, T, g, single, shared) ==
  LET ranges == shared \cup {a \in single : Node(a) \in Gates(F.graph)}
  IN  Ensure(Ensure(F.graph, \A a \in single : Within(F, T, g, a) /\ Parents(F.graph, Node(a)) = {g},
                    "module argument visited outside"),
             /\ EnterTime(T, g) > 0 /\ ExitTime(T, g) > EnterTime(T, g)
             /\ \A a \in ranges : MinTime(F, T, Node(a)) > 0 /\ MaxTime(F, T, Node(a)) > MinTime(F, T, Node(a)),
             "times of arguments")
ProcessTimed(F, T, g, single, modular, others, min, max) ==
  LET original == ~IsModule(F.graph, g) /\ min = EnterTime(T, g) /\ max = ExitTime(T, g)
  IN  ProcessModularArgs(
        [graph |-> FlagModule(Ensure(CheckTimes(F, T, g, single, modular \cup others),
                                     original => others = {}, "module with other arguments"), g, original),
         min |-> (g :> min) @@ F.min,
         max |-> (g :> Greatest({max, LastVisit(T, g)})) @@ F.max],
        T, g, single, modular, others)
ProcessDivided(F, T, g, single, modular, others) ==
  ProcessTimed(F, T, g, single, modular, others,
               Least({EnterTime(T, g)} \cup {MinTime(F, T, Node(a)) : a \in others}),
               Greatest({ExitTime(T, g)} \cup {MaxTime(F, T, Node(a)) : a \in others}))
ProcessArgs(F, T, g, args) ==
  LET single == {a \in args : IsSingle(F, T, a)}
      modular == {a \in args \ single : Within(F, T, g, a)}
  IN  ProcessDivided(F, T, g, single, modular, args \ (single \cup modular))

RECURSIVE FindModules(_, _, _)
FindModules(F, T, g) ==
  IF F.graph.gate[g].mark THEN F
  ELSE ProcessArgs(FoldLeft(LAMBDA E, a : FindModules(E, T, Node(a)), [F EXCEPT !.graph = Mark(@, g)],
                            GateArgs(F.graph, g)),
                   T, g, Args(F.graph, g))

CheckRootTimes(F, T) ==
  Ensure(F.graph, /\ ~Revisited(T, F.graph.root) /\ F.min[F.graph.root] = 1
                  /\ F.max[F.graph.root] = ExitTime(T, F.graph.root), "times of the root")
DetectTimed(G, T) ==
  CheckRootTimes(FindModules([graph |-> ClearGateMarks(G), min |-> <<>>, max |-> <<>>], T, G.root), T)
\* Constants are not visited.
CheckTiming(G) == Ensure(G, \A g \in Alive(G) : ~IsConstant(G, g), "times of a constant")
DetectModules(G) ==
  Collected(DetectTimed(CheckTiming(CheckNoNulls(G, "pass-through gates in modules")), AssignTiming(G)))
=============================================================================
