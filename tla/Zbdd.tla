-------------------------------- MODULE Zbdd --------------------------------
(***************************************************************************)
(* The ZBDD of a preprocessed graph (src/zbdd.cc, src/zbdd.h): converted   *)
(* from the gates, or from the BDD of the graph (src/bdd.cc), module by    *)
(* module, with the limit on the order of sets that is left for a module.  *)
(* A ZBDD is [limit, root, modules, failed], modules a function from the   *)
(* indices of the modules in root to their ZBDDs, and failed the names of  *)
(* the assertions that did not hold.                                       *)
(***************************************************************************)
EXTENDS PdagGates, BddFolds, ZbddSets

NoModules == [m \in {} |-> {}]
WithLimit(S, limit) == [S EXCEPT !.limit = limit]
Zbdd(S, root, modules) ==
  [limit |-> S.limit, root |-> root, modules |-> modules,
   failed |-> UNION {modules[m].failed : m \in DOMAIN modules}]
Asserted(Z, condition, name) == IF condition THEN Z ELSE [Z EXCEPT !.failed = @ \cup {name}]
EmptyZbdd(S) == Zbdd(S, Empty, NoModules)

\* The vertex of a variable or a gate, with the flags of the gate.
VertexOf(G, order, a) ==
  IF Node(a) \in Gates(G) THEN Vertex(a, order[a], IsModule(G, a), G.gate[a].coherent)
  ELSE Vertex(a, order[Node(a)], FALSE, FALSE)

\* Modules that came out constant are eliminated, if there are any.
ModulesEliminated(S, root, modules) ==
  LET Root(m) == modules[m].root
      constant == \E m \in DOMAIN modules : IsTerminal(Root(m))
  IN  Zbdd(S, IF constant THEN EliminateConstantModules(S, [m \in DOMAIN modules |-> Root(m)], root)
              ELSE root, modules)
\* root is asserted to be in order before that, and so are the limits that are left for modules.
WithModules(S, root, modules) ==
  Asserted(Asserted(ModulesEliminated(S, root, modules), WellFormed(root), "set nodes"),
           \A found \in ModuleVertices(S, root, 0) : found.limit >= 0, "negative limit")

-----------------------------------------------------------------------------
(* From the gates *)

RECURSIVE ConvertGates(_, _, _, _)
ConvertGates(G, order, S, g) ==
  ApplyGate(S, Type(G, g),
    {IF Node(a) \in Gates(G) /\ ~IsModule(G, a) THEN ConvertGates(G, order, S, a)
     ELSE VertexOf(G, order, a) : a \in Args(G, g)})

RECURSIVE ZbddOfModule(_, _, _, _)
ConvertModules(G, order, S, root, limits) ==
  WithModules(S, root,
    [m \in DOMAIN limits |->
       IF limits[m].limit = 0 /\ limits[m].coherent THEN EmptyZbdd(S)   \* no unity
       ELSE ZbddOfModule(G, order, WithLimit(S, limits[m].limit), m)])
WithModulesOf(G, order, S, root) == ConvertModules(G, order, S, root, ModuleLimits(S, root))
WithoutComplements(S, root, coherent) == IF coherent THEN root ELSE EliminateComplements(S, root)
ZbddOfModule(G, order, S, g) ==
  IF IsConstant(G, g) \/ Type(G, g) = "null" THEN EmptyZbdd(S)
  ELSE Asserted(WithModulesOf(G, order, S,
                  Minimize(WithoutComplements(S, ConvertGates(G, order, S, g), G.gate[g].coherent))),
                IsModule(G, g), "converted gate is no module")

\* A graph that is one variable or a constant; a complement is taken to be true.
ZbddOfGraph(G, order, S) ==
  LET a == CHOOSE b \in Args(G, G.root) : TRUE
      root == IF a = -Constant THEN Empty
              ELSE IF a = Constant \/ a < 0 THEN Base
              ELSE VertexOf(G, order, a)
  IN  IF HasTrivialRoot(G) THEN Zbdd(S, root, NoModules) ELSE ZbddOfModule(G, order, S, G.root)

-----------------------------------------------------------------------------
(* From the BDD *)

\* The function of a gate, with the modules under it as variables.
RECURSIVE FunctionOf(_, _, _)
FunctionOf(G, order, g) ==
  ApplyAll(order, Type(G, g),
    {Flip(IF Node(a) \in Gates(G) /\ ~IsModule(G, Node(a)) THEN FunctionOf(G, order, Node(a))
          ELSE Literal(Node(a)), a < 0) : a \in Args(G, g)})
FunctionOfGraph(G, order) ==
  LET a == CHOOSE b \in Args(G, G.root) : TRUE
  IN  IF HasTrivialRoot(G)
        THEN Flip(IF Node(a) = Constant THEN Fun(FALSE, One) ELSE Literal(Node(a)), a < 0)
        ELSE Flip(FunctionOf(G, order, G.root), G.complement)

\* B = [graph, order, prime, coherent], coherent that of the module being converted.
BddVertex(B, f) == VertexOf(B.graph, B.order, f.vertex.index)
Negated(v) == [v EXCEPT !.index = -@]
CutOff(v) == IF IsTerminal(v) THEN v ELSE Empty
RECURSIVE ConvertBdd(_, _, _)
ConvertAround(B, f, v, consensus, limit) ==
  LET sublimit == IF v.module /\ ~B.prime THEN limit ELSE limit - 1
  IN  IF limit = 0 THEN CutOff(consensus)
      ELSE Reduced(v, ConvertBdd(B, HighOf(f), sublimit),
                   Reduced(Negated(v), ConvertBdd(B, LowOf(f), sublimit), consensus))
ConvertBddPrimeImplicants(B, f, v, limit) ==
  ConvertAround(B, f, v, ConvertBdd(B, Apply(B.order, "and", HighOf(f), LowOf(f)), limit), limit)
ConvertAbove(B, f, v, low, limit) ==
  IF limit = 0 THEN CutOff(low) ELSE Reduced(v, ConvertBdd(B, HighOf(f), limit - 1), low)
ConvertBdd(B, f, limit) ==
  LET v == BddVertex(B, f)
  IN  IF f.vertex = One THEN (IF f.complement THEN Empty ELSE Base)
      ELSE IF (B.prime /\ ~B.coherent) \/ (v.module /\ ~v.coherent)
        THEN ConvertBddPrimeImplicants(B, f, v, limit)
      ELSE ConvertAbove(B, f, v, ConvertBdd(B, LowOf(f), limit), limit)

RECURSIVE ZbddOfFunction(_, _, _)
ModuleFunction(B, m) == FunctionOf(B.graph, B.order, Node(m))
ConvertFunctions(B, S, root, limits) ==
  Asserted(
    WithModules(S, root,
      [m \in DOMAIN limits |->
         IF limits[m].limit = 0 /\ limits[m].coherent /\ m > 0 THEN EmptyZbdd(S)   \* no unity
         ELSE ZbddOfFunction([B EXCEPT !.coherent = limits[m].coherent /\ m > 0], WithLimit(S, limits[m].limit),
                             Flip(ModuleFunction(B, m), m < 0))]),
    \A m \in DOMAIN limits : ModuleFunction(B, m).vertex # One, "constant module")
WithFunctionsOf(B, S, root) == ConvertFunctions(B, S, root, ModuleLimits(S, root))
ZbddOfFunction(B, S, f) == WithFunctionsOf(B, S, Minimize(ConvertBdd(B, f, S.limit)))
ZbddOfBdd(G, order, S) ==
  ZbddOfFunction([graph |-> G, order |-> order, prime |-> S.prime, coherent |-> G.coherent],
                 S, FunctionOfGraph(G, order))

-----------------------------------------------------------------------------
(* Products and their analysis *)

\* The iterator (const_iterator, module_iterator).  An iterator is [zbdd, start, end, over, stack]:
\* it appends vertices to a path that it shares with the iterators [node, it] of the modules on its
\* stack; its own part of the path begins after start, and end is where its last product ended.
\* It runs as R = [path, it, found], found whether the path has become a product.
RECURSIVE GenerateProduct(_, _, _), TryHigh(_, _), Following(_, _)
Started(Z, path) ==
  [path |-> path, found |-> FALSE,
   it |-> [zbdd |-> Z, start |-> Len(path), end |-> Len(path), over |-> FALSE, stack |-> <<>>]]
Opened(R) == [R EXCEPT !.it.end = Len(R.path), !.it.over = ~R.found]
Open(limit, Z, path) == Opened(GenerateProduct(limit, Started(Z, path), Z.root))

\* The vertex of a module is represented by the products of the module, one after the other.
WithModule(R, stack, v, M) == [R EXCEPT !.path = M.path, !.it.stack = Append(stack, [node |-> v, it |-> M.it])]
\* Mutant: the vertex of the module is pushed like a literal.
PushModuleVertex(limit, R, v) ==
  WithModule(R, R.it.stack, v, Open(limit, R.it.zbdd.modules[v.index], Append(R.path, v)))
PushModule(limit, R, v) == WithModule(R, R.it.stack, v, Open(limit, R.it.zbdd.modules[v.index], R.path))
AdvanceModule(limit, R) ==
  LET top == Last(R.it.stack)
  IN  WithModule(R, Front(R.it.stack), top.node,
                 Following(limit, [path |-> R.path, it |-> top.it, found |-> FALSE]))
TryHigh(limit, R) ==
  LET top == Last(R.it.stack)
      above == GenerateProduct(limit, R, top.node.high)
  IN  IF top.it.over THEN GenerateProduct(limit, [R EXCEPT !.it.stack = Front(@)], top.node.low)
      ELSE IF above.found THEN above
      ELSE TryHigh(limit, AdvanceModule(limit, above))

Pop(limit, R) == GenerateProduct(limit, [R EXCEPT !.path = Front(@)], Last(R.path).low)
PopUnlessFound(limit, R) == IF R.found THEN R ELSE Pop(limit, R)
\* A path with as many literals as the limit that is not complete is given up.
GenerateProduct(limit, R, v) ==
  IF IsTerminal(v) \/ Len(R.path) >= limit THEN [R EXCEPT !.found = v = Base]
  ELSE IF v.module THEN TryHigh(limit, PushModule(limit, R, v))
  ELSE PopUnlessFound(limit, GenerateProduct(limit, [R EXCEPT !.path = Append(@, v)], v.high))

\* operator++
RECURSIVE Backtrack(_, _)
Backtrack(limit, R) ==
  IF R.found \/ Len(R.path) = R.it.start THEN R
  ELSE Backtrack(limit, IF R.it.stack # <<>> /\ Len(R.path) = Last(R.it.stack).it.end
                          THEN TryHigh(limit, AdvanceModule(limit, R)) ELSE Pop(limit, R))
Finished(R) == [R EXCEPT !.it.end = Len(R.path), !.it.over = Len(R.path) = R.it.start]
Following(limit, R) == IF R.it.over THEN R ELSE Finished(Backtrack(limit, [R EXCEPT !.found = FALSE]))

RECURSIVE ProductsFrom(_, _)
ProductsFrom(limit, R) ==
  IF R.it.over THEN <<>>
  ELSE <<[i \in DOMAIN R.path |-> R.path[i].index]>> \o ProductsFrom(limit, Following(limit, R))
Products(Z) == ProductsFrom(Z.limit, Open(Z.limit, Z, <<>>))

\* The sets of literals of a substitution list are replaced in every product.
SetVertex(S, product) ==
  FoldSet(LAMBDA a, v : And(S, v, Vertex(a, Node(a), FALSE, FALSE), S.limit), Base, product)
Substituted(substitutions, product) ==
  LET applied == {s \in ToSet(substitutions) : ToSet(s.hypothesis) \subseteq product}
  IN  (product \ UNION {ToSet(s.source) : s \in applied})
      \cup ({s.target : s \in applied} \ {0})
ApplySubstitutions(S, Z, substitutions) ==
  LET Add(v, product) == Or(S, v, SetVertex(S, Substituted(substitutions, ToSet(product))), S.limit)
  IN  IF substitutions = <<>> THEN Z
      ELSE [Z EXCEPT !.root = Minimize(FoldLeft(Add, Empty, Products(Z))), !.modules = NoModules]

RECURSIVE Minimized(_)
Minimized(Z) ==
  [Z EXCEPT !.root = Minimize(@), !.modules = [m \in DOMAIN @ |-> Minimized(@[m])]]

\* What is asserted of a ZBDD with its modules: none of those in it is constant (TestStructure), and
\* no set is above the limit that the ZBDD was made with (Analyze).
RECURSIVE IsWellFormed(_, _), IsWithinLimits(_, _)
IsWellFormed(S, Z) ==
  /\ WellFormed(Z.root)
  /\ \A m \in {found.index : found \in ModuleVertices(S, Z.root, 0)} :
       ~IsTerminal(Z.modules[m].root) /\ IsWellFormed(S, Z.modules[m])
IsWithinLimits(S, Z) ==
  MaxSetOrder(S, Z.root) <= Z.limit /\ \A m \in DOMAIN Z.modules : IsWithinLimits(S, Z.modules[m])
Checked(S, Z) ==
  Asserted(Asserted(Z, IsWellFormed(S, Z), "structure"), IsWithinLimits(S, Z), "set above the limit")
Analyzed(S, Z, substitutions) ==
  Checked(S, ApplySubstitutions(S, Minimized(Checked(S, Z)), substitutions))
=============================================================================
