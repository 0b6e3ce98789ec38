------------------------------ MODULE ZbddSets ------------------------------
(***************************************************************************)
(* The algebra of zero-suppressed BDDs (src/zbdd.h, src/zbdd.cc).  A       *)
(* vertex stands for a family of sets of literals: Empty for none, Base    *)
(* for the empty set alone, and any other for the sets of high with its    *)
(* index and the sets of low.  As in BddFunctions a vertex is the record   *)
(* of its fields, so that equality is identity; the tables of results, and *)
(* the flag that a vertex is known to be minimal, only save time.          *)
(*                                                                         *)
(* S holds what the ZBDD was made with: the limit on the order of sets,    *)
(* whether prime implicants are asked for, and bound, the last index of a  *)
(* variable for cut set containers of MOCUS or 0 for any other ZBDD.       *)
(***************************************************************************)
EXTENDS Integers, FiniteSetsExt

Terminal(unity) ==
  [index |-> 0, order |-> 0, module |-> FALSE, coherent |-> FALSE, unity |-> unity]
Empty == Terminal(FALSE)
Base == Terminal(TRUE)
IsTerminal(v) == v.order = 0
Vertex(index, order, module, coherent) ==
  [index |-> index, order |-> order, module |-> module, coherent |-> coherent,
   high |-> Base, low |-> Empty]

\* Complements come after their variables.
Above(v, w) == v.order < w.order \/ (v.order = w.order /\ v.index > w.index)
Same(v, w) == v.order = w.order /\ v.index = w.index
Reduced(v, high, low) ==
  IF high = low \/ high = Empty \/ low = Base THEN low ELSE [v EXCEPT !.high = high, !.low = low]

\* The number of literals that a vertex adds to a set: none if it may turn out to be unity.
IsGate(S, v) == IF S.bound = 0 THEN v.module ELSE v.index > S.bound
MayBeUnity(S, v) == ~S.prime /\ (v.index < 0 \/ (IsGate(S, v) /\ ~(v.module /\ v.coherent)))
Weight(S, v) == IF MayBeUnity(S, v) THEN 0 ELSE 1
RECURSIVE MaxSetOrder(_, _)
MaxSetOrder(S, v) ==
  IF IsTerminal(v) THEN 0
  ELSE Max({MaxSetOrder(S, v.high) + Weight(S, v), MaxSetOrder(S, v.low)})

\* The family without the sets above the limit.
RECURSIVE Prune(_, _, _)
Prune(S, v, limit) ==
  IF limit < 0 THEN Empty
  ELSE IF IsTerminal(v) \/ MaxSetOrder(S, v) <= limit THEN v
  ELSE Reduced(v, Prune(S, v.high, limit - Weight(S, v)), Prune(S, v.low, limit))

\* The sets of high that contain no set of low.
Kept(v, high, low) == IF high = Empty THEN low ELSE [v EXCEPT !.high = high, !.low = low]
RECURSIVE Subsume(_, _)
Subsume(high, low) ==
  IF IsTerminal(low) THEN (IF low = Base THEN Empty ELSE high)
  ELSE IF IsTerminal(high) THEN high
  ELSE IF Above(low, high) THEN Subsume(high, low.low)
  ELSE Kept(high, IF Same(high, low) THEN Subsume(Subsume(high.high, low.high), low.low)
                  ELSE Subsume(high.high, low),
            Subsume(high.low, IF Same(high, low) THEN low.low ELSE low))
RECURSIVE Minimize(_)
MinimizeAbove(v, high, low) == Kept(v, Subsume(high, low), low)
Minimize(v) == IF IsTerminal(v) THEN v ELSE MinimizeAbove(v, Minimize(v.high), Minimize(v.low))

\* Where a literal meets its complement, which is next in the order, high skips it.
Consistent(v, high) == IF high.order = v.order THEN high.low ELSE high

Joined(v, high, low) == Minimize(Reduced(v, Consistent(v, high), low))

Upper(v, w) == IF Above(w, v) THEN w ELSE v
Lower(v, w) == IF Above(w, v) THEN v ELSE w
RECURSIVE Or(_, _, _, _), And(_, _, _, _)
\* f is above g, or with the same literal.
OrAbove(S, f, g, limit) ==
  LET below == limit - Weight(S, f)
  IN  IF f.order = g.order /\ f.index # g.index /\ IsTerminal(f.high) /\ IsTerminal(g.high) THEN Base
      ELSE Joined(f, IF Same(f, g) THEN Or(S, f.high, g.high, below) ELSE Prune(S, f.high, below),
                  Or(S, f.low, IF Same(f, g) THEN g.low ELSE g, limit))
Or(S, one, two, limit) ==
  IF limit < 0 THEN Empty
  ELSE IF one = Base \/ two = Base THEN Base
  ELSE IF one = Empty \/ two = Empty \/ one = two THEN Prune(S, IF one = Empty THEN two ELSE one, limit)
  ELSE OrAbove(S, Upper(one, two), Lower(one, two), limit)
AndAbove(S, f, g, limit) ==
  LET below == limit - Weight(S, f)
  IN  Joined(f, IF Same(f, g) THEN Or(S, And(S, f.high, Or(S, g.high, g.low, below), below),
                                         And(S, f.low, g.high, below), below)
                ELSE And(S, f.high, IF f.order = g.order THEN g.low ELSE g, below),
             And(S, f.low, IF Same(f, g) THEN g.low ELSE g, limit))
And(S, one, two, limit) ==
  IF limit < 0 \/ one = Empty \/ two = Empty THEN Empty
  ELSE IF one = Base \/ two = Base \/ one = two THEN Prune(S, IF one = Base THEN two ELSE one, limit)
  ELSE AndAbove(S, Upper(one, two), Lower(one, two), limit)

\* The fold over the arguments of a gate begins with the last in the order.
LastOf(vertices) ==
  CHOOSE v \in vertices : \A w \in vertices : IsTerminal(v) \/ (~IsTerminal(w) /\ v.order >= w.order)
RECURSIVE Combine(_, _, _, _)
Combine(S, type, result, rest) ==
  LET next == LastOf(rest)
  IN  IF rest = {} THEN result
      ELSE Combine(S, type, IF type = "and" THEN And(S, result, next, S.limit) ELSE Or(S, result, next, S.limit),
                   rest \ {next})
ApplyGate(S, type, args) == LET first == LastOf(args) IN Combine(S, type, first, args \ {first})

\* A vertex of which the literal goes, or not: its sets are those of high and of low.
WithoutLiteral(S, v, goes, high, low) ==
  IF goes THEN Or(S, high, low, S.limit) ELSE Minimize(Reduced(v, high, low))

\* Complements are taken to be true, but for those of modules that are not coherent.
RECURSIVE EliminateComplements(_, _)
EliminateComplements(S, v) ==
  IF IsTerminal(v) THEN v
  ELSE WithoutLiteral(S, v, v.index < 0 /\ ~(v.module /\ ~v.coherent),
                      EliminateComplements(S, v.high), EliminateComplements(S, v.low))

\* root is what the modules, by index, turned out to be.
RECURSIVE EliminateConstantModules(_, _, _)
EliminateConstantModules(S, root, v) ==
  IF IsTerminal(v) THEN v
  ELSE WithoutLiteral(S, v, v.module /\ root[v.index] = Base,
                      IF v.module /\ root[v.index] = Empty THEN Empty
                      ELSE EliminateConstantModules(S, root, v.high),
                      EliminateConstantModules(S, root, v.low))

-----------------------------------------------------------------------------
(* The modules of a ZBDD and the limits that are left for them *)

\* Mutant: the larger of the orders is taken.
LargerOrder(high, low) == IF low = -1 THEN high ELSE Max({high, low})
\* The order of the smallest set, or -1.
SmallerOrder(high, low) == IF low = -1 THEN high ELSE Min({high, low})
RECURSIVE MinSetOrder(_, _)
MinSetOrder(S, v) ==
  IF IsTerminal(v) THEN (IF v = Base THEN 0 ELSE -1)
  ELSE SmallerOrder(MinSetOrder(S, v.high) + Weight(S, v), MinSetOrder(S, v.low))
\* [index, coherent, limit] for every vertex of a module with so many literals above it.
RECURSIVE ModuleVertices(_, _, _)
ModuleVertices(S, v, above) ==
  IF IsTerminal(v) THEN {}
  ELSE (IF v.module THEN {[index |-> v.index, coherent |-> v.coherent,
                           limit |-> S.limit - MinSetOrder(S, v.high) - above]} ELSE {})
       \cup ModuleVertices(S, v.high, above + Weight(S, v)) \cup ModuleVertices(S, v.low, above)
HighestLimits(found) ==
  [m \in {e.index : e \in found} |->
     CHOOSE e \in found : e.index = m /\ \A d \in found : d.index = m => d.limit <= e.limit]
ModuleLimits(S, v) == HighestLimits(ModuleVertices(S, v, 0))

\* TestStructure of one ZBDD.
RECURSIVE WellFormed(_)
WellFormed(v) ==
  \/ IsTerminal(v)
  \/ /\ v.index # 0 /\ v.high # Empty /\ v.high # v.low
     /\ IsTerminal(v.high) \/ v.order < v.high.order
     /\ IsTerminal(v.low) \/ Above(v, v.low)
     /\ WellFormed(v.high) /\ WellFormed(v.low)
=============================================================================
