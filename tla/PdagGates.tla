------------------------------ MODULE PdagGates ------------------------------
(***************************************************************************)
(* The propositional directed acyclic graph while it is being simplified:  *)
(* class Gate of src/pdag.h and src/pdag.cc, whose operations keep a gate  *)
(* well formed when an argument turns out to be a duplicate, a complement  *)
(* or a constant.                                                          *)
(*                                                                         *)
(* A graph is a record.  gate maps the indices of the gates to their       *)
(* fields; args is a set of signed indices, as in the code (a negative one *)
(* is a complement).  Constant is the index of the constant true, then     *)
(* come the variables, then the gates in the order of their creation.      *)
(* Parents are derived: a gate is alive, and a parent of its arguments,    *)
(* when it is reached from the root or from a gate that a local variable   *)
(* of an algorithm holds, which is what the shared pointers amount to.     *)
(* nulls is the list of pass-through gates to be removed, failed collects  *)
(* the names of assertions that did not hold, and lost says whether the    *)
(* case of ProcessAtleastGateDuplicateArg with two arguments was met.      *)
(* The argument tables of the code are in an order that depends on their   *)
(* history; descending says in which of two orders tables are traversed.   *)
(***************************************************************************)
EXTENDS Integers, Sequences, FiniteSets, SequencesExt

Constant == 1
Node(arg) == IF arg > 0 THEN arg ELSE -arg
Sign(arg) == IF arg > 0 THEN 1 ELSE -1
Opposite(args) == {-a : a \in args}

Gates(G) == DOMAIN G.gate
Args(G, g) == G.gate[g].args
Type(G, g) == G.gate[g].type
IsModule(G, g) == G.gate[g].module
IsConstant(G, g) == {Constant, -Constant} \cap Args(G, g) # {}
GetArgSign(G, g, n) == IF n \in Args(G, g) THEN 1 ELSE -1

Before(G, a, b) == IF G.descending THEN Node(a) > Node(b) ELSE Node(a) < Node(b)
InOrder(G, args) ==
  [i \in 1..Cardinality(args) |->
     CHOOSE a \in args : Cardinality({b \in args : Before(G, b, a)}) = i - 1]
GateArgs(G, g) == InOrder(G, {a \in Args(G, g) : Node(a) \in Gates(G)})
VariableArgs(G, g) == InOrder(G, {a \in Args(G, g) : Node(a) \in G.variables})
SubGates(G, g) == {Node(a) : a \in Args(G, g)} \cap Gates(G)

\* All gates that the given ones reach, themselves included.
RECURSIVE ReachedFrom(_, _, _)
ReachedFrom(G, met, new) ==
  IF new = {} THEN met
  ELSE ReachedFrom(G, met \cup new, (UNION {SubGates(G, g) : g \in new}) \ (met \cup new))
Alive(G) == ReachedFrom(G, {}, {G.root} \cup G.held)
Parents(G, n) == {p \in Alive(G) : n \in {Node(a) : a \in Args(G, p)}}
HasConstants(G) == Parents(G, Constant) # {}
\* What is no longer reached has been deleted.
Hold(G, gates) == [G EXCEPT !.held = @ \cup gates]
OnlyAlive(G) == [G EXCEPT !.gate = [g \in Alive(G) |-> @[g]]]
Collected(G) == OnlyAlive([G EXCEPT !.held = {}])

Ensure(G, condition, name) ==
  IF condition THEN G ELSE [G EXCEPT !.failed = @ \cup {name}]
CheckNoNulls(G, name) == Ensure(G, G.nulls = <<>>, name)
\* No gate but the root is constant.
CheckArgGates(G, name) == Ensure(G, \A g \in Alive(G) \ {G.root} : ~IsConstant(G, g), name)

\* The new gate has the index next of the result.  It is held until its creator returns.
NewGate(G, type) ==
  [G EXCEPT !.next = @ + 1,
            !.held = @ \cup {G.next + 1},
            !.gate = [g \in Gates(G) \cup {G.next + 1} |->
                        IF g \in Gates(G) THEN G.gate[g]
                        ELSE [type |-> type, min |-> 0, args |-> {}, module |-> FALSE,
                              coherent |-> FALSE, mark |-> FALSE]]]
SetType(G, g, type) ==
  [G EXCEPT !.gate[g].type = type,
            !.nulls = IF type = "null" /\ G.registering THEN Append(@, g) ELSE @]
SetMin(G, g, min) == [G EXCEPT !.gate[g].min = min]
SetModule(G, g, flag) ==
  [Ensure(G, IsModule(G, g) # flag, "module flag") EXCEPT !.gate[g].module = flag]
Mark(G, g) == [G EXCEPT !.gate[g].mark = TRUE]

\* Marks are cleared along marked gates only: the traversal stops at a clean one.
RECURSIVE ClearMarks(_, _)
ClearMarks(G, g) ==
  IF G.gate[g].mark
    THEN FoldLeft(LAMBDA H, a : ClearMarks(H, Node(a)), [G EXCEPT !.gate[g].mark = FALSE],
                  GateArgs(G, g))
    ELSE G
ClearGateMarks(G) == ClearMarks(G, G.root)

Clone(G, g) ==
  [NewGate(Ensure(G, ~IsConstant(G, g) /\ Type(G, g) # "null", "clone"), Type(G, g)) EXCEPT
     !.gate[G.next + 1] = [G.gate[g] EXCEPT !.module = FALSE, !.mark = FALSE]]

EraseArg(G, g, a) == [Ensure(G, a \in Args(G, g), "erase") EXCEPT !.gate[g].args = @ \ {a}]
EraseArgs(G, g) == [G EXCEPT !.gate[g].args = {}]
NegateArgs(G, g) == [G EXCEPT !.gate[g].args = Opposite(@)]
NegateArg(G, g, a) ==
  [Ensure(G, a \in Args(G, g) /\ -a \notin Args(G, g), "negate")
     EXCEPT !.gate[g].args = (@ \ {a}) \cup {-a}]
\* Mutant: gates of type NOT are no negative gates.
NegateNandAndNorArgs(G, g) ==
  LET negated == {a \in Args(G, g) : Node(a) \in Gates(G) /\ Type(G, Node(a)) \in {"nor", "nand"}}
  IN  [G EXCEPT !.gate[g].args = (@ \ negated) \cup Opposite(negated)]
NegateNonCoherentGateArgs(G, g) ==
  LET negated == {a \in Args(G, g) : Node(a) \in Gates(G)
                                       /\ Type(G, Node(a)) \in {"nor", "nand", "not"}}
  IN  [G EXCEPT !.gate[g].args = (@ \ negated) \cup Opposite(negated)]

MakeConstant(G, g, state) ==
  [SetType(Ensure(G, ~IsConstant(G, g), "constant"), g, "null")
     EXCEPT !.gate[g].args = {IF state THEN Constant ELSE -Constant}]
ReduceLogic(G, g, type, number) ==
  IF Cardinality(Args(G, g)) = number THEN SetType(G, g, type)
  ELSE Ensure(G, Args(G, g) # {}, "reduce")

OrIfOne(G, g) == IF G.gate[g].min = 1 THEN SetType(G, g, "or") ELSE G
AndIfAll(G, g) == IF G.gate[g].min = Cardinality(Args(G, g)) THEN SetType(G, g, "and") ELSE G

NullIfOne(G, g) == IF Cardinality(Args(G, g)) = 1 THEN SetType(G, g, "null") ELSE G

\* An argument that is constant never becomes an argument: the gate is simplified.
AddConstantArg(G, g, state) ==
  LET type == Type(G, g)
      min == G.gate[g].min
      size == Cardinality(Args(G, g))
      inverts == type \in {"not", "nor", "nand"}
      isDecided == type \in {"null", "not"} \/ (type \in {"or", "nor"}) = state
  IN  CASE type = "xor" -> SetType(Ensure(G, size = 1, "XOR constant"), g,
                                   IF state THEN "not" ELSE "null")
        [] type = "atleast" /\ state ->
             OrIfOne(SetMin(Ensure(G, size >= 2 /\ min > 0, "K/N constant"), g, min - 1), g)
        [] type \notin {"xor", "atleast"} /\ isDecided -> MakeConstant(G, g, state # inverts)
        [] OTHER -> ReduceLogic(Ensure(G, type = "atleast" => size >= 2 /\ min > 0, "K/N constant"), g,
                                IF type = "atleast" THEN "and" ELSE IF inverts THEN "not" ELSE "null",
                                IF type = "atleast" THEN min ELSE 1)

\* @(k, [x, x', y]) = @(k-1, [y])
SimplifyVote(G, g) ==
  IF Cardinality(Args(G, g)) = 1 THEN SetType(G, g, "null") ELSE AndIfAll(OrIfOne(G, g), g)
ProcessComplementArg(G, g, a) ==
  LET min == G.gate[g].min
      isVote == min > 1 /\ Cardinality(Args(G, g)) >= min
  IN  IF Type(G, g) = "atleast"
        THEN SimplifyVote(SetMin(EraseArg(Ensure(G, isVote, "K/N complement"), g, -a), g, min - 1), g)
        ELSE MakeConstant(Ensure(G, Type(G, g) \in {"and", "or", "nand", "nor", "xor"}, "complement"), g,
                          Type(G, g) \notin {"and", "nor"})

\* A duplicate in a K/N gate makes the gate an OR of x with k-2 votes of the others, and k
\* votes of the others.  The argument tables are known here: nothing added is a duplicate.
SetArgs(G, g, args) == [G EXCEPT !.gate[g].args = args]
SplitAtleastGate(G, g, a, k, size) ==
  LET first == G.next     \* the clone, a new gate, and a clone of the clone
      both == G.next + 1
      others == Args(G, first) \ {a}
  IN  CASE k = size -> OrIfOne(SetMin(SetArgs(SetArgs(SetType(G, g, "and"), g, {a, first}), first, others),
                                      first, k - 2), first)
        [] k = 2 /\ k < size ->
             AndIfAll(SetArgs(SetArgs(SetType(G, g, "or"), g, {a, first}), first, others), first)
        [] OTHER -> SetArgs(AndIfAll(OrIfOne(SetMin(
                      Clone(NewGate(SetArgs(SetArgs(SetType(G, g, "or"), g, {first, both}), first, others),
                                    "and"), first), both + 1, k - 2), both + 1), first), both, {a, both + 1})
ProcessAtleastGateDuplicateArg(G, g, a) ==
  LET k == G.gate[g].min
      size == Cardinality(Args(G, g))
      H == Ensure(G, k > 1 /\ size >= k, "K/N duplicate")
  IN  IF size = 2 THEN SetType([EraseArg(H, g, a) EXCEPT !.lost = TRUE], g, "null")
      ELSE [SplitAtleastGate(Clone(H, g), g, a, k, size) EXCEPT !.held = G.held]

ProcessDuplicateArg(G, g, a) ==
  LET type == Type(G, g)
  IN  CASE type = "atleast" -> ProcessAtleastGateDuplicateArg(G, g, a)
        [] type = "xor" -> MakeConstant(G, g, FALSE)
        [] OTHER -> IF Cardinality(Args(G, g)) = 1
                      THEN SetType(Ensure(G, type \notin {"not", "null"}, "duplicate"), g,
                                   IF type \in {"nand", "nor"} THEN "not" ELSE "null")
                      ELSE G

InsertArg(G, g, a) ==
  CASE Node(a) = Constant -> AddConstantArg(G, g, a > 0)
    [] a \in Args(G, g) -> ProcessDuplicateArg(G, g, a)
    [] -a \in Args(G, g) -> ProcessComplementArg(G, g, a)
    [] OTHER -> SetArgs(G, g, Args(G, g) \cup {a})
AddArg(G, g, a) ==
  InsertArg(Ensure(G, /\ ~IsConstant(G, g)
                      /\ Type(G, g) \in {"not", "null"} => Args(G, g) = {}
                      /\ Type(G, g) = "xor" => Cardinality(Args(G, g)) < 2, "add"), g, a)
TransferArg(G, g, a, recipient) == AddArg(EraseArg(G, g, a), recipient, a)
ShareArg(G, g, a, recipient) == AddArg(Ensure(G, a \in Args(G, g), "share"), recipient, a)

\* The arguments of an argument gate become arguments of the gate.
DropArg(G, g, arg) == IF IsConstant(G, g) THEN G ELSE SetArgs(G, g, Args(G, g) \ {arg})
CoalesceGate(G, g, arg) ==
  DropArg(FoldLeft(LAMBDA F, a : IF IsConstant(F, g) THEN F ELSE AddArg(F, g, a),
                   Ensure(G, arg \in Args(G, g) /\ Args(G, arg) # {} /\ ~IsConstant(G, arg), "coalesce"),
                   GateArgs(G, arg) \o VariableArgs(G, arg)), g, arg)

JoinNullGate(G, g, a) ==
  LET args == Args(G, Node(a))
  IN  AddArg(EraseArg(Ensure(G, Type(G, Node(a)) = "null" /\ Cardinality(args) = 1, "join"), g, a), g,
             Sign(a) * (CHOOSE b \in args : TRUE))

ProcessConstantArg(G, g, n, state) ==
  LET a == GetArgSign(G, g, n) * n
  IN  AddConstantArg(EraseArg(G, g, a), g, state = (a > 0))

-----------------------------------------------------------------------------
(* Pass-through gates *)

RECURSIVE PropagateNullGate(_, _), PropagateParent(_, _, _)
\* The parent may have become a pass-through gate itself.
PropagateParent(G, parent, g) ==
  PropagateNullGate(IF Type(G, parent) = "null" THEN PropagateNullGate(G, parent) ELSE G, g)
PropagateNullGate(G, g) ==
  LET H == Ensure(G, Type(G, g) = "null", "gate to pass through")
      parent == InOrder(G, Parents(G, g))[1]
  IN  IF Parents(G, g) = {} THEN H
      ELSE PropagateParent(JoinNullGate(H, parent, GetArgSign(G, parent, g) * g), parent, g)

WithoutNulls(G) ==
  Collected([Ensure(G, IsConstant(G, G.root) \/ ~HasConstants(G), "constants left")
               EXCEPT !.nulls = <<>>, !.registering = TRUE])
RemoveNullGates(G) ==
  WithoutNulls(FoldLeft(LAMBDA F, g : IF g \in Alive(F) THEN PropagateNullGate(F, g) ELSE F,
                        [ClearGateMarks(G) EXCEPT !.registering = FALSE], G.nulls))

\* A graph with a pass-through root: its argument becomes the root, or it is trivial.
HasTrivialRoot(G) == ~G.complement /\ Type(G, G.root) = "null" /\ SubGates(G, G.root) = {}
CheckRoot(G) ==
  Ensure(G, Parents(G, G.root) = {} /\ ~IsConstant(G, G.root) /\ Type(G, G.root) # "null", "pulled root")
PullArg(G, a) ==
  IF Node(a) \in Gates(G)
    THEN CheckRoot(Collected([G EXCEPT !.root = Node(a), !.complement = (@ # (a < 0))]))
    ELSE IF G.complement THEN [NegateArgs(G, G.root) EXCEPT !.complement = FALSE] ELSE G
PullRoot(G) ==
  PullArg(Ensure(G, Cardinality(Args(G, G.root)) = 1, "trivial"), CHOOSE b \in Args(G, G.root) : TRUE)
IsTrivialStep(G) == IF Type(G, G.root) = "null" THEN PullRoot(RemoveNullGates(G)) ELSE G

-----------------------------------------------------------------------------
(* What a graph means, independently of the operations above *)

\* A gate with k of its n arguments true.
Connect(type, min, k, n) ==
  CASE type \in {"and", "null"} -> k = n
    [] type = "or" -> k > 0
    [] type = "atleast" -> k >= min
    [] type = "xor" -> k = 1
    [] type \in {"not", "nor"} -> k = 0
    [] type = "nand" -> k < n

\* The sets of true variables for which a gate is true.
RECURSIVE GateMeaning(_, _, _)
GateMeaning(G, known, rest) ==
  IF rest = {} THEN known
  ELSE LET g == CHOOSE h \in rest : SubGates(G, h) \cap rest = {}
           Holds(a, on) == (a > 0) = (IF Node(a) \in Gates(G) THEN on \in known[Node(a)]
                                      ELSE Node(a) \in on \cup {Constant})
           true == {on \in SUBSET G.variables :
                      Connect(Type(G, g), G.gate[g].min,
                              Cardinality({a \in Args(G, g) : Holds(a, on)}),
                              Cardinality(Args(G, g)))}
       IN  GateMeaning(G, [h \in DOMAIN known \cup {g} |-> IF h = g THEN true ELSE known[h]],
                       rest \ {g})
Meanings(G) == GateMeaning(G, [g \in {} |-> {}], Alive(G))
Meaning(G) ==
  LET root == Meanings(G)[G.root]
  IN  IF G.complement THEN (SUBSET G.variables) \ root ELSE root
=============================================================================
