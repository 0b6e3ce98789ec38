----------------------------- MODULE EventTrees -----------------------------
(***************************************************************************)
(* Event trees (src/event_tree.h, src/instruction.h) and the checks of     *)
(* Initializer::ValidateInitialization (src/initializer.cc) that decide    *)
(* whether a model with them may be analysed.                              *)
(*                                                                         *)
(* A model m is a record:                                                  *)
(*   initiating  initiating event |-> its event tree                       *)
(*   initial     event tree |-> the branch it begins with                  *)
(*   branch      branch |-> [instructions, target]; the named branches,    *)
(*               the initial states and the paths of forks                 *)
(*   named       the named branches                                        *)
(*   tree        branch |-> the event tree it is in                        *)
(*   fork        fork |-> [tree, event, paths], where paths is a sequence  *)
(*               of <<state, branch>>                                      *)
(*   order       <<event tree, functional event>> |-> place in its tree    *)
(*   sequence    end state |-> its instructions                            *)
(* A target is <<"sequence" | "branch" | "fork", name>>.                   *)
(*                                                                         *)
(* Lists of instructions are flat: blocks and rules are spliced in, and    *)
(* what is in a conditional carries the tests it is under.  No instruction *)
(* changes the outcome of a test for the ones after it in a list.          *)
(***************************************************************************)
EXTENDS Sequences, Integers, FiniteSets, Functions

SetHouseEvent(house, state, when) ==
  [do |-> "set", house |-> house, state |-> state, when |-> when]
CollectFormula(formula, when) == [do |-> "formula", formula |-> formula, when |-> when]
CollectExpression(expression, when) ==
  [do |-> "expression", expression |-> expression, when |-> when]
Link(tree, when) == [do |-> "link", tree |-> tree, when |-> when]

\* The tests of conditionals: is the functional event in this state, and is this the
\* initiating event?  Each comes with the outcome it must have.
TestFunctionalEvent(event, state, outcome) == <<"functional", event, state, outcome>>
TestInitiatingEvent(event, outcome) == <<"initiating", event, "", outcome>>

-----------------------------------------------------------------------------
Kind(target) == target[1]
Name(target) == target[2]

Paths(m, f) == Range(m.fork[f].paths)

\* The functional events of all forks, and their states.
EventsOf(m) == {m.fork[f].event : f \in DOMAIN m.fork}
StatesOf(m) == UNION {{path[1] : path \in Paths(m, f)} : f \in DOMAIN m.fork}

\* Where a branch leads in one step.
Successors(m, b) ==
  LET target == m.branch[b].target IN
    CASE Kind(target) = "sequence" -> {}
      [] Kind(target) = "branch" -> {Name(target)}
      [] Kind(target) = "fork" -> {path[2] : path \in Paths(m, Name(target))}

\* Some nonempty set of nodes of which each leads to another: a cycle.
HasCycle(edges) ==
  \E S \in SUBSET {edge[1] : edge \in edges} :
    S # {} /\ \A n \in S : \E edge \in edges : edge[1] = n /\ edge[2] \in S

\* What a traversal visits that begins at n: the least set with n that no edge leaves.
VisitedFrom(edges, n) ==
  LET nodes == {n} \cup {edge[2] : edge \in edges}
      Closed == {S \in SUBSET nodes : n \in S /\ \A edge \in edges : edge[1] \in S => edge[2] \in S}
  IN  {k \in nodes : \A S \in Closed : k \in S}

\* All branches from b on.
Edges(m) == UNION {{b} \X Successors(m, b) : b \in DOMAIN m.branch}
Under(m, b) == VisitedFrom(Edges(m), b)

SequencesUnder(m, b) ==
  {Name(m.branch[c].target) : c \in {d \in Under(m, b) : Kind(m.branch[d].target) = "sequence"}}
LinksUnder(m, b) ==
  {i.tree : i \in {j \in UNION {Range(m.sequence[s]) : s \in SequencesUnder(m, b)} : j.do = "link"}}

\* The branches from b on up to the next fork or sequence: b and named branches.
NamedEdges(m) ==
  {<<b, Name(m.branch[b].target)>> : b \in {c \in DOMAIN m.branch : Kind(m.branch[c].target) = "branch"}}
Passed(m, b) == VisitedFrom(NamedEdges(m), b)

-----------------------------------------------------------------------------
\* The checks, in the order in which they are made: each relies on those before it.

\* CheckCycle<NamedBranch>.
BranchesAreAcyclic(m) ==
  ~ HasCycle(Edges(m))

\* The place of a fork's functional event among those of its event tree.
Place(m, f) == m.order[<<m.fork[f].tree, m.fork[f].event>>]

\* Mutant: named branches are not followed to the next fork.
InOrderWithoutNamedBranches(m) ==
  \A f \in DOMAIN m.fork : \A path \in Paths(m, f) :
    LET target == m.branch[path[2]].target IN
      Kind(target) = "fork" => Place(m, f) < Place(m, Name(target))

\* CheckFunctionalEventOrder: on the way from fork to fork the order of the
\* functional events grows, so that none comes twice.
FunctionalEventsAreInOrder(m) ==
  \A f \in DOMAIN m.fork : \A path \in Paths(m, f) : \A b \in Passed(m, path[2]) :
    LET target == m.branch[b].target IN
      Kind(target) = "fork" => Place(m, f) < Place(m, Name(target))

\* EnsureLinksOnlyInSequences.
LinksAreInSequences(m) ==
  \A b \in DOMAIN m.branch : \A i \in Range(m.branch[b].instructions) : i.do # "link"

\* CheckCycle<Link>: a link leads to those in the sequences of its event tree.
LinksAreAcyclic(m) ==
  ~ HasCycle(UNION {{t} \X LinksUnder(m, m.initial[t]) : t \in DOMAIN m.initial})

\* EnsureHomogeneousEventTree: formulas and expressions do not mix, links included.
InstructionsOf(m, b) ==
  LET target == m.branch[b].target
  IN  Range(m.branch[b].instructions) \cup
        (IF Kind(target) = "sequence" THEN Range(m.sequence[Name(target)]) ELSE {})
Linked(m, b) == {m.initial[i.tree] : i \in {j \in InstructionsOf(m, b) : j.do = "link"}}
EdgesAndLinks(m) == UNION {{b} \X (Successors(m, b) \cup Linked(m, b)) : b \in DOMAIN m.branch}
UnderWithLinks(m, b) == VisitedFrom(EdgesAndLinks(m), b)
Kinds(m, b) == {i.do : i \in UNION {InstructionsOf(m, c) : c \in UnderWithLinks(m, b)}}
IsHomogeneous(m, b) == ~ {"formula", "expression"} \subseteq Kinds(m, b)
EventTreesAreHomogeneous(m) ==
  \A b \in m.named \cup Range(m.initial) : IsHomogeneous(m, b)

IsValid(m) ==
  /\ BranchesAreAcyclic(m)
  /\ FunctionalEventsAreInOrder(m)
  /\ LinksAreInSequences(m)
  /\ LinksAreAcyclic(m)
  /\ EventTreesAreHomogeneous(m)

-----------------------------------------------------------------------------
\* What the definitions of the input leave: lists are lists, targets and links are
\* elements that exist, the branches, forks and functional events that one branch or fork
\* refers to are those of its own event tree, which begins with a branch of its own, and
\* forks have paths, with different states.
IsList(list) == list \in Seq(Range(list))
Targets(m) ==
  ({"sequence"} \X DOMAIN m.sequence) \cup ({"branch"} \X m.named)
    \cup ({"fork"} \X DOMAIN m.fork)
InstructionsAreDefined(m, list) ==
  /\ IsList(list)
  /\ \A i \in Range(list) :
       /\ i.do \in {"set", "formula", "expression", "link"}
       /\ i.do = "link" => i.tree \in DOMAIN m.initial

BranchIsDefined(m, b) ==
  LET target == m.branch[b].target
  IN  /\ InstructionsAreDefined(m, m.branch[b].instructions)
      /\ m.tree[b] \in DOMAIN m.initial
      /\ target \in Targets(m)
      /\ Kind(target) = "branch" => m.tree[Name(target)] = m.tree[b]
      /\ Kind(target) = "fork" => m.fork[Name(target)].tree = m.tree[b]
ForkIsDefined(m, f) ==
  /\ IsList(m.fork[f].paths) /\ m.fork[f].paths # <<>>
  /\ \A i, j \in DOMAIN m.fork[f].paths : m.fork[f].paths[i][1] = m.fork[f].paths[j][1] => i = j
  /\ Place(m, f) \in Int
  /\ \A path \in Paths(m, f) :
       path[2] \in DOMAIN m.branch /\ m.tree[path[2]] = m.fork[f].tree
IsDefined(m) ==
  /\ \A ie \in DOMAIN m.initiating : m.initiating[ie] \in DOMAIN m.initial
  /\ \A t \in DOMAIN m.initial : m.initial[t] \in DOMAIN m.branch /\ m.tree[m.initial[t]] = t
  /\ m.named \subseteq DOMAIN m.branch
  /\ \A b \in DOMAIN m.branch : BranchIsDefined(m, b)
  /\ \A f \in DOMAIN m.fork : ForkIsDefined(m, f)
  /\ \A s \in DOMAIN m.sequence : InstructionsAreDefined(m, m.sequence[s])
=============================================================================
