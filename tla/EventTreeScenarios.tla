------------------------- MODULE EventTreeScenarios -------------------------
(***************************************************************************)
(* What an event tree means, without a walk: a scenario fixes the state of *)
(* every functional event, and then every branch leads to one place, or to *)
(* several if it comes to links.  The gates made by EventTreeWalk must     *)
(* hold the outcomes of all scenarios.                                     *)
(*                                                                         *)
(* A situation is a branch that a scenario has reached, with what has      *)
(* happened so far: the forks met in its event tree (seen), the house      *)
(* events set, what was collected on the way, and the trail.               *)
(***************************************************************************)
EXTENDS EventTreeWalk

Instructions(m) ==
  UNION ({Range(m.branch[b].instructions) : b \in DOMAIN m.branch}
           \cup {Range(m.sequence[s]) : s \in DOMAIN m.sequence})
Doing(m, what) == {i \in Instructions(m) : i.do = what}

HouseStates(m) ==
  UNION {[houses -> {i.state : i \in Doing(m, "set")}] :
           houses \in SUBSET {i.house : i \in Doing(m, "set")}}
TrailItems(m) ==
  ({"fork"} \X (DOMAIN m.initial) \X EventsOf(m) \X StatesOf(m))
    \cup ({"link"} \X (DOMAIN m.initial) \X Nat)

Situations(m) ==
  [branch : DOMAIN m.branch,
   seen : SUBSET EventsOf(m),
   houses : HouseStates(m),
   formulas : Seq({i.formula : i \in Doing(m, "formula")} \X HouseStates(m)),
   expressions : Seq({i.expression : i \in Doing(m, "expression")}),
   trail : Seq(TrailItems(m))]

InitialSituation(m, ie) ==
  [branch |-> m.initial[m.initiating[ie]], seen |-> {}, houses |-> <<>>,
   formulas |-> <<>>, expressions |-> <<>>, trail |-> <<>>]

ForkedEvents(m) == {<<m.fork[f].tree, m.fork[f].event>> : f \in DOMAIN m.fork}
Scenarios(m, ie) == [initiating : {ie}, state : [ForkedEvents(m) -> StatesOf(m)]]

-----------------------------------------------------------------------------
\* Is a test true in situation x of scenario c?
True(m, c, x, test) ==
  IF test[1] = "initiating" THEN test[2] = c.initiating
  ELSE test[2] \in x.seen /\ c.state[<<m.tree[x.branch], test[2]>>] = test[3]
Applies(m, c, x, i) == \A test \in i.when : True(m, c, x, test) = test[4]

\* What is so after an instruction that applies.
Obeyed(x, i) ==
  CASE i.do = "set" ->
         [x EXCEPT !.houses = [h \in DOMAIN @ \cup {i.house} |-> IF h = i.house THEN i.state ELSE @[h]]]
    [] i.do = "formula" -> [x EXCEPT !.formulas = Append(@, <<i.formula, x.houses>>)]
    [] i.do = "expression" -> [x EXCEPT !.expressions = Append(@, i.expression)]
    [] i.do = "link" -> x

\* What is so after the first n instructions of a list.
After(m, c, x, list) ==
  LET after[n \in 0 .. Len(list)] ==
        IF n = 0 THEN x
        ELSE IF Applies(m, c, x, list[n]) THEN Obeyed(after[n - 1], list[n]) ELSE after[n - 1]
  IN  after
AfterAll(m, c, x, list) == After(m, c, x, list)[Len(list)]

AtTarget(m, c, x) == AfterAll(m, c, x, m.branch[x.branch].instructions)
TargetOf(m, x) == m.branch[x.branch].target

\* The links of the sequence that a situation leads to.
ListOf(m, x) == m.sequence[Name(TargetOf(m, x))]
Links(m, c, x) ==
  {n \in 1 .. Len(ListOf(m, x)) : ListOf(m, x)[n].do = "link" /\ Applies(m, c, x, ListOf(m, x)[n])}

\* The paths of a fork in the scenario, no more than one.
PathsIn(m, c, f) == {path \in Paths(m, f) : path[1] = c.state[<<m.fork[f].tree, m.fork[f].event>>]}

\* The situations that come next: at a named branch, on the path of a fork that has the
\* state of the scenario, or where a link leads to.
Named(m, x) == [x EXCEPT !.branch = Name(TargetOf(m, x))]
OnPath(m, x, f, path) ==
  [x EXCEPT !.branch = path[2], !.seen = @ \cup {m.fork[f].event},
            !.trail = Append(@, <<"fork", m.fork[f].tree, m.fork[f].event, path[1]>>)]
AtLink(m, x, tree, left) ==
  [x EXCEPT !.branch = m.initial[tree], !.seen = {}, !.trail = Append(@, <<"link", tree, left>>)]

Following(m, c, x) ==
  LET y == AtTarget(m, c, x)
      f == Name(TargetOf(m, x))
      list == ListOf(m, x)
  IN  CASE Kind(TargetOf(m, x)) = "branch" -> {Named(m, y)}
        [] Kind(TargetOf(m, x)) = "fork" ->
             {OnPath(m, y, f, path) : path \in PathsIn(m, c, f)}
        [] Kind(TargetOf(m, x)) = "sequence" ->
             {AtLink(m, After(m, c, y, list)[n - 1], list[n].tree, Len(list) - n) : n \in Links(m, c, x)}

\* What was collected, and on which path.
Content(path) == [trail |-> path.trail, formulas |-> path.formulas, expressions |-> path.expressions]

\* A scenario ends in a sequence without links.
Ends(m, c, x) ==
  IF Kind(TargetOf(m, x)) = "sequence" /\ Links(m, c, x) = {}
    THEN {<<Name(TargetOf(m, x)), Content(AfterAll(m, c, AtTarget(m, c, x), ListOf(m, x)))>>}
    ELSE {}

\* The outcomes of a scenario from a situation on: sequences with what led there.  A
\* scenario whose state has no path has none, one with links has those of the links.
OutcomesFrom(m, c) ==
  LET outcomes[x \in Situations(m)] ==
        Ends(m, c, x) \cup UNION {outcomes[y] : y \in Following(m, c, x)}
  IN  outcomes

AllOutcomes(m, ie) == UNION {OutcomesFrom(m, c)[InitialSituation(m, ie)] : c \in Scenarios(m, ie)}

OutcomesAt(m, ie, s) == {o[2] : o \in {p \in AllOutcomes(m, ie) : p[1] = s}}
IsEmpty(o) == o.formulas = <<>> /\ o.expressions = <<>>

\* The gate of every sequence stands for the outcomes of exactly those scenarios that
\* end in it, each with the house events and the context of its own path, and each
\* path once (expressions are added up).  A sequence that no path of collects
\* anything is TRUE.  Nothing is said of sequences where some paths collect something
\* and others do not: the code leaves the latter out.
GateIsRight(gate, outcomes) ==
  /\ (\A o \in outcomes : IsEmpty(o)) => gate.type = "true"
  /\ (\A o \in outcomes : ~IsEmpty(o)) =>
       /\ {Content(path) : path \in Range(gate.paths)} = outcomes
       /\ Cardinality(DOMAIN gate.paths) = Cardinality(outcomes)
       /\ gate.type = IF \E o \in outcomes : o.formulas # <<>> THEN "or" ELSE "sum"
GatesOf(m, made, ie) == {s \in DOMAIN m.sequence : <<ie, s>> \in DOMAIN made}
InitiatingIsRight(m, made, ie) ==
  /\ GatesOf(m, made, ie) = {o[1] : o \in AllOutcomes(m, ie)}
  /\ \A s \in GatesOf(m, made, ie) : GateIsRight(made[<<ie, s>>], OutcomesAt(m, ie, s))
GatesAreRight ==
  phase \in {"start", "done"} =>
    \A ie \in DOMAIN model.initiating \ pending : InitiatingIsRight(model, gates, ie)
=============================================================================
