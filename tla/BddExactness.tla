---------------------------- MODULE BddExactness ----------------------------
(***************************************************************************)
(* What the calculations of BddProbability should give, from the graph     *)
(* alone: the sum of the probabilities of the assignments in which it      *)
(* holds.                                                                  *)
(***************************************************************************)
EXTENDS BddProbability

\* The probability that a predicate of assignments holds at time t.
RECURSIVE SumOver(_, _, _)
SumOver(xs, t, Assignments) ==
  IF xs = {} THEN (IF Assignments = {} THEN Zero ELSE Unit)
  ELSE LET x == CHOOSE x \in xs : TRUE
           true == {a \ {x} : a \in {b \in Assignments : x \in b}}
           false == {a \in Assignments : x \notin a}
       IN  Plus(Times(P(x, t), SumOver(xs \ {x}, t, true)),
                Times(Complement(P(x, t)), SumOver(xs \ {x}, t, false)))
Chance(t, Assignments) == SumOver(Variables, t, Assignments)
TopChance(t) == Chance(t, {a \in SUBSET Variables : Root(graph, a)})
ModuleChance(m) == Chance(MissionTime, {a \in SUBSET Variables : Values(graph, a)[m]})
\* How much the top event gains by the failure of x.
Birnbaum(x) ==
  Minus(Chance(MissionTime, {a \in SUBSET Variables : Root(graph, a \cup {x})}),
        Chance(MissionTime, {a \in SUBSET Variables : Root(graph, a \ {x})}))

\* The modules whose proxies the BDD still has; the others were absorbed.
RECURSIVE ReachedFrom(_)
ReachedFrom(v) ==
  LET proxies == {w.index : w \in {u \in Under(v) : IsProxy(u)}}
  IN  proxies \cup UNION {ReachedFrom(modules[m].vertex) : m \in proxies}
Reached == ReachedFrom(root.vertex)

\* Every total that is reported is the exact probability of the top event for the
\* probabilities of its own time or trial, none left over from another.
TotalsAreExact ==
  phase = "done" =>
    /\ p_total = TopChance(MissionTime)
    /\ \A i \in 1 .. Len(p_time) : p_time[i][1] = TopChance(p_time[i][2])
    /\ \A i \in 1 .. Len(samples) : samples[i][1] = TopChance(samples[i][2])

\* The reported probability of a module that the BDD still uses is the exact one
\* at the mission time, although it may have been calculated with the total.
ReachedModulesAreExact ==
  phase = "done" =>
    \A m \in DOMAIN intermediate \cap Reached : intermediate[m] = ModuleChance(m)

\* "Intermediate node probabilities for module gates" (src/probability_analysis.h:100):
\* every reported number is the probability of its gate.
IntermediatesAreExact ==
  phase = "done" => \A m \in DOMAIN intermediate : intermediate[m] = ModuleChance(m)

\* The marginal importance factor of every variable is, but for the sign, the exact
\* partial derivative of the top event's probability at the mission time: the search
\* that stops at the order of the variable finds it wherever it is, in nested and
\* complemented modules too (src/importance_analysis.cc:86-138).  The sign is that of
\* the root vertex, whether the root function is its complement or not.
ImportanceIsExactForVertex ==
  phase = "done" => \A x \in DOMAIN mif : mif[x] = Signed(root.complement, Birnbaum(x))

\* "Birnbaum marginal importance factor" (src/importance_analysis.h:39): the partial
\* derivative with its sign, as the calculators without a BDD compute it
\* (src/importance_analysis.h:154, total with the event minus total without it).
ImportanceIsExact ==
  phase = "done" => \A x \in DOMAIN mif : mif[x] = Birnbaum(x)
=============================================================================
