--------------------------- MODULE BddProbability ---------------------------
(***************************************************************************)
(* Quantitative analyses on one BDD: ProbabilityAnalyzer<Bdd> of           *)
(* src/probability_analysis.cc, ImportanceAnalyzer<Bdd> of                 *)
(* src/importance_analysis.cc and the sampling loop of                     *)
(* UncertaintyAnalyzer, in the order RiskAnalysis runs them.  All of them  *)
(* leave their results in the vertices and tell fresh results from old     *)
(* ones only by the mark of the vertex, whose meaning flips with every     *)
(* total that is calculated.                                               *)
(*                                                                         *)
(* One step is one traversal of the graph.  Probabilities are exact        *)
(* numbers.  A time is a position in the series of mission times; the      *)
(* probability of a variable depends on it, and so do the samples.         *)
(***************************************************************************)
EXTENDS BddConversion, Dyadics

CONSTANTS
  P(_, _),       \* the probability of a variable at a time or in a trial
  MissionTime,   \* the time that the settings and the model agree on
  Series,        \* the series of times CalculateProbabilityOverTime may go through
  Trials         \* the sequences of trials of the uncertainty analysis

VARIABLES
  p_vars,         \* p_vars_: the probabilities of the variables
  current_mark,   \* current_mark_
  mark, p, factor,\* the fields of the vertices
  times,          \* the times that are left for CalculateProbabilityOverTime
  trials,         \* the trials that are left for the uncertainty analysis
  p_total,        \* p_total_
  p_time,         \* p_time_: the probabilities over time, with their times
  intermediate,   \* intermediate_probabilities_, by gate
  mif,            \* the marginal importance factors of the variables
  samples         \* the sampled total probabilities, with their trials

fields == <<mark, p, factor>>
results == <<p_total, p_time, intermediate, mif, samples>>
vars == <<conversion, p_vars, current_mark, fields, times, trials, results>>

NotDone == [num |-> 0, exp |-> -1]   \* no probability
Variables == VariablesOf(graph)
At1(t) == [x \in Variables |-> P(x, t)]

\* The vertices under v; no path is longer than the order.
Under(v) ==
  LET Level[n \in 1 .. Cardinality(DOMAIN order)] ==
        IF n = 1 THEN {v.high, v.low} ELSE UNION {{w.high, w.low} : w \in Level[n - 1] \ {One}}
  IN  IF v = One THEN {} ELSE {v} \cup (UNION {Level[n] : n \in DOMAIN Level} \ {One})
\* The vertices that the BDD holds: those of the root and of the modules.
Vertices == Under(root.vertex) \cup UNION {Under(modules[m].vertex) : m \in DOMAIN modules}
IsProxy(v) == v.index \in DOMAIN modules

\* Where a traversal goes from a vertex: its branches, and the function of a module.
Branches(v) == {v.high, v.low} \cap DOMAIN mark
ModuleOf(v) == (IF IsProxy(v) THEN {modules[v.index].vertex} ELSE {}) \cap DOMAIN mark
Successors == [v \in DOMAIN mark |-> Branches(v) \cup ModuleOf(v)]

\* The smallest set that has the starts and, of its members, what follows them.
Reach(starts, next) ==
  LET closed == {vertices \in SUBSET DOMAIN next :
                   starts \subseteq vertices /\ \A v \in vertices : next[v] \subseteq vertices}
  IN  {v \in DOMAIN next : \A vertices \in closed : v \in vertices}

\* The recursion of a traversal for mark m, which returns at once from a vertex that has the mark.
Traversal(v, m, marks, next) ==
  LET New(vertices) == {w \in vertices \cap DOMAIN marks : marks[w] # m}
  IN  Reach(New({v}), [u \in DOMAIN marks |-> New(next[u])])

\* The vertices that a calculation for mark m goes through when it starts at v.
Unmarked(v, m) == Traversal(v, m, mark, Successors)
Marked(visited, m) == [v \in DOMAIN mark |-> IF v \in visited THEN m ELSE mark[v]]

InSign(c, q) == IF c THEN Complement(q) ELSE q

-----------------------------------------------------------------------------
\* The fields of new vertices; the constructor clears the marks it needed itself.
Freeze ==
  /\ phase = "built"
  /\ mark' = [v \in Vertices |-> FALSE]
  /\ p' = [v \in Vertices |-> Zero]
  /\ factor' = [v \in Vertices |-> Zero]
  /\ current_mark' = FALSE
  /\ p_vars' = At1(MissionTime)
  /\ phase' = "total"
  /\ UNCHANGED <<graph, order, frames, gates, modules, index_to_order, root>>
  /\ UNCHANGED <<times, trials, results>>

-----------------------------------------------------------------------------
\* CalculateProbability: what a traversal leaves in the vertices it goes through.
Probability(q, visited) ==
  LET prob[v \in DOMAIN p \cup {One}] ==
        IF v = One THEN Unit
        ELSE IF v \notin visited THEN p[v]
        ELSE LET var == IF IsProxy(v)
                          THEN InSign(modules[v.index].complement, prob[modules[v.index].vertex])
                          ELSE q[v.index]
                 high == prob[v.high]
                 low == InSign(v.complement_edge, prob[v.low])
             IN  Plus(Times(var, high), Times(Complement(var), low))
  IN  prob

Store(prob) == p' = [v \in DOMAIN p |-> prob[v]]

\* Mutant: the mark does not flip between the calculations.
CalculateTotalUnflipped(q) ==
  LET visited == Unmarked(root.vertex, TRUE)
      prob == Probability(q, visited)
  IN  /\ current_mark' = TRUE
      /\ mark' = Marked(visited, TRUE)
      /\ Store(prob)

CalculateTotal(q) ==
  LET visited == Unmarked(root.vertex, ~current_mark)
      prob == Probability(q, visited)
  IN  /\ current_mark' = ~current_mark
      /\ mark' = Marked(visited, ~current_mark)
      /\ Store(prob)

\* The probability of the root, once stored.
RootProbability ==
  InSign(root.complement, IF root.vertex = One THEN Unit ELSE p'[root.vertex])

Total ==
  /\ phase = "total"
  /\ CalculateTotal(p_vars)
  /\ p_total' = RootProbability
  /\ phase' = "time"
  /\ UNCHANGED <<graph, order, frames, gates, modules, index_to_order, root>>
  /\ UNCHANGED <<p_vars, factor, times, trials, p_time, intermediate, mif, samples>>

\* One point of CalculateProbabilityOverTime.
Update ==
  /\ phase = "time" /\ times # <<>>
  /\ p_vars' = At1(Head(times))
  /\ CalculateTotal(p_vars')
  /\ p_time' = Append(p_time, <<RootProbability, Head(times)>>)
  /\ times' = Tail(times)
  /\ UNCHANGED <<conversion, factor, trials, p_total, intermediate, mif, samples>>

\* What comes next depends on the settings.
EndOfTime ==
  /\ phase = "time" /\ times = <<>>
  /\ phase' \in {"intermediate", "importance", "uncertainty"}
  /\ UNCHANGED <<graph, order, frames, gates, modules, index_to_order, root>>
  /\ UNCHANGED <<p_vars, current_mark, fields, times, trials, results>>

\* ComputeIntermediateProbabilities goes over all modules with the mark of the last total.
IntermediatesVisited ==
  UNION {Unmarked(modules[m].vertex, current_mark) : m \in DOMAIN modules}

\* Mutant: the complement of the module's function is forgotten.
ModuleProbabilityPlain(m, prob) == prob[modules[m].vertex]

ModuleProbability(m, prob) == InSign(modules[m].complement, prob[modules[m].vertex])

Intermediates ==
  /\ phase = "intermediate"
  /\ LET prob == Probability(p_vars, IntermediatesVisited)
     IN  /\ mark' = Marked(IntermediatesVisited, current_mark)
         /\ Store(prob)
         /\ intermediate' = [m \in DOMAIN modules |-> ModuleProbability(m, prob)]
  /\ phase' \in {"importance", "uncertainty"}
  /\ UNCHANGED <<graph, order, frames, gates, modules, index_to_order, root>>
  /\ UNCHANGED <<p_vars, current_mark, factor, times, trials, p_total, p_time, mif, samples>>

-----------------------------------------------------------------------------
\* CalculateMif of the variable with order o.

\* The vertices it goes through: it looks into a module only below the variable.
MifUnmarked(v, o, m) ==
  LET next == [u \in DOMAIN mark |->
                 CASE order[u.index] > o -> ModuleOf(u)
                   [] order[u.index] = o -> {}
                   [] OTHER -> Branches(u)]
  IN  Traversal(v, m, mark, next)

Stored(v) == IF v = One THEN Unit ELSE p[v]
VertexProbability(v) ==
  IF IsProxy(v) THEN InSign(modules[v.index].complement, Stored(modules[v.index].vertex))
                ELSE p_vars[v.index]
\* Mutant: the complement edge does not count.
SlopePlain(v) == Minus(Stored(v.high), Stored(v.low))

Slope(v) == Minus(Stored(v.high), InSign(v.complement_edge, Stored(v.low)))
Signed(c, q) == IF c THEN Negate(q) ELSE q

Factors(o, visited) ==
  LET mifs[v \in DOMAIN factor \cup {One}] ==
        IF v = One THEN Zero
        ELSE IF v \notin visited THEN factor[v]
        ELSE CASE order[v.index] > o ->
                    IF ~IsProxy(v) THEN Zero
                    ELSE LET module == modules[v.index]
                         IN  Times(Slope(v), Signed(module.complement, mifs[module.vertex]))
               [] order[v.index] = o -> Slope(v)
               [] OTHER ->
                    LET var == VertexProbability(v)
                    IN  Plus(Times(var, mifs[v.high]),
                             Times(Complement(var), Signed(v.complement_edge, mifs[v.low])))
  IN  mifs

\* Mutant: the marks are left as the search has set them.
RestoreMarksNot(visited, original) == Marked(visited, ~original)

\* ClearMarks(original): only what can be reached through other marks is reset.
RestoreMarks(visited, original) ==
  LET marks == Marked(visited, ~original)
      cleared == Traversal(root.vertex, original, marks, Successors)
  IN  [v \in DOMAIN mark |-> IF v \in cleared THEN original ELSE marks[v]]

\* CalculateMif(index): nothing to do for a constant root.
CalculateMif(x) ==
  IF root.vertex = One THEN mif' = mif @@ (x :> Zero) /\ UNCHANGED fields
  ELSE LET original == mark[root.vertex]
           o == index_to_order[x]
           visited == MifUnmarked(root.vertex, o, ~original)
           mifs == Factors(o, visited)
       IN  /\ factor' = [v \in DOMAIN factor |-> mifs[v]]
           /\ mark' = RestoreMarks(visited, original)
           /\ mif' = mif @@ (x :> mifs[root.vertex])
           /\ UNCHANGED p

\* The variables that importance analysis asks for: those in some product.
Relevant ==
  {x \in Variables : \E a \in SUBSET Variables : Root(graph, a) # Root(graph, a \cup {x})}

Importance ==
  /\ phase = "importance"
  /\ \E x \in Relevant \ DOMAIN mif :
       /\ \A y \in Relevant \ DOMAIN mif : x <= y
       /\ CalculateMif(x)
  /\ UNCHANGED <<conversion, p_vars, current_mark, times, trials,
                 p_total, p_time, intermediate, samples>>

EndOfImportance ==
  /\ phase = "importance" /\ Relevant \subseteq DOMAIN mif
  /\ phase' = "uncertainty"
  /\ UNCHANGED <<graph, order, frames, gates, modules, index_to_order, root>>
  /\ UNCHANGED <<p_vars, current_mark, fields, times, trials, results>>

-----------------------------------------------------------------------------
\* One trial: the sample is drawn into a private copy of p_vars.
Trial ==
  /\ phase = "uncertainty" /\ trials # <<>>
  /\ CalculateTotal(At1(Head(trials)))
  /\ samples' = Append(samples, <<RootProbability, Head(trials)>>)
  /\ trials' = Tail(trials)
  /\ UNCHANGED <<conversion, p_vars, factor, times, p_total, p_time, intermediate, mif>>

EndOfAnalysis ==
  /\ phase = "uncertainty" /\ trials = <<>>
  /\ phase' = "done"
  /\ UNCHANGED <<graph, order, frames, gates, modules, index_to_order, root>>
  /\ UNCHANGED <<p_vars, current_mark, fields, times, trials, results>>

Terminated == phase = "done" /\ UNCHANGED vars

Init ==
  /\ ConversionInit
  /\ times \in Series /\ trials \in Trials
  /\ p_vars = <<>> /\ current_mark = FALSE
  /\ mark = <<>> /\ p = <<>> /\ factor = <<>>
  /\ p_total = NotDone /\ p_time = <<>>
  /\ intermediate = <<>> /\ mif = <<>> /\ samples = <<>>

Convert ==
  Conversion /\ UNCHANGED <<p_vars, current_mark, fields, times, trials, results>>

Next ==
  \/ Convert \/ Freeze
  \/ Total \/ Update \/ EndOfTime \/ Intermediates
  \/ Importance \/ EndOfImportance
  \/ Trial \/ EndOfAnalysis
  \/ Terminated

Spec == Init /\ [][Next]_vars

-----------------------------------------------------------------------------
\* The values of the variables; the BDD and its modules have marks and numbers
\* for each of their vertices, and a proxy always finds its module.
TypeOK ==
  /\ phase \in {"order", "construct", "convert", "built", "total", "time",
               "intermediate", "importance", "uncertainty", "done"}
  /\ Built => \A v \in Vertices : v.index \in Variables \cup DOMAIN modules
  /\ Built /\ phase # "built" =>
       /\ DOMAIN mark = Vertices /\ DOMAIN p = Vertices
       /\ \A v \in Vertices : {v.high, v.low} \subseteq Vertices \cup {One}
  /\ \A m \in DOMAIN modules \ {graph.root} : modules[m].vertex # One
  /\ current_mark \in BOOLEAN

\* Between two traversals every vertex that the root reaches, through modules too, has
\* the mark of the last total, also after importance analysis has used the marks for its
\* own search: the next total goes through all of them, and none keeps an old number
\* (the warning of ClearMarks, src/bdd.h, about partial marks).
ReachedVertices == Reach({root.vertex} \cap DOMAIN mark, Successors)
MarksAreUniform ==
  Built /\ phase # "built" => \A v \in ReachedVertices : mark[v] = current_mark
=============================================================================
