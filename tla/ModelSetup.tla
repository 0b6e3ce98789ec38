----------------------------- MODULE ModelSetup -----------------------------
(***************************************************************************)
(* From the definitions in the input to a model that can be analyzed       *)
(* (src/event.cc, src/substitution.cc, src/ccf_group.cc, src/fault_tree.cc *)
(* and the end of ProcessInputFiles in src/initializer.cc): what is        *)
(* refused, which gates are top events, and how common-cause groups turn   *)
(* their members into gates.                                               *)
(*                                                                         *)
(* The definitions are a record: trees is the list of the sets of gates of *)
(* the fault trees, formula maps the names of gates to formulas            *)
(* [connective, min, max, args], args a list of [complement, event], house *)
(* the house events to their states; groups is the list of common-cause    *)
(* groups [model, members, factors], factors a list of [level, value];     *)
(* substitutions is a list of [hypothesis, source, target, type].  Numbers *)
(* that are not given are Absent.  Values are pairs of a numerator and a   *)
(* denominator.                                                            *)
(***************************************************************************)
EXTENDS Integers, Sequences, FiniteSets, SequencesExt, TLC

CONSTANTS DeleteTerms,   \* the target false of a substitution
          Nothing        \* the target true

Absent == -1
IsGateName(M, event) == event \in DOMAIN M.formula
IsBasicEvent(M, event) == ~IsGateName(M, event) /\ event \notin DOMAIN M.house
EventsOf(formula) == {formula.args[i].event : i \in DOMAIN formula.args}

-----------------------------------------------------------------------------
(* Formulas *)

NumbersAreValid(formula) ==
  /\ formula.min # Absent => formula.min >= 0 /\ formula.connective \in {"atleast", "cardinality"}
  /\ formula.max # Absent => formula.max >= 0 /\ formula.connective = "cardinality"
  /\ formula.min # Absent /\ formula.max # Absent => formula.min <= formula.max
ConnectiveIsValid(formula) ==
  LET size == Len(formula.args)
  IN  CASE formula.connective \in {"and", "or", "nand", "nor"} -> size >= 2
        [] formula.connective \in {"not", "null"} -> size = 1
        [] formula.connective \in {"xor", "iff", "imply"} -> size = 2
        [] formula.connective = "atleast" -> formula.min >= 2 /\ size > formula.min
        [] formula.connective = "cardinality" ->
             formula.min # Absent /\ formula.max # Absent /\ size > 0 /\ size >= formula.max
NestingIsValid(formula) ==
  /\ formula.connective \in {"null", "not"} => ~formula.args[1].complement
  /\ formula.connective = "not" => formula.args[1].event \notin {"__true__", "__false__"}
ArgsAreDistinct(formula) == Cardinality(EventsOf(formula)) = Len(formula.args)
FormulaIsValid(formula) ==
  ArgsAreDistinct(formula) /\ NumbersAreValid(formula) /\ ConnectiveIsValid(formula) /\ NestingIsValid(formula)

-----------------------------------------------------------------------------
(* Substitutions *)

Declarative(substitution) == substitution.source = <<>>
HasTarget(substitution) == substitution.target \notin {DeleteTerms, Nothing}
SubstitutionIsValid(M, s) ==
  /\ IsInjective(s.source)
  /\ \A i \in DOMAIN s.hypothesis.args :
       IsBasicEvent(M, s.hypothesis.args[i].event) /\ ~s.hypothesis.args[i].complement
  /\ s.hypothesis.connective \in {"null", "and", "or"} \cup (IF Declarative(s) THEN {"atleast"} ELSE {})
  /\ s.target # IF Declarative(s) THEN Nothing ELSE DeleteTerms

MutuallyExclusive(formula) ==
  \/ formula.connective = "atleast" /\ formula.min = 2
  \/ formula.connective = "and" /\ Len(formula.args) = 2
DeducedType(s) ==
  LET h == s.hypothesis
      size == Cardinality(EventsOf(h))
      ofHypothesis == ToSet(s.source) \subseteq EventsOf(h)
      exchanges == HasTarget(s) /\ h.connective \in {"and", "null"} /\ ofHypothesis
  IN  IF Declarative(s)
        THEN CASE s.target = DeleteTerms /\ MutuallyExclusive(h) -> "delete-terms"
               [] HasTarget(s) /\ h.connective = "and" -> "recovery-rule"
               [] OTHER -> "none"
        ELSE CASE exchanges /\ Len(s.source) = size -> "recovery-rule"
               [] exchanges /\ Len(s.source) = 1 /\ size # 1 -> "exchange-event"
               [] OTHER -> "none"
TypeIsRight(s) == s.type # "none" => s.type = DeducedType(s)

NonDeclarative(M) == {i \in DOMAIN M.substitutions : ~Declarative(M.substitutions[i])}
\* Mutant: hypotheses of other substitutions are not looked at.
ConflictOfSources(origin, other, same) == HasTarget(origin) /\ Contains(other.source, origin.target)
Conflict(origin, other, same) ==
  \/ HasTarget(origin) /\ Contains(other.source, origin.target)
  \/ /\ ~same
     /\ \/ HasTarget(origin) /\ origin.target \in EventsOf(other.hypothesis)
        \/ ToSet(origin.source) \cap EventsOf(other.hypothesis) # {}
NoSubstitutionConflicts(M) ==
  \A i \in NonDeclarative(M), j \in NonDeclarative(M) :
    ~Conflict(M.substitutions[i], M.substitutions[j], i = j)

EventsOfSubstitution(s) ==
  EventsOf(s.hypothesis) \cup ToSet(s.source) \cup (IF HasTarget(s) THEN {s.target} ELSE {})

-----------------------------------------------------------------------------
(* Common-cause groups *)

RECURSIVE CommonDivisor(_, _)
CommonDivisor(m, n) == IF n = 0 THEN m ELSE CommonDivisor(n, m % n)
Lowest(p) == LET d == CommonDivisor(p[1], p[2]) IN <<p[1] \div d, p[2] \div d>>
Times(p, q) == Lowest(<<p[1] * q[1], p[2] * q[2]>>)
Plus(p, q) == Lowest(<<p[1] * q[2] + q[1] * p[2], p[2] * q[2]>>)
Whole(n) == <<n, 1>>
OneMinus(p) == <<p[2] - p[1], p[2]>>
Over(p, q) == <<p[1] * q[2], p[2] * q[1]>>
Product(values) == FoldLeft(Times, Whole(1), values)
Total(values) == FoldLeft(Plus, Whole(0), values)
IsProbability(p) == 0 <= p[1] /\ p[1] <= p[2]
IsOne(p) == p[1] = p[2]

MinLevel(group) ==
  CASE group.model = "beta" -> Len(group.members)
    [] group.model = "mgl" -> 2
    [] OTHER -> 1
\* [levels, previous, valid]: levels maps levels to factors.
AddFactor(group, F, factor) ==
  LET level == IF factor.level # Absent THEN factor.level
               ELSE IF F.previous # 0 THEN F.previous + 1 ELSE MinLevel(group)
  IN  [levels |-> (level :> factor.value) @@ F.levels,
       previous |-> level,
       valid |-> F.valid /\ level \in MinLevel(group)..Len(group.members) /\ level \notin DOMAIN F.levels]
FactorsOf(group) ==
  FoldLeft(LAMBDA F, factor : AddFactor(group, F, factor),
           [levels |-> [l \in {} |-> Whole(0)], previous |-> 0, valid |-> TRUE], group.factors)
MaxLevel(group) == Max(DOMAIN FactorsOf(group).levels)

GroupIsDefined(group) ==
  IsInjective(group.members) /\ Len(group.members) >= 2 /\ FactorsOf(group).valid
GroupIsValid(group) ==
  LET levels == FactorsOf(group).levels
  IN  /\ levels # <<>>
      /\ DOMAIN levels = MinLevel(group)..MaxLevel(group)
      /\ \A l \in DOMAIN levels : IsProbability(levels[l])
      /\ group.model = "phi" => IsOne(Total([l \in DOMAIN levels |-> levels[l]]))

\* Mutant: the factors are off by one.
CombinationReciprocalOffByOne(n, k) ==
  LET larger == IF n - k > k THEN n - k ELSE k
  IN  Product([i \in 1..(n - larger) |-> <<i, larger + i - 1>>])
\* 1 / nCk
CombinationReciprocal(n, k) ==
  LET larger == IF n - k > k THEN n - k ELSE k
  IN  Product([i \in 1..(n - larger) |-> <<i, larger + i>>])

\* What share of the distribution the events of a level get, for the levels that have one.
Levels(group) ==
  LET factor == FactorsOf(group).levels
      n == Len(group.members)
      multiplier(level) == CombinationReciprocal(n - 1, level - 1)
      last == MaxLevel(group)
      sum == Total([l \in 1..last |-> Times(Whole(l), factor[l])])
      MglShare(l) ==
        Times(Times(multiplier(l), Product([j \in 1..(l - 1) |-> factor[j + 1]])),
              IF l < last THEN OneMinus(factor[l + 1]) ELSE Whole(1))
      AlphaShare(l) == Times(Times(Whole(l), multiplier(l)), Over(factor[l], sum))
  IN  CASE group.model = "beta" -> (1 :> OneMinus(factor[n])) @@ (n :> factor[n])
        [] group.model = "mgl" -> [l \in 1..last |-> MglShare(l)]
        [] group.model = "alpha" -> [l \in 1..last |-> AlphaShare(l)]
        [] group.model = "phi" -> factor

\* The events of a level are the combinations of so many members, in the order of the members.
CcfEvent(group, chosen) ==
  LET members == SelectSeq([i \in DOMAIN group.members |-> i], LAMBDA i : i \in chosen)
  IN  FoldLeft(LAMBDA name, i : name \o " " \o group.members[i], "ccf", members)
CcfEvents(group) ==
  LET Comes(s, t) == IF Cardinality(s) # Cardinality(t) THEN Cardinality(s) < Cardinality(t)
                     ELSE s # t /\ Min((s \ t) \cup (t \ s)) \in s
      Ordered(combinations) ==
        [i \in 1..Cardinality(combinations) |->
           CHOOSE s \in combinations : Cardinality({t \in combinations : Comes(t, s)}) = i - 1]
      Event(chosen, share) ==
        [name |-> CcfEvent(group, chosen), members |-> {group.members[m] : m \in chosen}, share |-> share]
      Events(shares, chosen) ==
        [i \in DOMAIN chosen |-> Event(chosen[i], shares[Cardinality(chosen[i])])]
      OfLevels(shares) ==
        Events(shares, Ordered({s \in SUBSET DOMAIN group.members : Cardinality(s) \in DOMAIN shares}))
  IN  OfLevels(Levels(group))

\* A member becomes the OR gate of its common-cause events.
ProxyGate(member) == member \o " (ccf)"
ApplyModel(M, group) ==
  LET members == ToSet(group.members)
      Args(events, member) ==
        LET own == SelectSeq(events, LAMBDA e : member \in e.members)
        IN  [i \in DOMAIN own |-> [complement |-> FALSE, event |-> own[i].name]]
      Proxy(name) == CHOOSE member \in members : ProxyGate(member) = name
      Proxies(events) == [name \in {ProxyGate(member) : member \in members} |->
                            [connective |-> "or", min |-> Absent, max |-> Absent,
                             args |-> Args(events, Proxy(name))]]
      Shares(events) == [name \in {e.name : e \in events} |-> (CHOOSE e \in events : e.name = name).share]
      Apply(events) == [M EXCEPT !.formula = Proxies(events) @@ @,
                                 !.ccf = [member \in members |-> ProxyGate(member)] @@ @,
                                 !.share = Shares(ToSet(events)) @@ @]
  IN  Apply(CcfEvents(group))

-----------------------------------------------------------------------------
(* Top events.  M.marked are the marked gates. *)

RECURSIVE MarkNonTopGates(_, _, _, _)
MarkNonTopGates(M, gates, marked, gate) ==
  IF gate \in marked THEN marked
  ELSE FoldLeft(LAMBDA m, arg : IF arg.event \in gates
                                  THEN MarkNonTopGates(M, gates, m, arg.event) \cup {arg.event}
                                  ELSE m,
                marked, M.formula[gate].args)
CollectTopEvents(M, gates) ==
  LET marked == FoldSet(LAMBDA gate, m : MarkNonTopGates(M, gates, m, gate), M.marked, gates)
  IN  [M EXCEPT !.marked = marked \ gates, !.tops = Append(@, gates \ marked)]

-----------------------------------------------------------------------------
(* ProcessInputFiles *)

\* What the input gives a model, before anything is derived from it.
Unprepared(definitions) ==
  [trees |-> definitions.trees, formula |-> definitions.formula, house |-> definitions.house,
   groups |-> definitions.groups, substitutions |-> definitions.substitutions,
   marked |-> {}, tops |-> <<>>, ccf |-> <<>>, share |-> <<>>, top |-> "none"]

DefinitionsAreValid(M) ==
  /\ \A gate \in DOMAIN M.formula : FormulaIsValid(M.formula[gate])
  /\ \A s \in ToSet(M.substitutions) :
       FormulaIsValid(s.hypothesis) /\ SubstitutionIsValid(M, s) /\ TypeIsRight(s)
  /\ \A group \in ToSet(M.groups) :
       GroupIsDefined(group) /\ \A member \in ToSet(group.members) : IsBasicEvent(M, member)
  /\ \A i \in DOMAIN M.groups, j \in DOMAIN M.groups :
       i # j => ToSet(M.groups[i].members) \cap ToSet(M.groups[j].members) = {}
\* The gates are marked by the search for cycles (CycleDetection).
Validated(M) == [M EXCEPT !.marked = DOMAIN M.formula]
ModelIsValid(M) == NoSubstitutionConflicts(M) /\ \A group \in ToSet(M.groups) : GroupIsValid(group)

\* Mutant: the marks of the cycle check stay.
WithTopEventsByOldMarks(M) == FoldLeft(CollectTopEvents, M, M.trees)
WithTopEvents(M) == FoldLeft(CollectTopEvents, [M EXCEPT !.marked = {}], M.trees)
WithCommonCauses(M) == FoldLeft(ApplyModel, M, M.groups)
\* The gate of a member with one common-cause event is no formula.
CommonCausesAreValid(M) == \A member \in DOMAIN M.ccf : FormulaIsValid(M.formula[M.ccf[member]])

NoCcfSubstitutions(M) ==
  \A i \in NonDeclarative(M) : EventsOfSubstitution(M.substitutions[i]) \cap DOMAIN M.ccf = {}
=============================================================================
