# A verification project for SCRAM

SCRAM reads fault trees, event trees and their data (Open-PSA MEF), turns every
top event or event-tree sequence into a Boolean graph, and calculates minimal
cut sets, prime implicants, probabilities, importance factors and distributions.
This directory holds TLA+ models of its core, the TLC configurations that check
them on small instances, and theorems about them that TLAPS checks.

All sources named below are under `src/src/`.

## 1. The system

| part | state it keeps | operations | what makes it correct |
|---|---|---|---|
| Command line, project file, settings (`scram.cc`, `project.*`, `settings.*`) | one `Settings` object | setters that check, refuse and change other fields; called by the project file, then by the command line | fields agree after any sequence of calls; the command line wins; errors are reported |
| Initializer (`initializer.*`) | tables of the model; the list `tbd_` of elements to define | register, define, validate, set up | every reference is resolved; checks run when what they rely on holds; what would make analyses ambiguous is refused |
| Cycle detection (`cycle.*`) | marks of nodes, the report | `CheckCycle` over gates, rules, branches, links, parameters | verdict is right and the report is a cycle |
| Model, events, formulas (`model.*`, `element.*`, `event.*`, `fault_tree.*`) | shared tables, states of house events, mission time | lookup; state changes by phases | changes are undone between contexts |
| Event trees (`event_tree.*`, `instruction.h`, `event_tree_analysis.*`) | path collectors, context of functional events | walk over forks, links and instructions | a sequence is the OR of its paths; no state leaks between branches |
| Alignments (`alignment.*`) | phases: time fraction and instructions | validation; application by the driver | fractions add up to one; contexts are isolated |
| Substitutions, CCF groups (`substitution.*`, `ccf_group.*`) | members, factors, levels | add, validate, apply | levels match members, a member fails as probably as before; the order of substitutions does not matter |
| Fault tree analysis (`fault_tree_analysis.*`) | the graph, the engine, the products | construct, preprocess, generate, store | the products are those of the formulas |
| Expressions (`expression.*`, `expression/`) | sampled value and flag | value, sample, reset, validate | a shared subexpression is sampled once per trial |
| Risk analysis (`risk_analysis.*`) | results, a scope guard | all contexts times all targets | every target in every context, the model restored |
| PDAG and preprocessor (`pdag.*`, `preprocessor.*`) | the graph, marks, orders, visit times, values of optimization | construction, simplification, modules, merging, optimization, ordering | the function is kept; modules are modules; repeated algorithms end; engines get what they rely on |
| BDD (`bdd.*`) | unique table, tables of results, reference counts | `Apply`, `ConvertGraph` | canonicity; results are right |
| ZBDD and MOCUS (`zbdd.*`, `mocus.*`) | the same for sets of products | union, product, minimization, cut-off | the products are the minimal cut sets within the limits |
| Probability, importance, uncertainty analysis | numbers and marks in BDD vertices | totals, time series, factors, trials | numbers are exact and none is left over from an earlier calculation |
| Reporter, serialization, XML, logger | none of the analysis | I/O | not modelled |

The parts run in one thread, in the order of the table. What makes them hard is
not concurrency but *state that outlives the call that made it*: one `Model`
mutated by every phase, marks on gates shared by three algorithms, BDD vertices
that hold the numbers of the last calculation and one bit of freshness, tables
of results that lose entries, vertices that are deleted in a cascade, and a
settings object written by two clients. Iteration orders are those of hash
tables, so every order must do.

## 2. Modules

```
 AnalysisSettings         CycleCheck <== CycleDetection          RiskAnalysis
      |                                      |                        |
 AnalysisSettingsProofs            CycleDetectionProofs      RiskAnalysisProofs

                    Pdag <-.                            .- BddConversionProofs
 BddFunctions <- BddFolds <- BddConversion <- BddProbability <- BddExactness
                                                        '- BddProbabilityProofs
 BddApply <- BddApplyProofs

 EventTrees <- EventTreeWalk <- EventTreeScenarios <-.
                     '- EventTreeProofs <- EventTreeScenariosProofs

                          .- PreprocessorNormalization <-.
 ModelSetup <-.   PdagGates <- PreprocessorModules <------ PreprocessorOptimization <-.
              |    |  |  ^--- PreprocessorMerging <------------------------------ Preprocessor
        PdagConstruction |                                                            |
              |          '----- Zbdd <- Mocus                  (BddFolds, ZbddSets <- Zbdd)
              |                           |                                           |
              '--------------------> FaultTreeAnalysis <------------------------------'
```

`A <- B`: B extends A. `A <== B`: B is shown to implement A.

### AnalysisSettings (`settings.*`, `project.cc`, `scram.cc`)

A step is one call of a setter, or the decision that there is none because the
option is not given. `ProjectOptions` and `CommandLineOptions` are the orders of
the calls in the two clients; `stage` walks over both. Each setter action has
the check, the refusal (`SettingsError`) and the side effects of the C++ one.
`Settings::algorithm` is `noexcept`: the exception of `approximation`, which it
calls, becomes the status `"terminated"`. Options that only have a range are one
action `SetLimit`. `stage` counts the turns of both clients and `Option(turn)` is
the option whose turn it is. There are no constants and no bound: TLC's run is
exhaustive.

### CycleCheck, CycleDetection (`cycle.h`, `cycle.cc`)

`CycleDetection` is `CheckCycle`, `DetectCycle` and `ContinueConnector` with the
recursion as an explicit `stack`; `rest[n]` is what the loop over the connector
of `n` has left. `Unwind` is the return of `true` through a caller. A connector
(formula, rule, branch, link) is flattened to the set of nodes that it yields,
in any order. `CycleCheck` is the promise: one verdict, `"cyclic"` exactly when
the container reaches a cycle. The refinement maps every outcome to the verdict
and everything before it to `"pending"`.

### RiskAnalysis (`risk_analysis.cc`, `alignment.*`, `probability_analysis.cc`)

`Analyze` runs `RunAnalysis` without a context or once per phase. `EnterPhase`
arms the guard and scales the mission time; `SetHouseEvent` is one turn of the
loop over instructions, with the test that only a change of state is recorded;
`AnalyzeTarget` analyses an event tree's sequences or a top gate; with a time
step it goes on to `TimelinePoint` and `TimelineEnd`, which move the mission
time of the model. `LeaveContext`, `RestoreHouseEvent` and `Restored` are the
destructor of the guard. A result is what the analysis saw: mission times and
house states. That the fractions of an alignment add up to one
(`alignment.cc:36-44`) is not asked of the inputs, so there are more models here
than the initializer accepts; nothing that is checked depends on it.

### EventTrees, EventTreeWalk, EventTreeScenarios (`event_tree.h`, `instruction.h`, `initializer.cc`, `event_tree_analysis.cc`)

`EventTrees` is the data and the checks of `ValidateInitialization` that decide
whether the walk may begin: acyclic branches, functional events in order, links
only in sequences, acyclic links, no mixture of formulas and expressions. What a
traversal meets (`Under`, `Passed`, `UnderWithLinks`) is the least set with its
start that no edge leaves, and a cycle is a set in which every node leads on:
neither needs recursion, so the checks can be reasoned about. A fork and a branch
name the event tree they are in (`tree`), since the order of functional events is
one per tree. `IsDefined` is what the definitions of the input leave: references
are resolved, an event tree begins with a branch of its own, a fork has paths
(`DefineBranchTarget` asserts it, the schema demands it) and no two with one state
(the constructor of `Fork` refuses them). `ModelsAssumption` says that the models
are such.
`EventTreeWalk` is `CollectSequences`: a `Collector` is a frame of `stack`, which
executes the instructions of a branch or sequence one by one (`PassOver`,
`Visit`, `VisitLink`), goes on to the target (`GoOn`, `EnterFork`, `TakePath`,
`LeaveFork`) and registers its path (`EndPath`). `functional_events` is the map
in the context that all expressions of the model read; `save` is what a link has
put aside. `Join` makes the gates of `Analyze`. A clone of a formula is the
formula with the house states it was cloned under. `trail`, which the program
does not keep, is the list of choices on a path, for the properties; a link is in
it with the number of instructions that are left behind it, because one list may
link to a tree twice.

`EventTreeScenarios` says what the tree means without a walk: a scenario gives
every functional event of every tree a state. A `Situation` is a branch that a
scenario has reached, with what has happened so far; `Following` are the
situations that come next (one behind a named branch, one or none on the paths of
a fork, one for every link that applies in a sequence), and `OutcomesFrom`, a
function on situations, joins what they lead to. The gate of a sequence must hold
the outcomes of exactly the scenarios that end in it (`GatesAreRight`), each path
once.
Blocks and rules are spliced into the lists of instructions, and conditionals
are tests on what is in them.

### BddApply (`bdd.h`, `bdd.cc`)

One step is one case of `Apply` or one operation of its client. Vertices have
ids that are never used again; `vertex` holds the vertices alive. `Keep` is the
cascade of `intrusive_ptr_release`: what no table, activation or client holds
any more is deleted. `computed` is the two tables of results; `Emplace` may lose
any entries with every insertion, which covers every hash function, collision
and rehash. `meaning` is a history variable: the set of assignments for which a
vertex is true. `FindOrAddVertex` is `Same`/`Known` (a live vertex with this
signature) or a new vertex. This takes the unique table as what it promises: its
buckets, the weak pointers that have expired in them and rehashing
(`bdd.h:451`) are not represented, so no property here says anything about them.

### Pdag, BddFolds, BddConversion (`pdag.h`, `preprocessor.cc`, `bdd.cc`)

`Pdag` states what a graph means, what is under a gate, what a module is and, in
`IsPdag`, what makes a graph hold together: finitely many gates, no gate among
its own ancestors, parents for all gates but the root, and, unless the graph is
one variable or the constant, AND and OR gates with arguments that are not the
constant, as the preprocessor leaves them. `BddConversion` is
`TopologicalOrder` and `Bdd::ConvertGraph`, one gate per step, with the memo of
shared gates, the modules and their proxy vertices; `Emplace` is that of the
maps, which keeps what a key has. Because BddApply shows that vertices that are
equal functions are one object, a vertex here is the record of its fields and
`Apply` is a function. That function, its fold over the arguments of a gate
(`ApplyAll`) and the value of a diagram when given variables are true
(`Evaluate`) are recursive; they are in `BddFolds`, as functions on the diagrams
over an order (`DiagramsOver`: no path is longer than the order) rather than as
RECURSIVE operators, so that they can be proved about.
`ConversionIsRight` compares the values with those of the gates (`Values`); a
proxy has the value of its gate (`TrueNodes`).

### BddProbability, BddExactness (`probability_analysis.*`, `importance_analysis.*`, `uncertainty_analysis.*`)

What follows the conversion, in the order `RiskAnalysis` runs it: `Total`,
`Update` (a point of the time series), `Intermediates`, `Importance` (one
variable) and `Trial`. A step is one traversal of the BDD; it visits exactly the
vertices whose mark differs, so that what is stale stays stale. `Traversal` says
which: the least set with the start, if it has not got the mark, that goes on
from every member to what follows it and has not got the mark either. What
follows a vertex differs: its branches and its module for a total, but only one
of the two for the search for a variable (`MifUnmarked`). Probabilities are exact
dyadic numbers (`Dyadics`), so no property depends on rounding. `BddExactness` is
what the calculations should give, from the graph alone: its properties sum over
all assignments.

### ModelSetup (`event.*`, `substitution.*`, `ccf_group.*`, `fault_tree.cc`, `initializer.cc`)

Operators on a model, which is a record of definitions: fault trees, formulas of
all connectives, house events, common-cause groups and substitutions. Each part
has the checks that the code makes (`FormulaIsValid`, `SubstitutionIsValid` with
the deduced type, `GroupIsValid`, `NoSubstitutionConflicts`,
`NoCcfSubstitutions`) and what the setup does: `CollectTopEvents` with the marks
that cycle detection has left on the gates, and `ApplyModel`, which makes a gate
of every member of a group. `AddFactor` keeps explicit and implied levels apart
as the code does; shares are exact fractions.

### PdagGates, PdagConstruction (`pdag.*`)

A graph is a record; gates have signed arguments as in the code. `PdagGates` is
class `Gate`: `AddArg` with duplicates, complements and constants,
`ProcessAtleastGateDuplicateArg`, `JoinNullGate`, `CoalesceGate`,
`NegateArgs`, `PropagateNullGate` and the rest, each with its cascade. Shared
pointers are reachability from the root and from what local variables hold
(`Alive`, `Hold`, `Collected`). Assertions of the code are `Ensure`: one that
fails leaves its name in `failed`. `PdagConstruction` is the constructor, from
formulas and declarative substitutions. `Meaning` gives a graph its function, and
`ModelMeaning` gives a model its function without a graph.

### Preprocessor and its four parts (`preprocessor.*`)

`Preprocessor` is the control: a step is one algorithm applied to the graph, and
`agenda` is the stack of procedures with what each has left to do, because
`Transform` tests before every operation whether the graph has become trivial
and returns from one procedure only. The algorithms are operators on graphs:

* `PreprocessorNormalization`: null gates, negative gates, XOR and votes,
  complements, coalescing, multiple definitions, coherence, topological order;
* `PreprocessorModules`: `DetectModules` with the visit times of every node;
* `PreprocessorMerging`: `MergeCommonArgs` and `DetectDistributivity`;
* `PreprocessorOptimization`: `BooleanOptimization` and `DecomposeCommonNodes`
  with the values, marks and descendants that they write on nodes.

A table of arguments is traversed by index, ascending or descending
(`descending`), since the order of the code's tables depends on their history.

### BddFunctions, ZbddSets, Zbdd, Mocus (`bdd.cc`, `zbdd.*`, `mocus.cc`)

Vertices are records of their fields, which is justified by BddApply. `ZbddSets`
is the algebra: union and product with the limit on orders, minimization,
elimination of complements and of constant modules, orders of modules. `Zbdd`
converts a graph, or the BDD of a graph with or without prime implicants, and
its modules with what is left of the limit. `Mocus` expands gates instead; all of
its containers, for modules within modules too, have the limit of the analysis
(`mocus.cc:66-67`), and what is left of it only decides whether a module can be
in a product at all (`mocus.cc:92`). `ApplySubstitutions` and `Products` are the
end of it. `Products` runs the iterator of `zbdd.h:148-263` as the stack machine
it is: a path of vertices, a stack of iterators of modules that are resumed, and
an advance per product. It yields a sequence, so a product that is skipped or
repeated would show. None of the tables of results is modelled, nor the flag that
a vertex is minimal: the first is the subject of BddApply, the second saves time
only.

Assertions of the code have names: `Ensure`, `Require` and `Asserted` put the name
of one that fails into the set `failed` of the graph or the ZBDD, and the
operation goes on as a release build does.

### FaultTreeAnalysis (`fault_tree_analysis.*`, `initializer.cc`)

The composition: `Define`, `Validate`, `SetupForAnalysis` and
`EnsureSubstitutions` may refuse the model; `Construct`, the steps of the
preprocessor, `GenerateProducts` and `Store` are `Analyze`. Settings are chosen
where they first make a difference, so that models with different settings share
what comes before.

## 3. Runs

| run | module | shows |
|---|---|---|
| `cycle_detection` | MCCycleDetection | types, marks, report, verdict (refinement of CycleCheck), termination |
| `risk_analysis` | MCRiskAnalysis | types, restoration, isolation of contexts, completeness of results |
| `event_tree_walk` | MCEventTrees | types, no failed assertion after the initializer's checks, context of every test, gates against all scenarios, termination |
| `bdd_apply` | MCBddApply | types (nothing in use is deleted), structure, canonicity, results, table entries, termination |
| `bdd_probability` | MCBddProbability | conversion, memo, contiguous modules, marks, totals, intermediate values, importance |
| `analysis_settings` | AnalysisSettings | consistency and precedence of settings |
| `fault_tree_analysis` | MCFaultTreeAnalysis | see below |
| `repeated_house_event` | MCRiskAnalysis | disagreement 1 |
| `absorbed_module` | MCBddProbability | disagreement 2 |
| `inverted_importance` | MCBddProbability | disagreement 3 |
| `settings_termination` | AnalysisSettings | disagreement 4 |
| `duplicate_vote` | MCFaultTreeAnalysis | disagreement 5 |

`fault_tree_analysis` checks, in every state on the way from a model to its
products:

* `TopEventsAreRight`: top events are the gates that no gate of their tree uses,
  whatever marks were left before;
* `MembersKeepProbability`: the shares of a member of a common-cause group add up
  to one (but see section 4 on phi factors);
* `SubstitutionsCommute`: substitutions that are not refused give the same when
  they are applied one after the other in any order;
* `FunctionIsKept`: after the construction and after every transformation the
  graph means what the formulas of the model mean;
* `ModulesAreModules`: no node inside a module is an argument outside it, after
  whatever was done since the flag was set;
* `ReadyForEngine`: types, complements, coherence and orders are what the chosen
  engine relies on;
* `AssertionsHold`: the assertions that have a name in the modules, but for those
  listed in section 4. They are what the steps of the preprocessor expect of
  null gates, constants, types, marks and lists (`preprocessor.cc`, `pdag.cc`),
  what is left of limits, that a module's vertex is not terminal
  (`zbdd.cc:137`), and the structure of every ZBDD before and after its analysis
  (`CHECK_ZBDD`, `zbdd.cc:95`). What a graph must be for the engines is
  `ReadyForEngine`. Assertions about what is not modelled have no name: pointers,
  parent tables and counts of uses, tables of results, flags of minimality, sizes
  of containers and the states of an iterator that has ended;
* `ProductsAreExact`: products are the minimal cut sets (prime implicants) of the
  formulas up to the limit, substituted, and none is found twice;
* `AnalysisEnds`: loops that repeat until nothing changes end.

### Bounds, and why they are enough

* `cycle_detection`: four nodes, all subsets of ten candidate edges (self-loops,
  cycles of two to four nodes with and without a tail, diamonds), containers of
  one, two and four nodes. A cycle with a tail, entered in the middle, next to a
  node that is reached twice needs four nodes.
* `risk_analysis`: two phases, two house events, two targets, up to two
  instructions per phase; a mission of 16 with fractions 1/4 and 3/4 and a step
  of 5, which divides no mission time. Leaks go from one context to the next, so
  two suffice; the proofs lift the bound.
* `bdd_apply`: three variables whose order is not that of their indices, two
  calls by the client (`MaxCalls`; calls inside `Apply` are not bounded). The
  second call meets tables, vertices and deletions of the first. The proofs lift
  both bounds.
* `event_tree_walk`: two event trees and two initiating events. In the first, a
  fork leads to a sequence or a named branch and from there to a second fork; a
  sequence may link to the second tree under a condition, or twice, and that has a
  functional event of the same name and ends in a sequence of the first. House
  events, formulas and expressions are collected before the fork, in its paths,
  in the sequence and behind the link. Some of the models are refused:
  functional events out of order or twice, a link outside a sequence, a cycle of
  links, formulas mixed with expressions. Leaks need two paths and one link;
  deeper trees repeat the same frames.
* `bdd_probability`: graphs of one to five gates and up to five variables:
  trivial graphs, one module, a shared gate that is none, a shared module, a
  module that is absorbed beside a gate that is none, modules nested three deep,
  with and without complements. One time series of three points (or none) and two
  trials, so that totals come in even and odd numbers.
* `fault_tree_analysis`: 150 trees of three levels with a gate that two others
  share (five connectives above, six and four below), and single models with
  house events, pass-through gates, repeated arguments, nested and neighbouring
  modules, two fault trees, common-cause groups and substitutions, nearly
  half of them refused; up to six basic events. Limits (`Limits`) are 0 to 3, with 1 and
  4 for prime implicants (`PrimeLimits`). Each algorithm of the preprocessor
  finds something to do in some of them, and each arm of its loops is taken more
  than once; sharing over more than two levels repeats what two levels do.
* `analysis_settings`: no bound.

### Fairness

`FairSpec` of CycleDetection and RiskAnalysis, and of BddApply for the steps of
`Apply`, is weak fairness of the whole next-state relation: these are plain
function calls in one thread, which keep running until they return. The client
of BddApply has no fairness: it may stop calling. EventTreeWalk and
FaultTreeAnalysis state the same fairness written out: the analysis is at its
end again and again, or steps are taken again and again. Until the end a step is
enabled and every step changes something (in FaultTreeAnalysis the agenda), so
weak fairness of the steps amounts to that, and TLC need not evaluate ENABLED of
actions that copy collectors or transform graphs.

## 4. Disagreements with the documentation

1. **House events are restored in the wrong order** (`risk_analysis.cc:61`). The
   guard replays the recorded states first to last. A phase that sets one house
   event twice records the state between, and leaves that in the model;
   `risk_analysis.h:120` promises the original state. The schema
   (`share/input.rng:117`) allows such a phase.
2. **Absorbed modules have stale probabilities** (`probability_analysis.cc:241`).
   A module whose proxy has disappeared from the BDD is never visited by a
   total. Its mark stays false, so that after an even number of totals it looks
   fresh and its initial 0 is reported.
3. **Importance factors of complemented roots** (`importance_analysis.cc:81`)
   have the wrong sign: `root().complement` is not looked at. For all other
   graphs, and for the absolute value in these, the factors are exact
   (`ImportanceIsExactForVertex`).
4. **A settings error that cannot be caught** (`settings.cc:39`). Prime
   implicants in the project file and `--zbdd` or `--mocus` on the command line
   make the `noexcept` setter throw.

5. **A vote with a repeated argument** (`pdag.cc:370`). Where the comment says
   `@(2, [x, x, z]) = x`, `EraseArg(index)` erases x and leaves z: for
   top = atleast 2 (a, b, g1) with g1 a pass-through of a, the graph is b.
   `FunctionIsKept` and `ProductsAreExact` leave graphs out that met this case
   (`lost`).

Assertions that fail without consequences, so only debug builds show them
(`Harmless`, `HarmlessIfTrivial`):

* `MergeCommonArgs` asserts between its halves and at its end
  (`preprocessor.cc:1109`), and `DetectDistributivity` at its start (`:1517`), that
  there are no null gates. But when filtering leaves less than two candidates, a
  `continue` skips `RemoveNullGates`, and gates that merging has turned into
  pass-through gates are still there;
* `RemoveNullGates` asserts at its end that no constants are left, but while
  Boolean optimization holds the root of a module that has become constant, it
  is still there;
* `GatherModules` asserts that the root is a module; a root that `IsTrivial` has
  just pulled up need not be one;
* `zbdd.cc:137` asserts that the vertex of a module is not terminal. A module
  whose function is constant fails it; it is eliminated afterwards like any
  other constant module;
* `zbdd.cc:95` asserts that the orders of a ZBDD respect its limit. A graph of one
  variable is made a ZBDD without a look at the limit (`zbdd.cc:87`), so limit 0
  fails it; the iterator applies the limit.

Worth knowing, though no text says otherwise:

* with a cut-off, the BDD engine loses products near the limit when a module
  under them may be unity: at limit 0 `ConvertBdd` gives up although the vertices
  that remain may be unity or constant (`zbdd.cc:289-329`). `ProductsAreExact`
  allows for as many missing literals as there are such modules (`margin`);
* MOCUS adjusts the settings for every module to what is left of the limit
  (`mocus.cc:98-101`), but `AnalyzeModule` uses its parameter in a line of the log
  only (`mocus.cc:57`); its container takes the member `kSettings_`
  (`mocus.cc:66-67`), though `mocus.h:69` says "Settings for analysis". Modules
  keep products that no product of the top can hold, and the iterator leaves
  them out (`zbdd.h:216`): more work, the same result (`ProductsAreExact`);
* MOCUS does not apply substitutions to a graph that is trivial (`mocus.cc:40`);
  `ProductsAreExact` takes that as it is;
* an alpha or phi group with one factor of level one becomes a gate with one
  argument: the assertion of `ccf_group.cc:151` fails, and without it the
  formula is refused (`CommonCausesAreValid`). Phi factors are shares of the
  total as they are, weighted by nothing, so members do not keep their
  probability; alpha factors may all be zero, which gives 0/0 (`ccf_group.cc:265`).
  `MembersKeepProbability` leaves these two out;
* a cardinality over a single argument, from 1 to 1, becomes an OR gate of one
  argument (`pdag.cc:690`), which later phases do not expect. The inputs have
  none;
* `Zbdd::Analyze` discards the result of `Prune` (`zbdd.cc:102`); products above
  the limit are still left out by the iterator;
* decomposition clones a parent that is also used elsewhere, but puts the clone
  to use only if it is a pass-through gate (`preprocessor.cc:2263`), which a
  clone of an ordinary gate never is, so only parents inside are simplified;

* flags that are absent on the command line reset those of the project file
  (`scram.cc:213-228`);
* a path that collects no formula adds nothing to the disjunction of a sequence
  that other paths reach with formulas, although it stands for TRUE
  (`event_tree_analysis.cc:112-126`); `GatesAreRight` says nothing of such
  sequences;
* expressions that are collected on a path are evaluated after the walk, when
  the context holds no functional event and the initiating event of the last
  walk (`event_tree_analysis.cc:244`); a test of events inside such an
  expression, unlike one in a conditional, does not see its path.

## 5. Proofs

`CycleDetectionProofs`, for every set of nodes and all graphs and containers:
`TypeCorrect`, `MarksCorrect`, `ReportCorrect` and `VerdictCorrect`
(CycleDetection implements CycleCheck). The properties are not inductive: the
marks say nothing of the report while it grows, nor of the nodes that the loops
have yet to visit. `Inv` adds that

* successors of an active node that its loop has passed are permanent, or are
  the next active node;
* what is permanent or active is reachable from the container, and containers'
  nodes that the loop has passed are permanent or at the bottom of the stack;
* no set of permanent nodes is cyclic: this is what makes the verdict
  `"acyclic"` right when all that is reachable is permanent;
* while the report grows, it is a path ending at the successor of the top of the
  stack, its first node is still below unless the report is closed, and none of
  its nodes but the first occurs twice.

`RiskAnalysisProofs`, for any phases, programs, fractions, targets and time
steps: `TypeCorrect` without any assumption on the phases, and `GuardRestores`
and `ContextsAreIsolated` under the assumption
`DistinctEvents` that no phase names a house event twice, without which the
first is false (disagreement 1). The invariant `IInv` says what the guard knows
in every phase of a context: the entries recorded so far name distinct events
with their original states, every other event still has its original state,
the instructions applied so far have been obeyed, and during the restoration
the entries already passed are back.

`BddApplyProofs`, for every number and order of variables and any number of
calls: `TypeCorrect`, `StructureCorrect`, `CanonicityCorrect`, `ApplyCorrect`
and `TablesCorrect`. The only assumptions are that there is a variable, that
different variables have different places in the order, and that `MaxCalls` is a
number. The invariant `IInv` has three parts.

* The diagram (`Bdd`). To types, structure and canonicity it adds
  `GoodIndependence`: a vertex does not depend on variables before its own. By
  canonicity and reduction the two branches of a vertex are different functions,
  so the vertex does depend on its own variable (`MixDepends`), and its variable
  and branches can be read from its function (`MixIsInjective`). Hence a new
  signature is a new function, and adding a vertex keeps the diagram canonical.
  Deletion keeps it because what stays alive is closed under branches.
* The tables (`EntryIsGood`). They hold numbers of vertices and not the vertices,
  so an entry may outlive its arguments. It stays right because ids are never
  used again: when both arguments are alive they are the ones it was made for.
  Its result begins no earlier than its arguments.
* The calls (`FrameIsGood`, `Fits`, `Above`). What an activation must return
  agrees, on the branch its caller asked for, with the combination of the
  caller's arguments; the functions of inner calls come after the caller's
  variable. The top of the stack therefore makes a vertex that is ordered, and
  the bottom returns what the client asked for.

`EventTreeProofs`, for any number of event trees of any shape: `TypeCorrect`,
`AssertionsCorrect` and `ContextCorrect`. The only assumption is
`ModelsAssumption`, that the input is what the initializer leaves of it
(`IsDefined`): references are resolved, forks have paths for different states, and
a tree begins in itself. That the trees are acyclic, in order and homogeneous is
not assumed but what the step `Validate` finds out. The properties speak of one frame and of one moment; the invariant
`IInv` says of the whole stack why they come about.

* `FrameIsGood`: a frame is at a place that the checks have gone through
  (`UnderWithLinks` of the initial branch), and has collected only what they have
  seen, so no mixture of formulas and expressions. The choices since the last
  link are of the frame's own event tree and before every fork that it may come
  to (`BranchInOrder`): this is what `FunctionalEventsAreInOrder` is good for, and
  why the functional event of the next fork is not in the context yet.
* `Waits`: every frame below another waits at a fork, with the trail of the one
  above longer by the choice taken, or at a link, with the context of its own
  trail put aside. So a return finds the context to go on with, however deep
  links are nested.
* `RunsIn`: the shared context is that of the trail on top, and at a fork that
  of the trail with the fork's own event besides.

`EventTreeScenariosProofs`: `GatesCorrect`, that the gates are those of the
scenarios, for the same models. The property compares a walk, which keeps one
path at a time, with all scenarios at once. Its invariant `GatesInv` has four
parts.

* `IInv` of EventTreeProofs: whatever the walk is at, the outcome of a test for
  it is the outcome for every scenario that agrees with the trail.
* `AllAreCovered`. In every scenario the outcomes found so far and those still to
  come are together all outcomes of the initial situation. What is to come is
  read off the stack: a frame stands for the outcomes of its situation (`Stands`)
  if the scenario agrees with its trail, and for none otherwise; at a branch for
  those of what follows, at a fork for those of the paths left, in a sequence
  for those of the links left, and of the sequence itself if none has applied
  (`ToCome`). Every step of a Collector splits or moves one of them.
* `NothingIsTwice`. No trail is found twice, and none is still to come from two
  frames or from a frame and what was found (`AreApart`); otherwise expressions
  would be added up twice. For this the states of a fork must differ, and the
  links of one list must be told apart. Nor does a trail choose two states for
  one functional event (`IsConsistent`), so that there is a scenario for every
  path found: in one tree this is `FunctionalEventsAreInOrder`, and across trees it
  is `LinksAreAcyclic`, because a walk that follows a link never comes back to a
  tree it has left (`AreLeftFor`).
* `GatesAreMade`: a gate is made of all the paths found for its sequence, it is
  not changed after its initiating event is done, and formulas and expressions
  do not meet in it.

That the recursive functions of the definitions satisfy their equations is proved
and needs no induction theorem with an operator parameter: the first `n` that
`After` has no solution for would be a least number (`AfterEquation`), and the
ends of all situations that follow one another are a solution of `OutcomesFrom`
(`OutcomesEquation`), the only one where the branches and links are acyclic.
The proof has changed the
specification: a trail used to record a link by its tree alone, so that two links
of a list to one tree left the same trail, were one outcome to the scenarios and
two paths to the gate. The code is right to add up both; the specification now
tells them apart, and TLC's models have such a list.

`AnalysisSettingsProofs`: `TypeCorrect`, `ConsistencyCorrect` and
`CommandLineCorrect`. There is no constant, so TLC's run is exhaustive too; the
proof says why it comes out. `CommandLineIsObeyed` speaks of the end only.
`Obeyed`, which is inductive, says for every option from which turn on the
setting must be what the command line asked for: each setter that changes
another setting (`algorithm`, `prime_implicants`, `approximation`,
`safety_integrity_levels`) comes before the setter of what it changes, or
changes it to what it must be.

`BddConversionProofs`, for every graph with `IsPdag` and every choice among
arguments with equally many parents:

* `ModulesContiguous`. The property is about finished orders. While
  `TopologicalOrder` runs (`Ordering`), the active calls are a path down the
  graph (`Stacked`), arguments have their orders before their gates, what has an
  order has a parent that has one or is active, and what a module on the path
  has got so far are the last orders. The last keeps because everything that
  gets an order while a module is active is under it, and before it was active
  nothing under it had an order: the first parent from which it was reached
  would be in the module.
* `MemoBalanced`. The memo counts visits and not visitors. With the set of gates
  converted so far, which the program does not keep (`Converts`), the count of a
  gate is the number of its parents that have asked for it: those converted,
  and those active that have it behind them. A gate leaves the memo with its
  last parent, so nobody asks for it afterwards and it is not converted again;
  when the root is converted, all parents have asked, and the memo is empty.
* `ConversionCorrect`. This one needs `FoldsAreRight`, a lemma on `BddFolds`:
  over every order there are functions, closed under literals, complements and
  folds, whose values are what these stand for. The functions are the ordered
  diagrams (`Ordered`), in which the variable of a vertex comes before those of
  its branches: in layers, the last variable in the first layer. That recursive
  functions exist at all is proved layer by layer (`EvaluateIsDefined`), for
  Apply by the sum of the layers of both arguments (`ApplyIsDefined`), for the
  fold by the number of arguments (`FoldIsDefined`, the functions being finitely
  many); each time a least number without a solution has one (`LeastNumber`), so
  that no induction theorem with an operator parameter is needed.
  `ApplyIsRight` takes the least layer in which Apply goes wrong: the branches at
  the first of both variables are in a layer before, and `ValueOfUnique` puts
  them together. Orders give variables different positions (`IsOrder`), and the
  proof needs it: the branch on one variable would otherwise be asked again.
  The invariant `RightInv` picks the functions for the order. While the
  conversion runs (`ConvertsRight`), every argument collected by an active call
  stands for the argument of the gate, every memoized function and every module
  for its gate, and each depends on what is under its gate only; what is still
  to be converted is exactly what the arguments lack. That literals of all
  variables and of all proxies are available is the part `OrderIsGood` adds: a
  finished order has all nodes of the graph. That every gate has a value at all
  (`ValuesExist`) needs no induction theorem with an operator parameter: the
  gates under a gate are finite sets, a strict subset ordering is well-founded,
  and a least set without values has none (`LowestGate`).

`BddProbabilityProofs`, for every BDD with any modules, reached or not:
`MarksUniform`. A total starts from uniform marks and goes through everything
that the root reaches; the search for a variable goes through less and leaves
marks of both kinds. The proof shows that the vertices it has marked are
connected to the root through marked ones, and that therefore `ClearMarks`, which
goes on from marked vertices only, resets them all. The calculation of the
modules starts from the marks of the last total and so touches nothing that the
root reaches.

Constants are only assumed to be of their types (`GraphAssumption`,
`ContainerAssumption`, `ProgramAssumption`, `TimeAssumption`,
`ContextAssumption`, `NumVariablesAssumption`, `OrderAssumption`,
`MaxCallsAssumption`) or to be data that hold together (`ModelsAssumption`,
`GraphsAssumption`).

Only model-checked:

* all of FaultTreeAnalysis: its algorithms are recursive over graphs and
  decision diagrams, and a module that reaches a recursive operator cannot hold
  theorems;
* `TotalsAreExact`, `ReachedModulesAreExact` and `ImportanceIsExactForVertex`:
  the sum over assignments and what is reached through modules are RECURSIVE
  operators of `BddExactness`;
* `TypeOK` of BddProbability: it says also that no module but the root is
  constant. That is a promise of the preprocessor; not every PDAG keeps it;
* the liveness properties (`CheckTerminates`, `EveryContextIsAnalyzed`,
  `EveryWalkEnds`, `ApplyReturns`, `AnalysisEnds`): fairness and ENABLED are out
  of the prover's reach.

## 6. Not modelled

* I/O: XML, reporter, serialization, logger, environment. The two passes of the
  initializer over the input (register every element, then define it) are
  lookups of names in tables; the models begin with what they leave.
* Expressions: their values are floating-point arithmetic; the sampling of
  shared expressions is not modelled either. Common-cause factors and shares are
  exact fractions, probabilities are dyadic numbers.
* The statistics of samples, the rare-event and MCUB approximations, printing of
  products.
* Hash functions, tables of results of the ZBDD, marks that only save a second
  visit, and the ranges by which merging sorts its candidates.
* The Prune of a ZBDD that is discarded, the operations of `FaultTree`,
  `Formula` and `Component` that only an editor of models calls.

## 7. Plan

Done:

1. CycleCheck, CycleDetection and proofs.
2. RiskAnalysis and proofs.
3. BddApply and proofs; Pdag, BddConversion and BddProbability and proofs.
4. AnalysisSettings and proofs.
5. EventTrees, EventTreeWalk, EventTreeScenarios and proofs.
6. ModelSetup: formulas, substitutions, common-cause groups, top events.
7. PdagGates, PdagConstruction and the preprocessor.
8. ZbddSets, Zbdd, Mocus, and FaultTreeAnalysis, which composes 6 to 8.

Left:

* theorems: the setup of a model (`ModelSetup`: top events, shares of
  common-cause groups, substitutions) for every model; the control of the
  preprocessor (`agenda`) needs a module of its own without the recursive
  operators on graphs;
* sampling of shared expressions (`Sample`, `Reset`) against one draw per trial;
* the initializer's `tbd_` list.
