------------------------- MODULE FaultTreeAnalysis -------------------------
(***************************************************************************)
(* A fault tree from the input to its products: the model is checked and   *)
(* set up (src/initializer.cc), and for a top event of it                  *)
(* (src/fault_tree_analysis.cc) a graph is constructed, preprocessed for   *)
(* the engine, and the engine generates the products.                      *)
(*                                                                         *)
(* Settings are chosen where they first make a difference: whether the     *)
(* analysis is exact, whether it knows common-cause failures, the engine,  *)
(* the limit on the order of products, and whether they are to be prime    *)
(* implicants.                                                             *)
(***************************************************************************)
EXTENDS PdagConstruction, Preprocessor, Mocus

CONSTANTS
  Inputs,   \* the definitions to be analyzed
  Limits,   \* limits on the order of products
  PrimeLimits,   \* limits on the order of prime implicants
  None      \* no value yet

VARIABLES
  model,      \* the model
  settings,   \* [limit, prime], read by the engine
  zbdd,       \* what the engine generated
  products    \* products_

vars == <<preprocessing, model, settings, zbdd, products>>

Init ==
  /\ \E definitions \in Inputs : model = Unprepared(definitions)
  /\ graph = EmptyGraph(FALSE)
  /\ engine = "undecided"
  /\ order = <<>>
  /\ agenda = <<<<"Define", "Validate", "SetupForAnalysis", "EnsureSubstitutions",
                  "Construct", "Preprocess", "GenerateProducts", "Store">>>>
  /\ settings = None /\ zbdd = None /\ products = None

\* A model that is not valid is refused: the program ends.
Check(step, valid, M) ==
  /\ Doing(step)
  /\ IF valid THEN model' = M /\ agenda' = Rest ELSE model' = model /\ agenda' = <<>>
  /\ UNCHANGED <<graph, order, engine, settings, zbdd, products>>
Define == Check("Define", DefinitionsAreValid(model), model)
Validate == Check("Validate", ModelIsValid(model), Validated(model))
CheckCommonCauses(M) == Check("SetupForAnalysis", CommonCausesAreValid(M), M)
SetupForAnalysis == CheckCommonCauses(WithCommonCauses(WithTopEvents(model)))
\* Substitutions do not apply to exact analyses.
EnsureSubstitutions ==
  \E exact \in BOOLEAN :
    Check("EnsureSubstitutions",
          NoCcfSubstitutions(model) /\ ~(exact /\ NonDeclarative(model) # {}), model)

Construct ==
  /\ Doing("Construct")
  /\ \E top \in UNION ToSet(model.tops), ccf \in {TRUE, model.ccf = <<>>}, descending \in BOOLEAN :
       /\ model' = [model EXCEPT !.top = top, !.ccf = IF ccf THEN @ ELSE <<>>]
       /\ graph' = ConstructPdag(model', descending)
  /\ agenda' = Rest
  /\ UNCHANGED <<order, engine, settings, zbdd, products>>

StartPreprocessing ==
  /\ Doing("Preprocess")
  /\ Call(<<"Run", "RunCustom", "FinishCustom">>)
  /\ UNCHANGED <<graph, order, engine, model, settings, zbdd, products>>

Settings(prime, limit) ==
  [limit |-> limit, prime |-> prime,
   bound |-> IF engine = "mocus" /\ ~HasTrivialRoot(graph) THEN LastVariable(graph) ELSE 0]
Converted(S) ==
  CASE engine = "bdd" -> ZbddOfBdd(graph, order, S)
    [] engine = "zbdd" \/ (engine = "mocus" /\ S.bound = 0) -> ZbddOfGraph(graph, order, S)
    [] engine = "mocus" /\ S.bound > 0 -> AnalyzeModule(graph, order, S, graph.root)
\* MOCUS leaves a graph that is trivial as it is: its ZBDD is not analyzed, and substitutions are
\* not applied.
IsLeftAlone == engine = "mocus" /\ HasTrivialRoot(graph)
Generate(S) ==
  /\ settings' = [limit |-> S.limit, prime |-> S.prime]
  /\ zbdd' = IF IsLeftAlone THEN Converted(S) ELSE Analyzed(S, Converted(S), graph.substitutions)
\* Prime implicants are for exact analyses with BDDs only.
GenerateProducts ==
  /\ Doing("GenerateProducts")
  /\ \E prime \in {FALSE, engine = "bdd" /\ NonDeclarative(model) = {}} :
       \E limit \in IF prime THEN PrimeLimits ELSE Limits : Generate(Settings(prime, limit))
  /\ agenda' = Rest
  /\ UNCHANGED <<graph, order, engine, model, products>>

Store ==
  /\ Doing("Store")
  /\ products' = Products(zbdd)
  /\ agenda' = Rest
  /\ UNCHANGED <<graph, order, engine, model, settings, zbdd>>

Next ==
  \/ Define \/ Validate \/ SetupForAnalysis \/ EnsureSubstitutions
  \/ Construct \/ StartPreprocessing \/ GenerateProducts \/ Store
  \/ Preprocess /\ UNCHANGED <<model, settings, zbdd, products>>
\* Weak fairness of Next, written out: Next is enabled while there is something on the agenda,
\* and each of its steps changes the agenda.
Fairness == []<>(agenda = <<>>) \/ []<><<agenda' # agenda>>_vars
Spec == Init /\ [][Next]_vars /\ Fairness

-----------------------------------------------------------------------------
(* Model and graph *)

IsConstructed == graph.root # Constant
Literals == graph.variables \cup Opposite(graph.variables)

\* Types, and what the tables of arguments rely on: no node is an argument of a gate twice, and
\* arguments are nodes that exist (pdag.h: ArgSet and the tables of Gate).
TypeOK ==
  /\ engine \in {"undecided", "bdd", "zbdd", "mocus"}
  /\ \A g \in Gates(graph) :
       /\ g > Constant + Cardinality(graph.variables) /\ g <= graph.next
       /\ \A a \in Args(graph, g) :
            /\ Node(a) \in {Constant} \cup graph.variables \cup Gates(graph)
            /\ -a \notin Args(graph, g)
       /\ graph.gate[g].min \in Nat
  /\ IsConstructed => graph.root \in Gates(graph)
  /\ settings # None => settings.limit \in Limits \cup PrimeLimits /\ settings.prime \in BOOLEAN
  /\ products # None => products \in Seq(Seq(Literals))

\* The top events that a fault tree is analyzed for are its gates that no gate of it has as an
\* argument; the marks that the search for cycles left on the gates do not matter
\* (CollectTopEvents).
TopEventsAreRight ==
  Doing("EnsureSubstitutions") =>
    \A i \in DOMAIN model.trees :
      model.tops[i] = {gate \in model.trees[i] :
                         \A other \in model.trees[i] : gate \notin EventsOf(model.formula[other])}

\* A member of a common-cause group fails as probably as without the group: the shares of its
\* events add up to one, for as many levels as there are factors (ApplyModel).  Phi factors are
\* shares as they are; alpha factors are not all zero.
MembersKeepProbability ==
  Doing("EnsureSubstitutions") =>
    \A group \in ToSet(model.groups) :
      /\ group.model # "phi"
      /\ Total([i \in DOMAIN group.factors |-> group.factors[i].value])[1] # 0
      => \A member \in ToSet(group.members) :
           LET args == model.formula[model.ccf[member]].args
           IN  IsOne(Total([i \in DOMAIN args |-> model.share[args[i].event]]))

\* Substitutions are applied to a product all at once; what is refused makes sure that one
\* after the other gives the same, in any order (EnsureNoSubstitutionConflicts).
SubstitutionsCommute ==
  Doing("Preprocess") /\ graph.substitutions # <<>> =>
    \A product \in SUBSET graph.variables, sequence \in SetToSeqs(ToSet(graph.substitutions)) :
      FoldLeft(LAMBDA p, s : Substituted(<<s>>, p), product, sequence)
        = Substituted(graph.substitutions, product)

\* Every step of preprocessing keeps the function of the graph: what the formulas of the model
\* mean.
FunctionIsKept == IsConstructed /\ ~graph.lost => Meaning(graph) = ModelMeaning(model)

\* The same without an exception: two votes out of [x, x, z] are x, says the comment of
\* ProcessAtleastGateDuplicateArg (src/pdag.cc:368); but it is x that the code erases.
DuplicatesKeepFunction == IsConstructed => Meaning(graph) = ModelMeaning(model)

\* A gate with the flag of a module shares no node under it with the rest of the graph, after
\* whatever has been done to the graph since the flag was set.
ModulesAreModules ==
  IsConstructed =>
    LET alive == Alive(graph)
        Nodes(gates) == UNION {{Node(a) : a \in Args(graph, g)} : g \in gates}
    IN  \A g \in {h \in alive : IsModule(graph, h)} :
          LET inside == ReachedFrom(graph, {}, {g})
          IN  Nodes(inside) \cap Nodes(alive \ inside) \subseteq {Constant} /\ g \notin Nodes(inside)

-----------------------------------------------------------------------------
(* What the engines rely on *)

IsMonotone(sets) == \A on \in sets, n \in graph.variables : on \cup {n} \in sets
\* Gates and graphs that are flagged as coherent are monotone.
CoherenceIsRight ==
  LET meanings == Meanings(graph)
  IN  /\ graph.coherent => IsMonotone(Meaning(graph))
      /\ \A g \in Alive(graph) : graph.gate[g].coherent => IsMonotone(meanings[g])
\* Gates come after their arguments, but for the gates that MOCUS expands: those come before.
OrderIsRight ==
  LET nodes == Alive(graph) \cup {n \in graph.variables : Parents(graph, n) # {}}
      Expands(g) == engine = "mocus" /\ ~IsModule(graph, g)
  IN  /\ nodes \subseteq DOMAIN order
      /\ \A m \in nodes, n \in nodes : m # n => order[m] # order[n]
      /\ \A g \in Alive(graph), n \in nodes :
           g \in Parents(graph, n) => IF Expands(g) THEN order[g] < order[n] ELSE order[n] < order[g]
\* What is not trivial is made of AND and OR gates with several arguments; for ZBDDs and MOCUS
\* only variables are complements.
ReadyForEngine ==
  Doing("GenerateProducts") /\ ~HasTrivialRoot(graph) =>
    /\ \A g \in Alive(graph) :
         /\ Type(graph, g) \in {"and", "or"} /\ Cardinality(Args(graph, g)) > 1 /\ ~IsConstant(graph, g)
         /\ engine # "bdd" => \A a \in Args(graph, g) : a > 0 \/ Node(a) \in graph.variables
    /\ engine # "bdd" => ~graph.complement
    /\ CoherenceIsRight /\ OrderIsRight

\* Assertions that fail without consequences.  MergeCommonArgs leaves null gates to its next half and
\* to the next step if filtering has left it less than two candidates; a constant is still there while
\* BooleanOptimization holds the gate; a root that has been pulled up need not be a module; a module
\* whose function is constant is converted and eliminated like any other (zbdd.cc:137).
Harmless == {"pass-through gates merged", "pass-through gates to distribute", "constants left",
             "root is no module", "constant module"}
\* A graph that is one variable becomes a ZBDD whatever the limit is; the iterator applies it.
HarmlessIfTrivial == IF HasTrivialRoot(graph) THEN {"set above the limit"} ELSE {}
\* The other assertions hold that the modules name where pdag.cc, preprocessor.cc, zbdd.cc and
\* mocus.cc make them (Ensure, Require, Asserted): what steps expect of the gates and the lists they
\* are given, what is left of the limit for modules, and the structure of the ZBDDs before and after
\* their analysis.  Not named are assertions on what is not modelled: pointers, counts of uses, tables
\* of results, flags of minimality; those on graphs for the engines are part of ReadyForEngine.
AssertionsHold ==
  /\ graph.failed \subseteq Harmless
  /\ zbdd # None => zbdd.failed \subseteq Harmless \cup HarmlessIfTrivial

-----------------------------------------------------------------------------
(* What the products should be, from the meaning of the model alone *)

MinimalOf(sets) == {s \in sets : \A t \in sets : t \subseteq s => t = s}
Agrees(product, on) == \A a \in product : (a > 0) = (Node(a) \in on)
PrimeImplicants(meaning) ==
  LET others == (SUBSET graph.variables) \ meaning
      IsImplicant(p) == \A on \in others : ~Agrees(p, on)
  IN  {p \in SUBSET Literals : /\ p \cap Opposite(p) = {} /\ IsImplicant(p)
                               /\ \A a \in p : ~IsImplicant(p \ {a})}
Cut(sets, limit) == {p \in sets : Cardinality(p) <= limit}
Expected ==
  LET meaning == ModelMeaning(model)
      found == Cut(IF settings.prime THEN PrimeImplicants(meaning) ELSE MinimalOf(meaning), settings.limit)
      substitutions == IF IsLeftAlone THEN <<>> ELSE graph.substitutions
  IN  Cut(MinimalOf({Substituted(substitutions, p) : p \in found}), settings.limit)
\* Modules of which the BDD engine does not know, before it converts them, whether they are unity.
Uncertain == {g \in Alive(graph) \ {graph.root} : IsModule(graph, g) /\ ~graph.gate[g].coherent}

\* The products are the minimal cut sets (the prime implicants) of the model up to the limit,
\* with the substitutions applied to them; for the BDD engine, products close to the limit may be
\* missing, as every uncertain module that is unity counts as a literal (ConvertBdd).  No product is
\* found twice, and no literal is in a product twice: the iterator of the ZBDD and those of its
\* modules take each path once.
ProductsAreExact ==
  products # None /\ ~graph.lost =>
    LET expected == Expected
        found == {ToSet(products[i]) : i \in DOMAIN products}
        margin == IF engine = "bdd" THEN Cardinality(Uncertain) ELSE 0
    IN  /\ Cut(expected, settings.limit - margin) \subseteq found /\ found \subseteq expected
        /\ Cardinality(found) = Len(products)
        /\ \A i \in DOMAIN products : IsInjective(products[i])

\* Every analysis comes to an end: the algorithms that are repeated until nothing changes do.
AnalysisEnds == <>(agenda = <<>>)
=============================================================================
