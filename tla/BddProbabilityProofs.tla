------------------------ MODULE BddProbabilityProofs ------------------------
(***************************************************************************)
(* The marks of the vertices: proofs about the traversals of               *)
(* BddProbability, for every BDD, whatever its shape.                      *)
(***************************************************************************)
EXTENDS BddProbability, TLAPS

Frozen == Built /\ phase # "built"

\* Reach is the smallest set with the starts that next does not lead out of.
LEMMA ReachIsSmallest ==
  ASSUME NEW D, NEW next \in [D -> SUBSET D], NEW starts \in SUBSET D
  PROVE  /\ Reach(starts, next) \subseteq D
         /\ starts \subseteq Reach(starts, next)
         /\ \A u \in Reach(starts, next) : next[u] \subseteq Reach(starts, next)
         /\ \A S \in SUBSET D :
              starts \subseteq S /\ (\A u \in S : next[u] \subseteq S) => Reach(starts, next) \subseteq S
<1> DEFINE Closed(S) == starts \subseteq S /\ \A u \in S : next[u] \subseteq S
<1>1. Reach(starts, next) = {v \in D : \A S \in {T \in SUBSET D : Closed(T)} : v \in S}
  BY DEF Reach
<1>2. \A u \in Reach(starts, next) : next[u] \subseteq Reach(starts, next)
  <2> TAKE u \in Reach(starts, next)
  <2>1. \A w \in next[u] : w \in D /\ \A S \in {T \in SUBSET D : Closed(T)} : w \in S
    BY <1>1
  <2> QED
    BY <1>1, <2>1
<1> QED
  BY <1>1, <1>2

\* A recursion goes through its start unless that is marked, and on to every vertex
\* after one it goes through unless that is marked.
LEMMA TraversalIsSmallest ==
  ASSUME NEW marks, NEW m, NEW v, NEW next, NEW visited, visited = Traversal(v, m, marks, next)
  PROVE  /\ visited \subseteq DOMAIN marks
         /\ v \in DOMAIN marks /\ marks[v] # m => v \in visited
         /\ \A u \in visited : \A w \in next[u] \cap DOMAIN marks : marks[w] # m => w \in visited
         /\ \A S \in SUBSET DOMAIN marks :
              /\ v \in DOMAIN marks /\ marks[v] # m => v \in S
              /\ \A u \in S : \A w \in next[u] \cap DOMAIN marks : marks[w] # m => w \in S
              => visited \subseteq S
<1> DEFINE New(vertices) == {w \in vertices \cap DOMAIN marks : marks[w] # m}
           restricted == [u \in DOMAIN marks |-> New(next[u])]
<1>1. visited = Reach(New({v}), restricted)
  BY DEF Traversal
<1>2. restricted \in [DOMAIN marks -> SUBSET DOMAIN marks] /\ New({v}) \in SUBSET DOMAIN marks
  OBVIOUS
<1>3. /\ visited \subseteq DOMAIN marks
      /\ New({v}) \subseteq visited
      /\ \A u \in visited : restricted[u] \subseteq visited
      /\ \A S \in SUBSET DOMAIN marks :
           New({v}) \subseteq S /\ (\A u \in S : restricted[u] \subseteq S) => visited \subseteq S
  <2> DEFINE D == DOMAIN marks
             starts == New({v})
  <2>1. restricted \in [D -> SUBSET D] /\ starts \in SUBSET D /\ visited = Reach(starts, restricted)
    BY <1>1, <1>2
  <2> HIDE DEF restricted, New, D, starts
  <2>2. /\ visited \subseteq D
        /\ starts \subseteq visited
        /\ \A u \in visited : restricted[u] \subseteq visited
        /\ \A S \in SUBSET D :
             starts \subseteq S /\ (\A u \in S : restricted[u] \subseteq S) => visited \subseteq S
    BY <2>1, ReachIsSmallest
  <2> QED
    BY <2>2 DEF D, starts
<1>4. \A u \in DOMAIN marks : restricted[u] = New(next[u])
  OBVIOUS
<1> HIDE DEF restricted
<1> QED
  BY <1>3, <1>4

\* What the marks are known to be between two steps.
MarksHold ==
  /\ mark \in [DOMAIN mark -> BOOLEAN] /\ current_mark \in BOOLEAN
  /\ root.vertex \in DOMAIN mark \cup {One}
  /\ \A v \in ReachedVertices : mark[v] = current_mark

\* What is reached does not depend on the marks.
LEMMA ReachedIsKept ==
  ASSUME root' = root, modules' = modules, DOMAIN mark' = DOMAIN mark
  PROVE  ReachedVertices' = ReachedVertices
<1>1. Successors' = Successors
  BY DEF Successors, Branches, ModuleOf, IsProxy
<1> QED
  BY <1>1 DEF ReachedVertices

\* The reached vertices have the root and are closed.
LEMMA ReachedIsClosed ==
  /\ ReachedVertices \subseteq DOMAIN mark
  /\ root.vertex \in DOMAIN mark => root.vertex \in ReachedVertices
  /\ \A u \in ReachedVertices : Successors[u] \subseteq ReachedVertices
  /\ \A S \in SUBSET DOMAIN mark :
       /\ {root.vertex} \cap DOMAIN mark \subseteq S
       /\ \A u \in S : Successors[u] \subseteq S
       => ReachedVertices \subseteq S
<1>1. Successors \in [DOMAIN mark -> SUBSET DOMAIN mark]
  BY DEF Successors, Branches, ModuleOf
<1>2. {root.vertex} \cap DOMAIN mark \in SUBSET DOMAIN mark
  OBVIOUS
<1> HIDE DEF Successors
<1> QED
  BY <1>1, <1>2, ReachIsSmallest DEF ReachedVertices

\* A calculation goes through everything that is reached, and leaves one mark there.
LEMMA CalculateTotalKeeps ==
  ASSUME MarksHold, NEW q, CalculateTotal(q), root' = root, modules' = modules
  PROVE  MarksHold'
<1> DEFINE visited == Unmarked(root.vertex, ~current_mark)
<1>1. mark' = Marked(visited, ~current_mark) /\ current_mark' = ~current_mark
  BY DEF CalculateTotal
<1>2. /\ visited \subseteq DOMAIN mark
      /\ root.vertex \in DOMAIN mark /\ mark[root.vertex] # ~current_mark => root.vertex \in visited
      /\ \A u \in visited : \A w \in Successors[u] \cap DOMAIN mark :
           mark[w] # ~current_mark => w \in visited
  <2>1. visited = Traversal(root.vertex, ~current_mark, mark, Successors)
    BY DEF Unmarked
  <2> HIDE DEF visited, Successors
  <2> QED
    BY <2>1, TraversalIsSmallest
<1> HIDE DEF visited
<1>3. ReachedVertices \subseteq visited
  <2> DEFINE S == ReachedVertices \cap visited
  <2>1. \A v \in ReachedVertices : mark[v] # ~current_mark
    BY DEF MarksHold
  <2>2. {root.vertex} \cap DOMAIN mark \subseteq S
    BY <1>2, <2>1, ReachedIsClosed
  <2>3. \A u \in S : Successors[u] \subseteq S
    BY <1>2, <2>1, ReachedIsClosed
  <2>4. S \in SUBSET DOMAIN mark
    BY <1>2
  <2> QED
    BY <2>2, <2>3, <2>4, ReachedIsClosed
<1>4. DOMAIN mark' = DOMAIN mark /\ mark' \in [DOMAIN mark' -> BOOLEAN] /\ current_mark' \in BOOLEAN
  BY <1>1 DEF Marked, MarksHold
<1>5. ReachedVertices' = ReachedVertices
  BY <1>4, ReachedIsKept
<1>6. \A v \in ReachedVertices : mark'[v] = current_mark'
  BY <1>1, <1>2, <1>3 DEF Marked
<1> QED
  BY <1>4, <1>5, <1>6 DEF MarksHold

\* The search for a variable uses the other mark, and every vertex it goes through is
\* found again by ClearMarks, along the vertices that the search has marked.
LEMMA CalculateMifKeeps ==
  ASSUME MarksHold, NEW x, CalculateMif(x), root' = root, modules' = modules, current_mark' = current_mark
  PROVE  MarksHold'
<1>1. CASE root.vertex = One
  <2>1. mark' = mark
    BY <1>1 DEF CalculateMif, fields
  <2> QED
    BY <2>1, ReachedIsKept DEF MarksHold
<1>2. CASE root.vertex # One
  <2> DEFINE original == mark[root.vertex]
             o == index_to_order[x]
             next == [u \in DOMAIN mark |->
                        CASE order[u.index] > o -> ModuleOf(u)
                          [] order[u.index] = o -> {}
                          [] OTHER -> Branches(u)]
             visited == MifUnmarked(root.vertex, o, ~original)
             marks == Marked(visited, ~original)
             cleared == Traversal(root.vertex, original, marks, Successors)
  <2>1. mark' = RestoreMarks(visited, original)
    BY <1>2 DEF CalculateMif
  <2>2. mark' = [v \in DOMAIN mark |-> IF v \in cleared THEN original ELSE marks[v]]
    BY <2>1 DEF RestoreMarks
  <2>3. visited = Traversal(root.vertex, ~original, mark, next)
    BY DEF MifUnmarked
  <2>4. root.vertex \in ReachedVertices /\ root.vertex \in DOMAIN mark /\ original = current_mark
        /\ original \in BOOLEAN
    BY <1>2, ReachedIsClosed DEF MarksHold
  <2>5. \A u \in DOMAIN mark : next[u] \subseteq Successors[u]
    BY DEF Successors
  <2>6. marks = [v \in DOMAIN mark |-> IF v \in visited THEN ~original ELSE mark[v]]
    BY DEF Marked
  <2>7. DOMAIN marks = DOMAIN mark /\ \A v \in DOMAIN mark : v \in visited => marks[v] # original
    BY <2>4, <2>6
  <2> HIDE DEF original, o, next, visited, marks, cleared
  <2>8. /\ visited \subseteq DOMAIN mark
        /\ root.vertex \in visited
        /\ \A u \in visited : \A w \in next[u] \cap DOMAIN mark : mark[w] # ~original => w \in visited
        /\ \A S \in SUBSET DOMAIN mark :
             /\ root.vertex \in DOMAIN mark /\ mark[root.vertex] # ~original => root.vertex \in S
             /\ \A u \in S : \A w \in next[u] \cap DOMAIN mark : mark[w] # ~original => w \in S
             => visited \subseteq S
    <3>1. mark[root.vertex] # ~original
      BY <2>4 DEF original
    <3> DEFINE m == ~original
    <3>2. visited = Traversal(root.vertex, m, mark, next)
      BY <2>3
    <3> HIDE DEF m
    <3>3. /\ visited \subseteq DOMAIN mark
          /\ root.vertex \in DOMAIN mark /\ mark[root.vertex] # m => root.vertex \in visited
          /\ \A u \in visited : \A w \in next[u] \cap DOMAIN mark : mark[w] # m => w \in visited
          /\ \A S \in SUBSET DOMAIN mark :
               /\ root.vertex \in DOMAIN mark /\ mark[root.vertex] # m => root.vertex \in S
               /\ \A u \in S : \A w \in next[u] \cap DOMAIN mark : mark[w] # m => w \in S
               => visited \subseteq S
      BY <3>2, TraversalIsSmallest
    <3> QED
      BY <2>4, <3>1, <3>3 DEF m
  <2>9. /\ cleared \subseteq DOMAIN mark
        /\ root.vertex \in cleared
        /\ \A u \in cleared : \A w \in Successors[u] \cap DOMAIN mark :
             marks[w] # original => w \in cleared
    <3>1. cleared = Traversal(root.vertex, original, marks, Successors)
      BY DEF cleared
    <3> HIDE DEF Successors
    <3>2. /\ cleared \subseteq DOMAIN marks
          /\ root.vertex \in DOMAIN marks /\ marks[root.vertex] # original => root.vertex \in cleared
          /\ \A u \in cleared : \A w \in Successors[u] \cap DOMAIN marks :
               marks[w] # original => w \in cleared
      BY <3>1, TraversalIsSmallest
    <3> QED
      BY <2>4, <2>7, <2>8, <3>2
  <2>10. visited \subseteq cleared
    <3> DEFINE S == visited \cap cleared
    <3>1. S \in SUBSET DOMAIN mark /\ root.vertex \in S
      BY <2>8, <2>9
    <3>2. ASSUME NEW u \in S, NEW w \in next[u] \cap DOMAIN mark, mark[w] # ~original
          PROVE  w \in S
      <4>1. w \in visited
        BY <2>8, <3>2
      <4>2. w \in Successors[u] /\ marks[w] # original
        BY <2>5, <2>7, <2>8, <4>1, <3>2
      <4> QED
        BY <2>9, <4>1, <4>2
    <3> HIDE DEF S
    <3>3. visited \subseteq S
      BY <2>8, <3>1, <3>2
    <3> QED
      BY <3>3 DEF S
  <2>11. DOMAIN mark' = DOMAIN mark /\ mark' \in [DOMAIN mark' -> BOOLEAN]
    BY <2>2, <2>4, <2>6 DEF MarksHold
  <2>12. ReachedVertices' = ReachedVertices
    BY <2>11, ReachedIsKept
  <2>13. \A v \in ReachedVertices : mark'[v] = current_mark
    BY <2>2, <2>4, <2>6, <2>10, ReachedIsClosed DEF MarksHold
  <2> QED
    BY <2>11, <2>12, <2>13 DEF MarksHold
<1> QED
  BY <1>1, <1>2

-----------------------------------------------------------------------------
\* The inductive invariant.
MarksInv == Frozen => MarksHold

\* The conversion ends where the marks begin.
LEMMA ConversionIsBefore == Conversion => ~Frozen'
<1>1. Conversion => phase' \in {"order", "construct", "convert", "built"}
  BY DEF Conversion, OrderGateArgument, OrderVariable, OrderGate, ConstructTrivial, Construct,
         ConvertMemoized, ConvertArgument, FinishGate, FinishConversion, ReturnTo
<1> QED
  BY <1>1 DEF Frozen, Built

\* Every calculation sets the marks of all that the root reaches, or none.
LEMMA MarksStep == MarksInv /\ [Next]_vars => MarksInv'
<1> SUFFICES ASSUME MarksInv, [Next]_vars, Frozen' PROVE MarksHold'
  BY DEF MarksInv
<1>1. CASE Convert
  BY <1>1, ConversionIsBefore DEF Convert
<1>2. CASE Freeze
  <2>1. mark' = [v \in Vertices |-> FALSE] /\ current_mark' = FALSE /\ root' = root
    BY <1>2 DEF Freeze
  <2>2. root.vertex \in Vertices \cup {One}
    BY DEF Vertices, Under
  <2>3. ReachedVertices' \subseteq DOMAIN mark'
    BY DEF ReachedVertices, Reach, Successors
  <2> QED
    BY <2>1, <2>2, <2>3 DEF MarksHold
<1>3. CASE Total
  BY <1>3, CalculateTotalKeeps DEF Total, MarksInv, Frozen, Built
<1>4. CASE Update
  BY <1>4, CalculateTotalKeeps DEF Update, MarksInv, Frozen, Built, conversion
<1>5. CASE EndOfTime \/ EndOfImportance \/ EndOfAnalysis
  <2>1. Frozen /\ UNCHANGED <<root, modules, mark, current_mark>>
    BY <1>5 DEF EndOfTime, EndOfImportance, EndOfAnalysis, Frozen, Built, fields
  <2> QED
    BY <2>1, ReachedIsKept DEF MarksInv, MarksHold
<1>6. CASE Intermediates
  <2>1. /\ Frozen /\ UNCHANGED <<root, modules, current_mark>>
        /\ mark' = Marked(IntermediatesVisited, current_mark)
    BY <1>6 DEF Intermediates, Frozen, Built
  <2>2. /\ DOMAIN mark' = DOMAIN mark
        /\ \A v \in DOMAIN mark : mark'[v] \in {mark[v], current_mark}
    BY <2>1 DEF Marked
  <2>3. mark' \in [DOMAIN mark -> BOOLEAN]
    BY <2>1 DEF Marked, MarksInv, MarksHold
  <2> QED
    BY <2>1, <2>2, <2>3, ReachedIsKept, ReachedIsClosed DEF MarksInv, MarksHold
<1>7. CASE Importance
  <2>1. PICK x : CalculateMif(x)
    BY <1>7 DEF Importance
  <2>2. Frozen /\ UNCHANGED <<root, modules, current_mark>>
    BY <1>7 DEF Importance, conversion, Frozen, Built
  <2> QED
    BY <2>1, <2>2, CalculateMifKeeps DEF MarksInv
<1>8. CASE Trial
  BY <1>8, CalculateTotalKeeps DEF Trial, MarksInv, Frozen, Built, conversion
<1>9. CASE UNCHANGED vars
  <2>1. UNCHANGED <<phase, root, modules, mark, current_mark>>
    BY <1>9 DEF vars, conversion, fields
  <2> QED
    BY <2>1, ReachedIsKept DEF MarksInv, MarksHold, Frozen, Built
<1> QED
  BY <1>1, <1>2, <1>3, <1>4, <1>5, <1>6, <1>7, <1>8, <1>9 DEF Next, Terminated

\* Whatever the BDD, its modules and the settings: between two traversals all vertices
\* under the root have the mark of the last total (src/probability_analysis.cc:252-263,
\* src/importance_analysis.cc:73-138, ClearMarks of src/bdd.cc).
THEOREM MarksUniform == Spec => []MarksAreUniform
<1>1. Init => MarksInv
  BY DEF Init, ConversionInit, MarksInv, Frozen, Built
<1>2. MarksInv => MarksAreUniform
  BY DEF MarksInv, MarksAreUniform, Frozen, MarksHold
<1> QED
  BY <1>1, <1>2, MarksStep, PTL DEF Spec
=============================================================================
