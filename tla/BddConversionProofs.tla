------------------------ MODULE BddConversionProofs -------------------------
(***************************************************************************)
(* The two recursions over the graph in BddConversion: the order that      *)
(* TopologicalOrder gives to modules (ModulesContiguous), the memo of      *)
(* ConvertGraph (MemoBalanced), and what ConvertGraph makes of the graph   *)
(* (ConversionCorrect).  All hold for every graph that is a PDAG; the last *)
(* one rests on what Apply and its fold are on the functions over an       *)
(* order (FoldsAreRight).                                                  *)
(***************************************************************************)
EXTENDS BddProbability, FiniteSetTheorems, SequenceTheorems, WellFoundedInduction, TLAPS

-----------------------------------------------------------------------------
(* Diagrams *)

\* A set of numbers has a least one.
LEMMA LeastNumber ==
  ASSUME NEW S \in SUBSET Nat, S # {}
  PROVE  \E n \in S : \A k \in S : n <= k
<1> DEFINE R == OpToRel(<, Nat)
<1>1. IsWellFoundedOn(R, Nat)
  BY NatLessThanWellFounded
<1>2. \A k, n \in Nat : k < n => <<k, n>> \in R
  BY DEF OpToRel
<1> HIDE DEF R
<1>3. PICK n \in S : \A k \in S : ~(<<k, n>> \in R)
  BY <1>1, WFMin
<1>4. ASSUME NEW k \in S PROVE n <= k
  <2>1. k \in Nat /\ n \in Nat /\ ~(k < n)
    BY <1>2, <1>3
  <2> QED BY <2>1
<1> QED
  BY <1>4

-----------------------------------------------------------------------------
(* Layers *)

VerticesOn(indices, below) ==
  [index : indices, high : below, low : below, complement_edge : BOOLEAN]

LEMMA LayersEquation ==
  ASSUME NEW indices, Len(indices) \in Nat
  PROVE  /\ Layers(indices)[0] = {One}
         /\ \A n \in 1 .. Len(indices) :
              Layers(indices)[n] = VerticesOn(indices[n], Layers(indices)[n - 1])
                                     \cup Layers(indices)[n - 1]
<1> DEFINE With(below, n) == VerticesOn(indices[n], below) \cup below
           Solves(g, k) == g = [n \in 0 .. k |-> IF n = 0 THEN {One} ELSE With(g[n - 1], n)]
           Unsolved == {k \in Nat : ~ \E g : Solves(g, k)}
           layer == Layers(indices)
<1>1. ASSUME Unsolved # {} PROVE FALSE
  <2>1. PICK k \in Unsolved : \A l \in Unsolved : k <= l
    BY <1>1, LeastNumber
  <2>2. k # 0
    <3> DEFINE g == [n \in 0 .. 0 |-> {One}]
    <3>1. Solves(g, 0)
      <4> HIDE DEF With
      <4> QED OBVIOUS
    <3> QED BY <3>1
  <2>3. k - 1 \in Nat /\ k - 1 \notin Unsolved
    <3>1. k \in Nat
      BY <2>1
    <3> HIDE DEF Unsolved
    <3> QED BY <2>1, <2>2, <3>1
  <2>4. PICK g : Solves(g, k - 1)
    BY <2>3
  <2> DEFINE h == [n \in 0 .. k |-> IF n = k THEN With(g[k - 1], k) ELSE g[n]]
  <2>5. Solves(h, k)
    <3> HIDE DEF With
    <3>1. \A n \in 0 .. k - 1 : g[n] = IF n = 0 THEN {One} ELSE With(g[n - 1], n)
      BY <2>4
    <3>2. ASSUME NEW n \in 0 .. k PROVE h[n] = IF n = 0 THEN {One} ELSE With(h[n - 1], n)
      <4>1. CASE n = k
        BY <2>2, <2>3, <4>1
      <4>2. CASE n # k
        <5>1. n \in 0 .. k - 1 /\ (n # 0 => n - 1 \in 0 .. k /\ n - 1 # k)
          BY <2>3, <4>2
        <5>2. h[n] = g[n] /\ (n # 0 => h[n - 1] = g[n - 1])
          BY <4>2, <5>1
        <5> HIDE DEF h
        <5> QED BY <3>1, <5>1, <5>2
      <4> QED BY <4>1, <4>2
    <3>3. h = [n \in 0 .. k |-> h[n]]
      OBVIOUS
    <3> HIDE DEF h
    <3> QED BY <3>2, <3>3
  <2> QED BY <2>5
<1>2. PICK g : Solves(g, Len(indices))
  BY <1>1
<1>3. g = [n \in 0 .. Len(indices) |->
             IF n = 0 THEN {One} ELSE VerticesOn(indices[n], g[n - 1]) \cup g[n - 1]]
  BY <1>2
<1>4. layer = [n \in 0 .. Len(indices) |->
                 IF n = 0 THEN {One} ELSE VerticesOn(indices[n], layer[n - 1]) \cup layer[n - 1]]
  BY <1>3 DEF Layers, VerticesOn
<1> HIDE DEF layer
<1>5. 0 \in 0 .. Len(indices) /\ \A n \in 1 .. Len(indices) : n \in 0 .. Len(indices) /\ n # 0
  OBVIOUS
<1>6. layer[0] = {One}
  BY <1>4, <1>5
<1>7. \A n \in 1 .. Len(indices) :
        layer[n] = VerticesOn(indices[n], layer[n - 1]) \cup layer[n - 1]
  BY <1>4, <1>5
<1> QED
  BY <1>6, <1>7 DEF layer

\* A layer has what those before have.
LEMMA LayersGrow ==
  ASSUME NEW indices, Len(indices) \in Nat, NEW i \in 0 .. Len(indices), NEW j \in i .. Len(indices)
  PROVE  Layers(indices)[i] \subseteq Layers(indices)[j]
<1> DEFINE layer == Layers(indices)
           Bad == {k \in i .. Len(indices) : ~(layer[i] \subseteq layer[k])}
<1>1. \A n \in 1 .. Len(indices) : layer[n - 1] \subseteq layer[n]
  BY LayersEquation
<1> HIDE DEF layer
<1>2. ASSUME Bad # {} PROVE FALSE
  <2>1. Bad \in SUBSET Nat
    OBVIOUS
  <2>2. PICK k \in Bad : \A l \in Bad : k <= l
    BY <1>2, <2>1, LeastNumber
  <2>3. k \in i .. Len(indices) /\ ~(layer[i] \subseteq layer[k]) /\ k # i
    OBVIOUS
  <2>4. k - 1 \in i .. Len(indices) /\ k \in 1 .. Len(indices) /\ ~(k <= k - 1)
    BY <2>3
  <2>5. k - 1 \notin Bad
    BY <2>2, <2>4
  <2> QED
    BY <1>1, <2>3, <2>4, <2>5
<1> QED
  BY <1>2 DEF layer

\* A vertex of a layer is new in one layer up to it.
LEMMA VertexIsNew ==
  ASSUME NEW indices, Len(indices) \in Nat, NEW n \in 0 .. Len(indices),
         NEW v \in Layers(indices)[n], v # One
  PROVE  \E k \in 1 .. n : v \in VerticesOn(indices[k], Layers(indices)[k - 1])
<1> DEFINE layer == Layers(indices)
           S == {k \in 0 .. n : v \in layer[k]}
<1>1. layer[0] = {One} /\ \A k \in 1 .. n :
        layer[k] = VerticesOn(indices[k], layer[k - 1]) \cup layer[k - 1]
  BY LayersEquation
<1>2. n \in 0 .. n /\ v \in layer[n]
  OBVIOUS
<1> HIDE DEF layer
<1>3. S \in SUBSET Nat /\ S # {}
  BY <1>2
<1>4. PICK k \in S : \A l \in S : k <= l
  BY <1>3, LeastNumber
<1>5. k \in 0 .. n /\ v \in layer[k] /\ k # 0
  BY <1>1
<1>6. k \in 1 .. n /\ k - 1 \in 0 .. n /\ ~(k <= k - 1)
  BY <1>5
<1>7. v \notin layer[k - 1]
  BY <1>4, <1>6
<1>8. v \in VerticesOn(indices[k], layer[k - 1])
  BY <1>1, <1>5, <1>6, <1>7
<1> QED
  BY <1>6, <1>8 DEF layer

\* The functions with the vertices of a layer.
Diagrams(indices, n) == [complement : BOOLEAN, vertex : Layers(indices)[n]]

LEMMA DiagramsGrow ==
  ASSUME NEW indices, Len(indices) \in Nat, NEW i \in 0 .. Len(indices), NEW j \in i .. Len(indices)
  PROVE  Diagrams(indices, i) \subseteq Diagrams(indices, j)
<1>1. Layers(indices)[i] \subseteq Layers(indices)[j]
  BY LayersGrow
<1> QED
  BY <1>1 DEF Diagrams

\* The branches of a function are in a layer before.
LEMMA BranchesAreBelow ==
  ASSUME NEW indices, Len(indices) \in Nat, NEW n \in 0 .. Len(indices),
         NEW f \in Diagrams(indices, n), f.vertex # One
  PROVE  \E k \in 1 .. n :
           /\ f.vertex.index \in indices[k] /\ f.vertex.complement_edge \in BOOLEAN
           /\ f.vertex = Ite(f.vertex.index, f.vertex.high, f.vertex.low, f.vertex.complement_edge)
           /\ f \in Diagrams(indices, k)
           /\ HighOf(f) \in Diagrams(indices, k - 1) /\ LowOf(f) \in Diagrams(indices, k - 1)
<1>1. f.vertex \in Layers(indices)[n] /\ f.complement \in BOOLEAN
  BY DEF Diagrams
<1>2. PICK k \in 1 .. n : f.vertex \in VerticesOn(indices[k], Layers(indices)[k - 1])
  BY <1>1, VertexIsNew
<1> DEFINE v == f.vertex
<1>3. /\ v.index \in indices[k] /\ v.complement_edge \in BOOLEAN
      /\ v.high \in Layers(indices)[k - 1] /\ v.low \in Layers(indices)[k - 1]
      /\ v = Ite(v.index, v.high, v.low, v.complement_edge)
  BY <1>2 DEF VerticesOn, Ite
<1>4. HighOf(f) \in Diagrams(indices, k - 1) /\ LowOf(f) \in Diagrams(indices, k - 1)
  BY <1>1, <1>3 DEF HighOf, LowOf, Fun, Diagrams
<1>5. f \in Diagrams(indices, k)
  <2>1. f.vertex \in Layers(indices)[k]
    BY <1>2, LayersEquation
  <2> QED BY <1>1, <2>1 DEF Diagrams
<1> QED
  BY <1>3, <1>4, <1>5

\* A function has its fields.
LEMMA DiagramRecord ==
  ASSUME NEW indices, NEW n, NEW f \in Diagrams(indices, n)
  PROVE  f = Fun(f.complement, f.vertex) /\ f.complement \in BOOLEAN /\ f.vertex \in Layers(indices)[n]
  BY DEF Diagrams, Fun

-----------------------------------------------------------------------------
(* Apply *)

\* What is over an order may be in every layer on every variable.
Everywhere(o) == [n \in 1 .. Cardinality(DOMAIN o) |-> DOMAIN o]

LEMMA OverIsLayer ==
  ASSUME NEW o, Cardinality(DOMAIN o) \in Nat
  PROVE  LET N == Cardinality(DOMAIN o)
         IN  /\ Len(Everywhere(o)) = N /\ \A k \in 1 .. N : Everywhere(o)[k] = DOMAIN o
             /\ DiagramsOver(o) = Diagrams(Everywhere(o), N)
  BY DEF Everywhere, DiagramsOver, VerticesOver, Diagrams

\* One of the two functions is in a layer before for the branches of their first variable.
PairsUpTo(o, n) ==
  {pair \in DiagramsOver(o) \X DiagramsOver(o) :
     \E i, j \in 0 .. Cardinality(DOMAIN o) :
       i + j <= n /\ pair[1] \in Diagrams(Everywhere(o), i) /\ pair[2] \in Diagrams(Everywhere(o), j)}

LEMMA PairsGoDown ==
  ASSUME NEW o, Cardinality(DOMAIN o) \in Nat, NEW n \in Nat, NEW pair \in PairsUpTo(o, n),
         ~IsSettled(pair[1], pair[2])
  PROVE  /\ n - 1 \in Nat
         /\ HighPair(o, pair[1], pair[2]) \in PairsUpTo(o, n - 1)
         /\ LowPair(o, pair[1], pair[2]) \in PairsUpTo(o, n - 1)
<1> DEFINE N == Cardinality(DOMAIN o)
           D == Everywhere(o)
           f == pair[1]
           g == pair[2]
           x == FirstIn(o, f, g)
<1>1. PICK i \in 0 .. N, j \in 0 .. N : i + j <= n /\ f \in Diagrams(D, i) /\ g \in Diagrams(D, j)
  BY DEF PairsUpTo
<1>2. Len(D) = N /\ N \in Nat /\ DiagramsOver(o) = Diagrams(D, N)
  BY OverIsLayer
<1>3. f.vertex # One /\ g.vertex # One /\ (x = f.vertex.index \/ x = g.vertex.index)
  BY DEF IsSettled, FirstIn
<1> HIDE DEF N, D, f, g, x
<1>4. PICK k \in 1 .. i : HighOf(f) \in Diagrams(D, k - 1) /\ LowOf(f) \in Diagrams(D, k - 1)
  BY <1>1, <1>2, <1>3, BranchesAreBelow
<1>5. PICK l \in 1 .. j : HighOf(g) \in Diagrams(D, l - 1) /\ LowOf(g) \in Diagrams(D, l - 1)
  BY <1>1, <1>2, <1>3, BranchesAreBelow
<1>6. /\ HighAt(f, x) \in Diagrams(D, IF x = f.vertex.index THEN k - 1 ELSE i)
      /\ LowAt(f, x) \in Diagrams(D, IF x = f.vertex.index THEN k - 1 ELSE i)
  BY <1>1, <1>4 DEF HighAt, LowAt
<1>7. /\ HighAt(g, x) \in Diagrams(D, IF x = g.vertex.index THEN l - 1 ELSE j)
      /\ LowAt(g, x) \in Diagrams(D, IF x = g.vertex.index THEN l - 1 ELSE j)
  BY <1>1, <1>5 DEF HighAt, LowAt
<1>8. PICK a \in 0 .. N, b \in 0 .. N :
        /\ a + b <= n - 1
        /\ {HighAt(f, x), LowAt(f, x)} \subseteq Diagrams(D, a)
        /\ {HighAt(g, x), LowAt(g, x)} \subseteq Diagrams(D, b)
  <2> DEFINE a == IF x = f.vertex.index THEN k - 1 ELSE i
             b == IF x = g.vertex.index THEN l - 1 ELSE j
  <2>1. a \in 0 .. N /\ b \in 0 .. N /\ a + b <= n - 1
    BY <1>1, <1>2, <1>3
  <2>2. /\ {HighAt(f, x), LowAt(f, x)} \subseteq Diagrams(D, a)
        /\ {HighAt(g, x), LowAt(g, x)} \subseteq Diagrams(D, b)
    BY <1>6, <1>7
  <2> HIDE DEF a, b
  <2> QED BY <2>1, <2>2
<1>9. n - 1 \in Nat
  BY <1>8
<1>10. Diagrams(D, a) \subseteq DiagramsOver(o) /\ Diagrams(D, b) \subseteq DiagramsOver(o)
  BY <1>2, DiagramsGrow
<1>11. HighPair(o, f, g) = <<HighAt(f, x), HighAt(g, x)>> /\ LowPair(o, f, g) = <<LowAt(f, x), LowAt(g, x)>>
  BY DEF HighPair, LowPair, x
<1>12. HighPair(o, f, g) \in PairsUpTo(o, n - 1) /\ LowPair(o, f, g) \in PairsUpTo(o, n - 1)
  BY <1>8, <1>10, <1>11 DEF PairsUpTo, N, D
<1> QED
  BY <1>9, <1>12 DEF f, g

\* One step of Apply, with what it has for the pairs of branches.
ApplyStep(o, type, apply, pair) ==
  IF IsSettled(pair[1], pair[2]) THEN Settled(type, pair[1], pair[2])
  ELSE Unique(FirstIn(o, pair[1], pair[2]), apply[HighPair(o, pair[1], pair[2])],
              apply[LowPair(o, pair[1], pair[2])])

LEMMA ApplyIsDefined ==
  ASSUME NEW o, Cardinality(DOMAIN o) \in Nat, NEW type, NEW n \in Nat
  PROVE  \E apply : apply = [pair \in PairsUpTo(o, n) |-> ApplyStep(o, type, apply, pair)]
<1> DEFINE Solves(apply, k) == apply = [pair \in PairsUpTo(o, k) |-> ApplyStep(o, type, apply, pair)]
           Unsolved == {k \in Nat : ~ \E apply : Solves(apply, k)}
<1>1. ASSUME Unsolved # {} PROVE FALSE
  <2>1. PICK k \in Unsolved : \A l \in Unsolved : k <= l
    BY <1>1, LeastNumber
  <2>2. PICK below : k > 0 => Solves(below, k - 1)
    <3>1. CASE k > 0
      <4>1. k - 1 \in Nat /\ ~(k <= k - 1)
        BY <3>1
      <4> QED BY <2>1, <4>1
    <3> QED BY <3>1
  <2> DEFINE h == [pair \in PairsUpTo(o, k) |-> ApplyStep(o, type, below, pair)]
  <2>3. ASSUME NEW pair \in PairsUpTo(o, k), ~IsSettled(pair[1], pair[2])
        PROVE  /\ h[HighPair(o, pair[1], pair[2])] = below[HighPair(o, pair[1], pair[2])]
               /\ h[LowPair(o, pair[1], pair[2])] = below[LowPair(o, pair[1], pair[2])]
    <3>1. /\ k - 1 \in Nat /\ k > 0
          /\ HighPair(o, pair[1], pair[2]) \in PairsUpTo(o, k - 1)
          /\ LowPair(o, pair[1], pair[2]) \in PairsUpTo(o, k - 1)
      BY <2>3, PairsGoDown
    <3>2. PairsUpTo(o, k - 1) \subseteq PairsUpTo(o, k)
      <4> SUFFICES ASSUME NEW e \in PairsUpTo(o, k - 1) PROVE e \in PairsUpTo(o, k)
        OBVIOUS
      <4>1. PICK i, j \in 0 .. Cardinality(DOMAIN o) :
              i + j <= k - 1 /\ e[1] \in Diagrams(Everywhere(o), i) /\ e[2] \in Diagrams(Everywhere(o), j)
        BY DEF PairsUpTo
      <4>2. i + j <= k
        BY <4>1
      <4> QED BY <4>1, <4>2 DEF PairsUpTo
    <3>3. \A e \in PairsUpTo(o, k - 1) : below[e] = ApplyStep(o, type, below, e)
      BY <2>2, <3>1
    <3>4. \A e \in PairsUpTo(o, k) : h[e] = ApplyStep(o, type, below, e)
      OBVIOUS
    <3> QED BY <3>1, <3>2, <3>3, <3>4
  <2>4. \A pair \in PairsUpTo(o, k) : ApplyStep(o, type, h, pair) = ApplyStep(o, type, below, pair)
    <3> HIDE DEF h
    <3> QED BY <2>3 DEF ApplyStep
  <2>5. Solves(h, k)
    BY <2>4
  <2> HIDE DEF h
  <2> QED BY <2>5
<1> QED
  BY <1>1

LEMMA ApplyEquation ==
  ASSUME NEW o, Cardinality(DOMAIN o) \in Nat, NEW type,
         NEW f \in DiagramsOver(o), NEW g \in DiagramsOver(o)
  PROVE  Apply(o, type, f, g) =
           IF IsSettled(f, g) THEN Settled(type, f, g)
           ELSE LET x == FirstIn(o, f, g)
                IN  Unique(x, Apply(o, type, HighAt(f, x), HighAt(g, x)),
                              Apply(o, type, LowAt(f, x), LowAt(g, x)))
<1> DEFINE N == Cardinality(DOMAIN o)
           All == DiagramsOver(o) \X DiagramsOver(o)
           apply == CHOOSE apply : apply = [pair \in All |-> ApplyStep(o, type, apply, pair)]
<1>1. PairsUpTo(o, N + N) = All
  <2>1. DiagramsOver(o) = Diagrams(Everywhere(o), N) /\ N \in 0 .. N /\ N + N <= N + N
    BY OverIsLayer
  <2> QED BY <2>1 DEF PairsUpTo
<1>2. apply = [pair \in All |-> ApplyStep(o, type, apply, pair)]
  <2>1. N + N \in Nat
    OBVIOUS
  <2>2. \E h : h = [pair \in PairsUpTo(o, N + N) |-> ApplyStep(o, type, h, pair)]
    BY <2>1, ApplyIsDefined
  <2>3. \E h : h = [pair \in All |-> ApplyStep(o, type, h, pair)]
    BY <1>1, <2>2
  <2> HIDE DEF All
  <2> QED BY <2>3
<1>3. ASSUME NEW h, NEW k PROVE Apply(o, type, h, k) = apply[<<h, k>>]
  BY DEF Apply, ApplyStep
<1> HIDE DEF apply
<1>4. apply[<<f, g>>] = ApplyStep(o, type, apply, <<f, g>>)
  BY <1>2
<1> QED
  BY <1>3, <1>4 DEF ApplyStep, HighPair, LowPair

-----------------------------------------------------------------------------
(* Values *)

\* One step of Evaluate, with what it has for the branches.
EvaluateStep(value, true, g) ==
  IF g.vertex = One THEN ~g.complement
  ELSE IF g.vertex.index \in true THEN value[HighOf(g)] ELSE value[LowOf(g)]

LEMMA EvaluateIsDefined ==
  ASSUME NEW o, Cardinality(DOMAIN o) \in Nat, NEW true, NEW n \in 0 .. Cardinality(DOMAIN o)
  PROVE  \E value : value = [g \in Diagrams(Everywhere(o), n) |-> EvaluateStep(value, true, g)]
<1> DEFINE N == Cardinality(DOMAIN o)
           D == Everywhere(o)
           Solves(value, k) == value = [g \in Diagrams(D, k) |-> EvaluateStep(value, true, g)]
           Unsolved == {k \in 0 .. N : ~ \E value : Solves(value, k)}
<1>0. Len(D) = N
  BY OverIsLayer
<1>1. ASSUME Unsolved # {} PROVE FALSE
  <2>0. Unsolved \in SUBSET Nat
    OBVIOUS
  <2>1. PICK k \in Unsolved : \A l \in Unsolved : k <= l
    BY <1>1, <2>0, LeastNumber
  <2>2. PICK below : k > 0 => Solves(below, k - 1)
    <3>1. CASE k > 0
      <4>1. k - 1 \in 0 .. N /\ ~(k <= k - 1)
        BY <3>1
      <4> QED BY <2>1, <4>1
    <3> QED BY <3>1
  <2> DEFINE h == [g \in Diagrams(D, k) |-> EvaluateStep(below, true, g)]
  <2>3. ASSUME NEW g \in Diagrams(D, k), g.vertex # One
        PROVE  h[HighOf(g)] = below[HighOf(g)] /\ h[LowOf(g)] = below[LowOf(g)]
    <3>1. PICK l \in 1 .. k : HighOf(g) \in Diagrams(D, l - 1) /\ LowOf(g) \in Diagrams(D, l - 1)
      <4> HIDE DEF D
      <4> QED BY <1>0, <2>3, BranchesAreBelow
    <3>2. k > 0 /\ l - 1 \in 0 .. N /\ k - 1 \in l - 1 .. N /\ k - 1 \in 0 .. N /\ k \in k - 1 .. N
      OBVIOUS
    <3>3. Diagrams(D, l - 1) \subseteq Diagrams(D, k - 1) /\ Diagrams(D, k - 1) \subseteq Diagrams(D, k)
      <4> HIDE DEF D
      <4> QED BY <1>0, <3>2, DiagramsGrow
    <3>4. \A e \in Diagrams(D, k - 1) : below[e] = EvaluateStep(below, true, e)
      BY <2>2, <3>2
    <3>5. \A e \in Diagrams(D, k) : h[e] = EvaluateStep(below, true, e)
      OBVIOUS
    <3> QED BY <3>1, <3>3, <3>4, <3>5
  <2>4. \A g \in Diagrams(D, k) : EvaluateStep(h, true, g) = EvaluateStep(below, true, g)
    <3> HIDE DEF h
    <3> QED BY <2>3 DEF EvaluateStep
  <2>5. Solves(h, k)
    BY <2>4
  <2> HIDE DEF h
  <2> QED BY <2>5
<1> QED
  BY <1>1

LEMMA EvaluateEquation ==
  ASSUME NEW o, Cardinality(DOMAIN o) \in Nat, NEW true, NEW f \in DiagramsOver(o)
  PROVE  Evaluate(o, f, true) =
           IF f.vertex = One THEN ~f.complement
           ELSE IF f.vertex.index \in true THEN Evaluate(o, HighOf(f), true)
           ELSE Evaluate(o, LowOf(f), true)
<1> DEFINE N == Cardinality(DOMAIN o)
           value == CHOOSE value :
                      value = [g \in DiagramsOver(o) |-> EvaluateStep(value, true, g)]
<1>1. value = [g \in DiagramsOver(o) |-> EvaluateStep(value, true, g)]
  <2>1. N \in 0 .. N /\ DiagramsOver(o) = Diagrams(Everywhere(o), N)
    BY OverIsLayer
  <2>2. \E v : v = [g \in DiagramsOver(o) |-> EvaluateStep(v, true, g)]
    BY <2>1, EvaluateIsDefined
  <2> QED BY <2>2
<1>2. ASSUME NEW h PROVE Evaluate(o, h, true) = value[h]
  BY DEF Evaluate, EvaluateStep
<1> HIDE DEF value
<1>3. value[f] = EvaluateStep(value, true, f)
  BY <1>1
<1> QED
  BY <1>2, <1>3 DEF EvaluateStep

\* Orders that give variables different positions, from the first on.
IsOrder(o) ==
  /\ IsFiniteSet(DOMAIN o) /\ DOMAIN o \subseteq Nat \ {0}
  /\ \A x, y \in DOMAIN o :
       o[x] \in 1 .. Cardinality(DOMAIN o) /\ (o[x] = o[y] => x = y)

\* In an ordered diagram the last variables are in the first layers.
ByOrder(o) ==
  LET N == Cardinality(DOMAIN o)
  IN  [n \in 1 .. N |-> {x \in DOMAIN o : o[x] = N + 1 - n}]
Ordered(o, n) == Diagrams(ByOrder(o), n)

LEMMA LayersOfAnOrder ==
  ASSUME NEW o, IsOrder(o)
  PROVE  LET N == Cardinality(DOMAIN o)
         IN  /\ N \in Nat /\ Len(ByOrder(o)) = N
             /\ \A k \in 1 .. N : \A x : x \in ByOrder(o)[k] <=> x \in DOMAIN o /\ o[x] = N + 1 - k
<1>1. Cardinality(DOMAIN o) \in Nat
  BY FS_CardinalityType DEF IsOrder
<1> QED
  BY <1>1 DEF ByOrder

LEMMA OrderedIsOver ==
  ASSUME NEW o, IsOrder(o), NEW n \in 0 .. Cardinality(DOMAIN o)
  PROVE  Ordered(o, n) \subseteq DiagramsOver(o)
<1> DEFINE N == Cardinality(DOMAIN o)
           D == Everywhere(o)
           S == ByOrder(o)
           Bad == {k \in 0 .. N : ~(Layers(S)[k] \subseteq Layers(D)[k])}
<1>1. N \in Nat /\ Len(S) = N /\ Len(D) = N /\ DiagramsOver(o) = Diagrams(D, N)
  BY LayersOfAnOrder, OverIsLayer
<1>2. \A k \in 1 .. N : S[k] \subseteq D[k]
  BY LayersOfAnOrder, OverIsLayer
<1> HIDE DEF S, D
<1>3. Layers(S)[0] = {One} /\ Layers(D)[0] = {One}
  BY <1>1, LayersEquation
<1>4. ASSUME NEW k \in 1 .. N, Layers(S)[k - 1] \subseteq Layers(D)[k - 1]
      PROVE  Layers(S)[k] \subseteq Layers(D)[k]
  <2>1. /\ Layers(S)[k] = VerticesOn(S[k], Layers(S)[k - 1]) \cup Layers(S)[k - 1]
        /\ Layers(D)[k] = VerticesOn(D[k], Layers(D)[k - 1]) \cup Layers(D)[k - 1]
    BY <1>1, LayersEquation
  <2>2. VerticesOn(S[k], Layers(S)[k - 1]) \subseteq VerticesOn(D[k], Layers(D)[k - 1])
    <3>1. S[k] \subseteq D[k]
      BY <1>2
    <3> QED BY <1>4, <3>1 DEF VerticesOn
  <2> QED BY <1>4, <2>1, <2>2
<1>5. ASSUME Bad # {} PROVE FALSE
  <2>1. Bad \in SUBSET Nat
    BY <1>1
  <2>2. PICK k \in Bad : \A l \in Bad : k <= l
    BY <1>5, <2>1, LeastNumber
  <2>3. k \in 0 .. N /\ ~(Layers(S)[k] \subseteq Layers(D)[k]) /\ k # 0
    BY <1>3
  <2>4. k \in 1 .. N /\ k - 1 \in 0 .. N /\ ~(k <= k - 1)
    BY <1>1, <2>3
  <2>5. Layers(S)[k - 1] \subseteq Layers(D)[k - 1]
    BY <2>2, <2>4
  <2> QED BY <1>4, <2>3, <2>4, <2>5
<1>6. Layers(S)[n] \subseteq Layers(D)[n]
  BY <1>5
<1>7. Layers(D)[n] \subseteq Layers(D)[N]
  BY <1>1, LayersGrow
<1> QED
  BY <1>1, <1>6, <1>7 DEF Ordered, Diagrams, S

LEMMA OrderedGrow ==
  ASSUME NEW o, IsOrder(o), NEW i \in 0 .. Cardinality(DOMAIN o), NEW j \in i .. Cardinality(DOMAIN o)
  PROVE  Ordered(o, i) \subseteq Ordered(o, j)
BY LayersOfAnOrder, DiagramsGrow DEF Ordered

\* The branches of an ordered function are on the variables after its own.
LEMMA OrderedBranches ==
  ASSUME NEW o, IsOrder(o), NEW n \in 0 .. Cardinality(DOMAIN o), NEW f \in Ordered(o, n), f.vertex # One
  PROVE  /\ f.vertex.index \in DOMAIN o
         /\ LET k == Cardinality(DOMAIN o) + 1 - o[f.vertex.index]
            IN  /\ k \in 1 .. n /\ f \in Ordered(o, k)
                /\ HighOf(f) \in Ordered(o, k - 1) /\ LowOf(f) \in Ordered(o, k - 1)
<1> DEFINE N == Cardinality(DOMAIN o)
           S == ByOrder(o)
<1>1. /\ N \in Nat /\ Len(S) = N
      /\ \A k \in 1 .. N : \A x : x \in S[k] <=> x \in DOMAIN o /\ o[x] = N + 1 - k
  BY LayersOfAnOrder
<1>2. PICK k \in 1 .. n : /\ f.vertex.index \in S[k] /\ f \in Ordered(o, k)
                          /\ HighOf(f) \in Ordered(o, k - 1) /\ LowOf(f) \in Ordered(o, k - 1)
  BY <1>1, BranchesAreBelow DEF Ordered
<1>3. f.vertex.index \in DOMAIN o /\ o[f.vertex.index] = N + 1 - k
  BY <1>1, <1>2
<1>4. k = N + 1 - o[f.vertex.index]
  BY <1>1, <1>3
<1> QED
  BY <1>2, <1>3, <1>4

LEMMA ValueIsBoolean ==
  ASSUME NEW o, IsOrder(o), NEW true, NEW n \in 0 .. Cardinality(DOMAIN o), NEW f \in Ordered(o, n)
  PROVE  Evaluate(o, f, true) \in BOOLEAN
<1> DEFINE N == Cardinality(DOMAIN o)
           Bad == {k \in 0 .. N : \E g \in Ordered(o, k) : Evaluate(o, g, true) \notin BOOLEAN}
<1>1. N \in Nat
  BY LayersOfAnOrder
<1>2. ASSUME Bad # {} PROVE FALSE
  <2>1. Bad \in SUBSET Nat
    OBVIOUS
  <2>2. PICK k \in Bad : \A l \in Bad : k <= l
    BY <1>2, <2>1, LeastNumber
  <2>3. k \in 0 .. N
    OBVIOUS
  <2>4. PICK g \in Ordered(o, k) : Evaluate(o, g, true) \notin BOOLEAN
    OBVIOUS
  <2>5. g \in DiagramsOver(o)
    BY <2>3, <2>4, OrderedIsOver
  <2>6. g.vertex # One
    BY <1>1, <2>4, <2>5, EvaluateEquation
  <2>7. PICK l \in 1 .. k : HighOf(g) \in Ordered(o, l - 1) /\ LowOf(g) \in Ordered(o, l - 1)
    BY <2>3, <2>6, OrderedBranches
  <2>8. l - 1 \in 0 .. N /\ ~(k <= l - 1)
    BY <1>1, <2>3
  <2>9. l - 1 \notin Bad
    BY <2>2, <2>8
  <2>10. Evaluate(o, HighOf(g), true) \in BOOLEAN /\ Evaluate(o, LowOf(g), true) \in BOOLEAN
    BY <2>7, <2>8, <2>9
  <2> QED
    BY <1>1, <2>4, <2>5, <2>6, <2>10, EvaluateEquation
<1> QED
  BY <1>2

LEMMA FlipOfDiagram ==
  ASSUME NEW indices, NEW n, NEW f \in Diagrams(indices, n), NEW c \in BOOLEAN
  PROVE  /\ Flip(f, c) \in Diagrams(indices, n)
         /\ Flip(f, c) = Fun(f.complement # c, f.vertex)
         /\ Flip(f, c).vertex = f.vertex /\ Flip(f, c).complement = (f.complement # c)
<1>1. f = Fun(f.complement, f.vertex) /\ f.complement \in BOOLEAN /\ f.vertex \in Layers(indices)[n]
  BY DiagramRecord
<1>2. Flip(f, c) = Fun(f.complement # c, f.vertex)
  BY <1>1 DEF Flip, Fun
<1>3. (f.complement # c) \in BOOLEAN
  OBVIOUS
<1> QED
  BY <1>1, <1>2, <1>3 DEF Fun, Diagrams

LEMMA FlipOfValue ==
  ASSUME NEW o, IsOrder(o), NEW true, NEW n \in 0 .. Cardinality(DOMAIN o), NEW f \in Ordered(o, n),
         NEW c \in BOOLEAN
  PROVE  Evaluate(o, Flip(f, c), true) = (c # Evaluate(o, f, true))
<1> DEFINE N == Cardinality(DOMAIN o)
           Right(g) == Evaluate(o, Flip(g, c), true) = (c # Evaluate(o, g, true))
           Bad == {k \in 0 .. N : \E g \in Ordered(o, k) : ~Right(g)}
<1>1. N \in Nat
  BY LayersOfAnOrder
<1>2. ASSUME Bad # {} PROVE FALSE
  <2>1. Bad \in SUBSET Nat
    OBVIOUS
  <2>2. PICK k \in Bad : \A l \in Bad : k <= l
    BY <1>2, <2>1, LeastNumber
  <2>3. k \in 0 .. N
    OBVIOUS
  <2>4. PICK g \in Ordered(o, k) : ~Right(g)
    OBVIOUS
  <2>5. g \in DiagramsOver(o) /\ Flip(g, c) \in DiagramsOver(o)
    <3>1. Flip(g, c) \in Ordered(o, k)
      BY FlipOfDiagram DEF Ordered
    <3> QED BY <2>3, <3>1, OrderedIsOver
  <2>6. /\ Flip(g, c).vertex = g.vertex /\ Flip(g, c).complement = (g.complement # c)
        /\ g.complement \in BOOLEAN
    BY FlipOfDiagram, DiagramRecord DEF Ordered
  <2>7. /\ Evaluate(o, g, true) =
             IF g.vertex = One THEN ~g.complement
             ELSE IF g.vertex.index \in true THEN Evaluate(o, HighOf(g), true)
             ELSE Evaluate(o, LowOf(g), true)
        /\ Evaluate(o, Flip(g, c), true) =
             IF g.vertex = One THEN ~(g.complement # c)
             ELSE IF g.vertex.index \in true THEN Evaluate(o, HighOf(Flip(g, c)), true)
             ELSE Evaluate(o, LowOf(Flip(g, c)), true)
    <3> DEFINE h == Flip(g, c)
    <3>1. h.vertex = g.vertex /\ h.complement = (g.complement # c) /\ h \in DiagramsOver(o)
      BY <2>5, <2>6
    <3> HIDE DEF h
    <3>2. Evaluate(o, h, true) =
             IF h.vertex = One THEN ~h.complement
             ELSE IF h.vertex.index \in true THEN Evaluate(o, HighOf(h), true)
             ELSE Evaluate(o, LowOf(h), true)
      BY <1>1, <3>1, EvaluateEquation
    <3>3. Evaluate(o, h, true) =
             IF g.vertex = One THEN ~(g.complement # c)
             ELSE IF g.vertex.index \in true THEN Evaluate(o, HighOf(h), true)
             ELSE Evaluate(o, LowOf(h), true)
      BY <3>1, <3>2
    <3>4. Evaluate(o, g, true) =
             IF g.vertex = One THEN ~g.complement
             ELSE IF g.vertex.index \in true THEN Evaluate(o, HighOf(g), true)
             ELSE Evaluate(o, LowOf(g), true)
      BY <1>1, <2>5, EvaluateEquation
    <3> QED BY <3>3, <3>4 DEF h
  <2>8. g.vertex # One
    <3>1. ASSUME g.vertex = One PROVE Right(g)
      <4>1. Evaluate(o, g, true) = ~g.complement /\ Evaluate(o, Flip(g, c), true) = ~(g.complement # c)
        BY <2>7, <3>1
      <4>2. ~(g.complement # c) = (c # ~g.complement)
        BY <2>6
      <4> QED BY <4>1, <4>2
    <3> HIDE DEF Right
    <3> QED BY <2>4, <3>1
  <2>9. /\ f = f /\ g.vertex.complement_edge \in BOOLEAN
        /\ \E l \in 1 .. k : HighOf(g) \in Ordered(o, l - 1) /\ LowOf(g) \in Ordered(o, l - 1)
    <3>1. Len(ByOrder(o)) = N
      BY LayersOfAnOrder
    <3> QED BY <1>1, <2>3, <2>8, <3>1, BranchesAreBelow DEF Ordered
  <2>10. PICK l \in 1 .. k : HighOf(g) \in Ordered(o, l - 1) /\ LowOf(g) \in Ordered(o, l - 1)
    BY <2>9
  <2>11. l - 1 \in 0 .. N /\ ~(k <= l - 1)
    BY <1>1, <2>3
  <2>12. l - 1 \notin Bad
    BY <2>2, <2>11
  <2>13. Right(HighOf(g)) /\ Right(LowOf(g))
    BY <2>10, <2>11, <2>12
  <2>14. HighOf(Flip(g, c)) = Flip(HighOf(g), c)
    BY <2>6 DEF HighOf, Flip, Fun
  <2>15. LowOf(Flip(g, c)) = Flip(LowOf(g), c)
    <3>1. LowOf(Flip(g, c)) = Fun((g.complement # c) # g.vertex.complement_edge, g.vertex.low)
      BY <2>6 DEF LowOf
    <3>2. Flip(LowOf(g), c) = Fun((g.complement # g.vertex.complement_edge) # c, g.vertex.low)
      BY DEF LowOf, Fun, Flip
    <3>3. ((g.complement # c) # g.vertex.complement_edge) = ((g.complement # g.vertex.complement_edge) # c)
      BY <2>6, <2>9
    <3> QED BY <3>1, <3>2, <3>3
  <2>16. Right(g)
    BY <2>7, <2>8, <2>13, <2>14, <2>15
  <2> QED
    BY <2>4, <2>16
<1>3. ~(\E g \in Ordered(o, n) : ~Right(g))
  BY <1>2
<1> QED
  BY <1>3

\* A new vertex has the values of its branches.
LEMMA ValueOfUnique ==
  ASSUME NEW o, IsOrder(o), NEW true, NEW x \in DOMAIN o,
         NEW high \in Ordered(o, Cardinality(DOMAIN o) - o[x]),
         NEW low \in Ordered(o, Cardinality(DOMAIN o) - o[x])
  PROVE  /\ Unique(x, high, low) \in Ordered(o, Cardinality(DOMAIN o) + 1 - o[x])
         /\ Evaluate(o, Unique(x, high, low), true) =
              IF x \in true THEN Evaluate(o, high, true) ELSE Evaluate(o, low, true)
<1> DEFINE N == Cardinality(DOMAIN o)
           k == N + 1 - o[x]
           S == ByOrder(o)
           f == Unique(x, high, low)
<1>1. /\ N \in Nat /\ k \in 1 .. N /\ k - 1 \in 0 .. N /\ k \in k - 1 .. N /\ N - o[x] = k - 1
      /\ k \in 0 .. N /\ x # 0
  <2>1. o[x] \in 1 .. N /\ N \in Nat /\ x \in Nat \ {0}
    BY LayersOfAnOrder DEF IsOrder
  <2> QED BY <2>1
<1>2. Len(S) = N /\ x \in S[k]
  <2>1. o[x] \in 1 .. N /\ N + 1 - k = o[x]
    BY <1>1 DEF IsOrder
  <2> QED BY <1>1, <2>1, LayersOfAnOrder
<1>3. high \in Ordered(o, k - 1) /\ low \in Ordered(o, k - 1)
  BY <1>1
<1> HIDE DEF N, k, S
<1>4. CASE high = low
  <2>1. f = high
    BY <1>4 DEF Unique
  <2>2. Ordered(o, k - 1) \subseteq Ordered(o, k)
    BY <1>1, OrderedGrow DEF N
  <2> QED BY <1>3, <1>4, <2>1, <2>2 DEF N, k
<1>5. CASE high # low
  <2> DEFINE edge == (high.complement # low.complement)
             v == Ite(x, high.vertex, low.vertex, edge)
  <2>1. f = Fun(high.complement, v)
    BY <1>5 DEF Unique
  <2>2. /\ high = Fun(high.complement, high.vertex) /\ high.complement \in BOOLEAN
        /\ high.vertex \in Layers(S)[k - 1]
        /\ low = Fun(low.complement, low.vertex) /\ low.complement \in BOOLEAN
        /\ low.vertex \in Layers(S)[k - 1]
    BY <1>3, DiagramRecord DEF Ordered, S
  <2>3. edge \in BOOLEAN
    OBVIOUS
  <2>4. /\ v.index = x /\ v.high = high.vertex /\ v.low = low.vertex /\ v.complement_edge = edge
        /\ v \in VerticesOn(S[k], Layers(S)[k - 1])
    <3> HIDE DEF edge
    <3> QED BY <1>2, <2>2, <2>3 DEF Ite, VerticesOn
  <2>5. v # One
    <3> HIDE DEF v
    <3> QED BY <1>1, <2>4 DEF One
  <2>6. v \in Layers(S)[k]
    <3> HIDE DEF v
    <3>1. k \in 1 .. Len(S) /\ Len(S) \in Nat
      BY <1>1, <1>2
    <3>2. Layers(S)[k] = VerticesOn(S[k], Layers(S)[k - 1]) \cup Layers(S)[k - 1]
      BY <3>1, LayersEquation
    <3> QED BY <2>4, <3>2
  <2> HIDE DEF v
  <2>7. f \in Ordered(o, k) /\ f.vertex = v /\ f.complement = high.complement
    BY <2>1, <2>2, <2>6 DEF Ordered, Diagrams, Fun, S
  <2>8. HighOf(f) = high
    BY <2>2, <2>4, <2>7 DEF HighOf
  <2>9. LowOf(f) = low
    <3>1. (high.complement # edge) = low.complement
      BY <2>2
    <3> HIDE DEF edge
    <3> QED BY <2>2, <2>4, <2>7, <3>1 DEF LowOf
  <2>10. f \in DiagramsOver(o)
    BY <1>1, <2>7, OrderedIsOver DEF N
  <2>11. Evaluate(o, f, true) =
           IF x \in true THEN Evaluate(o, high, true) ELSE Evaluate(o, low, true)
    <3> HIDE DEF f
    <3> QED BY <1>1, <2>4, <2>5, <2>7, <2>8, <2>9, <2>10, EvaluateEquation DEF N
  <2> QED BY <2>7, <2>11 DEF N, k
<1> QED
  BY <1>4, <1>5

LEMMA ValueOfConstant ==
  ASSUME NEW o, IsOrder(o), NEW true, NEW c \in BOOLEAN, NEW n \in 0 .. Cardinality(DOMAIN o)
  PROVE  Fun(c, One) \in Ordered(o, n) /\ Evaluate(o, Fun(c, One), true) = ~c
<1>1. Cardinality(DOMAIN o) \in Nat /\ Len(ByOrder(o)) = Cardinality(DOMAIN o)
  BY LayersOfAnOrder
<1>2. One \in Layers(ByOrder(o))[n]
  <2>1. Layers(ByOrder(o))[0] = {One}
    BY <1>1, LayersEquation
  <2>2. Layers(ByOrder(o))[0] \subseteq Layers(ByOrder(o))[n]
    <3>1. 0 \in 0 .. Len(ByOrder(o)) /\ n \in 0 .. Len(ByOrder(o))
      BY <1>1
    <3> QED BY <1>1, <3>1, LayersGrow
  <2> QED BY <2>1, <2>2
<1>3. Fun(c, One) \in Ordered(o, n)
  BY <1>2 DEF Ordered, Diagrams, Fun
<1>4. Fun(c, One) \in DiagramsOver(o) /\ Fun(c, One).vertex = One /\ Fun(c, One).complement = c
  BY <1>3, OrderedIsOver DEF Fun
<1> HIDE DEF One
<1> QED
  BY <1>1, <1>3, <1>4, EvaluateEquation

\* What an operation makes of two values.
Joined(type, e, q) == IF type = "and" THEN e /\ q ELSE e \/ q

\* Where no recursion is needed the result has the values of the operation.
LEMMA SettledIsRight ==
  ASSUME NEW o, IsOrder(o), NEW type \in {"and", "or"}, NEW n \in 0 .. Cardinality(DOMAIN o),
         NEW f \in Ordered(o, n), NEW g \in Ordered(o, n), IsSettled(f, g)
  PROVE  /\ Settled(type, f, g) \in Ordered(o, n)
         /\ \A true : Evaluate(o, Settled(type, f, g), true) =
                        Joined(type, Evaluate(o, f, true), Evaluate(o, g, true))
<1>1. /\ f = Fun(f.complement, f.vertex) /\ f.complement \in BOOLEAN
      /\ g = Fun(g.complement, g.vertex) /\ g.complement \in BOOLEAN
  BY DiagramRecord DEF Ordered
<1>2. (type = "and") \in BOOLEAN /\ Absorbing(type) \in Ordered(o, n)
  BY ValueOfConstant DEF Absorbing
<1>3. Settled(type, f, g) \in Ordered(o, n)
  BY <1>2 DEF Settled
<1>4. ASSUME NEW true
      PROVE  Evaluate(o, Settled(type, f, g), true) =
               Joined(type, Evaluate(o, f, true), Evaluate(o, g, true))
  <2> DEFINE F == Evaluate(o, f, true)
             G == Evaluate(o, g, true)
             A == Evaluate(o, Absorbing(type), true)
  <2>1. F \in BOOLEAN /\ G \in BOOLEAN
    BY ValueIsBoolean
  <2>2. A = ~(type = "and")
    BY <1>2, ValueOfConstant DEF Absorbing
  <2>3. CASE f.vertex = One
    <3>1. F = ~f.complement
      BY <1>1, <2>3, ValueOfConstant
    <3>2. CASE f = Absorbing(type)
      <4>1. F = ~(type = "and") /\ Settled(type, f, g) = f
        BY <2>2, <2>3, <3>2 DEF Settled
      <4> QED BY <2>1, <4>1 DEF Joined
    <3>3. CASE f # Absorbing(type)
      <4>1. f.complement # (type = "and")
        BY <1>1, <2>3, <3>3 DEF Absorbing
      <4>2. F = (type = "and") /\ Settled(type, f, g) = g
        BY <1>1, <2>3, <3>1, <3>3, <4>1 DEF Settled
      <4> QED BY <2>1, <4>2 DEF Joined
    <3> QED BY <3>2, <3>3
  <2>4. CASE f.vertex # One /\ g.vertex = One
    <3>1. G = ~g.complement
      BY <1>1, <2>4, ValueOfConstant
    <3>2. CASE g = Absorbing(type)
      <4>1. G = ~(type = "and") /\ Settled(type, f, g) = g
        BY <2>2, <2>4, <3>2 DEF Settled
      <4> QED BY <2>1, <4>1 DEF Joined
    <3>3. CASE g # Absorbing(type)
      <4>1. g.complement # (type = "and")
        BY <1>1, <2>4, <3>3 DEF Absorbing
      <4>2. G = (type = "and") /\ Settled(type, f, g) = f
        BY <1>1, <2>4, <3>1, <3>3, <4>1 DEF Settled
      <4> QED BY <2>1, <4>2 DEF Joined
    <3> QED BY <3>2, <3>3
  <2>5. CASE f.vertex # One /\ g.vertex # One /\ f = g
    <3>1. Settled(type, f, g) = f /\ F = G
      BY <2>5 DEF Settled
    <3> QED BY <2>1, <3>1 DEF Joined
  <2>6. CASE f.vertex # One /\ g.vertex # One /\ f # g
    <3>1. f.vertex = g.vertex
      BY <2>6 DEF IsSettled
    <3>2. PICK c \in BOOLEAN : c = TRUE /\ g.complement = (f.complement # c)
      BY <1>1, <2>6, <3>1
    <3>3. g = Flip(f, c)
      <4>1. Flip(f, c) = Fun(f.complement # c, f.vertex)
        BY FlipOfDiagram DEF Ordered
      <4> QED BY <1>1, <3>1, <3>2, <4>1
    <3>4. G = (c # F)
      BY <3>3, FlipOfValue
    <3>5. Settled(type, f, g) = Absorbing(type)
      BY <2>6 DEF Settled
    <3> QED BY <2>1, <2>2, <3>2, <3>4, <3>5 DEF Joined
  <2> QED BY <2>3, <2>4, <2>5, <2>6
<1> QED
  BY <1>3, <1>4

\* The branches at the first of two variables.
LEMMA OrderedBranchesAt ==
  ASSUME NEW o, IsOrder(o), NEW n \in 0 .. Cardinality(DOMAIN o),
         NEW f \in Ordered(o, n), f.vertex # One,
         NEW x \in DOMAIN o, o[x] <= o[f.vertex.index]
  PROVE  /\ HighAt(f, x) \in Ordered(o, Cardinality(DOMAIN o) - o[x])
         /\ LowAt(f, x) \in Ordered(o, Cardinality(DOMAIN o) - o[x])
         /\ \A true : Evaluate(o, f, true) =
              IF x \in true THEN Evaluate(o, HighAt(f, x), true) ELSE Evaluate(o, LowAt(f, x), true)
<1> DEFINE N == Cardinality(DOMAIN o)
           y == f.vertex.index
           k == N + 1 - o[y]
<1>1. /\ y \in DOMAIN o /\ k \in 1 .. n /\ f \in Ordered(o, k)
      /\ HighOf(f) \in Ordered(o, k - 1) /\ LowOf(f) \in Ordered(o, k - 1)
  BY OrderedBranches
<1>2. /\ o[x] \in 1 .. N /\ o[y] \in 1 .. N /\ N \in Nat /\ (o[x] = o[y] => x = y)
      /\ f \in DiagramsOver(o)
  BY <1>1, LayersOfAnOrder, OrderedIsOver DEF IsOrder
<1>3. \A true : Evaluate(o, f, true) =
         IF y \in true THEN Evaluate(o, HighOf(f), true) ELSE Evaluate(o, LowOf(f), true)
  BY <1>2, EvaluateEquation
<1>4. CASE x = y
  <2>1. HighAt(f, x) = HighOf(f) /\ LowAt(f, x) = LowOf(f) /\ k - 1 = N - o[x]
    BY <1>2, <1>4 DEF HighAt, LowAt
  <2> QED BY <1>1, <1>3, <1>4, <2>1
<1>5. CASE x # y
  <2>1. HighAt(f, x) = f /\ LowAt(f, x) = f
    BY <1>5 DEF HighAt, LowAt
  <2>2. k \in 0 .. N /\ N - o[x] \in k .. N
    BY <1>2, <1>5
  <2>3. f \in Ordered(o, N - o[x])
    BY <1>1, <2>2, OrderedGrow
  <2> QED BY <2>1, <2>3
<1> QED
  BY <1>4, <1>5

\* Apply on ordered functions is ordered, and has the values of the operation.
LEMMA ApplyIsRight ==
  ASSUME NEW o, IsOrder(o), NEW type \in {"and", "or"}, NEW n \in 0 .. Cardinality(DOMAIN o),
         NEW f \in Ordered(o, n), NEW g \in Ordered(o, n)
  PROVE  /\ Apply(o, type, f, g) \in Ordered(o, n)
         /\ \A true : Evaluate(o, Apply(o, type, f, g), true) =
                        Joined(type, Evaluate(o, f, true), Evaluate(o, g, true))
<1> DEFINE N == Cardinality(DOMAIN o)
           Right(h, k, j) ==
             /\ Apply(o, type, h, k) \in Ordered(o, j)
             /\ \A true : Evaluate(o, Apply(o, type, h, k), true) =
                            Joined(type, Evaluate(o, h, true), Evaluate(o, k, true))
           Bad == {j \in 0 .. N : \E h, k \in Ordered(o, j) : ~Right(h, k, j)}
<1>1. N \in Nat
  BY LayersOfAnOrder
<1>2. ASSUME Bad # {} PROVE FALSE
  <2>1. Bad \in SUBSET Nat
    OBVIOUS
  <2>2. PICK j \in Bad : \A l \in Bad : j <= l
    BY <1>2, <2>1, LeastNumber
  <2>3. j \in 0 .. N
    OBVIOUS
  <2>4. PICK h \in Ordered(o, j), k \in Ordered(o, j) : ~Right(h, k, j)
    OBVIOUS
  <2>5. h \in DiagramsOver(o) /\ k \in DiagramsOver(o)
    BY <2>3, <2>4, OrderedIsOver
  <2>6. Apply(o, type, h, k) =
           IF IsSettled(h, k) THEN Settled(type, h, k)
           ELSE LET x == FirstIn(o, h, k)
                IN  Unique(x, Apply(o, type, HighAt(h, x), HighAt(k, x)),
                              Apply(o, type, LowAt(h, x), LowAt(k, x)))
    BY <1>1, <2>5, ApplyEquation
  <2>7. ~IsSettled(h, k)
    <3>1. ASSUME IsSettled(h, k) PROVE Right(h, k, j)
      BY <2>3, <2>4, <2>6, <3>1, SettledIsRight
    <3> HIDE DEF Right
    <3> QED BY <2>4, <3>1
  <2>8. h.vertex # One /\ k.vertex # One
    BY <2>7 DEF IsSettled
  <2> DEFINE x == FirstIn(o, h, k)
             m == N + 1 - o[x]
             high == Apply(o, type, HighAt(h, x), HighAt(k, x))
             low == Apply(o, type, LowAt(h, x), LowAt(k, x))
  <2>9. /\ h.vertex.index \in DOMAIN o /\ k.vertex.index \in DOMAIN o
        /\ N + 1 - o[h.vertex.index] \in 1 .. j /\ N + 1 - o[k.vertex.index] \in 1 .. j
    BY <2>3, <2>8, OrderedBranches
  <2>10. /\ x \in DOMAIN o /\ o[x] <= o[h.vertex.index] /\ o[x] <= o[k.vertex.index]
         /\ m \in 1 .. j
    <3>1. o[h.vertex.index] \in 1 .. N /\ o[k.vertex.index] \in 1 .. N
      BY <2>9 DEF IsOrder
    <3> QED BY <1>1, <2>9, <3>1 DEF FirstIn
  <2>11. o[x] \in 1 .. N
    BY <2>10 DEF IsOrder
  <2> HIDE DEF x
  <2>12. N - o[x] = m - 1 /\ m - 1 \in 0 .. N /\ ~(j <= m - 1) /\ m \in 0 .. N /\ j \in m .. N
    BY <1>1, <2>3, <2>10, <2>11
  <2>13. /\ HighAt(h, x) \in Ordered(o, N - o[x]) /\ LowAt(h, x) \in Ordered(o, N - o[x])
         /\ HighAt(k, x) \in Ordered(o, N - o[x]) /\ LowAt(k, x) \in Ordered(o, N - o[x])
         /\ \A true : Evaluate(o, h, true) =
              IF x \in true THEN Evaluate(o, HighAt(h, x), true) ELSE Evaluate(o, LowAt(h, x), true)
         /\ \A true : Evaluate(o, k, true) =
              IF x \in true THEN Evaluate(o, HighAt(k, x), true) ELSE Evaluate(o, LowAt(k, x), true)
    BY <2>3, <2>8, <2>10, OrderedBranchesAt
  <2>14. N - o[x] \notin Bad /\ N - o[x] \in 0 .. N
    BY <2>2, <2>12
  <2>15. /\ Right(HighAt(h, x), HighAt(k, x), N - o[x])
         /\ Right(LowAt(h, x), LowAt(k, x), N - o[x])
    <3> HIDE DEF Right
    <3> QED BY <2>13, <2>14
  <2>16. /\ Apply(o, type, h, k) = Unique(x, high, low)
         /\ high \in Ordered(o, N - o[x]) /\ low \in Ordered(o, N - o[x])
    BY <2>6, <2>7, <2>15 DEF x
  <2> HIDE DEF high, low
  <2>17. /\ Apply(o, type, h, k) \in Ordered(o, m)
         /\ \A true : Evaluate(o, Apply(o, type, h, k), true) =
              IF x \in true THEN Evaluate(o, high, true) ELSE Evaluate(o, low, true)
    BY <2>10, <2>16, ValueOfUnique
  <2>18. Ordered(o, m) \subseteq Ordered(o, j)
    BY <2>12, OrderedGrow
  <2>19. \A true : Evaluate(o, Apply(o, type, h, k), true) =
                     Joined(type, Evaluate(o, h, true), Evaluate(o, k, true))
    <3> TAKE true
    <3>1. /\ Evaluate(o, high, true) =
               Joined(type, Evaluate(o, HighAt(h, x), true), Evaluate(o, HighAt(k, x), true))
          /\ Evaluate(o, low, true) =
               Joined(type, Evaluate(o, LowAt(h, x), true), Evaluate(o, LowAt(k, x), true))
      BY <2>15 DEF high, low
    <3>2. CASE x \in true
      <4>1. /\ Evaluate(o, h, true) = Evaluate(o, HighAt(h, x), true)
            /\ Evaluate(o, k, true) = Evaluate(o, HighAt(k, x), true)
            /\ Evaluate(o, Apply(o, type, h, k), true) = Evaluate(o, high, true)
        BY <2>13, <2>17, <3>2
      <4> QED BY <3>1, <4>1
    <3>3. CASE x \notin true
      <4>1. /\ Evaluate(o, h, true) = Evaluate(o, LowAt(h, x), true)
            /\ Evaluate(o, k, true) = Evaluate(o, LowAt(k, x), true)
            /\ Evaluate(o, Apply(o, type, h, k), true) = Evaluate(o, low, true)
        BY <2>13, <2>17, <3>3
      <4> QED BY <3>1, <4>1
    <3> QED BY <3>2, <3>3
  <2>20. Right(h, k, j)
    BY <2>17, <2>18, <2>19
  <2> HIDE DEF Right
  <2> QED BY <2>4, <2>20
<1>3. ~(\E h, k \in Ordered(o, n) : ~Right(h, k, n))
  BY <1>2
<1>4. Right(f, g, n)
  <2> HIDE DEF Right
  <2> QED BY <1>3
<1> QED
  BY <1>4

-----------------------------------------------------------------------------
(* The fold over a set of arguments *)

LEMMA VerticesAreFinite ==
  ASSUME NEW indices, NEW below, IsFiniteSet(indices), IsFiniteSet(below)
  PROVE  IsFiniteSet(VerticesOn(indices, below))
<1> DEFINE Fields == (indices \X below) \X (below \X BOOLEAN)
           F == [e \in Fields |-> Ite(e[1][1], e[1][2], e[2][1], e[2][2])]
<1>1. IsFiniteSet(BOOLEAN)
  <2>1. IsFiniteSet({TRUE})
    BY FS_Singleton
  <2>2. BOOLEAN = {TRUE} \cup {FALSE}
    OBVIOUS
  <2> QED BY <2>1, <2>2, FS_AddElement
<1>2. IsFiniteSet(Fields)
  <2>1. IsFiniteSet(indices \X below) /\ IsFiniteSet(below \X BOOLEAN)
    BY <1>1, FS_Product
  <2> QED BY <2>1, FS_Product
<1>3. F \in [Fields -> VerticesOn(indices, below)]
  BY DEF VerticesOn, Ite
<1>4. ASSUME NEW v \in VerticesOn(indices, below) PROVE \E e \in Fields : F[e] = v
  <2> DEFINE e == <<<<v.index, v.high>>, <<v.low, v.complement_edge>>>>
  <2>1. e \in Fields
    BY DEF VerticesOn
  <2>2. F[e] = Ite(v.index, v.high, v.low, v.complement_edge)
    BY <2>1
  <2>3. Ite(v.index, v.high, v.low, v.complement_edge) = v
    BY DEF VerticesOn, Ite
  <2> HIDE DEF e, F, Fields
  <2> QED BY <2>1, <2>2, <2>3
<1>5. F \in Surjection(Fields, VerticesOn(indices, below))
  <2> HIDE DEF F, Fields
  <2> QED BY <1>3, <1>4 DEF Surjection
<1> HIDE DEF F, Fields
<1> QED
  BY <1>2, <1>5, FS_Surjection

LEMMA OrderedAreFinite ==
  ASSUME NEW o, IsOrder(o), NEW n \in 0 .. Cardinality(DOMAIN o)
  PROVE  IsFiniteSet(Ordered(o, n))
<1> DEFINE N == Cardinality(DOMAIN o)
           S == ByOrder(o)
           Bad == {k \in 0 .. N : ~IsFiniteSet(Layers(S)[k])}
<1>1. N \in Nat /\ Len(S) = N
  BY LayersOfAnOrder
<1>2. \A k \in 1 .. N : IsFiniteSet(S[k])
  <2> SUFFICES ASSUME NEW k \in 1 .. N PROVE IsFiniteSet(S[k])
    OBVIOUS
  <2>1. S[k] \in SUBSET DOMAIN o /\ IsFiniteSet(DOMAIN o)
    BY LayersOfAnOrder DEF IsOrder
  <2> QED BY <2>1, FS_Subset
<1> HIDE DEF S
<1>3. ASSUME Bad # {} PROVE FALSE
  <2>1. Bad \in SUBSET Nat
    OBVIOUS
  <2>2. PICK k \in Bad : \A l \in Bad : k <= l
    BY <1>3, <2>1, LeastNumber
  <2>3. k \in 0 .. N /\ ~IsFiniteSet(Layers(S)[k])
    OBVIOUS
  <2>4. k # 0
    <3>1. Layers(S)[0] = {One}
      BY <1>1, LayersEquation
    <3> QED BY <2>3, <3>1, FS_Singleton
  <2>5. k \in 1 .. N /\ k - 1 \in 0 .. N /\ ~(k <= k - 1)
    BY <1>1, <2>3, <2>4
  <2>6. IsFiniteSet(Layers(S)[k - 1])
    BY <2>2, <2>5
  <2>7. IsFiniteSet(VerticesOn(S[k], Layers(S)[k - 1]))
    BY <1>2, <2>5, <2>6, VerticesAreFinite
  <2>8. Layers(S)[k] = VerticesOn(S[k], Layers(S)[k - 1]) \cup Layers(S)[k - 1]
    BY <1>1, <2>5, LayersEquation
  <2> QED BY <2>3, <2>6, <2>7, <2>8, FS_Union
<1>4. IsFiniteSet(Layers(S)[n])
  BY <1>3
<1> DEFINE Fields == BOOLEAN \X Layers(S)[n]
           F == [e \in Fields |-> Fun(e[1], e[2])]
<1>5. IsFiniteSet(Fields)
  <2>1. IsFiniteSet({TRUE})
    BY FS_Singleton
  <2>2. BOOLEAN = {TRUE} \cup {FALSE}
    OBVIOUS
  <2>3. IsFiniteSet(BOOLEAN)
    BY <2>1, <2>2, FS_AddElement
  <2> QED BY <1>4, <2>3, FS_Product
<1>6. F \in [Fields -> Ordered(o, n)]
  BY DEF Ordered, Diagrams, Fun, S
<1>7. ASSUME NEW f \in Ordered(o, n) PROVE \E e \in Fields : F[e] = f
  <2> DEFINE e == <<f.complement, f.vertex>>
  <2>1. e \in Fields /\ f = Fun(f.complement, f.vertex)
    BY DiagramRecord DEF Ordered, S
  <2>2. F[e] = Fun(f.complement, f.vertex)
    BY <2>1
  <2> HIDE DEF e, F, Fields
  <2> QED BY <2>1, <2>2
<1>8. F \in Surjection(Fields, Ordered(o, n))
  <2> HIDE DEF F, Fields
  <2> QED BY <1>6, <1>7 DEF Surjection
<1> HIDE DEF F, Fields
<1> QED
  BY <1>5, <1>8, FS_Surjection

Chosen(S) == CHOOSE f \in S : TRUE
UpTo(args, n) == {S \in (SUBSET args) \ {{}} : Cardinality(S) <= n}

FoldStep(o, type, fold, S) ==
  LET f == Chosen(S)
  IN  IF S = {f} THEN f ELSE Apply(o, type, f, fold[S \ {f}])

\* The fold over the sets of at most n arguments.
IsFold(o, type, args, n, fold) == fold = [S \in UpTo(args, n) |-> FoldStep(o, type, fold, S)]

LEMMA FoldIsDefined ==
  ASSUME NEW o, NEW type, NEW args, IsFiniteSet(args), NEW n \in Nat
  PROVE  \E fold : IsFold(o, type, args, n, fold)
<1> DEFINE Solves(fold, k) == fold = [S \in UpTo(args, k) |-> FoldStep(o, type, fold, S)]
           Unsolved == {k \in Nat : ~ \E fold : Solves(fold, k)}
<1>1. ASSUME Unsolved # {} PROVE FALSE
  <2>1. PICK k \in Unsolved : \A l \in Unsolved : k <= l
    BY <1>1, LeastNumber
  <2>2. PICK below : k > 0 => Solves(below, k - 1)
    <3>1. CASE k > 0
      <4>1. k - 1 \in Nat /\ ~(k <= k - 1)
        BY <3>1
      <4> QED BY <2>1, <4>1
    <3> QED BY <3>1
  <2> DEFINE h == [S \in UpTo(args, k) |-> FoldStep(o, type, below, S)]
  <2>3. ASSUME NEW S \in UpTo(args, k), S # {Chosen(S)}
        PROVE  h[S \ {Chosen(S)}] = below[S \ {Chosen(S)}]
    <3> DEFINE f == Chosen(S)
               T == S \ {f}
    <3>1. S \in SUBSET args /\ S # {} /\ Cardinality(S) <= k
      BY DEF UpTo
    <3>2. f \in S
      BY <3>1 DEF Chosen
    <3>3. IsFiniteSet(S) /\ Cardinality(S) \in Nat
      BY <3>1, FS_Subset, FS_CardinalityType
    <3>4. IsFiniteSet(T) /\ Cardinality(T) = Cardinality(S) - 1 /\ Cardinality(T) \in Nat
      BY <3>2, <3>3, FS_RemoveElement, FS_CardinalityType
    <3>5. T # {}
      BY <2>3, <3>2
    <3>6. k > 0 /\ T \in UpTo(args, k - 1) /\ T \in UpTo(args, k)
      <4>1. k > 0 /\ Cardinality(T) <= k - 1 /\ Cardinality(T) <= k
        BY <3>1, <3>3, <3>4
      <4> QED BY <3>1, <3>5, <4>1 DEF UpTo
    <3> HIDE DEF T, f
    <3>7. below[T] = FoldStep(o, type, below, T)
      BY <2>2, <3>6
    <3>8. h[T] = FoldStep(o, type, below, T)
      BY <3>6
    <3> QED BY <3>7, <3>8 DEF T, f
  <2>4. \A S \in UpTo(args, k) : FoldStep(o, type, h, S) = FoldStep(o, type, below, S)
    <3> HIDE DEF h
    <3> QED BY <2>3 DEF FoldStep
  <2>5. Solves(h, k)
    BY <2>4
  <2> HIDE DEF h
  <2> QED BY <2>5
<1> QED
  BY <1>1 DEF IsFold

\* What the fold of a gate makes of the values of its arguments.
AllOrSome(o, type, args, true) ==
  IF type = "and" THEN \A f \in args : Evaluate(o, f, true) ELSE \E f \in args : Evaluate(o, f, true)

\* The fold over ordered functions is ordered, and has the values of the operation.
LEMMA ApplyAllIsRight ==
  ASSUME NEW o, IsOrder(o), NEW type \in {"and", "or"}, NEW n \in 0 .. Cardinality(DOMAIN o),
         NEW args \in (SUBSET Ordered(o, n)) \ {{}}
  PROVE  /\ ApplyAll(o, type, args) \in Ordered(o, n)
         /\ \A true : Evaluate(o, ApplyAll(o, type, args), true) = AllOrSome(o, type, args, true)
<1> DEFINE All == (SUBSET args) \ {{}}
           fold == CHOOSE fold : fold = [S \in All |-> FoldStep(o, type, fold, S)]
           Joint(S, true) == IF type = "and" THEN \A f \in S : Evaluate(o, f, true)
                             ELSE \E f \in S : Evaluate(o, f, true)
           Right(S) == /\ fold[S] \in Ordered(o, n)
                       /\ \A true : Evaluate(o, fold[S], true) = Joint(S, true)
           Bad == {k \in Nat : \E S \in All : Cardinality(S) = k /\ ~Right(S)}
<1>1. IsFiniteSet(args) /\ Cardinality(args) \in Nat
  <2>1. IsFiniteSet(Ordered(o, n))
    BY OrderedAreFinite
  <2> QED BY <2>1, FS_Subset, FS_CardinalityType
<1>2. \A S \in All : IsFiniteSet(S) /\ Cardinality(S) \in Nat /\ Cardinality(S) <= Cardinality(args)
  BY <1>1, FS_Subset, FS_CardinalityType
<1>3. fold = [S \in All |-> FoldStep(o, type, fold, S)]
  <2>1. All = UpTo(args, Cardinality(args))
    BY <1>2 DEF UpTo
  <2>2. \E g : IsFold(o, type, args, Cardinality(args), g)
    BY <1>1, FoldIsDefined
  <2>3. \E g : g = [S \in All |-> FoldStep(o, type, g, S)]
    BY <2>1, <2>2 DEF IsFold
  <2> HIDE DEF All
  <2> QED BY <2>3
<1>4. ApplyAll(o, type, args) = fold[args] /\ args \in All
  BY DEF ApplyAll, FoldStep, Chosen
<1> HIDE DEF fold
<1>5. \A S \in All : fold[S] = FoldStep(o, type, fold, S)
  <2> HIDE DEF All
  <2> QED BY <1>3
<1>6. ASSUME Bad # {} PROVE FALSE
  <2>1. PICK k \in Bad : \A l \in Bad : k <= l
    BY <1>6, LeastNumber
  <2>2. PICK S \in All : Cardinality(S) = k /\ ~Right(S)
    OBVIOUS
  <2> DEFINE f == Chosen(S)
             T == S \ {f}
  <2>3. f \in S /\ f \in Ordered(o, n)
    BY <2>2 DEF Chosen
  <2>4. fold[S] = IF S = {f} THEN f ELSE Apply(o, type, f, fold[T])
    BY <1>5, <2>2 DEF FoldStep
  <2> HIDE DEF f
  <2>5. CASE S = {f}
    <3>1. \A true : Evaluate(o, f, true) = Joint({f}, true)
      <4> TAKE true
      <4>1. Evaluate(o, f, true) \in BOOLEAN
        BY <2>3, ValueIsBoolean
      <4> QED BY <4>1
    <3> HIDE DEF Joint
    <3>2. Right(S)
      BY <2>3, <2>4, <2>5, <3>1
    <3> QED BY <2>2, <3>2
  <2>6. CASE S # {f}
    <3>1. T # {} /\ T \in All /\ S = T \cup {f}
      BY <2>2, <2>3, <2>6
    <3>2. Cardinality(T) = k - 1 /\ Cardinality(T) \in Nat /\ k \in Nat
      BY <1>2, <2>2, <2>3, <3>1, FS_RemoveElement
    <3>3. ~(k <= k - 1) /\ k - 1 \in Nat
      BY <3>2
    <3>4. k - 1 \notin Bad
      BY <2>1, <3>3
    <3> HIDE DEF T, All
    <3>5. Right(T)
      <4> HIDE DEF Right
      <4> QED BY <3>1, <3>2, <3>3, <3>4
    <3>6. /\ Apply(o, type, f, fold[T]) \in Ordered(o, n)
          /\ \A true : Evaluate(o, Apply(o, type, f, fold[T]), true) =
               Joined(type, Evaluate(o, f, true), Evaluate(o, fold[T], true))
      <4> HIDE DEF Joint
      <4> QED BY <2>3, <3>5, ApplyIsRight
    <3>7. \A true : Joint(S, true) = Joined(type, Evaluate(o, f, true), Joint(T, true))
      <4> TAKE true
      <4>1. CASE type = "and"
        <5>1. (\A g \in S : Evaluate(o, g, true)) <=>
                 Evaluate(o, f, true) /\ \A g \in T : Evaluate(o, g, true)
          BY <3>1
        <5> QED BY <4>1, <5>1 DEF Joined
      <4>2. CASE type # "and"
        <5>1. (\E g \in S : Evaluate(o, g, true)) <=>
                 Evaluate(o, f, true) \/ \E g \in T : Evaluate(o, g, true)
          BY <3>1
        <5> QED BY <4>2, <5>1 DEF Joined
      <4> QED BY <4>1, <4>2
    <3>8. fold[S] = Apply(o, type, f, fold[T])
      BY <2>4, <2>6
    <3>9. Right(S)
      <4> HIDE DEF Joint
      <4> QED BY <3>5, <3>6, <3>7, <3>8
    <3> HIDE DEF Right
    <3> QED BY <2>2, <3>9
  <2> QED BY <2>5, <2>6
<1>7. Right(args)
  <2> HIDE DEF Right, All
  <2> QED BY <1>2, <1>4, <1>6
<1> QED
  BY <1>4, <1>7 DEF AllOrSome

\* A variable stands for itself.
LEMMA ValueOfLiteral ==
  ASSUME NEW o, IsOrder(o), NEW true, NEW x \in DOMAIN o
  PROVE  /\ Literal(x) \in Ordered(o, Cardinality(DOMAIN o))
         /\ Evaluate(o, Literal(x), true) = (x \in true)
<1> DEFINE N == Cardinality(DOMAIN o)
           high == Fun(FALSE, One)
           low == Fun(TRUE, One)
<1>1. o[x] \in 1 .. N /\ N \in Nat
  BY LayersOfAnOrder DEF IsOrder
<1>2. N - o[x] \in 0 .. N /\ N + 1 - o[x] \in 0 .. N /\ N \in N + 1 - o[x] .. N
  BY <1>1
<1>3. /\ high \in Ordered(o, N - o[x]) /\ Evaluate(o, high, true) = TRUE
      /\ low \in Ordered(o, N - o[x]) /\ Evaluate(o, low, true) = FALSE
  BY <1>2, ValueOfConstant
<1>4. Unique(x, high, low) = Literal(x)
  BY DEF Unique, Literal, Fun
<1>5. /\ Unique(x, high, low) \in Ordered(o, N + 1 - o[x])
      /\ Evaluate(o, Unique(x, high, low), true) =
           IF x \in true THEN Evaluate(o, high, true) ELSE Evaluate(o, low, true)
  <2> HIDE DEF high, low
  <2>1. /\ high \in Ordered(o, Cardinality(DOMAIN o) - o[x])
        /\ low \in Ordered(o, Cardinality(DOMAIN o) - o[x])
    BY <1>3
  <2> HIDE DEF N
  <2>2. /\ Unique(x, high, low) \in Ordered(o, Cardinality(DOMAIN o) + 1 - o[x])
        /\ Evaluate(o, Unique(x, high, low), true) =
             IF x \in true THEN Evaluate(o, high, true) ELSE Evaluate(o, low, true)
    BY <2>1, ValueOfUnique
  <2> QED BY <2>2 DEF N
<1>6. Ordered(o, N + 1 - o[x]) \subseteq Ordered(o, N)
  BY <1>2, OrderedGrow
<1>7. Evaluate(o, Literal(x), true) = (x \in true)
  <2> HIDE DEF high, low, N
  <2>1. CASE x \in true
    BY <1>3, <1>4, <1>5, <2>1
  <2>2. CASE x \notin true
    <3>1. Evaluate(o, Literal(x), true) \in BOOLEAN
      BY <1>4, <1>5, <1>2, ValueIsBoolean DEF N
    <3>2. Evaluate(o, Literal(x), true) = FALSE
      BY <1>3, <1>4, <1>5, <2>2, Zenon
    <3> QED BY <2>2, <3>1, <3>2
  <2> QED BY <2>1, <2>2
<1> HIDE DEF high, low
<1> QED
  BY <1>4, <1>5, <1>6, <1>7

FunctionsOver(o, functions) ==
  /\ \A c \in BOOLEAN : Fun(c, One) \in functions
  /\ \A x \in DOMAIN o : Literal(x) \in functions
  /\ \A f \in functions, c \in BOOLEAN : Flip(f, c) \in functions
  /\ \A type \in {"and", "or"}, args \in (SUBSET functions) \ {{}} : ApplyAll(o, type, args) \in functions

ValuesAreRight(o, functions, true) ==
  /\ \A c \in BOOLEAN : Evaluate(o, Fun(c, One), true) = ~c
  /\ \A x \in DOMAIN o : Evaluate(o, Literal(x), true) = (x \in true)
  /\ \A f \in functions, c \in BOOLEAN :
       Evaluate(o, f, true) \in BOOLEAN /\ Evaluate(o, Flip(f, c), true) = (c # Evaluate(o, f, true))
  /\ \A args \in (SUBSET functions) \ {{}} :
       /\ Evaluate(o, ApplyAll(o, "and", args), true) = \A f \in args : Evaluate(o, f, true)
       /\ Evaluate(o, ApplyAll(o, "or", args), true) = \E f \in args : Evaluate(o, f, true)

\* For every order there are functions, closed under the operations of the conversion,
\* whose values are the ones the operations stand for: the ordered diagrams.
LEMMA FoldsAreRight ==
  \A o : IsOrder(o) => \E functions : /\ FunctionsOver(o, functions)
                                      /\ \A true : ValuesAreRight(o, functions, true)
<1> SUFFICES ASSUME NEW o, IsOrder(o)
             PROVE  \E functions : /\ FunctionsOver(o, functions)
                                   /\ \A true : ValuesAreRight(o, functions, true)
  OBVIOUS
<1> DEFINE N == Cardinality(DOMAIN o)
           functions == Ordered(o, N)
<1>1. N \in 0 .. N
  BY LayersOfAnOrder
<1>2. \A c \in BOOLEAN : Fun(c, One) \in functions
  BY <1>1, ValueOfConstant
<1>3. \A x \in DOMAIN o : Literal(x) \in functions
  BY ValueOfLiteral
<1>4. \A f \in functions, c \in BOOLEAN : Flip(f, c) \in functions
  BY FlipOfDiagram DEF Ordered
<1>5. \A type \in {"and", "or"}, args \in (SUBSET functions) \ {{}} :
        ApplyAll(o, type, args) \in functions
  BY <1>1, ApplyAllIsRight
<1>6. ASSUME NEW true PROVE ValuesAreRight(o, functions, true)
  <2>1. \A c \in BOOLEAN : Evaluate(o, Fun(c, One), true) = ~c
    BY <1>1, ValueOfConstant
  <2>2. \A x \in DOMAIN o : Evaluate(o, Literal(x), true) = (x \in true)
    BY ValueOfLiteral
  <2>3. \A f \in functions, c \in BOOLEAN :
          Evaluate(o, f, true) \in BOOLEAN /\ Evaluate(o, Flip(f, c), true) = (c # Evaluate(o, f, true))
    BY <1>1, ValueIsBoolean, FlipOfValue
  <2>4. ASSUME NEW args \in (SUBSET functions) \ {{}}
        PROVE  /\ Evaluate(o, ApplyAll(o, "and", args), true) = \A f \in args : Evaluate(o, f, true)
               /\ Evaluate(o, ApplyAll(o, "or", args), true) = \E f \in args : Evaluate(o, f, true)
    <3>1. ASSUME NEW type \in {"and", "or"}
          PROVE  Evaluate(o, ApplyAll(o, type, args), true) = AllOrSome(o, type, args, true)
      BY <1>1, ApplyAllIsRight
    <3>2. "and" \in {"and", "or"} /\ "or" \in {"and", "or"} /\ "or" # "and"
      OBVIOUS
    <3> HIDE DEF functions
    <3> QED BY <3>1, <3>2 DEF AllOrSome
  <2> HIDE DEF functions
  <2> QED BY <2>1, <2>2, <2>3, <2>4 DEF ValuesAreRight
<1>7. FunctionsOver(o, functions)
  <2> HIDE DEF functions
  <2> QED BY <1>2, <1>3, <1>4, <1>5 DEF FunctionsOver
<1> QED
  BY <1>6, <1>7

-----------------------------------------------------------------------------
(* Graphs *)

\* The gates under a gate are the smallest closed set with it.
LEMMA UnderIsSmallest ==
  ASSUME NEW g, NEW a \in GatesOf(g)
  PROVE  /\ GatesUnder(g, a) \subseteq GatesOf(g)
         /\ a \in GatesUnder(g, a)
         /\ \A b \in GatesUnder(g, a) : ArgNodes(g, b) \cap GatesOf(g) \subseteq GatesUnder(g, a)
         /\ \A S \in SUBSET GatesOf(g) :
              a \in S /\ (\A b \in S : ArgNodes(g, b) \cap GatesOf(g) \subseteq S) => GatesUnder(g, a) \subseteq S
<1> DEFINE Closed(S) == \A b \in S : ArgNodes(g, b) \cap GatesOf(g) \subseteq S
<1>1. GatesUnder(g, a) = {b \in GatesOf(g) : \A S \in SUBSET GatesOf(g) : a \in S /\ Closed(S) => b \in S}
  BY DEF GatesUnder
<1>2. ASSUME NEW b \in GatesUnder(g, a), NEW c \in ArgNodes(g, b) \cap GatesOf(g)
      PROVE  c \in GatesUnder(g, a)
  <2>1. ASSUME NEW S \in SUBSET GatesOf(g), a \in S, Closed(S) PROVE c \in S
    BY <1>1, <2>1
  <2> HIDE DEF Closed
  <2> QED
    BY <1>1, <2>1
<1> QED
  BY <1>1, <1>2

\* What is under a gate under a is under a.
LEMMA UnderIsTransitive ==
  ASSUME NEW g, NEW a \in GatesOf(g), NEW b \in GatesUnder(g, a)
  PROVE  GatesUnder(g, b) \subseteq GatesUnder(g, a)
  BY UnderIsSmallest

\* Every gate under another one has a parent there.
LEMMA ParentIsUnder ==
  ASSUME NEW g, NEW a \in GatesOf(g), NEW b \in GatesUnder(g, a), b # a
  PROVE  \E q \in GatesUnder(g, a) : b \in ArgNodes(g, q)
<1> SUFFICES ASSUME \A q \in GatesUnder(g, a) : b \notin ArgNodes(g, q) PROVE FALSE
  OBVIOUS
<1> DEFINE S == GatesUnder(g, a) \ {b}
<1>1. S \in SUBSET GatesOf(g) /\ a \in S
  BY UnderIsSmallest
<1>2. \A c \in S : ArgNodes(g, c) \cap GatesOf(g) \subseteq S
  BY UnderIsSmallest
<1> HIDE DEF S
<1>3. GatesUnder(g, a) \subseteq S
  BY <1>1, <1>2, UnderIsSmallest
<1> QED
  BY <1>3 DEF S

\* A gate is not under its own arguments.
LEMMA NoCycles ==
  ASSUME NEW g, IsPdag(g), NEW a \in GatesOf(g), NEW b \in GatesOf(g) \cap ArgNodes(g, a)
  PROVE  a \notin GatesUnder(g, b)
<1> SUFFICES ASSUME a \in GatesUnder(g, b) PROVE FALSE
  OBVIOUS
<1> DEFINE S == {x \in GatesUnder(g, b) : a \in GatesUnder(g, x)}
<1>1. S \in (SUBSET GatesOf(g)) \ {{}} /\ a \in S /\ b \in S
  BY UnderIsSmallest
<1>2. PICK x \in S : ParentsOf(g, x) \cap S = {}
  BY <1>1 DEF IsPdag
<1>3. x # b
  BY <1>1, <1>2 DEF ParentsOf
<1>4. PICK q \in GatesUnder(g, b) : x \in ArgNodes(g, q)
  BY <1>3, ParentIsUnder
<1>5. q \in GatesOf(g) /\ x \in GatesOf(g)
  BY <1>4, UnderIsSmallest
<1>6. x \in GatesUnder(g, q)
  BY <1>4, <1>5, UnderIsSmallest
<1>7. q \in S
  BY <1>5, <1>6, UnderIsTransitive
<1> QED
  BY <1>2, <1>4, <1>5, <1>7 DEF ParentsOf

-----------------------------------------------------------------------------
(* Sequences *)

\* The library states Append over the set of the elements; a new element widens it.
LEMMA AppendTo ==
  ASSUME NEW S, NEW s \in Seq(S), NEW e
  PROVE  /\ Append(s, e) \in Seq(S \cup {e})
         /\ Len(Append(s, e)) = Len(s) + 1
         /\ \A i \in 1 .. Len(s) : Append(s, e)[i] = s[i]
         /\ Append(s, e)[Len(s) + 1] = e
<1>1. s \in Seq(S \cup {e})
  BY SeqMonotonic
<1> QED
  BY <1>1

\* A sequence without its last element.
LEMMA PopOf ==
  ASSUME NEW S, NEW s \in Seq(S), Len(s) > 0
  PROVE  /\ SubSeq(s, 1, Len(s) - 1) \in Seq(S)
         /\ Len(SubSeq(s, 1, Len(s) - 1)) = Len(s) - 1
         /\ \A i \in 1 .. Len(s) - 1 : SubSeq(s, 1, Len(s) - 1)[i] = s[i]
<1>1. Len(s) \in Nat /\ Len(s) - 1 \in Int /\ 1 \in Int
  BY LenProperties
<1>2. \A i \in 1 .. Len(s) - 1 : s[i] \in S
  BY <1>1, ElementOfSeq
<1>3. /\ SubSeq(s, 1, Len(s) - 1) \in Seq(S)
      /\ Len(SubSeq(s, 1, Len(s) - 1)) = IF 1 <= Len(s) - 1 THEN Len(s) - 1 - 1 + 1 ELSE 0
      /\ \A i \in 1 .. Len(s) - 1 - 1 + 1 : SubSeq(s, 1, Len(s) - 1)[i] = s[1 + i - 1]
  BY <1>1, <1>2, SubSeqProperties
<1> DEFINE k == Len(s) - 1
<1>4. k \in Nat
  BY <1>1
<1> HIDE DEF k
<1>6. k - 1 + 1 = k /\ (IF 1 <= k THEN k - 1 + 1 ELSE 0) = k /\ \A i \in 1 .. k : 1 + i - 1 = i
  BY <1>4
<1>5. /\ SubSeq(s, 1, k) \in Seq(S)
      /\ Len(SubSeq(s, 1, k)) = k
      /\ \A i \in 1 .. k : SubSeq(s, 1, k)[i] = s[i]
  BY <1>3, <1>6 DEF k
<1> QED
  BY <1>5 DEF k

-----------------------------------------------------------------------------
(* The active calls: a path of distinct gates down the graph *)

Stacked ==
  /\ graph \in Graphs
  /\ \E S : frames \in Seq(S)
  /\ \A i \in 1 .. Len(frames) :
       /\ {"gate", "gates"} \subseteq DOMAIN frames[i]
       /\ frames[i].gate \in Gates
       /\ frames[i].gates \subseteq ArgGates(frames[i].gate)
       /\ i < Len(frames) => frames[i + 1].gate \in ArgGates(frames[i].gate)
  /\ \A i, j \in 1 .. Len(frames) :
       /\ i <= j => frames[j].gate \in GatesUnder(graph, frames[i].gate)
       /\ frames[i].gate = frames[j].gate => i = j

\* A call for an argument of the last gate: it has not been active.
LEMMA NotActive ==
  ASSUME Stacked, Len(frames) > 0, NEW b \in ArgGates(Frame.gate)
  PROVE  /\ b \in Gates
         /\ \A i \in 1 .. Len(frames) : frames[i].gate # b /\ frames[i].gate \notin GatesUnder(graph, b)
<1>1. Len(frames) \in Nat
  BY LenProperties DEF Stacked
<1> DEFINE n == Len(frames)
<1>2. n \in 1 .. n /\ \A i \in 1 .. n : i <= n
  BY <1>1
<1>3. Frame.gate \in Gates /\ b \in Gates /\ b \in ArgNodes(graph, Frame.gate) /\ IsPdag(graph)
  BY <1>2, GraphsAssumption DEF Stacked, Frame, ArgGates
<1>4. \A i \in 1 .. n : Frame.gate \in GatesUnder(graph, frames[i].gate)
  BY <1>2 DEF Stacked, Frame
<1>5. Frame.gate \notin GatesUnder(graph, b)
  BY <1>3, NoCycles DEF Gates
<1>6. ASSUME NEW i \in 1 .. n, frames[i].gate \in GatesUnder(graph, b) PROVE FALSE
  <2>1. GatesUnder(graph, frames[i].gate) \subseteq GatesUnder(graph, b)
    BY <1>3, <1>6, UnderIsTransitive DEF Gates
  <2> QED
    BY <1>4, <1>5, <2>1
<1> QED
  BY <1>3, <1>4, <1>5, <1>6

\* Calling an argument of the last gate keeps the path.
LEMMA StackPushed ==
  ASSUME Stacked, Len(frames) > 0, NEW b \in ArgGates(Frame.gate), graph' = graph,
         \E S : frames' \in Seq(S), Len(frames') = Len(frames) + 1,
         \A i \in 1 .. Len(frames) :
           /\ {"gate", "gates"} \subseteq DOMAIN frames'[i]
           /\ frames'[i].gate = frames[i].gate /\ frames'[i].gates \subseteq frames[i].gates,
         {"gate", "gates"} \subseteq DOMAIN frames'[Len(frames) + 1],
         frames'[Len(frames) + 1].gate = b, frames'[Len(frames) + 1].gates = ArgGates(b)
  PROVE  Stacked'
<1> DEFINE n == Len(frames)
<1>1. n \in Nat /\ n \in 1 .. n /\ n + 1 \in Nat
  BY LenProperties DEF Stacked
<1>2. Len(frames') = n + 1 /\ \A i \in 1 .. n + 1 : i \in 1 .. n \/ i = n + 1
  BY <1>1
<1>3. ArgGates(b)' = ArgGates(b) /\ Gates' = Gates /\ \A i \in 1 .. n : ArgGates(frames[i].gate)' = ArgGates(frames'[i].gate)
  BY DEF ArgGates, Gates
<1>4. b \in Gates /\ \A i \in 1 .. n : frames[i].gate # b
  BY NotActive
<1>5. \A i \in 1 .. n : b \in GatesUnder(graph, frames[i].gate)
  <2> TAKE i \in 1 .. n
  <2>1. Frame.gate \in GatesUnder(graph, frames[i].gate) /\ frames[i].gate \in Gates
    BY <1>1 DEF Stacked, Frame
  <2>2. b \in ArgNodes(graph, Frame.gate) \cap GatesOf(graph)
    BY DEF ArgGates, Gates
  <2> QED
    BY <2>1, <2>2, UnderIsSmallest DEF Gates
<1>6. b \in GatesUnder(graph, b)
  BY <1>4, UnderIsSmallest DEF Gates
<1>7. ASSUME NEW i \in 1 .. n + 1
      PROVE  /\ {"gate", "gates"} \subseteq DOMAIN frames'[i]
             /\ frames'[i].gate \in Gates
             /\ frames'[i].gates \subseteq ArgGates(frames'[i].gate)
             /\ i < n + 1 => frames'[i + 1].gate \in ArgGates(frames'[i].gate)
  <2>1. CASE i \in 1 .. n /\ i # n
    <3>1. i < n /\ i + 1 \in 1 .. n
      BY <1>1, <2>1
    <3> QED
      BY <2>1, <3>1 DEF Stacked
  <2>2. CASE i = n + 1
    BY <1>1, <2>2, <1>4
  <2>3. CASE i = n
    BY <1>1, <2>3 DEF Stacked, Frame
  <2> QED
    BY <1>2, <2>1, <2>2, <2>3
<1>8. ASSUME NEW i \in 1 .. n + 1, NEW j \in 1 .. n + 1
      PROVE  /\ i <= j => frames'[j].gate \in GatesUnder(graph, frames'[i].gate)
             /\ frames'[i].gate = frames'[j].gate => i = j
  <2>1. CASE i \in 1 .. n /\ j \in 1 .. n
    BY <2>1 DEF Stacked
  <2>2. CASE i \in 1 .. n /\ j = n + 1
    BY <2>2, <1>4, <1>5
  <2>3. CASE i = n + 1 /\ j \in 1 .. n
    BY <2>3, <1>1, <1>4
  <2>4. CASE i = n + 1 /\ j = n + 1
    BY <2>4, <1>6
  <2> QED
    BY <1>2, <2>1, <2>2, <2>3, <2>4
<1>9. \A i \in 1 .. n + 1 : ArgGates(frames[i].gate)' = ArgGates(frames'[i].gate)
  BY DEF ArgGates, Gates
<1> HIDE DEF n
<1> QED
  BY <1>2, <1>3, <1>7, <1>8, <1>9 DEF Stacked

\* Returning, or having fewer arguments left, keeps the path.
LEMMA StackKept ==
  ASSUME Stacked, graph' = graph,
         \E S : frames' \in Seq(S), Len(frames') \in 0 .. Len(frames),
         \A i \in 1 .. Len(frames') :
           /\ {"gate", "gates"} \subseteq DOMAIN frames'[i]
           /\ frames'[i].gate = frames[i].gate /\ frames'[i].gates \subseteq frames[i].gates
  PROVE  Stacked'
<1>1. /\ Len(frames) \in Nat /\ 1 .. Len(frames') \subseteq 1 .. Len(frames)
      /\ \A i \in 1 .. Len(frames') : i < Len(frames') => i < Len(frames) /\ i + 1 \in 1 .. Len(frames')
  BY LenProperties DEF Stacked
<1>2. Gates' = Gates /\ \A i \in 1 .. Len(frames') : ArgGates(frames[i].gate)' = ArgGates(frames'[i].gate)
  BY DEF ArgGates, Gates
<1>3. ASSUME NEW i \in 1 .. Len(frames')
      PROVE  /\ frames'[i].gate \in Gates
             /\ frames'[i].gates \subseteq ArgGates(frames'[i].gate)
             /\ i < Len(frames') => frames'[i + 1].gate \in ArgGates(frames'[i].gate)
  BY <1>1 DEF Stacked
<1>4. ASSUME NEW i \in 1 .. Len(frames'), NEW j \in 1 .. Len(frames')
      PROVE  /\ i <= j => frames'[j].gate \in GatesUnder(graph, frames'[i].gate)
             /\ frames'[i].gate = frames'[j].gate => i = j
  BY <1>1 DEF Stacked
<1>5. graph \in Graphs
  BY DEF Stacked
<1> QED
  BY <1>2, <1>3, <1>4, <1>5 DEF Stacked

\* What the operations on the active calls leave.
LEMMA FrameOperations ==
  ASSUME Stacked, Len(frames) > 0, NEW f
  PROVE  /\ Len(frames) \in Nat \ {0}
         /\ /\ \E S : Pop \in Seq(S)
            /\ Len(Pop) = Len(frames) - 1
            /\ \A i \in 1 .. Len(frames) - 1 : Pop[i] = frames[i]
            /\ Pop = <<>> <=> Len(frames) = 1
         /\ /\ \E S : WithTop(f) \in Seq(S)
            /\ Len(WithTop(f)) = Len(frames)
            /\ \A i \in 1 .. Len(frames) - 1 : WithTop(f)[i] = frames[i]
            /\ WithTop(f)[Len(frames)] = f
         /\ Len(frames) > 1 =>
            /\ \E S : [Pop EXCEPT ![Len(Pop)] = f] \in Seq(S)
            /\ Len([Pop EXCEPT ![Len(Pop)] = f]) = Len(frames) - 1
            /\ \A i \in 1 .. Len(frames) - 2 : [Pop EXCEPT ![Len(Pop)] = f][i] = frames[i]
            /\ [Pop EXCEPT ![Len(Pop)] = f][Len(frames) - 1] = f
<1>1. PICK S : frames \in Seq(S)
  BY DEF Stacked
<1> DEFINE n == Len(frames)
<1>2. n \in Nat \ {0} /\ n \in 1 .. n /\ n - 1 \in Nat /\ \A i \in 1 .. n - 1 : i \in 1 .. n
  BY <1>1, LenProperties
<1>3. /\ Pop \in Seq(S) /\ Len(Pop) = n - 1
      /\ \A i \in 1 .. n - 1 : Pop[i] = frames[i]
  BY <1>1, PopOf DEF Pop
<1>4. Pop = <<>> <=> n = 1
  BY <1>2, <1>3, EmptySeq
<1>5. /\ WithTop(f) \in Seq(S \cup {f}) /\ Len(WithTop(f)) = n
      /\ \A i \in 1 .. n - 1 : WithTop(f)[i] = frames[i]
      /\ WithTop(f)[n] = f
  <2>1. /\ WithTop(f) \in Seq(S \cup {f}) /\ Len(WithTop(f)) = n - 1 + 1
        /\ \A i \in 1 .. n - 1 : WithTop(f)[i] = frames[i]
        /\ WithTop(f)[n - 1 + 1] = f
    BY <1>3, AppendTo DEF WithTop
  <2>2. n - 1 + 1 = n
    BY <1>2
  <2> QED
    BY <2>1, <2>2
<1>8. ASSUME n > 1
      PROVE  /\ [Pop EXCEPT ![Len(Pop)] = f] \in Seq(S \cup {f})
             /\ Len([Pop EXCEPT ![Len(Pop)] = f]) = n - 1
             /\ \A i \in 1 .. n - 2 : [Pop EXCEPT ![Len(Pop)] = f][i] = frames[i]
             /\ [Pop EXCEPT ![Len(Pop)] = f][n - 1] = f
  <2>1. Pop \in Seq(S \cup {f})
    BY <1>3, SeqMonotonic
  <2>2. n - 1 \in 1 .. n - 1 /\ \A i \in 1 .. n - 2 : i \in 1 .. n - 1 /\ i # n - 1
    BY <1>2, <1>8
  <2>3. /\ [Pop EXCEPT ![Len(Pop)] = f] \in Seq(S \cup {f})
        /\ Len([Pop EXCEPT ![Len(Pop)] = f]) = Len(Pop)
        /\ \A i \in 1 .. Len(Pop) : [Pop EXCEPT ![Len(Pop)] = f][i] = IF i = Len(Pop) THEN f ELSE Pop[i]
    BY <1>3, <2>1, <2>2, ExceptSeq
  <2> HIDE DEF n
  <2> QED
    BY <1>3, <2>2, <2>3
<1> QED
  BY <1>2, <1>3, <1>4, <1>5, <1>8

\* A call on top.
LEMMA PushOn ==
  ASSUME Stacked, NEW e
  PROVE  /\ \E S : Append(frames, e) \in Seq(S)
         /\ Len(Append(frames, e)) = Len(frames) + 1
         /\ \A i \in 1 .. Len(frames) : Append(frames, e)[i] = frames[i]
         /\ Append(frames, e)[Len(frames) + 1] = e
<1>1. PICK S : frames \in Seq(S)
  BY DEF Stacked
<1>2. Append(frames, e) \in Seq(S \cup {e})
  BY <1>1, AppendTo
<1> QED
  BY <1>1, <1>2, AppendTo

\* A call on top of a changed one.
LEMMA PushUnder ==
  ASSUME Stacked, Len(frames) > 0, NEW f, NEW e
  PROVE  /\ \E S : Append(WithTop(f), e) \in Seq(S)
         /\ Len(Append(WithTop(f), e)) = Len(frames) + 1
         /\ \A i \in 1 .. Len(frames) - 1 : Append(WithTop(f), e)[i] = frames[i]
         /\ Append(WithTop(f), e)[Len(frames)] = f
         /\ Append(WithTop(f), e)[Len(frames) + 1] = e
<1>1. PICK S : WithTop(f) \in Seq(S)
  BY FrameOperations
<1>2. /\ Len(WithTop(f)) = Len(frames) /\ WithTop(f)[Len(frames)] = f
      /\ \A i \in 1 .. Len(frames) - 1 : WithTop(f)[i] = frames[i]
      /\ Len(frames) \in Nat \ {0}
  BY FrameOperations
<1>3. /\ Append(WithTop(f), e) \in Seq(S \cup {e}) /\ Len(Append(WithTop(f), e)) = Len(frames) + 1
      /\ \A i \in 1 .. Len(frames) : Append(WithTop(f), e)[i] = WithTop(f)[i]
      /\ Append(WithTop(f), e)[Len(frames) + 1] = e
  BY <1>1, <1>2, AppendTo
<1> QED
  BY <1>2, <1>3

-----------------------------------------------------------------------------
(* The order *)

\* A module that has its order: the nodes under it have the ones right before.
OrderOfModules ==
  \A m \in DOMAIN order \cap Gates :
    Module(m) =>
      {order[x] : x \in Descendants(graph, m)} =
        (order[m] - Cardinality(Descendants(graph, m))) .. (order[m] - 1)

\* The nodes under a module that have their orders so far.
OrderedUnder(m) == Descendants(graph, m) \cap DOMAIN order

\* While TopologicalOrder runs.
Ordering ==
  /\ Stacked /\ Len(frames) > 0
  /\ IsFiniteSet(DOMAIN order)
  \* The active calls have not given their gate an order, and wait for what they have taken.
  /\ \A i \in 1 .. Len(frames) :
       /\ frames[i].gate \notin DOMAIN order
       /\ \A b \in ArgGates(frames[i].gate) \ frames[i].gates :
            b \in DOMAIN order \/ (i < Len(frames) /\ b = frames[i + 1].gate)
  \* Arguments come before their gate.
  /\ \A a \in DOMAIN order \cap Gates : ArgNodes(graph, a) \subseteq DOMAIN order
  \* Only what some call has come to has an order.
  /\ \A x \in DOMAIN order : \E a \in ParentsOf(graph, x) :
       a \in DOMAIN order \/ \E i \in 1 .. Len(frames) : frames[i].gate = a
  \* What a module that is being ordered has got so far are the last orders.
  /\ \A i \in 1 .. Len(frames) :
       Module(frames[i].gate) =>
         {order[x] : x \in OrderedUnder(frames[i].gate)} =
           (Cardinality(DOMAIN order) - Cardinality(OrderedUnder(frames[i].gate)) + 1)
             .. Cardinality(DOMAIN order)

\* The next order.
LEMMA OrderAdded ==
  ASSUME NEW x, x \notin DOMAIN order, IsFiniteSet(DOMAIN order), order' = Emplace(order, x, NextOrder)
  PROVE  /\ DOMAIN order' = DOMAIN order \cup {x}
         /\ \A y \in DOMAIN order : order'[y] = order[y]
         /\ order'[x] = Cardinality(DOMAIN order) + 1
         /\ Cardinality(DOMAIN order) \in Nat
         /\ IsFiniteSet(DOMAIN order')
         /\ Cardinality(DOMAIN order') = Cardinality(DOMAIN order) + 1
<1>1. /\ DOMAIN order' = DOMAIN order \cup {x}
      /\ \A y \in DOMAIN order : order'[y] = order[y]
      /\ order'[x] = NextOrder
  BY DEF Emplace
<1> QED
  BY <1>1, FS_AddElement, FS_CardinalityType DEF NextOrder

\* A node under a module gets the next order.
LEMMA ModuleGetsNext ==
  ASSUME NEW x, x \notin DOMAIN order, IsFiniteSet(DOMAIN order), order' = Emplace(order, x, NextOrder),
         NEW m, x \in Descendants(graph, m),
         {order[y] : y \in OrderedUnder(m)} =
           (Cardinality(DOMAIN order) - Cardinality(OrderedUnder(m)) + 1) .. Cardinality(DOMAIN order)
  PROVE  {order'[y] : y \in Descendants(graph, m) \cap DOMAIN order'} =
           (Cardinality(DOMAIN order') - Cardinality(Descendants(graph, m) \cap DOMAIN order') + 1)
             .. Cardinality(DOMAIN order')
<1> DEFINE c == Cardinality(DOMAIN order)
           k == Cardinality(OrderedUnder(m))
           after == Descendants(graph, m) \cap DOMAIN order'
<1>1. /\ DOMAIN order' = DOMAIN order \cup {x}
      /\ \A y \in DOMAIN order : order'[y] = order[y]
      /\ order'[x] = c + 1 /\ c \in Nat /\ Cardinality(DOMAIN order') = c + 1
  BY OrderAdded
<1>2. OrderedUnder(m) \subseteq DOMAIN order /\ after = OrderedUnder(m) \cup {x}
  BY <1>1 DEF OrderedUnder
<1>3. k \in Nat /\ Cardinality(after) = k + 1
  <2>1. IsFiniteSet(OrderedUnder(m)) /\ x \notin OrderedUnder(m)
    BY <1>2, FS_Subset
  <2> QED
    BY <1>2, <2>1, FS_AddElement, FS_CardinalityType
<1>4. {order'[y] : y \in after} = {order[y] : y \in OrderedUnder(m)} \cup {c + 1}
  BY <1>1, <1>2
<1> HIDE DEF c, k
<1>5. (c + 1 - (k + 1) + 1) .. (c + 1) = ((c - k + 1) .. c) \cup {c + 1}
  BY <1>1, <1>3
<1> QED
  BY <1>1, <1>3, <1>4, <1>5 DEF c, k

\* What is under a gate has its order when the arguments of the gate have theirs.
LEMMA OrderedIsClosed ==
  ASSUME NEW g \in Gates, ArgNodes(graph, g) \subseteq DOMAIN order,
         \A a \in DOMAIN order \cap Gates : ArgNodes(graph, a) \subseteq DOMAIN order
  PROVE  Descendants(graph, g) \subseteq DOMAIN order
<1> DEFINE S == {g} \cup (DOMAIN order \cap Gates)
<1>1. S \in SUBSET GatesOf(graph) /\ g \in S
  BY DEF Gates
<1>2. \A b \in S : ArgNodes(graph, b) \subseteq DOMAIN order
  OBVIOUS
<1>3. \A b \in S : ArgNodes(graph, b) \cap GatesOf(graph) \subseteq S
  BY <1>2 DEF Gates
<1> HIDE DEF S
<1>4. GatesUnder(graph, g) \subseteq S
  BY <1>1, <1>3, UnderIsSmallest DEF Gates
<1> QED
  BY <1>2, <1>4 DEF Descendants

\* The orders of modules are not touched by the next one.
LEMMA ModulesKeepOrder ==
  ASSUME NEW x, x \notin DOMAIN order, IsFiniteSet(DOMAIN order), order' = Emplace(order, x, NextOrder),
         graph' = graph, OrderOfModules,
         \A a \in DOMAIN order \cap Gates : ArgNodes(graph, a) \subseteq DOMAIN order,
         x \in Gates /\ Module(x) =>
           {order'[y] : y \in Descendants(graph, x)} =
             (order'[x] - Cardinality(Descendants(graph, x))) .. (order'[x] - 1)
  PROVE  OrderOfModules'
<1>1. /\ DOMAIN order' = DOMAIN order \cup {x}
      /\ \A y \in DOMAIN order : order'[y] = order[y]
  BY OrderAdded
<1> SUFFICES ASSUME NEW m \in DOMAIN order' \cap Gates, Module(m)
             PROVE  {order'[y] : y \in Descendants(graph, m)} =
                      (order'[m] - Cardinality(Descendants(graph, m))) .. (order'[m] - 1)
  BY DEF OrderOfModules, Gates, Module
<1>2. CASE m = x
  BY <1>2
<1>3. CASE m \in DOMAIN order
  <2>1. Descendants(graph, m) \subseteq DOMAIN order
    BY <1>3, OrderedIsClosed
  <2>2. {order'[y] : y \in Descendants(graph, m)} = {order[y] : y \in Descendants(graph, m)}
    BY <1>1, <2>1
  <2> QED
    BY <1>1, <1>3, <2>2 DEF OrderOfModules
<1> QED
  BY <1>1, <1>2, <1>3

\* The path of active calls leads to what is under each of them.
LEMMA ActiveIsUnder ==
  ASSUME Stacked, Len(frames) > 0
  PROVE  /\ \A i \in 1 .. Len(frames) : \A x \in ArgNodes(graph, Frame.gate) :
              x \in Descendants(graph, frames[i].gate)
         /\ \A i \in 1 .. Len(frames) - 1 : Frame.gate \in Descendants(graph, frames[i].gate)
<1> DEFINE n == Len(frames)
<1>1. n \in Nat /\ n \in 1 .. n /\ \A i \in 1 .. n - 1 : i \in 1 .. n /\ i # n
  BY LenProperties DEF Stacked
<1>2. \A i \in 1 .. n : Frame.gate \in GatesUnder(graph, frames[i].gate) /\ frames[i].gate \in GatesOf(graph)
  BY <1>1 DEF Stacked, Frame, Gates
<1>3. ASSUME NEW i \in 1 .. n - 1 PROVE Frame.gate \in Descendants(graph, frames[i].gate)
  <2>1. Frame.gate # frames[i].gate
    BY <1>1 DEF Stacked, Frame
  <2>2. \E q \in GatesUnder(graph, frames[i].gate) : Frame.gate \in ArgNodes(graph, q)
    BY <1>1, <1>2, <2>1, ParentIsUnder
  <2> QED
    BY <2>2 DEF Descendants
<1> QED
  BY <1>2, <1>3 DEF Descendants

-----------------------------------------------------------------------------
(* The steps of TopologicalOrder *)

\* When a call comes to a module, nothing under the module has an order yet.
LEMMA ModuleUntouched ==
  ASSUME Ordering, NEW b \in ArgGates(Frame.gate), b \notin DOMAIN order, Module(b)
  PROVE  OrderedUnder(b) = {}
<1> SUFFICES ASSUME OrderedUnder(b) # {} PROVE FALSE
  OBVIOUS
<1>1. IsPdag(graph)
  BY GraphsAssumption DEF Ordering, Stacked
<1>2. b \in Gates /\ \A i \in 1 .. Len(frames) : frames[i].gate # b /\ frames[i].gate \notin GatesUnder(graph, b)
  BY NotActive DEF Ordering
<1>3. \A a \in Gates \cap Descendants(graph, b) : a \in GatesUnder(graph, b)
  BY <1>2, UnderIsSmallest DEF Descendants, Gates
<1>4. ASSUME NEW x \in OrderedUnder(b)
      PROVE  \E a \in ParentsOf(graph, x) : a \in OrderedUnder(b) \cap Gates
  <2>1. PICK a \in ParentsOf(graph, x) : a \in DOMAIN order \/ \E i \in 1 .. Len(frames) : frames[i].gate = a
    BY DEF OrderedUnder, Ordering
  <2>2. a \in Gates /\ a \in Descendants(graph, b) \cup {b}
    BY DEF OrderedUnder, Module, IsModule, ParentsOf, Gates
  <2>3. a # b
    BY <1>2, <2>1
  <2>4. a \in DOMAIN order
    BY <1>2, <1>3, <2>1, <2>2, <2>3
  <2> QED
    BY <2>2, <2>3, <2>4 DEF OrderedUnder
<1> DEFINE S == OrderedUnder(b) \cap Gates
<1>5. S \in (SUBSET GatesOf(graph)) \ {{}}
  BY <1>4 DEF Gates
<1>6. PICK x \in S : ParentsOf(graph, x) \cap S = {}
  BY <1>1, <1>5 DEF IsPdag
<1> QED
  BY <1>4, <1>6

\* The parts of the invariant after a step.
LEMMA OrderingFrom ==
  ASSUME graph' = graph, Stacked', NEW k, Len(frames') = k, k > 0, IsFiniteSet(DOMAIN order'),
         \A i \in 1 .. k : frames'[i].gate \notin DOMAIN order',
         \A i \in 1 .. k : \A c \in ArgGates(frames'[i].gate) \ frames'[i].gates :
           c \in DOMAIN order' \/ (i < k /\ c = frames'[i + 1].gate),
         \A a \in DOMAIN order' \cap Gates : ArgNodes(graph, a) \subseteq DOMAIN order',
         \A x \in DOMAIN order' : \E a \in ParentsOf(graph, x) :
           a \in DOMAIN order' \/ \E i \in 1 .. k : frames'[i].gate = a,
         \A i \in 1 .. k : Module(frames'[i].gate) =>
           {order'[x] : x \in Descendants(graph, frames'[i].gate) \cap DOMAIN order'} =
             (Cardinality(DOMAIN order') - Cardinality(Descendants(graph, frames'[i].gate) \cap DOMAIN order') + 1)
               .. Cardinality(DOMAIN order')
  PROVE  Ordering'
<1>1. Gates' = Gates /\ \A i \in 1 .. k : ArgGates(frames[i].gate)' = ArgGates(frames'[i].gate)
  BY DEF Gates, ArgGates
<1>2. ASSUME NEW i \in 1 .. k, Module(frames[i].gate)'
      PROVE  {order[x] : x \in OrderedUnder(frames[i].gate)}' =
               (Cardinality(DOMAIN order') - Cardinality(OrderedUnder(frames[i].gate)') + 1)
                 .. Cardinality(DOMAIN order')
  BY <1>2 DEF OrderedUnder, Module
<1> QED
  BY <1>1, <1>2 DEF Ordering

\* A call comes to the next gate argument.
LEMMA OrderGateArgumentKeeps ==
  ASSUME Ordering, OrderOfModules, OrderGateArgument
  PROVE  Ordering' /\ OrderOfModules'
<1> DEFINE n == Len(frames)
<1>1. n \in Nat \ {0} /\ n \in 1 .. n /\ n + 1 \in Nat /\ \A i \in 1 .. n + 1 : i \in 1 .. n - 1 \/ i = n \/ i = n + 1
  BY LenProperties DEF Ordering, Stacked
<1>2. graph' = graph /\ order' = order /\ Gates' = Gates
  BY DEF OrderGateArgument, Gates
<1>3. OrderOfModules'
  BY <1>2 DEF OrderOfModules, Module
<1>4. PICK b \in Frame.gates :
        frames' = IF b \in DOMAIN order THEN WithTop([Frame EXCEPT !.gates = @ \ {b}])
                  ELSE Append(WithTop([Frame EXCEPT !.gates = @ \ {b}]), [gate |-> b, gates |-> ArgGates(b)])
  BY DEF OrderGateArgument, First
<1> DEFINE rest == [Frame EXCEPT !.gates = @ \ {b}]
           call == [gate |-> b, gates |-> ArgGates(b)]
<1>5. /\ {"gate", "gates"} \subseteq DOMAIN rest
      /\ rest.gate = frames[n].gate /\ rest.gates = frames[n].gates \ {b}
      /\ {"gate", "gates"} \subseteq DOMAIN call
      /\ call.gate = b /\ call.gates = ArgGates(b)
  BY <1>1 DEF Ordering, Stacked, Frame
<1> HIDE DEF rest, call
<1>6. b \in ArgGates(Frame.gate) /\ Frame = frames[n]
  BY <1>1, <1>4 DEF Ordering, Stacked, Frame
<1>7. frames' = IF b \in DOMAIN order THEN WithTop(rest) ELSE Append(WithTop(rest), call)
  BY <1>4 DEF rest, call
<1>8. /\ \E S : WithTop(rest) \in Seq(S)
      /\ Len(WithTop(rest)) = n
      /\ \A i \in 1 .. n - 1 : WithTop(rest)[i] = frames[i]
      /\ WithTop(rest)[n] = rest
      /\ \E S : Append(WithTop(rest), call) \in Seq(S)
      /\ Len(Append(WithTop(rest), call)) = n + 1
      /\ \A i \in 1 .. n - 1 : Append(WithTop(rest), call)[i] = frames[i]
      /\ Append(WithTop(rest), call)[n] = rest
      /\ Append(WithTop(rest), call)[n + 1] = call
  <2>1. Stacked /\ Len(frames) > 0
    BY DEF Ordering
  <2>2. /\ \E S : WithTop(rest) \in Seq(S)
        /\ Len(WithTop(rest)) = Len(frames)
        /\ \A i \in 1 .. Len(frames) - 1 : WithTop(rest)[i] = frames[i]
        /\ WithTop(rest)[Len(frames)] = rest
    BY <2>1, FrameOperations
  <2>3. /\ \E S : Append(WithTop(rest), call) \in Seq(S)
        /\ Len(Append(WithTop(rest), call)) = Len(frames) + 1
        /\ \A i \in 1 .. Len(frames) - 1 : Append(WithTop(rest), call)[i] = frames[i]
        /\ Append(WithTop(rest), call)[Len(frames)] = rest
        /\ Append(WithTop(rest), call)[Len(frames) + 1] = call
    BY <2>1, PushUnder
  <2> QED
    BY <2>2, <2>3
<1>9. Stacked /\ n > 0 /\ IsFiniteSet(DOMAIN order)
  BY DEF Ordering
<1>10. ASSUME NEW i \in 1 .. n
       PROVE  /\ {"gate", "gates"} \subseteq DOMAIN frames'[i]
              /\ frames'[i].gate = frames[i].gate
              /\ frames'[i].gates = IF i = n THEN frames[n].gates \ {b} ELSE frames[i].gates
  <2>1. frames'[i] = IF i = n THEN rest ELSE frames[i]
    BY <1>1, <1>7, <1>8
  <2>2. {"gate", "gates"} \subseteq DOMAIN frames[i]
    BY DEF Ordering, Stacked
  <2> QED
    BY <1>5, <2>1, <2>2
<1>11. \A i \in 1 .. n : OrderedUnder(frames[i].gate)' = OrderedUnder(frames'[i].gate)
  BY <1>2 DEF OrderedUnder
<1>12. CASE b \in DOMAIN order
  <2>1. (\E S : frames' \in Seq(S)) /\ Len(frames') = n
    BY <1>7, <1>8, <1>12
  <2>2. Stacked'
    <3> HIDE DEF n
    <3>1. /\ \E S : frames' \in Seq(S)
          /\ Len(frames') \in 0 .. n
          /\ \A i \in 1 .. Len(frames') :
               /\ {"gate", "gates"} \subseteq DOMAIN frames'[i]
               /\ frames'[i].gate = frames[i].gate /\ frames'[i].gates \subseteq frames[i].gates
      BY <1>1, <1>10, <2>1
    <3> QED
      BY <1>2, <1>9, <3>1, StackKept DEF n
  <2>3. ASSUME NEW i \in 1 .. n, NEW c \in ArgGates(frames'[i].gate) \ frames'[i].gates
        PROVE  c \in DOMAIN order \/ (i < n /\ c = frames'[i + 1].gate)
    <3>1. CASE c \in frames[i].gates
      BY <1>10, <1>12, <3>1
    <3>2. CASE c \notin frames[i].gates
      <4>1. c \in DOMAIN order \/ (i < n /\ c = frames[i + 1].gate)
        BY <1>10, <3>2 DEF Ordering
      <4>2. i < n => i + 1 \in 1 .. n
        BY <1>1
      <4> QED
        BY <1>10, <4>1, <4>2
    <3> QED
      BY <3>1, <3>2
  <2>4. \A i \in 1 .. n : frames'[i].gate \notin DOMAIN order
    BY <1>10 DEF Ordering
  <2>5. ASSUME NEW x \in DOMAIN order
        PROVE  \E a \in ParentsOf(graph, x) : a \in DOMAIN order \/ \E i \in 1 .. n : frames'[i].gate = a
    BY <1>10 DEF Ordering
  <2>6. ASSUME NEW i \in 1 .. n, Module(frames'[i].gate)
        PROVE  {order[x] : x \in OrderedUnder(frames'[i].gate)} =
                 (Cardinality(DOMAIN order) - Cardinality(OrderedUnder(frames'[i].gate)) + 1)
                   .. Cardinality(DOMAIN order)
    BY <1>10, <2>6 DEF Ordering
  <2>7. \A a \in DOMAIN order \cap Gates : ArgNodes(graph, a) \subseteq DOMAIN order
    BY DEF Ordering
  <2>8. \A i \in 1 .. n : Module(frames'[i].gate) =>
          {order'[x] : x \in Descendants(graph, frames'[i].gate) \cap DOMAIN order'} =
            (Cardinality(DOMAIN order') - Cardinality(Descendants(graph, frames'[i].gate) \cap DOMAIN order') + 1)
              .. Cardinality(DOMAIN order')
    BY <1>2, <2>6 DEF OrderedUnder
  <2> HIDE DEF n
  <2> QED
    BY <1>2, <1>3, <1>9, <2>1, <2>2, <2>3, <2>4, <2>5, <2>6, <2>7, <2>8, OrderingFrom DEF n
<1>13. CASE b \notin DOMAIN order
  <2> DEFINE k == n + 1
  <2>1. (\E S : frames' \in Seq(S)) /\ Len(frames') = k /\ frames'[k] = call
    BY <1>7, <1>8, <1>13
  <2>2. Stacked'
    BY <1>2, <1>5, <1>6, <1>9, <1>10, <2>1, StackPushed
  <2>3. ASSUME NEW i \in 1 .. k, NEW c \in ArgGates(frames'[i].gate) \ frames'[i].gates
        PROVE  c \in DOMAIN order \/ (i < k /\ c = frames'[i + 1].gate)
    <3>1. CASE i = k
      BY <1>5, <2>1, <3>1
    <3>2. CASE i \in 1 .. n /\ c \in frames[i].gates
      <4>1. i = n /\ c = b /\ i < k
        BY <1>1, <1>10, <3>2
      <4> QED
        BY <1>5, <2>1, <4>1
    <3>3. CASE i \in 1 .. n /\ c \notin frames[i].gates
      <4>1. c \in DOMAIN order \/ (i < n /\ c = frames[i + 1].gate)
        BY <1>10, <3>3 DEF Ordering
      <4>2. i < k /\ (i < n => i + 1 \in 1 .. n)
        BY <1>1, <3>3
      <4> QED
        BY <1>10, <4>1, <4>2
    <3> QED
      BY <1>1, <3>1, <3>2, <3>3
  <2>4. ASSUME NEW i \in 1 .. k PROVE frames'[i].gate \notin DOMAIN order
    <3>1. CASE i = k
      BY <1>5, <1>13, <2>1, <3>1
    <3>2. CASE i \in 1 .. n
      BY <1>10, <3>2 DEF Ordering
    <3> QED
      BY <1>1, <3>1, <3>2
  <2>5. ASSUME NEW x \in DOMAIN order
        PROVE  \E a \in ParentsOf(graph, x) : a \in DOMAIN order \/ \E i \in 1 .. k : frames'[i].gate = a
    <3>1. PICK a \in ParentsOf(graph, x) : a \in DOMAIN order \/ \E i \in 1 .. n : frames[i].gate = a
      BY DEF Ordering
    <3>2. \A i \in 1 .. n : i \in 1 .. k
      BY <1>1
    <3> QED
      BY <1>10, <3>1, <3>2
  <2>6. ASSUME NEW i \in 1 .. k, Module(frames'[i].gate)
        PROVE  {order[x] : x \in OrderedUnder(frames'[i].gate)} =
                 (Cardinality(DOMAIN order) - Cardinality(OrderedUnder(frames'[i].gate)) + 1)
                   .. Cardinality(DOMAIN order)
    <3>1. CASE i = k
      <4>1. frames'[i].gate = b
        BY <1>5, <2>1, <3>1
      <4>2. OrderedUnder(b) = {}
        BY <1>6, <1>13, <2>6, <4>1, ModuleUntouched
      <4>3. Cardinality(DOMAIN order) \in Nat /\ Cardinality({}) = 0
        BY <1>9, FS_CardinalityType, FS_EmptySet
      <4>4. \A c \in Nat : (c - 0 + 1) .. c = {}
        OBVIOUS
      <4> QED
        BY <4>1, <4>2, <4>3, <4>4
    <3>2. CASE i \in 1 .. n
      BY <1>10, <2>6, <3>2 DEF Ordering
    <3> QED
      BY <1>1, <3>1, <3>2
  <2>7. \A a \in DOMAIN order \cap Gates : ArgNodes(graph, a) \subseteq DOMAIN order
    BY DEF Ordering
  <2>8. \A i \in 1 .. k : Module(frames'[i].gate) =>
          {order'[x] : x \in Descendants(graph, frames'[i].gate) \cap DOMAIN order'} =
            (Cardinality(DOMAIN order') - Cardinality(Descendants(graph, frames'[i].gate) \cap DOMAIN order') + 1)
              .. Cardinality(DOMAIN order')
    BY <1>2, <2>6 DEF OrderedUnder
  <2>9. k > 0
    BY <1>1
  <2> HIDE DEF n, k
  <2> QED
    BY <1>1, <1>2, <1>3, <1>9, <2>1, <2>2, <2>3, <2>4, <2>5, <2>6, <2>7, <2>8, <2>9, OrderingFrom
<1> QED
  BY <1>3, <1>12, <1>13

\* A node gets its order while k calls remain active.
LEMMA NodeOrdered ==
  ASSUME Ordering, graph' = graph,
         NEW x, x \notin DOMAIN order, order' = Emplace(order, x, NextOrder),
         NEW k \in 1 .. Len(frames), \E S : frames' \in Seq(S), Len(frames') = k,
         \A i \in 1 .. k :
           frames'[i] = frames[i] /\ frames[i].gate # x /\ x \in Descendants(graph, frames[i].gate),
         \A i \in 1 .. Len(frames) : i > k => frames[i].gate = x,
         x \in Gates => ArgNodes(graph, x) \subseteq DOMAIN order,
         \E i \in 1 .. k : frames[i].gate \in ParentsOf(graph, x)
  PROVE  Ordering'
<1>1. Len(frames) \in Nat /\ k > 0 /\ k \in 0 .. Len(frames) /\ \A i \in 1 .. k : i \in 1 .. Len(frames)
  BY LenProperties DEF Ordering, Stacked
<1>2. IsFiniteSet(DOMAIN order)
  BY DEF Ordering
<1>3. DOMAIN order' = DOMAIN order \cup {x} /\ IsFiniteSet(DOMAIN order')
  BY <1>2, OrderAdded
<1>4. Stacked'
  <2>0. Stacked
    BY DEF Ordering
  <2>1. \A i \in 1 .. k : {"gate", "gates"} \subseteq DOMAIN frames'[i]
    BY <1>1, <2>0 DEF Stacked
  <2> QED
    BY <1>1, <2>0, <2>1, StackKept
<1>5. \A i \in 1 .. k : frames'[i].gate \notin DOMAIN order'
  BY <1>1, <1>3 DEF Ordering
<1>6. ASSUME NEW i \in 1 .. k, NEW c \in ArgGates(frames'[i].gate) \ frames'[i].gates
      PROVE  c \in DOMAIN order' \/ (i < k /\ c = frames'[i + 1].gate)
  <2>1. c \in DOMAIN order \/ (i < Len(frames) /\ c = frames[i + 1].gate)
    BY <1>1 DEF Ordering
  <2>2. CASE i < k
    <3>1. i + 1 \in 1 .. k
      BY <1>1, <2>2
    <3> QED
      BY <1>3, <2>1, <2>2, <3>1
  <2>3. CASE i = k
    <3>1. i < Len(frames) => i + 1 \in 1 .. Len(frames) /\ i + 1 > k
      BY <1>1, <2>3
    <3> QED
      BY <1>3, <2>1, <3>1
  <2> QED
    BY <1>1, <2>2, <2>3
<1>7. \A a \in DOMAIN order' \cap Gates : ArgNodes(graph, a) \subseteq DOMAIN order'
  BY <1>3 DEF Ordering
<1>8. ASSUME NEW y \in DOMAIN order'
      PROVE  \E a \in ParentsOf(graph, y) : a \in DOMAIN order' \/ \E i \in 1 .. k : frames'[i].gate = a
  <2>1. CASE y = x
    BY <2>1
  <2>2. CASE y # x
    <3>1. PICK a \in ParentsOf(graph, y) : a \in DOMAIN order \/ \E i \in 1 .. Len(frames) : frames[i].gate = a
      BY <1>3, <2>2 DEF Ordering
    <3>2. \A i \in 1 .. Len(frames) : i \in 1 .. k \/ i > k
      BY <1>1
    <3> QED
      BY <1>3, <3>1, <3>2
  <2> QED
    BY <2>1, <2>2
<1>9. ASSUME NEW i \in 1 .. k, Module(frames'[i].gate)
      PROVE  {order'[y] : y \in Descendants(graph, frames'[i].gate) \cap DOMAIN order'} =
               (Cardinality(DOMAIN order') - Cardinality(Descendants(graph, frames'[i].gate) \cap DOMAIN order') + 1)
                 .. Cardinality(DOMAIN order')
  <2>0. PICK m : m = frames[i].gate
    OBVIOUS
  <2>1. {order[y] : y \in OrderedUnder(m)} =
          (Cardinality(DOMAIN order) - Cardinality(OrderedUnder(m)) + 1) .. Cardinality(DOMAIN order)
    BY <1>1, <1>9, <2>0 DEF Ordering
  <2>2. x \in Descendants(graph, m) /\ frames'[i].gate = m
    BY <2>0
  <2> QED
    BY <1>2, <2>1, <2>2, ModuleGetsNext
<1> QED
  BY <1>1, <1>3, <1>4, <1>5, <1>6, <1>7, <1>8, <1>9, OrderingFrom

\* A variable of the last gate gets its order.
LEMMA OrderVariableKeeps ==
  ASSUME Ordering, OrderOfModules, OrderVariable
  PROVE  Ordering' /\ OrderOfModules'
<1>1. PICK x \in ArgVariables(Frame.gate) \ DOMAIN order : order' = Emplace(order, x, NextOrder)
  BY DEF OrderVariable, First, Unordered
<1>2. graph' = graph /\ frames' = frames
  BY DEF OrderVariable
<1>3. Stacked /\ Len(frames) > 0 /\ IsFiniteSet(DOMAIN order)
  BY DEF Ordering
<1> DEFINE n == Len(frames)
<1>4. n \in Nat /\ n \in 1 .. n /\ Frame = frames[n]
  BY <1>3, LenProperties DEF Stacked, Frame
<1>5. x \in ArgNodes(graph, Frame.gate) /\ x \notin Gates /\ Frame.gate \in Gates
  BY <1>3, <1>4 DEF Stacked, ArgVariables
<1>6. OrderOfModules'
  <2>1. \A a \in DOMAIN order \cap Gates : ArgNodes(graph, a) \subseteq DOMAIN order
    BY DEF Ordering
  <2> QED
    BY <1>1, <1>2, <1>3, <1>5, <2>1, ModulesKeepOrder
<1>7. \A i \in 1 .. n :
        frames'[i] = frames[i] /\ frames[i].gate # x /\ x \in Descendants(graph, frames[i].gate)
  BY <1>2, <1>3, <1>5, ActiveIsUnder DEF Stacked
<1>8. \E i \in 1 .. n : frames[i].gate \in ParentsOf(graph, x)
  BY <1>4, <1>5 DEF ParentsOf, Gates
<1>9. (\E S : frames' \in Seq(S)) /\ Len(frames') = n
  BY <1>2, <1>3 DEF Stacked
<1>10. \A i \in 1 .. n : ~(i > n)
  BY <1>4
<1> HIDE DEF n
<1>11. Ordering'
  BY <1>1, <1>2, <1>4, <1>5, <1>7, <1>8, <1>9, <1>10, NodeOrdered DEF n
<1> QED
  BY <1>6, <1>11

\* The last gate gets its order, after all under it.
LEMMA OrderGateKeeps ==
  ASSUME Ordering, OrderOfModules, OrderGate
  PROVE  (phase' = "order" => Ordering') /\ OrderOfModules'
<1> DEFINE x == Frame.gate
           n == Len(frames)
           k == n - 1
<1>1. /\ graph' = graph /\ order' = Emplace(order, x, NextOrder) /\ frames' = Pop
      /\ phase' = IF Pop = <<>> THEN "construct" ELSE "order"
      /\ Frame.gates = {} /\ ArgVariables(x) \subseteq DOMAIN order
  BY DEF OrderGate, Unordered
<1>2. Stacked /\ n > 0 /\ IsFiniteSet(DOMAIN order)
  BY DEF Ordering
<1>3. /\ n \in Nat \ {0} /\ n \in 1 .. n /\ Frame = frames[n] /\ x \in Gates
      /\ x \notin DOMAIN order
  BY <1>2, LenProperties DEF Stacked, Frame, Ordering
<1>4. ArgNodes(graph, x) \subseteq DOMAIN order
  <2>1. ArgGates(x) \subseteq DOMAIN order
    BY <1>1, <1>3 DEF Ordering
  <2> QED
    BY <1>1, <2>1 DEF ArgGates, ArgVariables
<1>5. \A a \in DOMAIN order \cap Gates : ArgNodes(graph, a) \subseteq DOMAIN order
  BY DEF Ordering
<1>6. ASSUME Module(x)
      PROVE  {order'[y] : y \in Descendants(graph, x)} =
               (order'[x] - Cardinality(Descendants(graph, x))) .. (order'[x] - 1)
  <2>1. Descendants(graph, x) \subseteq DOMAIN order
    BY <1>3, <1>4, <1>5, OrderedIsClosed
  <2>2. OrderedUnder(x) = Descendants(graph, x) /\ IsFiniteSet(Descendants(graph, x))
    BY <1>2, <2>1, FS_Subset DEF OrderedUnder
  <2> DEFINE c == Cardinality(DOMAIN order)
             d == Cardinality(Descendants(graph, x))
  <2>3. {order[y] : y \in Descendants(graph, x)} = (c - d + 1) .. c
    BY <1>3, <1>6, <2>2 DEF Ordering
  <2>4. /\ \A y \in DOMAIN order : order'[y] = order[y]
        /\ order'[x] = c + 1 /\ c \in Nat
    BY <1>1, <1>2, <1>3, OrderAdded
  <2>5. {order'[y] : y \in Descendants(graph, x)} = {order[y] : y \in Descendants(graph, x)}
    BY <2>1, <2>4
  <2>6. d \in Nat
    BY <2>2, FS_CardinalityType
  <2> HIDE DEF c, d
  <2>7. order'[x] - d = c - d + 1 /\ order'[x] - 1 = c
    BY <2>4, <2>6
  <2>8. {order'[y] : y \in Descendants(graph, x)} = (order'[x] - d) .. (order'[x] - 1)
    BY <2>3, <2>5, <2>7
  <2> QED
    BY <2>8 DEF d
<1>7. OrderOfModules'
  BY <1>1, <1>2, <1>3, <1>5, <1>6, ModulesKeepOrder
<1>8. ASSUME phase' = "order" PROVE Ordering'
  <2>1. n > 1 /\ (\E S : Pop \in Seq(S)) /\ Len(Pop) = k /\ \A i \in 1 .. k : Pop[i] = frames[i]
    <3>1. /\ \E S : Pop \in Seq(S)
          /\ Len(Pop) = Len(frames) - 1
          /\ \A i \in 1 .. Len(frames) - 1 : Pop[i] = frames[i]
          /\ Pop = <<>> <=> Len(frames) = 1
      BY <1>2, FrameOperations
    <3>2. Pop # <<>>
      BY <1>1, <1>8
    <3> QED
      BY <1>3, <3>1, <3>2
  <2>2. k \in 1 .. n /\ k \in 1 .. k /\ \A i \in 1 .. n : (i > k => i = n) /\ (i \in 1 .. k => i # n)
    BY <1>3, <2>1
  <2>3. \A i \in 1 .. k :
          frames'[i] = frames[i] /\ frames[i].gate # x /\ x \in Descendants(graph, frames[i].gate)
    <3>1. \A i \in 1 .. Len(frames) - 1 : Frame.gate \in Descendants(graph, frames[i].gate)
      BY <1>2, ActiveIsUnder
    <3>2. \A i \in 1 .. k : i \in 1 .. n
      BY <1>3
    <3> QED
      BY <1>1, <1>2, <1>3, <2>1, <2>2, <3>1, <3>2 DEF Stacked
  <2>4. frames[k].gate \in ParentsOf(graph, x)
    <3>1. k < n /\ k + 1 = n
      BY <1>3
    <3>2. frames[k].gate \in Gates /\ x \in ArgGates(frames[k].gate)
      BY <1>2, <1>3, <2>2, <3>1 DEF Stacked
    <3> QED
      BY <3>2 DEF ParentsOf, ArgGates, Gates
  <2>5. \A i \in 1 .. n : i > k => frames[i].gate = x
    BY <1>3, <2>2
  <2>6. (\E S : frames' \in Seq(S)) /\ Len(frames') = k
    BY <1>1, <2>1
  <2> HIDE DEF k, n, x
  <2> QED
    BY <1>1, <1>3, <1>4, <2>2, <2>3, <2>4, <2>5, <2>6, NodeOrdered DEF n
<1> QED
  BY <1>7, <1>8

-----------------------------------------------------------------------------
(* Modules are contiguous *)

OrderInv == (phase = "order" => Ordering) /\ OrderOfModules

\* The first call is for the root.
LEMMA OrderInit == Init => OrderInv
<1> SUFFICES ASSUME Init PROVE OrderInv
  OBVIOUS
<1>1. graph \in Graphs /\ IsPdag(graph) /\ graph.root \in Gates
  BY GraphsAssumption DEF Init, ConversionInit, IsPdag, Gates
<1>2. DOMAIN order = IF phase = "order" THEN {} ELSE VariablesOf(graph)
  BY DEF Init, ConversionInit
<1>3. OrderOfModules
  BY <1>2 DEF OrderOfModules, VariablesOf, Gates
<1>4. ASSUME phase = "order" PROVE Ordering
  <2> DEFINE call == [gate |-> graph.root, gates |-> ArgGates(graph.root)]
  <2>1. frames = <<call>>
    BY <1>4 DEF Init, ConversionInit
  <2>2. /\ {"gate", "gates"} \subseteq DOMAIN call
        /\ call.gate = graph.root /\ call.gates = ArgGates(graph.root)
    OBVIOUS
  <2> HIDE DEF call
  <2>3. /\ frames \in Seq({call}) /\ Len(frames) = 1 /\ frames[1] = call
        /\ \A i \in 1 .. Len(frames) : i = 1
    BY <2>1
  <2>4. graph.root \in GatesUnder(graph, graph.root)
    BY <1>1, UnderIsSmallest DEF Gates
  <2>5. Stacked
    BY <1>1, <2>2, <2>3, <2>4 DEF Stacked
  <2>6. DOMAIN order = {} /\ Cardinality({}) = 0 /\ IsFiniteSet({}) /\ (0 - 0 + 1) .. 0 = {}
    BY <1>2, <1>4, FS_EmptySet
  <2>7. \A i \in 1 .. Len(frames) : OrderedUnder(frames[i].gate) = {}
    BY <2>6 DEF OrderedUnder
  <2>8. \A i \in 1 .. Len(frames) :
          {order[x] : x \in OrderedUnder(frames[i].gate)} =
            (Cardinality(DOMAIN order) - Cardinality(OrderedUnder(frames[i].gate)) + 1)
              .. Cardinality(DOMAIN order)
    BY <2>6, <2>7
  <2> QED
    BY <2>2, <2>3, <2>5, <2>6, <2>8 DEF Ordering
<1> QED
  BY <1>3, <1>4 DEF OrderInv

\* Once all nodes have their orders nothing changes them.
LEMMA OrderStep == OrderInv /\ [Next]_vars => OrderInv'
<1> SUFFICES ASSUME OrderInv, [Next]_vars PROVE OrderInv'
  OBVIOUS
<1>1. CASE OrderGateArgument
  BY <1>1, OrderGateArgumentKeeps DEF OrderInv, OrderGateArgument
<1>2. CASE OrderVariable
  BY <1>2, OrderVariableKeeps DEF OrderInv, OrderVariable
<1>3. CASE OrderGate
  BY <1>3, OrderGateKeeps DEF OrderInv, OrderGate
<1>4. CASE \/ ConstructTrivial \/ Construct \/ ConvertMemoized \/ ConvertArgument \/ FinishGate
           \/ Freeze \/ Total \/ Update \/ EndOfTime \/ Intermediates
           \/ Importance \/ EndOfImportance \/ Trial \/ EndOfAnalysis
  <2>1. graph' = graph /\ order' = order /\ phase' # "order"
    BY <1>4 DEF ConstructTrivial, Construct, ConvertMemoized, ConvertArgument,
                FinishGate, FinishConversion, ReturnTo, Freeze, Total, Update, EndOfTime, Intermediates,
                Importance, EndOfImportance, Trial, EndOfAnalysis, conversion
  <2> QED
    BY <2>1 DEF OrderInv, OrderOfModules, Gates, Module
<1>5. CASE UNCHANGED vars
  <2>1. UNCHANGED <<graph, order, phase, frames>> /\ Gates' = Gates
    BY <1>5 DEF vars, conversion, Gates
  <2>2. OrderOfModules'
    BY <2>1 DEF OrderInv, OrderOfModules, Module
  <2>3. ASSUME Ordering PROVE Ordering'
    <3>1. Stacked'
      BY <2>1, <2>3 DEF Ordering, Stacked, ArgGates
    <3>2. \A i \in 1 .. Len(frames) : ArgGates(frames[i].gate)' = ArgGates(frames[i].gate)
      BY <2>1 DEF ArgGates
    <3>3. ASSUME NEW i \in 1 .. Len(frames), Module(frames[i].gate)'
          PROVE  {order[x] : x \in OrderedUnder(frames[i].gate)}' =
                   (Cardinality(DOMAIN order) - Cardinality(OrderedUnder(frames[i].gate))' + 1)
                     .. Cardinality(DOMAIN order)
      BY <2>1, <2>3, <3>3 DEF Ordering, OrderedUnder, Module
    <3> QED
      BY <2>1, <2>3, <3>1, <3>2, <3>3 DEF Ordering
  <2> QED
    BY <2>1, <2>2, <2>3 DEF OrderInv
<1> QED
  BY <1>1, <1>2, <1>3, <1>4, <1>5 DEF Next, Convert, Conversion, Terminated

\* In every graph, and whatever arguments the containers give first: the orders under a
\* module are the ones right before its own (TopologicalOrder of src/preprocessor.cc,
\* src/importance_analysis.cc:98-100).
THEOREM ModulesContiguous == Spec => []ModulesAreContiguous
<1>1. OrderInv => ModulesAreContiguous
  BY DEF OrderInv, OrderOfModules, ModulesAreContiguous
<1> QED
  BY <1>1, OrderInit, OrderStep, PTL DEF Spec

-----------------------------------------------------------------------------
(* The memo *)

\* The parents of a gate that have asked for it, when the gates in done are converted.
Asked(done, b) ==
  {a \in ParentsOf(graph, b) :
     a \in done \/ \E i \in 1 .. Len(frames) : frames[i].gate = a /\ b \notin frames[i].gates}

\* While ConvertGraph runs.
Converts(done) ==
  /\ Stacked /\ Len(frames) > 0
  /\ frames[1].gate = graph.root
  /\ \A i \in 1 .. Len(frames) :
       /\ frames[i].gate \notin done
       /\ ArgGates(frames[i].gate) \ frames[i].gates \subseteq done
       /\ i < Len(frames) => frames[i + 1].gate \in frames[i].gates
  /\ done \subseteq Gates /\ \A a \in done : ArgGates(a) \subseteq done
  /\ \A b \in done : Asked(done, b) # {}
  \* The memo has the converted gates with a parent to come, and counts the parents that came.
  /\ gates = [b \in DOMAIN gates |-> gates[b]]
  /\ DOMAIN gates = {b \in done : Asked(done, b) # ParentsOf(graph, b)}
  /\ \A b \in DOMAIN gates : "processed" \in DOMAIN gates[b] /\ gates[b].processed = Cardinality(Asked(done, b))

MemoInv ==
  /\ graph \in Graphs
  /\ phase # "convert" => gates = <<>>
  /\ phase = "convert" => \E done : Converts(done)

\* An empty map.
LEMMA EmptyFunction ==
  ASSUME NEW f, f = [x \in DOMAIN f |-> f[x]], DOMAIN f = {}
  PROVE  f = <<>>
<1>1. f \in [1 .. 0 -> {}] /\ 1 .. 0 = {} /\ 0 \in Nat
  OBVIOUS
<1>2. f \in Seq({}) /\ Len(f) = 0
  BY <1>1
<1> QED
  BY <1>2, EmptySeq

\* What the conversion of an argument does to the call that waits for it.
LEMMA ConvertedFrame ==
  ASSUME NEW frame, NEW b, NEW f, {"gate", "gates"} \subseteq DOMAIN frame
  PROVE  /\ {"gate", "gates"} \subseteq DOMAIN Converted(frame, b, f)
         /\ Converted(frame, b, f).gate = frame.gate
         /\ Converted(frame, b, f).gates = frame.gates \ {b}
  BY DEF Converted

\* Sets of parents are finite.
LEMMA ParentsAreFinite ==
  ASSUME graph \in Graphs, NEW b, NEW S \in SUBSET ParentsOf(graph, b)
  PROVE  /\ IsFiniteSet(S) /\ IsFiniteSet(ParentsOf(graph, b))
         /\ Cardinality(S) \in Nat /\ Parents(b) \in Nat
         /\ Cardinality(S) = Parents(b) <=> S = ParentsOf(graph, b)
         /\ S # ParentsOf(graph, b) => Cardinality(S) < Parents(b)
         /\ S # {} => Cardinality(S) > 0
<1>1. IsFiniteSet(GatesOf(graph)) /\ ParentsOf(graph, b) \subseteq GatesOf(graph)
  BY GraphsAssumption DEF IsPdag, ParentsOf
<1>2. IsFiniteSet(ParentsOf(graph, b)) /\ IsFiniteSet(S)
  BY <1>1, FS_Subset
<1>3. Cardinality(S) \in Nat /\ Parents(b) \in Nat /\ (Cardinality(S) = 0 <=> S = {})
  BY <1>2, FS_CardinalityType, FS_EmptySet DEF Parents
<1>4. S # ParentsOf(graph, b) => Cardinality(S) < Parents(b)
  BY <1>2, <1>3, FS_Subset DEF Parents
<1> QED
  BY <1>2, <1>3, <1>4 DEF Parents

\* The gate of the last call has not asked for what it still waits for.
LEMMA NotAsked ==
  ASSUME NEW done, Converts(done), NEW b \in Frame.gates
  PROVE  /\ Frame.gate \in ParentsOf(graph, b) /\ Frame.gate \notin Asked(done, b)
         /\ b \in ArgGates(Frame.gate)
<1> DEFINE n == Len(frames)
<1>1. n \in Nat /\ n \in 1 .. n /\ Frame = frames[n]
  BY LenProperties DEF Converts, Stacked, Frame
<1>2. b \in ArgGates(Frame.gate) /\ Frame.gate \in Gates /\ Frame.gate \notin done
  BY <1>1 DEF Converts, Stacked
<1>3. \A i \in 1 .. n : frames[i].gate = Frame.gate => b \in frames[i].gates
  BY <1>1 DEF Converts, Stacked
<1> QED
  BY <1>2, <1>3 DEF Asked, ParentsOf, ArgGates, Gates

\* The parts of the invariant after a step.
LEMMA ConvertsFrom ==
  ASSUME graph' = graph, Stacked', NEW k, Len(frames') = k, k > 0, NEW done, NEW asked,
         frames'[1].gate = graph.root,
         \A i \in 1 .. k : frames'[i].gate \notin done,
         \A i \in 1 .. k : ArgGates(frames'[i].gate) \ frames'[i].gates \subseteq done,
         \A i \in 1 .. k : i < k => frames'[i + 1].gate \in frames'[i].gates,
         done \subseteq Gates, \A a \in done : ArgGates(a) \subseteq done,
         \A b \in done : asked[b] # {} /\ Asked(done, b)' = asked[b],
         gates' = [b \in DOMAIN gates' |-> gates'[b]],
         DOMAIN gates' = {b \in done : asked[b] # ParentsOf(graph, b)},
         \A b \in DOMAIN gates' :
           "processed" \in DOMAIN gates'[b] /\ gates'[b].processed = Cardinality(asked[b])
  PROVE  Converts(done)'
<1>1. Gates' = Gates
  BY DEF Gates
<1>2. /\ \A i \in 1 .. k : ArgGates(frames[i].gate)' = ArgGates(frames'[i].gate)
      /\ \A a \in done : ArgGates(a)' = ArgGates(a)
  BY <1>1 DEF ArgGates
<1>3. \A b \in done : Asked(done, b)' = asked[b]
  OBVIOUS
<1>4. DOMAIN gates' \subseteq done
  OBVIOUS
<1>5. \A b \in done : Asked(done, b)' # {}
  BY <1>3
<1>6. /\ DOMAIN gates' = {b \in done : Asked(done, b)' # ParentsOf(graph, b)}
      /\ \A b \in DOMAIN gates' :
            "processed" \in DOMAIN gates'[b] /\ gates'[b].processed = Cardinality(Asked(done, b)')
  BY <1>3, <1>4
<1>7. /\ \A i \in 1 .. Len(frames') :
           /\ frames'[i].gate \notin done
           /\ ArgGates(frames[i].gate)' \ frames'[i].gates \subseteq done
           /\ i < Len(frames') => frames'[i + 1].gate \in frames'[i].gates
      /\ done \subseteq Gates' /\ \A a \in done : ArgGates(a)' \subseteq done
  BY <1>1, <1>2
<1>8. Len(frames') > 0 /\ frames'[1].gate = graph'.root
  OBVIOUS
<1>9. DOMAIN gates' = {b \in done : Asked(done, b)' # ParentsOf(graph', b)}
  BY <1>6
<1> QED
  BY <1>5, <1>6, <1>7, <1>8, <1>9 DEF Converts

\* One parent more is counted, and the last one empties the entry.
LEMMA ConvertMemoizedKeeps ==
  ASSUME NEW done, Converts(done), ConvertMemoized
  PROVE  Converts(done)'
<1>1. PICK b \in Frame.gates \cap DOMAIN gates :
        /\ frames' = WithTop(Converted(Frame, b, gates[b].function))
        /\ gates' = IF gates[b].processed + 1 = Parents(b) THEN Without(gates, b)
                     ELSE [gates EXCEPT ![b].processed = @ + 1]
  BY DEF ConvertMemoized
<1>2. graph' = graph
  BY DEF ConvertMemoized
<1>3. Stacked /\ Len(frames) > 0 /\ graph \in Graphs
  BY DEF Converts, Stacked
<1> DEFINE n == Len(frames)
           frame == Converted(Frame, b, gates[b].function)
           asked == [c \in done |-> IF c = b THEN Asked(done, b) \cup {Frame.gate} ELSE Asked(done, c)]
<1>4. n \in Nat \ {0} /\ n \in 1 .. n /\ Frame = frames[n] /\ \A i \in 1 .. n : i < n => i + 1 \in 1 .. n
  BY <1>3, LenProperties DEF Stacked, Frame
<1>5. {"gate", "gates"} \subseteq DOMAIN frame /\ frame.gate = Frame.gate /\ frame.gates = Frame.gates \ {b}
  BY <1>3, <1>4, ConvertedFrame DEF Stacked
<1> HIDE DEF frame
<1>6. /\ \E S : frames' \in Seq(S)
      /\ Len(frames') = n
      /\ \A i \in 1 .. n - 1 : frames'[i] = frames[i]
      /\ frames'[n] = frame
  BY <1>1, <1>3, FrameOperations DEF frame
<1>7. ASSUME NEW i \in 1 .. n
      PROVE  /\ {"gate", "gates"} \subseteq DOMAIN frames'[i]
             /\ frames'[i].gate = frames[i].gate
             /\ frames'[i].gates = IF i = n THEN frames[n].gates \ {b} ELSE frames[i].gates
  <2>1. frames'[i] = IF i = n THEN frame ELSE frames[i]
    BY <1>4, <1>6
  <2>2. {"gate", "gates"} \subseteq DOMAIN frames[i]
    BY <1>3 DEF Stacked
  <2> QED
    BY <1>4, <1>5, <2>1, <2>2
<1>8. Stacked'
  <2>1. /\ Len(frames') \in 0 .. n
        /\ \A i \in 1 .. Len(frames') :
             /\ {"gate", "gates"} \subseteq DOMAIN frames'[i]
             /\ frames'[i].gate = frames[i].gate /\ frames'[i].gates \subseteq frames[i].gates
    <3> HIDE DEF n
    <3> QED
      BY <1>4, <1>6, <1>7
  <2> QED
    BY <1>2, <1>3, <1>6, <2>1, StackKept
<1>9. b \in done /\ Asked(done, b) # ParentsOf(graph, b)
  BY <1>1 DEF Converts
<1>10. Frame.gate \in ParentsOf(graph, b) /\ Frame.gate \notin Asked(done, b)
  BY <1>1, NotAsked
<1>11. \A i \in 1 .. n : frames'[i].gate \notin done
  BY <1>7 DEF Converts
<1>12. \A i \in 1 .. n : ArgGates(frames'[i].gate) \ frames'[i].gates \subseteq done
  BY <1>7, <1>9 DEF Converts
<1>13. \A i \in 1 .. n : i < n => frames'[i + 1].gate \in frames'[i].gates
  BY <1>4, <1>7 DEF Converts
<1>14. frames'[1].gate = graph.root
  BY <1>4, <1>7 DEF Converts
<1>15. ASSUME NEW c \in done
       PROVE  asked[c] # {} /\ asked[c] =
                {a \in ParentsOf(graph, c) :
                   a \in done \/ \E i \in 1 .. n : frames'[i].gate = a /\ c \notin frames'[i].gates}
  <2>1. Asked(done, c) # {}
    BY DEF Converts
  <2>2. CASE c # b
    <3>1. asked[c] = Asked(done, c)
      BY <2>2
    <3>2. ASSUME NEW i \in 1 .. n
          PROVE  /\ frames'[i].gate = frames[i].gate
                 /\ c \in frames'[i].gates <=> c \in frames[i].gates
      BY <1>7, <2>2
    <3> QED
      BY <2>1, <3>1, <3>2 DEF Asked
  <2>3. CASE c = b
    <3>1. asked[c] = Asked(done, b) \cup {Frame.gate}
      BY <2>3
    <3>2. ASSUME NEW i \in 1 .. n
          PROVE  /\ frames'[i].gate = frames[i].gate
                 /\ b \notin frames'[i].gates <=> b \notin frames[i].gates \/ i = n
      BY <1>7
    <3> HIDE DEF n
    <3>3. ASSUME NEW a \in ParentsOf(graph, b)
          PROVE  (\E i \in 1 .. n : frames'[i].gate = a /\ b \notin frames'[i].gates) <=>
                   (a = Frame.gate \/ \E i \in 1 .. n : frames[i].gate = a /\ b \notin frames[i].gates)
      BY <1>4, <3>2
    <3> QED
      BY <1>10, <2>3, <3>1, <3>3 DEF Asked, n
  <2> QED
    BY <2>2, <2>3
<1> DEFINE m == gates[b].processed
           counted == [gates[b] EXCEPT !.processed = @ + 1]
<1>16. /\ Parents(b) \in Nat /\ m \in Nat /\ Cardinality(asked[b]) = m + 1
       /\ m + 1 = Parents(b) <=> asked[b] = ParentsOf(graph, b)
  <2>1. Asked(done, b) \in SUBSET ParentsOf(graph, b) /\ asked[b] = Asked(done, b) \cup {Frame.gate}
    BY <1>9 DEF Asked
  <2>2. asked[b] \in SUBSET ParentsOf(graph, b)
    BY <1>10, <2>1
  <2>3. m = Cardinality(Asked(done, b))
    BY <1>1 DEF Converts
  <2> HIDE DEF asked, m
  <2>4. IsFiniteSet(Asked(done, b)) /\ Cardinality(Asked(done, b)) \in Nat /\ Parents(b) \in Nat
    BY <1>3, <2>1, ParentsAreFinite
  <2>5. Cardinality(asked[b]) = Cardinality(Asked(done, b)) + 1
    BY <1>10, <2>1, <2>4, FS_AddElement
  <2>6. Cardinality(asked[b]) = Parents(b) <=> asked[b] = ParentsOf(graph, b)
    BY <1>3, <2>2, ParentsAreFinite
  <2> QED
    BY <2>3, <2>4, <2>5, <2>6
<1>17. /\ gates = [c \in DOMAIN gates |-> gates[c]]
       /\ DOMAIN gates = {c \in done : Asked(done, c) # ParentsOf(graph, c)}
       /\ \A c \in DOMAIN gates : "processed" \in DOMAIN gates[c] /\ gates[c].processed = Cardinality(Asked(done, c))
  BY DEF Converts
<1>18. /\ \A c \in done \ {b} : asked[c] = Asked(done, c)
  OBVIOUS
<1>19. "processed" \in DOMAIN counted /\ counted.processed = m + 1
  BY <1>1, <1>17
<1> HIDE DEF asked, n, counted, m
<1>20. gates' = IF m + 1 = Parents(b) THEN Without(gates, b) ELSE [gates EXCEPT ![b] = counted]
  BY <1>1 DEF counted, m
<1>21. /\ gates' = [c \in DOMAIN gates' |-> gates'[c]]
       /\ DOMAIN gates' = {c \in done : asked[c] # ParentsOf(graph, c)}
       /\ \A c \in DOMAIN gates' :
             "processed" \in DOMAIN gates'[c] /\ gates'[c].processed = Cardinality(asked[c])
  <2>1. CASE m + 1 = Parents(b)
    <3>1. gates' = [c \in DOMAIN gates \ {b} |-> gates[c]]
      BY <1>20, <2>1 DEF Without
    <3>2. DOMAIN gates' = {c \in done : asked[c] # ParentsOf(graph, c)}
      BY <1>9, <1>16, <1>17, <1>18, <2>1, <3>1
    <3> QED
      BY <1>17, <1>18, <3>1, <3>2
  <2>2. CASE m + 1 # Parents(b)
    <3>1. gates' = [gates EXCEPT ![b] = counted]
      BY <1>20, <2>2
    <3>2. /\ DOMAIN gates' = DOMAIN gates
          /\ \A c \in DOMAIN gates : gates'[c] = IF c = b THEN counted ELSE gates[c]
          /\ gates' = [c \in DOMAIN gates' |-> gates'[c]]
      BY <3>1
    <3>3. DOMAIN gates' = {c \in done : asked[c] # ParentsOf(graph, c)}
      BY <1>9, <1>16, <1>17, <1>18, <2>2, <3>2
    <3> QED
      BY <1>16, <1>17, <1>18, <1>19, <3>2, <3>3
  <2> QED
    BY <2>1, <2>2
<1>22. done \subseteq Gates /\ \A a \in done : ArgGates(a) \subseteq done
  BY DEF Converts
<1>23. Len(frames') = n /\ n > 0
  BY <1>4, <1>6
<1>24. \A c \in done : asked[c] # {} /\ Asked(done, c)' = asked[c]
  BY <1>2, <1>15, <1>23 DEF Asked
<1> QED
  BY <1>2, <1>8, <1>11, <1>12, <1>13, <1>14, <1>21, <1>22, <1>23, <1>24, ConvertsFrom

\* No gate is converted twice.
LEMMA NotConverted ==
  ASSUME NEW done, Converts(done), NEW b \in Frame.gates, b \notin DOMAIN gates
  PROVE  b \notin done
<1> SUFFICES ASSUME b \in done PROVE FALSE
  OBVIOUS
<1>1. Asked(done, b) = ParentsOf(graph, b)
  BY DEF Converts
<1> QED
  BY <1>1, NotAsked

\* A call for a new gate leaves all counts.
LEMMA ConvertArgumentKeeps ==
  ASSUME NEW done, Converts(done), ConvertArgument
  PROVE  Converts(done)'
<1>1. PICK b \in Frame.gates \ DOMAIN gates : frames' = Append(frames, Converting(b))
  BY DEF ConvertArgument
<1>2. graph' = graph /\ gates' = gates
  BY DEF ConvertArgument
<1>3. Stacked /\ Len(frames) > 0
  BY DEF Converts
<1> DEFINE n == Len(frames)
           k == n + 1
           asked == [c \in done |-> Asked(done, c)]
<1>4. /\ n \in Nat \ {0} /\ n \in 1 .. n /\ 1 \in 1 .. n /\ Frame = frames[n] /\ k > 0
      /\ \A i \in 1 .. k : i \in 1 .. n \/ i = k
      /\ \A i \in 1 .. n : i \in 1 .. k /\ (i < n => i + 1 \in 1 .. n) /\ (i < k => i < n \/ i = n)
  BY <1>3, LenProperties DEF Stacked, Frame
<1> DEFINE call == Converting(b)
<1>5. {"gate", "gates"} \subseteq DOMAIN call /\ call.gate = b /\ call.gates = ArgGates(b)
  BY DEF Converting
<1> HIDE DEF call
<1>6. /\ \E S : frames' \in Seq(S)
      /\ Len(frames') = k
      /\ \A i \in 1 .. n : frames'[i] = frames[i]
      /\ frames'[k] = call
  BY <1>1, <1>3, PushOn DEF call
<1>7. b \in ArgGates(Frame.gate) /\ b \notin done /\ b \in Frame.gates /\ b \in Gates
  BY <1>1, NotAsked, NotConverted DEF ArgGates
<1>8. Stacked'
  <2>1. \A i \in 1 .. n :
          /\ {"gate", "gates"} \subseteq DOMAIN frames'[i]
          /\ frames'[i].gate = frames[i].gate /\ frames'[i].gates \subseteq frames[i].gates
    BY <1>3, <1>6 DEF Stacked
  <2> QED
    BY <1>2, <1>3, <1>5, <1>6, <1>7, <2>1, StackPushed
<1>9. \A i \in 1 .. k : frames'[i].gate \notin done
  BY <1>4, <1>5, <1>6, <1>7 DEF Converts
<1>10. ASSUME NEW i \in 1 .. k PROVE ArgGates(frames'[i].gate) \ frames'[i].gates \subseteq done
  <2>1. CASE i = k
    BY <1>5, <1>6, <2>1
  <2>2. CASE i \in 1 .. n
    BY <1>6, <2>2 DEF Converts
  <2> QED
    BY <1>4, <2>1, <2>2
<1>11. ASSUME NEW i \in 1 .. k, i < k PROVE frames'[i + 1].gate \in frames'[i].gates
  <2>1. CASE i = n
    BY <1>4, <1>5, <1>6, <1>7, <2>1
  <2>2. CASE i \in 1 .. n /\ i < n
    BY <1>4, <1>6, <2>2 DEF Converts
  <2> QED
    BY <1>4, <1>11, <2>1, <2>2
<1>12. frames'[1].gate = graph.root
  BY <1>4, <1>6 DEF Converts
<1>13. done \subseteq Gates /\ \A a \in done : ArgGates(a) \subseteq done
  BY DEF Converts
<1>14. ASSUME NEW c \in done PROVE asked[c] # {} /\ Asked(done, c)' = asked[c]
  <2>1. ASSUME NEW a \in ParentsOf(graph, c)
        PROVE  (\E i \in 1 .. k : frames'[i].gate = a /\ c \notin frames'[i].gates) <=>
                 \E i \in 1 .. n : frames[i].gate = a /\ c \notin frames[i].gates
    <3>1. ~(b = a /\ c \notin ArgGates(b))
      BY <1>13 DEF ParentsOf, ArgGates
    <3> HIDE DEF n, k
    <3> QED
      BY <1>4, <1>5, <1>6, <3>1
  <2>2. asked[c] = Asked(done, c) /\ Asked(done, c) # {}
    BY DEF Converts
  <2> HIDE DEF k
  <2> QED
    BY <1>2, <1>6, <2>1, <2>2 DEF Asked
<1>15. /\ gates' = [c \in DOMAIN gates' |-> gates'[c]]
       /\ DOMAIN gates' = {c \in done : asked[c] # ParentsOf(graph, c)}
       /\ \A c \in DOMAIN gates' :
             "processed" \in DOMAIN gates'[c] /\ gates'[c].processed = Cardinality(asked[c])
  BY <1>2 DEF Converts
<1> HIDE DEF asked, n, k
<1>16. Len(frames') = k /\ k > 0
  BY <1>4, <1>6
<1> QED
  BY <1>2, <1>8, <1>9, <1>10, <1>11, <1>12, <1>13, <1>14, <1>15, <1>16, ConvertsFrom

\* A call returns to the one below it.
LEMMA FinishGateKeeps ==
  ASSUME NEW done, Converts(done), FinishGate, phase' = "convert", NEW g, g = Frame.gate
  PROVE  Converts(done \cup {g})'
<1> DEFINE n == Len(frames)
           k == n - 1
           after == done \cup {g}
           asked == [c \in after |-> IF c = g THEN {frames[k].gate} ELSE Asked(done, c)]
<1>1. Stacked /\ n > 0 /\ graph \in Graphs /\ IsPdag(graph)
  BY GraphsAssumption DEF Converts, Stacked
<1>2. PICK f :
        /\ gates' = IF Parents(g) > 1 THEN Emplace(gates, g, [function |-> f, processed |-> 1]) ELSE gates
        /\ IF Pop = <<>> THEN FinishConversion(f) ELSE ReturnTo(frames[Len(Pop)], g, f)
  BY DEF FinishGate
<1>3. graph' = graph /\ phase = "convert" /\ Frame.gates = {}
  BY DEF FinishGate
<1>4. Pop # <<>> /\ frames' = [Pop EXCEPT ![Len(Pop)] = Converted(frames[Len(Pop)], g, f)]
  BY <1>2 DEF FinishConversion, ReturnTo
<1>5. /\ n \in Nat /\ n > 1 /\ Len(Pop) = k /\ k \in Nat /\ k > 0 /\ k \in 0 .. n /\ k + 1 = n /\ n - 2 = k - 1
      /\ n \in 1 .. n /\ k \in 1 .. k /\ k \in 1 .. n /\ k < n /\ 1 \in 1 .. k /\ Frame = frames[n]
      /\ \A i \in 1 .. k : i \in 1 .. n /\ i # n /\ i < n /\ (i = k \/ i \in 1 .. k - 1)
      /\ \A i \in 1 .. k : i < k => i + 1 \in 1 .. k /\ i # k
      /\ \A i \in 1 .. n : i = n \/ i \in 1 .. k
  <2>1. Len(Pop) = Len(frames) - 1 /\ (Pop = <<>> <=> Len(frames) = 1) /\ Len(frames) \in Nat \ {0}
    BY <1>1, FrameOperations
  <2> QED
    BY <1>4, <2>1 DEF Frame
<1> DEFINE frame == Converted(frames[k], g, f)
<1>6. {"gate", "gates"} \subseteq DOMAIN frame /\ frame.gate = frames[k].gate /\ frame.gates = frames[k].gates \ {g}
  BY <1>1, <1>5, ConvertedFrame DEF Stacked
<1> HIDE DEF frame
<1>7. /\ \E S : frames' \in Seq(S)
      /\ Len(frames') = k
      /\ \A i \in 1 .. k - 1 : frames'[i] = frames[i]
      /\ frames'[k] = frame
  <2>1. frames' = [Pop EXCEPT ![Len(Pop)] = frame]
    BY <1>4, <1>5 DEF frame
  <2>2. /\ \E S : [Pop EXCEPT ![Len(Pop)] = frame] \in Seq(S)
        /\ Len([Pop EXCEPT ![Len(Pop)] = frame]) = Len(frames) - 1
        /\ \A i \in 1 .. Len(frames) - 2 : [Pop EXCEPT ![Len(Pop)] = frame][i] = frames[i]
        /\ [Pop EXCEPT ![Len(Pop)] = frame][Len(frames) - 1] = frame
    BY <1>1, <1>5, FrameOperations
  <2> QED
    BY <1>5, <2>1, <2>2
<1>8. ASSUME NEW i \in 1 .. k
      PROVE  /\ {"gate", "gates"} \subseteq DOMAIN frames'[i]
             /\ frames'[i].gate = frames[i].gate
             /\ frames'[i].gates = IF i = k THEN frames[k].gates \ {g} ELSE frames[i].gates
  <2>1. frames'[i] = IF i = k THEN frame ELSE frames[i]
    BY <1>5, <1>7
  <2>2. {"gate", "gates"} \subseteq DOMAIN frames[i]
    BY <1>1, <1>5 DEF Stacked
  <2> QED
    BY <1>5, <1>6, <2>1, <2>2
<1>9. Stacked'
  <2>1. /\ Len(frames') \in 0 .. n
        /\ \A i \in 1 .. Len(frames') :
             /\ {"gate", "gates"} \subseteq DOMAIN frames'[i]
             /\ frames'[i].gate = frames[i].gate /\ frames'[i].gates \subseteq frames[i].gates
    <3> HIDE DEF n, k
    <3> QED
      BY <1>5, <1>7, <1>8
  <2> QED
    BY <1>1, <1>3, <1>7, <2>1, StackKept
<1>10. /\ g \notin done /\ g \in Gates /\ ArgGates(g) \subseteq done
       /\ \A i \in 1 .. k : frames[i].gate # g
       /\ frames[k].gate \in ParentsOf(graph, g) /\ g \in frames[k].gates
  <2>1. g \notin done /\ g \in Gates /\ ArgGates(g) \subseteq done /\ \A i \in 1 .. k : frames[i].gate # g
    BY <1>1, <1>3, <1>5 DEF Converts, Stacked
  <2>2. g \in frames[k].gates /\ frames[k].gate \in Gates /\ g \in ArgGates(frames[k].gate)
    BY <1>1, <1>5 DEF Converts, Stacked
  <2> QED
    BY <2>1, <2>2 DEF ParentsOf, ArgGates, Gates
<1>11. \A i \in 1 .. k : frames'[i].gate \notin after
  BY <1>5, <1>8, <1>10 DEF Converts
<1>12. \A i \in 1 .. k : ArgGates(frames'[i].gate) \ frames'[i].gates \subseteq after
  BY <1>5, <1>8 DEF Converts
<1>13. ASSUME NEW i \in 1 .. k, i < k PROVE frames'[i + 1].gate \in frames'[i].gates
  BY <1>5, <1>8, <1>13 DEF Converts
<1>14. frames'[1].gate = graph.root
  BY <1>5, <1>8 DEF Converts
<1>15. after \subseteq Gates /\ \A a \in after : ArgGates(a) \subseteq after
  BY <1>10 DEF Converts
<1>16. ASSUME NEW c \in after PROVE asked[c] # {} /\ Asked(after, c)' = asked[c]
  <2>1. Asked(after, c)' =
          {a \in ParentsOf(graph, c) :
             a \in after \/ \E i \in 1 .. k : frames'[i].gate = a /\ c \notin frames'[i].gates}
    BY <1>3, <1>7 DEF Asked
  <2>2. CASE c = g
    <3>1. ASSUME NEW a \in ParentsOf(graph, g), a \in after PROVE FALSE
      <4>1. a \in Gates /\ g \in ArgGates(a)
        BY <1>10 DEF ParentsOf, ArgGates, Gates
      <4>2. a = g
        BY <1>10, <3>1, <4>1 DEF Converts
      <4>3. g \in GatesUnder(graph, g)
        BY <1>10, UnderIsSmallest DEF Gates
      <4> QED
        BY <1>1, <1>10, <4>1, <4>2, <4>3, NoCycles DEF Gates, ArgGates
    <3>2. ASSUME NEW i \in 1 .. k, frames'[i].gate \in ParentsOf(graph, g)
          PROVE  g \notin frames'[i].gates <=> i = k
      <4>1. g \in ArgGates(frames[i].gate) /\ i \in 1 .. n
        BY <1>5, <1>8, <1>10, <3>2 DEF ParentsOf, ArgGates
      <4>2. g \in frames[i].gates
        BY <1>10, <4>1 DEF Converts
      <4> QED
        BY <1>8, <4>2
    <3>3. asked[c] = {frames[k].gate} /\ frames'[k].gate = frames[k].gate
      BY <1>5, <1>8, <2>2
    <3> HIDE DEF k, after, asked
    <3>4. ASSUME NEW a \in ParentsOf(graph, g)
          PROVE  (a \in after \/ \E i \in 1 .. k : frames'[i].gate = a /\ g \notin frames'[i].gates) <=>
                   a = frames[k].gate
      BY <1>5, <3>1, <3>2, <3>3
    <3> QED
      BY <1>10, <2>1, <2>2, <3>3, <3>4
  <2>3. CASE c # g
    <3>1. c \in done /\ asked[c] = Asked(done, c) /\ Asked(done, c) # {}
      BY <2>3 DEF Converts
    <3>2. \A i \in 1 .. k : frames'[i].gate = frames[i].gate /\ (c \notin frames'[i].gates <=> c \notin frames[i].gates)
      BY <1>8, <2>3
    <3>3. frames[n].gate = g /\ frames[n].gates = {}
      BY <1>3, <1>5
    <3> HIDE DEF n, k
    <3>4. ASSUME NEW a \in ParentsOf(graph, c)
          PROVE  (a \in after \/ \E i \in 1 .. k : frames'[i].gate = a /\ c \notin frames'[i].gates) <=>
                   (a \in done \/ \E i \in 1 .. n : frames[i].gate = a /\ c \notin frames[i].gates)
      BY <1>5, <3>2, <3>3
    <3> QED
      BY <2>1, <3>1, <3>4 DEF Asked, n
  <2> QED
    BY <2>2, <2>3
<1> DEFINE entry == [function |-> f, processed |-> 1]
<1>17. /\ gates' = [c \in DOMAIN gates' |-> gates'[c]]
       /\ DOMAIN gates' = {c \in after : asked[c] # ParentsOf(graph, c)}
       /\ \A c \in DOMAIN gates' :
             "processed" \in DOMAIN gates'[c] /\ gates'[c].processed = Cardinality(asked[c])
  <2>1. /\ gates = [c \in DOMAIN gates |-> gates[c]]
        /\ DOMAIN gates = {c \in done : Asked(done, c) # ParentsOf(graph, c)}
        /\ \A c \in DOMAIN gates : "processed" \in DOMAIN gates[c] /\ gates[c].processed = Cardinality(Asked(done, c))
    BY DEF Converts
  <2>2. /\ \A c \in done : asked[c] = Asked(done, c)
        /\ asked[g] = {frames[k].gate}
    BY <1>10
  <2>3. Cardinality(asked[g]) = 1
    BY <2>2, FS_Singleton
  <2>4. Parents(g) > 1 <=> asked[g] # ParentsOf(graph, g)
    <3>1. asked[g] \in SUBSET ParentsOf(graph, g)
      BY <1>10, <2>2
    <3> HIDE DEF asked
    <3> QED
      BY <1>1, <2>3, <3>1, ParentsAreFinite
  <2>5. "processed" \in DOMAIN entry /\ entry.processed = 1
    OBVIOUS
  <2> HIDE DEF asked, entry
  <2>6. CASE Parents(g) > 1
    <3>1. gates' = [c \in DOMAIN gates \cup {g} |-> IF c \in DOMAIN gates THEN gates[c] ELSE entry]
      BY <1>2, <2>6 DEF Emplace, entry
    <3>2. DOMAIN gates' = {c \in after : asked[c] # ParentsOf(graph, c)}
      BY <1>10, <2>1, <2>2, <2>4, <2>6, <3>1
    <3>3. DOMAIN gates' = DOMAIN gates \cup {g} /\ gates' = [c \in DOMAIN gates' |-> gates'[c]]
      BY <3>1
    <3>4. \A c \in DOMAIN gates : gates'[c] = gates[c] /\ c \in done
      BY <2>1, <3>1
    <3>5. gates'[g] = entry
      BY <1>10, <2>1, <3>1
    <3> QED
      BY <2>1, <2>2, <2>3, <2>5, <3>2, <3>3, <3>4, <3>5
  <2>7. CASE ~(Parents(g) > 1)
    <3>1. gates' = gates
      BY <1>2, <2>7
    <3>2. DOMAIN gates' = {c \in after : asked[c] # ParentsOf(graph, c)}
      BY <1>10, <2>1, <2>2, <2>4, <2>7, <3>1
    <3> QED
      BY <2>1, <2>2, <3>1, <3>2
  <2> QED
    BY <2>6, <2>7
<1>18. Len(frames') = k /\ k > 0
  BY <1>5, <1>7
<1> HIDE DEF asked, n, k, after
<1>19. Converts(after)'
  BY <1>3, <1>9, <1>11, <1>12, <1>13, <1>14, <1>15, <1>16, <1>17, <1>18, ConvertsFrom
<1> QED
  BY <1>19 DEF after

\* The last call leaves nothing in the memo: all gates are converted by then.
LEMMA MemoIsEmptied ==
  ASSUME NEW done, Converts(done), FinishGate, phase' # "convert"
  PROVE  gates' = <<>>
<1> DEFINE g == graph.root
<1>1. Stacked /\ Len(frames) > 0 /\ IsPdag(graph)
  BY GraphsAssumption DEF Converts, Stacked
<1>2. PICK f :
        /\ gates' = IF Parents(Frame.gate) > 1
                     THEN Emplace(gates, Frame.gate, [function |-> f, processed |-> 1]) ELSE gates
        /\ IF Pop = <<>> THEN FinishConversion(f) ELSE ReturnTo(frames[Len(Pop)], Frame.gate, f)
  BY DEF FinishGate
<1>3. Frame.gates = {} /\ phase = "convert"
  BY DEF FinishGate
<1>4. Pop = <<>>
  BY <1>2, <1>3 DEF ReturnTo
<1>5. Len(frames) = 1 /\ Frame = frames[1] /\ 1 \in 1 .. Len(frames)
  BY <1>1, <1>4, FrameOperations DEF Frame
<1>6. /\ Frame.gate = g /\ g \in Gates /\ ArgGates(g) \subseteq done /\ g \notin done
      /\ frames[1].gate = g /\ frames[1].gates = {}
  BY <1>1, <1>3, <1>5 DEF Converts, Stacked
<1>7. ParentsOf(graph, g) = {}
  BY <1>1 DEF IsPdag
<1>8. gates' = gates
  BY <1>2, <1>6, <1>7, FS_EmptySet DEF Parents
<1>9. Gates \subseteq done \cup {g}
  <2> SUFFICES ASSUME Gates \ (done \cup {g}) # {} PROVE FALSE
    OBVIOUS
  <2> DEFINE S == Gates \ (done \cup {g})
  <2>1. S \in (SUBSET GatesOf(graph)) \ {{}}
    BY DEF Gates
  <2>2. PICK x \in S : ParentsOf(graph, x) \cap S = {}
    BY <1>1, <2>1 DEF IsPdag
  <2>3. ParentsOf(graph, x) # {}
    BY <1>1 DEF IsPdag, Gates
  <2>4. PICK a \in ParentsOf(graph, x) : TRUE
    BY <2>3
  <2>5. a \in Gates /\ x \in ArgGates(a)
    BY <2>4 DEF ParentsOf, ArgGates, Gates
  <2>6. a \in done \/ a = g
    BY <2>2, <2>4, <2>5
  <2> QED
    BY <1>6, <2>5, <2>6 DEF Converts
<1>10. DOMAIN gates = {}
  <2> SUFFICES ASSUME NEW b \in DOMAIN gates PROVE FALSE
    OBVIOUS
  <2>1. b \in done /\ Asked(done, b) # ParentsOf(graph, b)
    BY DEF Converts
  <2>2. ASSUME NEW a \in ParentsOf(graph, b) PROVE a \in Asked(done, b)
    <3>1. a \in done \/ a = g
      BY <1>9 DEF ParentsOf, Gates
    <3> QED
      BY <1>5, <1>6, <3>1 DEF Asked
  <2> QED
    BY <2>1, <2>2 DEF Asked
<1> QED
  BY <1>8, <1>10, EmptyFunction DEF Converts

\* The conversion starts with nothing converted.
LEMMA ConstructStarts ==
  ASSUME MemoInv, Construct
  PROVE  \E done : Converts(done)'
<1> DEFINE call == Converting(graph.root)
<1>1. /\ frames' = <<call>> /\ graph' = graph /\ gates' = <<>> /\ graph \in Graphs
  BY DEF Construct, MemoInv
<1>2. IsPdag(graph) /\ graph.root \in Gates /\ Gates' = Gates
  BY <1>1, GraphsAssumption DEF IsPdag, Gates
<1>3. {"gate", "gates"} \subseteq DOMAIN call /\ call.gate = graph.root /\ call.gates = ArgGates(graph.root)
  BY DEF Converting
<1> HIDE DEF call
<1>4. /\ frames' \in Seq({call}) /\ Len(frames') = 1 /\ frames'[1] = call
      /\ \A i \in 1 .. 1 : i = 1
  BY <1>1
<1>5. graph.root \in GatesUnder(graph, graph.root)
  BY <1>2, UnderIsSmallest DEF Gates
<1>6. \A i \in 1 .. 1 : ArgGates(frames[i].gate)' = ArgGates(frames'[i].gate)
  BY <1>1 DEF ArgGates, Gates
<1>7. Stacked'
  <2>1. \A i \in 1 .. Len(frames') : i = 1 /\ ~(i < Len(frames')) /\ frames'[i] = call
    BY <1>4
  <2> QED
    BY <1>1, <1>2, <1>3, <1>4, <1>5, <1>6, <2>1 DEF Stacked
<1>8. /\ gates' = [c \in DOMAIN gates' |-> gates'[c]]
      /\ DOMAIN gates' = {}
  BY <1>1
<1>9. Converts({})'
  BY <1>1, <1>2, <1>3, <1>4, <1>6, <1>7, <1>8 DEF Converts
<1> QED
  BY <1>9

\* The memo is used by the conversion only.
LEMMA MemoStep == MemoInv /\ [Next]_vars => MemoInv'
<1> SUFFICES ASSUME MemoInv, [Next]_vars PROVE MemoInv'
  OBVIOUS
<1>1. graph' = graph
  BY DEF Next, Convert, Conversion, OrderGateArgument, OrderVariable, OrderGate, ConstructTrivial, Construct,
         ConvertMemoized, ConvertArgument, FinishGate, Freeze, Total, Update, EndOfTime, Intermediates,
         Importance, EndOfImportance, Trial, EndOfAnalysis, Terminated, vars, conversion
<1>2. CASE Construct
  BY <1>1, <1>2, ConstructStarts DEF MemoInv, Construct
<1>3. CASE ConvertMemoized
  BY <1>1, <1>3, ConvertMemoizedKeeps DEF MemoInv, ConvertMemoized
<1>4. CASE ConvertArgument
  BY <1>1, <1>4, ConvertArgumentKeeps DEF MemoInv, ConvertArgument
<1>5. CASE FinishGate
  <2>1. phase = "convert"
    BY <1>5 DEF FinishGate
  <2>2. PICK done : Converts(done)
    BY <2>1 DEF MemoInv
  <2>3. CASE phase' = "convert"
    <3>1. PICK g : g = Frame.gate
      OBVIOUS
    <3>2. Converts(done \cup {g})'
      BY <1>5, <2>2, <2>3, <3>1, FinishGateKeeps
    <3> QED
      BY <1>1, <2>3, <3>2 DEF MemoInv
  <2>4. CASE phase' # "convert"
    BY <1>1, <1>5, <2>2, <2>4, MemoIsEmptied DEF MemoInv
  <2> QED
    BY <2>3, <2>4
<1>6. CASE \/ OrderGateArgument \/ OrderVariable \/ OrderGate \/ ConstructTrivial
           \/ Freeze \/ Total \/ Update \/ EndOfTime \/ Intermediates
           \/ Importance \/ EndOfImportance \/ Trial \/ EndOfAnalysis
  <2>1. gates' = gates /\ phase # "convert" /\ phase' # "convert"
    BY <1>6 DEF OrderGateArgument, OrderVariable, OrderGate, ConstructTrivial,
                Freeze, Total, Update, EndOfTime, Intermediates,
                Importance, EndOfImportance, Trial, EndOfAnalysis, conversion
  <2> QED
    BY <1>1, <2>1 DEF MemoInv
<1>7. CASE UNCHANGED vars
  <2>1. UNCHANGED <<graph, phase, frames, gates>>
    BY <1>7 DEF vars, conversion
  <2>2. ASSUME NEW done, Converts(done) PROVE Converts(done)'
    <3> DEFINE asked == [c \in done |-> Asked(done, c)]
               n == Len(frames)
    <3>1. Stacked'
      BY <2>1, <2>2 DEF Converts, Stacked, ArgGates, Gates
    <3>2. Len(frames') = n /\ n > 0 /\ frames'[1].gate = graph.root
      BY <2>1, <2>2 DEF Converts
    <3>3. \A i \in 1 .. n : frames'[i].gate \notin done
      BY <2>1, <2>2 DEF Converts
    <3>4. \A i \in 1 .. n : ArgGates(frames'[i].gate) \ frames'[i].gates \subseteq done
      BY <2>1, <2>2 DEF Converts
    <3>5. \A i \in 1 .. n : i < n => frames'[i + 1].gate \in frames'[i].gates
      BY <2>1, <2>2 DEF Converts
    <3>6. done \subseteq Gates /\ \A a \in done : ArgGates(a) \subseteq done
      BY <2>2 DEF Converts
    <3>7. \A c \in done : asked[c] # {} /\ Asked(done, c)' = asked[c]
      BY <2>1, <2>2 DEF Converts, Asked
    <3>8. /\ gates' = [c \in DOMAIN gates' |-> gates'[c]]
          /\ DOMAIN gates' = {c \in done : asked[c] # ParentsOf(graph, c)}
          /\ \A c \in DOMAIN gates' :
                "processed" \in DOMAIN gates'[c] /\ gates'[c].processed = Cardinality(asked[c])
      BY <2>1, <2>2 DEF Converts
    <3>9. graph' = graph
      BY <2>1
    <3> HIDE DEF asked, n
    <3> QED
      BY <3>9, <3>1, <3>2, <3>3, <3>4, <3>5, <3>6, <3>7, <3>8, ConvertsFrom
  <2> QED
    BY <2>1, <2>2 DEF MemoInv
<1> QED
  BY <1>2, <1>3, <1>4, <1>5, <1>6, <1>7 DEF Next, Convert, Conversion, Terminated

\* A gate is in the memo of ConvertGraph exactly between its first and its last parent, no
\* gate is converted twice, and nothing is left in the end (src/bdd.cc:137-194).
THEOREM MemoBalanced == Spec => []MemoIsBalanced
<1>1. Init => MemoInv
  BY DEF Init, ConversionInit, MemoInv
<1>2. ASSUME MemoInv PROVE MemoIsBalanced
  <2>1. CASE phase # "convert"
    <3>1. gates = <<>> /\ DOMAIN gates = {}
      BY <1>2, <2>1 DEF MemoInv
    <3> QED
      BY <3>1 DEF MemoIsBalanced
  <2>2. CASE phase = "convert"
    <3>1. PICK done : Converts(done)
      BY <1>2, <2>2 DEF MemoInv
    <3>2. ASSUME NEW b \in DOMAIN gates PROVE b \in done /\ gates[b].processed \in 1 .. Parents(b) - 1
      <4>1. /\ b \in done /\ Asked(done, b) # {} /\ Asked(done, b) # ParentsOf(graph, b)
            /\ gates[b].processed = Cardinality(Asked(done, b))
        BY <3>1 DEF Converts
      <4>2. Asked(done, b) \in SUBSET ParentsOf(graph, b)
        BY DEF Asked
      <4>3. /\ Cardinality(Asked(done, b)) \in Nat /\ Parents(b) \in Nat
            /\ Cardinality(Asked(done, b)) > 0 /\ Cardinality(Asked(done, b)) < Parents(b)
        BY <1>2, <4>1, <4>2, ParentsAreFinite DEF MemoInv
      <4> QED
        BY <4>1, <4>3
    <3>3. \A i \in 1 .. Len(frames) : frames[i].gate \notin DOMAIN gates
      BY <3>1, <3>2 DEF Converts
    <3> QED
      BY <2>2, <3>2, <3>3 DEF MemoIsBalanced, Built
  <2> QED
    BY <2>1, <2>2
<1> QED
  BY <1>1, <1>2, MemoStep, PTL DEF Spec

-----------------------------------------------------------------------------
(* The values of the gates *)

\* Only the arguments of a gate matter to it.
LEMMA OnlyArgumentsMatter ==
  ASSUME NEW g, NEW gate, NEW S, NEW T, \A n \in ArgNodes(g, gate) : n \in S <=> n \in T
  PROVE  GateHolds(g, gate, S) = GateHolds(g, gate, T)
<1>1. ASSUME NEW arg \in g.args[gate]
      PROVE  (arg[1] # (arg[2] \in S \cup {Constant})) <=> (arg[1] # (arg[2] \in T \cup {Constant}))
  <2>1. (arg[2] \in S \cup {Constant}) = (arg[2] \in T \cup {Constant})
    BY DEF ArgNodes
  <2> QED
    BY <2>1, Zenon
<1> QED
  BY <1>1, Zenon DEF GateHolds

\* In every set of gates there is one without arguments in the set.
LEMMA LowestGate ==
  ASSUME NEW g, IsPdag(g), NEW R \in SUBSET GatesOf(g), R # {}
  PROVE  \E b \in R : ArgNodes(g, b) \cap R = {}
<1> DEFINE below == {GatesUnder(g, b) : b \in R}
<1>1. below \subseteq FiniteSubsetsOf(GatesOf(g)) /\ below # {}
  <2>1. \A b \in R : GatesUnder(g, b) \subseteq GatesOf(g) /\ IsFiniteSet(GatesUnder(g, b))
    BY UnderIsSmallest, FS_Subset DEF IsPdag
  <2> QED
    BY <2>1 DEF FiniteSubsetsOf
<1>2. IsWellFoundedOn(StrictSubsetOrdering(GatesOf(g)), FiniteSubsetsOf(GatesOf(g)))
  BY FS_StrictSubsetOrderingWellFounded
<1> HIDE DEF below
<1>3. PICK S \in below : \A T \in below : <<T, S>> \notin StrictSubsetOrdering(GatesOf(g))
  BY <1>1, <1>2, WFMin
<1>4. PICK b \in R : S = GatesUnder(g, b)
  BY <1>3 DEF below
<1>5. ASSUME NEW c \in ArgNodes(g, b) \cap R PROVE FALSE
  <2>1. GatesUnder(g, c) \subseteq GatesUnder(g, b)
    BY UnderIsSmallest
  <2>2. b \in GatesUnder(g, b) /\ b \notin GatesUnder(g, c)
    BY NoCycles, UnderIsSmallest
  <2>3. GatesUnder(g, b) \subseteq GatesOf(g) /\ GatesUnder(g, c) \in below
    BY UnderIsSmallest DEF below
  <2> QED
    BY <1>3, <1>4, <2>1, <2>2, <2>3 DEF StrictSubsetOrdering
<1> QED
  BY <1>5

\* What a gate is when the gates have the values v and the variables in a are true.
ValueFrom(g, a, v, gate) ==
  GateHolds(g, gate, {n \in ArgNodes(g, gate) : IF n \in GatesOf(g) THEN v[n] ELSE n \in a})

\* The values of the other nodes than the arguments make no difference.
LEMMA ValueFromArguments ==
  ASSUME NEW g, NEW a, NEW v, NEW w, NEW gate,
         \A n \in ArgNodes(g, gate) \cap GatesOf(g) : v[n] = w[n]
  PROVE  ValueFrom(g, a, v, gate) = ValueFrom(g, a, w, gate)
<1>1. {n \in ArgNodes(g, gate) : IF n \in GatesOf(g) THEN v[n] ELSE n \in a} =
        {n \in ArgNodes(g, gate) : IF n \in GatesOf(g) THEN w[n] ELSE n \in a}
  OBVIOUS
<1> QED
  BY <1>1 DEF ValueFrom

\* The gates have values: the definition by recursion in Values means something.
LEMMA ValuesExist ==
  ASSUME NEW g, IsPdag(g), NEW a
  PROVE  \E v : v = [gate \in GatesOf(g) |-> ValueFrom(g, a, v, gate)]
<1> DEFINE Solved(S, v) == \A b \in S : ArgNodes(g, b) \cap GatesOf(g) \subseteq S /\ v[b] = ValueFrom(g, a, v, b)
           open == {R \in SUBSET GatesOf(g) : \E v : Solved(GatesOf(g) \ R, v)}
<1>1. open \subseteq FiniteSubsetsOf(GatesOf(g))
  BY FS_Subset DEF FiniteSubsetsOf, IsPdag
<1>2. GatesOf(g) \in open
  OBVIOUS
<1>3. IsWellFoundedOn(StrictSubsetOrdering(GatesOf(g)), FiniteSubsetsOf(GatesOf(g)))
  BY FS_StrictSubsetOrderingWellFounded
<1>4. PICK R \in open : \A T \in open : <<T, R>> \notin StrictSubsetOrdering(GatesOf(g))
  <2> HIDE DEF open
  <2> QED
    BY <1>1, <1>2, <1>3, WFMin
<1>5. PICK v : Solved(GatesOf(g) \ R, v)
  BY <1>4
<1>6. ASSUME R # {} PROVE FALSE
  <2>1. PICK b \in R : ArgNodes(g, b) \cap R = {}
    BY <1>4, <1>6, LowestGate
  <2> DEFINE w == [x \in GatesOf(g) |-> IF x = b THEN ValueFrom(g, a, v, b) ELSE v[x]]
  <2>2. b \in GatesOf(g) /\ \A x \in GatesOf(g) \ (R \ {b}) : x = b \/ x \in GatesOf(g) \ R
    BY <2>1, <1>4
  <2>3. ASSUME NEW x \in GatesOf(g) \ (R \ {b})
        PROVE  /\ ArgNodes(g, x) \cap GatesOf(g) \subseteq GatesOf(g) \ R
               /\ ValueFrom(g, a, v, x) = ValueFrom(g, a, w, x)
               /\ w[x] = ValueFrom(g, a, v, x)
    <3>1. ArgNodes(g, x) \cap GatesOf(g) \subseteq GatesOf(g) \ R
      BY <1>5, <2>1, <2>2
    <3>2. \A n \in ArgNodes(g, x) \cap GatesOf(g) : v[n] = w[n]
      BY <3>1, <2>1
    <3>3. w[x] = ValueFrom(g, a, v, x)
      BY <1>5, <2>2
    <3> HIDE DEF w
    <3> QED
      BY <3>1, <3>2, <3>3, ValueFromArguments
  <2> HIDE DEF w
  <2>4. Solved(GatesOf(g) \ (R \ {b}), w)
    BY <2>3
  <2>5. R \ {b} \in open
    BY <2>4, <1>4
  <2> HIDE DEF open
  <2>6. R \in SUBSET GatesOf(g)
    BY <1>4 DEF open
  <2> QED
    BY <1>4, <2>1, <2>5, <2>6 DEF StrictSubsetOrdering
<1> DEFINE u == [gate \in GatesOf(g) |-> v[gate]]
<1>7. \A b \in GatesOf(g) : v[b] = ValueFrom(g, a, v, b)
  BY <1>5, <1>6
<1>8. \A b \in GatesOf(g) : ValueFrom(g, a, v, b) = ValueFrom(g, a, u, b)
  BY ValueFromArguments
<1>9. u = [gate \in GatesOf(g) |-> ValueFrom(g, a, u, gate)]
  BY <1>7, <1>8
<1> QED
  BY <1>9

\* The gates that are true are the ones that their arguments make true.
LEMMA TrueNodesHold ==
  ASSUME NEW g, IsPdag(g), NEW a \in SUBSET VariablesOf(g), NEW gate \in GatesOf(g)
  PROVE  /\ gate \in TrueNodes(g, a) <=> GateHolds(g, gate, TrueNodes(g, a))
         /\ Values(g, a)[gate] = (gate \in TrueNodes(g, a))
         /\ Values(g, a)[gate] \in BOOLEAN
<1>1. PICK v : v = [x \in GatesOf(g) |-> ValueFrom(g, a, v, x)]
  BY ValuesExist
<1> DEFINE w == Values(g, a)
<1>2. w = [x \in GatesOf(g) |-> ValueFrom(g, a, w, x)]
  BY <1>1, Zenon DEF Values, ValueFrom
<1>3. w[gate] = ValueFrom(g, a, w, gate)
  BY <1>2
<1>4. ValueFrom(g, a, w, gate) \in BOOLEAN
  BY DEF ValueFrom, GateHolds
<1>5. gate \in TrueNodes(g, a) <=> w[gate]
  BY DEF TrueNodes, VariablesOf
<1>6. ASSUME NEW n \in ArgNodes(g, gate)
      PROVE  n \in TrueNodes(g, a) <=> n \in {m \in ArgNodes(g, gate) : IF m \in GatesOf(g) THEN w[m] ELSE m \in a}
  <2> HIDE DEF w
  <2>1. n \in TrueNodes(g, a) <=> n \in a \/ (n \in GatesOf(g) /\ w[n])
    BY DEF TrueNodes, w
  <2>2. n \in GatesOf(g) => n \notin a
    BY DEF VariablesOf
  <2> QED
    BY <2>1, <2>2
<1>7. GateHolds(g, gate, TrueNodes(g, a)) = ValueFrom(g, a, w, gate)
  <2> HIDE DEF w
  <2> QED
    BY <1>6, OnlyArgumentsMatter DEF ValueFrom
<1>8. w[gate] = (gate \in TrueNodes(g, a)) /\ w[gate] \in BOOLEAN
  <2> HIDE DEF w
  <2>1. w[gate] \in BOOLEAN
    BY <1>3, <1>4
  <2> QED
    BY <1>5, <2>1
<1> QED
  BY <1>3, <1>5, <1>7, <1>8

-----------------------------------------------------------------------------
(* The order that the conversion finds *)

\* The graph has nothing that the root has not.
LEMMA AllUnderRoot ==
  ASSUME NEW g, IsPdag(g)
  PROVE  /\ GatesOf(g) \subseteq GatesUnder(g, g.root)
         /\ GatesOf(g) \cup VariablesOf(g) \subseteq Descendants(g, g.root) \cup {g.root}
<1>1. GatesOf(g) \subseteq GatesUnder(g, g.root)
  <2> SUFFICES ASSUME GatesOf(g) \ GatesUnder(g, g.root) # {} PROVE FALSE
    OBVIOUS
  <2> DEFINE S == GatesOf(g) \ GatesUnder(g, g.root)
  <2>1. S \in (SUBSET GatesOf(g)) \ {{}}
    OBVIOUS
  <2>2. PICK x \in S : ParentsOf(g, x) \cap S = {}
    BY <2>1 DEF IsPdag
  <2>3. g.root \in GatesUnder(g, g.root)
    BY UnderIsSmallest DEF IsPdag
  <2>4. PICK q \in ParentsOf(g, x) : TRUE
    BY <2>2, <2>3 DEF IsPdag
  <2>5. q \in GatesUnder(g, g.root) /\ x \in ArgNodes(g, q) \cap GatesOf(g)
    BY <2>2, <2>4 DEF ParentsOf
  <2> QED
    BY <2>2, <2>5, UnderIsSmallest DEF IsPdag
<1>2. ASSUME NEW x \in GatesOf(g), x # g.root PROVE x \in Descendants(g, g.root)
  <2>1. PICK q \in ParentsOf(g, x) : TRUE
    BY <1>2 DEF IsPdag
  <2> QED
    BY <1>1, <2>1 DEF ParentsOf, Descendants
<1>3. VariablesOf(g) \subseteq Descendants(g, g.root)
  BY <1>1 DEF VariablesOf, Descendants
<1> QED
  BY <1>1, <1>2, <1>3

\* The nodes of the graph but for the constant.
Nodes == Gates \cup VariablesOf(graph)
TrivialGraph == graph.type[graph.root] = "null"

\* Every node gets an order of its own, and the conversion starts when all have one.
OrderIsGood ==
  /\ graph \in Graphs /\ IsFiniteSet(DOMAIN order) /\ DOMAIN order \subseteq Nat \ {0}
  /\ \A x \in DOMAIN order : order[x] \in 1 .. Cardinality(DOMAIN order)
  /\ \A x, y \in DOMAIN order : order[x] = order[y] => x = y
  /\ phase = "order" => ~TrivialGraph /\ frames[1].gate = graph.root
  /\ phase # "order" => (IF TrivialGraph THEN VariablesOf(graph) ELSE Nodes) \subseteq DOMAIN order

\* A trivial graph has no gate but the root.
LEMMA TrivialHasRoot ==
  ASSUME NEW g, IsPdag(g), g.type[g.root] = "null"
  PROVE  /\ GatesOf(g) = {g.root} /\ IsTrivial(g)
         /\ \E arg \in g.args[g.root] :
              g.args[g.root] = {arg} /\ arg[2] \notin GatesOf(g) /\ VariablesOf(g) = {arg[2]} \ {Constant}
<1>1. IsTrivial(g)
  BY DEF IsPdag
<1>2. PICK arg \in g.args[g.root] : g.args[g.root] = {arg} /\ arg[2] \notin GatesOf(g)
  BY <1>1 DEF IsTrivial
<1>3. GatesOf(g) = {g.root}
  <2> SUFFICES ASSUME GatesOf(g) \ {g.root} # {} PROVE FALSE
    BY DEF IsPdag
  <2> DEFINE S == GatesOf(g) \ {g.root}
  <2>1. S \in (SUBSET GatesOf(g)) \ {{}}
    OBVIOUS
  <2>2. PICK x \in S : ParentsOf(g, x) \cap S = {}
    BY <2>1 DEF IsPdag
  <2>3. PICK q \in ParentsOf(g, x) : TRUE
    BY <2>2 DEF IsPdag
  <2>4. q = g.root /\ x \in ArgNodes(g, q)
    BY <2>2, <2>3 DEF ParentsOf
  <2> QED
    BY <1>2, <2>2, <2>4 DEF ArgNodes
<1>4. VariablesOf(g) = {arg[2]} \ {Constant}
  <2>1. \A gate \in GatesOf(g) : ArgNodes(g, gate) = {arg[2]}
    BY <1>2, <1>3 DEF ArgNodes
  <2> QED
    BY <1>2, <1>3, <2>1 DEF VariablesOf
<1> QED
  BY <1>1, <1>2, <1>3, <1>4

LEMMA OrderIsGoodInit == Init => OrderIsGood
<1> SUFFICES ASSUME Init PROVE OrderIsGood
  OBVIOUS
<1>1. /\ graph \in Graphs /\ IsPdag(graph)
      /\ phase = IF TrivialGraph THEN "construct" ELSE "order"
      /\ order = [x \in IF phase = "order" THEN {} ELSE VariablesOf(graph) |-> 1]
      /\ phase = "order" => frames = <<[gate |-> graph.root, gates |-> ArgGates(graph.root)]>>
  BY GraphsAssumption DEF Init, ConversionInit, TrivialGraph
<1>2. CASE phase = "order"
  <2>1. DOMAIN order = {} /\ ~TrivialGraph /\ frames[1].gate = graph.root
    BY <1>1, <1>2
  <2> QED
    BY <1>1, <1>2, <2>1, FS_EmptySet DEF OrderIsGood
<1>3. CASE phase # "order"
  <2>1. TrivialGraph /\ DOMAIN order = VariablesOf(graph) /\ \A x \in VariablesOf(graph) : order[x] = 1
    BY <1>1, <1>3
  <2>2. PICK arg \in graph.args[graph.root] : VariablesOf(graph) = {arg[2]} \ {Constant}
    BY <1>1, <2>1, TrivialHasRoot DEF TrivialGraph
  <2>3. arg[2] \in Nat \ {0}
    BY <1>1 DEF IsPdag
  <2>4. /\ IsFiniteSet(VariablesOf(graph)) /\ VariablesOf(graph) \subseteq {arg[2]}
        /\ VariablesOf(graph) # {} => VariablesOf(graph) = {arg[2]} /\ Cardinality(VariablesOf(graph)) = 1
    <3>1. VariablesOf(graph) = {} \/ VariablesOf(graph) = {arg[2]}
      BY <2>2
    <3>2. IsFiniteSet({}) /\ IsFiniteSet({arg[2]}) /\ Cardinality({arg[2]}) = 1
      BY FS_Singleton, FS_EmptySet
    <3> QED
      BY <3>1, <3>2
  <2>5. \A x \in VariablesOf(graph) : 1 \in 1 .. Cardinality(VariablesOf(graph))
    BY <2>4
  <2> QED
    BY <1>1, <1>3, <2>1, <2>3, <2>4, <2>5 DEF OrderIsGood
<1> QED
  BY <1>2, <1>3

\* The next order is new.
LEMMA NextOrderIsGood ==
  ASSUME OrderIsGood, NEW x, x \notin DOMAIN order, x \in Nat \ {0}, order' = Emplace(order, x, NextOrder)
  PROVE  /\ IsFiniteSet(DOMAIN order') /\ DOMAIN order' = DOMAIN order \cup {x}
         /\ DOMAIN order' \subseteq Nat \ {0}
         /\ \A y \in DOMAIN order' : order'[y] \in 1 .. Cardinality(DOMAIN order')
         /\ \A y, z \in DOMAIN order' : order'[y] = order'[z] => y = z
<1> DEFINE c == Cardinality(DOMAIN order)
<1>1. /\ DOMAIN order' = DOMAIN order \cup {x}
      /\ \A y \in DOMAIN order : order'[y] = order[y]
      /\ order'[x] = c + 1 /\ c \in Nat /\ Cardinality(DOMAIN order') = c + 1
      /\ IsFiniteSet(DOMAIN order')
  BY OrderAdded DEF OrderIsGood
<1>2. \A y \in DOMAIN order : order[y] \in 1 .. c
  BY DEF OrderIsGood
<1>3. \A y, z \in DOMAIN order : order[y] = order[z] => y = z
  BY DEF OrderIsGood
<1>4. DOMAIN order \subseteq Nat \ {0}
  BY DEF OrderIsGood
<1> HIDE DEF c
<1>5. \A y \in DOMAIN order' : order'[y] \in 1 .. c + 1
  BY <1>1, <1>2
<1>6. \A y, z \in DOMAIN order' : order'[y] = order'[z] => y = z
  BY <1>1, <1>2, <1>3
<1> QED
  BY <1>1, <1>4, <1>5, <1>6

LEMMA OrderIsGoodStep == OrderInv /\ OrderIsGood /\ [Next]_vars => OrderIsGood'
<1> SUFFICES ASSUME OrderInv, OrderIsGood, [Next]_vars PROVE OrderIsGood'
  OBVIOUS
<1>1. graph' = graph /\ Gates' = Gates /\ Nodes' = Nodes /\ TrivialGraph' = TrivialGraph
  BY DEF Next, Convert, Conversion, OrderGateArgument, OrderVariable, OrderGate, ConstructTrivial, Construct,
         ConvertMemoized, ConvertArgument, FinishGate, Freeze, Total, Update, EndOfTime, Intermediates,
         Importance, EndOfImportance, Trial, EndOfAnalysis, Terminated, vars, conversion,
         Gates, Nodes, TrivialGraph
<1>2. IsPdag(graph)
  BY GraphsAssumption DEF OrderIsGood
<1>3. phase = "order" => Stacked /\ Len(frames) \in Nat \ {0} /\ Len(frames) \in 1 .. Len(frames)
  <2>1. ASSUME phase = "order" PROVE Stacked /\ Len(frames) \in Nat \ {0}
    BY <2>1, LenProperties DEF OrderInv, Ordering, Stacked
  <2> QED
    BY <2>1
<1>4. CASE OrderGateArgument
  <2>1. phase = "order" /\ phase' = "order" /\ order' = order
    BY <1>4 DEF OrderGateArgument
  <2>2. PICK b \in First(Frame.gates) :
          LET rest == [Frame EXCEPT !.gates = @ \ {b}]
          IN  frames' = IF b \in DOMAIN order THEN WithTop(rest)
                        ELSE Append(WithTop(rest), [gate |-> b, gates |-> ArgGates(b)])
    BY <1>4 DEF OrderGateArgument
  <2> DEFINE rest == [Frame EXCEPT !.gates = @ \ {b}]
  <2>3. {"gate", "gates"} \subseteq DOMAIN Frame
    BY <1>3, <2>1 DEF Stacked, Frame
  <2>4. rest.gate = Frame.gate
    BY <2>3
  <2>5. frames' = WithTop(rest) \/ \E e : frames' = Append(WithTop(rest), e)
    BY <2>2
  <2> HIDE DEF rest
  <2>6. frames'[1].gate = frames[1].gate
    <3> DEFINE n == Len(frames)
    <3>1. /\ Len(WithTop(rest)) = n /\ WithTop(rest)[n] = rest
          /\ \A i \in 1 .. n - 1 : WithTop(rest)[i] = frames[i]
          /\ n \in Nat \ {0}
      BY <1>3, <2>1, FrameOperations
    <3>2. ASSUME NEW e
          PROVE  /\ Append(WithTop(rest), e)[n] = rest
                 /\ \A i \in 1 .. n - 1 : Append(WithTop(rest), e)[i] = frames[i]
      <4>1. Stacked /\ Len(frames) > 0
        BY <1>3, <2>1
      <4>2. /\ \E S : Append(WithTop(rest), e) \in Seq(S)
            /\ Len(Append(WithTop(rest), e)) = Len(frames) + 1
            /\ \A i \in 1 .. Len(frames) - 1 : Append(WithTop(rest), e)[i] = frames[i]
            /\ Append(WithTop(rest), e)[Len(frames)] = rest
            /\ Append(WithTop(rest), e)[Len(frames) + 1] = e
        BY <4>1, PushUnder
      <4> QED
        BY <4>2
    <3>3. frames'[n] = rest /\ \A i \in 1 .. n - 1 : frames'[i] = frames[i]
      BY <2>5, <3>1, <3>2
    <3>4. 1 = n \/ 1 \in 1 .. n - 1
      BY <3>1
    <3> QED
      BY <2>4, <3>3, <3>4 DEF Frame
  <2> QED
    BY <1>1, <2>1, <2>6 DEF OrderIsGood
<1>5. CASE OrderVariable
  <2>1. phase = "order" /\ phase' = "order" /\ frames' = frames
    BY <1>5 DEF OrderVariable
  <2>2. PICK x \in Unordered : order' = Emplace(order, x, NextOrder)
    BY <1>5 DEF OrderVariable, First
  <2>3. x \notin DOMAIN order /\ x \in Nat \ {0}
    <3>1. Frame.gate \in Gates
      BY <1>3, <2>1 DEF Stacked, Frame
    <3> QED
      BY <1>2, <2>2, <3>1 DEF Unordered, ArgVariables, ArgNodes, Gates, IsPdag
  <2> QED
    BY <1>1, <2>1, <2>2, <2>3, NextOrderIsGood DEF OrderIsGood
<1>6. CASE OrderGate
  <2>1. phase = "order" /\ frames' = Pop /\ Frame.gates = {} /\ Unordered = {}
    BY <1>6 DEF OrderGate
  <2> DEFINE x == Frame.gate
             n == Len(frames)
  <2>2. /\ x \in Gates /\ x \notin DOMAIN order
        /\ order' = Emplace(order, x, NextOrder)
    BY <1>3, <1>6, <2>1 DEF Stacked, Frame, OrderGate, OrderInv, Ordering
  <2>3. x \in Nat \ {0}
    BY <1>2, <2>2 DEF Gates, IsPdag
  <2>4. /\ IsFiniteSet(DOMAIN order') /\ DOMAIN order' = DOMAIN order \cup {x}
        /\ DOMAIN order' \subseteq Nat \ {0}
        /\ \A y \in DOMAIN order' : order'[y] \in 1 .. Cardinality(DOMAIN order')
        /\ \A y, z \in DOMAIN order' : order'[y] = order'[z] => y = z
    <3> HIDE DEF x
    <3> QED
      BY <2>2, <2>3, NextOrderIsGood
  <2>5. /\ Len(Pop) = n - 1 /\ \A i \in 1 .. n - 1 : Pop[i] = frames[i]
        /\ Pop = <<>> <=> n = 1
    BY <1>3, <2>1, FrameOperations
  <2>6. CASE Pop = <<>>
    <3>1. phase' = "construct" /\ n = 1
      BY <1>6, <2>5, <2>6 DEF OrderGate
    <3>2. x = graph.root /\ ~TrivialGraph
      BY <2>1, <3>1 DEF OrderIsGood, Frame
    <3>3. ArgGates(x) \subseteq DOMAIN order
      BY <1>3, <2>1, <3>1 DEF OrderInv, Ordering, Frame
    <3>4. ArgNodes(graph, x) \subseteq DOMAIN order
      BY <2>1, <3>3 DEF ArgGates, Unordered, ArgVariables
    <3>5. Descendants(graph, x) \subseteq DOMAIN order
      <4>1. \A a \in DOMAIN order \cap Gates : ArgNodes(graph, a) \subseteq DOMAIN order
        BY <2>1 DEF OrderInv, Ordering
      <4> HIDE DEF x
      <4> QED
        BY <2>2, <3>4, <4>1, OrderedIsClosed
    <3>6. Nodes \subseteq DOMAIN order'
      BY <1>2, <2>4, <3>2, <3>5, AllUnderRoot DEF Nodes, Gates
    <3> QED
      BY <1>1, <2>4, <3>1, <3>2, <3>6 DEF OrderIsGood
  <2>7. CASE Pop # <<>>
    <3>1. phase' = "order" /\ 1 \in 1 .. n - 1
      BY <1>3, <1>6, <2>1, <2>5, <2>7 DEF OrderGate
    <3> QED
      BY <1>1, <2>1, <2>4, <2>5, <3>1 DEF OrderIsGood
  <2> QED
    BY <2>6, <2>7
<1>7. CASE \/ ConstructTrivial \/ Construct \/ ConvertMemoized \/ ConvertArgument \/ FinishGate
           \/ Freeze \/ Total \/ Update \/ EndOfTime \/ Intermediates
           \/ Importance \/ EndOfImportance \/ Trial \/ EndOfAnalysis
  <2>1. order' = order /\ phase # "order" /\ phase' # "order"
    BY <1>7 DEF ConstructTrivial, Construct, ConvertMemoized, ConvertArgument,
                FinishGate, FinishConversion, ReturnTo, Freeze, Total, Update, EndOfTime, Intermediates,
                Importance, EndOfImportance, Trial, EndOfAnalysis, conversion
  <2> QED
    BY <1>1, <2>1 DEF OrderIsGood
<1>8. CASE UNCHANGED vars
  <2>1. UNCHANGED <<order, phase, frames>>
    BY <1>8 DEF vars, conversion
  <2> QED
    BY <1>1, <2>1 DEF OrderIsGood
<1> QED
  BY <1>4, <1>5, <1>6, <1>7, <1>8 DEF Next, Convert, Conversion, Terminated

\* So Apply can be asked for the functions over the order.
LEMMA OrderIsOrder == OrderIsGood => IsOrder(order)
<1> SUFFICES ASSUME OrderIsGood PROVE IsOrder(order)
  OBVIOUS
<1>1. \A x \in DOMAIN order : order[x] \in Nat \ {0}
  BY FS_CardinalityType DEF OrderIsGood
<1> QED
  BY <1>1 DEF OrderIsGood, IsOrder

-----------------------------------------------------------------------------
(* The functions of the gates *)

\* The nodes in true go together: a gate is one of them if its arguments make it true.
Consistent(true) == \A gate \in Gates : gate \in true <=> GateHolds(graph, gate, true)

\* The functions over the order, with the values they should have.
GoodFunctions(functions) ==
  FunctionsOver(order, functions) /\ \A true : ValuesAreRight(order, functions, true)

\* Nothing but the nodes makes a difference to f.
Within(f, nodes) == \A true : Value(f, true) = Value(f, true \cap nodes)

StandsFor(f, arg) == \A true : Consistent(true) => Value(f, true) = (arg[1] # (arg[2] \in true))

\* The function of a gate, the proxies of modules taken for their gates.
FunctionOf(functions, f, gate) ==
  /\ f \in functions /\ Within(f, Descendants(graph, gate))
  /\ \A true : Consistent(true) => Value(f, true) = (gate \in true)

\* A call for a gate has a function for every argument that is not among those left,
\* and no other function.
CallIsRight(functions, gate, left, args) ==
  /\ args \subseteq functions
  /\ \A f \in args : /\ Within(f, Descendants(graph, gate))
                     /\ \E arg \in graph.args[gate] : arg[2] \notin left /\ StandsFor(f, arg)
  /\ \A arg \in graph.args[gate] : arg[2] \notin left => \E f \in args : StandsFor(f, arg)

\* What the lemmas on functions need to know of the state.
Ready == IsPdag(graph) /\ ~TrivialGraph /\ Nodes \subseteq DOMAIN order

LEMMA LiteralIsRight ==
  ASSUME NEW F, GoodFunctions(F), NEW x \in DOMAIN order
  PROVE  /\ Literal(x) \in F
         /\ \A true : Value(Literal(x), true) = (x \in true)
         /\ \A S : x \in S => Within(Literal(x), S)
<1>1. Literal(x) \in F /\ \A true : Value(Literal(x), true) = (x \in true)
  BY DEF GoodFunctions, FunctionsOver, ValuesAreRight, Value
<1>2. ASSUME NEW S, x \in S, NEW true PROVE Value(Literal(x), true) = Value(Literal(x), true \cap S)
  <2>1. x \in true <=> x \in true \cap S
    BY <1>2
  <2> QED
    BY <1>1, <2>1
<1> QED
  BY <1>1, <1>2 DEF Within

LEMMA FlipIsRight ==
  ASSUME NEW F, GoodFunctions(F), NEW f \in F, NEW c \in BOOLEAN
  PROVE  /\ Flip(f, c) \in F
         /\ \A true : Value(f, true) \in BOOLEAN /\ Value(Flip(f, c), true) = (c # Value(f, true))
         /\ \A S : Within(f, S) => Within(Flip(f, c), S)
<1>1. /\ Flip(f, c) \in F
      /\ \A true : Value(f, true) \in BOOLEAN /\ Value(Flip(f, c), true) = (c # Value(f, true))
  <2>1. Flip(f, c) \in F
    BY DEF GoodFunctions, FunctionsOver
  <2>2. ASSUME NEW true
        PROVE  Value(f, true) \in BOOLEAN /\ Value(Flip(f, c), true) = (c # Value(f, true))
    <3>1. ValuesAreRight(order, F, true)
      BY DEF GoodFunctions
    <3>2. \A h \in F, d \in BOOLEAN :
            Value(h, true) \in BOOLEAN /\ Value(Flip(h, d), true) = (d # Value(h, true))
      BY <3>1, Zenon DEF ValuesAreRight, Value
    <3> QED
      BY <3>2, Zenon
  <2> QED
    BY <2>1, <2>2
<1>2. ASSUME NEW S, Within(f, S), NEW true PROVE Value(Flip(f, c), true) = Value(Flip(f, c), true \cap S)
  <2>1. Value(f, true) = Value(f, true \cap S)
    BY <1>2 DEF Within
  <2> QED
    BY <1>1, <2>1
<1> QED
  BY <1>1, <1>2 DEF Within

\* A function that depends on less depends on no more.
LEMMA WithinMore ==
  ASSUME NEW f, NEW S, NEW T, S \subseteq T, Within(f, S)
  PROVE  Within(f, T)
<1> SUFFICES ASSUME NEW true PROVE Value(f, true) = Value(f, true \cap T)
  BY DEF Within
<1>1. (true \cap T) \cap S = true \cap S
  OBVIOUS
<1>2. Value(f, true) = Value(f, true \cap S) /\ Value(f, true \cap T) = Value(f, (true \cap T) \cap S)
  BY DEF Within
<1> QED
  BY <1>1, <1>2

\* What is under an argument is under the gate.
LEMMA ArgumentIsUnder ==
  ASSUME NEW gate \in Gates
  PROVE  /\ ArgNodes(graph, gate) \subseteq Descendants(graph, gate)
         /\ \A b \in ArgGates(gate) : Descendants(graph, b) \subseteq Descendants(graph, gate)
<1>1. gate \in GatesUnder(graph, gate)
  BY UnderIsSmallest DEF Gates
<1>2. ASSUME NEW b \in ArgGates(gate) PROVE Descendants(graph, b) \subseteq Descendants(graph, gate)
  <2>1. b \in GatesUnder(graph, gate)
    BY <1>1, UnderIsSmallest DEF Gates, ArgGates
  <2>2. GatesUnder(graph, b) \subseteq GatesUnder(graph, gate)
    BY <2>1, UnderIsTransitive DEF Gates
  <2> QED
    BY <2>2 DEF Descendants
<1> QED
  BY <1>1, <1>2 DEF Descendants

\* A call begins with its variables.
LEMMA CallStarts ==
  ASSUME Ready, NEW F, GoodFunctions(F), NEW gate \in Gates
  PROVE  CallIsRight(F, gate, ArgGates(gate), {Flip(Literal(arg[2]), arg[1]) : arg \in SignedVariables(gate)})
<1> DEFINE args == {Flip(Literal(arg[2]), arg[1]) : arg \in SignedVariables(gate)}
<1>1. ASSUME NEW arg \in SignedVariables(gate)
      PROVE  /\ Flip(Literal(arg[2]), arg[1]) \in F
             /\ Within(Flip(Literal(arg[2]), arg[1]), Descendants(graph, gate))
             /\ arg \in graph.args[gate] /\ arg[2] \notin ArgGates(gate)
             /\ StandsFor(Flip(Literal(arg[2]), arg[1]), arg)
  <2>1. arg \in graph.args[gate] /\ arg[2] \notin Gates /\ arg[2] \in ArgNodes(graph, gate)
    BY DEF SignedVariables, ArgNodes
  <2>2. arg[1] \in BOOLEAN /\ arg[2] # Constant
    BY <2>1 DEF Ready, IsPdag, IsTrivial, TrivialGraph, Gates
  <2>3. arg[2] \in DOMAIN order
    BY <2>1, <2>2 DEF Ready, Nodes, VariablesOf, Gates
  <2>4. arg[2] \in Descendants(graph, gate)
    BY <2>1, ArgumentIsUnder
  <2> DEFINE x == arg[2]
             c == arg[1]
  <2> HIDE DEF x, c
  <2>5. /\ Literal(x) \in F /\ Within(Literal(x), Descendants(graph, gate))
        /\ \A true : Value(Literal(x), true) = (x \in true)
    BY <2>3, <2>4, LiteralIsRight DEF x
  <2>6. /\ Flip(Literal(x), c) \in F /\ Within(Flip(Literal(x), c), Descendants(graph, gate))
        /\ \A true : Value(Flip(Literal(x), c), true) = (c # Value(Literal(x), true))
    BY <2>2, <2>5, FlipIsRight DEF c
  <2>7. \A true : Value(Flip(Literal(x), c), true) = (c # (x \in true))
    BY <2>5, <2>6
  <2> QED
    BY <2>1, <2>6, <2>7 DEF StandsFor, ArgGates, x, c
<1>2. ASSUME NEW arg \in graph.args[gate], arg[2] \notin ArgGates(gate)
      PROVE  arg \in SignedVariables(gate)
  BY <1>2 DEF SignedVariables, ArgGates, ArgNodes
<1> QED
  BY <1>1, <1>2 DEF CallIsRight

\* The function that goes to the parent: it stands for the gate, as its proxy or itself.
LEMMA ArgumentIsRight ==
  ASSUME Ready, NEW F, GoodFunctions(F), NEW gate \in Gates, NEW b \in ArgGates(gate),
         NEW f, FunctionOf(F, f, b)
  PROVE  /\ AsArgument(b, f) \in F
         /\ Within(AsArgument(b, f), Descendants(graph, gate))
         /\ \A true : Consistent(true) => Value(AsArgument(b, f), true) = (b \in true)
<1>1. b \in Gates /\ b \in ArgNodes(graph, gate)
  BY DEF ArgGates
<1>2. CASE Module(b)
  <2>1. b \in DOMAIN order /\ b \in Descendants(graph, gate)
    BY <1>1, ArgumentIsUnder DEF Ready, Nodes
  <2> QED
    BY <1>2, <2>1, LiteralIsRight DEF AsArgument
<1>3. CASE ~Module(b)
  <2>1. Descendants(graph, b) \subseteq Descendants(graph, gate)
    BY ArgumentIsUnder
  <2> QED
    BY <1>3, <2>1, WithinMore DEF AsArgument, FunctionOf
<1> QED
  BY <1>2, <1>3

\* A gate argument has been converted: its functions stand for the argument.
LEMMA ArgumentConverted ==
  ASSUME Ready, NEW F, GoodFunctions(F), NEW gate \in Gates, NEW left, NEW args,
         CallIsRight(F, gate, left, args), left \subseteq ArgGates(gate), NEW b \in left,
         NEW f, FunctionOf(F, f, b)
  PROVE  CallIsRight(F, gate, left \ {b}, args \cup {Flip(AsArgument(b, f), c) : c \in Signs(gate, b)})
<1> DEFINE h == AsArgument(b, f)
           new == {Flip(h, c) : c \in Signs(gate, b)}
<1>1. /\ h \in F /\ Within(h, Descendants(graph, gate))
      /\ \A true : Consistent(true) => Value(h, true) = (b \in true)
  BY ArgumentIsRight
<1> HIDE DEF h
<1>2. ASSUME NEW arg \in graph.args[gate], arg[2] = b
      PROVE  /\ Flip(h, arg[1]) \in F /\ Within(Flip(h, arg[1]), Descendants(graph, gate))
             /\ StandsFor(Flip(h, arg[1]), arg)
  <2> DEFINE c == arg[1]
  <2>1. c \in BOOLEAN
    BY DEF Ready, IsPdag, Gates
  <2> HIDE DEF c
  <2>2. /\ Flip(h, c) \in F /\ Within(Flip(h, c), Descendants(graph, gate))
        /\ \A true : Value(Flip(h, c), true) = (c # Value(h, true))
    BY <1>1, <2>1, FlipIsRight
  <2>3. \A true : Consistent(true) => Value(Flip(h, c), true) = (c # (b \in true))
    BY <1>1, <2>2
  <2> QED
    BY <1>2, <2>2, <2>3 DEF StandsFor, c
<1>3. ASSUME NEW g \in new
      PROVE  \E arg \in graph.args[gate] : arg[2] = b /\ g = Flip(h, arg[1])
  BY DEF Signs
<1>4. ASSUME NEW arg \in graph.args[gate], arg[2] = b PROVE Flip(h, arg[1]) \in new
  BY <1>4 DEF Signs
<1>5. ASSUME NEW g \in args \cup new
      PROVE  /\ g \in F /\ Within(g, Descendants(graph, gate))
             /\ \E arg \in graph.args[gate] : arg[2] \notin left \ {b} /\ StandsFor(g, arg)
  <2>1. CASE g \in args
    BY <2>1 DEF CallIsRight
  <2>2. CASE g \in new
    BY <1>2, <1>3, <2>2
  <2> HIDE DEF new
  <2> QED
    BY <2>1, <2>2
<1>6. ASSUME NEW arg \in graph.args[gate], arg[2] \notin left \ {b}
      PROVE  \E g \in args \cup new : StandsFor(g, arg)
  <2> HIDE DEF new
  <2>1. CASE arg[2] = b
    BY <1>2, <1>4, <2>1
  <2>2. CASE arg[2] # b
    BY <1>6, <2>2 DEF CallIsRight
  <2> QED
    BY <2>1, <2>2
<1>7. CallIsRight(F, gate, left \ {b}, args \cup new)
  <2> HIDE DEF new
  <2> QED
    BY <1>5, <1>6 DEF CallIsRight
<1> QED
  BY <1>7 DEF h

\* All arguments are converted: the fold is the function of the gate.
LEMMA FoldIsRight ==
  ASSUME Ready, NEW F, GoodFunctions(F), NEW gate \in Gates, NEW args,
         CallIsRight(F, gate, {}, args)
  PROVE  FunctionOf(F, ApplyAll(order, graph.type[gate], args), gate)
<1> DEFINE type == graph.type[gate]
           f == ApplyAll(order, type, args)
<1>1. type \in {"and", "or"} /\ graph.args[gate] # {} /\ Constant \notin ArgNodes(graph, gate)
  BY DEF Ready, IsPdag, IsTrivial, TrivialGraph, Gates
<1>2. args \in (SUBSET F) \ {{}}
  BY <1>1 DEF CallIsRight
<1>3. f \in F
  BY <1>1, <1>2 DEF GoodFunctions, FunctionsOver
<1>4. \A true :
        /\ type = "and" => Value(f, true) = \A g \in args : Value(g, true)
        /\ type = "or" => Value(f, true) = \E g \in args : Value(g, true)
  <2> SUFFICES ASSUME NEW true
               PROVE  /\ type = "and" => Value(f, true) = \A g \in args : Value(g, true)
                      /\ type = "or" => Value(f, true) = \E g \in args : Value(g, true)
    OBVIOUS
  <2>1. ValuesAreRight(order, F, true)
    BY DEF GoodFunctions
  <2>2. /\ Value(ApplyAll(order, "and", args), true) = \A g \in args : Value(g, true)
        /\ Value(ApplyAll(order, "or", args), true) = \E g \in args : Value(g, true)
    BY <1>2, <2>1, Zenon DEF ValuesAreRight, Value
  <2> QED
    BY <2>2, Zenon
<1> HIDE DEF f, type
<1>5. Within(f, Descendants(graph, gate))
  <2> DEFINE S == Descendants(graph, gate)
  <2> SUFFICES ASSUME NEW true PROVE Value(f, true) = Value(f, true \cap S)
    BY DEF Within
  <2>1. \A g \in args : Value(g, true) = Value(g, true \cap S)
    BY DEF CallIsRight, Within
  <2> HIDE DEF S
  <2>2. CASE type = "and"
    BY <1>4, <2>1, <2>2
  <2>3. CASE type = "or"
    BY <1>4, <2>1, <2>3
  <2> QED
    BY <1>1, <2>2, <2>3
<1>6. ASSUME NEW true, Consistent(true) PROVE Value(f, true) = (gate \in true)
  <2> DEFINE Holds(arg) == arg[1] # (arg[2] \in true \cup {Constant})
  <2>1. gate \in true <=> IF type = "and" THEN \A arg \in graph.args[gate] : Holds(arg)
                                          ELSE \E arg \in graph.args[gate] : Holds(arg)
    BY <1>6 DEF Consistent, GateHolds, type
  <2>2. ASSUME NEW arg \in graph.args[gate], NEW g, StandsFor(g, arg)
        PROVE  Value(g, true) = Holds(arg)
    <3>1. arg[2] \in ArgNodes(graph, gate) /\ arg[2] # Constant
      BY <1>1 DEF ArgNodes
    <3>2. Value(g, true) = (arg[1] # (arg[2] \in true))
      BY <1>6, <2>2 DEF StandsFor
    <3> QED
      BY <3>1, <3>2
  <2>3. \A g \in args : \E arg \in graph.args[gate] : Value(g, true) = Holds(arg)
    BY <2>2 DEF CallIsRight
  <2>4. \A arg \in graph.args[gate] : \E g \in args : Value(g, true) = Holds(arg)
    BY <2>2 DEF CallIsRight
  <2> HIDE DEF Holds
  <2>7. Value(f, true) \in BOOLEAN
    BY <1>3, FlipIsRight
  <2>5. CASE type = "and"
    <3>1. (\A g \in args : Value(g, true)) <=> \A arg \in graph.args[gate] : Holds(arg)
      BY <2>3, <2>4
    <3>2. Value(f, true) <=> \A g \in args : Value(g, true)
      BY <1>4, <2>5
    <3>3. gate \in true <=> \A arg \in graph.args[gate] : Holds(arg)
      BY <2>1, <2>5
    <3>4. Value(f, true) <=> gate \in true
      BY <3>1, <3>2, <3>3, Zenon
    <3> QED
      BY <2>7, <3>4
  <2>6. CASE type = "or"
    <3>1. (\E g \in args : Value(g, true)) <=> \E arg \in graph.args[gate] : Holds(arg)
      BY <2>3, <2>4
    <3>2. Value(f, true) <=> \E g \in args : Value(g, true)
      BY <1>4, <2>6
    <3>3. gate \in true <=> \E arg \in graph.args[gate] : Holds(arg)
      BY <2>1, <2>6
    <3>4. Value(f, true) <=> gate \in true
      BY <3>1, <3>2, <3>3, Zenon
    <3> QED
      BY <2>7, <3>4
  <2> QED
    BY <1>1, <2>5, <2>6
<1>7. FunctionOf(F, f, gate)
  BY <1>3, <1>5, <1>6 DEF FunctionOf
<1> QED
  BY <1>7 DEF f, type

-----------------------------------------------------------------------------
(* The conversion *)

\* While the graph is converted: the active calls, the memo and the modules.
ConvertsRight(functions) ==
  /\ Ready /\ GoodFunctions(functions) /\ Stacked /\ Len(frames) > 0
  /\ frames[1].gate = graph.root
  /\ \A b \in DOMAIN gates :
       /\ b \in Gates /\ {"function", "processed"} \subseteq DOMAIN gates[b]
       /\ FunctionOf(functions, gates[b].function, b)
  /\ \A m \in DOMAIN modules : m \in Gates /\ FunctionOf(functions, modules[m], m)
  /\ \A i \in 1 .. Len(frames) :
       /\ "args" \in DOMAIN frames[i]
       /\ CallIsRight(functions, frames[i].gate, frames[i].gates, frames[i].args)

RightInv ==
  /\ phase \in {"order", "construct"} => modules = <<>>
  /\ phase = "convert" => \E functions : ConvertsRight(functions)
  /\ ConversionIsRight

\* What a step has to keep.
LEMMA ConvertsRightFrom ==
  ASSUME NEW F, ConvertsRight(F), UNCHANGED <<graph, order>>, Stacked', Len(frames') > 0,
         frames'[1].gate = graph.root,
         \A b \in DOMAIN gates' :
           /\ b \in Gates /\ {"function", "processed"} \subseteq DOMAIN gates'[b]
           /\ FunctionOf(F, gates'[b].function, b),
         \A m \in DOMAIN modules' : m \in Gates /\ FunctionOf(F, modules'[m], m),
         \A i \in 1 .. Len(frames') :
           /\ "args" \in DOMAIN frames'[i]
           /\ CallIsRight(F, frames'[i].gate, frames'[i].gates, frames'[i].args)
  PROVE  ConvertsRight(F)'
<1>1. Gates' = Gates /\ Ready' /\ GoodFunctions(F)'
  BY DEF ConvertsRight, Ready, Gates, TrivialGraph, Nodes, GoodFunctions
<1>2. \A true : Consistent(true)' = Consistent(true)
  BY <1>1 DEF Consistent
<1>3. \A f, b : FunctionOf(F, f, b) => FunctionOf(F, f, b)'
  BY <1>2 DEF FunctionOf, Within, Value
<1>4. \A f, arg : StandsFor(f, arg) => StandsFor(f, arg)'
  BY <1>2 DEF StandsFor, Value
<1>5. \A f, S : Within(f, S) => Within(f, S)'
  BY DEF Within, Value
<1>6. \A i \in 1 .. Len(frames') : CallIsRight(F, frames[i].gate, frames[i].gates, frames[i].args)'
  BY <1>4, <1>5 DEF CallIsRight
<1>7. \A b \in DOMAIN gates' : FunctionOf(F, gates[b].function, b)'
  BY <1>3
<1>8. \A m \in DOMAIN modules' : FunctionOf(F, modules[m], m)'
  BY <1>3
<1> QED
  BY <1>1, <1>6, <1>7, <1>8 DEF ConvertsRight

\* The record of a call that gets the function of one more gate.
LEMMA ConvertedRecord ==
  ASSUME NEW fr, {"gate", "gates", "args"} \subseteq DOMAIN fr, NEW b, NEW f
  PROVE  /\ {"gate", "gates", "args"} \subseteq DOMAIN Converted(fr, b, f)
         /\ Converted(fr, b, f).gate = fr.gate
         /\ Converted(fr, b, f).gates = fr.gates \ {b}
         /\ Converted(fr, b, f).args = fr.args \cup {Flip(AsArgument(b, f), c) : c \in Signs(fr.gate, b)}
BY DEF Converted

\* Putting a converted argument in a call keeps the call right.
LEMMA CallConverted ==
  ASSUME NEW F, ConvertsRight(F), NEW i \in 1 .. Len(frames), NEW b \in frames[i].gates,
         NEW f, FunctionOf(F, f, b), NEW fr, fr = Converted(frames[i], b, f)
  PROVE  /\ {"gate", "gates", "args"} \subseteq DOMAIN fr
         /\ fr.gate = frames[i].gate /\ fr.gates \subseteq frames[i].gates
         /\ CallIsRight(F, fr.gate, fr.gates, fr.args)
<1>1. /\ {"gate", "gates", "args"} \subseteq DOMAIN frames[i] /\ frames[i].gate \in Gates
      /\ frames[i].gates \subseteq ArgGates(frames[i].gate)
      /\ Ready /\ GoodFunctions(F)
      /\ CallIsRight(F, frames[i].gate, frames[i].gates, frames[i].args)
  BY DEF ConvertsRight, Stacked
<1>2. /\ {"gate", "gates", "args"} \subseteq DOMAIN fr
      /\ fr.gate = frames[i].gate /\ fr.gates = frames[i].gates \ {b}
      /\ fr.args = frames[i].args \cup {Flip(AsArgument(b, f), c) : c \in Signs(frames[i].gate, b)}
  BY <1>1, ConvertedRecord
<1> DEFINE gate == frames[i].gate
           left == frames[i].gates
           args == frames[i].args
<1>3. gate \in Gates /\ left \subseteq ArgGates(gate) /\ b \in left /\ CallIsRight(F, gate, left, args)
  BY <1>1
<1> HIDE DEF gate, left, args
<1>4. CallIsRight(F, gate, left \ {b}, args \cup {Flip(AsArgument(b, f), c) : c \in Signs(gate, b)})
  BY <1>1, <1>3, ArgumentConverted
<1> QED
  BY <1>2, <1>4 DEF gate, left, args

LEMMA ConvertMemoizedRight ==
  ASSUME NEW F, ConvertsRight(F), ConvertMemoized
  PROVE  ConvertsRight(F)'
<1> DEFINE n == Len(frames)
<1>1. PICK b \in Frame.gates \cap DOMAIN gates :
        /\ frames' = WithTop(Converted(Frame, b, gates[b].function))
        /\ gates' = IF gates[b].processed + 1 = Parents(b) THEN Without(gates, b)
                    ELSE [gates EXCEPT ![b].processed = @ + 1]
  BY DEF ConvertMemoized
<1>2. UNCHANGED <<graph, order, modules>>
  BY DEF ConvertMemoized
<1> DEFINE f == gates[b].function
<1>3. FunctionOf(F, f, b)
  BY <1>1 DEF ConvertsRight
<1>4. PICK fr : fr = Converted(Frame, b, f)
  OBVIOUS
<1>5. Stacked /\ n > 0 /\ n \in Nat \ {0} /\ n \in 1 .. n /\ Frame = frames[n]
  BY LenProperties DEF ConvertsRight, Stacked, Frame
<1>6. /\ {"gate", "gates", "args"} \subseteq DOMAIN fr
      /\ fr.gate = frames[n].gate /\ fr.gates \subseteq frames[n].gates
      /\ CallIsRight(F, fr.gate, fr.gates, fr.args)
  <2> HIDE DEF f, n
  <2> QED
    BY <1>1, <1>3, <1>4, <1>5, CallConverted DEF n
<1>7. /\ \E S : frames' \in Seq(S)
      /\ Len(frames') = n
      /\ \A i \in 1 .. n - 1 : frames'[i] = frames[i]
      /\ frames'[n] = fr
  <2>1. frames' = WithTop(fr)
    BY <1>1, <1>4
  <2> QED
    BY <1>5, <2>1, FrameOperations
<1>8. \A b2 \in DOMAIN gates' :
        /\ b2 \in Gates /\ {"function", "processed"} \subseteq DOMAIN gates'[b2]
        /\ FunctionOf(F, gates'[b2].function, b2)
  <2>1. \A b2 \in DOMAIN gates :
          /\ b2 \in Gates /\ {"function", "processed"} \subseteq DOMAIN gates[b2]
          /\ FunctionOf(F, gates[b2].function, b2)
    BY DEF ConvertsRight
  <2>2. CASE gates' = Without(gates, b)
    BY <2>1, <2>2 DEF Without
  <2>3. CASE gates' = [gates EXCEPT ![b].processed = @ + 1]
    <3>1. DOMAIN gates' = DOMAIN gates
      BY <2>3
    <3>2. ASSUME NEW b2 \in DOMAIN gates
          PROVE  {"function", "processed"} \subseteq DOMAIN gates'[b2] /\ gates'[b2].function = gates[b2].function
      BY <2>1, <2>3
    <3> QED
      BY <2>1, <3>1, <3>2
  <2> QED
    BY <1>1, <2>2, <2>3
<1> HIDE DEF n, f
<1>9. \A i \in 1 .. n :
        /\ {"gate", "gates", "args"} \subseteq DOMAIN frames'[i]
        /\ frames'[i].gate = frames[i].gate /\ frames'[i].gates \subseteq frames[i].gates
        /\ CallIsRight(F, frames'[i].gate, frames'[i].gates, frames'[i].args)
  <2>1. \A i \in 1 .. n : i = n \/ i \in 1 .. n - 1
    BY <1>5
  <2>2. \A i \in 1 .. n - 1 :
          /\ i \in 1 .. n /\ {"gate", "gates", "args"} \subseteq DOMAIN frames[i]
          /\ CallIsRight(F, frames[i].gate, frames[i].gates, frames[i].args)
    <3>1. \A i \in 1 .. n - 1 : i \in 1 .. n
      BY <1>5
    <3> QED
      BY <3>1 DEF ConvertsRight, Stacked, n
  <2> QED
    BY <1>6, <1>7, <2>1, <2>2
<1>10. Stacked'
  <2>1. Len(frames') \in 0 .. Len(frames)
    BY <1>5, <1>7 DEF n
  <2> QED
    BY <1>2, <1>5, <1>7, <1>9, <2>1, StackKept DEF n
<1>11. frames'[1].gate = graph.root
  BY <1>5, <1>9 DEF ConvertsRight
<1>12. \A m \in DOMAIN modules' : m \in Gates /\ FunctionOf(F, modules'[m], m)
  BY <1>2 DEF ConvertsRight
<1> QED
  BY <1>2, <1>5, <1>7, <1>8, <1>9, <1>10, <1>11, <1>12, ConvertsRightFrom

\* The record of a new call.
LEMMA NewCall ==
  ASSUME Ready, NEW F, GoodFunctions(F), NEW gate \in Gates, NEW fr, fr = Converting(gate)
  PROVE  /\ {"gate", "gates", "args"} \subseteq DOMAIN fr
         /\ fr.gate = gate /\ fr.gates = ArgGates(gate)
         /\ CallIsRight(F, fr.gate, fr.gates, fr.args)
<1> DEFINE args == {Flip(Literal(arg[2]), arg[1]) : arg \in SignedVariables(gate)}
<1>1. CallIsRight(F, gate, ArgGates(gate), args)
  BY CallStarts
<1>2. fr = [gate |-> gate, gates |-> ArgGates(gate), args |-> args]
  BY DEF Converting
<1> HIDE DEF args
<1> QED
  BY <1>1, <1>2

LEMMA ConvertArgumentRight ==
  ASSUME NEW F, ConvertsRight(F), ConvertArgument
  PROVE  ConvertsRight(F)'
<1> DEFINE n == Len(frames)
<1>1. PICK b \in Frame.gates \ DOMAIN gates : frames' = Append(frames, Converting(b))
  BY DEF ConvertArgument
<1>2. UNCHANGED <<graph, order, modules, gates>>
  BY DEF ConvertArgument
<1>3. Stacked /\ n > 0 /\ n \in Nat \ {0} /\ n \in 1 .. n /\ Frame = frames[n]
  BY LenProperties DEF ConvertsRight, Stacked, Frame
<1>4. b \in ArgGates(Frame.gate) /\ b \in Gates
  BY <1>1, <1>3, NotActive DEF Stacked
<1>5. PICK fr : fr = Converting(b)
  OBVIOUS
<1>6. /\ {"gate", "gates", "args"} \subseteq DOMAIN fr
      /\ fr.gate = b /\ fr.gates = ArgGates(b)
      /\ CallIsRight(F, fr.gate, fr.gates, fr.args)
  BY <1>4, <1>5, NewCall DEF ConvertsRight
<1>7. /\ \E S : frames' \in Seq(S)
      /\ Len(frames') = n + 1
      /\ \A i \in 1 .. n : frames'[i] = frames[i]
      /\ frames'[n + 1] = fr
  BY <1>1, <1>3, <1>5, PushOn
<1>8. \A i \in 1 .. n :
        /\ {"gate", "gates", "args"} \subseteq DOMAIN frames[i]
        /\ CallIsRight(F, frames[i].gate, frames[i].gates, frames[i].args)
  BY DEF ConvertsRight, Stacked
<1>9. Stacked'
  BY <1>2, <1>3, <1>4, <1>6, <1>7, <1>8, StackPushed
<1> HIDE DEF n
<1>10. \A i \in 1 .. n + 1 :
        /\ {"gate", "gates", "args"} \subseteq DOMAIN frames'[i]
        /\ CallIsRight(F, frames'[i].gate, frames'[i].gates, frames'[i].args)
  <2>1. \A i \in 1 .. n + 1 : i = n + 1 \/ i \in 1 .. n
    BY <1>3
  <2> QED
    BY <1>6, <1>7, <1>8, <2>1
<1>11. frames'[1].gate = graph.root
  <2>1. 1 \in 1 .. n
    BY <1>3
  <2> QED
    BY <1>7, <2>1 DEF ConvertsRight
<1>12. /\ \A m \in DOMAIN modules' : m \in Gates /\ FunctionOf(F, modules'[m], m)
       /\ \A c \in DOMAIN gates' :
           /\ c \in Gates /\ {"function", "processed"} \subseteq DOMAIN gates'[c]
           /\ FunctionOf(F, gates'[c].function, c)
  BY <1>2 DEF ConvertsRight
<1>13. Len(frames') > 0
  BY <1>3, <1>7
<1> QED
  BY <1>2, <1>7, <1>9, <1>10, <1>11, <1>12, <1>13, ConvertsRightFrom

\* The last call has the function of its gate when nothing is left to convert; the modules
\* and the memo get nothing else.
LEMMA GateFinished ==
  ASSUME NEW F, ConvertsRight(F), FinishGate,
         NEW f, f = ApplyAll(order, graph.type[Frame.gate], Frame.args)
  PROVE  /\ Frame.gate \in Gates /\ FunctionOf(F, f, Frame.gate)
         /\ \A m \in DOMAIN modules' : m \in Gates /\ FunctionOf(F, modules'[m], m)
         /\ \A b \in DOMAIN gates' :
              /\ b \in Gates /\ {"function", "processed"} \subseteq DOMAIN gates'[b]
              /\ FunctionOf(F, gates'[b].function, b)
<1> DEFINE n == Len(frames)
           g == Frame.gate
<1>1. n \in 1 .. n /\ Frame = frames[n]
  BY LenProperties DEF ConvertsRight, Stacked, Frame
<1>2. g \in Gates /\ CallIsRight(F, g, {}, Frame.args) /\ Ready /\ GoodFunctions(F)
  BY <1>1 DEF ConvertsRight, Stacked, FinishGate
<1>3. FunctionOf(F, f, g)
  BY <1>2, FoldIsRight
<1>4. /\ modules' = Registered(g, f)
      /\ gates' = IF Parents(g) > 1 THEN Emplace(gates, g, [function |-> f, processed |-> 1]) ELSE gates
  BY DEF FinishGate
<1>5. /\ \A m \in DOMAIN modules : m \in Gates /\ FunctionOf(F, modules[m], m)
      /\ \A b \in DOMAIN gates :
           /\ b \in Gates /\ {"function", "processed"} \subseteq DOMAIN gates[b]
           /\ FunctionOf(F, gates[b].function, b)
  BY DEF ConvertsRight
<1> HIDE DEF g, n
<1>6. \A m \in DOMAIN modules' : m \in Gates /\ FunctionOf(F, modules'[m], m)
  BY <1>2, <1>3, <1>4, <1>5 DEF Registered, Emplace
<1> DEFINE entry == [function |-> f, processed |-> 1]
<1>7. {"function", "processed"} \subseteq DOMAIN entry /\ entry.function = f
  OBVIOUS
<1> HIDE DEF entry
<1>8. \A b \in DOMAIN gates' :
        /\ b \in Gates /\ {"function", "processed"} \subseteq DOMAIN gates'[b]
        /\ FunctionOf(F, gates'[b].function, b)
  <2>1. CASE gates' = gates
    BY <1>5, <2>1
  <2>2. CASE gates' = Emplace(gates, g, entry)
    BY <1>2, <1>3, <1>5, <1>7, <2>2 DEF Emplace
  <2> QED
    BY <1>4, <2>1, <2>2 DEF entry
<1> QED
  BY <1>2, <1>3, <1>6, <1>8 DEF g

\* The function goes to the call that waits for it.
LEMMA FinishGateRight ==
  ASSUME NEW F, ConvertsRight(F), MemoInv, FinishGate, phase' = "convert"
  PROVE  ConvertsRight(F)'
<1> DEFINE n == Len(frames)
           g == Frame.gate
<1>1. PICK f : f = ApplyAll(order, graph.type[Frame.gate], Frame.args)
  OBVIOUS
<1>2. /\ g \in Gates /\ FunctionOf(F, f, g)
      /\ \A m \in DOMAIN modules' : m \in Gates /\ FunctionOf(F, modules'[m], m)
      /\ \A b \in DOMAIN gates' :
           /\ b \in Gates /\ {"function", "processed"} \subseteq DOMAIN gates'[b]
           /\ FunctionOf(F, gates'[b].function, b)
  BY <1>1, GateFinished
<1>3. Stacked /\ n > 0 /\ n \in Nat \ {0} /\ Frame = frames[n]
  BY LenProperties DEF ConvertsRight, Stacked, Frame
<1>4. Pop # <<>> /\ frames' = [Pop EXCEPT ![Len(Pop)] = Converted(frames[Len(Pop)], g, f)]
  BY <1>1 DEF FinishGate, FinishConversion, ReturnTo
<1>5. Len(Pop) = n - 1 /\ n > 1 /\ n - 1 \in 1 .. n
  <2>1. Len(Pop) = n - 1 /\ (Pop = <<>> <=> n = 1)
    BY <1>3, FrameOperations
  <2> QED
    BY <1>3, <1>4, <2>1
<1>6. UNCHANGED <<graph, order>>
  BY DEF FinishGate
<1>7. g \in frames[n - 1].gates
  <2>1. PICK done : Converts(done)
    BY DEF FinishGate, MemoInv
  <2>2. n - 1 < n /\ n - 1 + 1 = n
    BY <1>3
  <2> QED
    BY <1>3, <1>5, <2>1, <2>2 DEF Converts
<1>8. PICK fr : fr = Converted(frames[n - 1], g, f)
  OBVIOUS
<1>9. /\ {"gate", "gates", "args"} \subseteq DOMAIN fr
      /\ fr.gate = frames[n - 1].gate /\ fr.gates \subseteq frames[n - 1].gates
      /\ CallIsRight(F, fr.gate, fr.gates, fr.args)
  <2> DEFINE k == n - 1
  <2>1. k \in 1 .. Len(frames) /\ g \in frames[k].gates /\ fr = Converted(frames[k], g, f)
    BY <1>5, <1>7, <1>8
  <2> HIDE DEF k, g
  <2>2. /\ {"gate", "gates", "args"} \subseteq DOMAIN fr
        /\ fr.gate = frames[k].gate /\ fr.gates \subseteq frames[k].gates
        /\ CallIsRight(F, fr.gate, fr.gates, fr.args)
    BY <1>2, <2>1, CallConverted
  <2> QED
    BY <2>2 DEF k
<1>10. /\ \E S : frames' \in Seq(S)
       /\ Len(frames') = n - 1
       /\ \A i \in 1 .. n - 2 : frames'[i] = frames[i]
       /\ frames'[n - 1] = fr
  <2>1. frames' = [Pop EXCEPT ![Len(Pop)] = fr]
    BY <1>4, <1>5, <1>8
  <2>2. Len(frames) > 1 =>
          /\ \E S : [Pop EXCEPT ![Len(Pop)] = fr] \in Seq(S)
          /\ Len([Pop EXCEPT ![Len(Pop)] = fr]) = Len(frames) - 1
          /\ \A i \in 1 .. Len(frames) - 2 : [Pop EXCEPT ![Len(Pop)] = fr][i] = frames[i]
          /\ [Pop EXCEPT ![Len(Pop)] = fr][Len(frames) - 1] = fr
    BY <1>3, FrameOperations
  <2> QED
    BY <1>5, <2>1, <2>2
<1>11. \A i \in 1 .. n :
         /\ {"gate", "gates", "args"} \subseteq DOMAIN frames[i]
         /\ CallIsRight(F, frames[i].gate, frames[i].gates, frames[i].args)
  BY DEF ConvertsRight, Stacked
<1> HIDE DEF n, g
<1>12. \A i \in 1 .. n - 1 :
        /\ {"gate", "gates", "args"} \subseteq DOMAIN frames'[i]
        /\ frames'[i].gate = frames[i].gate /\ frames'[i].gates \subseteq frames[i].gates
        /\ CallIsRight(F, frames'[i].gate, frames'[i].gates, frames'[i].args)
  <2>1. \A i \in 1 .. n - 1 : i \in 1 .. n /\ (i = n - 1 \/ i \in 1 .. n - 2)
    BY <1>3
  <2> QED
    BY <1>9, <1>10, <1>11, <2>1
<1>13. Stacked'
  <2>1. Len(frames') \in 0 .. Len(frames)
    BY <1>3, <1>10 DEF n
  <2> QED
    BY <1>3, <1>6, <1>10, <1>12, <2>1, StackKept
<1>14. frames'[1].gate = graph.root
  <2>1. 1 \in 1 .. n - 1
    BY <1>3, <1>5
  <2> QED
    BY <1>12, <2>1 DEF ConvertsRight
<1>15. Len(frames') > 0
  BY <1>3, <1>5, <1>10
<1> QED
  BY <1>2, <1>6, <1>10, <1>12, <1>13, <1>14, <1>15, ConvertsRightFrom

\* A root with the right value, and modules that are right, are what ConversionIsRight says.
LEMMA ResultIsRight ==
  ASSUME NEW F, IsPdag(graph), UNCHANGED <<graph, order>>,
         Within(root', Descendants(graph, graph.root)),
         \A a \in SUBSET VariablesOf(graph) : Value(root', TrueNodes(graph, a)) = Root(graph, a),
         \A m \in DOMAIN modules' : m \in Gates /\ FunctionOf(F, modules'[m], m)
  PROVE  ConversionIsRight'
<1>1. ASSUME NEW a \in SUBSET VariablesOf(graph) PROVE Consistent(TrueNodes(graph, a))
  BY TrueNodesHold DEF Consistent, Gates
<1>2. ASSUME NEW a \in SUBSET VariablesOf(graph), NEW m \in DOMAIN modules'
      PROVE  Value(modules'[m], TrueNodes(graph, a)) = Values(graph, a)[m]
  <2>1. Value(modules'[m], TrueNodes(graph, a)) = (m \in TrueNodes(graph, a))
    BY <1>1 DEF FunctionOf
  <2>2. Values(graph, a)[m] = (m \in TrueNodes(graph, a))
    BY TrueNodesHold DEF Gates
  <2> QED
    BY <2>1, <2>2
<1>3. \A m \in DOMAIN modules' : Within(modules'[m], Descendants(graph, m))
  BY DEF FunctionOf
<1>4. DependsOn(root, Descendants(graph, graph.root))'
  BY DEF DependsOn, Within, Value
<1>5. \A m \in DOMAIN modules' : DependsOn(modules[m], Descendants(graph, m))'
  BY <1>3 DEF DependsOn, Within, Value
<1> QED
  BY <1>2, <1>4, <1>5 DEF ConversionIsRight, Value

\* The last call gives the root.
LEMMA ConversionFinishesRight ==
  ASSUME NEW F, ConvertsRight(F), FinishGate, phase' # "convert"
  PROVE  ConversionIsRight'
<1>1. PICK f : f = ApplyAll(order, graph.type[Frame.gate], Frame.args)
  OBVIOUS
<1>2. Pop = <<>> /\ root' = Flip(f, graph.complement) /\ UNCHANGED <<graph, order>>
  BY <1>1 DEF FinishGate, ReturnTo, FinishConversion
<1>3. Frame.gate = graph.root
  <2>1. Len(frames) = 1
    BY <1>2, FrameOperations DEF ConvertsRight
  <2> QED
    BY <2>1 DEF ConvertsRight, Frame
<1>4. /\ graph.root \in Gates /\ FunctionOf(F, f, graph.root)
      /\ \A m \in DOMAIN modules' : m \in Gates /\ FunctionOf(F, modules'[m], m)
  BY <1>1, <1>3, GateFinished
<1>5. IsPdag(graph) /\ graph.complement \in BOOLEAN /\ GoodFunctions(F)
  BY DEF ConvertsRight, Ready, IsPdag
<1>6. /\ Within(root', Descendants(graph, graph.root))
      /\ \A true : Value(root', true) = (graph.complement # Value(f, true))
  <2> DEFINE c == graph.complement
  <2>1. f \in F /\ c \in BOOLEAN /\ Within(f, Descendants(graph, graph.root))
    BY <1>4, <1>5 DEF FunctionOf
  <2> HIDE DEF c
  <2>2. /\ Within(Flip(f, c), Descendants(graph, graph.root))
        /\ \A true : Value(Flip(f, c), true) = (c # Value(f, true))
    BY <1>5, <2>1, FlipIsRight
  <2> QED
    BY <1>2, <2>2 DEF c
<1>7. ASSUME NEW a \in SUBSET VariablesOf(graph)
      PROVE  Value(root', TrueNodes(graph, a)) = Root(graph, a)
  <2>1. Consistent(TrueNodes(graph, a))
    BY <1>5, TrueNodesHold DEF Consistent, Gates
  <2>2. Value(f, TrueNodes(graph, a)) = (graph.root \in TrueNodes(graph, a))
    BY <1>4, <2>1 DEF FunctionOf
  <2>3. Values(graph, a)[graph.root] = (graph.root \in TrueNodes(graph, a))
    BY <1>4, <1>5, TrueNodesHold DEF Gates
  <2>4. Value(root', TrueNodes(graph, a)) = (graph.complement # Value(f, TrueNodes(graph, a)))
    BY <1>6
  <2> QED
    BY <2>2, <2>3, <2>4 DEF Root
<1> QED
  BY <1>2, <1>4, <1>5, <1>6, <1>7, ResultIsRight

\* A graph that is one variable or a constant.
LEMMA TrivialIsRight ==
  ASSUME OrderIsGood, ConstructTrivial, modules = <<>>
  PROVE  ConversionIsRight'
<1>1. IsPdag(graph) /\ TrivialGraph /\ UNCHANGED <<graph, order, modules>>
  BY GraphsAssumption DEF OrderIsGood, ConstructTrivial, TrivialGraph
<1>2. PICK F : GoodFunctions(F)
  BY OrderIsOrder, FoldsAreRight DEF GoodFunctions
<1>3. /\ GatesOf(graph) = {graph.root} /\ ~graph.complement /\ graph.complement \in BOOLEAN
      /\ \E arg \in graph.args[graph.root] :
           /\ graph.args[graph.root] = {arg} /\ arg[2] \notin GatesOf(graph)
           /\ VariablesOf(graph) = {arg[2]} \ {Constant}
  BY <1>1, TrivialHasRoot DEF TrivialGraph, IsTrivial, IsPdag
<1>4. PICK arg \in graph.args[graph.root] :
        /\ graph.args[graph.root] = {arg} /\ arg[2] \notin GatesOf(graph)
        /\ VariablesOf(graph) = {arg[2]} \ {Constant}
  BY <1>3
<1> DEFINE c == arg[1]
           x == arg[2]
<1>5. c \in BOOLEAN
  BY <1>1 DEF IsPdag
<1>6. root' = IF x = Constant THEN Fun(c, One) ELSE Flip(Literal(x), c)
  BY <1>4 DEF ConstructTrivial
<1>7. x \in Descendants(graph, graph.root)
  BY <1>1, <1>4, UnderIsSmallest DEF IsPdag, Descendants, ArgNodes
<1> HIDE DEF c, x
<1>8. /\ Within(root', Descendants(graph, graph.root))
      /\ \A true : Value(root', true) = (c # (x \in true \cup {Constant}))
  <2>1. CASE x = Constant
    <3>1. \A true : Value(Fun(c, One), true) = ~c
      <4> SUFFICES ASSUME NEW true PROVE Value(Fun(c, One), true) = ~c
        OBVIOUS
      <4>1. ValuesAreRight(order, F, true)
        BY <1>2 DEF GoodFunctions
      <4> QED
        BY <1>5, <4>1, Zenon DEF ValuesAreRight, Value
    <3>2. \A true : x \in true \cup {Constant}
      BY <2>1
    <3> QED
      BY <1>5, <1>6, <2>1, <3>1, <3>2 DEF Within
  <2>2. CASE x # Constant
    <3>1. x \in DOMAIN order
      BY <1>1, <1>4, <2>2 DEF OrderIsGood, ConstructTrivial, x
    <3>2. /\ Literal(x) \in F /\ Within(Literal(x), Descendants(graph, graph.root))
          /\ \A true : Value(Literal(x), true) = (x \in true)
      BY <1>2, <1>7, <3>1, LiteralIsRight
    <3>3. /\ Within(Flip(Literal(x), c), Descendants(graph, graph.root))
          /\ \A true : Value(Flip(Literal(x), c), true) = (c # Value(Literal(x), true))
      BY <1>2, <1>5, <3>2, FlipIsRight
    <3>4. \A true : (x \in true \cup {Constant}) = (x \in true)
      BY <2>2
    <3> QED
      BY <1>6, <2>2, <3>2, <3>3, <3>4
  <2> QED
    BY <2>1, <2>2
<1>9. ASSUME NEW a \in SUBSET VariablesOf(graph)
      PROVE  Value(root', TrueNodes(graph, a)) = Root(graph, a)
  <2>1. /\ Values(graph, a)[graph.root] = (graph.root \in TrueNodes(graph, a))
        /\ graph.root \in TrueNodes(graph, a) <=> GateHolds(graph, graph.root, TrueNodes(graph, a))
        /\ Values(graph, a)[graph.root] \in BOOLEAN
    BY <1>1, TrueNodesHold DEF IsPdag
  <2>2. GateHolds(graph, graph.root, TrueNodes(graph, a)) <=> (c # (x \in TrueNodes(graph, a) \cup {Constant}))
    BY <1>1, <1>4 DEF GateHolds, TrivialGraph, c, x
  <2>3. Root(graph, a) = Values(graph, a)[graph.root]
    BY <1>3, <2>1 DEF Root
  <2>4. Value(root', TrueNodes(graph, a)) = (c # (x \in TrueNodes(graph, a) \cup {Constant}))
    BY <1>8
  <2> QED
    BY <2>1, <2>2, <2>3, <2>4
<1>10. DOMAIN modules' = {}
  BY <1>1
<1> QED
  BY <1>1, <1>8, <1>9, <1>10, ResultIsRight

\* The conversion starts with the call for the root.
LEMMA ConstructRight ==
  ASSUME OrderIsGood, MemoInv, Construct, modules = <<>>
  PROVE  \E functions : ConvertsRight(functions)'
<1>1. IsPdag(graph) /\ ~TrivialGraph /\ UNCHANGED <<graph, order, modules, gates>>
  BY GraphsAssumption DEF OrderIsGood, Construct, TrivialGraph
<1>2. Ready
  BY <1>1 DEF Ready, OrderIsGood, Construct
<1>3. PICK F : GoodFunctions(F)
  BY OrderIsOrder, FoldsAreRight DEF GoodFunctions
<1>4. graph.root \in Gates
  BY <1>1 DEF IsPdag, Gates
<1>5. PICK fr : fr = Converting(graph.root)
  OBVIOUS
<1>6. /\ {"gate", "gates", "args"} \subseteq DOMAIN fr
      /\ fr.gate = graph.root /\ fr.gates = ArgGates(graph.root)
      /\ CallIsRight(F, fr.gate, fr.gates, fr.args)
  <2> DEFINE g == graph.root
  <2> HIDE DEF g
  <2>1. /\ {"gate", "gates", "args"} \subseteq DOMAIN fr
        /\ fr.gate = g /\ fr.gates = ArgGates(g)
        /\ CallIsRight(F, fr.gate, fr.gates, fr.args)
    BY <1>2, <1>3, <1>4, <1>5, NewCall DEF g
  <2> QED
    BY <2>1 DEF g
<1>7. frames' = <<fr>>
  BY <1>5 DEF Construct
<1>8. Len(frames') = 1 /\ frames'[1] = fr /\ \A i \in 1 .. Len(frames') : frames'[i] = fr
  BY <1>7
<1>9. Stacked'
  <2>1. \E done : Converts(done)'
    BY ConstructStarts
  <2> QED
    BY <2>1 DEF Converts
<1>10. DOMAIN modules' = {} /\ DOMAIN gates' = {}
  BY <1>1 DEF Construct, MemoInv
<1>11. /\ Ready' /\ GoodFunctions(F)'
       /\ \A i \in 1 .. Len(frames') : CallIsRight(F, frames[i].gate, frames[i].gates, frames[i].args)'
  <2>1. Ready' /\ GoodFunctions(F)' /\ Gates' = Gates
    BY <1>1, <1>2, <1>3 DEF Ready, Gates, TrivialGraph, Nodes, GoodFunctions
  <2>2. \A true : Consistent(true)' = Consistent(true)
    BY <1>1, <2>1 DEF Consistent
  <2>3. \A f, arg : StandsFor(f, arg) => StandsFor(f, arg)'
    BY <1>1, <2>2 DEF StandsFor, Value
  <2>4. \A f, S : Within(f, S) => Within(f, S)'
    BY <1>1 DEF Within, Value
  <2>5. \A i \in 1 .. Len(frames') : CallIsRight(F, frames'[i].gate, frames'[i].gates, frames'[i].args)
    BY <1>6, <1>8
  <2>6. \A i \in 1 .. Len(frames') : CallIsRight(F, frames[i].gate, frames[i].gates, frames[i].args)'
    BY <1>1, <2>3, <2>4, <2>5 DEF CallIsRight
  <2> QED
    BY <2>1, <2>6
<1>12. ConvertsRight(F)'
  BY <1>1, <1>6, <1>8, <1>9, <1>10, <1>11 DEF ConvertsRight
<1> QED
  BY <1>12

LEMMA RightStep ==
  ASSUME OrderIsGood, MemoInv, RightInv, [Next]_vars
  PROVE  RightInv'
<1>1. CASE OrderGateArgument \/ OrderVariable \/ OrderGate
  <2>1. phase = "order" /\ phase' \in {"order", "construct"} /\ modules' = modules
    BY <1>1 DEF OrderGateArgument, OrderVariable, OrderGate
  <2> QED
    BY <2>1 DEF RightInv, ConversionIsRight
<1>2. CASE ConstructTrivial
  <2>1. phase = "construct" /\ phase' = "built"
    BY <1>2 DEF ConstructTrivial
  <2> QED
    BY <1>2, <2>1, TrivialIsRight DEF RightInv
<1>3. CASE Construct
  <2>1. phase = "construct" /\ phase' = "convert"
    BY <1>3 DEF Construct
  <2>2. \E functions : ConvertsRight(functions)'
    BY <1>3, <2>1, ConstructRight DEF RightInv
  <2> QED
    BY <2>1, <2>2 DEF RightInv, ConversionIsRight
<1>4. CASE ConvertMemoized \/ ConvertArgument
  <2>1. phase = "convert" /\ phase' = "convert"
    BY <1>4 DEF ConvertMemoized, ConvertArgument
  <2>2. PICK F : ConvertsRight(F)
    BY <2>1 DEF RightInv
  <2>3. ConvertsRight(F)'
    BY <1>4, <2>2, ConvertMemoizedRight, ConvertArgumentRight
  <2> QED
    BY <2>1, <2>3 DEF RightInv, ConversionIsRight
<1>5. CASE FinishGate
  <2>1. phase = "convert" /\ phase' \in {"convert", "built"}
    BY <1>5 DEF FinishGate, FinishConversion, ReturnTo
  <2>2. PICK F : ConvertsRight(F)
    BY <2>1 DEF RightInv
  <2>3. CASE phase' = "convert"
    <3>1. ConvertsRight(F)'
      BY <1>5, <2>2, <2>3, FinishGateRight
    <3> QED
      BY <2>3, <3>1 DEF RightInv, ConversionIsRight
  <2>4. CASE phase' = "built"
    <3>1. ConversionIsRight'
      BY <1>5, <2>2, <2>4, ConversionFinishesRight
    <3> QED
      BY <2>4, <3>1 DEF RightInv
  <2> QED
    BY <2>1, <2>3, <2>4
<1>6. CASE \/ Freeze \/ Total \/ Update \/ EndOfTime \/ Intermediates
           \/ Importance \/ EndOfImportance \/ Trial \/ EndOfAnalysis
  <2>1. phase' \notin {"order", "construct", "convert", "built"}
    BY <1>6 DEF Freeze, Total, Update, EndOfTime, Intermediates,
                Importance, EndOfImportance, Trial, EndOfAnalysis, conversion
  <2> QED
    BY <2>1 DEF RightInv, ConversionIsRight
<1>7. CASE UNCHANGED vars
  <2>1. UNCHANGED <<graph, order, phase, frames, gates, modules, root>>
    BY <1>7 DEF vars, conversion
  <2>2. ConversionIsRight'
    BY <2>1 DEF RightInv, ConversionIsRight, DependsOn, Gates, Value
  <2>3. ASSUME NEW F, ConvertsRight(F) PROVE ConvertsRight(F)'
    <3>1. Stacked'
      BY <2>1, <2>3 DEF ConvertsRight, Stacked, ArgGates, Gates
    <3> QED
      BY <2>1, <2>3, <3>1, ConvertsRightFrom DEF ConvertsRight, Stacked
  <2> QED
    BY <2>1, <2>2, <2>3 DEF RightInv
<1> QED
  BY <1>1, <1>2, <1>3, <1>4, <1>5, <1>6, <1>7 DEF Next, Convert, Conversion, Terminated

\* Whatever the graph, and in whatever order the containers give the arguments: the BDD of
\* the root and of every module stands for its gate, and on what is under the gate alone
\* (Bdd::Bdd, Bdd::ConvertGraph and Bdd::Apply, src/bdd.cc:41-315).
THEOREM ConversionCorrect == Spec => []ConversionIsRight
<1>1. Init => OrderInv /\ OrderIsGood /\ MemoInv /\ RightInv
  <2> SUFFICES ASSUME Init PROVE OrderInv /\ OrderIsGood /\ MemoInv /\ RightInv
    OBVIOUS
  <2>1. phase \in {"order", "construct"} /\ modules = <<>> /\ gates = <<>> /\ graph \in Graphs
    BY DEF Init, ConversionInit
  <2>2. MemoInv /\ RightInv
    BY <2>1 DEF MemoInv, RightInv, ConversionIsRight
  <2> QED
    BY <2>2, OrderInit, OrderIsGoodInit
<1>2. /\ OrderInv /\ OrderIsGood /\ MemoInv /\ RightInv /\ [Next]_vars
      => (OrderInv /\ OrderIsGood /\ MemoInv /\ RightInv)'
  BY OrderStep, OrderIsGoodStep, MemoStep, RightStep
<1>3. RightInv => ConversionIsRight
  BY DEF RightInv
<1> QED
  BY <1>1, <1>2, <1>3, PTL DEF Spec
=============================================================================
