--------------------------- MODULE BddApplyProofs ---------------------------
(***************************************************************************)
(* Proofs about BddApply for every number and order of variables and every *)
(* number of calls: the vertices alive are canonical in every state, and a *)
(* call of Apply returns the function it was asked for.                    *)
(***************************************************************************)
EXTENDS BddApply, TLAPS

-----------------------------------------------------------------------------
\* Functions as sets of assignments.

\* What (x ? P : Q) is true for.
Mix(x, P, Q) == {a \in Assignment : IF x \in a THEN a \in P ELSE a \in Q}

\* P does not depend on variable y.
Independent(P, y) == \A a \in Assignment : (a \cup {y} \in P) <=> (a \ {y} \in P)

\* The two branches of a vertex can be read from its function.
LEMMA MixIsInjective ==
  ASSUME NEW x \in Variable,
         NEW P \in SUBSET Assignment, NEW Q \in SUBSET Assignment,
         NEW R \in SUBSET Assignment, NEW T \in SUBSET Assignment,
         Independent(P, x), Independent(Q, x), Independent(R, x), Independent(T, x),
         Mix(x, P, Q) = Mix(x, R, T)
  PROVE  P = R /\ Q = T
<1>1. ASSUME NEW a \in Assignment PROVE (a \in P <=> a \in R) /\ (a \in Q <=> a \in T)
  <2> DEFINE b == a \cup {x}
             c == a \ {x}
  <2>1. b \in Assignment /\ c \in Assignment /\ x \in b /\ x \notin c
    BY DEF Assignment
  <2>2. (b \in P <=> b \in R) /\ (c \in Q <=> c \in T)
    BY <2>1 DEF Mix
  <2>3. a = b \/ a = c
    OBVIOUS
  <2>4. /\ (b \in P <=> c \in P) /\ (b \in R <=> c \in R)
        /\ (b \in Q <=> c \in Q) /\ (b \in T <=> c \in T)
    BY DEF Independent
  <2> QED BY <2>2, <2>3, <2>4
<1> QED BY <1>1

\* A vertex whose branches are different functions depends on its variable.
LEMMA MixDepends ==
  ASSUME NEW x \in Variable,
         NEW P \in SUBSET Assignment, NEW Q \in SUBSET Assignment,
         Independent(P, x), Independent(Q, x), Independent(Mix(x, P, Q), x)
  PROVE  P = Q
<1>1. ASSUME NEW a \in Assignment PROVE a \in P <=> a \in Q
  <2> DEFINE b == a \cup {x}
             c == a \ {x}
  <2>1. b \in Assignment /\ c \in Assignment /\ x \in b /\ x \notin c
    BY DEF Assignment
  <2>2. b \in Mix(x, P, Q) <=> c \in Mix(x, P, Q)
    BY DEF Independent
  <2>3. b \in P <=> c \in Q
    BY <2>1, <2>2 DEF Mix
  <2>4. a = b \/ a = c
    OBVIOUS
  <2>5. (b \in P <=> c \in P) /\ (b \in Q <=> c \in Q)
    BY DEF Independent
  <2> QED BY <2>3, <2>4, <2>5
<1> QED BY <1>1

LEMMA MixIsIndependent ==
  ASSUME NEW x \in Variable, NEW y \in Variable, x # y,
         NEW P, NEW Q, Independent(P, y), Independent(Q, y)
  PROVE  Independent(Mix(x, P, Q), y)
<1> SUFFICES ASSUME NEW a \in Assignment
             PROVE  (a \cup {y} \in Mix(x, P, Q)) <=> (a \ {y} \in Mix(x, P, Q))
  BY DEF Independent
<1> DEFINE b == a \cup {y}
           c == a \ {y}
<1>1. b \in Assignment /\ c \in Assignment /\ (x \in b <=> x \in c)
  BY DEF Assignment
<1>2. (b \in P <=> c \in P) /\ (b \in Q <=> c \in Q)
  BY DEF Independent
<1> QED BY <1>1, <1>2 DEF Mix

LEMMA MixOfComplements ==
  ASSUME NEW x, NEW P, NEW Q
  PROVE  Assignment \ Mix(x, P, Q) = Mix(x, Assignment \ P, Assignment \ Q)
BY DEF Mix

LEMMA ComplementIsIndependent ==
  ASSUME NEW P, NEW y \in Variable, Independent(P, y)
  PROVE  Independent(Assignment \ P, y)
<1> SUFFICES ASSUME NEW a \in Assignment
             PROVE  (a \cup {y} \in Assignment \ P) <=> (a \ {y} \in Assignment \ P)
  BY DEF Independent
<1>1. a \cup {y} \in Assignment /\ a \ {y} \in Assignment
  BY DEF Assignment
<1> QED BY <1>1 DEF Independent

LEMMA AllIsIndependent ==
  ASSUME NEW y \in Variable
  PROVE  Independent(Assignment, y)
BY DEF Independent, Assignment

\* No function is its own opposite.
LEMMA NoSelfComplement ==
  ASSUME NEW P \in SUBSET Assignment
  PROVE  P # Assignment \ P
<1>1. {} \in Assignment
  BY DEF Assignment
<1> QED BY <1>1

-----------------------------------------------------------------------------
\* The BDD: what holds of the vertices V with meanings m when n is the next id.

All(V) == DOMAIN V \cup {One}

\* Vertex w comes after position o of the order.
Later(V, o, w) == w = One \/ Order[V[w].index] > o

GoodTypes(V, m, n) ==
  /\ n \in Nat /\ n > 1 /\ DOMAIN V \subseteq 2 .. n - 1
  /\ \A v \in DOMAIN V :
       V[v] \in [index : Variable, high : All(V), low : All(V), complement_edge : BOOLEAN]
  /\ m \in [All(V) -> SUBSET Assignment]

GoodStructure(V, m) ==
  /\ m[One] = Assignment
  /\ \A v \in DOMAIN V :
       /\ V[v].high = V[v].low => V[v].complement_edge
       /\ Later(V, Order[V[v].index], V[v].high)
       /\ Later(V, Order[V[v].index], V[v].low)
       /\ m[v] = Mix(V[v].index, m[V[v].high], Sat(m, Fun(V[v].complement_edge, V[v].low)))

\* A vertex does not depend on the variables before its own.
GoodIndependence(V, m) ==
  \A v \in DOMAIN V, y \in Variable :
    Order[y] < Order[V[v].index] => Independent(m[v], y)

GoodCanonicity(V, m) ==
  \A v, w \in All(V) : (m[v] = m[w] \/ m[v] = Assignment \ m[w]) => v = w

Bdd(V, m, n) ==
  /\ GoodTypes(V, m, n)
  /\ GoodStructure(V, m)
  /\ GoodIndependence(V, m)
  /\ GoodCanonicity(V, m)

\* Deleting vertices keeps the BDD, if those below the others stay.
LEMMA RestrictionIsBdd ==
  ASSUME NEW V, NEW m, NEW n, Bdd(V, m, n),
         NEW S \in SUBSET DOMAIN V, \A v \in S : Below(V, v) \subseteq S
  PROVE  Bdd([v \in S |-> V[v]], [v \in S \cup {One} |-> m[v]], n)
<1> DEFINE W == [v \in S |-> V[v]]
           k == [v \in S \cup {One} |-> m[v]]
<1>1. /\ DOMAIN W = S
      /\ All(W) = S \cup {One} /\ All(W) \subseteq All(V)
      /\ \A v \in S : W[v] = V[v]
      /\ \A v \in S \cup {One} : k[v] = m[v]
  BY DEF All
<1>2. \A v \in S : V[v].high \in All(W) /\ V[v].low \in All(W)
  BY <1>1 DEF Below, All
<1>3. \A w \in All(W) : \A o : Later(W, o, w) <=> Later(V, o, w)
  BY <1>1 DEF Later, All
<1> HIDE DEF W, k
<1>4. GoodTypes(W, k, n)
  <2>1. DOMAIN W \subseteq 2 .. n - 1 /\ n \in Nat /\ n > 1
    BY <1>1 DEF Bdd, GoodTypes
  <2>2. ASSUME NEW v \in DOMAIN W
        PROVE  W[v] \in [index : Variable, high : All(W), low : All(W), complement_edge : BOOLEAN]
    BY <1>1, <1>2 DEF Bdd, GoodTypes
  <2>3. k \in [All(W) -> SUBSET Assignment]
    BY <1>1 DEF Bdd, GoodTypes, k
  <2> QED BY <2>1, <2>2, <2>3 DEF GoodTypes
<1>5. GoodStructure(W, k)
  <2>1. k[One] = Assignment
    BY <1>1 DEF Bdd, GoodStructure
  <2>2. ASSUME NEW v \in DOMAIN W
        PROVE  /\ W[v].high = W[v].low => W[v].complement_edge
               /\ Later(W, Order[W[v].index], W[v].high)
               /\ Later(W, Order[W[v].index], W[v].low)
               /\ k[v] = Mix(W[v].index, k[W[v].high], Sat(k, Fun(W[v].complement_edge, W[v].low)))
    <3>1. v \in DOMAIN V /\ W[v] = V[v] /\ k[v] = m[v]
      BY <1>1
    <3>2. k[V[v].high] = m[V[v].high] /\ k[V[v].low] = m[V[v].low]
      BY <1>1, <1>2
    <3>3. Sat(k, Fun(V[v].complement_edge, V[v].low)) = Sat(m, Fun(V[v].complement_edge, V[v].low))
      BY <3>2 DEF Sat, Fun
    <3> QED BY <1>1, <1>2, <1>3, <3>1, <3>2, <3>3 DEF Bdd, GoodStructure
  <2> QED BY <2>1, <2>2 DEF GoodStructure
<1>6. GoodIndependence(W, k)
  BY <1>1 DEF Bdd, GoodIndependence
<1>7. GoodCanonicity(W, k)
  BY <1>1 DEF Bdd, GoodCanonicity
<1> QED BY <1>4, <1>5, <1>6, <1>7 DEF Bdd, W, k

-----------------------------------------------------------------------------
\* Adding a vertex.

LEMMA SignedIsInjective ==
  ASSUME NEW i \in Nat, NEW j \in Nat, i # 0, j # 0, NEW c \in BOOLEAN, NEW d \in BOOLEAN,
         Signed(i, c) = Signed(j, d)
  PROVE  i = j /\ c = d
<1>1. CASE c /\ d
  BY <1>1 DEF Signed
<1>2. CASE ~c /\ ~d
  BY <1>2 DEF Signed
<1>3. CASE c # d
  BY <1>3 DEF Signed
<1> QED BY <1>1, <1>2, <1>3

LEMMA SatIsSet ==
  ASSUME NEW V, NEW m, NEW n, GoodTypes(V, m, n), NEW f, f.vertex \in All(V)
  PROVE  Sat(m, f) \in SUBSET Assignment
BY DEF GoodTypes, Sat

\* Functions do not depend on variables before their own.
LEMMA LaterIsIndependent ==
  ASSUME NEW V, NEW m, NEW n, Bdd(V, m, n), NEW y \in Variable,
         NEW f, f.vertex \in All(V), Later(V, Order[y], f.vertex)
  PROVE  Independent(Sat(m, f), y)
<1>1. Independent(m[f.vertex], y)
  <2>1. CASE f.vertex = One
    BY <2>1, AllIsIndependent DEF Bdd, GoodStructure
  <2>2. CASE f.vertex # One
    BY <2>2 DEF Bdd, GoodIndependence, Later, All
  <2> QED BY <2>1, <2>2
<1>2. Independent(Assignment \ m[f.vertex], y)
  BY <1>1, ComplementIsIndependent
<1> QED BY <1>1, <1>2 DEF Sat

\* The branches of a vertex that is not redundant are different functions.
LEMMA BranchesDiffer ==
  ASSUME NEW V, NEW m, NEW n, Bdd(V, m, n),
         NEW h \in All(V), NEW l \in All(V), NEW c \in BOOLEAN, h = l => c
  PROVE  m[h] # Sat(m, Fun(c, l))
<1>1. m[h] \in SUBSET Assignment
  BY DEF Bdd, GoodTypes
<1>2. CASE ~c
  BY <1>2 DEF Bdd, GoodCanonicity, Sat, Fun
<1>3. CASE c
  <2>1. SUFFICES ASSUME m[h] = Assignment \ m[l] PROVE FALSE
    BY <1>3 DEF Sat, Fun
  <2>2. h = l
    BY <2>1 DEF Bdd, GoodCanonicity
  <2> QED BY <2>1, <2>2, <1>1, NoSelfComplement
<1> QED BY <1>2, <1>3

\* Every vertex depends on its own variable.
LEMMA VertexDepends ==
  ASSUME NEW V, NEW m, NEW n, Bdd(V, m, n), NEW v \in DOMAIN V
  PROVE  ~Independent(m[v], V[v].index)
<1> DEFINE x == V[v].index
           P == m[V[v].high]
           low == Fun(V[v].complement_edge, V[v].low)
           Q == Sat(m, low)
<1>1. /\ x \in Variable /\ V[v].high \in All(V) /\ V[v].low \in All(V)
      /\ V[v].complement_edge \in BOOLEAN
  BY DEF Bdd, GoodTypes
<1>2. /\ m[v] = Mix(x, P, Q)
      /\ Later(V, Order[x], V[v].high) /\ Later(V, Order[x], V[v].low)
  BY DEF Bdd, GoodStructure
<1>3. low.vertex = V[v].low
  BY DEF Fun
<1>4. P \in SUBSET Assignment /\ Q \in SUBSET Assignment
  BY <1>1, <1>3, SatIsSet DEF Bdd, GoodTypes
<1>5. Independent(Q, x)
  BY <1>1, <1>2, <1>3, LaterIsIndependent
<1>6. Independent(P, x)
  <2>1. Sat(m, Fun(FALSE, V[v].high)) = P /\ Fun(FALSE, V[v].high).vertex = V[v].high
    BY DEF Sat, Fun
  <2> QED BY <1>1, <1>2, <2>1, LaterIsIndependent
<1>7. P # Q
  BY <1>1, BranchesDiffer DEF Bdd, GoodStructure
<1> QED BY <1>1, <1>2, <1>4, <1>5, <1>6, <1>7, MixDepends

\* A function whose vertex would have a signature that no vertex has is not there yet.
LEMMA NewFunctionIsNew ==
  ASSUME NEW V, NEW m, NEW n, Bdd(V, m, n), NEW x \in Variable,
         NEW h \in All(V), NEW l \in All(V), NEW c \in BOOLEAN, h = l => c,
         Later(V, Order[x], h), Later(V, Order[x], l),
         \A v \in DOMAIN V : ~ (/\ V[v].index = x /\ V[v].high = h
                                /\ V[v].low = l /\ V[v].complement_edge = c),
         NEW w \in All(V)
  PROVE  LET N == Mix(x, m[h], Sat(m, Fun(c, l)))
         IN  m[w] # N /\ m[w] # Assignment \ N
<1> DEFINE P == m[h]
           Q == Sat(m, Fun(c, l))
           N == Mix(x, P, Q)
<1>1. P \in SUBSET Assignment /\ Q \in SUBSET Assignment
  <2>1. Fun(c, l).vertex = l
    BY DEF Fun
  <2> QED BY <2>1, SatIsSet DEF Bdd, GoodTypes
<1>2. ASSUME NEW y \in Variable, Order[y] <= Order[x]
      PROVE  Independent(P, y) /\ Independent(Q, y)
  <2>1. /\ Fun(c, l).vertex = l
        /\ Sat(m, Fun(FALSE, h)) = P /\ Fun(FALSE, h).vertex = h
    BY DEF Fun, Sat
  <2>2. /\ Order[x] \in Nat /\ Order[y] \in Nat
        /\ \A v \in DOMAIN V : Order[V[v].index] \in Nat
    BY OrderAssumption DEF Bdd, GoodTypes
  <2>3. Later(V, Order[y], h) /\ Later(V, Order[y], l)
    BY <1>2, <2>2 DEF Later, All
  <2> QED BY <2>1, <2>3, LaterIsIndependent
<1>3. Independent(P, x) /\ Independent(Q, x)
  BY <1>2, OrderAssumption
<1>4. P # Q
  BY BranchesDiffer
<1>5. ~Independent(N, x)
  BY <1>1, <1>3, <1>4, MixDepends
<1>6. ~Independent(Assignment \ N, x)
  <2>1. Assignment \ (Assignment \ N) = N
    BY <1>1 DEF Mix
  <2> QED BY <1>5, <2>1, ComplementIsIndependent
<1>7. SUFFICES ASSUME m[w] = N \/ m[w] = Assignment \ N PROVE FALSE
  OBVIOUS
<1>8. CASE w = One
  BY <1>5, <1>6, <1>7, <1>8, AllIsIndependent DEF Bdd, GoodStructure
<1>9. CASE w \in DOMAIN V
  <2> DEFINE y == V[w].index
             R == m[V[w].high]
             T == Sat(m, Fun(V[w].complement_edge, V[w].low))
  <2>1. /\ y \in Variable /\ V[w].high \in All(V) /\ V[w].low \in All(V)
        /\ V[w].complement_edge \in BOOLEAN
    BY <1>9 DEF Bdd, GoodTypes
  <2>2. /\ m[w] = Mix(y, R, T)
        /\ Later(V, Order[y], V[w].high) /\ Later(V, Order[y], V[w].low)
    BY <1>9 DEF Bdd, GoodStructure
  <2>3. Order[x] \in Nat /\ Order[y] \in Nat
    BY <2>1, OrderAssumption
  <2>4. CASE Order[x] < Order[y]
    BY <1>5, <1>6, <1>7, <1>9, <2>4 DEF Bdd, GoodIndependence
  <2>5. CASE Order[y] < Order[x]
    <3>1. Independent(P, y) /\ Independent(Q, y) /\ x # y
      BY <1>2, <2>1, <2>3, <2>5
    <3>2. Independent(N, y)
      BY <2>1, <3>1, MixIsIndependent
    <3>3. Independent(Assignment \ N, y)
      BY <2>1, <3>2, ComplementIsIndependent
    <3> QED BY <1>7, <1>9, <3>2, <3>3, VertexDepends
  <2>6. CASE Order[x] = Order[y]
    <3>1. x = y
      BY <2>1, <2>6, OrderAssumption
    <3>2. m[w] = Mix(x, R, T)
      BY <2>2, <3>1
    <3>3. R \in SUBSET Assignment /\ Independent(R, x)
      <4>1. Sat(m, Fun(FALSE, V[w].high)) = R /\ Fun(FALSE, V[w].high).vertex = V[w].high
        BY DEF Fun, Sat
      <4>2. Independent(R, x)
        BY <2>1, <2>2, <3>1, <4>1, LaterIsIndependent
      <4> QED BY <2>1, <4>2 DEF Bdd, GoodTypes
    <3>4. T \in SUBSET Assignment /\ Independent(T, x)
      <4> DEFINE f == Fun(V[w].complement_edge, V[w].low)
      <4>1. f.vertex = V[w].low
        BY DEF Fun
      <4>2. Independent(Sat(m, f), x)
        BY <2>1, <2>2, <3>1, <4>1, LaterIsIndependent
      <4> QED BY <2>1, <4>1, <4>2, SatIsSet DEF Bdd
    <3> HIDE DEF P, Q, R, T
    <3>5. CASE m[w] = N
      <4>1. Mix(x, P, Q) = Mix(x, R, T)
        BY <3>2, <3>5
      <4>2. R = P /\ T = Q
        BY <1>1, <1>3, <3>3, <3>4, <4>1, MixIsInjective
      <4>3. V[w].high = h
        BY <2>1, <4>2 DEF Bdd, GoodCanonicity, P, R
      <4>4. m[l] \in SUBSET Assignment /\ m[V[w].low] \in SUBSET Assignment
        BY <2>1 DEF Bdd, GoodTypes
      <4>5. m[V[w].low] = m[l] \/ m[V[w].low] = Assignment \ m[l]
        BY <4>2, <4>4 DEF Sat, Fun, Q, T
      <4>6. V[w].low = l
        BY <2>1, <4>5 DEF Bdd, GoodCanonicity
      <4>7. V[w].complement_edge = c
        BY <2>1, <4>2, <4>4, <4>6, NoSelfComplement DEF Sat, Fun, Q, T
      <4> QED BY <1>9, <3>1, <4>3, <4>6, <4>7
    <3>6. CASE m[w] = Assignment \ N
      <4> DEFINE P2 == Assignment \ P
                 Q2 == Assignment \ Q
      <4>1. Mix(x, P2, Q2) = Mix(x, R, T)
        BY <3>2, <3>6, MixOfComplements
      <4>2. Independent(P2, x) /\ Independent(Q2, x)
        BY <1>3, ComplementIsIndependent
      <4>3. P2 \in SUBSET Assignment /\ Q2 \in SUBSET Assignment
        OBVIOUS
      <4> HIDE DEF P2, Q2
      <4>4. P2 = R
        BY <3>3, <3>4, <4>1, <4>2, <4>3, MixIsInjective
      <4>5. R = Assignment \ P
        BY <4>4 DEF P2
      <4>6. V[w].high = h
        BY <2>1, <4>5 DEF Bdd, GoodCanonicity, P, R
      <4> QED BY <1>1, <4>5, <4>6, NoSelfComplement DEF P, R
    <3> QED BY <1>7, <3>5, <3>6
  <2> QED BY <2>3, <2>4, <2>5, <2>6
<1> QED BY <1>8, <1>9 DEF All

\* FindOrAddVertex adds a vertex if it finds none.
LEMMA AddedVertexIsGood ==
  ASSUME Bdd(vertex, meaning, function_id), NEW x \in Variable,
         NEW high \in FunctionOf(All(vertex)), NEW low \in FunctionOf(All(vertex)),
         high # low, Same(x, high, low) = {},
         Later(vertex, Order[x], high.vertex), Later(vertex, Order[x], low.vertex)
  PROVE  Bdd(With(vertex, function_id, NewVertex(x, high, low)),
             With(meaning, function_id, NewMeaning(x, high, low)), function_id + 1)
<1> DEFINE n == function_id
           c == high.complement # low.complement
           h == high.vertex
           l == low.vertex
           N == Mix(x, meaning[h], Sat(meaning, Fun(c, l)))
           W == With(vertex, n, NewVertex(x, high, low))
           k == With(meaning, n, NewMeaning(x, high, low))
<1>1. /\ h \in All(vertex) /\ l \in All(vertex) /\ c \in BOOLEAN
      /\ high.complement \in BOOLEAN /\ low.complement \in BOOLEAN
  BY DEF FunctionOf
<1>2. h = l => c
  <2>1. CASE h = l /\ ~c
    <3>1. high.complement = low.complement
      BY <1>1, <2>1
    <3>2. high = low
      BY <2>1, <3>1 DEF FunctionOf
    <3> QED BY <3>2
  <2> QED BY <2>1
<1>3. /\ n \in Nat /\ n > 1 /\ n \notin All(vertex)
      /\ \A v \in All(vertex) : v \in Nat /\ v # 0
      /\ DOMAIN meaning = All(vertex)
  BY DEF Bdd, GoodTypes, All, One
<1>4. \A v \in DOMAIN vertex : ~ (/\ vertex[v].index = x /\ vertex[v].high = h
                                  /\ vertex[v].low = l /\ vertex[v].complement_edge = c)
  BY DEF Same, Signature
<1>5. NewMeaning(x, high, low) = N
  BY DEF NewMeaning, Mix
<1>6. NewVertex(x, high, low) =
        [index |-> x, high |-> h, low |-> l, complement_edge |-> c]
  BY DEF NewVertex
<1>7. /\ DOMAIN W = DOMAIN vertex \cup {n} /\ All(W) = All(vertex) \cup {n}
      /\ W[n] = [index |-> x, high |-> h, low |-> l, complement_edge |-> c]
      /\ \A v \in DOMAIN vertex : W[v] = vertex[v]
  BY <1>3, <1>6 DEF With, All
<1>8. /\ DOMAIN k = All(W) /\ k[n] = N
      /\ \A v \in All(vertex) : k[v] = meaning[v]
  BY <1>3, <1>5, <1>7 DEF With
<1>9. \A w \in All(vertex) : \A o : Later(W, o, w) <=> Later(vertex, o, w)
  BY <1>3, <1>7 DEF Later, All
<1>10. \A f : f.vertex \in All(vertex) => Sat(k, f) = Sat(meaning, f)
  BY <1>8 DEF Sat
<1>11. N \in SUBSET Assignment
  BY DEF Mix
<1> HIDE DEF W, k, c, N
<1>12. GoodTypes(W, k, n + 1)
  <2>1. n + 1 \in Nat /\ n + 1 > 1 /\ DOMAIN W \subseteq 2 .. (n + 1) - 1
    BY <1>3, <1>7 DEF Bdd, GoodTypes
  <2>2. ASSUME NEW v \in DOMAIN W
        PROVE  W[v] \in [index : Variable, high : All(W), low : All(W), complement_edge : BOOLEAN]
    <3>1. CASE v = n
      BY <1>1, <1>7, <3>1
    <3>2. CASE v \in DOMAIN vertex
      BY <1>7, <3>2 DEF Bdd, GoodTypes
    <3> QED BY <1>7, <3>1, <3>2
  <2>3. k \in [All(W) -> SUBSET Assignment]
    <3>1. \A v \in All(W) : k[v] \in SUBSET Assignment
      BY <1>7, <1>8, <1>11 DEF Bdd, GoodTypes
    <3>2. k = [v \in All(W) |-> k[v]]
      BY <1>8 DEF k, With
    <3> QED BY <3>1, <3>2
  <2> QED BY <2>1, <2>2, <2>3 DEF GoodTypes
<1>13. GoodStructure(W, k)
  <2>1. k[One] = Assignment
    BY <1>8 DEF Bdd, GoodStructure, All
  <2>2. ASSUME NEW v \in DOMAIN W
        PROVE  /\ W[v].high = W[v].low => W[v].complement_edge
               /\ Later(W, Order[W[v].index], W[v].high)
               /\ Later(W, Order[W[v].index], W[v].low)
               /\ k[v] = Mix(W[v].index, k[W[v].high], Sat(k, Fun(W[v].complement_edge, W[v].low)))
    <3>1. CASE v = n
      <4>1. Fun(c, l).vertex = l
        BY DEF Fun
      <4> QED BY <1>1, <1>2, <1>7, <1>8, <1>9, <1>10, <3>1, <4>1 DEF N
    <3>2. CASE v \in DOMAIN vertex
      <4>1. vertex[v].high \in All(vertex) /\ vertex[v].low \in All(vertex)
        BY <3>2 DEF Bdd, GoodTypes
      <4>2. Sat(k, Fun(vertex[v].complement_edge, vertex[v].low))
              = Sat(meaning, Fun(vertex[v].complement_edge, vertex[v].low))
        BY <1>10, <4>1 DEF Fun
      <4> QED BY <1>7, <1>8, <1>9, <3>2, <4>1, <4>2 DEF Bdd, GoodStructure, All
    <3> QED BY <1>7, <3>1, <3>2
  <2> QED BY <2>1, <2>2 DEF GoodStructure
<1>14. GoodIndependence(W, k)
  <2>1. ASSUME NEW v \in DOMAIN W, NEW y \in Variable, Order[y] < Order[W[v].index]
        PROVE  Independent(k[v], y)
    <3>1. CASE v = n
      <4>1. Order[y] < Order[x] /\ x # y /\ k[v] = N
        BY <1>7, <1>8, <2>1, <3>1, OrderAssumption
      <4>2. \A w \in DOMAIN vertex : Order[vertex[w].index] \in Nat
        BY OrderAssumption DEF Bdd, GoodTypes
      <4>3. Later(vertex, Order[y], h) /\ Later(vertex, Order[y], l)
        BY <1>1, <4>1, <4>2, OrderAssumption DEF Later, All
      <4>4. /\ Fun(c, l).vertex = l
            /\ Sat(meaning, Fun(FALSE, h)) = meaning[h] /\ Fun(FALSE, h).vertex = h
        BY DEF Fun, Sat
      <4>5. Independent(meaning[h], y) /\ Independent(Sat(meaning, Fun(c, l)), y)
        BY <1>1, <4>3, <4>4, LaterIsIndependent
      <4> QED BY <4>1, <4>5, MixIsIndependent DEF N
    <3>2. CASE v \in DOMAIN vertex
      BY <1>7, <1>8, <2>1, <3>2 DEF Bdd, GoodIndependence, All
    <3> QED BY <1>7, <3>1, <3>2
  <2> QED BY <2>1 DEF GoodIndependence
<1>15. GoodCanonicity(W, k)
  <2>1. \A w \in All(vertex) : meaning[w] # N /\ meaning[w] # Assignment \ N
    BY <1>1, <1>2, <1>4, NewFunctionIsNew DEF N
  <2>2. \A w \in All(vertex) : Assignment \ meaning[w] # N
    <3>1. \A w \in All(vertex) : meaning[w] \in SUBSET Assignment
      BY DEF Bdd, GoodTypes
    <3> QED BY <2>1, <3>1
  <2>3. \A v, w \in All(vertex) : (k[v] = k[w] \/ k[v] = Assignment \ k[w]) => v = w
    BY <1>8 DEF Bdd, GoodCanonicity
  <2> QED BY <1>7, <1>8, <2>1, <2>2, <2>3 DEF GoodCanonicity
<1> QED BY <1>12, <1>13, <1>14, <1>15 DEF Bdd, W, k

-----------------------------------------------------------------------------
\* Deleting vertices.

\* The roots and what is below them stay.
LEMMA AliveIsClosed ==
  ASSUME NEW V, NEW roots, \A v \in DOMAIN V : Below(V, v) \subseteq DOMAIN V
  PROVE  /\ Alive(V, roots) \subseteq DOMAIN V
         /\ roots \cap DOMAIN V \subseteq Alive(V, roots)
         /\ \A v \in Alive(V, roots) : Below(V, v) \subseteq Alive(V, roots)
<1> DEFINE Closed == {S \in SUBSET DOMAIN V : /\ roots \cap DOMAIN V \subseteq S
                                              /\ \A v \in S : Below(V, v) \subseteq S}
<1>1. CASE Orphans(V, roots) = {}
  <2>1. Alive(V, roots) = DOMAIN V
    BY <1>1 DEF Alive
  <2> QED BY <2>1
<1>2. CASE Orphans(V, roots) # {}
  <2>1. Alive(V, roots) = {v \in DOMAIN V : \A S \in Closed : v \in S}
    BY <1>2 DEF Alive
  <2>2. ASSUME NEW v \in Alive(V, roots), NEW w \in Below(V, v)
        PROVE  w \in Alive(V, roots)
    <3>1. v \in DOMAIN V /\ w \in DOMAIN V
      BY <2>1
    <3>2. ASSUME NEW S \in Closed PROVE w \in S
      BY <2>1, <3>2
    <3> QED BY <2>1, <3>1, <3>2
  <2>3. ASSUME NEW v \in roots \cap DOMAIN V PROVE v \in Alive(V, roots)
    BY <2>1
  <2> QED BY <2>1, <2>2, <2>3
<1> QED BY <1>1, <1>2

LEMMA BelowIsAlive ==
  ASSUME NEW V, NEW m, NEW n, Bdd(V, m, n)
  PROVE  \A v \in DOMAIN V : Below(V, v) \subseteq DOMAIN V
BY DEF Bdd, GoodTypes, Below, All

-----------------------------------------------------------------------------
\* What the tables, the activations, the arguments and the result have to do with a
\* BDD; everything is said of any V, m and n, for the steps that change them.

Entry == Connectives \X Int \X Int
Frames == [one : FunctionOf(Nat), two : FunctionOf(Nat), key : Entry,
           high : FunctionOf(Nat), low : BOOLEAN]

\* The function of a signed id.
Named(i) == Fun(i < 0, Unsigned(i))

\* Table entry k with result f.
EntryIsGood(V, m, n, k, f) ==
  /\ k \in Entry
  /\ Unsigned(k[2]) \in 2 .. n - 1 /\ Unsigned(k[3]) \in 2 .. n - 1
  /\ f \in FunctionOf(All(V))
  /\ Unsigned(k[2]) \in DOMAIN V /\ Unsigned(k[3]) \in DOMAIN V =>
       /\ \A o \in Nat : Later(V, o, Unsigned(k[2])) /\ Later(V, o, Unsigned(k[3]))
                           => Later(V, o, f.vertex)
       /\ Sat(m, f) = Combine(k[1], Sat(m, Named(k[2])), Sat(m, Named(k[3])))

TableIsGood(V, m, n, table) == \A k \in DOMAIN table : EntryIsGood(V, m, n, k, table[k])

\* What a call with the arguments of a frame has to return.
Whole(m, t, fr) == Combine(t, Sat(m, fr.one), Sat(m, fr.two))

\* The variable of an activation.
Index(V, fr) == V[fr.one.vertex].index

FrameIsGood(V, m, t, fr) ==
  /\ fr \in Frames
  /\ fr.one.vertex \in DOMAIN V /\ fr.two.vertex \in DOMAIN V
  /\ fr.high.vertex \in All(V)
  /\ Order[Index(V, fr)] <= Order[V[fr.two.vertex].index]
  /\ fr.key[1] = t
  /\ \/ /\ fr.key[2] = Signed(fr.one.vertex, fr.one.complement)
        /\ fr.key[3] = Signed(fr.two.vertex, fr.two.complement)
     \/ /\ fr.key[2] = Signed(fr.two.vertex, fr.two.complement)
        /\ fr.key[3] = Signed(fr.one.vertex, fr.one.complement)
  /\ fr.low =>
       /\ Later(V, Order[Index(V, fr)], fr.high.vertex)
       /\ \A a \in Assignment : Index(V, fr) \in a =>
             (a \in Sat(m, fr.high) <=> a \in Whole(m, t, fr))

\* R is what the call above i activations has to return: the client's combination,
\* or what the branch asks for that the topmost of them is at.
Fits(V, m, q, s, i, R) ==
  IF i = 0 THEN R = Combine(q.type, Sat(m, q.one), Sat(m, q.two))
  ELSE \A a \in Assignment :
         (IF s[i].low THEN Index(V, s[i]) \notin a ELSE Index(V, s[i]) \in a)
           => (a \in R <=> a \in Whole(m, q.type, s[i]))

\* The functions of that call come after the variable of the topmost.
Above(V, s, i, w) == i = 0 \/ Later(V, Order[Index(V, s[i])], w)

StackIsGood(V, m, q, s) ==
  /\ s \in Seq(Frames)
  /\ \A i \in 1 .. Len(s) :
       /\ FrameIsGood(V, m, q.type, s[i])
       /\ Fits(V, m, q, s, i - 1, Whole(m, q.type, s[i]))
       /\ Above(V, s, i - 1, s[i].one.vertex) /\ Above(V, s, i - 1, s[i].two.vertex)

RequestIsGood(V, m, q, s, r) ==
  /\ r \in FunctionOf(All(V)) \X FunctionOf(All(V))
  /\ Fits(V, m, q, s, Len(s), Combine(q.type, Sat(m, r[1]), Sat(m, r[2])))
  /\ Above(V, s, Len(s), r[1].vertex) /\ Above(V, s, Len(s), r[2].vertex)

ResultIsGood(V, m, q, s, f) ==
  /\ f \in FunctionOf(All(V))
  /\ Fits(V, m, q, s, Len(s), Sat(m, f))
  /\ Above(V, s, Len(s), f.vertex)

Busy == request # None \/ result # None \/ stack # <<>>

AskedIsGood(V, q) ==
  q \in [type : Connectives, one : FunctionOf(All(V)), two : FunctionOf(All(V))]

\* The inductive invariant.
IInv ==
  /\ Bdd(vertex, meaning, function_id)
  /\ TableIsGood(vertex, meaning, function_id, computed)
  /\ Busy => /\ AskedIsGood(vertex, asked)
             /\ asked.one.vertex \in held /\ asked.two.vertex \in held
             /\ StackIsGood(vertex, meaning, asked, stack)
  /\ stack \in Seq(Frames)
  /\ request # None => RequestIsGood(vertex, meaning, asked, stack, request)
  /\ result # None => ResultIsGood(vertex, meaning, asked, stack, result)
  /\ request = None \/ result = None
  /\ held \subseteq All(vertex)
  /\ calls \in 0 .. MaxCalls

\* The vertices that V2 shares with V are the same in both, all others of V2 are new.
Agree(V, m, n, V2, m2) ==
  /\ m2[One] = m[One]
  /\ \A v \in DOMAIN V2 : v < n => v \in DOMAIN V /\ V2[v] = V[v] /\ m2[v] = m[v]

LEMMA SharedIsSame ==
  ASSUME NEW V, NEW m, NEW n, NEW V2, NEW m2, NEW n2,
         GoodTypes(V, m, n), GoodTypes(V2, m2, n2), Agree(V, m, n, V2, m2)
  PROVE  /\ \A v \in All(V) \cap DOMAIN V2 : v \in DOMAIN V /\ V2[v] = V[v]
         /\ \A v \in All(V) \cap All(V2) : m2[v] = m[v]
         /\ \A v \in All(V) \cap All(V2) : \A o : Later(V2, o, v) <=> Later(V, o, v)
         /\ \A f : f.vertex \in All(V) \cap All(V2) => Sat(m2, f) = Sat(m, f)
<1>1. ASSUME NEW v \in All(V) \cap DOMAIN V2
      PROVE  v \in DOMAIN V /\ V2[v] = V[v] /\ m2[v] = m[v]
  BY DEF GoodTypes, Agree, All, One
<1>2. ASSUME NEW v \in All(V) \cap All(V2) PROVE m2[v] = m[v]
  BY <1>1 DEF Agree, All
<1>3. ASSUME NEW v \in All(V) \cap All(V2), NEW o
      PROVE  Later(V2, o, v) <=> Later(V, o, v)
  BY <1>1 DEF Later, All
<1>4. ASSUME NEW f, f.vertex \in All(V) \cap All(V2) PROVE Sat(m2, f) = Sat(m, f)
  BY <1>2, <1>4 DEF Sat
<1> QED BY <1>1, <1>2, <1>3, <1>4

LEMMA EntryStays ==
  ASSUME NEW V, NEW m, NEW n, NEW V2, NEW m2, NEW n2,
         GoodTypes(V, m, n), GoodTypes(V2, m2, n2), Agree(V, m, n, V2, m2), n <= n2,
         NEW k, NEW f, EntryIsGood(V, m, n, k, f), f.vertex \in All(V2)
  PROVE  EntryIsGood(V2, m2, n2, k, f)
<1> DEFINE i == Unsigned(k[2])
           j == Unsigned(k[3])
<1>1. i \in 2 .. n - 1 /\ j \in 2 .. n - 1 /\ n \in Nat /\ n2 \in Nat
  BY DEF EntryIsGood, GoodTypes
<1>2. f \in FunctionOf(All(V2)) /\ f.vertex \in All(V)
  BY DEF EntryIsGood, FunctionOf
<1>3. ASSUME i \in DOMAIN V2, j \in DOMAIN V2
      PROVE  /\ \A o \in Nat : Later(V2, o, i) /\ Later(V2, o, j) => Later(V2, o, f.vertex)
             /\ Sat(m2, f) = Combine(k[1], Sat(m2, Named(k[2])), Sat(m2, Named(k[3])))
  <2>1. i \in DOMAIN V /\ j \in DOMAIN V
    BY <1>1, <1>3 DEF Agree
  <2>2. i \in All(V) \cap All(V2) /\ j \in All(V) \cap All(V2)
    BY <1>3, <2>1 DEF All
  <2>3. Named(k[2]).vertex = i /\ Named(k[3]).vertex = j
    BY DEF Named, Fun
  <2>4. /\ \A o \in Nat : Later(V, o, i) /\ Later(V, o, j) => Later(V, o, f.vertex)
        /\ Sat(m, f) = Combine(k[1], Sat(m, Named(k[2])), Sat(m, Named(k[3])))
    BY <2>1 DEF EntryIsGood
  <2>5. /\ Sat(m2, f) = Sat(m, f)
        /\ Sat(m2, Named(k[2])) = Sat(m, Named(k[2]))
        /\ Sat(m2, Named(k[3])) = Sat(m, Named(k[3]))
    BY <1>2, <2>2, <2>3, SharedIsSame
  <2>6. ASSUME NEW o \in Nat
        PROVE  /\ Later(V2, o, i) <=> Later(V, o, i)
               /\ Later(V2, o, j) <=> Later(V, o, j)
               /\ Later(V2, o, f.vertex) <=> Later(V, o, f.vertex)
    BY <1>2, <2>2, SharedIsSame
  <2> QED BY <2>4, <2>5, <2>6
<1>4. i \in 2 .. n2 - 1 /\ j \in 2 .. n2 - 1
  BY <1>1
<1> QED BY <1>2, <1>3, <1>4 DEF EntryIsGood

LEMMA FrameStays ==
  ASSUME NEW V, NEW m, NEW n, NEW V2, NEW m2, NEW n2,
         GoodTypes(V, m, n), GoodTypes(V2, m2, n2), Agree(V, m, n, V2, m2),
         NEW t, NEW fr, FrameIsGood(V, m, t, fr),
         fr.one.vertex \in All(V2), fr.two.vertex \in All(V2), fr.high.vertex \in All(V2)
  PROVE  FrameIsGood(V2, m2, t, fr)
<1>1. /\ fr.one.vertex \in DOMAIN V /\ fr.one.vertex \in All(V)
      /\ fr.two.vertex \in DOMAIN V /\ fr.two.vertex \in All(V)
      /\ fr.high.vertex \in All(V)
      /\ One \notin DOMAIN V
  BY DEF FrameIsGood, All, GoodTypes, One
<1>2. fr.one.vertex \in DOMAIN V2 /\ fr.two.vertex \in DOMAIN V2
  BY <1>1 DEF All
<1>3. V2[fr.one.vertex] = V[fr.one.vertex] /\ V2[fr.two.vertex] = V[fr.two.vertex]
  BY <1>1, <1>2, SharedIsSame
<1>4. Index(V2, fr) = Index(V, fr)
  BY <1>3 DEF Index
<1>5. /\ Sat(m2, fr.one) = Sat(m, fr.one) /\ Sat(m2, fr.two) = Sat(m, fr.two)
      /\ Sat(m2, fr.high) = Sat(m, fr.high)
  BY <1>1, SharedIsSame
<1>6. Whole(m2, t, fr) = Whole(m, t, fr)
  BY <1>5 DEF Whole
<1>7. Later(V2, Order[Index(V, fr)], fr.high.vertex)
      <=> Later(V, Order[Index(V, fr)], fr.high.vertex)
  BY <1>1, SharedIsSame
<1> QED BY <1>2, <1>3, <1>4, <1>5, <1>6, <1>7 DEF FrameIsGood

\* What the call above the top activation has to return stays the same, too.
LEMMA FitsStays ==
  ASSUME NEW V, NEW m, NEW n, NEW V2, NEW m2, NEW n2,
         GoodTypes(V, m, n), GoodTypes(V2, m2, n2), Agree(V, m, n, V2, m2),
         NEW q, q.one.vertex \in All(V) \cap All(V2), q.two.vertex \in All(V) \cap All(V2),
         NEW s, NEW i \in Nat,
         i > 0 => /\ FrameIsGood(V, m, q.type, s[i])
                  /\ s[i].one.vertex \in All(V2) /\ s[i].two.vertex \in All(V2)
  PROVE  /\ \A R : Fits(V, m, q, s, i, R) => Fits(V2, m2, q, s, i, R)
         /\ \A w \in All(V) \cap All(V2) : Above(V, s, i, w) => Above(V2, s, i, w)
<1>1. CASE i = 0
  <2>1. Sat(m2, q.one) = Sat(m, q.one) /\ Sat(m2, q.two) = Sat(m, q.two)
    BY SharedIsSame
  <2> QED BY <1>1, <2>1 DEF Fits, Above
<1>2. CASE i > 0
  <2>1. /\ s[i].one.vertex \in DOMAIN V /\ s[i].two.vertex \in DOMAIN V /\ One \notin DOMAIN V
    BY <1>2 DEF FrameIsGood, GoodTypes, One
  <2>2. /\ s[i].one.vertex \in All(V) \cap DOMAIN V2
        /\ s[i].one.vertex \in All(V) \cap All(V2) /\ s[i].two.vertex \in All(V) \cap All(V2)
    BY <1>2, <2>1 DEF All
  <2>3. Index(V2, s[i]) = Index(V, s[i])
    BY <2>2, SharedIsSame DEF Index
  <2>4. Sat(m2, s[i].one) = Sat(m, s[i].one) /\ Sat(m2, s[i].two) = Sat(m, s[i].two)
    BY <2>2, SharedIsSame
  <2>5. Whole(m2, q.type, s[i]) = Whole(m, q.type, s[i])
    BY <2>4 DEF Whole
  <2>6. \A R : Fits(V, m, q, s, i, R) => Fits(V2, m2, q, s, i, R)
    BY <1>2, <2>3, <2>5 DEF Fits
  <2>7. ASSUME NEW w \in All(V) \cap All(V2), Above(V, s, i, w) PROVE Above(V2, s, i, w)
    BY <1>2, <2>3, <2>7, SharedIsSame DEF Above
  <2> QED BY <2>6, <2>7
<1> QED BY <1>1, <1>2

LEMMA StackStays ==
  ASSUME NEW V, NEW m, NEW n, NEW V2, NEW m2, NEW n2,
         GoodTypes(V, m, n), GoodTypes(V2, m2, n2), Agree(V, m, n, V2, m2),
         NEW q, q.one.vertex \in All(V) \cap All(V2), q.two.vertex \in All(V) \cap All(V2),
         NEW s, StackIsGood(V, m, q, s),
         \A i \in 1 .. Len(s) : /\ s[i].one.vertex \in All(V2) /\ s[i].two.vertex \in All(V2)
                                /\ s[i].high.vertex \in All(V2)
  PROVE  StackIsGood(V2, m2, q, s)
<1>1. s \in Seq(Frames) /\ Len(s) \in Nat
  BY DEF StackIsGood
<1>2. SUFFICES ASSUME NEW i \in 1 .. Len(s)
      PROVE  /\ FrameIsGood(V2, m2, q.type, s[i])
             /\ Fits(V2, m2, q, s, i - 1, Whole(m2, q.type, s[i]))
             /\ Above(V2, s, i - 1, s[i].one.vertex) /\ Above(V2, s, i - 1, s[i].two.vertex)
  BY <1>1 DEF StackIsGood
<1>3. FrameIsGood(V, m, q.type, s[i])
  BY DEF StackIsGood
<1>4. FrameIsGood(V2, m2, q.type, s[i])
  BY <1>3, FrameStays
<1>5. i - 1 \in Nat /\ (i - 1 > 0 => i - 1 \in 1 .. Len(s))
  BY <1>1
<1>6. i - 1 > 0 => FrameIsGood(V, m, q.type, s[i - 1])
  BY <1>5 DEF StackIsGood
<1>7. /\ \A R : Fits(V, m, q, s, i - 1, R) => Fits(V2, m2, q, s, i - 1, R)
      /\ \A w \in All(V) \cap All(V2) : Above(V, s, i - 1, w) => Above(V2, s, i - 1, w)
  BY <1>5, <1>6, FitsStays
<1>8. s[i].one.vertex \in All(V) \cap All(V2) /\ s[i].two.vertex \in All(V) \cap All(V2)
  BY <1>3 DEF FrameIsGood, All
<1>9. Whole(m2, q.type, s[i]) = Whole(m, q.type, s[i])
  <2>1. Sat(m2, s[i].one) = Sat(m, s[i].one) /\ Sat(m2, s[i].two) = Sat(m, s[i].two)
    BY <1>8, SharedIsSame
  <2> QED BY <2>1 DEF Whole
<1>10. /\ Fits(V, m, q, s, i - 1, Whole(m, q.type, s[i]))
       /\ Above(V, s, i - 1, s[i].one.vertex) /\ Above(V, s, i - 1, s[i].two.vertex)
  BY DEF StackIsGood
<1> QED BY <1>4, <1>7, <1>8, <1>9, <1>10

LEMMA ResultStays ==
  ASSUME NEW V, NEW m, NEW n, NEW V2, NEW m2, NEW n2,
         GoodTypes(V, m, n), GoodTypes(V2, m2, n2), Agree(V, m, n, V2, m2),
         NEW q, q.one.vertex \in All(V) \cap All(V2), q.two.vertex \in All(V) \cap All(V2),
         NEW s, StackIsGood(V, m, q, s),
         \A i \in 1 .. Len(s) : /\ s[i].one.vertex \in All(V2) /\ s[i].two.vertex \in All(V2)
                                /\ s[i].high.vertex \in All(V2),
         NEW f, ResultIsGood(V, m, q, s, f), f.vertex \in All(V2)
  PROVE  ResultIsGood(V2, m2, q, s, f)
<1>1. s \in Seq(Frames) /\ Len(s) \in Nat /\ (Len(s) > 0 => Len(s) \in 1 .. Len(s))
  BY DEF StackIsGood
<1>2. Len(s) > 0 => FrameIsGood(V, m, q.type, s[Len(s)])
  BY <1>1 DEF StackIsGood
<1>3. /\ \A R : Fits(V, m, q, s, Len(s), R) => Fits(V2, m2, q, s, Len(s), R)
      /\ \A w \in All(V) \cap All(V2) : Above(V, s, Len(s), w) => Above(V2, s, Len(s), w)
  BY <1>1, <1>2, FitsStays
<1>4. f \in FunctionOf(All(V2)) /\ f.vertex \in All(V) \cap All(V2)
  BY DEF ResultIsGood, FunctionOf
<1>5. Sat(m2, f) = Sat(m, f)
  BY <1>4, SharedIsSame
<1> QED BY <1>3, <1>4, <1>5 DEF ResultIsGood

-----------------------------------------------------------------------------
\* Steps.

LEMMA KeepIsGood ==
  ASSUME NEW V, NEW m, NEW n, Bdd(V, m, n), NEW roots, Keep(V, m, roots)
  PROVE  /\ Bdd(vertex', meaning', n)
         /\ Agree(V, m, n, vertex', meaning')
         /\ roots \cap All(V) \subseteq All(vertex')
<1> DEFINE live == Alive(V, roots)
<1>1. /\ live \in SUBSET DOMAIN V
      /\ roots \cap DOMAIN V \subseteq live
      /\ \A v \in live : Below(V, v) \subseteq live
  BY BelowIsAlive, AliveIsClosed
<1>2. /\ vertex' = [v \in live |-> V[v]]
      /\ meaning' = [v \in live \cup {One} |-> m[v]]
  BY DEF Keep
<1> HIDE DEF live
<1>3. Bdd(vertex', meaning', n)
  BY <1>1, <1>2, RestrictionIsBdd
<1>4. Agree(V, m, n, vertex', meaning')
  BY <1>1, <1>2 DEF Agree
<1>5. roots \cap All(V) \subseteq All(vertex')
  BY <1>1, <1>2 DEF All
<1> QED BY <1>3, <1>4, <1>5

LEMMA NamedOfSigned ==
  ASSUME NEW m, NEW S, NEW f \in FunctionOf(S), f.vertex \in Nat, f.vertex # 0
  PROVE  Sat(m, Named(Signed(f.vertex, f.complement))) = Sat(m, f)
<1> DEFINE i == Signed(f.vertex, f.complement)
<1>1. CASE f.complement
  <2>1. i = -f.vertex /\ (i < 0) = TRUE /\ Unsigned(i) = f.vertex
    BY <1>1 DEF Signed, Unsigned
  <2>2. Named(i) = Fun(TRUE, f.vertex)
    BY <2>1 DEF Named
  <2>3. Sat(m, Fun(TRUE, f.vertex)) = Assignment \ m[f.vertex]
    BY DEF Sat, Fun
  <2> QED BY <1>1, <2>2, <2>3 DEF Sat
<1>2. CASE ~f.complement
  <2>1. i = f.vertex /\ (i < 0) = FALSE /\ Unsigned(i) = f.vertex
    BY <1>2 DEF Signed, Unsigned
  <2>2. Named(i) = Fun(FALSE, f.vertex)
    BY <2>1 DEF Named
  <2>3. Sat(m, Fun(FALSE, f.vertex)) = m[f.vertex]
    BY DEF Sat, Fun
  <2> QED BY <1>2, <2>2, <2>3 DEF Sat
<1> QED BY <1>1, <1>2

LEMMA CombineCommutes ==
  ASSUME NEW t, NEW P, NEW Q
  PROVE  Combine(t, P, Q) = Combine(t, Q, P)
BY DEF Combine

LEMMA PopFacts ==
  ASSUME NEW S, NEW s \in Seq(S), Len(s) > 0
  PROVE  LET p == SubSeq(s, 1, Len(s) - 1)
         IN  /\ p \in Seq(S) /\ Len(p) = Len(s) - 1
             /\ \A i \in 1 .. Len(p) : p[i] = s[i]
<1> DEFINE j == Len(s) - 1
<1>1. j \in Nat /\ j < Len(s)
  OBVIOUS
<1> HIDE DEF j
<1>2. SubSeq(s, 1, j) \in Seq(S)
  BY <1>1
<1>3. Len(SubSeq(s, 1, j)) = j
  BY <1>1
<1>4. \A i \in 1 .. j : SubSeq(s, 1, j)[i] = s[i]
  BY <1>1
<1> QED BY <1>2, <1>3, <1>4 DEF j

LEMMA PoppedStackIsGood ==
  ASSUME NEW V, NEW m, NEW q, NEW s, StackIsGood(V, m, q, s), s # <<>>
  PROVE  LET p == SubSeq(s, 1, Len(s) - 1)
         IN  /\ StackIsGood(V, m, q, p)
             /\ Len(s) \in Nat /\ Len(s) > 0 /\ Len(p) = Len(s) - 1
             /\ \A i \in 1 .. Len(p) : p[i] = s[i]
<1> DEFINE p == SubSeq(s, 1, Len(s) - 1)
<1>1. s \in Seq(Frames) /\ Len(s) \in Nat /\ Len(s) > 0
  BY DEF StackIsGood
<1>2. /\ p \in Seq(Frames) /\ Len(p) = Len(s) - 1
      /\ \A i \in 1 .. Len(p) : p[i] = s[i]
  BY <1>1, PopFacts
<1> HIDE DEF p
<1>3. ASSUME NEW i \in 1 .. Len(p)
      PROVE  /\ FrameIsGood(V, m, q.type, p[i])
             /\ Fits(V, m, q, p, i - 1, Whole(m, q.type, p[i]))
             /\ Above(V, p, i - 1, p[i].one.vertex) /\ Above(V, p, i - 1, p[i].two.vertex)
  <2>1. i \in 1 .. Len(s) /\ p[i] = s[i] /\ (i - 1 = 0 \/ p[i - 1] = s[i - 1])
    BY <1>1, <1>2
  <2>2. /\ FrameIsGood(V, m, q.type, s[i])
        /\ Fits(V, m, q, s, i - 1, Whole(m, q.type, s[i]))
        /\ Above(V, s, i - 1, s[i].one.vertex) /\ Above(V, s, i - 1, s[i].two.vertex)
    BY <2>1 DEF StackIsGood
  <2> QED BY <2>1, <2>2 DEF Fits, Above
<1>4. StackIsGood(V, m, q, p)
  BY <1>2, <1>3 DEF StackIsGood
<1> QED BY <1>1, <1>2, <1>4 DEF p

\* The new table entry for the result of the top activation.
LEMMA ReturnedEntryIsGood ==
  ASSUME NEW V, NEW m, NEW n, Bdd(V, m, n), NEW t \in Connectives,
         NEW fr, FrameIsGood(V, m, t, fr),
         NEW f \in FunctionOf(All(V)), Sat(m, f) = Whole(m, t, fr),
         \A o \in Nat : o < Order[Index(V, fr)] => Later(V, o, f.vertex)
  PROVE  EntryIsGood(V, m, n, fr.key, f)
<1> DEFINE u == fr.one.vertex
           v == fr.two.vertex
<1>1. /\ u \in DOMAIN V /\ v \in DOMAIN V
      /\ fr.one \in FunctionOf(Nat) /\ fr.two \in FunctionOf(Nat) /\ fr.key \in Entry
  BY DEF FrameIsGood, Frames
<1>2. /\ u \in 2 .. n - 1 /\ v \in 2 .. n - 1 /\ n \in Nat /\ u # One /\ v # One
      /\ u \in Nat /\ v \in Nat /\ u # 0 /\ v # 0
  BY <1>1 DEF Bdd, GoodTypes, One
<1>3. ASSUME NEW g \in FunctionOf(Nat), g.vertex # 0
      PROVE  Unsigned(Signed(g.vertex, g.complement)) = g.vertex
  <2>1. g.vertex \in Nat
    BY DEF FunctionOf
  <2>2. CASE g.complement
    BY <1>3, <2>1, <2>2 DEF Signed, Unsigned
  <2>3. CASE ~g.complement
    BY <1>3, <2>1, <2>3 DEF Signed, Unsigned
  <2> QED BY <2>2, <2>3
<1>4. /\ Sat(m, Named(Signed(u, fr.one.complement))) = Sat(m, fr.one)
      /\ Sat(m, Named(Signed(v, fr.two.complement))) = Sat(m, fr.two)
  BY <1>1, <1>2, NamedOfSigned
<1>5. /\ Unsigned(Signed(u, fr.one.complement)) = u
      /\ Unsigned(Signed(v, fr.two.complement)) = v
  BY <1>1, <1>2, <1>3
<1>6. ASSUME NEW o \in Nat, Later(V, o, u) PROVE Later(V, o, f.vertex)
  BY <1>2, <1>6 DEF Later, Index
<1>7. Whole(m, t, fr) = Combine(t, Sat(m, fr.two), Sat(m, fr.one))
  BY CombineCommutes DEF Whole
<1>8. CASE /\ fr.key[2] = Signed(u, fr.one.complement)
           /\ fr.key[3] = Signed(v, fr.two.complement)
  BY <1>1, <1>2, <1>4, <1>5, <1>6, <1>8 DEF EntryIsGood, FrameIsGood, Whole
<1>9. CASE /\ fr.key[2] = Signed(v, fr.two.complement)
           /\ fr.key[3] = Signed(u, fr.one.complement)
  BY <1>1, <1>2, <1>4, <1>5, <1>6, <1>7, <1>9 DEF EntryIsGood, FrameIsGood
<1> QED BY <1>8, <1>9 DEF FrameIsGood

\* What the client waits for, by the top of the stack below the activation.
LEMMA ReturnedResultIsGood ==
  ASSUME NEW V, NEW m, NEW n, Bdd(V, m, n), NEW q, NEW s, s # <<>>,
         StackIsGood(V, m, q, s),
         NEW f \in FunctionOf(All(V)), Sat(m, f) = Whole(m, q.type, s[Len(s)]),
         \A o \in Nat : o < Order[Index(V, s[Len(s)])] => Later(V, o, f.vertex)
  PROVE  ResultIsGood(V, m, q, SubSeq(s, 1, Len(s) - 1), f)
<1> DEFINE p == SubSeq(s, 1, Len(s) - 1)
           k == Len(s)
<1>1. /\ k \in Nat /\ k > 0 /\ Len(p) = k - 1
      /\ \A i \in 1 .. Len(p) : p[i] = s[i]
  BY PoppedStackIsGood
<1> HIDE DEF p, k
<1>2. /\ FrameIsGood(V, m, q.type, s[k])
      /\ Fits(V, m, q, s, k - 1, Whole(m, q.type, s[k]))
      /\ Above(V, s, k - 1, s[k].one.vertex)
  BY <1>1 DEF StackIsGood, k
<1>3. k - 1 = 0 \/ (p[k - 1] = s[k - 1] /\ k - 1 \in 1 .. k)
  BY <1>1
<1>4. Fits(V, m, q, p, k - 1, Sat(m, f))
  BY <1>2, <1>3 DEF Fits, k
<1>5. Above(V, p, k - 1, f.vertex)
  <2>1. CASE k - 1 = 0
    BY <2>1 DEF Above
  <2>2. CASE k - 1 # 0
    <3>1. p[k - 1] = s[k - 1] /\ FrameIsGood(V, m, q.type, s[k - 1])
      BY <1>3, <2>2 DEF StackIsGood, k
    <3>2. s[k - 1].one.vertex \in DOMAIN V /\ s[k].one.vertex \in DOMAIN V
      BY <1>2, <3>1 DEF FrameIsGood
    <3>3. s[k].one.vertex # One
      BY <3>2 DEF Bdd, GoodTypes, One
    <3>4. Order[Index(V, s[k - 1])] \in Nat
      BY <3>2, OrderAssumption DEF Index, Bdd, GoodTypes
    <3>5. Order[Index(V, s[k - 1])] < Order[Index(V, s[k])]
      <4>1. Order[Index(V, s[k])] > Order[Index(V, s[k - 1])]
        BY <1>2, <2>2, <3>3 DEF Above, Later, Index
      <4>2. Order[Index(V, s[k])] \in Nat
        BY <3>2, OrderAssumption DEF Index, Bdd, GoodTypes
      <4> QED BY <3>4, <4>1, <4>2
    <3> QED BY <3>1, <3>4, <3>5 DEF Above, k
  <2> QED BY <2>1, <2>2
<1> QED BY <1>1, <1>4, <1>5 DEF ResultIsGood, p

\* An activation returns f, which has been found or made in the BDD of V and m.
LEMMA ReturnIsGood ==
  ASSUME NEW V, NEW m, NEW n, Bdd(V, m, n), TableIsGood(V, m, n, computed),
         AskedIsGood(V, asked), asked.one.vertex \in held, asked.two.vertex \in held,
         stack # <<>>, StackIsGood(V, m, asked, stack),
         held \subseteq All(V), request = None, calls \in 0 .. MaxCalls,
         NEW f \in FunctionOf(All(V)), Sat(m, f) = Whole(m, asked.type, Frame),
         \A o \in Nat : o < Order[Index(V, Frame)] => Later(V, o, f.vertex),
         Return(f, V, m), function_id' = n
  PROVE  IInv'
<1> DEFINE p == SubSeq(stack, 1, Len(stack) - 1)
           roots == held \cup Cached(computed') \cup Active(stack') \cup {f.vertex}
<1>1. /\ stack' = p /\ result' = f /\ request' = request /\ asked' = asked
      /\ held' = held /\ calls' = calls /\ Keep(V, m, roots)
      /\ \E kept \in SUBSET (DOMAIN computed) :
           computed' = With([k \in kept |-> computed[k]], Frame.key, f)
  BY DEF Return, Emplace
<1>2. /\ StackIsGood(V, m, asked, p) /\ Len(stack) \in Nat /\ Len(stack) > 0
      /\ Len(p) = Len(stack) - 1 /\ \A i \in 1 .. Len(p) : p[i] = stack[i]
  BY PoppedStackIsGood
<1> HIDE DEF p, roots
<1>3. /\ Bdd(vertex', meaning', n) /\ Agree(V, m, n, vertex', meaning')
      /\ roots \cap All(V) \subseteq All(vertex')
  BY <1>1, KeepIsGood
<1>4. GoodTypes(V, m, n) /\ GoodTypes(vertex', meaning', n) /\ n \in Nat
  BY <1>3 DEF Bdd, GoodTypes
<1>5. held \subseteq All(vertex') /\ f.vertex \in All(V) \cap All(vertex')
  BY <1>3 DEF roots, FunctionOf
<1>6. TableIsGood(vertex', meaning', n, computed')
  <2>1. EntryIsGood(V, m, n, Frame.key, f)
    BY <1>2, ReturnedEntryIsGood DEF StackIsGood, Frame, AskedIsGood
  <2>2. SUFFICES ASSUME NEW k \in DOMAIN computed'
                 PROVE  EntryIsGood(vertex', meaning', n, k, computed'[k])
    BY DEF TableIsGood
  <2>3. EntryIsGood(V, m, n, k, computed'[k])
    BY <1>1, <2>1 DEF With, TableIsGood
  <2>4. computed'[k].vertex \in Cached(computed') /\ computed'[k].vertex \in All(V)
    BY <2>3 DEF Cached, EntryIsGood, FunctionOf
  <2>5. computed'[k].vertex \in All(vertex')
    BY <1>3, <2>4 DEF roots
  <2> QED BY <1>3, <1>4, <2>3, <2>5, EntryStays
<1>7. \A i \in 1 .. Len(p) : /\ p[i].one.vertex \in All(vertex') /\ p[i].two.vertex \in All(vertex')
                             /\ p[i].high.vertex \in All(vertex')
  <2>1. ASSUME NEW i \in 1 .. Len(p)
        PROVE  {p[i].one.vertex, p[i].two.vertex, p[i].high.vertex} \subseteq roots \cap All(V)
    <3>1. FrameIsGood(V, m, asked.type, p[i])
      BY <1>2 DEF StackIsGood
    <3> QED BY <1>1, <3>1 DEF roots, Active, FrameIsGood, All
  <2> QED BY <1>3, <2>1
<1>8. /\ asked.one.vertex \in All(V) \cap All(vertex')
      /\ asked.two.vertex \in All(V) \cap All(vertex')
      /\ AskedIsGood(vertex', asked)
  <2>1. asked.one.vertex \in All(vertex') /\ asked.two.vertex \in All(vertex')
    BY <1>5
  <2> QED BY <2>1 DEF AskedIsGood, FunctionOf
<1>9. StackIsGood(vertex', meaning', asked, p)
  BY <1>2, <1>3, <1>4, <1>7, <1>8, StackStays
<1>10. ResultIsGood(vertex', meaning', asked, p, f)
  <2>1. ResultIsGood(V, m, asked, p, f)
    BY ReturnedResultIsGood DEF Frame, p
  <2> QED BY <1>2, <1>3, <1>4, <1>5, <1>7, <1>8, <2>1, ResultStays
<1>11. p \in Seq(Frames)
  BY <1>2 DEF StackIsGood
<1> QED BY <1>1, <1>3, <1>5, <1>6, <1>8, <1>9, <1>10, <1>11 DEF IInv, Busy

-----------------------------------------------------------------------------
LEMMA Flipped ==
  ASSUME NEW c \in BOOLEAN, NEW d \in BOOLEAN
  PROVE  (c => (d # c) = ~d) /\ (~c => (d # c) = d)
OBVIOUS

\* The cofactors of a function for a variable that does not come after its own.
LEMMA Cofactors ==
  ASSUME Bdd(vertex, meaning, function_id),
         NEW f \in FunctionOf(All(vertex)), f.vertex \in DOMAIN vertex,
         NEW x \in Variable, Order[x] <= OrderOf(f)
  PROVE  LET high == HighAt(f, Order[x])
             low == LowAt(f, Order[x])
         IN  /\ high \in FunctionOf(All(vertex)) /\ low \in FunctionOf(All(vertex))
             /\ Later(vertex, Order[x], high.vertex) /\ Later(vertex, Order[x], low.vertex)
             /\ \A a \in Assignment :
                  /\ x \in a => (a \in Sat(meaning, high) <=> a \in Sat(meaning, f))
                  /\ x \notin a => (a \in Sat(meaning, low) <=> a \in Sat(meaning, f))
<1> DEFINE v == f.vertex
           y == vertex[v].index
           h == vertex[v].high
           l == vertex[v].low
           c == vertex[v].complement_edge
<1>1. /\ y \in Variable /\ h \in All(vertex) /\ l \in All(vertex) /\ c \in BOOLEAN
      /\ f.complement \in BOOLEAN
  BY DEF Bdd, GoodTypes, FunctionOf
<1>2. Order[x] \in Nat /\ Order[y] \in Nat /\ OrderOf(f) = Order[y]
  BY <1>1, OrderAssumption DEF OrderOf
<1>3. CASE Order[x] # Order[y]
  <2>1. HighAt(f, Order[x]) = f /\ LowAt(f, Order[x]) = f
    BY <1>2, <1>3 DEF HighAt, LowAt
  <2>2. Later(vertex, Order[x], v)
    BY <1>2, <1>3 DEF Later
  <2> QED BY <2>1, <2>2
<1>4. CASE Order[x] = Order[y]
  <2>1. x = y
    BY <1>1, <1>4, OrderAssumption
  <2>2. HighAt(f, Order[x]) = High(f) /\ LowAt(f, Order[x]) = Low(f)
    BY <1>2, <1>4 DEF HighAt, LowAt
  <2>3. High(f) = [complement |-> f.complement, vertex |-> h]
    BY DEF High, Fun
  <2>4. Low(f) = [complement |-> f.complement # c, vertex |-> l]
    BY DEF Low, Flip, Fun
  <2>5. High(f) \in FunctionOf(All(vertex)) /\ Low(f) \in FunctionOf(All(vertex))
    <3>1. (f.complement # c) \in BOOLEAN
      OBVIOUS
    <3> QED BY <1>1, <2>3, <2>4, <3>1 DEF FunctionOf
  <2>6. Later(vertex, Order[x], h) /\ Later(vertex, Order[x], l)
    BY <1>4 DEF Bdd, GoodStructure
  <2>7. meaning[v] = Mix(x, meaning[h], Sat(meaning, Fun(c, l)))
    BY <2>1 DEF Bdd, GoodStructure
  <2>8. ASSUME NEW a \in Assignment, x \in a
        PROVE  a \in Sat(meaning, High(f)) <=> a \in Sat(meaning, f)
    <3>1. a \in meaning[h] <=> a \in meaning[v]
      BY <2>7, <2>8 DEF Mix
    <3> QED BY <1>1, <2>3, <3>1 DEF Sat
  <2>9. ASSUME NEW a \in Assignment, x \notin a
        PROVE  a \in Sat(meaning, Low(f)) <=> a \in Sat(meaning, f)
    <3>1. a \in Sat(meaning, Fun(c, l)) <=> a \in meaning[v]
      BY <2>7, <2>9 DEF Mix
    <3>2. CASE c
      <4>1. a \notin meaning[l] <=> a \in meaning[v]
        BY <3>1, <3>2 DEF Sat, Fun
      <4>2. Low(f).complement = ~f.complement /\ Low(f).vertex = l
        <5>1. (f.complement # c) = ~f.complement
          BY <1>1, <3>2, Flipped
        <5> QED BY <2>4, <5>1
      <4> QED BY <1>1, <4>1, <4>2 DEF Sat
    <3>3. CASE ~c
      <4>1. a \in meaning[l] <=> a \in meaning[v]
        BY <3>1, <3>3 DEF Sat, Fun
      <4>2. Low(f).complement = f.complement /\ Low(f).vertex = l
        BY <1>1, <2>4, <3>3
      <4> QED BY <1>1, <4>1, <4>2 DEF Sat
    <3> QED BY <1>1, <3>2, <3>3
  <2> QED BY <2>2, <2>3, <2>4, <2>5, <2>6, <2>8, <2>9
<1> QED BY <1>3, <1>4

-----------------------------------------------------------------------------
\* Every step preserves the invariant.

LEMMA IdleIsNotBusy == Idle => ~Busy
BY DEF Idle, Busy

\* Steps of the client that change no vertex, and those that only delete some.
LEMMA CallPreserves ==
  ASSUME IInv, NEW type \in Connectives, NEW f \in Functions, NEW g \in Functions,
         Call(type, f, g)
  PROVE  IInv'
<1>1. /\ stack = <<>> /\ request' = <<f, g>> /\ asked' = [type |-> type, one |-> f, two |-> g]
      /\ result = None /\ calls' \in 0 .. MaxCalls
      /\ UNCHANGED <<vertex, meaning, function_id, computed, stack, result, held>>
  <2>1. calls \in 0 .. MaxCalls /\ calls < MaxCalls /\ calls' = calls + 1
    BY DEF Call, IInv
  <2>2. calls' \in 0 .. MaxCalls
    BY <2>1, MaxCallsAssumption
  <2> QED BY <2>2 DEF Call, Idle, graph
<1>2. /\ f \in FunctionOf(All(vertex)) /\ g \in FunctionOf(All(vertex))
      /\ f.vertex \in held /\ g.vertex \in held
  BY DEF IInv, Functions, Fun, FunctionOf
<1>3. AskedIsGood(vertex, asked')
  BY <1>1, <1>2 DEF AskedIsGood
<1>4. Len(stack) = 0 /\ stack \in Seq(Frames)
  BY <1>1 DEF IInv
<1>5. StackIsGood(vertex, meaning, asked', stack)
  BY <1>4 DEF StackIsGood
<1>6. RequestIsGood(vertex, meaning, asked', stack, request')
  BY <1>1, <1>2, <1>4 DEF RequestIsGood, Fits, Above
<1> QED BY <1>1, <1>2, <1>3, <1>4, <1>5, <1>6 DEF IInv

LEMMA ReceivePreserves ==
  ASSUME IInv, Receive
  PROVE  IInv'
<1>1. /\ stack = <<>> /\ result # None /\ held' = held \cup {result.vertex} /\ result' = None
      /\ UNCHANGED <<vertex, meaning, function_id, computed, stack, request, asked, calls>>
  BY DEF Receive, graph
<1>2. request = None /\ held' \subseteq All(vertex)
  BY <1>1 DEF IInv, ResultIsGood, FunctionOf
<1>3. ~Busy'
  BY <1>1, <1>2 DEF Busy
<1> QED BY <1>1, <1>2, <1>3 DEF IInv

LEMMA DeletionPreserves ==
  ASSUME IInv, Idle, UNCHANGED <<function_id, stack, request, result, calls>>,
         held' \subseteq held,
         \A k \in DOMAIN computed' : k \in DOMAIN computed /\ computed'[k] = computed[k],
         Keep(vertex, meaning, held' \cup Cached(computed'))
  PROVE  IInv'
<1> DEFINE n == function_id
           roots == held' \cup Cached(computed')
<1>1. /\ Bdd(vertex', meaning', n) /\ Agree(vertex, meaning, n, vertex', meaning')
      /\ roots \cap All(vertex) \subseteq All(vertex')
  BY KeepIsGood DEF IInv
<1>2. /\ GoodTypes(vertex, meaning, n) /\ GoodTypes(vertex', meaning', n) /\ n \in Nat
  BY <1>1 DEF IInv, Bdd, GoodTypes
<1>3. TableIsGood(vertex', meaning', n, computed')
  <2> SUFFICES ASSUME NEW k \in DOMAIN computed'
               PROVE  EntryIsGood(vertex', meaning', n, k, computed'[k])
    BY DEF TableIsGood
  <2>1. EntryIsGood(vertex, meaning, n, k, computed'[k])
    BY DEF IInv, TableIsGood
  <2>2. computed'[k].vertex \in roots \cap All(vertex)
    BY <2>1 DEF Cached, EntryIsGood, FunctionOf
  <2> QED BY <1>1, <1>2, <2>1, <2>2, EntryStays
<1>4. held' \subseteq All(vertex')
  BY <1>1 DEF IInv
<1>5. ~Busy' /\ request' = None /\ result' = None
  BY DEF Idle, Busy
<1> QED BY <1>1, <1>3, <1>4, <1>5 DEF IInv

LEMMA ReleasePreserves ==
  ASSUME IInv, NEW v \in held, Release(v)
  PROVE  IInv'
BY DeletionPreserves DEF Release

LEMMA ClearTablesPreserves ==
  ASSUME IInv, ClearTables
  PROVE  IInv'
<1>1. DOMAIN computed' = {} /\ Cached(computed') = {}
  BY DEF ClearTables, Cached
<1>2. held' \cup Cached(computed') = held
  BY <1>1 DEF ClearTables
<1> QED BY <1>1, <1>2, DeletionPreserves DEF ClearTables

\* What a new vertex changes of the BDD.
LEMMA AdditionAgrees ==
  ASSUME NEW V, NEW m, NEW n, GoodTypes(V, m, n), NEW r, NEW S
  PROVE  Agree(V, m, n, With(V, n, r), With(m, n, S))
<1>1. /\ DOMAIN With(V, n, r) = DOMAIN V \cup {n}
      /\ \A v \in DOMAIN V : With(V, n, r)[v] = V[v]
      /\ \A v \in All(V) : With(m, n, S)[v] = m[v]
  BY DEF With, GoodTypes, All, One
<1>2. n \in Nat /\ One \in All(V) /\ \A v \in DOMAIN V : v \in All(V)
  BY DEF GoodTypes, All
<1> QED BY <1>1, <1>2 DEF Agree

LEMMA AddVariablePreserves ==
  ASSUME IInv, NEW x \in Variable, AddVariable(x)
  PROVE  IInv'
<1> DEFINE high == Fun(FALSE, One)
           low == Fun(TRUE, One)
           n == function_id
<1>1. /\ Idle /\ calls' \in 0 .. MaxCalls
      /\ UNCHANGED <<computed, stack, request, result, asked>>
  <2>1. calls \in 0 .. MaxCalls /\ calls < MaxCalls /\ calls' = calls + 1
    BY DEF AddVariable, IInv
  <2>2. calls' \in 0 .. MaxCalls
    BY <2>1, MaxCallsAssumption
  <2> QED BY <2>2 DEF AddVariable
<1>2. ~Busy' /\ request' = None /\ result' = None
  BY <1>1 DEF Idle, Busy
<1>3. CASE Same(x, high, low) # {}
  <2>1. held' = held \cup Same(x, high, low) /\ UNCHANGED <<vertex, meaning, function_id>>
    BY <1>3 DEF AddVariable, graph
  <2>2. held' \subseteq All(vertex)
    BY <2>1 DEF IInv, Same, All
  <2> QED BY <1>1, <1>2, <2>1, <2>2 DEF IInv
<1>4. CASE Same(x, high, low) = {}
  <2>1. /\ vertex' = With(vertex, n, NewVertex(x, high, low))
        /\ meaning' = With(meaning, n, NewMeaning(x, high, low))
        /\ function_id' = n + 1 /\ held' = held \cup {n}
    BY <1>4 DEF AddVariable
  <2>2. /\ high \in FunctionOf(All(vertex)) /\ low \in FunctionOf(All(vertex)) /\ high # low
        /\ Later(vertex, Order[x], high.vertex) /\ Later(vertex, Order[x], low.vertex)
    BY DEF Fun, FunctionOf, All, Later
  <2>3. Bdd(vertex', meaning', n + 1)
    BY <1>4, <2>1, <2>2, AddedVertexIsGood DEF IInv
  <2>4. GoodTypes(vertex, meaning, n) /\ GoodTypes(vertex', meaning', n + 1) /\ n \in Nat
    BY <2>3 DEF IInv, Bdd, GoodTypes
  <2>5. Agree(vertex, meaning, n, vertex', meaning')
    BY <2>1, <2>4, AdditionAgrees
  <2>6. DOMAIN vertex' = DOMAIN vertex \cup {n}
    BY <2>1 DEF With
  <2>7. TableIsGood(vertex', meaning', n + 1, computed)
    <3> SUFFICES ASSUME NEW k \in DOMAIN computed
                 PROVE  EntryIsGood(vertex', meaning', n + 1, k, computed[k])
      BY DEF TableIsGood
    <3>1. EntryIsGood(vertex, meaning, n, k, computed[k])
      BY DEF IInv, TableIsGood
    <3>2. computed[k].vertex \in All(vertex')
      BY <2>6, <3>1 DEF EntryIsGood, FunctionOf, All
    <3>3. n <= n + 1
      BY <2>4
    <3> QED BY <2>4, <2>5, <3>1, <3>2, <3>3, EntryStays
  <2>8. held' \subseteq All(vertex')
    BY <2>1, <2>6 DEF IInv, All
  <2> QED BY <1>1, <1>2, <2>1, <2>3, <2>7, <2>8 DEF IInv
<1> QED BY <1>3, <1>4

-----------------------------------------------------------------------------
LEMMA AnswerPreserves ==
  ASSUME IInv, request # None, NEW f \in FunctionOf(All(vertex)),
         Sat(meaning, f) = Combine(asked.type, Sat(meaning, one), Sat(meaning, two)),
         Above(vertex, stack, Len(stack), f.vertex),
         Answer(f)
  PROVE  IInv'
<1>1. /\ result' = f /\ request' = None
      /\ UNCHANGED <<vertex, meaning, function_id, computed, stack, asked, held, calls>>
  BY DEF Answer, graph
<1>2. Busy /\ RequestIsGood(vertex, meaning, asked, stack, request)
  BY DEF IInv, Busy
<1>3. ResultIsGood(vertex, meaning, asked, stack, f)
  BY <1>2 DEF RequestIsGood, ResultIsGood, one, two
<1>4. /\ AskedIsGood(vertex, asked)
      /\ asked.one.vertex \in held /\ asked.two.vertex \in held
      /\ StackIsGood(vertex, meaning, asked, stack)
  BY <1>2 DEF IInv
<1> QED BY <1>1, <1>3, <1>4 DEF IInv

\* The arguments of the call to be made.
LEMMA Arguments ==
  ASSUME IInv, request # None
  PROVE  /\ one \in FunctionOf(All(vertex)) /\ two \in FunctionOf(All(vertex))
         /\ Above(vertex, stack, Len(stack), one.vertex)
         /\ Above(vertex, stack, Len(stack), two.vertex)
         /\ Sat(meaning, one) \in SUBSET Assignment /\ Sat(meaning, two) \in SUBSET Assignment
         /\ asked.type \in Connectives
<1>1. RequestIsGood(vertex, meaning, asked, stack, request) /\ AskedIsGood(vertex, asked)
  BY DEF IInv, Busy
<1>2. /\ one \in FunctionOf(All(vertex)) /\ two \in FunctionOf(All(vertex))
      /\ Above(vertex, stack, Len(stack), one.vertex)
      /\ Above(vertex, stack, Len(stack), two.vertex)
  BY <1>1 DEF RequestIsGood, one, two
<1>3. one.vertex \in All(vertex) /\ two.vertex \in All(vertex)
  BY <1>2 DEF FunctionOf
<1> QED BY <1>1, <1>2, <1>3, SatIsSet DEF IInv, Bdd, AskedIsGood

\* What a connective makes of a constant and of opposite functions.
LEMMA AbsorbingSat ==
  ASSUME IInv, request # None
  PROVE  /\ Absorbing \in FunctionOf(All(vertex)) /\ Absorbing.vertex = One
         /\ Sat(meaning, Absorbing) = IF asked.type = "and" THEN {} ELSE Assignment
<1>1. Absorbing = [complement |-> asked.type = "and", vertex |-> One]
  BY DEF Absorbing, Fun
<1>2. (asked.type = "and") \in BOOLEAN
  OBVIOUS
<1>3. meaning[One] = Assignment
  BY DEF IInv, Bdd, GoodStructure
<1>4. Absorbing.vertex = One /\ Absorbing.complement = (asked.type = "and")
  BY <1>1
<1>5. Absorbing \in FunctionOf(All(vertex))
  BY <1>1, <1>2 DEF FunctionOf, All
<1>6. Sat(meaning, Absorbing) = IF asked.type = "and" THEN {} ELSE Assignment
  BY <1>3, <1>4 DEF Sat
<1> QED BY <1>4, <1>5, <1>6

LEMMA TerminalArgumentPreserves ==
  ASSUME IInv, TerminalArgument
  PROVE  IInv'
<1> DEFINE constant == IF Terminal(one) THEN one ELSE two
           other == IF Terminal(one) THEN two ELSE one
<1>1. /\ request # None /\ constant.vertex = One
      /\ Answer(IF constant = Absorbing THEN Absorbing ELSE other)
  BY DEF TerminalArgument, Terminal
<1>2. /\ constant \in FunctionOf(All(vertex)) /\ other \in FunctionOf(All(vertex))
      /\ Above(vertex, stack, Len(stack), other.vertex)
      /\ Sat(meaning, other) \in SUBSET Assignment
      /\ asked.type \in Connectives
  BY <1>1, Arguments
<1>3. Combine(asked.type, Sat(meaning, one), Sat(meaning, two))
        = Combine(asked.type, Sat(meaning, constant), Sat(meaning, other))
  BY CombineCommutes
<1> HIDE DEF constant, other
<1>4. CASE constant = Absorbing
  <2>1. Sat(meaning, Absorbing) = Combine(asked.type, Sat(meaning, constant), Sat(meaning, other))
    BY <1>1, <1>2, <1>4, AbsorbingSat DEF Combine, Connectives
  <2>2. Above(vertex, stack, Len(stack), Absorbing.vertex)
    BY <1>1, AbsorbingSat DEF Above, Later
  <2> QED BY <1>1, <1>3, <1>4, <2>1, <2>2, AbsorbingSat, AnswerPreserves
<1>5. CASE constant # Absorbing
  <2>1. constant.complement # (asked.type = "and")
    <3>1. Absorbing = [complement |-> asked.type = "and", vertex |-> One]
      BY DEF Absorbing, Fun
    <3> QED BY <1>1, <1>2, <1>5, <3>1 DEF FunctionOf
  <2>2. Sat(meaning, constant) = IF asked.type = "and" THEN Assignment ELSE {}
    <3>1. meaning[One] = Assignment /\ constant.complement \in BOOLEAN
      BY <1>2 DEF IInv, Bdd, GoodStructure, FunctionOf
    <3>2. CASE asked.type = "and"
      BY <1>1, <2>1, <3>1, <3>2 DEF Sat
    <3>3. CASE asked.type # "and"
      BY <1>1, <2>1, <3>1, <3>3 DEF Sat
    <3> QED BY <3>2, <3>3
  <2>3. Sat(meaning, other) = Combine(asked.type, Sat(meaning, constant), Sat(meaning, other))
    BY <1>2, <2>2 DEF Combine
  <2> QED BY <1>1, <1>2, <1>3, <1>5, <2>3, AnswerPreserves
<1> QED BY <1>4, <1>5

LEMMA SameArgumentsPreserves ==
  ASSUME IInv, SameArguments
  PROVE  IInv'
<1>1. /\ request # None /\ one.vertex = two.vertex
      /\ Answer(IF one.complement = two.complement THEN one ELSE Absorbing)
  BY DEF SameArguments
<1>2. CASE one.complement = two.complement
  <2>1. one \in FunctionOf(All(vertex)) /\ two \in FunctionOf(All(vertex))
    BY <1>1, Arguments
  <2>2. one = two
    BY <1>1, <1>2, <2>1 DEF FunctionOf
  <2>3. Sat(meaning, one) = Combine(asked.type, Sat(meaning, one), Sat(meaning, two))
    BY <2>2 DEF Combine
  <2> QED BY <1>1, <1>2, <2>3, Arguments, AnswerPreserves
<1>3. CASE one.complement # two.complement
  <2>1. one.complement \in BOOLEAN /\ two.complement \in BOOLEAN
    BY <1>1, Arguments DEF FunctionOf
  <2>2. meaning[one.vertex] \in SUBSET Assignment
    BY <1>1, Arguments DEF IInv, Bdd, GoodTypes, FunctionOf
  <2>3. /\ Sat(meaning, two) = Assignment \ Sat(meaning, one)
        /\ Sat(meaning, one) \in SUBSET Assignment
    BY <1>1, <1>3, <2>1, <2>2 DEF Sat
  <2>4. Sat(meaning, Absorbing) = Combine(asked.type, Sat(meaning, one), Sat(meaning, two))
    BY <1>1, <2>3, AbsorbingSat DEF Combine
  <2>5. Above(vertex, stack, Len(stack), Absorbing.vertex)
    BY <1>1, AbsorbingSat DEF Above, Later
  <2> QED BY <1>1, <1>3, <2>4, <2>5, AbsorbingSat, AnswerPreserves
<1> QED BY <1>2, <1>3

\* The key of two vertices in the tables.
LEMMA KeyIsGood ==
  ASSUME IInv, Distinct
  PROVE  LET k == Key(one, two)
             i == Signed(one.vertex, one.complement)
             j == Signed(two.vertex, two.complement)
         IN  /\ k \in Entry /\ k[1] = asked.type
             /\ (k[2] = i /\ k[3] = j) \/ (k[2] = j /\ k[3] = i)
             /\ one.vertex \in DOMAIN vertex /\ two.vertex \in DOMAIN vertex
             /\ one \in FunctionOf(Nat) /\ two \in FunctionOf(Nat)
             /\ Unsigned(i) = one.vertex /\ Unsigned(j) = two.vertex
             /\ Sat(meaning, Named(i)) = Sat(meaning, one)
             /\ Sat(meaning, Named(j)) = Sat(meaning, two)
<1> DEFINE i == Signed(one.vertex, one.complement)
           j == Signed(two.vertex, two.complement)
<1>1. /\ request # None /\ one.vertex # One /\ two.vertex # One
  BY DEF Distinct, Terminal
<1>2. /\ one \in FunctionOf(All(vertex)) /\ two \in FunctionOf(All(vertex))
      /\ asked.type \in Connectives
  BY <1>1, Arguments
<1>3. one.vertex \in DOMAIN vertex /\ two.vertex \in DOMAIN vertex
  BY <1>1, <1>2 DEF FunctionOf, All
<1>4. DOMAIN vertex \subseteq 2 .. function_id - 1 /\ function_id \in Nat
  BY DEF IInv, Bdd, GoodTypes
<1>5. /\ one.vertex \in Nat /\ one.vertex # 0 /\ two.vertex \in Nat /\ two.vertex # 0
  BY <1>3, <1>4
<1>6. one \in FunctionOf(Nat) /\ two \in FunctionOf(Nat)
  BY <1>2, <1>5 DEF FunctionOf
<1>7. ASSUME NEW g \in FunctionOf(Nat), g.vertex # 0
      PROVE  /\ Signed(g.vertex, g.complement) \in Int
             /\ Unsigned(Signed(g.vertex, g.complement)) = g.vertex
  <2>1. g.vertex \in Nat
    BY DEF FunctionOf
  <2>2. CASE g.complement
    BY <1>7, <2>1, <2>2 DEF Signed, Unsigned
  <2>3. CASE ~g.complement
    BY <1>7, <2>1, <2>3 DEF Signed, Unsigned
  <2> QED BY <2>2, <2>3
<1>8. /\ i \in Int /\ j \in Int /\ Unsigned(i) = one.vertex /\ Unsigned(j) = two.vertex
  BY <1>5, <1>6, <1>7
<1>9. /\ Sat(meaning, Named(i)) = Sat(meaning, one)
      /\ Sat(meaning, Named(j)) = Sat(meaning, two)
  BY <1>5, <1>6, NamedOfSigned
<1> HIDE DEF i, j
<1>10. Key(one, two) = <<asked.type, j, i>> \/ Key(one, two) = <<asked.type, i, j>>
  BY DEF Key, i, j
<1>11. /\ Key(one, two) \in Entry /\ Key(one, two)[1] = asked.type
       /\ \/ Key(one, two)[2] = i /\ Key(one, two)[3] = j
          \/ Key(one, two)[2] = j /\ Key(one, two)[3] = i
  BY <1>2, <1>8, <1>10 DEF Entry
<1> QED BY <1>3, <1>6, <1>8, <1>9, <1>11 DEF i, j

LEMMA FoundPreserves ==
  ASSUME IInv, Found
  PROVE  IInv'
<1> DEFINE k == Key(one, two)
           f == computed[k]
           i == Signed(one.vertex, one.complement)
           j == Signed(two.vertex, two.complement)
<1>1. Distinct /\ request # None /\ k \in DOMAIN computed /\ Answer(f)
  BY DEF Found, Distinct
<1>2. /\ k[1] = asked.type
      /\ (k[2] = i /\ k[3] = j) \/ (k[2] = j /\ k[3] = i)
      /\ one.vertex \in DOMAIN vertex /\ two.vertex \in DOMAIN vertex
      /\ Unsigned(i) = one.vertex /\ Unsigned(j) = two.vertex
      /\ Sat(meaning, Named(i)) = Sat(meaning, one)
      /\ Sat(meaning, Named(j)) = Sat(meaning, two)
  BY <1>1, KeyIsGood
<1>3. EntryIsGood(vertex, meaning, function_id, k, f)
  BY <1>1 DEF IInv, TableIsGood
<1> HIDE DEF k, f, i, j
<1>4. Unsigned(k[2]) \in DOMAIN vertex /\ Unsigned(k[3]) \in DOMAIN vertex
  BY <1>2
<1>5. /\ f \in FunctionOf(All(vertex))
      /\ \A o \in Nat : Later(vertex, o, Unsigned(k[2])) /\ Later(vertex, o, Unsigned(k[3]))
                          => Later(vertex, o, f.vertex)
      /\ Sat(meaning, f) = Combine(k[1], Sat(meaning, Named(k[2])), Sat(meaning, Named(k[3])))
  BY <1>3, <1>4 DEF EntryIsGood
<1>6. Sat(meaning, f) = Combine(asked.type, Sat(meaning, one), Sat(meaning, two))
  BY <1>2, <1>5, CombineCommutes
<1>7. \A o \in Nat : Later(vertex, o, one.vertex) /\ Later(vertex, o, two.vertex)
                       => Later(vertex, o, f.vertex)
  BY <1>2, <1>5
<1>8. Above(vertex, stack, Len(stack), f.vertex)
  <2>1. CASE Len(stack) = 0
    BY <2>1 DEF Above
  <2>2. CASE Len(stack) # 0
    <3>1. stack \in Seq(Frames) /\ stack # <<>> /\ Len(stack) \in 1 .. Len(stack)
      BY <2>2 DEF IInv
    <3>2. FrameIsGood(vertex, meaning, asked.type, stack[Len(stack)])
      BY <3>1 DEF IInv, Busy, StackIsGood
    <3>3. Order[Index(vertex, stack[Len(stack)])] \in Nat
      BY <3>2, OrderAssumption DEF FrameIsGood, Index, IInv, Bdd, GoodTypes
    <3>4. /\ Above(vertex, stack, Len(stack), one.vertex)
          /\ Above(vertex, stack, Len(stack), two.vertex)
      BY <1>1, Arguments
    <3> QED BY <1>7, <2>2, <3>3, <3>4 DEF Above
  <2> QED BY <2>1, <2>2
<1> QED BY <1>1, <1>5, <1>6, <1>8, AnswerPreserves

-----------------------------------------------------------------------------
LEMMA CombineOfCofactors ==
  ASSUME NEW t, NEW a, NEW P, NEW Q, NEW R, NEW T,
         a \in P <=> a \in R, a \in Q <=> a \in T
  PROVE  a \in Combine(t, P, Q) <=> a \in Combine(t, R, T)
BY DEF Combine

LEMMA AppendedStackIsGood ==
  ASSUME NEW V, NEW m, NEW q, NEW s, StackIsGood(V, m, q, s),
         NEW fr, FrameIsGood(V, m, q.type, fr),
         Fits(V, m, q, s, Len(s), Whole(m, q.type, fr)),
         Above(V, s, Len(s), fr.one.vertex), Above(V, s, Len(s), fr.two.vertex)
  PROVE  /\ StackIsGood(V, m, q, Append(s, fr))
         /\ Len(Append(s, fr)) = Len(s) + 1 /\ Append(s, fr)[Len(s) + 1] = fr
         /\ Len(s) \in Nat
<1> DEFINE p == Append(s, fr)
<1>1. s \in Seq(Frames) /\ Len(s) \in Nat /\ fr \in Frames
  BY DEF StackIsGood, FrameIsGood
<1>2. /\ p \in Seq(Frames) /\ Len(p) = Len(s) + 1 /\ p[Len(s) + 1] = fr
      /\ \A i \in 1 .. Len(s) : p[i] = s[i]
  BY <1>1
<1> HIDE DEF p
<1>3. ASSUME NEW i \in 1 .. Len(p)
      PROVE  /\ FrameIsGood(V, m, q.type, p[i])
             /\ Fits(V, m, q, p, i - 1, Whole(m, q.type, p[i]))
             /\ Above(V, p, i - 1, p[i].one.vertex) /\ Above(V, p, i - 1, p[i].two.vertex)
  <2>1. i - 1 = 0 \/ p[i - 1] = s[i - 1]
    BY <1>1, <1>2
  <2>2. CASE i = Len(s) + 1
    BY <1>1, <1>2, <2>1, <2>2 DEF Fits, Above
  <2>3. CASE i \in 1 .. Len(s)
    <3>1. /\ FrameIsGood(V, m, q.type, s[i])
          /\ Fits(V, m, q, s, i - 1, Whole(m, q.type, s[i]))
          /\ Above(V, s, i - 1, s[i].one.vertex) /\ Above(V, s, i - 1, s[i].two.vertex)
      BY <2>3 DEF StackIsGood
    <3> QED BY <1>2, <2>1, <2>3, <3>1 DEF Fits, Above
  <2> QED BY <1>1, <1>2, <2>2, <2>3
<1> QED BY <1>1, <1>2, <1>3 DEF StackIsGood, p

LEMMA DescendPreserves ==
  ASSUME IInv, Descend
  PROVE  IInv'
<1> DEFINE first == IF OrderOf(one) > OrderOf(two) THEN two ELSE one
           second == IF OrderOf(one) > OrderOf(two) THEN one ELSE two
           fr == [one |-> first, two |-> second, key |-> Key(one, two),
                  high |-> Fun(FALSE, One), low |-> FALSE]
           x == vertex[first.vertex].index
           r == <<High(first), HighAt(second, OrderOf(first))>>
           t == asked.type
<1>1. /\ Distinct /\ request # None
      /\ stack' = Append(stack, fr) /\ request' = r
      /\ UNCHANGED <<vertex, meaning, function_id, computed, result, asked, held, calls>>
  BY DEF Descend, graph, Distinct
<1>2. /\ AskedIsGood(vertex, asked) /\ asked.one.vertex \in held /\ asked.two.vertex \in held
      /\ StackIsGood(vertex, meaning, asked, stack)
      /\ RequestIsGood(vertex, meaning, asked, stack, request) /\ result = None
  BY <1>1 DEF IInv, Busy
<1>3. /\ Key(one, two) \in Entry /\ Key(one, two)[1] = t
      /\ \/ /\ Key(one, two)[2] = Signed(one.vertex, one.complement)
            /\ Key(one, two)[3] = Signed(two.vertex, two.complement)
         \/ /\ Key(one, two)[2] = Signed(two.vertex, two.complement)
            /\ Key(one, two)[3] = Signed(one.vertex, one.complement)
      /\ one.vertex \in DOMAIN vertex /\ two.vertex \in DOMAIN vertex
      /\ one \in FunctionOf(Nat) /\ two \in FunctionOf(Nat)
  BY <1>1, KeyIsGood
<1>4. one \in FunctionOf(All(vertex)) /\ two \in FunctionOf(All(vertex))
  BY <1>1, Arguments
<1>5. /\ OrderOf(one) \in Nat /\ OrderOf(two) \in Nat
  BY <1>3, OrderAssumption DEF OrderOf, IInv, Bdd, GoodTypes
<1>6. /\ first.vertex \in DOMAIN vertex /\ second.vertex \in DOMAIN vertex
      /\ first \in FunctionOf(All(vertex)) /\ second \in FunctionOf(All(vertex))
      /\ first \in FunctionOf(Nat) /\ second \in FunctionOf(Nat)
      /\ OrderOf(first) <= OrderOf(second)
      /\ (first = one /\ second = two) \/ (first = two /\ second = one)
  BY <1>3, <1>4, <1>5
<1>7. Combine(t, Sat(meaning, one), Sat(meaning, two)) = Whole(meaning, t, fr)
  <2>1. fr.one = first /\ fr.two = second
    OBVIOUS
  <2> QED BY <1>6, <2>1, CombineCommutes DEF Whole
<1> HIDE DEF first, second
<1>8. FrameIsGood(vertex, meaning, t, fr)
  <2>1. Fun(FALSE, One) \in FunctionOf(Nat) /\ Fun(FALSE, One).vertex \in All(vertex)
    BY DEF Fun, FunctionOf, All, One
  <2>2. fr \in Frames
    BY <1>3, <1>6, <2>1 DEF Frames
  <2>3. Order[Index(vertex, fr)] <= Order[vertex[second.vertex].index]
    BY <1>6 DEF Index, OrderOf
  <2> QED BY <1>3, <1>6, <2>1, <2>2, <2>3 DEF FrameIsGood
<1>9. /\ Fits(vertex, meaning, asked, stack, Len(stack), Whole(meaning, t, fr))
      /\ Above(vertex, stack, Len(stack), first.vertex)
      /\ Above(vertex, stack, Len(stack), second.vertex)
  BY <1>2, <1>6, <1>7 DEF RequestIsGood, one, two
<1>10. /\ StackIsGood(vertex, meaning, asked, stack')
       /\ Len(stack') = Len(stack) + 1 /\ stack'[Len(stack')] = fr /\ Len(stack) \in Nat
  BY <1>1, <1>2, <1>8, <1>9, AppendedStackIsGood
<1>11. x \in Variable /\ OrderOf(first) = Order[x] /\ Index(vertex, fr) = x
  BY <1>6 DEF OrderOf, Index, IInv, Bdd, GoodTypes
<1> HIDE DEF x
<1>12. r = <<HighAt(first, Order[x]), HighAt(second, Order[x])>>
  BY <1>11 DEF HighAt
<1> DEFINE h1 == HighAt(first, Order[x])
           h2 == HighAt(second, Order[x])
<1>13. /\ h1 \in FunctionOf(All(vertex)) /\ Later(vertex, Order[x], h1.vertex)
       /\ \A a \in Assignment : x \in a => (a \in Sat(meaning, h1) <=> a \in Sat(meaning, first))
  <2>1. Order[x] <= OrderOf(first)
    BY <1>11, OrderAssumption
  <2> QED BY <1>6, <1>11, <2>1, Cofactors DEF IInv
<1>14. /\ h2 \in FunctionOf(All(vertex)) /\ Later(vertex, Order[x], h2.vertex)
       /\ \A a \in Assignment : x \in a => (a \in Sat(meaning, h2) <=> a \in Sat(meaning, second))
  <2>1. Order[x] <= OrderOf(second)
    BY <1>6, <1>11
  <2> QED BY <1>6, <1>11, <2>1, Cofactors DEF IInv
<1> HIDE DEF r, h1, h2
<1>15. /\ request'[1] = h1 /\ request'[2] = h2
       /\ request' \in FunctionOf(All(vertex)) \X FunctionOf(All(vertex))
  BY <1>1, <1>12, <1>13, <1>14 DEF h1, h2
<1>16. ASSUME NEW a \in Assignment, x \in a
       PROVE  a \in Combine(t, Sat(meaning, h1), Sat(meaning, h2)) <=> a \in Whole(meaning, t, fr)
  <2>1. fr.one = first /\ fr.two = second
    OBVIOUS
  <2> QED BY <1>13, <1>14, <1>16, <2>1, CombineOfCofactors DEF Whole
<1>17. RequestIsGood(vertex, meaning, asked, stack', request')
  <2>1. Len(stack') # 0 /\ fr.low = FALSE
    BY <1>10
  <2> HIDE DEF fr
  <2>2. Fits(vertex, meaning, asked, stack', Len(stack'),
             Combine(t, Sat(meaning, h1), Sat(meaning, h2)))
    BY <1>10, <1>11, <1>16, <2>1 DEF Fits
  <2>3. /\ Above(vertex, stack', Len(stack'), h1.vertex)
        /\ Above(vertex, stack', Len(stack'), h2.vertex)
    BY <1>10, <1>11, <1>13, <1>14 DEF Above
  <2> QED BY <1>15, <2>2, <2>3 DEF RequestIsGood
<1>18. stack' \in Seq(Frames)
  BY <1>10 DEF StackIsGood
<1> QED BY <1>1, <1>2, <1>10, <1>17, <1>18 DEF IInv

-----------------------------------------------------------------------------
\* A branch of the top activation has returned.
LEMMA TopOfStack ==
  ASSUME IInv, stack # <<>>, result # None
  PROVE  /\ stack \in Seq(Frames) /\ Len(stack) \in Nat
         /\ Len(stack) # 0 /\ Len(stack) \in 1 .. Len(stack)
         /\ AskedIsGood(vertex, asked)
         /\ asked.one.vertex \in held /\ asked.two.vertex \in held
         /\ StackIsGood(vertex, meaning, asked, stack)
         /\ FrameIsGood(vertex, meaning, asked.type, Frame)
         /\ Index(vertex, Frame) \in Variable /\ Frame.low \in BOOLEAN
         /\ Frame.high \in FunctionOf(All(vertex)) /\ result \in FunctionOf(All(vertex))
         /\ Later(vertex, Order[Index(vertex, Frame)], result.vertex)
         /\ \A a \in Assignment :
              (IF Frame.low THEN Index(vertex, Frame) \notin a ELSE Index(vertex, Frame) \in a)
                => (a \in Sat(meaning, result) <=> a \in Whole(meaning, asked.type, Frame))
         /\ request = None
<1>1. /\ AskedIsGood(vertex, asked) /\ asked.one.vertex \in held /\ asked.two.vertex \in held
      /\ StackIsGood(vertex, meaning, asked, stack) /\ request = None
      /\ ResultIsGood(vertex, meaning, asked, stack, result)
  BY DEF IInv, Busy
<1>2. /\ stack \in Seq(Frames) /\ Len(stack) \in Nat
      /\ Len(stack) # 0 /\ Len(stack) \in 1 .. Len(stack)
  BY <1>1 DEF StackIsGood
<1>3. FrameIsGood(vertex, meaning, asked.type, Frame)
  BY <1>1, <1>2 DEF StackIsGood, Frame
<1>4. /\ Index(vertex, Frame) \in Variable /\ Frame.low \in BOOLEAN
      /\ Frame.high \in FunctionOf(All(vertex))
  BY <1>3 DEF FrameIsGood, Frames, Index, IInv, Bdd, GoodTypes, FunctionOf
<1>5. /\ result \in FunctionOf(All(vertex))
      /\ Later(vertex, Order[Index(vertex, Frame)], result.vertex)
      /\ \A a \in Assignment :
           (IF Frame.low THEN Index(vertex, Frame) \notin a ELSE Index(vertex, Frame) \in a)
             => (a \in Sat(meaning, result) <=> a \in Whole(meaning, asked.type, Frame))
  BY <1>1, <1>2 DEF ResultIsGood, Fits, Above, Frame
<1> QED BY <1>1, <1>2, <1>3, <1>4, <1>5

LEMMA ReplacedTopIsGood ==
  ASSUME NEW V, NEW m, NEW q, NEW s, StackIsGood(V, m, q, s), NEW k, k = Len(s), k # 0,
         NEW fr, FrameIsGood(V, m, q.type, fr), fr.one = s[k].one, fr.two = s[k].two
  PROVE  StackIsGood(V, m, q, [s EXCEPT ![k] = fr])
<1> DEFINE p == [s EXCEPT ![k] = fr]
<1>1. s \in Seq(Frames) /\ Len(s) \in Nat /\ fr \in Frames /\ k \in 1 .. Len(s)
  BY DEF StackIsGood, FrameIsGood
<1>2. /\ p \in Seq(Frames) /\ Len(p) = Len(s) /\ p[k] = fr
      /\ \A i \in 1 .. Len(s) : i # k => p[i] = s[i]
  BY <1>1
<1> HIDE DEF p
<1>3. ASSUME NEW i \in 1 .. Len(p)
      PROVE  /\ FrameIsGood(V, m, q.type, p[i])
             /\ Fits(V, m, q, p, i - 1, Whole(m, q.type, p[i]))
             /\ Above(V, p, i - 1, p[i].one.vertex) /\ Above(V, p, i - 1, p[i].two.vertex)
  <2>1. /\ FrameIsGood(V, m, q.type, s[i])
        /\ Fits(V, m, q, s, i - 1, Whole(m, q.type, s[i]))
        /\ Above(V, s, i - 1, s[i].one.vertex) /\ Above(V, s, i - 1, s[i].two.vertex)
    BY <1>2 DEF StackIsGood
  <2>2. i - 1 = 0 \/ p[i - 1] = s[i - 1]
    BY <1>1, <1>2
  <2>3. FrameIsGood(V, m, q.type, p[i]) /\ p[i].one = s[i].one /\ p[i].two = s[i].two
    BY <1>2, <2>1
  <2>4. Whole(m, q.type, p[i]) = Whole(m, q.type, s[i])
    BY <2>3 DEF Whole
  <2> QED BY <2>1, <2>2, <2>3, <2>4 DEF Fits, Above
<1> QED BY <1>2, <1>3 DEF StackIsGood, p

LEMMA TakeHighPreserves ==
  ASSUME IInv, TakeHigh
  PROVE  IInv'
<1> DEFINE k == Len(stack)
           x == Index(vertex, Frame)
           t == asked.type
           fr == [Frame EXCEPT !.high = result, !.low = TRUE]
           l1 == LowAt(Frame.one, Order[x])
           l2 == LowAt(Frame.two, Order[x])
<1>1. /\ stack # <<>> /\ result # None /\ ~Frame.low /\ result' = None
      /\ stack' = [stack EXCEPT ![k].high = result, ![k].low = TRUE]
      /\ request' = <<Low(Frame.one), LowAt(Frame.two, OrderOf(Frame.one))>>
      /\ UNCHANGED <<vertex, meaning, function_id, computed, asked, held, calls>>
  BY DEF TakeHigh, graph
<1>2. /\ stack \in Seq(Frames) /\ k \in Nat /\ k # 0 /\ k \in 1 .. Len(stack)
      /\ AskedIsGood(vertex, asked)
      /\ asked.one.vertex \in held /\ asked.two.vertex \in held
      /\ StackIsGood(vertex, meaning, asked, stack)
      /\ FrameIsGood(vertex, meaning, t, Frame)
      /\ x \in Variable
      /\ result \in FunctionOf(All(vertex))
      /\ Later(vertex, Order[x], result.vertex)
      /\ \A a \in Assignment : x \in a =>
            (a \in Sat(meaning, result) <=> a \in Whole(meaning, t, Frame))
  BY <1>1, TopOfStack
<1>3. Frame \in Frames
  BY <1>2 DEF FrameIsGood
<1>4. stack' = [stack EXCEPT ![k] = fr]
  BY <1>1, <1>2, <1>3 DEF Frame, Frames
<1>5. /\ fr.one = Frame.one /\ fr.two = Frame.two /\ fr.key = Frame.key
      /\ fr.high = result /\ fr.low = TRUE
  BY <1>3 DEF Frames
<1>6. fr \in Frames
  <2>1. result \in FunctionOf(Nat)
    BY <1>2 DEF IInv, Bdd, GoodTypes, All, One, FunctionOf
  <2> QED BY <1>3, <2>1 DEF Frames
<1> HIDE DEF fr
<1>7. Index(vertex, fr) = x /\ Whole(meaning, t, fr) = Whole(meaning, t, Frame)
  BY <1>5 DEF Index, Whole
<1> HIDE DEF x
<1>8. FrameIsGood(vertex, meaning, t, fr)
  <2>1. result.vertex \in All(vertex)
    BY <1>2 DEF FunctionOf
  <2>2. /\ Frame.one.vertex \in DOMAIN vertex /\ Frame.two.vertex \in DOMAIN vertex
        /\ Order[x] <= Order[vertex[Frame.two.vertex].index]
        /\ Frame.key[1] = t
        /\ \/ /\ Frame.key[2] = Signed(Frame.one.vertex, Frame.one.complement)
              /\ Frame.key[3] = Signed(Frame.two.vertex, Frame.two.complement)
           \/ /\ Frame.key[2] = Signed(Frame.two.vertex, Frame.two.complement)
              /\ Frame.key[3] = Signed(Frame.one.vertex, Frame.one.complement)
    BY <1>2 DEF FrameIsGood, x
  <2>3. \A a \in Assignment : x \in a =>
           (a \in Sat(meaning, fr.high) <=> a \in Whole(meaning, t, fr))
    BY <1>2, <1>5, <1>7
  <2> QED BY <1>2, <1>5, <1>6, <1>7, <2>1, <2>2, <2>3 DEF FrameIsGood
<1>9. StackIsGood(vertex, meaning, asked, stack') /\ Len(stack') = k /\ stack'[k] = fr
  <2>1. fr.one = stack[k].one /\ fr.two = stack[k].two
    BY <1>5 DEF Frame
  <2>2. StackIsGood(vertex, meaning, asked, [stack EXCEPT ![k] = fr])
    BY <1>2, <1>8, <2>1, ReplacedTopIsGood
  <2>3. Len(stack') = k /\ stack'[k] = fr
    BY <1>2, <1>4
  <2> QED BY <1>4, <2>2, <2>3
<1>10. /\ Frame.one.vertex \in DOMAIN vertex /\ Frame.two.vertex \in DOMAIN vertex
       /\ Frame.one \in FunctionOf(All(vertex)) /\ Frame.two \in FunctionOf(All(vertex))
       /\ OrderOf(Frame.one) = Order[x] /\ Order[x] <= OrderOf(Frame.two) /\ Order[x] \in Nat
  BY <1>2, <1>3, OrderAssumption DEF FrameIsGood, Frames, FunctionOf, All, OrderOf, Index, x
<1>11. /\ l1 \in FunctionOf(All(vertex)) /\ Later(vertex, Order[x], l1.vertex)
       /\ \A a \in Assignment : x \notin a =>
             (a \in Sat(meaning, l1) <=> a \in Sat(meaning, Frame.one))
  <2>1. Order[x] <= OrderOf(Frame.one)
    BY <1>10
  <2> QED BY <1>2, <1>10, <2>1, Cofactors DEF IInv
<1>12. /\ l2 \in FunctionOf(All(vertex)) /\ Later(vertex, Order[x], l2.vertex)
       /\ \A a \in Assignment : x \notin a =>
             (a \in Sat(meaning, l2) <=> a \in Sat(meaning, Frame.two))
  BY <1>2, <1>10, Cofactors DEF IInv
<1>13. request' = <<l1, l2>>
  BY <1>1, <1>10 DEF LowAt
<1> HIDE DEF l1, l2
<1>14. /\ request'[1] = l1 /\ request'[2] = l2
       /\ request' \in FunctionOf(All(vertex)) \X FunctionOf(All(vertex))
  BY <1>11, <1>12, <1>13
<1>15. ASSUME NEW a \in Assignment, x \notin a
       PROVE  a \in Combine(t, Sat(meaning, l1), Sat(meaning, l2)) <=> a \in Whole(meaning, t, fr)
  BY <1>5, <1>11, <1>12, <1>15, CombineOfCofactors DEF Whole
<1>16. RequestIsGood(vertex, meaning, asked, stack', request')
  <2>1. Fits(vertex, meaning, asked, stack', k, Combine(t, Sat(meaning, l1), Sat(meaning, l2)))
    BY <1>2, <1>5, <1>7, <1>9, <1>15 DEF Fits
  <2>2. Above(vertex, stack', k, l1.vertex) /\ Above(vertex, stack', k, l2.vertex)
    BY <1>7, <1>9, <1>11, <1>12 DEF Above
  <2> QED BY <1>9, <1>14, <2>1, <2>2 DEF RequestIsGood
<1>17. stack' \in Seq(Frames)
  BY <1>9 DEF StackIsGood
<1> QED BY <1>1, <1>2, <1>9, <1>16, <1>17 DEF IInv

-----------------------------------------------------------------------------
\* Both branches have returned: together they are what the activation has to return.
LEMMA BranchesMakeWhole ==
  ASSUME IInv, Returned
  PROVE  /\ Mix(Index(vertex, Frame), Sat(meaning, Frame.high), Sat(meaning, result))
              = Whole(meaning, asked.type, Frame)
         /\ Later(vertex, Order[Index(vertex, Frame)], Frame.high.vertex)
<1> DEFINE x == Index(vertex, Frame)
<1>1. stack # <<>> /\ result # None /\ Frame.low
  BY DEF Returned
<1>2. FrameIsGood(vertex, meaning, asked.type, Frame) /\ AskedIsGood(vertex, asked)
  BY <1>1, TopOfStack
<1>3. \A a \in Assignment : x \notin a =>
         (a \in Sat(meaning, result) <=> a \in Whole(meaning, asked.type, Frame))
  BY <1>1, TopOfStack
<1>4. /\ Later(vertex, Order[x], Frame.high.vertex)
      /\ \A a \in Assignment : x \in a =>
            (a \in Sat(meaning, Frame.high) <=> a \in Whole(meaning, asked.type, Frame))
  BY <1>1, <1>2 DEF FrameIsGood
<1>5. Whole(meaning, asked.type, Frame) \in SUBSET Assignment
  <2>1. Frame.one.vertex \in All(vertex) /\ Frame.two.vertex \in All(vertex)
    BY <1>2 DEF FrameIsGood, All
  <2>2. /\ Sat(meaning, Frame.one) \in SUBSET Assignment
        /\ Sat(meaning, Frame.two) \in SUBSET Assignment
    BY <2>1, SatIsSet DEF IInv, Bdd
  <2> QED BY <2>2 DEF Whole, Combine
<1> HIDE DEF x
<1>6. Mix(x, Sat(meaning, Frame.high), Sat(meaning, result)) = Whole(meaning, asked.type, Frame)
  BY <1>3, <1>4, <1>5 DEF Mix
<1> QED BY <1>4, <1>6 DEF x

\* The function with the branches of a vertex.
LEMMA SignedMix ==
  ASSUME NEW V, NEW m, NEW n, GoodTypes(V, m, n), NEW x,
         NEW high \in FunctionOf(All(V)), NEW low \in FunctionOf(All(V)), NEW v,
         m[v] = Mix(x, m[high.vertex], Sat(m, Fun(high.complement # low.complement, low.vertex)))
  PROVE  Sat(m, Fun(high.complement, v)) = Mix(x, Sat(m, high), Sat(m, low))
<1> DEFINE P == m[high.vertex]
           Q == m[low.vertex]
<1>1. /\ P \in SUBSET Assignment /\ Q \in SUBSET Assignment
      /\ high.complement \in BOOLEAN /\ low.complement \in BOOLEAN
  BY DEF GoodTypes, FunctionOf
<1>2. CASE ~high.complement
  <2>1. (high.complement # low.complement) = low.complement
    BY <1>1, <1>2
  <2>2. Sat(m, Fun(high.complement, v)) = m[v] /\ Sat(m, high) = P
    BY <1>2 DEF Sat, Fun
  <2>3. Sat(m, Fun(low.complement, low.vertex)) = Sat(m, low)
    BY DEF Sat, Fun
  <2> QED BY <2>1, <2>2, <2>3
<1>3. CASE high.complement
  <2>1. (high.complement # low.complement) = ~low.complement
    BY <1>1, <1>3
  <2>2. Sat(m, Fun(high.complement, v)) = Assignment \ m[v] /\ Sat(m, high) = Assignment \ P
    BY <1>3 DEF Sat, Fun
  <2>3. Sat(m, Fun(~low.complement, low.vertex)) = Assignment \ Sat(m, low)
    BY <1>1 DEF Sat, Fun
  <2> DEFINE R == Assignment \ Sat(m, low)
  <2>4. m[v] = Mix(x, P, R)
    BY <2>1, <2>3
  <2>5. Sat(m, low) \in SUBSET Assignment
    BY <1>1 DEF Sat
  <2>6. Assignment \ R = Sat(m, low)
    BY <2>5
  <2> HIDE DEF P, R
  <2>7. Assignment \ Mix(x, P, R) = Mix(x, Assignment \ P, Assignment \ R)
    BY MixOfComplements
  <2> QED BY <2>2, <2>4, <2>6, <2>7
<1> QED BY <1>1, <1>2, <1>3

\* An activation with two equal branches returns the function of the branches.
LEMMA ReducePreserves ==
  ASSUME IInv, Reduce
  PROVE  IInv'
<1> DEFINE f == Frame.high
           x == Index(vertex, Frame)
<1>1. /\ Returned /\ Frame.high = result /\ Return(f, vertex, meaning) /\ function_id' = function_id
      /\ stack # <<>> /\ result # None
  BY DEF Reduce, Unneeded, Returned
<1>2. /\ AskedIsGood(vertex, asked)
      /\ asked.one.vertex \in held /\ asked.two.vertex \in held
      /\ StackIsGood(vertex, meaning, asked, stack)
      /\ f \in FunctionOf(All(vertex)) /\ x \in Variable /\ request = None
      /\ Later(vertex, Order[x], f.vertex)
  BY <1>1, TopOfStack
<1>3. Sat(meaning, f) = Whole(meaning, asked.type, Frame)
  <2>1. Mix(x, Sat(meaning, f), Sat(meaning, f)) = Whole(meaning, asked.type, Frame)
    BY <1>1, BranchesMakeWhole
  <2>2. f.vertex \in All(vertex)
    BY <1>2 DEF FunctionOf
  <2>3. Sat(meaning, f) \in SUBSET Assignment
    BY <2>2, SatIsSet DEF IInv, Bdd
  <2> QED BY <2>1, <2>3 DEF Mix
<1>4. \A o \in Nat : o < Order[x] => Later(vertex, o, f.vertex)
  <2>1. \A v \in DOMAIN vertex : Order[vertex[v].index] \in Nat
    BY OrderAssumption DEF IInv, Bdd, GoodTypes
  <2>2. f.vertex \in All(vertex) /\ Order[x] \in Nat
    BY <1>2, OrderAssumption DEF FunctionOf
  <2> QED BY <1>2, <2>1, <2>2 DEF Later, All
<1>5. /\ Bdd(vertex, meaning, function_id) /\ TableIsGood(vertex, meaning, function_id, computed)
      /\ held \subseteq All(vertex) /\ calls \in 0 .. MaxCalls
  BY DEF IInv
<1> HIDE DEF f
<1> QED BY <1>1, <1>2, <1>3, <1>4, <1>5, ReturnIsGood

LEMMA ReusePreserves ==
  ASSUME IInv, Reuse
  PROVE  IInv'
<1> DEFINE x == Index(vertex, Frame)
           c == Frame.high.complement # result.complement
<1>1. /\ Returned /\ stack # <<>> /\ result # None /\ function_id' = function_id
  BY DEF Reuse, Returned
<1>2. PICK v \in Known : Return(Fun(Frame.high.complement, v), vertex, meaning)
  BY DEF Reuse
<1>3. /\ AskedIsGood(vertex, asked)
      /\ asked.one.vertex \in held /\ asked.two.vertex \in held
      /\ StackIsGood(vertex, meaning, asked, stack)
      /\ x \in Variable /\ request = None
      /\ Frame.high \in FunctionOf(All(vertex)) /\ result \in FunctionOf(All(vertex))
  BY <1>1, TopOfStack
<1>4. /\ v \in DOMAIN vertex /\ vertex[v].index = x /\ vertex[v].high = Frame.high.vertex
      /\ Signed(vertex[v].low, vertex[v].complement_edge) = Signed(result.vertex, c)
  BY <1>2 DEF Known, Same, Signature, Index
<1>5. vertex[v].low = result.vertex /\ vertex[v].complement_edge = c
  <2>1. \A w \in All(vertex) : w \in Nat /\ w # 0
    BY DEF IInv, Bdd, GoodTypes, All, One
  <2>2. vertex[v].low \in All(vertex) /\ result.vertex \in All(vertex)
    BY <1>3, <1>4 DEF IInv, Bdd, GoodTypes, FunctionOf
  <2>3. vertex[v].complement_edge \in BOOLEAN /\ c \in BOOLEAN
    BY <1>4 DEF IInv, Bdd, GoodTypes
  <2> HIDE DEF c
  <2> QED BY <1>4, <2>1, <2>2, <2>3, SignedIsInjective
<1> DEFINE f == Fun(Frame.high.complement, v)
<1>6. f \in FunctionOf(All(vertex)) /\ f.vertex = v
  BY <1>3, <1>4 DEF Fun, FunctionOf, All
<1>7. Sat(meaning, f) = Whole(meaning, asked.type, Frame)
  <2>1. meaning[v] = Mix(x, meaning[Frame.high.vertex], Sat(meaning, Fun(c, result.vertex)))
    BY <1>4, <1>5 DEF IInv, Bdd, GoodStructure
  <2>2. Sat(meaning, f) = Mix(x, Sat(meaning, Frame.high), Sat(meaning, result))
    BY <1>3, <2>1, SignedMix DEF IInv, Bdd
  <2> QED BY <1>1, <2>2, BranchesMakeWhole
<1>8. \A o \in Nat : o < Order[x] => Later(vertex, o, f.vertex)
  BY <1>3, <1>4, <1>6, OrderAssumption DEF Later
<1>9. /\ Bdd(vertex, meaning, function_id) /\ TableIsGood(vertex, meaning, function_id, computed)
      /\ held \subseteq All(vertex) /\ calls \in 0 .. MaxCalls /\ Return(f, vertex, meaning)
  BY <1>2 DEF IInv
<1> HIDE DEF f
<1> QED BY <1>1, <1>3, <1>6, <1>7, <1>8, <1>9, ReturnIsGood

LEMMA AddPreserves ==
  ASSUME IInv, Add
  PROVE  IInv'
<1> DEFINE x == Index(vertex, Frame)
           high == Frame.high
           c == high.complement # result.complement
           n == function_id
           W == With(vertex, n, NewVertex(x, high, result))
           k == With(meaning, n, NewMeaning(x, high, result))
           f == Fun(high.complement, n)
           t == asked.type
<1>1. /\ Returned /\ stack # <<>> /\ result # None /\ high # result
      /\ Same(x, high, result) = {} /\ Return(f, W, k) /\ function_id' = n + 1
  BY DEF Add, Returned, Unneeded, Known, Index
<1>2. /\ stack \in Seq(Frames) /\ Len(stack) \in Nat
      /\ AskedIsGood(vertex, asked)
      /\ asked.one.vertex \in held /\ asked.two.vertex \in held
      /\ StackIsGood(vertex, meaning, asked, stack)
      /\ FrameIsGood(vertex, meaning, t, Frame)
      /\ x \in Variable /\ request = None
      /\ high \in FunctionOf(All(vertex)) /\ result \in FunctionOf(All(vertex))
      /\ Later(vertex, Order[x], result.vertex)
  BY <1>1, TopOfStack
<1>3. /\ Later(vertex, Order[x], high.vertex)
      /\ Mix(x, Sat(meaning, high), Sat(meaning, result)) = Whole(meaning, t, Frame)
  BY <1>1, BranchesMakeWhole
<1>4. Bdd(vertex, meaning, n)
  BY DEF IInv
<1>5. Bdd(W, k, n + 1)
  BY <1>1, <1>2, <1>3, <1>4, AddedVertexIsGood
<1>6. GoodTypes(vertex, meaning, n) /\ GoodTypes(W, k, n + 1) /\ n \in Nat /\ n <= n + 1
  BY <1>4, <1>5 DEF Bdd, GoodTypes
<1>7. Agree(vertex, meaning, n, W, k)
  BY <1>6, AdditionAgrees
<1>8. /\ DOMAIN W = DOMAIN vertex \cup {n} /\ All(W) = All(vertex) \cup {n}
      /\ W[n].index = x /\ k[n] = NewMeaning(x, high, result)
  <2>1. NewVertex(x, high, result).index = x
    BY DEF NewVertex
  <2> QED BY <2>1 DEF With, All
<1> HIDE DEF x, W, k
<1>9. TableIsGood(W, k, n + 1, computed)
  <2> SUFFICES ASSUME NEW e \in DOMAIN computed
               PROVE  EntryIsGood(W, k, n + 1, e, computed[e])
    BY DEF TableIsGood
  <2>1. EntryIsGood(vertex, meaning, n, e, computed[e])
    BY DEF IInv, TableIsGood
  <2>2. computed[e].vertex \in All(W)
    BY <1>8, <2>1 DEF EntryIsGood, FunctionOf
  <2> QED BY <1>6, <1>7, <2>1, <2>2, EntryStays
<1>10. /\ asked.one.vertex \in All(vertex) \cap All(W)
       /\ asked.two.vertex \in All(vertex) \cap All(W)
       /\ AskedIsGood(W, asked) /\ held \subseteq All(W)
  BY <1>2, <1>8 DEF AskedIsGood, FunctionOf, IInv
<1>11. StackIsGood(W, k, asked, stack)
  <2>1. ASSUME NEW i \in 1 .. Len(stack)
        PROVE  /\ stack[i].one.vertex \in All(W) /\ stack[i].two.vertex \in All(W)
               /\ stack[i].high.vertex \in All(W)
    <3>1. FrameIsGood(vertex, meaning, t, stack[i])
      BY <1>2 DEF StackIsGood
    <3> QED BY <1>8, <3>1 DEF FrameIsGood, All
  <2> QED BY <1>2, <1>6, <1>7, <1>10, <2>1, StackStays
<1>12. f \in FunctionOf(All(W)) /\ f.vertex = n
  BY <1>2, <1>8 DEF Fun, FunctionOf
<1>13. Frame.one.vertex \in DOMAIN vertex /\ Index(W, Frame) = x
  <2>1. Frame.one.vertex \in DOMAIN vertex
    BY <1>2 DEF FrameIsGood
  <2>2. W[Frame.one.vertex] = vertex[Frame.one.vertex]
    BY <1>6, <1>7, <1>8, <2>1, SharedIsSame DEF All
  <2> QED BY <2>1, <2>2 DEF Index, x
<1>14. Whole(k, t, Frame) = Whole(meaning, t, Frame)
  <2>1. Frame.one.vertex \in All(vertex) \cap All(W) /\ Frame.two.vertex \in All(vertex) \cap All(W)
    BY <1>2, <1>8 DEF FrameIsGood, All
  <2>2. Sat(k, Frame.one) = Sat(meaning, Frame.one) /\ Sat(k, Frame.two) = Sat(meaning, Frame.two)
    BY <1>6, <1>7, <2>1, SharedIsSame
  <2> QED BY <2>2 DEF Whole
<1>15. Sat(k, f) = Whole(k, t, Frame)
  <2>1. high.vertex \in All(vertex) \cap All(W) /\ result.vertex \in All(vertex) \cap All(W)
    BY <1>2, <1>8 DEF FunctionOf
  <2>2. high \in FunctionOf(All(W)) /\ result \in FunctionOf(All(W))
    BY <1>2, <1>8 DEF FunctionOf
  <2>3. Fun(c, result.vertex).vertex = result.vertex
    BY DEF Fun
  <2>4. /\ Sat(k, high) = Sat(meaning, high) /\ Sat(k, result) = Sat(meaning, result)
        /\ Sat(k, Fun(c, result.vertex)) = Sat(meaning, Fun(c, result.vertex))
        /\ k[high.vertex] = meaning[high.vertex]
    BY <1>6, <1>7, <2>1, <2>3, SharedIsSame
  <2>5. k[n] = Mix(x, meaning[high.vertex], Sat(meaning, Fun(c, result.vertex)))
    BY <1>8 DEF NewMeaning, Mix
  <2>6. k[n] = Mix(x, k[high.vertex], Sat(k, Fun(c, result.vertex)))
    BY <2>4, <2>5
  <2>7. Sat(k, f) = Mix(x, Sat(k, high), Sat(k, result))
    BY <1>6, <2>2, <2>6, SignedMix
  <2> QED BY <1>3, <1>14, <2>4, <2>7
<1>16. \A o \in Nat : o < Order[Index(W, Frame)] => Later(W, o, f.vertex)
  BY <1>2, <1>8, <1>12, <1>13, OrderAssumption DEF Later
<1>17. calls \in 0 .. MaxCalls
  BY DEF IInv
<1> HIDE DEF f, high
<1> QED BY <1>1, <1>2, <1>5, <1>9, <1>10, <1>11, <1>12, <1>15, <1>16, <1>17, ReturnIsGood

-----------------------------------------------------------------------------
LEMMA InitIsGood == Init => IInv
<1> SUFFICES ASSUME Init PROVE IInv
  OBVIOUS
<1> DEFINE N == NumVariables
           n == function_id
<1>1. /\ vertex = [v \in 2 .. N + 1 |->
                     [index |-> v - 1, high |-> One, low |-> One, complement_edge |-> TRUE]]
      /\ meaning = [v \in 1 .. N + 1 |->
           IF v = One THEN Assignment
           ELSE {a \in Assignment : v - 1 \in a}]
      /\ n = N + 2 /\ computed = <<>> /\ stack = <<>> /\ request = None /\ result = None
      /\ held = DOMAIN vertex /\ calls = 0
  BY DEF Init
<1>2. N \in Nat /\ N > 0
  BY NumVariablesAssumption
<1>3. /\ DOMAIN vertex = 2 .. N + 1 /\ All(vertex) = 1 .. N + 1
      /\ \A v \in DOMAIN vertex :
           /\ v - 1 \in Variable
           /\ vertex[v] = [index |-> v - 1, high |-> One, low |-> One, complement_edge |-> TRUE]
           /\ meaning[v] = {a \in Assignment : v - 1 \in a}
      /\ meaning[One] = Assignment
  <2>1. DOMAIN vertex = 2 .. N + 1
    BY <1>1
  <2>2. All(vertex) = 1 .. N + 1
    BY <1>2, <2>1 DEF All, One
  <2>3. meaning[One] = Assignment
    BY <1>1, <1>2 DEF One
  <2>4. ASSUME NEW v \in DOMAIN vertex
        PROVE  /\ v - 1 \in Variable
               /\ vertex[v] = [index |-> v - 1, high |-> One, low |-> One, complement_edge |-> TRUE]
               /\ meaning[v] = {a \in Assignment : v - 1 \in a}
    <3>1. v \in 2 .. N + 1 /\ v \in 1 .. N + 1 /\ v # One
      BY <1>2, <2>1 DEF One
    <3> QED BY <1>1, <1>2, <3>1 DEF Variable
  <2> QED BY <2>1, <2>2, <2>3, <2>4
<1> DEFINE r(v) == [index |-> v - 1, high |-> One, low |-> One, complement_edge |-> TRUE]
<1>4. ASSUME NEW v \in DOMAIN vertex
      PROVE  /\ vertex[v].index = v - 1 /\ vertex[v].high = One /\ vertex[v].low = One
             /\ vertex[v].complement_edge = TRUE /\ v - 1 \in Variable
             /\ vertex[v] = r(v)
  <2>1. vertex[v] = r(v) /\ v - 1 \in Variable
    BY <1>3
  <2> QED BY <2>1
<1> HIDE DEF r
<1>5. GoodTypes(vertex, meaning, n)
  <2>1. n \in Nat /\ n > 1 /\ DOMAIN vertex \subseteq 2 .. n - 1
    BY <1>1, <1>2, <1>3
  <2>2. ASSUME NEW v \in DOMAIN vertex
        PROVE  vertex[v] \in
                 [index : Variable, high : All(vertex), low : All(vertex),
                  complement_edge : BOOLEAN]
    <3>1. One \in All(vertex)
      BY DEF All
    <3>2. v - 1 \in Variable /\ vertex[v] = r(v)
      BY <1>4
    <3> QED BY <3>1, <3>2 DEF r
  <2>3. meaning \in [All(vertex) -> SUBSET Assignment]
    <3>1. \A v \in All(vertex) : meaning[v] \in SUBSET Assignment
      BY <1>3 DEF All
    <3> QED BY <1>1, <1>3, <3>1
  <2> QED BY <2>1, <2>2, <2>3 DEF GoodTypes
<1>6. GoodStructure(vertex, meaning)
  <2>1. ASSUME NEW v \in DOMAIN vertex
        PROVE  meaning[v] = Mix(vertex[v].index, meaning[One], Sat(meaning, Fun(TRUE, One)))
    <3>1. Sat(meaning, Fun(TRUE, One)) = {}
      BY <1>3 DEF Sat, Fun
    <3>2. /\ meaning[v] = {a \in Assignment : v - 1 \in a}
          /\ meaning[One] = Assignment /\ vertex[v].index = v - 1
      BY <1>3, <1>4
    <3> QED BY <3>1, <3>2 DEF Mix
  <2>2. ASSUME NEW v \in DOMAIN vertex
        PROVE  /\ vertex[v].high = vertex[v].low => vertex[v].complement_edge
               /\ Later(vertex, Order[vertex[v].index], vertex[v].high)
               /\ Later(vertex, Order[vertex[v].index], vertex[v].low)
               /\ meaning[v] = Mix(vertex[v].index, meaning[vertex[v].high],
                                   Sat(meaning, Fun(vertex[v].complement_edge, vertex[v].low)))
    BY <1>4, <2>1 DEF Later
  <2> QED BY <1>3, <2>2 DEF GoodStructure
<1>7. GoodIndependence(vertex, meaning)
  <2> SUFFICES ASSUME NEW v \in DOMAIN vertex, NEW y \in Variable, Order[y] < Order[v - 1],
                      NEW a \in Assignment
               PROVE  (a \cup {y} \in meaning[v]) <=> (a \ {y} \in meaning[v])
    BY <1>4 DEF GoodIndependence, Independent
  <2>1. y # v - 1
    BY <1>3, OrderAssumption
  <2>2. a \cup {y} \in Assignment /\ a \ {y} \in Assignment
    BY DEF Assignment
  <2> QED BY <1>3, <2>1, <2>2
<1>8. GoodCanonicity(vertex, meaning)
  <2>1. {} \in Assignment /\ \A v \in DOMAIN vertex : {v - 1} \in Assignment
    BY <1>3 DEF Assignment
  <2>2. ASSUME NEW v \in DOMAIN vertex
        PROVE  /\ {} \notin meaning[v] /\ {v - 1} \in meaning[v]
               /\ \A w \in DOMAIN vertex : {v - 1} \in meaning[w] => v = w
    BY <1>3, <2>1
  <2>3. {} \in meaning[One] /\ \A v \in DOMAIN vertex : {v - 1} \in meaning[One]
    BY <1>3, <2>1
  <2> SUFFICES ASSUME NEW v \in All(vertex), NEW w \in All(vertex),
                      meaning[v] = meaning[w] \/ meaning[v] = Assignment \ meaning[w]
               PROVE  v = w
    BY DEF GoodCanonicity
  <2>4. CASE v = One /\ w = One
    BY <2>4
  <2>5. CASE v = One /\ w \in DOMAIN vertex
    BY <1>3, <2>1, <2>2, <2>3, <2>5
  <2>6. CASE v \in DOMAIN vertex /\ w = One
    BY <1>3, <2>1, <2>2, <2>3, <2>6
  <2>7. CASE v \in DOMAIN vertex /\ w \in DOMAIN vertex
    BY <2>1, <2>2, <2>7
  <2> QED BY <2>4, <2>5, <2>6, <2>7 DEF All
<1>9. TableIsGood(vertex, meaning, n, computed)
  BY <1>1 DEF TableIsGood
<1>10. ~Busy /\ stack \in Seq(Frames) /\ held \subseteq All(vertex) /\ calls \in 0 .. MaxCalls
  BY <1>1, MaxCallsAssumption DEF Busy, All
<1> QED BY <1>1, <1>5, <1>6, <1>7, <1>8, <1>9, <1>10 DEF IInv, Bdd

LEMMA StutterPreserves ==
  ASSUME IInv, UNCHANGED vars
  PROVE  IInv'
BY DEF IInv, vars, Busy

LEMMA NextPreserves ==
  ASSUME IInv, [Next]_vars
  PROVE  IInv'
<1>1. CASE UNCHANGED vars
  BY <1>1, StutterPreserves
<1>2. CASE Client
  BY <1>2, AddVariablePreserves, CallPreserves, ReleasePreserves, ClearTablesPreserves DEF Client
<1>3. CASE Apply
  BY <1>3, TerminalArgumentPreserves, SameArgumentsPreserves, FoundPreserves, DescendPreserves,
     TakeHighPreserves, ReducePreserves, ReusePreserves, AddPreserves, ReceivePreserves DEF Apply
<1> QED BY <1>1, <1>2, <1>3 DEF Next

\* The invariant holds in every state, for every number and order of variables.
THEOREM Invariance == Spec => []IInv
<1>1. IInv /\ [Next]_vars => IInv'
  BY NextPreserves
<1> QED BY InitIsGood, <1>1, PTL DEF Spec

-----------------------------------------------------------------------------
\* Whatever is still in use points to vertices that are alive, while results are
\* dropped, tables purged and vertices deleted in the middle of a call.
THEOREM TypeCorrect == Spec => []TypeOK
<1>1. IInv => TypeOK
  <2> SUFFICES ASSUME IInv PROVE TypeOK
    OBVIOUS
  <2>1. Ids = All(vertex)
    BY DEF Ids, All
  <2>2. /\ DOMAIN vertex \subseteq 2 .. function_id - 1
        /\ \A v \in DOMAIN vertex :
             vertex[v] \in [index : Variable, high : Ids, low : Ids, complement_edge : BOOLEAN]
        /\ meaning \in [Ids -> SUBSET Assignment]
        /\ One \notin DOMAIN vertex
    BY <2>1 DEF IInv, Bdd, GoodTypes, One
  <2>3. ASSUME NEW k \in DOMAIN computed
        PROVE  k[1] \in Connectives /\ computed[k] \in FunctionOf(Ids)
    <3>1. EntryIsGood(vertex, meaning, function_id, k, computed[k])
      BY DEF IInv, TableIsGood
    <3> QED BY <2>1, <3>1 DEF EntryIsGood, Entry
  <2>4. ASSUME NEW i \in 1 .. Len(stack)
        PROVE  /\ stack[i].one \in FunctionOf(Ids \ {One})
               /\ stack[i].two \in FunctionOf(Ids \ {One})
               /\ stack[i].high \in FunctionOf(Ids) /\ stack[i].low \in BOOLEAN
    <3>1. stack # <<>>
      OBVIOUS
    <3>2. FrameIsGood(vertex, meaning, asked.type, stack[i])
      BY <3>1 DEF IInv, Busy, StackIsGood
    <3> QED BY <2>1, <2>2, <3>2 DEF FrameIsGood, Frames, FunctionOf, Ids
  <2>5. request # None => \A i \in {1, 2} : request[i] \in FunctionOf(Ids)
    BY <2>1 DEF IInv, RequestIsGood
  <2>6. result # None => result \in FunctionOf(Ids)
    BY <2>1 DEF IInv, ResultIsGood
  <2>7. held \subseteq Ids /\ calls \in 0 .. MaxCalls
    BY <2>1 DEF IInv
  <2> QED BY <2>2, <2>3, <2>4, <2>5, <2>6, <2>7 DEF TypeOK
<1> QED BY <1>1, Invariance, PTL

\* The BDD is ordered and reduced in every state, and its vertices mean what the
\* signatures in the unique table say.
THEOREM StructureCorrect == Spec => []Structured
<1>1. IInv => Structured
  <2> SUFFICES ASSUME IInv PROVE Structured
    OBVIOUS
  <2>1. meaning[One] = Assignment
    BY DEF IInv, Bdd, GoodStructure
  <2>2. ASSUME NEW v \in DOMAIN vertex
        PROVE  /\ vertex[v].high = vertex[v].low => vertex[v].complement_edge
               /\ \A w \in Below(vertex, v) : Order[vertex[v].index] < Order[vertex[w].index]
               /\ meaning[v] = Mix(vertex[v].index, meaning[vertex[v].high],
                                   Sat(meaning, Fun(vertex[v].complement_edge, vertex[v].low)))
    <3>1. /\ vertex[v].high = vertex[v].low => vertex[v].complement_edge
          /\ Later(vertex, Order[vertex[v].index], vertex[v].high)
          /\ Later(vertex, Order[vertex[v].index], vertex[v].low)
          /\ meaning[v] = Mix(vertex[v].index, meaning[vertex[v].high],
                              Sat(meaning, Fun(vertex[v].complement_edge, vertex[v].low)))
      BY DEF IInv, Bdd, GoodStructure
    <3>2. ASSUME NEW w \in Below(vertex, v)
          PROVE  Order[vertex[v].index] < Order[vertex[w].index]
      <4>1. w \in DOMAIN vertex /\ w # One /\ (w = vertex[v].high \/ w = vertex[v].low)
        BY BelowIsAlive DEF Below, IInv
      <4>2. Order[vertex[w].index] \in Nat /\ Order[vertex[v].index] \in Nat
        BY <4>1, OrderAssumption DEF IInv, Bdd, GoodTypes
      <4> QED BY <3>1, <4>1, <4>2 DEF Later
    <3> QED BY <3>1, <3>2
  <2> QED BY <2>1, <2>2 DEF Structured, Mix
<1> QED BY <1>1, Invariance, PTL

\* No two vertices alive stand for one function or for opposite ones: comparing ids is
\* comparing functions, whatever has been computed, purged and deleted.
THEOREM CanonicityCorrect == Spec => []Canonical
<1>1. IInv => Canonical
  BY DEF IInv, Bdd, GoodCanonicity, Canonical, Ids, All
<1> QED BY <1>1, Invariance, PTL

\* A call returns the combination of its arguments.
THEOREM ApplyCorrect == Spec => []ApplyIsRight
<1>1. IInv => ApplyIsRight
  <2> SUFFICES ASSUME IInv, stack = <<>>, result # None
               PROVE  Sat(meaning, result) =
                        Combine(asked.type, Sat(meaning, asked.one), Sat(meaning, asked.two))
    BY DEF ApplyIsRight
  <2>1. ResultIsGood(vertex, meaning, asked, stack, result) /\ Len(stack) = 0
    BY DEF IInv
  <2> QED BY <2>1 DEF ResultIsGood, Fits
<1> QED BY <1>1, Invariance, PTL

\* The tables never answer for other vertices than those they were filled for.
THEOREM TablesCorrect == Spec => []ComputedIsRight
<1>1. IInv => ComputedIsRight
  <2> SUFFICES ASSUME IInv, NEW k \in DOMAIN computed,
                      Unsigned(k[2]) \in Ids, Unsigned(k[3]) \in Ids
               PROVE  Sat(meaning, computed[k]) =
                        Combine(k[1], Sat(meaning, Fun(k[2] < 0, Unsigned(k[2]))),
                                      Sat(meaning, Fun(k[3] < 0, Unsigned(k[3]))))
    BY DEF ComputedIsRight
  <2>1. EntryIsGood(vertex, meaning, function_id, k, computed[k])
    BY DEF IInv, TableIsGood
  <2>2. Unsigned(k[2]) \in DOMAIN vertex /\ Unsigned(k[3]) \in DOMAIN vertex
    BY <2>1 DEF EntryIsGood, Ids, One
  <2> QED BY <2>1, <2>2 DEF EntryIsGood, Named
<1> QED BY <1>1, Invariance, PTL

=============================================================================
