------------------------------ MODULE BddApply ------------------------------
(***************************************************************************)
(* The engine of src/bdd.h and src/bdd.cc that keeps a BDD reduced while   *)
(* it is being built: vertices with a complement flag on the low edge, the *)
(* unique table of weak pointers, the lossy tables of computed results,    *)
(* and the mutual recursion of the two Apply functions, one step per call  *)
(* and return.  Intrusive reference counts are modelled by what they do: a *)
(* vertex lives while something that lives points to it.                   *)
(*                                                                         *)
(* The client is whoever calls Apply: the fold over the arguments of a     *)
(* gate in ConvertGraph and CalculateConsensus.  It makes up to MaxCalls   *)
(* vertices of variables and calls with functions it holds, and drops      *)
(* functions and clears the tables between the calls in any order.         *)
(***************************************************************************)
EXTENDS Integers, Sequences, FiniteSets

CONSTANTS
  NumVariables,\* the variables of the graph have the indices 1 .. NumVariables
  Order,       \* the position of each variable in the ordering
  MaxCalls,    \* bound on the calls of the client
  None         \* no function

Variable == 1 .. NumVariables

ASSUME NumVariablesAssumption == NumVariables \in Nat \ {0}
ASSUME OrderAssumption ==
  /\ Order \in [Variable -> Nat \ {0}]
  /\ \A x, y \in Variable : Order[x] = Order[y] => x = y
ASSUME MaxCallsAssumption == MaxCalls \in Nat

VARIABLES
  vertex,       \* the Ite vertices alive, by id; all of them are in unique_table_
  meaning,      \* history: the set of assignments a vertex is true for
  function_id,  \* the id of the next vertex
  computed,     \* and_table_ and or_table_: results by connective and signed ids
  stack,        \* the activations of Apply<Type>, outermost first
  request,      \* the arguments of the Apply call to be made
  result,       \* what the last Apply call returned
  asked,        \* the connective and the arguments of the client's call
  held,         \* the vertices the client holds
  calls         \* the calls the client has made

vars == <<vertex, meaning, function_id, computed, stack, request, result,
          asked, held, calls>>
graph == <<vertex, meaning, function_id>>

One == 1                 \* the id of kOne_, the only terminal
Assignment == SUBSET Variable    \* an assignment is the set of its true variables
Connectives == {"and", "or"}

Fun(c, v) == [complement |-> c, vertex |-> v]
Flip(f, c) == [f EXCEPT !.complement = @ # c]
Terminal(f) == f.vertex = One

\* The assignments that satisfy a function, in the vertices with meaning m.
Sat(m, f) == IF f.complement THEN Assignment \ m[f.vertex] ELSE m[f.vertex]
Combine(type, A, B) == IF type = "and" THEN A \cap B ELSE A \cup B

Below(V, v) == {V[v].high, V[v].low} \ {One}

\* The vertices without a reference when only roots are referenced from outside the BDD.
Orphans(V, roots) == {v \in DOMAIN V \ roots : \A w \in DOMAIN V : v \notin Below(V, w)}

\* The vertices that stay: deleting an orphan drops its references in turn.
Alive(V, roots) ==
  IF Orphans(V, roots) = {} THEN DOMAIN V
  ELSE LET Closed == {S \in SUBSET DOMAIN V : /\ roots \cap DOMAIN V \subseteq S
                                              /\ \A v \in S : Below(V, v) \subseteq S}
       IN  {v \in DOMAIN V : \A S \in Closed : v \in S}

\* The vertices that the tables and the activations hold.
Cached(table) == {table[k].vertex : k \in DOMAIN table}
Active(frames) ==
  UNION {{frames[i].one.vertex, frames[i].two.vertex, frames[i].high.vertex} :
            i \in 1 .. Len(frames)}

\* Dropping references deletes every vertex that nothing reaches any more.
Keep(V, m, roots) ==
  LET live == Alive(V, roots)
  IN  /\ vertex' = [v \in live |-> V[v]]
      /\ meaning' = [v \in live \cup {One} |-> m[v]]

-----------------------------------------------------------------------------
\* FindOrAddVertex: the live vertex with this signature, or a new one.
Signed(id, c) == IF c THEN -id ELSE id
Signature(v) == <<vertex[v].index, vertex[v].high, Signed(vertex[v].low, vertex[v].complement_edge)>>
\* Mutant: the signature in the table lacks the sign of the low edge.
SameUnsigned(x, high, low) ==
  {v \in DOMAIN vertex : /\ ~vertex[v].complement_edge
                         /\ <<vertex[v].index, vertex[v].high, vertex[v].low>> =
                              <<x, high.vertex, Signed(low.vertex, high.complement # low.complement)>>}

Same(x, high, low) ==
  {v \in DOMAIN vertex : Signature(v) = <<x, high.vertex, Signed(low.vertex, high.complement # low.complement)>>}

NewVertex(x, high, low) ==
  [index |-> x, high |-> high.vertex, low |-> low.vertex,
   complement_edge |-> high.complement # low.complement]
NewMeaning(x, high, low) ==
  {a \in Assignment : IF x \in a THEN a \in meaning[high.vertex]
                      ELSE a \in Sat(meaning, Fun(high.complement # low.complement, low.vertex))}

With(f, v, e) == [w \in DOMAIN f \cup {v} |-> IF w = v THEN e ELSE f[w]]

-----------------------------------------------------------------------------
\* The client.

Idle == request = None /\ result = None /\ stack = <<>>

\* The vertex of a variable as ConvertGraph makes it: (x ? 1 : not 1).
AddVariable(x) ==
  LET high == Fun(FALSE, One)
      low == Fun(TRUE, One)
      found == Same(x, high, low)
  IN  /\ Idle /\ calls < MaxCalls
      /\ IF found # {} THEN held' = held \cup found /\ UNCHANGED graph
         ELSE /\ vertex' = With(vertex, function_id, NewVertex(x, high, low))
              /\ meaning' = With(meaning, function_id, NewMeaning(x, high, low))
              /\ function_id' = function_id + 1
              /\ held' = held \cup {function_id}
      /\ calls' = calls + 1
      /\ UNCHANGED <<computed, stack, request, result, asked>>

Call(type, f, g) ==
  /\ Idle /\ calls < MaxCalls
  /\ asked' = [type |-> type, one |-> f, two |-> g]
  /\ request' = <<f, g>>
  /\ calls' = calls + 1
  /\ UNCHANGED <<graph, computed, stack, result, held>>

\* The call has returned to the client, which keeps the result.
Receive ==
  /\ stack = <<>> /\ result # None
  /\ held' = held \cup {result.vertex}
  /\ result' = None
  /\ UNCHANGED <<graph, computed, stack, request, asked, calls>>

\* Mutant: the tables of results do not hold the vertices in them.
ReleaseCached(v) ==
  /\ Idle
  /\ held' = held \ {v}
  /\ Keep(vertex, meaning, held')
  /\ UNCHANGED <<function_id, computed, stack, request, result, asked, calls>>

Release(v) ==
  /\ Idle
  /\ held' = held \ {v}
  /\ Keep(vertex, meaning, held' \cup Cached(computed))
  /\ UNCHANGED <<function_id, computed, stack, request, result, asked, calls>>

ClearTables ==
  /\ Idle
  /\ computed' = <<>>
  /\ Keep(vertex, meaning, held)
  /\ UNCHANGED <<function_id, stack, request, result, asked, held, calls>>

-----------------------------------------------------------------------------
\* Apply<kAnd> and Apply<kOr>: the cases that need no recursion.

one == request[1]
two == request[2]

\* The value of a connective that one argument decides.
Absorbing == Fun(asked.type = "and", One)

Answer(f) ==
  /\ result' = f
  /\ request' = None
  /\ UNCHANGED <<graph, computed, stack, asked, held, calls>>

TerminalArgument ==
  /\ request # None
  /\ Terminal(one) \/ Terminal(two)
  /\ LET constant == IF Terminal(one) THEN one ELSE two
         other == IF Terminal(one) THEN two ELSE one
     IN  Answer(IF constant = Absorbing THEN Absorbing ELSE other)

\* Mutant: opposite functions are taken for equal ones.
SameArgumentsAnySign ==
  /\ request # None
  /\ ~Terminal(one) /\ ~Terminal(two)
  /\ one.vertex = two.vertex
  /\ Answer(one)

SameArguments ==
  /\ request # None
  /\ ~Terminal(one) /\ ~Terminal(two)
  /\ one.vertex = two.vertex
  /\ Answer(IF one.complement = two.complement THEN one ELSE Absorbing)

\* Mutant: the key forgets the signs of the arguments.
UnsignedKey(f, g) ==
  IF f.vertex > g.vertex THEN <<asked.type, g.vertex, f.vertex>>
                         ELSE <<asked.type, f.vertex, g.vertex>>

\* GetMinMaxId: the key in the table of the connective.
Key(f, g) ==
  LET id1 == Signed(f.vertex, f.complement)
      id2 == Signed(g.vertex, g.complement)
  IN  IF f.vertex > g.vertex THEN <<asked.type, id2, id1>> ELSE <<asked.type, id1, id2>>

Distinct == request # None /\ ~Terminal(one) /\ ~Terminal(two) /\ one.vertex # two.vertex

Found ==
  /\ Distinct /\ Key(one, two) \in DOMAIN computed
  /\ Answer(computed[Key(one, two)])

-----------------------------------------------------------------------------
\* The recursion on the variable that comes first.

OrderOf(f) == Order[vertex[f.vertex].index]
High(f) == Fun(f.complement, vertex[f.vertex].high)
Low(f) == Flip(Fun(f.complement, vertex[f.vertex].low), vertex[f.vertex].complement_edge)
\* The cofactors of f for the variable of order o: f itself when it starts later.
HighAt(f, o) == IF OrderOf(f) = o THEN High(f) ELSE f
LowAt(f, o) == IF OrderOf(f) = o THEN Low(f) ELSE f

\* Mutant: the arguments are not swapped, so the first one is always expanded.
DescendUnswapped ==
  /\ Distinct /\ Key(one, two) \notin DOMAIN computed
  /\ stack' = Append(stack, [one |-> one, two |-> two, key |-> Key(one, two),
                             high |-> Fun(FALSE, One), low |-> FALSE])
  /\ request' = <<High(one), HighAt(two, OrderOf(one))>>
  /\ UNCHANGED <<graph, computed, result, asked, held, calls>>

Descend ==
  /\ Distinct /\ Key(one, two) \notin DOMAIN computed
  /\ LET first == IF OrderOf(one) > OrderOf(two) THEN two ELSE one
         second == IF OrderOf(one) > OrderOf(two) THEN one ELSE two
     IN  /\ stack' = Append(stack, [one |-> first, two |-> second, key |-> Key(one, two),
                                    high |-> Fun(FALSE, One), low |-> FALSE])
         /\ request' = <<High(first), HighAt(second, OrderOf(first))>>
  /\ UNCHANGED <<graph, computed, result, asked, held, calls>>

Frame == stack[Len(stack)]

\* Mutant: the activation forgets that it has its high branch.
TakeHighAgain ==
  /\ stack # <<>> /\ result # None
  /\ ~Frame.low
  /\ stack' = [stack EXCEPT ![Len(stack)].high = result]
  /\ request' = <<Low(Frame.one), LowAt(Frame.two, OrderOf(Frame.one))>>
  /\ result' = None
  /\ UNCHANGED <<graph, computed, asked, held, calls>>

\* The high branch has returned: the low branch is computed next.
TakeHigh ==
  /\ stack # <<>> /\ result # None
  /\ ~Frame.low
  /\ stack' = [stack EXCEPT ![Len(stack)].high = result, ![Len(stack)].low = TRUE]
  /\ request' = <<Low(Frame.one), LowAt(Frame.two, OrderOf(Frame.one))>>
  /\ result' = None
  /\ UNCHANGED <<graph, computed, asked, held, calls>>

\* Putting a result in a table may purge others: on a hash collision, on a rehash.
Emplace(f) ==
  \E kept \in SUBSET (DOMAIN computed) :
    computed' = With([k \in kept |-> computed[k]], Frame.key, f)

Return(f, V, m) ==
  /\ Emplace(f)
  /\ stack' = SubSeq(stack, 1, Len(stack) - 1)
  /\ result' = f
  /\ Keep(V, m, held \cup Cached(computed') \cup Active(stack') \cup {f.vertex})
  /\ UNCHANGED <<request, asked, held, calls>>

\* Both branches have returned: the vertex is made unless it would be redundant.
Unneeded == Frame.high = result
Known == Same(vertex[Frame.one.vertex].index, Frame.high, result)
Returned == stack # <<>> /\ result # None /\ Frame.low

Reduce ==
  /\ Returned /\ Unneeded
  /\ Return(Frame.high, vertex, meaning)
  /\ UNCHANGED function_id

Reuse ==
  /\ Returned /\ ~Unneeded
  /\ \E v \in Known : Return(Fun(Frame.high.complement, v), vertex, meaning)
  /\ UNCHANGED function_id

Add ==
  /\ Returned /\ ~Unneeded /\ Known = {}
  /\ LET x == vertex[Frame.one.vertex].index
     IN  Return(Fun(Frame.high.complement, function_id),
                With(vertex, function_id, NewVertex(x, Frame.high, result)),
                With(meaning, function_id, NewMeaning(x, Frame.high, result)))
  /\ function_id' = function_id + 1

-----------------------------------------------------------------------------
\* The client starts with the vertices of the variables of a gate.
Init ==
  /\ vertex = [v \in 2 .. NumVariables + 1 |->
                 [index |-> v - 1, high |-> One, low |-> One, complement_edge |-> TRUE]]
  /\ meaning = [v \in 1 .. NumVariables + 1 |->
                 IF v = One THEN Assignment ELSE {a \in Assignment : v - 1 \in a}]
  /\ function_id = NumVariables + 2
  /\ computed = <<>>
  /\ stack = <<>>
  /\ request = None /\ result = None /\ asked = None
  /\ held = DOMAIN vertex
  /\ calls = 0

Functions == {Fun(c, v) : c \in BOOLEAN, v \in held}

Client ==
  \/ \E x \in Variable : AddVariable(x)
  \/ \E type \in Connectives, f, g \in Functions : Call(type, f, g)
  \/ \E v \in held : Release(v)
  \/ ClearTables

Apply ==
  \/ TerminalArgument \/ SameArguments \/ Found
  \/ Descend \/ TakeHigh
  \/ Reduce \/ Reuse \/ Add
  \/ Receive

Next == Client \/ Apply

Spec == Init /\ [][Next]_vars
\* Apply is a plain function call: once made it keeps running.
FairSpec == Spec /\ WF_vars(Apply)

-----------------------------------------------------------------------------
Ids == DOMAIN vertex \cup {One}
FunctionOf(S) == [complement : BOOLEAN, vertex : S]

\* The values the variables may hold; nothing that is still in use points to
\* a vertex that has been deleted.
TypeOK ==
  /\ DOMAIN vertex \subseteq 2 .. function_id - 1
  /\ \A v \in DOMAIN vertex :
       vertex[v] \in [index : Variable, high : Ids, low : Ids, complement_edge : BOOLEAN]
  /\ meaning \in [Ids -> SUBSET Assignment]
  /\ \A k \in DOMAIN computed : k[1] \in Connectives /\ computed[k] \in FunctionOf(Ids)
  /\ \A i \in 1 .. Len(stack) :
       /\ stack[i].one \in FunctionOf(Ids \ {One}) /\ stack[i].two \in FunctionOf(Ids \ {One})
       /\ stack[i].high \in FunctionOf(Ids) /\ stack[i].low \in BOOLEAN
  /\ request # None => \A i \in {1, 2} : request[i] \in FunctionOf(Ids)
  /\ result # None => result \in FunctionOf(Ids)
  /\ held \subseteq Ids
  /\ calls \in 0 .. MaxCalls

\* The asserts of TestStructure (src/bdd.cc:349-374) hold for every vertex alive,
\* also in the middle of a call: it is not redundant and its variable comes before
\* those below it.  And the history variable is what the vertices evaluate to.
Structured ==
  /\ meaning[One] = Assignment
  /\ \A v \in DOMAIN vertex :
       /\ vertex[v].high = vertex[v].low => vertex[v].complement_edge
       /\ \A w \in Below(vertex, v) : Order[vertex[v].index] < Order[vertex[w].index]
       /\ meaning[v] = {a \in Assignment :
                          IF vertex[v].index \in a THEN a \in meaning[vertex[v].high]
                          ELSE a \in Sat(meaning, Fun(vertex[v].complement_edge, vertex[v].low))}

\* The representation is canonical: no two vertices alive stand for the same
\* function or for opposite ones, whatever was computed, purged or deleted
\* before.  The comparisons by id in Apply and in the tables rely on it.
Canonical ==
  \A v, w \in Ids :
    (meaning[v] = meaning[w] \/ meaning[v] = Assignment \ meaning[w]) => v = w

\* A call returns the function it was asked for.
ApplyIsRight ==
  (stack = <<>> /\ result # None) =>
    Sat(meaning, result) =
      Combine(asked.type, Sat(meaning, asked.one), Sat(meaning, asked.two))

\* A table entry whose arguments live holds their combination: a later hit
\* never answers for vertices that had the ids before.
Unsigned(i) == IF i < 0 THEN -i ELSE i
ComputedIsRight ==
  \A k \in DOMAIN computed :
    Unsigned(k[2]) \in Ids /\ Unsigned(k[3]) \in Ids =>
      Sat(meaning, computed[k]) =
        Combine(k[1], Sat(meaning, Fun(k[2] < 0, Unsigned(k[2]))),
                      Sat(meaning, Fun(k[3] < 0, Unsigned(k[3]))))

\* Every call of Apply returns to the client.
ApplyReturns == request # None ~> Idle
=============================================================================
