------------------------ MODULE CycleDetectionProofs ------------------------
(***************************************************************************)
(* The cycle check is correct for every graph: the inductive invariant Inv,*)
(* and from it the invariants of CycleDetection and its refinement of      *)
(* CycleCheck.                                                             *)
(***************************************************************************)
EXTENDS CycleDetection, TLAPS

Reach == Check!Reachable
Permanent == {n \in Node : mark[n] = "permanent"}

\* The active calls: distinct nodes on a path from the container.
StackIsSimplePath ==
  /\ \A i, j \in 1 .. Len(stack) : stack[i] = stack[j] => i = j
  /\ IsPath
  /\ \A i \in 1 .. Len(stack) : stack[i] \in Reach

TemporaryIsActive == \A n \in Node : mark[n] = "temporary" <=> OnStack(n)

\* Nodes the loop of CheckCycle has passed are finished or being traversed.
RootsVisited ==
  \A n \in container \ roots :
    mark[n] = "permanent" \/ (Len(stack) > 0 /\ n = stack[1])

\* Successors the loop of an active call has passed are finished, but for the
\* one whose call is next on the stack.
SuccessorsVisited ==
  /\ \A n \in Node : rest[n] \subseteq succ[n]
  /\ \A n \in Node : mark[n] = "clear" => rest[n] = succ[n]
  /\ \A i \in 1 .. Len(stack) : \A m \in succ[stack[i]] \ rest[stack[i]] :
       mark[m] = "permanent" \/ (i < Len(stack) /\ m = stack[i + 1])

PermanentIsClosed == \A n \in Permanent : succ[n] \subseteq Permanent

\* No cycle among finished nodes.
PermanentIsAcyclic ==
  \A S \in SUBSET Permanent : S # {} => \E n \in S : succ[n] \cap S = {}

SearchInv ==
  /\ cycle = <<>>
  /\ TemporaryIsActive
  /\ RootsVisited
  /\ SuccessorsVisited
  /\ PermanentIsClosed
  /\ PermanentIsAcyclic

\* The report so far: a path written backwards, whose nodes after the first are
\* distinct and no longer on the stack.
ReportIsPath ==
  /\ Len(cycle) > 0
  /\ \A i \in 1 .. Len(cycle) - 1 : cycle[i] \in succ[cycle[i + 1]]
  /\ \A i \in 1 .. Len(cycle) : cycle[i] \in Reach
  /\ \A i, j \in 2 .. Len(cycle) : cycle[i] = cycle[j] => i = j
  /\ \A i \in 2 .. Len(cycle), j \in 1 .. Len(stack) : stack[j] # cycle[i]

ReportIsClosed == Len(cycle) > 1 /\ cycle[1] = cycle[Len(cycle)]

\* The report still waits for the caller in which it began.
ReportIsOpen ==
  /\ Len(cycle) > 1 => cycle[Len(cycle)] # cycle[1]
  /\ Len(stack) > 0
  /\ cycle[Len(cycle)] \in succ[Top]
  /\ OnStack(cycle[1])

ReportInv == ReportIsPath /\ (ReportIsClosed \/ ReportIsOpen)

Inv ==
  /\ TypeOK
  /\ StackIsSimplePath
  /\ phase \in {"search", "acyclic"} => SearchInv
  /\ phase = "acyclic" => stack = <<>> /\ roots = {}
  /\ phase \in {"unwind", "cyclic"} => ReportInv
  /\ phase = "cyclic" => stack = <<>>

-----------------------------------------------------------------------------
\* Pushing onto and popping from the stack.
LEMMA PushFacts ==
  ASSUME NEW S, NEW s \in Seq(S), NEW x \in S
  PROVE  /\ Append(s, x) \in Seq(S)
         /\ Len(Append(s, x)) = Len(s) + 1
         /\ Append(s, x)[Len(s) + 1] = x
         /\ \A i \in 1 .. Len(s) : Append(s, x)[i] = s[i]
OBVIOUS

LEMMA PrefixFacts ==
  ASSUME NEW S, NEW s \in Seq(S), NEW m \in Nat, m < Len(s)
  PROVE  /\ SubSeq(s, 1, m) \in Seq(S)
         /\ Len(SubSeq(s, 1, m)) = m
         /\ \A i \in 1 .. m : SubSeq(s, 1, m)[i] = s[i]
<1>1. SubSeq(s, 1, m) \in Seq(S)
  OBVIOUS
<1>2. Len(SubSeq(s, 1, m)) = m
  OBVIOUS
<1>3. \A i \in 1 .. m : SubSeq(s, 1, m)[i] = s[i]
  OBVIOUS
<1>4. QED
  BY <1>1, <1>2, <1>3

LEMMA PopFacts ==
  ASSUME NEW S, NEW s \in Seq(S), s # <<>>
  PROVE  /\ Len(s) \in Nat \ {0}
         /\ s[Len(s)] \in S
         /\ SubSeq(s, 1, Len(s) - 1) \in Seq(S)
         /\ Len(SubSeq(s, 1, Len(s) - 1)) = Len(s) - 1
         /\ \A i \in 1 .. Len(s) - 1 : SubSeq(s, 1, Len(s) - 1)[i] = s[i]
<1>1. Len(s) \in Nat \ {0}
  OBVIOUS
<1>2. s[Len(s)] \in S
  BY <1>1
<1>3. Len(s) - 1 \in Nat /\ Len(s) - 1 < Len(s)
  BY <1>1
<1>4. QED
  BY <1>1, <1>2, <1>3, PrefixFacts

\* Reachability: the container is reachable, and so is what a reachable node
\* leads to.
LEMMA ContainerReachable ==
  ASSUME container \subseteq Node
  PROVE  container \subseteq Reach
BY DEF Reach, Check!Reachable

LEMMA ReachClosed ==
  ASSUME succ \in [Node -> SUBSET Node], NEW n \in Reach
  PROVE  succ[n] \subseteq Reach
BY DEF Reach, Check!Reachable, Check!Closed

LEMMA ReachStable ==
  ASSUME UNCHANGED input
  PROVE  Reach' = Reach
BY DEF input, Reach, Check!Reachable, Check!Closed

-----------------------------------------------------------------------------
\* The check begins in the invariant.
LEMMA InitInv == Init => Inv
<1> SUFFICES ASSUME Init PROVE Inv
  OBVIOUS
<1> USE DEF Init
<1>1. Len(stack) = 0 /\ stack \in Seq(Node) /\ cycle \in Seq(Node)
  OBVIOUS
<1>2. TypeOK
  BY <1>1, GraphAssumption, ContainerAssumption DEF TypeOK, Marks
<1>3. StackIsSimplePath
  BY <1>1 DEF StackIsSimplePath, IsPath
<1>4. SearchInv
  <2>1. Permanent = {}
    BY DEF Permanent
  <2>2. TemporaryIsActive /\ RootsVisited /\ SuccessorsVisited
    BY <1>1 DEF TemporaryIsActive, OnStack, RootsVisited, SuccessorsVisited
  <2>3. PermanentIsClosed /\ PermanentIsAcyclic
    BY <2>1 DEF PermanentIsClosed, PermanentIsAcyclic
  <2> QED
    BY <2>2, <2>3 DEF SearchInv
<1> QED
  BY <1>2, <1>3, <1>4 DEF Inv

\* CheckCycle starts a traversal from a node of its container.
LEMMA NextRootInv == Inv /\ NextRoot => Inv'
<1> SUFFICES ASSUME Inv, NextRoot PROVE Inv'
  OBVIOUS
<1>1. PICK n \in roots : roots' = roots \ {n} /\ DetectCycle(n)
  BY DEF NextRoot
<1>2. /\ phase = "search" /\ stack = <<>> /\ Len(stack) = 0
      /\ UNCHANGED input /\ UNCHANGED <<succ, container>> /\ rest' = rest
  BY DEF NextRoot, input
<1>3. TypeOK /\ SearchInv
  BY <1>2 DEF Inv
<1>4. n \in container /\ n \in Node /\ n \in Reach' /\ container \subseteq Node
  BY <1>2, <1>3, ContainerReachable, ReachStable DEF TypeOK
<1>5. CASE Enter(n)
  <2>1. /\ mark[n] = "clear" /\ mark' = [mark EXCEPT ![n] = "temporary"]
        /\ stack' = Append(stack, n) /\ cycle' = cycle /\ phase' = phase
    BY <1>5 DEF Enter
  <2>2. stack' \in Seq(Node) /\ Len(stack') = 1 /\ stack'[1] = n
    BY <2>1, <1>2, <1>3, <1>4, PushFacts DEF TypeOK
  <2>3. TypeOK'
    BY <1>1, <1>2, <1>3, <2>1, <2>2 DEF TypeOK, Marks
  <2>4. StackIsSimplePath'
    BY <2>2, <1>4 DEF StackIsSimplePath, IsPath
  <2>5. TemporaryIsActive'
    BY <1>2, <1>3, <1>4, <2>1, <2>2 DEF SearchInv, TemporaryIsActive, OnStack, TypeOK
  <2>6. RootsVisited'
    BY <1>1, <1>2, <1>3, <1>4, <2>1, <2>2 DEF SearchInv, RootsVisited, TypeOK
  <2>7. SuccessorsVisited'
    BY <1>2, <1>3, <1>4, <2>1, <2>2 DEF SearchInv, SuccessorsVisited, TypeOK
  <2>8. Permanent' = Permanent
    BY <1>3, <1>4, <2>1 DEF Permanent, TypeOK
  <2>9. PermanentIsClosed' /\ PermanentIsAcyclic'
    BY <1>2, <1>3, <2>8 DEF SearchInv, PermanentIsClosed, PermanentIsAcyclic
  <2> QED
    BY <1>2, <1>3, <2>1, <2>3, <2>4, <2>5, <2>6, <2>7, <2>9 DEF Inv, SearchInv
<1>6. CASE Skip(n)
  <2>1. mark[n] = "permanent" /\ UNCHANGED <<mark, stack, cycle, phase>>
    BY <1>6 DEF Skip
  <2>2. TypeOK'
    BY <1>1, <1>2, <1>3, <2>1 DEF TypeOK
  <2>3. StackIsSimplePath'
    BY <1>2, <2>1 DEF StackIsSimplePath, IsPath
  <2>4. TemporaryIsActive' /\ SuccessorsVisited'
    BY <1>2, <1>3, <2>1 DEF SearchInv, TemporaryIsActive, OnStack, SuccessorsVisited
  <2>5. RootsVisited'
    BY <1>1, <1>2, <1>3, <2>1 DEF SearchInv, RootsVisited
  <2>6. Permanent' = Permanent
    BY <2>1 DEF Permanent
  <2>7. PermanentIsClosed' /\ PermanentIsAcyclic'
    BY <1>2, <1>3, <2>6 DEF SearchInv, PermanentIsClosed, PermanentIsAcyclic
  <2> QED
    BY <1>2, <1>3, <2>1, <2>2, <2>3, <2>4, <2>5, <2>7 DEF Inv, SearchInv
<1>7. CASE CloseCycle(n)
  BY <1>2, <1>3, <1>4, <1>7 DEF CloseCycle, SearchInv, TemporaryIsActive, OnStack
<1> QED
  BY <1>1, <1>5, <1>6, <1>7 DEF DetectCycle

\* An active call moves on to a successor.
LEMMA NextSuccessorInv == Inv /\ NextSuccessor => Inv'
<1> SUFFICES ASSUME Inv, NextSuccessor PROVE Inv'
  OBVIOUS
<1> DEFINE t == Top
           k == Len(stack)
<1>1. PICK n \in rest[t] : rest' = [rest EXCEPT ![t] = @ \ {n}] /\ DetectCycle(n)
  BY DEF NextSuccessor
<1>2. /\ phase = "search" /\ stack # <<>> /\ UNCHANGED input
      /\ UNCHANGED <<succ, container>> /\ roots' = roots
  BY DEF NextSuccessor, input
<1>3. TypeOK /\ SearchInv /\ StackIsSimplePath
  BY <1>2 DEF Inv
<1>4. k \in Nat \ {0} /\ t \in Node /\ t = stack[k]
  BY <1>2, <1>3, PopFacts DEF TypeOK, Top
<1>5. mark[t] = "temporary"
  BY <1>3, <1>4 DEF SearchInv, TemporaryIsActive, OnStack
<1>6. n \in succ[t] /\ n \in Node
  BY <1>1, <1>3, <1>4 DEF SearchInv, SuccessorsVisited, TypeOK
<1>7. Reach' = Reach
  BY <1>2, ReachStable
<1>8. n \in Reach
  BY <1>3, <1>4, <1>6, ReachClosed DEF StackIsSimplePath, TypeOK
<1>9. /\ rest' \in [Node -> SUBSET Node]
      /\ rest'[t] = rest[t] \ {n}
      /\ \A m \in Node \ {t} : rest'[m] = rest[m]
  BY <1>1, <1>3, <1>4 DEF TypeOK
<1> HIDE DEF t, k
<1>10. CASE Enter(n)
  <2>1. /\ mark[n] = "clear" /\ mark' = [mark EXCEPT ![n] = "temporary"]
        /\ stack' = Append(stack, n) /\ cycle' = cycle /\ phase' = phase
    BY <1>10 DEF Enter
  <2>2. /\ stack' \in Seq(Node) /\ Len(stack') = k + 1 /\ stack'[k + 1] = n
        /\ \A i \in 1 .. k : stack'[i] = stack[i]
    BY <2>1, <1>3, <1>6, PushFacts DEF TypeOK, k
  <2>3. n # t /\ \A i \in 1 .. k : stack[i] # n
    BY <1>3, <1>5, <1>6, <2>1 DEF SearchInv, TemporaryIsActive, OnStack, k
  <2>4. TypeOK'
    BY <1>2, <1>3, <1>9, <2>1, <2>2 DEF TypeOK, Marks
  <2>5. StackIsSimplePath'
    <3>1. \A i, j \in 1 .. k + 1 : stack'[i] = stack'[j] => i = j
      BY <1>3, <1>4, <2>2, <2>3 DEF StackIsSimplePath, k
    <3>2. \A i \in 1 .. k : stack'[i + 1] \in succ[stack'[i]]
      BY <1>3, <1>4, <1>6, <2>2 DEF StackIsSimplePath, IsPath, k
    <3>3. \A i \in 1 .. k + 1 : stack'[i] \in Reach
      BY <1>3, <1>4, <1>8, <2>2 DEF StackIsSimplePath, k
    <3> QED
      BY <1>2, <1>4, <1>7, <2>2, <3>1, <3>2, <3>3 DEF StackIsSimplePath, IsPath
  <2>6. TemporaryIsActive'
    <3>1. \A m \in Node : OnStack(m)' <=> OnStack(m) \/ m = n
      BY <1>4, <2>2 DEF OnStack, k
    <3> QED
      BY <1>3, <1>6, <2>1, <3>1 DEF SearchInv, TemporaryIsActive, TypeOK
  <2>7. RootsVisited'
    <3>1. k + 1 > 0 /\ k > 0 /\ stack'[1] = stack[1]
      BY <1>4, <2>2
    <3> QED
      BY <1>2, <1>3, <1>6, <2>1, <2>2, <3>1 DEF SearchInv, RootsVisited, TypeOK, k
  <2>8. SuccessorsVisited'
    <3>1. \A m \in Node : rest'[m] \subseteq succ'[m]
      BY <1>2, <1>3, <1>9 DEF SearchInv, SuccessorsVisited
    <3>2. \A m \in Node : mark'[m] = "clear" => rest'[m] = succ'[m]
      BY <1>2, <1>3, <1>5, <1>6, <1>9, <2>1 DEF SearchInv, SuccessorsVisited, TypeOK
    <3>3. \A m \in Node : mark[m] = "permanent" => mark'[m] = "permanent"
      BY <1>3, <1>6, <2>1 DEF TypeOK
    <3>4. ASSUME NEW i \in 1 .. k, NEW m \in succ[stack[i]] \ rest'[stack[i]]
          PROVE  mark'[m] = "permanent" \/ m = stack'[i + 1]
      <4>1. stack[i] \in Node /\ m \in Node
        BY <1>3 DEF TypeOK, k
      <4>2. CASE i = k
        BY <1>3, <1>4, <1>9, <2>2, <3>3, <4>1, <4>2 DEF SearchInv, SuccessorsVisited, k
      <4>3. CASE i # k
        <5>1. stack[i] # t /\ i < k /\ i + 1 \in 1 .. k
          BY <1>3, <1>4, <4>3 DEF StackIsSimplePath, k
        <5>2. m \in succ[stack[i]] \ rest[stack[i]]
          BY <1>9, <4>1, <5>1
        <5> QED
          BY <1>3, <2>2, <3>3, <4>1, <5>1, <5>2 DEF SearchInv, SuccessorsVisited, k
      <4> QED
        BY <4>2, <4>3
    <3>5. succ[n] \ rest'[n] = {}
      BY <1>3, <1>6, <1>9, <2>1, <2>3 DEF SearchInv, SuccessorsVisited
    <3>6. \A i \in 1 .. k + 1 : \A m \in succ[stack'[i]] \ rest'[stack'[i]] :
            mark'[m] = "permanent" \/ (i < k + 1 /\ m = stack'[i + 1])
      BY <1>4, <2>2, <3>4, <3>5
    <3> QED
      BY <1>2, <2>2, <3>1, <3>2, <3>6 DEF SuccessorsVisited
  <2>9. Permanent' = Permanent
    BY <1>3, <1>6, <2>1 DEF Permanent, TypeOK
  <2>10. PermanentIsClosed' /\ PermanentIsAcyclic'
    BY <1>2, <1>3, <2>9 DEF SearchInv, PermanentIsClosed, PermanentIsAcyclic
  <2> QED
    BY <1>2, <1>3, <2>1, <2>4, <2>5, <2>6, <2>7, <2>8, <2>10 DEF Inv, SearchInv
<1>11. CASE Skip(n)
  <2>1. mark[n] = "permanent" /\ UNCHANGED <<mark, stack, cycle, phase>>
    BY <1>11 DEF Skip
  <2>2. TypeOK'
    BY <1>2, <1>3, <1>9, <2>1 DEF TypeOK
  <2>3. StackIsSimplePath'
    BY <1>2, <1>3, <1>7, <2>1 DEF StackIsSimplePath, IsPath
  <2>4. TemporaryIsActive' /\ RootsVisited'
    BY <1>2, <1>3, <2>1 DEF SearchInv, TemporaryIsActive, OnStack, RootsVisited
  <2>5. SuccessorsVisited'
    <3>1. /\ \A m \in Node : rest'[m] \subseteq succ[m]
          /\ \A m \in Node : mark[m] = "clear" => rest'[m] = succ[m]
      BY <1>3, <1>5, <1>9 DEF SearchInv, SuccessorsVisited
    <3>2. ASSUME NEW i \in 1 .. k, NEW m \in succ[stack[i]] \ rest'[stack[i]]
          PROVE  mark[m] = "permanent" \/ (i < k /\ m = stack[i + 1])
      <4>1. stack[i] \in Node
        BY <1>3 DEF TypeOK, k
      <4>2. m = n \/ m \in succ[stack[i]] \ rest[stack[i]]
        BY <1>9, <4>1
      <4> QED
        BY <1>3, <2>1, <4>2 DEF SearchInv, SuccessorsVisited, k
    <3> QED
      BY <1>2, <2>1, <3>1, <3>2 DEF SuccessorsVisited, k
  <2>6. Permanent' = Permanent
    BY <2>1 DEF Permanent
  <2>7. PermanentIsClosed' /\ PermanentIsAcyclic'
    BY <1>2, <1>3, <2>6 DEF SearchInv, PermanentIsClosed, PermanentIsAcyclic
  <2> QED
    BY <1>2, <1>3, <2>1, <2>2, <2>3, <2>4, <2>5, <2>7 DEF Inv, SearchInv
<1>12. CASE CloseCycle(n)
  <2>1. /\ mark[n] = "temporary" /\ cycle' = Append(cycle, n) /\ phase' = "unwind"
        /\ UNCHANGED <<mark, stack>>
    BY <1>12 DEF CloseCycle
  <2>2. cycle' \in Seq(Node) /\ Len(cycle') = 1 /\ cycle'[1] = n
    BY <1>3, <1>6, <2>1, PushFacts DEF SearchInv, TypeOK
  <2>3. TypeOK'
    BY <1>2, <1>3, <1>9, <2>1, <2>2 DEF TypeOK
  <2>4. StackIsSimplePath'
    BY <1>2, <1>3, <1>7, <2>1 DEF StackIsSimplePath, IsPath
  <2>5. ReportIsPath'
    BY <1>7, <1>8, <2>2 DEF ReportIsPath
  <2>6. OnStack(n) /\ Top = t /\ Len(stack) > 0
    BY <1>3, <1>4, <1>6, <2>1 DEF SearchInv, TemporaryIsActive, t, k
  <2>7. ReportIsOpen'
    BY <1>2, <1>6, <2>1, <2>2, <2>6 DEF ReportIsOpen, OnStack, Top
  <2> QED
    BY <2>1, <2>3, <2>4, <2>5, <2>7 DEF Inv, ReportInv
<1> QED
  BY <1>1, <1>10, <1>11, <1>12 DEF DetectCycle

\* An active call whose successors are all finished becomes permanent.
LEMMA LeaveInv == Inv /\ Leave => Inv'
<1> SUFFICES ASSUME Inv, Leave PROVE Inv'
  OBVIOUS
<1> DEFINE t == Top
           k == Len(stack)
<1>1. /\ phase = "search" /\ stack # <<>> /\ rest[t] = {}
      /\ mark' = [mark EXCEPT ![t] = "permanent"] /\ stack' = Pop
      /\ UNCHANGED input /\ UNCHANGED <<succ, container, roots, rest, cycle, phase>>
  BY DEF Leave, input
<1>2. TypeOK /\ SearchInv /\ StackIsSimplePath
  BY <1>1 DEF Inv
<1>3. /\ k \in Nat \ {0} /\ t \in Node /\ t = stack[k]
      /\ stack' \in Seq(Node) /\ Len(stack') = k - 1
      /\ \A i \in 1 .. k - 1 : stack'[i] = stack[i]
  BY <1>1, <1>2, PopFacts DEF TypeOK, Top, Pop
<1>4. mark[t] = "temporary"
  BY <1>2, <1>3 DEF SearchInv, TemporaryIsActive, OnStack
<1>5. Reach' = Reach
  BY <1>1, ReachStable
<1> HIDE DEF t, k
<1>6. \A i \in 1 .. k - 1 : stack[i] # t
  BY <1>2, <1>3 DEF StackIsSimplePath, k
<1>7. Permanent' = Permanent \cup {t} /\ t \notin Permanent
  BY <1>1, <1>2, <1>3, <1>4 DEF Permanent, TypeOK
<1>8. succ[t] \subseteq Permanent
  <2>1. \A m \in succ[t] \ rest[t] : mark[m] = "permanent"
    BY <1>2, <1>3 DEF SearchInv, SuccessorsVisited, k
  <2>2. succ[t] \subseteq Node
    BY <1>2, <1>3 DEF TypeOK
  <2> QED
    BY <1>1, <2>1, <2>2 DEF Permanent
<1>9. TypeOK'
  BY <1>1, <1>2, <1>3 DEF TypeOK, Marks
<1>10. StackIsSimplePath'
  <2>1. \A i, j \in 1 .. k - 1 : stack'[i] = stack'[j] => i = j
    BY <1>2, <1>3 DEF StackIsSimplePath, k
  <2>2. \A i \in 1 .. k - 2 : stack'[i + 1] \in succ[stack'[i]]
    BY <1>2, <1>3 DEF StackIsSimplePath, IsPath, k
  <2>3. \A i \in 1 .. k - 1 : stack'[i] \in Reach
    BY <1>2, <1>3 DEF StackIsSimplePath, k
  <2> QED
    BY <1>1, <1>3, <1>5, <2>1, <2>2, <2>3 DEF StackIsSimplePath, IsPath
<1>11. TemporaryIsActive'
  <2>1. \A m \in Node : OnStack(m)' <=> OnStack(m) /\ m # t
    BY <1>3, <1>6 DEF OnStack, k
  <2> QED
    BY <1>1, <1>2, <1>3, <2>1 DEF SearchInv, TemporaryIsActive, TypeOK
<1>12. RootsVisited'
  <2>1. CASE k = 1
    BY <1>1, <1>2, <1>3, <2>1 DEF SearchInv, RootsVisited, TypeOK, k
  <2>2. CASE k # 1
    <3>1. k - 1 > 0 /\ stack'[1] = stack[1]
      BY <1>3, <2>2
    <3> QED
      BY <1>1, <1>2, <1>3, <3>1 DEF SearchInv, RootsVisited, TypeOK, k
  <2> QED
    BY <2>1, <2>2
<1>13. SuccessorsVisited'
  <2>1. \A m \in Node : mark[m] = "permanent" => mark'[m] = "permanent"
    BY <1>1, <1>2, <1>3 DEF TypeOK
  <2>2. mark'[t] = "permanent"
    BY <1>1, <1>2, <1>3 DEF TypeOK
  <2>3. ASSUME NEW i \in 1 .. k - 1, NEW m \in succ[stack[i]] \ rest[stack[i]]
        PROVE  mark'[m] = "permanent" \/ (i < k - 1 /\ m = stack[i + 1])
    <3>1. i \in 1 .. k /\ m \in Node
      BY <1>2, <1>3 DEF TypeOK, k
    <3>2. mark[m] = "permanent" \/ (i < k /\ m = stack[i + 1])
      BY <1>2, <3>1 DEF SearchInv, SuccessorsVisited, k
    <3>3. i < k - 1 \/ i + 1 = k
      BY <1>3
    <3> QED
      BY <1>3, <2>1, <2>2, <3>1, <3>2, <3>3
  <2>4. \A i \in 1 .. k - 1 : stack'[i] = stack[i] /\ (i < k - 1 => stack'[i + 1] = stack[i + 1])
    BY <1>3
  <2>5. \A m \in Node : mark'[m] = "clear" => rest[m] = succ[m]
    BY <1>1, <1>2, <1>3 DEF SearchInv, SuccessorsVisited, TypeOK
  <2>6. \A m \in Node : rest[m] \subseteq succ[m]
    BY <1>2 DEF SearchInv, SuccessorsVisited
  <2>7. \A i \in 1 .. k - 1 : \A m \in succ[stack'[i]] \ rest[stack'[i]] :
          mark'[m] = "permanent" \/ (i < k - 1 /\ m = stack'[i + 1])
    BY <2>3, <2>4
  <2> QED
    BY <1>1, <1>3, <2>5, <2>6, <2>7 DEF SuccessorsVisited
<1>14. PermanentIsClosed'
  BY <1>1, <1>2, <1>7, <1>8 DEF SearchInv, PermanentIsClosed
<1>15. PermanentIsAcyclic'
  <2> SUFFICES ASSUME NEW S \in SUBSET (Permanent \cup {t}), S # {}
               PROVE  \E m \in S : succ[m] \cap S = {}
    BY <1>1, <1>7 DEF PermanentIsAcyclic
  <2>1. CASE S \subseteq {t}
    BY <1>7, <1>8, <2>1
  <2>2. CASE ~ (S \subseteq {t})
    <3>1. PICK m \in S \ {t} : succ[m] \cap (S \ {t}) = {}
      BY <1>2, <2>2 DEF SearchInv, PermanentIsAcyclic
    <3>2. succ[m] \subseteq Permanent
      BY <1>2, <3>1 DEF SearchInv, PermanentIsClosed
    <3> QED
      BY <1>7, <3>1, <3>2
  <2> QED
    BY <2>1, <2>2
<1> QED
  BY <1>1, <1>2, <1>9, <1>10, <1>11, <1>12, <1>13, <1>14, <1>15 DEF Inv, SearchInv

\* A call returns true to its caller.
LEMMA UnwindInv == Inv /\ Unwind => Inv'
<1> SUFFICES ASSUME Inv, Unwind PROVE Inv'
  OBVIOUS
<1> DEFINE t == Top
           k == Len(stack)
           c == Len(cycle)
<1>1. /\ phase = "unwind" /\ stack # <<>> /\ stack' = Pop
      /\ cycle' = IF c = 1 \/ cycle[c] # cycle[1] THEN Append(cycle, t) ELSE cycle
      /\ UNCHANGED input /\ UNCHANGED <<succ, container, roots, mark, rest, phase>>
  BY DEF Unwind, input
<1>2. TypeOK /\ ReportInv /\ StackIsSimplePath
  BY <1>1 DEF Inv
<1>3. /\ k \in Nat \ {0} /\ t \in Node /\ t = stack[k]
      /\ stack' \in Seq(Node) /\ Len(stack') = k - 1
      /\ \A i \in 1 .. k - 1 : stack'[i] = stack[i]
  BY <1>1, <1>2, PopFacts DEF TypeOK, Top, Pop
<1>4. Reach' = Reach /\ t \in Reach
  BY <1>1, <1>2, <1>3, ReachStable DEF StackIsSimplePath
<1>5. c \in Nat \ {0}
  BY <1>2 DEF ReportInv, ReportIsPath, TypeOK
<1> HIDE DEF t, k, c
<1>6. \A i \in 1 .. k - 1 : stack[i] # t
  BY <1>2, <1>3 DEF StackIsSimplePath, k
<1>7. StackIsSimplePath'
  <2>1. \A i, j \in 1 .. k - 1 : stack'[i] = stack'[j] => i = j
    BY <1>2, <1>3 DEF StackIsSimplePath, k
  <2>2. \A i \in 1 .. k - 2 : stack'[i + 1] \in succ[stack'[i]]
    BY <1>2, <1>3 DEF StackIsSimplePath, IsPath, k
  <2>3. \A i \in 1 .. k - 1 : stack'[i] \in Reach
    BY <1>2, <1>3 DEF StackIsSimplePath, k
  <2> QED
    BY <1>1, <1>3, <1>4, <2>1, <2>2, <2>3 DEF StackIsSimplePath, IsPath
<1>8. CASE ReportIsClosed
  <2>1. cycle' = cycle
    BY <1>1, <1>8 DEF ReportIsClosed, c
  <2>2. TypeOK'
    BY <1>1, <1>2, <1>3, <2>1 DEF TypeOK
  <2>3. ReportIsPath'
    <3>1. \A i \in 2 .. c, j \in 1 .. k : stack[j] # cycle[i]
      BY <1>2 DEF ReportInv, ReportIsPath, c, k
    <3>2. \A i \in 2 .. c, j \in 1 .. k - 1 : stack'[j] # cycle[i]
      BY <1>3, <3>1
    <3> QED
      BY <1>1, <1>2, <1>3, <1>4, <2>1, <3>2 DEF ReportInv, ReportIsPath, c
  <2>4. ReportIsClosed'
    BY <1>8, <2>1 DEF ReportIsClosed
  <2> QED
    BY <1>1, <1>7, <2>2, <2>3, <2>4 DEF Inv, ReportInv
<1>9. CASE ~ ReportIsClosed
  <2>1. ReportIsPath /\ ReportIsOpen
    BY <1>2, <1>9 DEF ReportInv
  <2>2. cycle' = Append(cycle, t)
    <3>1. c = 1 \/ c > 1
      BY <1>5
    <3>2. c > 1 => cycle[c] # cycle[1]
      BY <2>1 DEF ReportIsOpen, c
    <3> QED
      BY <1>1, <3>1, <3>2
  <2>3. /\ cycle' \in Seq(Node) /\ Len(cycle') = c + 1 /\ cycle'[c + 1] = t
        /\ \A i \in 1 .. c : cycle'[i] = cycle[i]
    BY <1>2, <1>3, <2>2, PushFacts DEF TypeOK, c
  <2>4. TypeOK'
    BY <1>1, <1>2, <1>3, <2>3 DEF TypeOK
  <2>5. cycle[c] \in succ[t] /\ t = Top
    BY <2>1 DEF ReportIsOpen, t, c
  <2>6. ReportIsPath'
    <3>1. \A i \in 1 .. c : cycle'[i] \in succ[cycle'[i + 1]]
      <4>1. \A i \in 1 .. c - 1 : cycle[i] \in succ[cycle[i + 1]]
        BY <2>1 DEF ReportIsPath, c
      <4> QED
        BY <1>5, <2>3, <2>5, <4>1
    <3>2. \A i \in 1 .. c + 1 : cycle'[i] \in Reach
      BY <1>4, <1>5, <2>1, <2>3 DEF ReportIsPath, c
    <3>3. \A i \in 2 .. c : cycle[i] # t
      BY <1>3, <2>1 DEF ReportIsPath, c, k
    <3>4. \A i, j \in 2 .. c + 1 : cycle'[i] = cycle'[j] => i = j
      <4>1. \A i, j \in 2 .. c : cycle[i] = cycle[j] => i = j
        BY <2>1 DEF ReportIsPath, c
      <4> QED
        BY <1>5, <2>3, <3>3, <4>1
    <3>5. \A i \in 2 .. c + 1, j \in 1 .. k - 1 : stack'[j] # cycle'[i]
      <4>1. \A i \in 2 .. c, j \in 1 .. k : stack[j] # cycle[i]
        BY <2>1 DEF ReportIsPath, c, k
      <4> QED
        BY <1>3, <1>5, <1>6, <2>3, <4>1
    <3> QED
      <4>1. c + 1 > 0 /\ c + 1 - 1 = c
        BY <1>5
      <4>2. succ' = succ
        BY <1>1
      <4>3. \A i \in 1 .. Len(cycle') - 1 : cycle'[i] \in succ'[cycle'[i + 1]]
        <5>1. Len(cycle') - 1 = c
          BY <1>5, <2>3
        <5> QED
          BY <3>1, <4>2, <5>1
      <4>4. \A i \in 1 .. Len(cycle') : cycle'[i] \in Reach'
        BY <1>4, <2>3, <3>2
      <4>5. \A i, j \in 2 .. Len(cycle') : cycle'[i] = cycle'[j] => i = j
        BY <2>3, <3>4
      <4>6. \A i \in 2 .. Len(cycle'), j \in 1 .. Len(stack') : stack'[j] # cycle'[i]
        BY <1>3, <2>3, <3>5
      <4> QED
        BY <2>3, <4>1, <4>3, <4>4, <4>5, <4>6 DEF ReportIsPath
  <2>7. CASE t = cycle[1]
    <3>1. ReportIsClosed'
      BY <1>5, <2>3, <2>7 DEF ReportIsClosed
    <3> QED
      BY <1>1, <1>7, <2>4, <2>6, <3>1 DEF Inv, ReportInv
  <2>8. CASE t # cycle[1]
    <3>1. PICK j \in 1 .. k : stack[j] = cycle[1]
      BY <2>1 DEF ReportIsOpen, OnStack, k
    <3>2. j \in 1 .. k - 1 /\ k - 1 > 0 /\ k - 1 \in 1 .. k - 1
      BY <1>3, <2>8, <3>1
    <3>3. t \in succ[stack[k - 1]]
      BY <1>2, <1>3, <3>2 DEF StackIsSimplePath, IsPath, k
    <3>4. Top' = stack[k - 1]
      BY <1>3, <3>2 DEF Top
    <3>5. OnStack(cycle[1])'
      BY <1>3, <1>5, <2>3, <3>1, <3>2 DEF OnStack
    <3>6. ReportIsOpen'
      BY <1>1, <1>3, <1>5, <2>3, <2>8, <3>2, <3>3, <3>4, <3>5 DEF ReportIsOpen
    <3> QED
      BY <1>1, <1>7, <2>4, <2>6, <3>6 DEF Inv, ReportInv
  <2> QED
    BY <2>7, <2>8
<1> QED
  BY <1>8, <1>9

\* The two ways the check ends.
LEMMA EndInv == Inv /\ (Throw \/ Accept) => Inv'
<1> SUFFICES ASSUME Inv, Throw \/ Accept PROVE Inv'
  OBVIOUS
<1>1. /\ stack = <<>> /\ UNCHANGED input
      /\ UNCHANGED <<succ, container, roots, mark, stack, rest, cycle>>
  BY DEF Throw, Accept, input
<1>2. \/ phase = "unwind" /\ phase' = "cyclic"
      \/ phase = "search" /\ phase' = "acyclic" /\ roots = {}
  BY DEF Throw, Accept
<1>3. TypeOK'
  BY <1>1, <1>2 DEF Inv, TypeOK, Outcomes
<1>4. StackIsSimplePath'
  BY <1>1, ReachStable DEF Inv, StackIsSimplePath, IsPath
<1>5. CASE phase = "unwind"
  <2>1. ReportInv'
    BY <1>1, <1>5, ReachStable
       DEF Inv, ReportInv, ReportIsPath, ReportIsClosed, ReportIsOpen, OnStack, Top
  <2> QED
    BY <1>1, <1>2, <1>3, <1>4, <1>5, <2>1 DEF Inv
<1>6. CASE phase = "search"
  <2>1. Permanent' = Permanent
    BY <1>1 DEF Permanent
  <2>2. SearchInv'
    BY <1>1, <1>6, <2>1
       DEF Inv, SearchInv, TemporaryIsActive, OnStack, RootsVisited, SuccessorsVisited,
           PermanentIsClosed, PermanentIsAcyclic
  <2> QED
    BY <1>1, <1>2, <1>3, <1>4, <1>6, <2>2 DEF Inv
<1> QED
  BY <1>2, <1>5, <1>6

LEMMA StutterInv == Inv /\ UNCHANGED vars => Inv'
<1> SUFFICES ASSUME Inv, UNCHANGED vars PROVE Inv'
  OBVIOUS
<1>1. UNCHANGED input /\ UNCHANGED <<succ, container, roots, mark, stack, rest, cycle, phase>>
  BY DEF vars, input
<1>2. Reach' = Reach /\ Permanent' = Permanent
  BY <1>1, ReachStable DEF Permanent
<1>3. TypeOK' /\ StackIsSimplePath'
  BY <1>1, <1>2 DEF Inv, TypeOK, StackIsSimplePath, IsPath
<1>4. SearchInv => SearchInv'
  BY <1>1, <1>2
     DEF SearchInv, TemporaryIsActive, OnStack, RootsVisited, SuccessorsVisited,
         PermanentIsClosed, PermanentIsAcyclic
<1>5. ReportInv => ReportInv'
  BY <1>1, <1>2 DEF ReportInv, ReportIsPath, ReportIsClosed, ReportIsOpen, OnStack, Top
<1> QED
  BY <1>1, <1>3, <1>4, <1>5 DEF Inv

\* Inv is an invariant of the check.
THEOREM Invariance == Spec => []Inv
<1>1. Inv /\ [Next]_vars => Inv'
  BY NextRootInv, NextSuccessorInv, LeaveInv, UnwindInv, EndInv, StutterInv
     DEF Next, Step, Terminated
<1> QED
  BY InitInv, <1>1, PTL DEF Spec

\* The variables keep their types.
THEOREM TypeCorrect == Spec => []TypeOK
<1>1. Inv => TypeOK
  BY DEF Inv
<1> QED
  BY Invariance, <1>1, PTL

\* On every graph, temporary marks are the active calls and permanent marks
\* only ever cover finished parts of the graph.
THEOREM MarksCorrect == Spec => []MarksMatchCalls
<1>1. Inv => MarksMatchCalls
  <2> SUFFICES ASSUME Inv, phase = "search" PROVE MarksMatchCalls
    BY DEF MarksMatchCalls
  <2>1. TypeOK /\ SearchInv /\ StackIsSimplePath
    BY DEF Inv
  <2>2. \A n \in Node : mark[n] = "permanent" => \A m \in succ[n] : mark[m] = "permanent"
    BY <2>1 DEF SearchInv, PermanentIsClosed, Permanent
  <2> QED
    BY <2>1, <2>2 DEF MarksMatchCalls, SearchInv, TemporaryIsActive, StackIsSimplePath
<1> QED
  BY Invariance, <1>1, PTL

\* On every graph, what a CycleError reports is a simple cycle of the graph.
THEOREM ReportCorrect == Spec => []ReportedCycleIsReal
<1>1. Inv => ReportedCycleIsReal
  <2> SUFFICES ASSUME Inv, phase = "cyclic" PROVE ReportedCycleIsReal
    BY DEF ReportedCycleIsReal
  <2>1. TypeOK /\ ReportIsPath /\ ReportIsClosed
    BY DEF Inv, ReportInv, ReportIsOpen
  <2>2. \A i, j \in 1 .. Len(cycle) - 1 : cycle[i] = cycle[j] => i = j
    <3>1. \A i, j \in 2 .. Len(cycle) : cycle[i] = cycle[j] => i = j
      BY <2>1 DEF ReportIsPath
    <3>2. Len(cycle) \in Nat /\ Len(cycle) > 1 /\ cycle[1] = cycle[Len(cycle)]
      BY <2>1 DEF TypeOK, ReportIsClosed
    <3> QED
      BY <3>1, <3>2
  <2> QED
    BY <2>1, <2>2 DEF ReportedCycleIsReal, ReportIsPath, ReportIsClosed
<1> QED
  BY Invariance, <1>1, PTL

\* A closed report is a reachable cycle, and a finished search has none left.
LEMMA ThrowIsRight == Inv /\ Throw => Check!Cyclic
<1> SUFFICES ASSUME Inv, Throw PROVE Check!Cyclic
  OBVIOUS
<1>1. TypeOK /\ ReportIsPath /\ ReportIsClosed
  BY DEF Inv, Throw, ReportInv, ReportIsOpen
<1> DEFINE c == Len(cycle)
           S == {cycle[i] : i \in 1 .. c}
<1>2. c \in Nat /\ c > 1 /\ cycle[1] = cycle[c]
  BY <1>1 DEF TypeOK, ReportIsClosed
<1>3. S \in SUBSET Reach /\ S # {}
  BY <1>1, <1>2 DEF ReportIsPath
<1>4. ASSUME NEW i \in 1 .. c PROVE succ[cycle[i]] \cap S # {}
  <2>1. PICK j \in 2 .. c : cycle[j] = cycle[i]
    <3>1. CASE i = 1
      BY <1>2, <3>1
    <3>2. CASE i # 1
      BY <1>2, <3>2
    <3> QED
      BY <3>1, <3>2
  <2>2. j - 1 \in 1 .. c - 1 /\ j - 1 \in 1 .. c /\ j - 1 + 1 = j
    BY <1>2
  <2>3. cycle[j - 1] \in succ[cycle[j]]
    BY <1>1, <2>2 DEF ReportIsPath
  <2> QED
    BY <2>1, <2>2, <2>3
<1> QED
  <2>1. \A n \in S : succ[n] \cap S # {}
    BY <1>4
  <2> HIDE DEF S
  <2> QED
    BY <1>3, <2>1 DEF Check!Cyclic, Reach

LEMMA AcceptIsRight == Inv /\ Accept => ~ Check!Cyclic
<1> SUFFICES ASSUME Inv, Accept PROVE ~ Check!Cyclic
  OBVIOUS
<1>1. TypeOK /\ SearchInv /\ stack = <<>> /\ roots = {}
  BY DEF Inv, Accept
<1>2. Len(stack) = 0
  BY <1>1
<1>3. container \subseteq Permanent
  BY <1>1, <1>2 DEF SearchInv, RootsVisited, Permanent, TypeOK
<1>4. Check!Closed(Permanent) /\ Permanent \in SUBSET Node
  BY <1>1 DEF SearchInv, PermanentIsClosed, Check!Closed, Permanent
<1>5. Check!Reachable \subseteq Permanent
  BY <1>3, <1>4 DEF Check!Reachable
<1> QED
  BY <1>1, <1>5 DEF SearchInv, PermanentIsAcyclic, Check!Cyclic

\* On every graph, a CycleError is thrown if and only if the container reaches
\* a cycle: CycleDetection implements CycleCheck.
THEOREM VerdictCorrect == Spec => VerdictIsRight
<1>1. Init => Check!Init
  BY DEF Init, Check!Init, Outcomes
<1>2. Inv /\ [Next]_vars => [Check!Decide]_Check!vars
  <2> SUFFICES ASSUME Inv, [Next]_vars PROVE [Check!Decide]_Check!vars
    OBVIOUS
  <2>1. CASE Throw
    BY <2>1, ThrowIsRight DEF Throw, Check!Decide, Outcomes, input
  <2>2. CASE Accept
    BY <2>2, AcceptIsRight DEF Accept, Check!Decide, Outcomes, input
  <2>3. CASE NextRoot \/ NextSuccessor \/ Leave \/ Unwind
    <3>1. UNCHANGED <<succ, container>> /\ phase \notin Outcomes /\ phase' \notin Outcomes
      BY <2>3 DEF NextRoot, NextSuccessor, Leave, Unwind, DetectCycle, Enter, Skip,
                  CloseCycle, input, Outcomes
    <3> QED
      BY <3>1 DEF Check!vars
  <2>4. CASE UNCHANGED vars
    BY <2>4 DEF vars, Check!vars
  <2> QED
    BY <2>1, <2>2, <2>3, <2>4 DEF Next, Step, Terminated
<1> QED
  BY Invariance, <1>1, <1>2, PTL DEF Spec, Check!Spec, VerdictIsRight
=============================================================================
