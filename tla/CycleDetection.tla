--------------------------- MODULE CycleDetection ---------------------------
(***************************************************************************)
(* The depth-first cycle check of src/cycle.h and src/cycle.cc, which the  *)
(* initializer runs over gates, rules, named branches, links and           *)
(* parameters before the model may be analysed.                            *)
(*                                                                         *)
(* The recursion DetectCycle -> ContinueConnector -> DetectCycle is an     *)
(* explicit stack of nodes; rest[n] holds the successors that the loops    *)
(* over the connector of n have not visited yet.  A connector is flattened *)
(* to the set of nodes its traversal yields (the arguments of a formula,   *)
(* the branch targets behind forks, the rules inside blocks and            *)
(* conditionals, the links in the sequences of an event tree); the order   *)
(* in which they are yielded is left open, so every order is covered.      *)
(***************************************************************************)
EXTENDS Integers, Sequences

CONSTANTS
  Node,        \* the nodes of the graph
  Graphs,      \* the graphs to check
  Containers   \* the containers CheckCycle may be given

ASSUME GraphAssumption == Graphs \subseteq [Node -> SUBSET Node]
ASSUME ContainerAssumption == Containers \subseteq SUBSET Node

VARIABLES
  succ,        \* the graph: the nodes that the connector of a node yields
  container,   \* the range of nodes CheckCycle loops over
  roots,       \* the nodes of the container the loop has not reached
  mark,        \* NodeMark of each node
  stack,       \* the nodes of the active DetectCycle calls, outermost first
  rest,        \* what the connector loop of each node has left
  cycle,       \* the report, in reverse order
  phase        \* "search", "unwind" while true is being returned, or the outcome

vars == <<succ, container, roots, mark, stack, rest, cycle, phase>>
input == <<succ, container>>

Marks == {"clear", "temporary", "permanent"}
Outcomes == {"acyclic", "cyclic"}

Top == stack[Len(stack)]
Pop == SubSeq(stack, 1, Len(stack) - 1)

Init ==
  /\ succ \in Graphs
  /\ container \in Containers
  /\ roots = container
  /\ mark = [n \in Node |-> "clear"]
  /\ stack = <<>>
  /\ rest = succ
  /\ cycle = <<>>
  /\ phase = "search"

-----------------------------------------------------------------------------
\* The three ways a call DetectCycle(n) can begin.

\* An unvisited node is marked and its connector is traversed next.
Enter(n) ==
  /\ mark[n] = "clear"
  /\ mark' = [mark EXCEPT ![n] = "temporary"]
  /\ stack' = Append(stack, n)
  /\ UNCHANGED <<cycle, phase>>

\* A finished node is passed over.
Skip(n) ==
  /\ mark[n] = "permanent"
  /\ UNCHANGED <<mark, stack, cycle, phase>>

\* Mutant: every visited node is taken for an active one.
CloseOnAnyMark(n) ==
  /\ mark[n] # "clear"
  /\ cycle' = Append(cycle, n)
  /\ phase' = "unwind"
  /\ UNCHANGED <<mark, stack>>

\* A node that is still being traversed closes a cycle: the report starts here.
CloseCycle(n) ==
  /\ mark[n] = "temporary"
  /\ cycle' = Append(cycle, n)
  /\ phase' = "unwind"
  /\ UNCHANGED <<mark, stack>>

DetectCycle(n) == Enter(n) \/ Skip(n) \/ CloseCycle(n)

\* The loop of CheckCycle over its container.
NextRoot ==
  /\ phase = "search" /\ stack = <<>>
  /\ \E n \in roots : roots' = roots \ {n} /\ DetectCycle(n)
  /\ UNCHANGED <<input, rest>>

\* Mutant: the loop does not get past a successor that needs no traversal.
NextSuccessorNoAdvance ==
  /\ phase = "search" /\ stack # <<>>
  /\ \E n \in rest[Top] :
       /\ rest' = IF mark[n] = "permanent" THEN rest ELSE [rest EXCEPT ![Top] = @ \ {n}]
       /\ DetectCycle(n)
  /\ UNCHANGED <<input, roots>>

\* The loops of ContinueConnector over what the connector of the top node yields.
NextSuccessor ==
  /\ phase = "search" /\ stack # <<>>
  /\ \E n \in rest[Top] :
       /\ rest' = [rest EXCEPT ![Top] = @ \ {n}]
       /\ DetectCycle(n)
  /\ UNCHANGED <<input, roots>>

\* Mutant: a finished node keeps the mark of an active one.
LeaveTemporary ==
  /\ phase = "search" /\ stack # <<>>
  /\ rest[Top] = {}
  /\ stack' = Pop
  /\ UNCHANGED <<input, roots, mark, rest, cycle, phase>>

\* Mutant: a finished node gets a mark that NodeMark does not have.
LeaveUnknown ==
  /\ phase = "search" /\ stack # <<>>
  /\ rest[Top] = {}
  /\ mark' = [mark EXCEPT ![Top] = "finished"]
  /\ stack' = Pop
  /\ UNCHANGED <<input, roots, rest, cycle, phase>>

\* All successors returned false: the node is finished.
Leave ==
  /\ phase = "search" /\ stack # <<>>
  /\ rest[Top] = {}
  /\ mark' = [mark EXCEPT ![Top] = "permanent"]
  /\ stack' = Pop
  /\ UNCHANGED <<input, roots, rest, cycle, phase>>

\* Mutant: callers above the cycle node put themselves on the report too.
UnwindAlwaysReports ==
  /\ phase = "unwind" /\ stack # <<>>
  /\ cycle' = Append(cycle, Top)
  /\ stack' = Pop
  /\ UNCHANGED <<input, roots, mark, rest, phase>>

\* A callee returned true: the caller adds itself unless the report is closed.
Unwind ==
  /\ phase = "unwind" /\ stack # <<>>
  /\ cycle' = IF Len(cycle) = 1 \/ cycle[Len(cycle)] # cycle[1]
                THEN Append(cycle, Top) ELSE cycle
  /\ stack' = Pop
  /\ UNCHANGED <<input, roots, mark, rest, phase>>

\* CheckCycle throws the CycleError with the report.
Throw ==
  /\ phase = "unwind" /\ stack = <<>>
  /\ phase' = "cyclic"
  /\ UNCHANGED <<input, roots, mark, stack, rest, cycle>>

\* CheckCycle returns after its last node.
Accept ==
  /\ phase = "search" /\ stack = <<>> /\ roots = {}
  /\ phase' = "acyclic"
  /\ UNCHANGED <<input, roots, mark, stack, rest, cycle>>

Terminated == phase \in Outcomes /\ UNCHANGED vars

Step == NextRoot \/ NextSuccessor \/ Leave \/ Unwind \/ Throw \/ Accept
Next == Step \/ Terminated

Spec == Init /\ [][Next]_vars
\* The check is a plain function call: it keeps running until it returns or throws.
FairSpec == Spec /\ WF_vars(Step)

-----------------------------------------------------------------------------
\* The values the variables of the check may hold.
TypeOK ==
  /\ succ \in [Node -> SUBSET Node]
  /\ container \subseteq Node
  /\ roots \subseteq container
  /\ mark \in [Node -> Marks]
  /\ stack \in Seq(Node)
  /\ rest \in [Node -> SUBSET Node]
  /\ cycle \in Seq(Node)
  /\ phase \in {"search", "unwind"} \cup Outcomes

OnStack(n) == \E i \in 1 .. Len(stack) : stack[i] = n
IsPath == \A i \in 1 .. Len(stack) - 1 : stack[i + 1] \in succ[stack[i]]

\* While nothing is found, the temporary marks are exactly the active calls,
\* each node is active at most once, the calls form a path of the graph, and
\* a permanent mark is never given before everything below it is permanent
\* (the contract of the three marks in DetectCycle, src/cycle.h:131-147).
MarksMatchCalls ==
  phase = "search" =>
    /\ \A n \in Node : mark[n] = "temporary" <=> OnStack(n)
    /\ \A i, j \in 1 .. Len(stack) : stack[i] = stack[j] => i = j
    /\ IsPath
    /\ \A n \in Node : mark[n] = "permanent" => \A m \in succ[n] : mark[m] = "permanent"

\* What CheckCycle puts in the error is a cycle of the graph written backwards:
\* it begins and ends with the same node, every node of it leads to the one
\* before it, and no node but the first comes twice (the two asserts of PrintCycle and the
\* guard that stops callers outside the cycle from joining the report).
ReportedCycleIsReal ==
  phase = "cyclic" =>
    /\ Len(cycle) > 1
    /\ cycle[1] = cycle[Len(cycle)]
    /\ \A i \in 1 .. Len(cycle) - 1 : cycle[i] \in succ[cycle[i + 1]]
    /\ \A i, j \in 1 .. Len(cycle) - 1 : cycle[i] = cycle[j] => i = j

\* The verdict is right: the check implements CycleCheck, where a CycleError is
\* thrown if and only if the container reaches a cycle.
Check == INSTANCE CycleCheck WITH
  verdict <- IF phase \in Outcomes THEN phase ELSE "pending"
VerdictIsRight == Check!Spec

\* The check ends for every graph, cyclic or not.
CheckTerminates == <>(phase \in Outcomes)
=============================================================================
