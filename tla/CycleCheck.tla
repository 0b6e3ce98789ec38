----------------------------- MODULE CycleCheck -----------------------------
(***************************************************************************)
(* What cycle::CheckCycle promises its callers in the initializer: asked   *)
(* about a graph and a container of start nodes it gives one verdict, and  *)
(* the verdict is "cyclic" (a CycleError is thrown) exactly when a cycle   *)
(* can be reached from the container.                                      *)
(***************************************************************************)
CONSTANTS
  Node,        \* gates, rules, named branches, links or parameters
  Graphs,      \* the graphs a run covers, each a function from Node to successors
  Containers   \* the sets of nodes the check may be started with

VARIABLES
  succ,        \* the graph under test; the check never changes it
  container,   \* the nodes CheckCycle is given
  verdict      \* "pending", then "acyclic" (returned) or "cyclic" (thrown)

vars == <<succ, container, verdict>>

\* The sets no edge leaves; the nodes in all of those that hold the container
\* are the ones reachable from it.
Closed(S) == \A m \in S : succ[m] \subseteq S

Reachable ==
  {n \in Node : \A S \in SUBSET Node : container \subseteq S /\ Closed(S) => n \in S}

\* A nonempty set in which every node has a successor: in a finite graph, that
\* is a set with a cycle in it.
Cyclic ==
  \E S \in SUBSET Reachable : S # {} /\ \A n \in S : succ[n] \cap S # {}

Init ==
  /\ succ \in Graphs
  /\ container \in Containers
  /\ verdict = "pending"

Decide ==
  /\ verdict = "pending"
  /\ verdict' = IF Cyclic THEN "cyclic" ELSE "acyclic"
  /\ UNCHANGED <<succ, container>>

Spec == Init /\ [][Decide]_vars
=============================================================================
