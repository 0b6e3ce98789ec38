-------------------------- MODULE MCCycleDetection --------------------------
(* Every graph whose edges are among ten candidates on four nodes: they hold *)
(* a self-loop, cycles of two, three and four nodes with and without a tail, *)
(* diamonds (a node reached twice without a cycle) and a cycle that a        *)
(* container of one node does not reach.                                     *)
EXTENDS CycleDetection

CONSTANTS n1, n2, n3, n4

MCNode == {n1, n2, n3, n4}
Candidates ==
  {<<n1, n1>>, <<n1, n2>>, <<n1, n3>>, <<n2, n3>>, <<n2, n4>>, <<n3, n2>>,
   <<n3, n4>>, <<n4, n1>>, <<n4, n3>>, <<n4, n4>>}
MCGraphs ==
  {[n \in MCNode |-> {m \in MCNode : <<n, m>> \in E}] : E \in SUBSET Candidates}
\* The whole table, as for gates, and containers that leave nodes out.
MCContainers == {MCNode, {n1}, {n2, n3}}
=============================================================================
