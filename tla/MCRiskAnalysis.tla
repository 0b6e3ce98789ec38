--------------------------- MODULE MCRiskAnalysis ---------------------------
(* Two phases over two house events and two targets.                         *)
EXTENDS RiskAnalysis

CONSTANTS h1, h2

MCHouseEvent == {h1, h2}
Lists(n) == [1 .. n -> Instruction]

\* Phases that name a house event at most once.
DistinctPrograms == {<<>>} \cup Lists(1) \cup {l \in Lists(2) : l[1].event # l[2].event}

\* Phases that may set the same house event twice; the input schema
\* (share/input.rng:117) puts no limit on that.
RepeatingPrograms == {l \in Lists(2) : l[1].event = h1 /\ l[2].event = h1}

MCFractions == {1, 3}
=============================================================================
