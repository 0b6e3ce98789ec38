---------------------- MODULE EventTreeScenariosProofs ----------------------
(***************************************************************************)
(* Proof that EventTreeWalk makes the gates that EventTreeScenarios asks   *)
(* for, for every set of models that are defined.                          *)
(*                                                                         *)
(* While a walk goes on, every frame of the stack stands for outcomes that *)
(* are still to come: in every scenario those found and those to come are  *)
(* all outcomes.  No trail is still to come twice, and no trail chooses    *)
(* two states for one functional event, so that it is that of a scenario.  *)
(***************************************************************************)
EXTENDS EventTreeProofs, EventTreeScenarios, FiniteSetTheorems, WellFoundedInduction

-----------------------------------------------------------------------------
\* Recursive functions.

LEMMA LeastNumber ==
  ASSUME NEW S \in SUBSET Nat, S # {}
  PROVE  \E n \in S : \A k \in S : n <= k
<1> DEFINE R == OpToRel(<, Nat)
<1>1. IsWellFoundedOn(R, Nat)
  BY NatLessThanWellFounded
<1>2. \A k, n \in Nat : k < n => <<k, n>> \in R
  BY DEF OpToRel
<1> HIDE DEF R
<1>3. PICK n \in S : \A k \in S : ~(<<k, n>> \in R)
  BY <1>1, WFMin
<1>4. ASSUME NEW k \in S PROVE n <= k
  <2>1. k \in Nat /\ n \in Nat /\ ~(k < n)
    BY <1>2, <1>3
  <2> QED BY <2>1
<1> QED
  BY <1>4

\* A list of instructions has situations after each of them.
LEMMA AfterEquation ==
  ASSUME NEW m, NEW c, NEW x, NEW list, Len(list) \in Nat
  PROVE  LET after == After(m, c, x, list)
         IN  /\ after[0] = x
             /\ \A n \in 1 .. Len(list) :
                  after[n] = IF Applies(m, c, x, list[n]) THEN Obeyed(after[n - 1], list[n])
                             ELSE after[n - 1]
<1> DEFINE OneStep(y, n) == IF Applies(m, c, x, list[n]) THEN Obeyed(y, list[n]) ELSE y
           Solves(g, k) == g = [n \in 0 .. k |-> IF n = 0 THEN x ELSE OneStep(g[n - 1], n)]
           Unsolved == {k \in Nat : ~ \E g : Solves(g, k)}
           after == After(m, c, x, list)
<1>1. ASSUME Unsolved # {} PROVE FALSE
  <2>1. PICK k \in Unsolved : \A l \in Unsolved : k <= l
    BY <1>1, LeastNumber
  <2>2. k # 0
    <3> DEFINE g == [n \in 0 .. 0 |-> x]
    <3>1. Solves(g, 0)
      <4> HIDE DEF OneStep
      <4> QED OBVIOUS
    <3> QED BY <3>1
  <2>3. k - 1 \in Nat /\ k - 1 \notin Unsolved
    <3>1. k \in Nat
      BY <2>1
    <3> HIDE DEF Unsolved
    <3> QED BY <2>1, <2>2, <3>1
  <2>4. PICK g : Solves(g, k - 1)
    BY <2>3
  <2> DEFINE h == [n \in 0 .. k |-> IF n = k THEN OneStep(g[k - 1], k) ELSE g[n]]
  <2>5. Solves(h, k)
    <3> HIDE DEF OneStep
    <3>1. \A n \in 0 .. k - 1 : g[n] = IF n = 0 THEN x ELSE OneStep(g[n - 1], n)
      BY <2>4
    <3>2. ASSUME NEW n \in 0 .. k PROVE h[n] = IF n = 0 THEN x ELSE OneStep(h[n - 1], n)
      <4>1. CASE n = k
        BY <2>2, <2>3, <4>1
      <4>2. CASE n # k
        <5>1. n \in 0 .. k - 1 /\ (n # 0 => n - 1 \in 0 .. k - 1)
          BY <2>3, <4>2
        <5> QED BY <3>1, <4>2, <5>1
      <4> QED BY <4>1, <4>2
    <3>3. h = [n \in 0 .. k |-> h[n]]
      OBVIOUS
    <3> HIDE DEF h
    <3> QED BY <3>2, <3>3
  <2> QED BY <2>5
<1>2. PICK g : Solves(g, Len(list))
  BY <1>1
<1>3. g = [n \in 0 .. Len(list) |->
             IF n = 0 THEN x
             ELSE IF Applies(m, c, x, list[n]) THEN Obeyed(g[n - 1], list[n]) ELSE g[n - 1]]
  BY <1>2
<1>4. after = [n \in 0 .. Len(list) |->
                 IF n = 0 THEN x
                 ELSE IF Applies(m, c, x, list[n]) THEN Obeyed(after[n - 1], list[n])
                      ELSE after[n - 1]]
  BY <1>3 DEF After
<1> HIDE DEF after
<1>5. 0 \in 0 .. Len(list) /\ \A n \in 1 .. Len(list) : n \in 0 .. Len(list) /\ n # 0
  OBVIOUS
<1>6. after[0] = x
  BY <1>4, <1>5
<1>7. \A n \in 1 .. Len(list) :
        after[n] = IF Applies(m, c, x, list[n]) THEN Obeyed(after[n - 1], list[n])
                   ELSE after[n - 1]
  BY <1>4, <1>5
<1> QED
  BY <1>6, <1>7 DEF after

-----------------------------------------------------------------------------
\* Situations.

\* What a walk knows where it is: the situation at branch b on a path.
SituationAt(b, path) ==
  [branch |-> b, seen |-> Met(path.trail), houses |-> path.set_instructions,
   formulas |-> path.formulas, expressions |-> path.expressions, trail |-> path.trail]

LEMMA HouseSet ==
  ASSUME NEW m, NEW houses \in HouseStates(m), NEW i \in Doing(m, "set")
  PROVE  [h \in DOMAIN houses \cup {i.house} |-> IF h = i.house THEN i.state ELSE houses[h]]
           \in HouseStates(m)
<1>1. PICK H \in SUBSET {j.house : j \in Doing(m, "set")} :
        houses \in [H -> {j.state : j \in Doing(m, "set")}]
  BY DEF HouseStates
<1>2. H \cup {i.house} \in SUBSET {j.house : j \in Doing(m, "set")}
  OBVIOUS
<1>3. [h \in DOMAIN houses \cup {i.house} |-> IF h = i.house THEN i.state ELSE houses[h]]
        \in [H \cup {i.house} -> {j.state : j \in Doing(m, "set")}]
  BY <1>1
<1> QED
  BY <1>2, <1>3 DEF HouseStates

\* An instruction leaves the place of a situation as it is.
LEMMA ObeyedIsSituation ==
  ASSUME NEW m, NEW x \in Situations(m), NEW i \in Instructions(m),
         i.do \in {"set", "formula", "expression", "link"}
  PROVE  /\ Obeyed(x, i) \in Situations(m)
         /\ Obeyed(x, i).branch = x.branch /\ Obeyed(x, i).seen = x.seen
         /\ Obeyed(x, i).trail = x.trail
<1>1. CASE i.do = "set"
  <2> DEFINE new == [h \in DOMAIN x.houses \cup {i.house} |->
                       IF h = i.house THEN i.state ELSE x.houses[h]]
  <2>1. x.houses \in HouseStates(m) /\ i \in Doing(m, "set")
    BY <1>1 DEF Situations, Doing
  <2>2. new \in HouseStates(m)
    BY <2>1, HouseSet
  <2>3. Obeyed(x, i) = [x EXCEPT !.houses = new]
    BY <1>1 DEF Obeyed
  <2> HIDE DEF new
  <2> QED
    BY <2>2, <2>3 DEF Situations
<1>2. CASE i.do = "formula"
  <2> DEFINE new == Append(x.formulas, <<i.formula, x.houses>>)
  <2>1. new \in Seq({j.formula : j \in Doing(m, "formula")} \X HouseStates(m))
    BY <1>2 DEF Situations, Doing
  <2>3. Obeyed(x, i) = [x EXCEPT !.formulas = new]
    BY <1>2 DEF Obeyed
  <2> HIDE DEF new
  <2> QED
    BY <2>1, <2>3 DEF Situations
<1>3. CASE i.do = "expression"
  <2> DEFINE new == Append(x.expressions, i.expression)
  <2>1. new \in Seq({j.expression : j \in Doing(m, "expression")})
    BY <1>3 DEF Situations, Doing
  <2>3. Obeyed(x, i) = [x EXCEPT !.expressions = new]
    BY <1>3 DEF Obeyed
  <2> HIDE DEF new
  <2> QED
    BY <2>1, <2>3 DEF Situations
<1>4. CASE i.do = "link"
  BY <1>4 DEF Obeyed
<1> QED
  BY <1>1, <1>2, <1>3, <1>4

\* So does a list of them.
IsOfModel(m, list) ==
  /\ Len(list) \in Nat
  /\ \A n \in 1 .. Len(list) : /\ list[n] \in Instructions(m)
                               /\ list[n].do \in {"set", "formula", "expression", "link"}
                               /\ list[n].do = "link" => list[n].tree \in DOMAIN m.initial

LEMMA ListsAreOfModel ==
  ASSUME NEW m, IsDefined(m)
  PROVE  /\ \A b \in DOMAIN m.branch : IsOfModel(m, m.branch[b].instructions)
         /\ \A s \in DOMAIN m.sequence : IsOfModel(m, m.sequence[s])
<1>1. ASSUME NEW list, InstructionsAreDefined(m, list), Range(list) \subseteq Instructions(m)
      PROVE  IsOfModel(m, list)
  <2>1. Len(list) \in Nat /\ \A n \in 1 .. Len(list) : list[n] \in Range(list)
    BY <1>1, ListElements DEF InstructionsAreDefined, IsList
  <2> QED
    BY <1>1, <2>1 DEF InstructionsAreDefined, IsOfModel
<1>2. ASSUME NEW b \in DOMAIN m.branch PROVE IsOfModel(m, m.branch[b].instructions)
  <2>1. Range(m.branch[b].instructions) \subseteq Instructions(m)
    BY DEF Instructions
  <2> QED
    BY <1>1, <2>1, BranchOfModel
<1>3. ASSUME NEW s \in DOMAIN m.sequence PROVE IsOfModel(m, m.sequence[s])
  <2>1. Range(m.sequence[s]) \subseteq Instructions(m)
    BY DEF Instructions
  <2> QED
    BY <1>1, <2>1 DEF IsDefined
<1> QED
  BY <1>2, <1>3

LEMMA AfterIsSituation ==
  ASSUME NEW m, NEW c, NEW x \in Situations(m), NEW list, IsOfModel(m, list),
         NEW n \in 0 .. Len(list)
  PROVE  LET y == After(m, c, x, list)[n]
         IN  /\ y \in Situations(m)
             /\ y.branch = x.branch /\ y.seen = x.seen /\ y.trail = x.trail
<1> DEFINE after == After(m, c, x, list)
           IsGood(y) == /\ y \in Situations(m)
                        /\ y.branch = x.branch /\ y.seen = x.seen /\ y.trail = x.trail
           Bad == {k \in 0 .. Len(list) : ~IsGood(after[k])}
<1>1. Len(list) \in Nat
  BY DEF IsOfModel
<1>2. /\ after[0] = x
      /\ \A k \in 1 .. Len(list) :
           after[k] = IF Applies(m, c, x, list[k]) THEN Obeyed(after[k - 1], list[k])
                      ELSE after[k - 1]
  BY <1>1, AfterEquation
<1> HIDE DEF after
<1>3. ASSUME Bad # {} PROVE FALSE
  <2>1. Bad \in SUBSET Nat
    BY <1>1
  <2>2. PICK k \in Bad : \A l \in Bad : k <= l
    BY <1>3, <2>1, LeastNumber
  <2>3. k \in 0 .. Len(list) /\ ~IsGood(after[k])
    OBVIOUS
  <2>4. k # 0
    BY <1>2, <2>3
  <2>5. k - 1 \in 0 .. Len(list) /\ k \in 1 .. Len(list) /\ k - 1 \notin Bad
    <3>1. k - 1 \in 0 .. Len(list) /\ k \in 1 .. Len(list) /\ ~(k <= k - 1)
      BY <1>1, <2>3, <2>4
    <3> QED
      BY <2>2, <3>1
  <2>6. IsGood(after[k - 1])
    BY <2>5
  <2>7. /\ list[k] \in Instructions(m)
        /\ list[k].do \in {"set", "formula", "expression", "link"}
    BY <2>5 DEF IsOfModel
  <2>8. IsGood(Obeyed(after[k - 1], list[k]))
    BY <2>6, <2>7, ObeyedIsSituation
  <2> QED
    BY <1>2, <2>3, <2>5, <2>6, <2>8
<1>4. IsGood(after[n])
  BY <1>3
<1> QED
  BY <1>4 DEF after

-----------------------------------------------------------------------------
\* What follows a situation.

LEMMA SituationRecord ==
  ASSUME NEW m, NEW x \in Situations(m)
  PROVE  /\ x = [branch |-> x.branch, seen |-> x.seen, houses |-> x.houses,
                 formulas |-> x.formulas, expressions |-> x.expressions, trail |-> x.trail]
         /\ x.branch \in DOMAIN m.branch /\ x.trail \in Seq(TrailItems(m))
  BY DEF Situations

LEMMA NextSituation ==
  ASSUME NEW m, NEW x \in Situations(m), NEW b \in DOMAIN m.branch,
         NEW seen \in SUBSET EventsOf(m), NEW trail \in Seq(TrailItems(m))
  PROVE  [branch |-> b, seen |-> seen, houses |-> x.houses, formulas |-> x.formulas,
          expressions |-> x.expressions, trail |-> trail] \in Situations(m)
  BY DEF Situations

LEMMA AtTargetIsSituation ==
  ASSUME NEW m, IsDefined(m), NEW c, NEW x \in Situations(m)
  PROVE  LET y == AtTarget(m, c, x)
         IN  /\ y \in Situations(m) /\ TargetOf(m, y) = TargetOf(m, x)
             /\ y.branch = x.branch /\ y.seen = x.seen /\ y.trail = x.trail
             /\ \A i : Applies(m, c, y, i) <=> Applies(m, c, x, i)
<1> DEFINE list == m.branch[x.branch].instructions
           y == AtTarget(m, c, x)
<1>1. IsOfModel(m, list)
  BY SituationRecord, ListsAreOfModel
<1>2. Len(list) \in 0 .. Len(list)
  BY <1>1 DEF IsOfModel
<1>3. /\ y \in Situations(m) /\ y.branch = x.branch /\ y.seen = x.seen /\ y.trail = x.trail
  <2>1. y = After(m, c, x, list)[Len(list)]
    BY DEF AtTarget, AfterAll
  <2> HIDE DEF y, list
  <2> QED
    BY <1>1, <1>2, <2>1, AfterIsSituation
<1> HIDE DEF y
<1>4. \A i : Applies(m, c, y, i) <=> Applies(m, c, x, i)
  BY <1>3 DEF Applies, True
<1> QED
  BY <1>3, <1>4 DEF y, TargetOf

\* Where the target of a branch is.
LEMMA TargetOfSituation ==
  ASSUME NEW m, IsDefined(m), NEW x \in Situations(m)
  PROVE  LET target == TargetOf(m, x)
         IN  /\ target \in Targets(m)
             /\ \/ Kind(target) = "sequence" /\ Name(target) \in DOMAIN m.sequence
                   /\ target = <<"sequence", Name(target)>>
                   /\ ListOf(m, x) = m.sequence[Name(target)] /\ IsOfModel(m, ListOf(m, x))
                \/ Kind(target) = "branch" /\ Name(target) \in DOMAIN m.branch
                   /\ m.tree[Name(target)] = m.tree[x.branch]
                \/ Kind(target) = "fork" /\ Name(target) \in DOMAIN m.fork
                   /\ target = <<"fork", Name(target)>>
                   /\ m.fork[Name(target)].tree = m.tree[x.branch]
                   /\ m.fork[Name(target)].tree \in DOMAIN m.initial
<1> DEFINE target == TargetOf(m, x)
<1>1. /\ x.branch \in DOMAIN m.branch /\ target \in Targets(m)
      /\ Kind(target) = "branch" => m.tree[Name(target)] = m.tree[x.branch]
      /\ Kind(target) = "fork" => m.fork[Name(target)].tree = m.tree[x.branch]
      /\ m.tree[x.branch] \in DOMAIN m.initial
  BY SituationRecord, BranchOfModel DEF TargetOf, IsDefined, BranchIsDefined
<1>2. \/ Kind(target) = "sequence" /\ Name(target) \in DOMAIN m.sequence
         /\ target = <<"sequence", Name(target)>>
      \/ Kind(target) = "branch" /\ Name(target) \in DOMAIN m.branch
         /\ Name(target) \in m.named /\ target = <<"branch", Name(target)>>
      \/ Kind(target) = "fork" /\ Name(target) \in DOMAIN m.fork
         /\ target = <<"fork", Name(target)>>
  BY <1>1, TargetOfModel
<1>3. ListOf(m, x) = m.sequence[Name(target)]
  BY DEF ListOf
<1> HIDE DEF target
<1>4. Kind(target) = "sequence" /\ Name(target) \in DOMAIN m.sequence => IsOfModel(m, ListOf(m, x))
  BY <1>3, ListsAreOfModel
<1> QED
  BY <1>1, <1>2, <1>3, <1>4 DEF target

\* The choices on a trail are those of a scenario.
Agrees(c, trail) ==
  \A i \in 1 .. Len(trail) :
    trail[i][1] = "fork" => c.state[<<trail[i][2], trail[i][3]>>] = trail[i][4]

\* A situation that the walk knows: its own event tree is that of the choices that count.
IsProper(m, c, x) ==
  /\ x \in Situations(m)
  /\ x.seen = Met(x.trail)
  /\ \A i \in Current(x.trail) : x.trail[i][2] = m.tree[x.branch]
  /\ Agrees(c, x.trail)

\* The branch that a branch leads to.
LEMMA NamedIsProper ==
  ASSUME NEW m, IsDefined(m), NEW c, NEW x \in Situations(m), Kind(TargetOf(m, x)) = "branch"
  PROVE  LET y == AtTarget(m, c, x)
             z == Named(m, y)
         IN  /\ z \in Situations(m) /\ z.branch = Name(TargetOf(m, x)) /\ z.trail = x.trail
             /\ z.seen = x.seen /\ m.tree[z.branch] = m.tree[x.branch]
             /\ z = [branch |-> z.branch, seen |-> y.seen, houses |-> y.houses,
                     formulas |-> y.formulas, expressions |-> y.expressions, trail |-> y.trail]
             /\ IsProper(m, c, x) => IsProper(m, c, z)
<1> DEFINE y == AtTarget(m, c, x)
           b == Name(TargetOf(m, x))
           z == Named(m, y)
<1>1. /\ y \in Situations(m) /\ TargetOf(m, y) = TargetOf(m, x)
      /\ y.branch = x.branch /\ y.seen = x.seen /\ y.trail = x.trail
  BY AtTargetIsSituation
<1>2. b \in DOMAIN m.branch /\ m.tree[b] = m.tree[x.branch]
  BY TargetOfSituation
<1>3. z = [y EXCEPT !.branch = b]
  BY <1>1 DEF Named
<1> HIDE DEF y, z, b
<1>4. /\ z = [branch |-> b, seen |-> y.seen, houses |-> y.houses,
              formulas |-> y.formulas, expressions |-> y.expressions, trail |-> y.trail]
      /\ z \in Situations(m)
  BY <1>1, <1>2, <1>3 DEF Situations
<1>5. z.branch = b /\ z.seen = x.seen /\ z.trail = x.trail
  BY <1>1, <1>4
<1>6. IsProper(m, c, x) => IsProper(m, c, z)
  BY <1>2, <1>4, <1>5 DEF IsProper
<1>7. z = [branch |-> z.branch, seen |-> y.seen, houses |-> y.houses,
           formulas |-> y.formulas, expressions |-> y.expressions, trail |-> y.trail]
  BY <1>4, <1>5
<1> QED
  BY <1>2, <1>4, <1>5, <1>6, <1>7 DEF y, z, b

\* The branch on a path of a fork.
LEMMA OnPathIsProper ==
  ASSUME NEW m, IsDefined(m), NEW c, NEW x \in Situations(m),
         Kind(TargetOf(m, x)) = "fork", NEW f, f = Name(TargetOf(m, x)), NEW path \in Paths(m, f)
  PROVE  LET y == AtTarget(m, c, x)
             z == OnPath(m, y, f, path)
         IN  /\ z \in Situations(m)
             /\ z = [branch |-> path[2], seen |-> y.seen \cup {m.fork[f].event},
                     houses |-> y.houses, formulas |-> y.formulas,
                     expressions |-> y.expressions,
                     trail |-> Append(y.trail, ForkItem(m, f, path[1]))]
             /\ IsProper(m, c, x) /\ path \in PathsIn(m, c, f) => IsProper(m, c, z)
<1> DEFINE y == AtTarget(m, c, x)
           z == OnPath(m, y, f, path)
           item == ForkItem(m, f, path[1])
           chosen == Append(x.trail, item)
<1>1. /\ y \in Situations(m) /\ TargetOf(m, y) = TargetOf(m, x)
      /\ y.branch = x.branch /\ y.seen = x.seen /\ y.trail = x.trail
  BY AtTargetIsSituation
<1>2. /\ f \in DOMAIN m.fork /\ m.fork[f].tree = m.tree[x.branch]
      /\ m.fork[f].tree \in DOMAIN m.initial
  BY TargetOfSituation
<1>3. path[2] \in DOMAIN m.branch /\ m.tree[path[2]] = m.fork[f].tree
  BY <1>2, ForkOfModel
<1>4. m.fork[f].event \in EventsOf(m) /\ path[1] \in StatesOf(m)
  BY <1>2 DEF EventsOf, StatesOf
<1>5. item \in TrailItems(m)
  BY <1>2, <1>4 DEF TrailItems, ForkItem
<1>6. /\ Current(chosen) = Current(x.trail) \cup {Len(x.trail) + 1}
      /\ Len(x.trail) \in Nat /\ Current(x.trail) \subseteq 1 .. Len(x.trail)
      /\ \A i \in Current(x.trail) : chosen[i] = x.trail[i]
      /\ chosen[Len(x.trail) + 1] = item
  BY SituationRecord, ListElements, MetAfterChoice DEF ForkItem
<1>7. /\ Len(chosen) = Len(x.trail) + 1 /\ \A i \in 1 .. Len(x.trail) : chosen[i] = x.trail[i]
      /\ chosen \in Seq(TrailItems(m))
  <2> HIDE DEF item
  <2> QED BY <1>5, SituationRecord
<1>8. /\ item[1] = "fork" /\ item[2] = m.fork[f].tree /\ item[3] = m.fork[f].event
      /\ item[4] = path[1]
  BY DEF ForkItem
<1>9. z = [y EXCEPT !.branch = path[2], !.seen = @ \cup {m.fork[f].event}, !.trail = Append(@, item)]
  BY DEF OnPath, ForkItem
<1> HIDE DEF y, z, item
<1>10. z = [branch |-> path[2], seen |-> y.seen \cup {m.fork[f].event}, houses |-> y.houses,
            formulas |-> y.formulas, expressions |-> y.expressions, trail |-> Append(y.trail, item)]
  BY <1>1, <1>9 DEF Situations
<1>11. y.seen \cup {m.fork[f].event} \in SUBSET EventsOf(m)
  BY <1>1, <1>4 DEF Situations
<1>12. z \in Situations(m)
  BY <1>1, <1>3, <1>7, <1>10, <1>11, NextSituation
<1>13. z.branch = path[2] /\ z.trail = chosen /\ z.seen = x.seen \cup {m.fork[f].event}
  BY <1>1, <1>10
<1>14. ASSUME IsProper(m, c, x), path \in PathsIn(m, c, f) PROVE IsProper(m, c, z)
  <2> HIDE DEF chosen
  <2>1. z.seen = Met(z.trail)
    <3>1. {chosen[i][3] : i \in Current(chosen)}
            = {x.trail[i][3] : i \in Current(x.trail)} \cup {m.fork[f].event}
      BY <1>6, <1>8
    <3> QED
      BY <1>13, <1>14, <3>1 DEF Met, IsProper
  <2>2. \A i \in Current(z.trail) : z.trail[i][2] = m.tree[z.branch]
    BY <1>2, <1>3, <1>6, <1>8, <1>13, <1>14 DEF IsProper
  <2>3. Agrees(c, chosen)
    <3>1. c.state[<<m.fork[f].tree, m.fork[f].event>>] = path[1]
      BY <1>14 DEF PathsIn
    <3>2. \A i \in 1 .. Len(chosen) : i \in 1 .. Len(x.trail) \/ i = Len(x.trail) + 1
      BY <1>6, <1>7
    <3> QED
      BY <1>6, <1>7, <1>8, <1>14, <3>1, <3>2 DEF Agrees, IsProper
  <2> QED
    BY <1>12, <1>13, <2>1, <2>2, <2>3 DEF IsProper
<1> QED
  BY <1>10, <1>12, <1>14 DEF y, z, item

\* The first branch of an event tree that a sequence links to.
LEMMA AtLinkIsProper ==
  ASSUME NEW m, IsDefined(m), NEW c, NEW x \in Situations(m),
         Kind(TargetOf(m, x)) = "sequence", NEW n \in Links(m, c, x)
  PROVE  LET list == ListOf(m, x)
             y == After(m, c, AtTarget(m, c, x), list)[n - 1]
             z == AtLink(m, y, list[n].tree, Len(list) - n)
         IN  /\ z \in Situations(m)
             /\ z = [branch |-> m.initial[list[n].tree], seen |-> {}, houses |-> y.houses,
                     formulas |-> y.formulas, expressions |-> y.expressions,
                     trail |-> Append(y.trail, <<"link", list[n].tree, Len(list) - n>>)]
             /\ IsProper(m, c, x) => IsProper(m, c, z)
<1> DEFINE list == ListOf(m, x)
           y == After(m, c, AtTarget(m, c, x), list)[n - 1]
           tree == list[n].tree
           left == Len(list) - n
           item == <<"link", tree, left>>
           linked == Append(x.trail, item)
           z == AtLink(m, y, tree, left)
<1>1. IsOfModel(m, list)
  BY TargetOfSituation
<1>2. n \in 1 .. Len(list) /\ list[n].do = "link" /\ Len(list) \in Nat
  BY <1>1 DEF Links, IsOfModel
<1>3. tree \in DOMAIN m.initial /\ left \in Nat /\ n - 1 \in 0 .. Len(list)
  BY <1>1, <1>2 DEF IsOfModel
<1>4. /\ y \in Situations(m)
      /\ y.branch = x.branch /\ y.seen = x.seen /\ y.trail = x.trail
  <2> DEFINE w == AtTarget(m, c, x)
  <2>1. /\ w \in Situations(m) /\ w.branch = x.branch /\ w.seen = x.seen /\ w.trail = x.trail
    BY AtTargetIsSituation
  <2> HIDE DEF w, list
  <2> QED
    BY <1>1, <1>3, <2>1, AfterIsSituation DEF w
<1>5. m.initial[tree] \in DOMAIN m.branch
  BY <1>3 DEF IsDefined
<1>6. item \in TrailItems(m) /\ item[1] = "link"
  BY <1>3 DEF TrailItems
<1>7. Current(linked) = {} /\ linked \in Seq(TrailItems(m))
  <2> HIDE DEF left, tree, list
  <2>1. Current(linked) = {}
    BY SituationRecord, ListElements, MetAfterLink
  <2> HIDE DEF item
  <2> QED
    BY <1>6, <2>1, SituationRecord
<1>8. z = [y EXCEPT !.branch = m.initial[tree], !.seen = {}, !.trail = Append(@, item)]
  BY DEF AtLink
<1> HIDE DEF y, z, item, tree, left
<1>9. z = [branch |-> m.initial[tree], seen |-> {}, houses |-> y.houses,
           formulas |-> y.formulas, expressions |-> y.expressions, trail |-> Append(y.trail, item)]
  BY <1>4, <1>8 DEF Situations
<1>10. z \in Situations(m)
  BY <1>4, <1>5, <1>7, <1>9, NextSituation
<1>11. z.branch = m.initial[tree] /\ z.trail = linked /\ z.seen = {}
  BY <1>4, <1>9
<1>12. ASSUME IsProper(m, c, x) PROVE IsProper(m, c, z)
  <2>1. z.seen = Met(z.trail)
    BY <1>7, <1>11 DEF Met
  <2>2. Agrees(c, linked)
    <3>1. /\ Len(x.trail) \in Nat /\ Len(linked) = Len(x.trail) + 1
          /\ linked[Len(x.trail) + 1] = item /\ \A i \in 1 .. Len(x.trail) : linked[i] = x.trail[i]
      BY SituationRecord, ListElements, AppendToList
    <3>2. \A i \in 1 .. Len(linked) : i \in 1 .. Len(x.trail) \/ i = Len(x.trail) + 1
      BY <3>1
    <3> HIDE DEF linked
    <3> QED
      BY <1>6, <1>12, <3>1, <3>2 DEF Agrees, IsProper
  <2> QED
    BY <1>7, <1>10, <1>11, <2>1, <2>2 DEF IsProper
<1> QED
  BY <1>9, <1>10, <1>12 DEF y, z, item, tree, left

LEMMA FollowingIsSituation ==
  ASSUME NEW m, IsDefined(m), NEW c, NEW x \in Situations(m)
  PROVE  Following(m, c, x) \subseteq Situations(m)
<1> DEFINE y == AtTarget(m, c, x)
           f == Name(TargetOf(m, x))
           list == ListOf(m, x)
           at == Kind(TargetOf(m, x))
<1>1. CASE at = "branch"
  <2>1. Following(m, c, x) = {Named(m, y)}
    BY <1>1 DEF Following
  <2> QED
    BY <1>1, <2>1, NamedIsProper
<1>2. CASE at = "fork"
  <2>1. Following(m, c, x) = {OnPath(m, y, f, path) : path \in PathsIn(m, c, f)}
    BY <1>2 DEF Following
  <2>2. PathsIn(m, c, f) \subseteq Paths(m, f)
    BY DEF PathsIn
  <2>3. \A path \in Paths(m, f) : OnPath(m, y, f, path) \in Situations(m)
    BY <1>2, OnPathIsProper
  <2> HIDE DEF y, f
  <2> QED
    BY <2>1, <2>2, <2>3
<1>3. CASE at = "sequence"
  <2>1. Following(m, c, x)
          = {AtLink(m, After(m, c, y, list)[n - 1], list[n].tree, Len(list) - n) : n \in Links(m, c, x)}
    BY <1>3 DEF Following
  <2>2. \A n \in Links(m, c, x) :
          AtLink(m, After(m, c, y, list)[n - 1], list[n].tree, Len(list) - n) \in Situations(m)
    BY <1>3, AtLinkIsProper
  <2> HIDE DEF y, list
  <2> QED
    BY <2>1, <2>2
<1> QED
  BY <1>1, <1>2, <1>3, TargetOfSituation

\* The outcomes of a situation are its own end and those of what follows.
LEMMA OutcomesEquation ==
  ASSUME NEW m, IsDefined(m), NEW c
  PROVE  \A x \in Situations(m) :
           OutcomesFrom(m, c)[x]
             = Ends(m, c, x) \cup UNION {OutcomesFrom(m, c)[y] : y \in Following(m, c, x)}
<1> DEFINE S == Situations(m)
           IsClosed(T) == \A x \in T : Following(m, c, x) \subseteq T
           Reached(x) == {y \in S : \A T \in SUBSET S : x \in T /\ IsClosed(T) => y \in T}
           g == [x \in S |-> UNION {Ends(m, c, y) : y \in Reached(x)}]
           f == OutcomesFrom(m, c)
<1>1. \A x \in S : Following(m, c, x) \subseteq S
  BY FollowingIsSituation
<1>2. ASSUME NEW x \in S PROVE x \in Reached(x) /\ IsClosed(Reached(x))
  <2>1. \A z \in Reached(x) : Following(m, c, z) \subseteq Reached(x)
    BY <1>1
  <2> QED BY <2>1
<1>3. ASSUME NEW x \in S, NEW y \in Following(m, c, x) PROVE Reached(y) \subseteq Reached(x)
  <2>1. y \in Reached(x) /\ IsClosed(Reached(x)) /\ Reached(x) \subseteq S
    BY <1>2
  <2> QED
    BY <2>1
<1>4. ASSUME NEW x \in S
      PROVE  Reached(x) \subseteq {x} \cup UNION {Reached(y) : y \in Following(m, c, x)}
  <2> DEFINE T == {x} \cup UNION {Reached(y) : y \in Following(m, c, x)}
  <2>1. T \in SUBSET S /\ x \in T
    OBVIOUS
  <2>2. ASSUME NEW z \in T PROVE Following(m, c, z) \subseteq T
    <3>1. CASE z = x
      BY <1>1, <1>2, <3>1
    <3>2. CASE z # x
      <4>1. PICK y \in Following(m, c, x) : z \in Reached(y)
        BY <3>2
      <4>2. Following(m, c, z) \subseteq Reached(y)
        <5>1. y \in S
          BY <1>1
        <5> QED BY <1>2, <4>1, <5>1
      <4> QED BY <4>1, <4>2
    <3> QED BY <3>1, <3>2
  <2>3. IsClosed(T)
    BY <2>2
  <2> HIDE DEF T
  <2>4. Reached(x) \subseteq T
    BY <2>1, <2>3
  <2> QED
    BY <2>4 DEF T
<1>5. ASSUME NEW x \in S
      PROVE  g[x] = Ends(m, c, x) \cup UNION {g[y] : y \in Following(m, c, x)}
  <2>1. \A y \in Following(m, c, x) : y \in S /\ g[y] = UNION {Ends(m, c, z) : z \in Reached(y)}
    BY <1>1
  <2>2. g[x] = UNION {Ends(m, c, z) : z \in Reached(x)}
    OBVIOUS
  <2>3. x \in Reached(x) /\ \A y \in Following(m, c, x) : Reached(y) \subseteq Reached(x)
    BY <1>2, <1>3
  <2>4. Reached(x) \subseteq {x} \cup UNION {Reached(y) : y \in Following(m, c, x)}
    BY <1>4
  <2> HIDE DEF g, Reached
  <2>5. g[x] \subseteq Ends(m, c, x) \cup UNION {g[y] : y \in Following(m, c, x)}
    BY <2>1, <2>2, <2>4
  <2>6. Ends(m, c, x) \subseteq g[x]
    BY <2>2, <2>3
  <2>7. \A y \in Following(m, c, x) : g[y] \subseteq g[x]
    BY <2>1, <2>2, <2>3
  <2> QED
    BY <2>5, <2>6, <2>7
<1>6. g = [x \in S |-> Ends(m, c, x) \cup UNION {g[y] : y \in Following(m, c, x)}]
  <2>1. g = [x \in S |-> g[x]]
    OBVIOUS
  <2> HIDE DEF g
  <2> QED BY <1>5, <2>1
<1> HIDE DEF g
<1>7. f = [x \in S |-> Ends(m, c, x) \cup UNION {f[y] : y \in Following(m, c, x)}]
  BY <1>6 DEF OutcomesFrom
<1> HIDE DEF f
<1>8. \A x \in S : f[x] = Ends(m, c, x) \cup UNION {f[y] : y \in Following(m, c, x)}
  BY <1>7
<1> QED
  BY <1>8 DEF f

-----------------------------------------------------------------------------
\* What a step does to the stack.

LEMMA ReplacedTop ==
  ASSUME NEW frames, IsList(frames), frames # <<>>, NEW frame
  PROVE  LET n == Len(frames)
             all == Append(SubSeq(frames, 1, n - 1), frame)
         IN  /\ n \in Nat \ {0} /\ IsList(all) /\ Len(all) = n /\ all[n] = frame
             /\ \A i \in 1 .. n - 1 : all[i] = frames[i]
<1> DEFINE front == SubSeq(frames, 1, Len(frames) - 1)
<1>1. /\ IsList(front) /\ Len(frames) \in Nat \ {0} /\ Len(front) = Len(frames) - 1
      /\ \A i \in 1 .. Len(frames) - 1 : front[i] = frames[i]
  BY FrontOfList
<1> HIDE DEF front
<1>2. /\ IsList(Append(front, frame)) /\ Len(Append(front, frame)) = Len(frames)
      /\ Append(front, frame)[Len(frames)] = frame
      /\ \A i \in 1 .. Len(frames) - 1 : Append(front, frame)[i] = frames[i]
  BY <1>1, AppendToList
<1> QED
  BY <1>1, <1>2 DEF front

IsPushed(all, frames, frame, above) ==
  LET n == Len(frames)
  IN  /\ n \in Nat \ {0} /\ IsList(all) /\ Len(all) = n + 1
      /\ all[n] = frame /\ all[n + 1] = above
      /\ \A i \in 1 .. n - 1 : all[i] = frames[i]

LEMMA PushedTop ==
  ASSUME NEW frames, IsList(frames), frames # <<>>, NEW frame, NEW above
  PROVE  IsPushed(Append(Append(SubSeq(frames, 1, Len(frames) - 1), frame), above),
                  frames, frame, above)
<1> DEFINE below == Append(SubSeq(frames, 1, Len(frames) - 1), frame)
<1>1. /\ Len(frames) \in Nat \ {0} /\ IsList(below) /\ Len(below) = Len(frames)
      /\ below[Len(frames)] = frame /\ \A i \in 1 .. Len(frames) - 1 : below[i] = frames[i]
  BY ReplacedTop
<1> HIDE DEF below
<1>2. /\ IsList(Append(below, above)) /\ Len(Append(below, above)) = Len(frames) + 1
      /\ Append(below, above)[Len(frames) + 1] = above
      /\ \A i \in 1 .. Len(frames) : Append(below, above)[i] = below[i]
  BY <1>1, AppendToList
<1>3. Len(frames) \in 1 .. Len(frames) /\ \A i \in 1 .. Len(frames) - 1 : i \in 1 .. Len(frames)
  BY <1>1
<1> QED
  BY <1>1, <1>2, <1>3 DEF below, IsPushed

\* Two frames at the same place, whatever context they have put aside.
SamePlace(frame, other) ==
  /\ frame.at = other.at /\ frame.todo = other.todo /\ frame.path = other.path
  /\ frame.is_linked = other.is_linked

LEMMA PoppedTop ==
  ASSUME NEW frames, IsList(frames), frames # <<>>,
         \A i \in 1 .. Len(frames) : IsFrame(frames[i])
  PROVE  LET n == Len(frames)
             front == SubSeq(frames, 1, n - 1)
             back == IF front = <<>> THEN <<>> ELSE [front EXCEPT ![Len(front)].save = <<>>]
         IN  /\ n \in Nat \ {0} /\ Len(back) = n - 1
             /\ \A i \in 1 .. n - 1 : SamePlace(back[i], frames[i])
<1> DEFINE n == Len(frames)
           front == SubSeq(frames, 1, n - 1)
           back == IF front = <<>> THEN <<>> ELSE [front EXCEPT ![Len(front)].save = <<>>]
<1>1. /\ IsList(front) /\ n \in Nat \ {0} /\ Len(front) = n - 1
      /\ \A i \in 1 .. n - 1 : front[i] = frames[i]
  BY FrontOfList
<1> HIDE DEF front
<1>2. CASE front = <<>>
  <2>1. back = <<>> /\ Len(<<>>) = 0 /\ n - 1 = 0
    BY <1>1, <1>2
  <2> QED
    BY <1>1, <2>1 DEF front
<1>3. CASE front # <<>>
  <2> DEFINE frame == frames[n - 1]
             free == [frame EXCEPT !.save = <<>>]
  <2>1. n - 1 \in 1 .. n - 1 /\ front[n - 1] = frame /\ n - 1 \in 1 .. n
    BY <1>1, <1>3 DEF IsList
  <2>2. back = [front EXCEPT ![n - 1] = free]
    BY <1>1, <1>3, <2>1
  <2>3. IsFrame(frame)
    BY <2>1
  <2> HIDE DEF frame, back
  <2>4. free = [at |-> frame.at, todo |-> frame.todo, path |-> frame.path,
                is_linked |-> frame.is_linked, save |-> <<>>]
    BY <2>3, Z3 DEF IsFrame
  <2> HIDE DEF free
  <2>5. SamePlace(free, frame)
    BY <2>4 DEF SamePlace
  <2>6. front \in Seq(Range(front) \cup {free})
    BY <1>1 DEF IsList
  <2>7. Len(back) = n - 1 /\ back[n - 1] = free
        /\ \A i \in 1 .. n - 2 : back[i] = frames[i]
    BY <1>1, <2>1, <2>2, <2>6
  <2>8. ASSUME NEW i \in 1 .. n - 1 PROVE SamePlace(back[i], frames[i])
    <3>1. i = n - 1 \/ i \in 1 .. n - 2
      BY <1>1
    <3>2. \A f : SamePlace(f, f)
      BY DEF SamePlace
    <3> QED
      BY <2>5, <2>7, <3>1, <3>2 DEF frame
  <2> QED
    BY <1>1, <2>7, <2>8 DEF back, front
<1> QED
  BY <1>2, <1>3

-----------------------------------------------------------------------------
\* What a frame stands for.

\* todo is what is left of a list after n instructions.
IsRest(todo, list, n) ==
  /\ n \in 0 .. Len(list) /\ Len(todo) = Len(list) - n
  /\ \A k \in 1 .. Len(todo) : todo[k] = list[n + k]

\* In scenario c a frame stands for the outcomes that are still to come from it: at a
\* branch for those of a situation at that branch, whose instructions are executed in part;
ExecutesBranch(m, c, frame, x, n) ==
  LET list == m.branch[x.branch].instructions
  IN  /\ IsProper(m, c, x) /\ frame.at = <<"branch", x.branch>>
      /\ IsRest(frame.todo, list, n)
      /\ After(m, c, x, list)[n] = SituationAt(x.branch, frame.path)
StandsAtBranch(m, c, frame, rest) ==
  \E x \in Situations(m), n \in Nat :
    ExecutesBranch(m, c, frame, x, n) /\ rest = OutcomesFrom(m, c)[x]

\* in a sequence for its end, if no link of it applies, and for those of the links left;
LinkedAt(m, c, x, k) ==
  LET list == ListOf(m, x)
  IN  AtLink(m, After(m, c, AtTarget(m, c, x), list)[k - 1], list[k].tree, Len(list) - k)
LinksAfter(m, c, x, n) == {k \in Links(m, c, x) : n < k}
ExecutesSequence(m, c, frame, x, n) ==
  LET list == ListOf(m, x)
  IN  /\ IsProper(m, c, x) /\ frame.at = TargetOf(m, x) /\ Kind(frame.at) = "sequence"
      /\ IsRest(frame.todo, list, n)
      /\ After(m, c, AtTarget(m, c, x), list)[n] = SituationAt(x.branch, frame.path)
      /\ frame.is_linked <=> \E k \in Links(m, c, x) : k <= n
ToCome(m, c, x, n) ==
  Ends(m, c, x) \cup UNION {OutcomesFrom(m, c)[LinkedAt(m, c, x, k)] : k \in LinksAfter(m, c, x, n)}
StandsAtSequence(m, c, frame, rest) ==
  \E x \in Situations(m), n \in Nat :
    ExecutesSequence(m, c, frame, x, n) /\ rest = ToCome(m, c, x, n)

\* at a fork for those of the paths left.
IsAtFork(m, c, frame, x, f) ==
  /\ IsProper(m, c, x) /\ frame.at = TargetOf(m, x) /\ frame.at = <<"fork", f>>
  /\ AtTarget(m, c, x) = SituationAt(x.branch, frame.path)
ToComeOf(m, c, x, f, paths) ==
  UNION {OutcomesFrom(m, c)[OnPath(m, AtTarget(m, c, x), f, path)] :
           path \in PathsIn(m, c, f) \cap paths}
StandsAtFork(m, c, frame, rest) ==
  \E x \in Situations(m), f \in DOMAIN m.fork :
    IsAtFork(m, c, frame, x, f) /\ rest = ToComeOf(m, c, x, f, Range(frame.todo))

\* A frame on another path has nothing to come.
Stands(m, c, frame, rest) ==
  IF Agrees(c, frame.path.trail)
    THEN \/ StandsAtBranch(m, c, frame, rest)
         \/ StandsAtSequence(m, c, frame, rest)
         \/ StandsAtFork(m, c, frame, rest)
    ELSE rest = {}

\* What was found of a scenario.
Found(c, found) ==
  UNION {{<<s, Content(path)>> : path \in {p \in Range(found[s]) : Agrees(c, p.trail)}} :
           s \in DOMAIN found}

\* The outcomes of a scenario are those found and those to come.
CoversWith(m, ie, c, frames, found, rest) ==
  /\ \A i \in 1 .. Len(frames) : Stands(m, c, frames[i], rest[i])
  /\ OutcomesFrom(m, c)[InitialSituation(m, ie)]
       = Found(c, found) \cup UNION {rest[i] : i \in 1 .. Len(frames)}
Covers(m, ie, c, frames, found) == \E rest : CoversWith(m, ie, c, frames, found, rest)

\* What has been to come from a frame is to come from those that replace it.
Splits(m, c, top, frame, above) ==
  \A rest : Stands(m, c, top, rest) =>
    \E r, s : Stands(m, c, frame, r) /\ Stands(m, c, above, s) /\ rest = r \cup s
Settles(m, c, top, found, new) ==
  \A rest : Stands(m, c, top, rest) => Found(c, new) = Found(c, found) \cup rest

LEMMA CoverReplace ==
  ASSUME NEW m, NEW ie, NEW c, NEW found, NEW frames, IsList(frames), frames # <<>>,
         Covers(m, ie, c, frames, found), NEW frame,
         \A rest : Stands(m, c, frames[Len(frames)], rest) => Stands(m, c, frame, rest)
  PROVE  Covers(m, ie, c, Append(SubSeq(frames, 1, Len(frames) - 1), frame), found)
<1> DEFINE n == Len(frames)
           all == Append(SubSeq(frames, 1, n - 1), frame)
<1>1. /\ n \in Nat \ {0} /\ Len(all) = n /\ all[n] = frame
      /\ \A i \in 1 .. n - 1 : all[i] = frames[i]
  BY ReplacedTop
<1> HIDE DEF all
<1>2. PICK rest : CoversWith(m, ie, c, frames, found, rest)
  BY DEF Covers
<1>3. \A i \in 1 .. n : i \in 1 .. n - 1 \/ i = n
  BY <1>1
<1>4. \A i \in 1 .. n : Stands(m, c, all[i], rest[i])
  BY <1>1, <1>2, <1>3 DEF CoversWith
<1>5. CoversWith(m, ie, c, all, found, rest)
  BY <1>1, <1>2, <1>4 DEF CoversWith
<1> QED
  BY <1>5 DEF Covers, all

LEMMA CoverPush ==
  ASSUME NEW m, NEW ie, NEW c, NEW found, NEW frames, IsList(frames), frames # <<>>,
         Covers(m, ie, c, frames, found), NEW frame, NEW above,
         Splits(m, c, frames[Len(frames)], frame, above)
  PROVE  Covers(m, ie, c, Append(Append(SubSeq(frames, 1, Len(frames) - 1), frame), above), found)
<1> DEFINE n == Len(frames)
           all == Append(Append(SubSeq(frames, 1, n - 1), frame), above)
<1>1. /\ n \in Nat \ {0} /\ IsList(all) /\ Len(all) = n + 1
      /\ all[n] = frame /\ all[n + 1] = above
      /\ \A i \in 1 .. n - 1 : all[i] = frames[i]
  <2>1. IsPushed(all, frames, frame, above)
    BY PushedTop
  <2> HIDE DEF all
  <2> QED
    BY <2>1 DEF IsPushed
<1> HIDE DEF all
<1>2. PICK rest : CoversWith(m, ie, c, frames, found, rest)
  BY DEF Covers
<1>3. n \in 1 .. n /\ n \in 1 .. n + 1 /\ n + 1 \in 1 .. n + 1
      /\ (\A i \in 1 .. n : i \in 1 .. n - 1 \/ i = n)
      /\ (\A i \in 1 .. n + 1 :
            (i \in 1 .. n - 1 /\ i \in 1 .. n /\ i # n /\ i # n + 1) \/ i = n \/ i = n + 1)
      /\ (\A i \in 1 .. n - 1 : i \in 1 .. n + 1 /\ i # n /\ i # n + 1) /\ n # n + 1
  BY <1>1
<1>4. PICK r, s : Stands(m, c, frame, r) /\ Stands(m, c, above, s) /\ rest[n] = r \cup s
  BY <1>2, <1>3 DEF Splits, CoversWith
<1> DEFINE new == [i \in 1 .. n + 1 |-> IF i = n THEN r ELSE IF i = n + 1 THEN s ELSE rest[i]]
<1>5. /\ new[n] = r /\ new[n + 1] = s /\ \A i \in 1 .. n - 1 : new[i] = rest[i]
  BY <1>3
<1> HIDE DEF new
<1>6. \A i \in 1 .. n + 1 : Stands(m, c, all[i], new[i])
  BY <1>1, <1>2, <1>3, <1>4, <1>5 DEF CoversWith
<1>7. UNION {new[i] : i \in 1 .. n + 1} = UNION {rest[i] : i \in 1 .. n}
  <2> HIDE DEF n
  <2>1. ASSUME NEW o, NEW i \in 1 .. n + 1, o \in new[i] PROVE \E j \in 1 .. n : o \in rest[j]
    BY <1>3, <1>4, <1>5, <2>1
  <2>2. ASSUME NEW o, NEW i \in 1 .. n, o \in rest[i] PROVE \E j \in 1 .. n + 1 : o \in new[j]
    <3>1. CASE i = n
      BY <1>3, <1>4, <1>5, <2>2, <3>1
    <3>2. CASE i # n
      BY <1>3, <1>5, <2>2, <3>2
    <3> QED BY <3>1, <3>2
  <2> QED BY <2>1, <2>2
<1>8. CoversWith(m, ie, c, all, found, new)
  BY <1>1, <1>2, <1>6, <1>7 DEF CoversWith
<1>9. Covers(m, ie, c, all, found)
  BY <1>8 DEF Covers
<1> QED
  BY <1>9 DEF all

LEMMA CoverPop ==
  ASSUME NEW m, NEW ie, NEW c, NEW found, NEW frames, IsList(frames), frames # <<>>,
         \A i \in 1 .. Len(frames) : IsFrame(frames[i]),
         Covers(m, ie, c, frames, found), NEW new,
         Settles(m, c, frames[Len(frames)], found, new)
  PROVE  LET front == SubSeq(frames, 1, Len(frames) - 1)
             back == IF front = <<>> THEN <<>> ELSE [front EXCEPT ![Len(front)].save = <<>>]
         IN  Covers(m, ie, c, back, new)
<1> DEFINE n == Len(frames)
           front == SubSeq(frames, 1, n - 1)
           back == IF front = <<>> THEN <<>> ELSE [front EXCEPT ![Len(front)].save = <<>>]
<1>1. /\ n \in Nat \ {0} /\ Len(back) = n - 1
      /\ \A i \in 1 .. n - 1 : SamePlace(back[i], frames[i])
  BY PoppedTop
<1> HIDE DEF back
<1>2. PICK rest : CoversWith(m, ie, c, frames, found, rest)
  BY DEF Covers
<1>3. n \in 1 .. n /\ (\A i \in 1 .. n : i \in 1 .. n - 1 \/ i = n) /\ \A i \in 1 .. n - 1 : i \in 1 .. n
  BY <1>1
<1>4. Found(c, new) = Found(c, found) \cup rest[n]
  BY <1>2, <1>3 DEF Settles, CoversWith
<1>5. \A i \in 1 .. n - 1 : Stands(m, c, back[i], rest[i])
  <2>1. \A i \in 1 .. n - 1 : Stands(m, c, frames[i], rest[i])
    BY <1>2, <1>3 DEF CoversWith
  <2>2. ASSUME NEW frame, NEW other, NEW r, SamePlace(frame, other), Stands(m, c, other, r)
        PROVE  Stands(m, c, frame, r)
    BY <2>2 DEF SamePlace, Stands, StandsAtBranch, StandsAtSequence, StandsAtFork,
                ExecutesBranch, ExecutesSequence, IsAtFork
  <2> QED BY <1>1, <2>1, <2>2
<1>6. UNION {rest[i] : i \in 1 .. n} = rest[n] \cup UNION {rest[i] : i \in 1 .. n - 1}
  <2> HIDE DEF n
  <2> QED BY <1>3
<1>7. CoversWith(m, ie, c, back, new, rest)
  BY <1>1, <1>2, <1>4, <1>5, <1>6 DEF CoversWith
<1>8. Covers(m, ie, c, back, new)
  BY <1>7 DEF Covers
<1> QED
  BY <1>8 DEF back

-----------------------------------------------------------------------------
\* Instructions of a frame that stands for outcomes.

LEMMA RestStep ==
  ASSUME NEW m, NEW c, NEW x, NEW list, Len(list) \in Nat,
         NEW S, NEW todo \in Seq(S), todo # <<>>, NEW n, IsRest(todo, list, n)
  PROVE  /\ n \in Nat /\ n + 1 \in 1 .. Len(list) /\ list[n + 1] = Head(todo)
         /\ IsRest(Tail(todo), list, n + 1) /\ Len(todo) - 1 = Len(list) - (n + 1)
         /\ After(m, c, x, list)[n + 1]
              = IF Applies(m, c, x, Head(todo))
                  THEN Obeyed(After(m, c, x, list)[n], Head(todo))
                  ELSE After(m, c, x, list)[n]
<1> DEFINE after == After(m, c, x, list)
<1>1. /\ n \in Nat /\ n + 1 \in 1 .. Len(list) /\ list[n + 1] = Head(todo)
      /\ Len(todo) - 1 = Len(list) - (n + 1)
  BY DEF IsRest
<1>2. IsRest(Tail(todo), list, n + 1)
  <2>1. /\ Len(Tail(todo)) = Len(todo) - 1 /\ Len(todo) \in Nat
        /\ \A k \in 1 .. Len(todo) - 1 : Tail(todo)[k] = todo[k + 1]
    OBVIOUS
  <2>2. ASSUME NEW k \in 1 .. Len(todo) - 1 PROVE Tail(todo)[k] = list[n + 1 + k]
    <3>1. k + 1 \in 1 .. Len(todo) /\ n + (k + 1) = n + 1 + k
      BY <1>1, <2>1
    <3>2. todo[k + 1] = list[n + (k + 1)]
      BY <3>1 DEF IsRest
    <3> QED BY <2>1, <3>1, <3>2
  <2> QED
    BY <1>1, <2>1, <2>2 DEF IsRest
<1>3. \A k \in 1 .. Len(list) :
        after[k] = IF Applies(m, c, x, list[k]) THEN Obeyed(after[k - 1], list[k])
                   ELSE after[k - 1]
  BY AfterEquation
<1> HIDE DEF after
<1>4. after[n + 1] = IF Applies(m, c, x, Head(todo)) THEN Obeyed(after[n], Head(todo))
                     ELSE after[n]
  <2>1. n + 1 - 1 = n
    BY <1>1
  <2> QED BY <1>1, <1>3, <2>1
<1> QED
  BY <1>1, <1>2, <1>4 DEF after

\* A path collects what a situation does.
IsPath(path) ==
  path = [formulas |-> path.formulas, expressions |-> path.expressions,
          set_instructions |-> path.set_instructions, trail |-> path.trail]
LEMMA ObeyedAt ==
  ASSUME NEW b, NEW path, IsPath(path), NEW i, i.do \in {"set", "formula", "expression"}
  PROVE  Obeyed(SituationAt(b, path), i) = SituationAt(b, Collected(path, i))
<1>1. CASE i.do = "set"
  <2> DEFINE new == [h \in DOMAIN path.set_instructions \cup {i.house} |->
                       IF h = i.house THEN i.state ELSE path.set_instructions[h]]
  <2>1. Collected(path, i) = [path EXCEPT !.set_instructions = new]
    BY <1>1 DEF Collected, Overridden
  <2>2. Obeyed(SituationAt(b, path), i) = [SituationAt(b, path) EXCEPT !.houses = new]
    BY <1>1 DEF Obeyed, SituationAt
  <2> HIDE DEF new
  <2>3. Collected(path, i) = [formulas |-> path.formulas, expressions |-> path.expressions,
                              set_instructions |-> new, trail |-> path.trail]
    BY <2>1 DEF IsPath
  <2> QED
    BY <2>2, <2>3 DEF SituationAt
<1>2. CASE i.do = "formula"
  <2> DEFINE new == Append(path.formulas, <<i.formula, path.set_instructions>>)
  <2>1. Collected(path, i) = [path EXCEPT !.formulas = new]
    BY <1>2 DEF Collected
  <2>2. Obeyed(SituationAt(b, path), i) = [SituationAt(b, path) EXCEPT !.formulas = new]
    BY <1>2 DEF Obeyed, SituationAt
  <2> HIDE DEF new
  <2>3. Collected(path, i) = [formulas |-> new, expressions |-> path.expressions,
                              set_instructions |-> path.set_instructions, trail |-> path.trail]
    BY <2>1 DEF IsPath
  <2> QED
    BY <2>2, <2>3 DEF SituationAt
<1>3. CASE i.do = "expression"
  <2> DEFINE new == Append(path.expressions, i.expression)
  <2>1. Collected(path, i) = [path EXCEPT !.expressions = new]
    BY <1>3 DEF Collected
  <2>2. Obeyed(SituationAt(b, path), i) = [SituationAt(b, path) EXCEPT !.expressions = new]
    BY <1>3 DEF Obeyed, SituationAt
  <2> HIDE DEF new
  <2>3. Collected(path, i) = [formulas |-> path.formulas, expressions |-> new,
                              set_instructions |-> path.set_instructions, trail |-> path.trail]
    BY <2>1 DEF IsPath
  <2> QED
    BY <2>2, <2>3 DEF SituationAt
<1> QED
  BY <1>1, <1>2, <1>3

\* In every situation that a path may be in, an instruction applies or does not.
Decides(m, c, trail, i, holds) ==
  \A x : IsProper(m, c, x) /\ x.trail = trail => (Applies(m, c, x, i) <=> holds)

\* The tests of the walk, which read the context, are those of the scenario.
LEMMA HoldsDecides ==
  ASSUME NEW c, c.initiating = initiating_event, NEW trail, IsContextOf(functional_events, trail),
         NEW i
  PROVE  Decides(model, c, trail, i, Holds(i))
<1> SUFFICES ASSUME NEW x, IsProper(model, c, x), x.trail = trail
             PROVE  Applies(model, c, x, i) <=> Holds(i)
  BY DEF Decides
<1>1. DOMAIN functional_events = x.seen
  BY DEF IsContextOf, IsProper, Met
<1>2. ASSUME NEW event \in x.seen
      PROVE  functional_events[event] = c.state[<<model.tree[x.branch], event>>]
  <2>1. PICK k \in Current(trail) : event = trail[k][3]
    BY DEF IsProper, Met
  <2>2. functional_events[event] = trail[k][4] /\ trail[k][2] = model.tree[x.branch]
    BY <2>1 DEF IsContextOf, IsProper
  <2>3. k \in 1 .. Len(trail) /\ trail[k] \in TrailItems(model) /\ trail[k][1] # "link"
    <3>1. k \in 1 .. Len(trail)
      BY <2>1 DEF Current
    <3>2. trail \in Seq(TrailItems(model))
      BY SituationRecord DEF IsProper
    <3>3. trail[k][1] # "link"
      <4>1. k \in Nat
        BY <3>1
      <4> QED
        BY <2>1, <3>1, <4>1 DEF Current
    <3> QED BY <3>1, <3>2, <3>3
  <2>4. trail[k][1] = "fork"
    <3>1. \A item \in TrailItems(model) : item[1] = "fork" \/ item[1] = "link"
      BY DEF TrailItems
    <3> QED BY <2>3, <3>1
  <2> QED
    BY <2>1, <2>2, <2>3, <2>4 DEF Agrees, IsProper
<1>3. ASSUME NEW test PROVE True(model, c, x, test) = Outcome(test)
  <2>1. CASE test[1] = "initiating"
    BY <2>1 DEF True, Outcome
  <2>2. CASE test[1] # "initiating" /\ test[2] \in x.seen
    BY <1>1, <1>2, <2>2 DEF True, Outcome
  <2>3. CASE test[1] # "initiating" /\ test[2] \notin x.seen
    BY <1>1, <2>3 DEF True, Outcome
  <2> QED
    BY <2>1, <2>2, <2>3
<1> QED
  BY <1>3 DEF Applies, Holds

\* The trail of a frame is that of its situation, and its list is one of the model.
LEMMA TrailAtBranch ==
  ASSUME NEW m, IsDefined(m), NEW c, NEW frame, NEW x \in Situations(m), NEW n,
         ExecutesBranch(m, c, frame, x, n)
  PROVE  IsOfModel(m, m.branch[x.branch].instructions) /\ frame.path.trail = x.trail
<1> DEFINE list == m.branch[x.branch].instructions
<1>1. IsOfModel(m, list)
  BY SituationRecord, ListsAreOfModel
<1>2. n \in 0 .. Len(list) /\ After(m, c, x, list)[n] = SituationAt(x.branch, frame.path)
  BY DEF IsRest, ExecutesBranch
<1> HIDE DEF list
<1>3. After(m, c, x, list)[n].trail = x.trail
  BY <1>1, <1>2, AfterIsSituation
<1>4. SituationAt(x.branch, frame.path).trail = frame.path.trail
  BY DEF SituationAt
<1> QED
  BY <1>1, <1>2, <1>3, <1>4 DEF list

LEMMA TrailAtSequence ==
  ASSUME NEW m, IsDefined(m), NEW c, NEW frame, NEW x \in Situations(m), NEW n,
         ExecutesSequence(m, c, frame, x, n)
  PROVE  IsOfModel(m, ListOf(m, x)) /\ frame.path.trail = x.trail
<1> DEFINE list == ListOf(m, x)
           y == AtTarget(m, c, x)
<1>1. IsOfModel(m, list)
  <2>1. Kind(TargetOf(m, x)) = "sequence"
    BY DEF ExecutesSequence
  <2> QED BY <2>1, TargetOfSituation
<1>2. n \in 0 .. Len(list) /\ After(m, c, y, list)[n] = SituationAt(x.branch, frame.path)
  BY DEF IsRest, ExecutesSequence
<1>3. y \in Situations(m) /\ y.trail = x.trail
  BY AtTargetIsSituation
<1> HIDE DEF y, list
<1>4. After(m, c, y, list)[n].trail = x.trail
  BY <1>1, <1>2, <1>3, AfterIsSituation
<1>5. SituationAt(x.branch, frame.path).trail = frame.path.trail
  BY DEF SituationAt
<1> QED
  BY <1>1, <1>2, <1>4, <1>5 DEF list

\* A trail agrees with a scenario if it does so item by item.
LEMMA AgreesWith ==
  ASSUME NEW c, NEW trail, IsList(trail), NEW item
  PROVE  Agrees(c, Append(trail, item)) <=>
           /\ Agrees(c, trail)
           /\ item[1] = "fork" => c.state[<<item[2], item[3]>>] = item[4]
<1> DEFINE longer == Append(trail, item)
           n == Len(trail)
<1>1. /\ n \in Nat /\ Len(longer) = n + 1 /\ longer[n + 1] = item
      /\ \A i \in 1 .. n : longer[i] = trail[i]
  BY AppendToList
<1>2. /\ \A i \in 1 .. n + 1 : i \in 1 .. n \/ i = n + 1
      /\ n + 1 \in 1 .. n + 1 /\ \A i \in 1 .. n : i \in 1 .. n + 1
  BY <1>1
<1> HIDE DEF longer, n
<1>3. Agrees(c, longer) <=> \A i \in 1 .. n + 1 :
        longer[i][1] = "fork" => c.state[<<longer[i][2], longer[i][3]>>] = longer[i][4]
  BY <1>1 DEF Agrees
<1>4. Agrees(c, trail) <=> \A i \in 1 .. n :
        trail[i][1] = "fork" => c.state[<<trail[i][2], trail[i][3]>>] = trail[i][4]
  BY DEF Agrees, n
<1>5. Agrees(c, longer) <=> /\ Agrees(c, trail)
                            /\ item[1] = "fork" => c.state[<<item[2], item[3]>>] = item[4]
  BY <1>1, <1>2, <1>3, <1>4
<1> QED
  BY <1>5 DEF longer

\* A frame at the beginning of a branch stands for the outcomes of its situation.
LEMMA StandsAtFirst ==
  ASSUME NEW m, IsDefined(m), NEW c, NEW z, IsProper(m, c, z), NEW frame,
         frame.at = <<"branch", z.branch>>, frame.todo = m.branch[z.branch].instructions,
         z = SituationAt(z.branch, frame.path)
  PROVE  Stands(m, c, frame, OutcomesFrom(m, c)[z])
<1> DEFINE list == m.branch[z.branch].instructions
<1>1. z \in Situations(m) /\ Agrees(c, z.trail)
  BY DEF IsProper
<1>2. Len(list) \in Nat
  BY <1>1, SituationRecord, ListsAreOfModel DEF IsOfModel
<1>3. IsRest(frame.todo, list, 0)
  BY <1>2 DEF IsRest
<1> HIDE DEF list
<1>4. After(m, c, z, list)[0] = z
  BY <1>2, AfterEquation
<1>5. ExecutesBranch(m, c, frame, z, 0)
  BY <1>3, <1>4 DEF ExecutesBranch, list
<1>6. frame.path.trail = z.trail
  BY DEF SituationAt
<1> QED
  BY <1>1, <1>5, <1>6 DEF Stands, StandsAtBranch

\* A frame that has passed over or executed its next instruction, which is no link.
IsExecuted(frame, next, i, holds) ==
  /\ next.at = frame.at /\ next.todo = Tail(frame.todo)
  /\ next.is_linked = frame.is_linked /\ next.path.trail = frame.path.trail
  /\ next.path = IF holds THEN Collected(frame.path, i) ELSE frame.path

LEMMA StandsExecuted ==
  ASSUME NEW m, IsDefined(m), NEW c, NEW frame, NEW S, frame.todo \in Seq(S), frame.todo # <<>>,
         frame.at[1] # "fork", IsPath(frame.path),
         NEW i, i = Head(frame.todo), NEW holds \in BOOLEAN,
         Decides(m, c, frame.path.trail, i, holds),
         holds => i.do \in {"set", "formula", "expression"},
         NEW next, IsExecuted(frame, next, i, holds)
  PROVE  \A rest : Stands(m, c, frame, rest) => Stands(m, c, next, rest)
<1> SUFFICES ASSUME NEW rest, Stands(m, c, frame, rest) PROVE Stands(m, c, next, rest)
  OBVIOUS
<1>0. next.path.trail = frame.path.trail
  BY DEF IsExecuted
<1>1. CASE ~Agrees(c, frame.path.trail)
  BY <1>0, <1>1 DEF Stands
<1>2. CASE Agrees(c, frame.path.trail) /\ StandsAtBranch(m, c, frame, rest)
  <2>1. PICK x \in Situations(m), n \in Nat :
          ExecutesBranch(m, c, frame, x, n) /\ rest = OutcomesFrom(m, c)[x]
    BY <1>2 DEF StandsAtBranch
  <2> DEFINE list == m.branch[x.branch].instructions
  <2>2. IsOfModel(m, list) /\ frame.path.trail = x.trail
    BY <2>1, TrailAtBranch
  <2>3. /\ IsProper(m, c, x) /\ frame.at = <<"branch", x.branch>> /\ IsRest(frame.todo, list, n)
        /\ After(m, c, x, list)[n] = SituationAt(x.branch, frame.path)
    BY <2>1 DEF ExecutesBranch
  <2>4. Applies(m, c, x, i) <=> holds
    BY <2>2, <2>3 DEF Decides
  <2> HIDE DEF list
  <2>5. /\ IsRest(Tail(frame.todo), list, n + 1)
        /\ After(m, c, x, list)[n + 1]
             = IF Applies(m, c, x, i) THEN Obeyed(After(m, c, x, list)[n], i)
               ELSE After(m, c, x, list)[n]
    <3> DEFINE todo == frame.todo
               after == After(m, c, x, list)
    <3>1. /\ Len(list) \in Nat /\ todo \in Seq(S) /\ todo # <<>> /\ IsRest(todo, list, n)
          /\ i = Head(todo)
      BY <2>2, <2>3 DEF IsOfModel
    <3> HIDE DEF todo
    <3>2. /\ n + 1 \in 1 .. Len(list) /\ list[n + 1] = Head(todo)
          /\ IsRest(Tail(todo), list, n + 1)
          /\ after[n + 1] = IF Applies(m, c, x, Head(todo)) THEN Obeyed(after[n], Head(todo))
                            ELSE after[n]
      BY <3>1, RestStep
    <3> QED BY <3>1, <3>2 DEF todo
  <2>6. After(m, c, x, list)[n + 1] = SituationAt(x.branch, next.path)
    BY <2>3, <2>4, <2>5, ObeyedAt DEF IsExecuted
  <2>7. n + 1 \in Nat /\ ExecutesBranch(m, c, next, x, n + 1)
    BY <2>3, <2>5, <2>6 DEF ExecutesBranch, IsExecuted, list
  <2>8. StandsAtBranch(m, c, next, rest)
    BY <2>1, <2>7 DEF StandsAtBranch
  <2> QED
    BY <1>0, <1>2, <2>8 DEF Stands
<1>3. CASE Agrees(c, frame.path.trail) /\ StandsAtSequence(m, c, frame, rest)
  <2>1. PICK x \in Situations(m), n \in Nat :
          ExecutesSequence(m, c, frame, x, n) /\ rest = ToCome(m, c, x, n)
    BY <1>3 DEF StandsAtSequence
  <2> DEFINE list == ListOf(m, x)
             y == AtTarget(m, c, x)
  <2>2. IsOfModel(m, list) /\ frame.path.trail = x.trail
    BY <2>1, TrailAtSequence
  <2>3. /\ IsProper(m, c, x) /\ frame.at = TargetOf(m, x) /\ Kind(frame.at) = "sequence"
        /\ IsRest(frame.todo, list, n)
        /\ After(m, c, y, list)[n] = SituationAt(x.branch, frame.path)
        /\ frame.is_linked <=> \E k \in Links(m, c, x) : k <= n
    BY <2>1 DEF ExecutesSequence
  <2>4. /\ Applies(m, c, y, i) <=> holds
        /\ Applies(m, c, x, i) <=> holds
    BY <2>2, <2>3, AtTargetIsSituation DEF Decides
  <2>5. Links(m, c, x) = {k \in 1 .. Len(list) : list[k].do = "link" /\ Applies(m, c, x, list[k])}
    BY DEF Links
  <2> HIDE DEF list, y
  <2>6. /\ n + 1 \in 1 .. Len(list) /\ list[n + 1] = i
        /\ IsRest(Tail(frame.todo), list, n + 1)
        /\ After(m, c, y, list)[n + 1]
             = IF Applies(m, c, y, i) THEN Obeyed(After(m, c, y, list)[n], i)
               ELSE After(m, c, y, list)[n]
    <3> DEFINE todo == frame.todo
               after == After(m, c, y, list)
    <3>1. /\ Len(list) \in Nat /\ todo \in Seq(S) /\ todo # <<>> /\ IsRest(todo, list, n)
          /\ i = Head(todo)
      BY <2>2, <2>3 DEF IsOfModel
    <3> HIDE DEF todo
    <3>2. /\ n + 1 \in 1 .. Len(list) /\ list[n + 1] = Head(todo)
          /\ IsRest(Tail(todo), list, n + 1)
          /\ after[n + 1] = IF Applies(m, c, y, Head(todo)) THEN Obeyed(after[n], Head(todo))
                            ELSE after[n]
      BY <3>1, RestStep
    <3> QED BY <3>1, <3>2 DEF todo
  <2>7. After(m, c, y, list)[n + 1] = SituationAt(x.branch, next.path)
    BY <2>3, <2>4, <2>6, ObeyedAt DEF IsExecuted
  <2>8. n + 1 \notin Links(m, c, x)
    BY <2>4, <2>5, <2>6
  <2>9. \A k \in Links(m, c, x) : k \in Nat
    BY <2>2, <2>5 DEF IsOfModel
  <2>10. \A k \in Links(m, c, x) : (k <= n <=> k <= n + 1) /\ (n < k <=> n + 1 < k)
    BY <2>8, <2>9
  <2>11. LinksAfter(m, c, x, n + 1) = LinksAfter(m, c, x, n)
    BY <2>10 DEF LinksAfter
  <2>12. next.is_linked <=> \E k \in Links(m, c, x) : k <= n + 1
    BY <2>3, <2>10 DEF IsExecuted
  <2>13. n + 1 \in Nat /\ ExecutesSequence(m, c, next, x, n + 1)
    BY <2>3, <2>6, <2>7, <2>12 DEF ExecutesSequence, IsExecuted, list, y
  <2>14. rest = ToCome(m, c, x, n + 1)
    BY <2>1, <2>11 DEF ToCome
  <2>15. StandsAtSequence(m, c, next, rest)
    BY <2>13, <2>14 DEF StandsAtSequence
  <2> QED
    BY <1>0, <1>3, <2>15 DEF Stands
<1>4. CASE Agrees(c, frame.path.trail) /\ StandsAtFork(m, c, frame, rest)
  <2>1. \A f : <<"fork", f>>[1] = "fork"
    OBVIOUS
  <2> QED
    BY <1>4, <2>1 DEF StandsAtFork, IsAtFork
<1> QED
  BY <1>1, <1>2, <1>3, <1>4 DEF Stands

\* A frame at a link has split: what is to come of the link comes from the frame above.
IsAtLink(m, frame, next, above, i) ==
  /\ next.at = frame.at /\ next.todo = Tail(frame.todo) /\ next.is_linked = TRUE
  /\ next.path = frame.path
  /\ above.at = <<"branch", m.initial[i.tree]>>
  /\ above.todo = m.branch[m.initial[i.tree]].instructions
  /\ above.path = Relinked(frame.path, i.tree, Len(frame.todo) - 1)

\* A path that has collected what another has, and has a trail of its own.
HasTrail(new, path, trail) ==
  /\ new.trail = trail
  /\ new.formulas = path.formulas /\ new.expressions = path.expressions
  /\ new.set_instructions = path.set_instructions

LEMMA RelinkedPath ==
  ASSUME NEW path, IsPath(path), NEW tree, NEW left
  PROVE  HasTrail(Relinked(path, tree, left), path, Append(path.trail, <<"link", tree, left>>))
<1> DEFINE item == <<"link", tree, left>>
           new == Relinked(path, tree, left)
<1>1. new = [path EXCEPT !.trail = Append(@, item)]
  BY DEF Relinked
<1> HIDE DEF new, item
<1>2. /\ new.trail = Append(path.trail, item)
      /\ new.formulas = path.formulas /\ new.expressions = path.expressions
      /\ new.set_instructions = path.set_instructions
  BY <1>1 DEF IsPath
<1> QED
  BY <1>2 DEF new, item, HasTrail

LEMMA NothingMetAfterLink ==
  ASSUME NEW trail, IsList(trail), NEW tree, NEW left
  PROVE  Met(Append(trail, <<"link", tree, left>>)) = {}
<1>1. Current(Append(trail, <<"link", tree, left>>)) = {}
  BY MetAfterLink
<1> QED
  BY <1>1 DEF Met

LEMMA RelinkedAgrees ==
  ASSUME NEW path, IsPath(path), IsList(path.trail), NEW tree, NEW left, NEW c
  PROVE  Agrees(c, Relinked(path, tree, left).trail) <=> Agrees(c, path.trail)
<1> DEFINE item == <<"link", tree, left>>
           trail == path.trail
           longer == Relinked(path, tree, left).trail
<1>1. item[1] # "fork" /\ IsList(trail)
  OBVIOUS
<1>2. longer = Append(trail, item)
  BY RelinkedPath DEF HasTrail
<1> HIDE DEF item, trail, longer
<1>3. Agrees(c, Append(trail, item)) <=>
        /\ Agrees(c, trail)
        /\ item[1] = "fork" => c.state[<<item[2], item[3]>>] = item[4]
  BY <1>1, AgreesWith
<1> QED
  BY <1>1, <1>2, <1>3 DEF trail, longer

\* Where a link leads to.
FirstOfLink(m, w, tree, left) ==
  [branch |-> m.initial[tree], seen |-> {}, houses |-> w.houses, formulas |-> w.formulas,
   expressions |-> w.expressions, trail |-> Append(w.trail, <<"link", tree, left>>)]
LEMMA LinkedAtIsProper ==
  ASSUME NEW m, IsDefined(m), NEW c, NEW x, IsProper(m, c, x),
         Kind(TargetOf(m, x)) = "sequence", NEW n \in Links(m, c, x)
  PROVE  LET list == ListOf(m, x)
             w == After(m, c, AtTarget(m, c, x), list)[n - 1]
             z == LinkedAt(m, c, x, n)
         IN  IsProper(m, c, z) /\ z = FirstOfLink(m, w, list[n].tree, Len(list) - n)
<1>1. x \in Situations(m)
  BY DEF IsProper
<1> DEFINE list == ListOf(m, x)
           w == After(m, c, AtTarget(m, c, x), list)[n - 1]
           z == AtLink(m, w, list[n].tree, Len(list) - n)
<1>2. /\ z \in Situations(m)
      /\ z = [branch |-> m.initial[list[n].tree], seen |-> {}, houses |-> w.houses,
              formulas |-> w.formulas, expressions |-> w.expressions,
              trail |-> Append(w.trail, <<"link", list[n].tree, Len(list) - n>>)]
      /\ IsProper(m, c, x) => IsProper(m, c, z)
  BY <1>1, AtLinkIsProper
<1>3. z = LinkedAt(m, c, x, n)
  BY DEF LinkedAt
<1> HIDE DEF z, w, list
<1> QED
  BY <1>2, <1>3 DEF FirstOfLink, w, list

LEMMA StandsAtLink ==
  ASSUME NEW m, IsDefined(m), NEW c, NEW frame, NEW S, frame.todo \in Seq(S), frame.todo # <<>>,
         frame.at[1] = "sequence", NEW i, i = Head(frame.todo), i.do = "link",
         Decides(m, c, frame.path.trail, i, TRUE), IsPath(frame.path), IsList(frame.path.trail),
         NEW next, NEW above, IsAtLink(m, frame, next, above, i)
  PROVE  Splits(m, c, frame, next, above)
<1> DEFINE left == Len(frame.todo) - 1
<1>1. /\ above.path.trail = Append(frame.path.trail, <<"link", i.tree, left>>)
      /\ above.path.formulas = frame.path.formulas
      /\ above.path.expressions = frame.path.expressions
      /\ above.path.set_instructions = frame.path.set_instructions
      /\ Met(above.path.trail) = {}
      /\ Agrees(c, above.path.trail) <=> Agrees(c, frame.path.trail)
  <2>1. above.path = Relinked(frame.path, i.tree, left)
    BY DEF IsAtLink
  <2> HIDE DEF left
  <2>2. HasTrail(above.path, frame.path, Append(frame.path.trail, <<"link", i.tree, left>>))
    BY <2>1, RelinkedPath
  <2>4. Met(above.path.trail) = {}
    BY <2>2, NothingMetAfterLink DEF HasTrail
  <2>3. Agrees(c, above.path.trail) <=> Agrees(c, frame.path.trail)
    BY <2>1, RelinkedAgrees
  <2> QED BY <2>2, <2>3, <2>4 DEF HasTrail
<1>2. next.path.trail = frame.path.trail
  BY DEF IsAtLink
<1> SUFFICES ASSUME NEW rest, Stands(m, c, frame, rest)
             PROVE  \E r, s : Stands(m, c, next, r) /\ Stands(m, c, above, s) /\ rest = r \cup s
  BY DEF Splits
<1>3. CASE ~Agrees(c, frame.path.trail)
  <2>1. Stands(m, c, next, {}) /\ Stands(m, c, above, {}) /\ rest = {} \cup {}
    BY <1>1, <1>2, <1>3 DEF Stands
  <2> QED BY <2>1
<1>4. CASE Agrees(c, frame.path.trail) /\ StandsAtSequence(m, c, frame, rest)
  <2>1. PICK x \in Situations(m), n \in Nat :
          ExecutesSequence(m, c, frame, x, n) /\ rest = ToCome(m, c, x, n)
    BY <1>4 DEF StandsAtSequence
  <2> DEFINE list == ListOf(m, x)
             y == AtTarget(m, c, x)
             k == n + 1
             w == After(m, c, y, list)[k - 1]
             z == LinkedAt(m, c, x, k)
  <2>2. IsOfModel(m, list) /\ frame.path.trail = x.trail
    BY <2>1, TrailAtSequence
  <2>3. /\ IsProper(m, c, x) /\ frame.at = TargetOf(m, x) /\ Kind(TargetOf(m, x)) = "sequence"
        /\ IsRest(frame.todo, list, n)
        /\ After(m, c, y, list)[n] = SituationAt(x.branch, frame.path)
    BY <2>1 DEF ExecutesSequence
  <2>4. /\ Applies(m, c, y, i) <=> TRUE
        /\ Applies(m, c, x, i) <=> TRUE
    BY <2>2, <2>3, AtTargetIsSituation DEF Decides
  <2>5. Links(m, c, x) = {l \in 1 .. Len(list) : list[l].do = "link" /\ Applies(m, c, x, list[l])}
    BY DEF Links
  <2> HIDE DEF list, y, z, w, left
  <2>6. /\ n + 1 \in 1 .. Len(list) /\ list[n + 1] = i
        /\ IsRest(Tail(frame.todo), list, n + 1)
        /\ Len(frame.todo) - 1 = Len(list) - (n + 1)
        /\ After(m, c, y, list)[n + 1]
             = IF Applies(m, c, y, i) THEN Obeyed(After(m, c, y, list)[n], i)
               ELSE After(m, c, y, list)[n]
    <3> DEFINE todo == frame.todo
               after == After(m, c, y, list)
    <3>1. /\ Len(list) \in Nat /\ todo \in Seq(S) /\ todo # <<>> /\ IsRest(todo, list, n)
          /\ i = Head(todo)
      BY <2>2, <2>3 DEF IsOfModel
    <3> HIDE DEF k, todo
    <3>2. /\ n + 1 \in 1 .. Len(list) /\ list[n + 1] = Head(todo)
          /\ IsRest(Tail(todo), list, n + 1) /\ Len(todo) - 1 = Len(list) - (n + 1)
          /\ after[n + 1] = IF Applies(m, c, y, Head(todo)) THEN Obeyed(after[n], Head(todo))
                            ELSE after[n]
      BY <3>1, RestStep
    <3> QED BY <3>1, <3>2 DEF todo
  <2>7. /\ k \in 1 .. Len(list) /\ list[k] = i
        /\ IsRest(Tail(frame.todo), list, k) /\ left = Len(list) - k
        /\ After(m, c, y, list)[k]
             = IF Applies(m, c, y, i) THEN Obeyed(After(m, c, y, list)[n], i)
               ELSE After(m, c, y, list)[n]
    BY <2>6 DEF left
  <2>8. After(m, c, y, list)[k] = SituationAt(x.branch, frame.path)
    BY <2>3, <2>4, <2>7 DEF Obeyed
  <2>9. k \in Links(m, c, x) /\ k - 1 = n /\ k \in Nat /\ n < k
    BY <2>4, <2>5, <2>7
  <2>10. \A l \in Links(m, c, x) : l \in Nat
    BY <2>2, <2>5 DEF IsOfModel
  <2>11. LinksAfter(m, c, x, n) = LinksAfter(m, c, x, k) \cup {k}
    <3>1. \A l \in Links(m, c, x) : n < l <=> k < l \/ l = k
      BY <2>10
    <3> HIDE DEF k
    <3> QED BY <2>9, <3>1 DEF LinksAfter
  <2>12. w = SituationAt(x.branch, frame.path)
    BY <2>3, <2>9 DEF w
  <2>13. /\ w.houses = frame.path.set_instructions /\ w.formulas = frame.path.formulas
         /\ w.expressions = frame.path.expressions /\ w.trail = frame.path.trail
    BY <2>12 DEF SituationAt
  <2>14. ExecutesSequence(m, c, next, x, k)
    <3>1. next.is_linked <=> \E l \in Links(m, c, x) : l <= k
      BY <2>9 DEF IsAtLink
    <3> HIDE DEF k
    <3> QED
      BY <2>3, <2>7, <2>8, <3>1 DEF ExecutesSequence, IsAtLink, list, y
  <2> HIDE DEF k, left
  <2>15. rest = ToCome(m, c, x, k) \cup OutcomesFrom(m, c)[z]
    BY <2>1, <2>11 DEF ToCome, z
  <2>16. Stands(m, c, next, ToCome(m, c, x, k))
    BY <1>2, <1>4, <2>9, <2>14 DEF Stands, StandsAtSequence
  <2>17. IsProper(m, c, z) /\ z = FirstOfLink(m, w, list[k].tree, Len(list) - k)
    BY <2>3, <2>9, LinkedAtIsProper DEF w, list, y, z
  <2>18. z = SituationAt(m.initial[i.tree], above.path) /\ z.branch = m.initial[i.tree]
    BY <1>1, <2>7, <2>13, <2>17 DEF SituationAt, FirstOfLink
  <2>19. Stands(m, c, above, OutcomesFrom(m, c)[z])
    BY <2>3, <2>17, <2>18, StandsAtFirst DEF IsAtLink
  <2> QED
    BY <2>15, <2>16, <2>19
<1>5. ~StandsAtBranch(m, c, frame, rest) /\ ~StandsAtFork(m, c, frame, rest)
  <2>1. \A f : <<"fork", f>>[1] # "sequence" /\ <<"branch", f>>[1] # "sequence"
    OBVIOUS
  <2> QED
    BY <2>1 DEF StandsAtFork, StandsAtBranch, ExecutesBranch, IsAtFork
<1> QED
  BY <1>3, <1>4, <1>5 DEF Stands

-----------------------------------------------------------------------------
\* A frame goes on to the target of its branch.

HasArrived(m, c, frame, x) ==
  /\ IsProper(m, c, x) /\ frame.at = <<"branch", x.branch>> /\ frame.path.trail = x.trail
  /\ AtTarget(m, c, x) = SituationAt(x.branch, frame.path)
ArrivesWith(m, c, frame, rest) ==
  \E x \in Situations(m) : HasArrived(m, c, frame, x) /\ rest = OutcomesFrom(m, c)[x]

LEMMA AtArrival ==
  ASSUME NEW m, IsDefined(m), NEW c, NEW frame, frame.at[1] = "branch", frame.todo = <<>>,
         Agrees(c, frame.path.trail), NEW rest, Stands(m, c, frame, rest)
  PROVE  ArrivesWith(m, c, frame, rest)
<1>1. StandsAtBranch(m, c, frame, rest)
  <2>1. \A f : <<"fork", f>>[1] # "branch"
    OBVIOUS
  <2> QED
    BY <2>1 DEF Stands, StandsAtFork, IsAtFork, StandsAtSequence, ExecutesSequence, Kind
<1>2. PICK x \in Situations(m), n \in Nat :
        ExecutesBranch(m, c, frame, x, n) /\ rest = OutcomesFrom(m, c)[x]
  BY <1>1 DEF StandsAtBranch
<1> DEFINE list == m.branch[x.branch].instructions
<1>3. IsOfModel(m, list) /\ frame.path.trail = x.trail
  BY <1>2, TrailAtBranch
<1>4. /\ IsProper(m, c, x) /\ frame.at = <<"branch", x.branch>> /\ IsRest(frame.todo, list, n)
      /\ After(m, c, x, list)[n] = SituationAt(x.branch, frame.path)
  BY <1>2 DEF ExecutesBranch
<1>5. AtTarget(m, c, x) = After(m, c, x, list)[Len(list)]
  BY DEF AtTarget, AfterAll
<1> HIDE DEF list
<1>6. n = Len(list)
  <2>1. Len(<<>>) = 0 /\ Len(list) \in Nat
    BY <1>3 DEF IsOfModel
  <2> QED BY <1>4, <2>1 DEF IsRest
<1>7. HasArrived(m, c, frame, x)
  BY <1>3, <1>4, <1>5, <1>6 DEF HasArrived
<1> QED
  BY <1>2, <1>7 DEF ArrivesWith

LEMMA StandsAtNamed ==
  ASSUME NEW m, IsDefined(m), NEW c, NEW frame, frame.at[1] = "branch", frame.todo = <<>>,
         NEW target, target = m.branch[Name(frame.at)].target, Kind(target) = "branch",
         NEW next, next.at = <<"branch", Name(target)>>, next.path = frame.path,
         next.todo = m.branch[Name(target)].instructions
  PROVE  \A rest : Stands(m, c, frame, rest) => Stands(m, c, next, rest)
<1> SUFFICES ASSUME NEW rest, Stands(m, c, frame, rest) PROVE Stands(m, c, next, rest)
  OBVIOUS
<1>1. CASE ~Agrees(c, frame.path.trail)
  BY <1>1 DEF Stands
<1>2. CASE Agrees(c, frame.path.trail)
  <2>1. PICK x \in Situations(m) : HasArrived(m, c, frame, x) /\ rest = OutcomesFrom(m, c)[x]
    <3>1. ArrivesWith(m, c, frame, rest)
      BY <1>2, AtArrival
    <3> QED BY <3>1 DEF ArrivesWith
  <2> DEFINE y == AtTarget(m, c, x)
             z == Named(m, y)
  <2>2. TargetOf(m, x) = target /\ IsProper(m, c, x)
    BY <2>1 DEF HasArrived, TargetOf, Name
  <2>3. /\ z \in Situations(m) /\ z.branch = Name(TargetOf(m, x)) /\ z.trail = x.trail
        /\ z.seen = x.seen /\ m.tree[z.branch] = m.tree[x.branch]
        /\ z = [branch |-> z.branch, seen |-> y.seen, houses |-> y.houses,
                formulas |-> y.formulas, expressions |-> y.expressions, trail |-> y.trail]
        /\ IsProper(m, c, x) => IsProper(m, c, z)
    BY <2>2, NamedIsProper
  <2>4. Following(m, c, x) = {z} /\ Ends(m, c, x) = {}
    BY <2>2 DEF Following, Ends
  <2>5. y = SituationAt(x.branch, frame.path)
    BY <2>1 DEF HasArrived
  <2> HIDE DEF y, z
  <2>6. z = SituationAt(z.branch, frame.path)
    BY <2>3, <2>5 DEF SituationAt
  <2>7. Stands(m, c, next, OutcomesFrom(m, c)[z])
    BY <2>2, <2>3, <2>6, StandsAtFirst
  <2>8. OutcomesFrom(m, c)[x] = OutcomesFrom(m, c)[z]
    <3> DEFINE F == OutcomesFrom(m, c)
    <3>1. F[x] = Ends(m, c, x) \cup UNION {F[w] : w \in Following(m, c, x)}
      BY OutcomesEquation
    <3> HIDE DEF F
    <3> QED BY <2>4, <3>1 DEF F
  <2> QED
    BY <2>1, <2>7, <2>8
<1> QED
  BY <1>1, <1>2

LEMMA StandsInSequence ==
  ASSUME NEW m, IsDefined(m), NEW c, NEW frame, frame.at[1] = "branch", frame.todo = <<>>,
         NEW target, target = m.branch[Name(frame.at)].target, Kind(target) = "sequence",
         NEW next, next.at = target, next.path = frame.path, next.is_linked = FALSE,
         next.todo = m.sequence[Name(target)]
  PROVE  \A rest : Stands(m, c, frame, rest) => Stands(m, c, next, rest)
<1> SUFFICES ASSUME NEW rest, Stands(m, c, frame, rest) PROVE Stands(m, c, next, rest)
  OBVIOUS
<1>1. CASE ~Agrees(c, frame.path.trail)
  BY <1>1 DEF Stands
<1>2. CASE Agrees(c, frame.path.trail)
  <2>1. PICK x \in Situations(m) : HasArrived(m, c, frame, x) /\ rest = OutcomesFrom(m, c)[x]
    <3>1. ArrivesWith(m, c, frame, rest)
      BY <1>2, AtArrival
    <3> QED BY <3>1 DEF ArrivesWith
  <2> DEFINE y == AtTarget(m, c, x)
             list == ListOf(m, x)
             F == OutcomesFrom(m, c)
  <2>2. TargetOf(m, x) = target /\ IsProper(m, c, x)
    BY <2>1 DEF HasArrived, TargetOf, Name
  <2>3. list = m.sequence[Name(target)] /\ IsOfModel(m, list)
    BY <2>2, TargetOfSituation
  <2>4. Following(m, c, x) = {LinkedAt(m, c, x, k) : k \in Links(m, c, x)}
    BY <2>2 DEF Following, LinkedAt
  <2>5. y = SituationAt(x.branch, frame.path)
    BY <2>1 DEF HasArrived
  <2>6. \A k \in Links(m, c, x) : k \in 1 .. Len(list)
    BY DEF Links
  <2>7. F[x] = Ends(m, c, x) \cup UNION {F[z] : z \in Following(m, c, x)}
    BY OutcomesEquation
  <2> HIDE DEF y, list, F
  <2>8. Len(list) \in Nat
    BY <2>3 DEF IsOfModel
  <2>9. LinksAfter(m, c, x, 0) = Links(m, c, x) /\ ~ \E k \in Links(m, c, x) : k <= 0
    BY <2>6, <2>8 DEF LinksAfter
  <2>10. F[x] = ToCome(m, c, x, 0)
    BY <2>4, <2>7, <2>9 DEF ToCome, F
  <2>11. IsRest(next.todo, list, 0) /\ After(m, c, y, list)[0] = y
    BY <2>3, <2>8, AfterEquation DEF IsRest
  <2>12. ExecutesSequence(m, c, next, x, 0)
    BY <2>2, <2>5, <2>9, <2>11 DEF ExecutesSequence, y, list
  <2>13. StandsAtSequence(m, c, next, rest)
    BY <2>1, <2>10, <2>12 DEF StandsAtSequence, F
  <2> QED
    BY <1>2, <2>13 DEF Stands
<1> QED
  BY <1>1, <1>2

LEMMA StandsAtEnteredFork ==
  ASSUME NEW m, IsDefined(m), NEW c, NEW frame, frame.at[1] = "branch", frame.todo = <<>>,
         NEW target, target = m.branch[Name(frame.at)].target, Kind(target) = "fork",
         NEW next, next.at = target, next.path = frame.path,
         next.todo = m.fork[Name(target)].paths
  PROVE  \A rest : Stands(m, c, frame, rest) => Stands(m, c, next, rest)
<1> SUFFICES ASSUME NEW rest, Stands(m, c, frame, rest) PROVE Stands(m, c, next, rest)
  OBVIOUS
<1>1. CASE ~Agrees(c, frame.path.trail)
  BY <1>1 DEF Stands
<1>2. CASE Agrees(c, frame.path.trail)
  <2>1. PICK x \in Situations(m) : HasArrived(m, c, frame, x) /\ rest = OutcomesFrom(m, c)[x]
    <3>1. ArrivesWith(m, c, frame, rest)
      BY <1>2, AtArrival
    <3> QED BY <3>1 DEF ArrivesWith
  <2> DEFINE y == AtTarget(m, c, x)
             f == Name(target)
             F == OutcomesFrom(m, c)
  <2>2. TargetOf(m, x) = target /\ IsProper(m, c, x)
    BY <2>1 DEF HasArrived, TargetOf, Name
  <2>3. f \in DOMAIN m.fork /\ target = <<"fork", f>>
    BY <2>2, TargetOfSituation
  <2>4. Following(m, c, x) = {OnPath(m, y, f, path) : path \in PathsIn(m, c, f)} /\ Ends(m, c, x) = {}
    BY <2>2 DEF Following, Ends
  <2>5. y = SituationAt(x.branch, frame.path)
    BY <2>1 DEF HasArrived
  <2>6. PathsIn(m, c, f) \cap Range(next.todo) = PathsIn(m, c, f)
    BY DEF PathsIn, Paths
  <2>7. F[x] = Ends(m, c, x) \cup UNION {F[z] : z \in Following(m, c, x)}
    BY OutcomesEquation
  <2> HIDE DEF y, f, F
  <2>8. F[x] = ToComeOf(m, c, x, f, Range(next.todo))
    <3>1. F[x] = UNION {F[OnPath(m, y, f, path)] : path \in PathsIn(m, c, f)}
      BY <2>4, <2>7
    <3>2. ToComeOf(m, c, x, f, Range(next.todo))
            = UNION {F[OnPath(m, y, f, path)] : path \in PathsIn(m, c, f)}
      BY <2>6 DEF ToComeOf, F, y
    <3> QED BY <3>1, <3>2
  <2>9. IsAtFork(m, c, next, x, f)
    BY <2>2, <2>3, <2>5 DEF IsAtFork, y
  <2>10. StandsAtFork(m, c, next, rest)
    BY <2>1, <2>3, <2>8, <2>9 DEF StandsAtFork, F
  <2> QED
    BY <1>2, <2>10 DEF Stands
<1> QED
  BY <1>1, <1>2

-----------------------------------------------------------------------------
\* A fork has split: what is to come of a path comes from the frame above.

LEMMA ChosenPath ==
  ASSUME NEW path, IsPath(path), NEW item, NEW new, new = [path EXCEPT !.trail = Append(@, item)]
  PROVE  HasTrail(new, path, Append(path.trail, item))
<1>1. /\ new.trail = Append(path.trail, item)
      /\ new.formulas = path.formulas /\ new.expressions = path.expressions
      /\ new.set_instructions = path.set_instructions
  BY DEF IsPath
<1> QED
  BY <1>1 DEF HasTrail

\* The situation on a path of a fork.
OnPathFrom(m, y, f, path) ==
  [branch |-> path[2], seen |-> y.seen \cup {m.fork[f].event}, houses |-> y.houses,
   formulas |-> y.formulas, expressions |-> y.expressions,
   trail |-> Append(y.trail, ForkItem(m, f, path[1]))]
LEMMA OnPathOf ==
  ASSUME NEW m, IsDefined(m), NEW c, NEW x, IsProper(m, c, x),
         Kind(TargetOf(m, x)) = "fork", NEW f, f = Name(TargetOf(m, x)),
         NEW path \in PathsIn(m, c, f)
  PROVE  LET y == AtTarget(m, c, x)
             z == OnPath(m, y, f, path)
         IN  IsProper(m, c, z) /\ z = OnPathFrom(m, y, f, path)
<1> DEFINE y == AtTarget(m, c, x)
           z == OnPath(m, y, f, path)
<1>1. x \in Situations(m) /\ path \in Paths(m, f)
  BY DEF IsProper, PathsIn
<1>2. /\ z \in Situations(m)
      /\ z = [branch |-> path[2], seen |-> y.seen \cup {m.fork[f].event},
              houses |-> y.houses, formulas |-> y.formulas, expressions |-> y.expressions,
              trail |-> Append(y.trail, ForkItem(m, f, path[1]))]
      /\ IsProper(m, c, x) /\ path \in PathsIn(m, c, f) => IsProper(m, c, z)
  BY <1>1, OnPathIsProper
<1> HIDE DEF z, y
<1> QED
  BY <1>2 DEF OnPathFrom, y, z

LEMMA RangeOfTail ==
  ASSUME NEW S, NEW todo \in Seq(S), todo # <<>>
  PROVE  Range(todo) = {Head(todo)} \cup Range(Tail(todo)) /\ Head(todo) \in S
<1>1. /\ Len(todo) \in Nat \ {0} /\ Len(Tail(todo)) = Len(todo) - 1
      /\ Head(todo) = todo[1] /\ todo[1] \in S
      /\ \A k \in 1 .. Len(todo) - 1 : Tail(todo)[k] = todo[k + 1]
      /\ DOMAIN todo = 1 .. Len(todo) /\ DOMAIN Tail(todo) = 1 .. Len(todo) - 1
  OBVIOUS
<1> DEFINE n == Len(todo)
           tail == Tail(todo)
<1>2. ASSUME NEW k \in 1 .. n PROVE todo[k] = Head(todo) \/ \E l \in 1 .. n - 1 : todo[k] = tail[l]
  <2>1. CASE k = 1
    BY <1>1, <2>1
  <2>2. CASE k # 1
    <3>1. k - 1 \in 1 .. n - 1 /\ k - 1 + 1 = k
      BY <1>1, <2>2
    <3>2. tail[k - 1] = todo[k - 1 + 1]
      BY <1>1, <3>1
    <3> QED BY <3>1, <3>2
  <2> QED BY <2>1, <2>2
<1>3. ASSUME NEW l \in 1 .. n - 1 PROVE \E k \in 1 .. n : tail[l] = todo[k]
  <2>1. l + 1 \in 1 .. n
    BY <1>1
  <2>2. tail[l] = todo[l + 1]
    BY <1>1
  <2> QED BY <2>1, <2>2
<1>4. 1 \in 1 .. n
  BY <1>1
<1>5. Range(todo) = {todo[k] : k \in 1 .. n} /\ Range(tail) = {tail[k] : k \in 1 .. n - 1}
  BY <1>1 DEF Range
<1> HIDE DEF n, tail
<1>6. Range(todo) = {Head(todo)} \cup Range(tail)
  BY <1>1, <1>2, <1>3, <1>4, <1>5
<1> QED
  BY <1>1, <1>6 DEF tail

IsAtPath(m, frame, next, above, f, taken) ==
  /\ next.at = frame.at /\ next.todo = Tail(frame.todo) /\ next.path = frame.path
  /\ above.at = <<"branch", taken[2]>> /\ above.todo = m.branch[taken[2]].instructions
  /\ HasTrail(above.path, frame.path, Append(frame.path.trail, ForkItem(m, f, taken[1])))

LEMMA StandsAtPath ==
  ASSUME NEW m, IsDefined(m), NEW c, NEW frame, NEW f \in DOMAIN m.fork, frame.at = <<"fork", f>>,
         frame.todo \in Seq(Paths(m, f)), frame.todo # <<>>,
         NEW taken, taken = Head(frame.todo), IsList(frame.path.trail),
         NEW next, NEW above, IsAtPath(m, frame, next, above, f, taken)
  PROVE  Splits(m, c, frame, next, above)
<1> DEFINE item == ForkItem(m, f, taken[1])
           trail == frame.path.trail
<1>1. HasTrail(above.path, frame.path, Append(trail, item)) /\ next.path.trail = trail
  BY DEF IsAtPath
<1>2. /\ item[1] = "fork" /\ item[2] = m.fork[f].tree /\ item[3] = m.fork[f].event
      /\ item[4] = taken[1]
  BY DEF ForkItem
<1>3. Range(frame.todo) = {taken} \cup Range(Tail(frame.todo)) /\ taken \in Paths(m, f)
  <2> DEFINE todo == frame.todo
             S == Paths(m, f)
  <2>1. todo \in Seq(S) /\ todo # <<>>
    OBVIOUS
  <2> HIDE DEF todo, S
  <2>2. Range(todo) = {Head(todo)} \cup Range(Tail(todo)) /\ Head(todo) \in S
    BY <2>1, RangeOfTail
  <2> QED
    BY <2>2 DEF todo, S
<1> HIDE DEF item
<1>4. Agrees(c, above.path.trail) <=>
        Agrees(c, trail) /\ c.state[<<m.fork[f].tree, m.fork[f].event>>] = taken[1]
  <2> HIDE DEF trail
  <2>1. above.path.trail = Append(trail, item) /\ IsList(trail)
    BY <1>1 DEF HasTrail, trail
  <2>2. Agrees(c, Append(trail, item)) <=>
          /\ Agrees(c, trail)
          /\ item[1] = "fork" => c.state[<<item[2], item[3]>>] = item[4]
    BY <2>1, AgreesWith
  <2> QED
    BY <1>2, <2>1, <2>2
<1> SUFFICES ASSUME NEW rest, Stands(m, c, frame, rest)
             PROVE  \E r, s : Stands(m, c, next, r) /\ Stands(m, c, above, s) /\ rest = r \cup s
  BY DEF Splits
<1>5. CASE ~Agrees(c, trail)
  <2>1. Stands(m, c, next, {}) /\ Stands(m, c, above, {}) /\ rest = {} \cup {}
    BY <1>1, <1>4, <1>5 DEF Stands
  <2> QED BY <2>1
<1>6. CASE Agrees(c, trail) /\ StandsAtFork(m, c, frame, rest)
  <2>1. PICK x \in Situations(m), g \in DOMAIN m.fork :
          IsAtFork(m, c, frame, x, g) /\ rest = ToComeOf(m, c, x, g, Range(frame.todo))
    BY <1>6 DEF StandsAtFork
  <2>2. g = f
    BY <2>1 DEF IsAtFork
  <2> DEFINE y == AtTarget(m, c, x)
             F == OutcomesFrom(m, c)
             r == ToComeOf(m, c, x, f, Range(Tail(frame.todo)))
             z == OnPath(m, y, f, taken)
  <2>3. Stands(m, c, next, r)
    <3>1. IsAtFork(m, c, next, x, f) /\ next.todo = Tail(frame.todo)
      BY <2>1, <2>2 DEF IsAtFork, IsAtPath
    <3> QED
      BY <1>1, <1>6, <3>1 DEF Stands, StandsAtFork
  <2>4. /\ IsProper(m, c, x) /\ TargetOf(m, x) = <<"fork", f>>
        /\ y = SituationAt(x.branch, frame.path)
    BY <2>1, <2>2 DEF IsAtFork
  <2>5. CASE taken \in PathsIn(m, c, f)
    <3>1. rest = r \cup F[z]
      <4>1. PathsIn(m, c, f) \cap Range(frame.todo)
              = (PathsIn(m, c, f) \cap Range(Tail(frame.todo))) \cup {taken}
        BY <1>3, <2>5
      <4> QED
        BY <2>1, <2>2, <4>1 DEF ToComeOf
    <3>2. IsProper(m, c, z) /\ z = OnPathFrom(m, y, f, taken)
      <4>1. Kind(TargetOf(m, x)) = "fork" /\ f = Name(TargetOf(m, x))
        BY <2>4 DEF Kind, Name
      <4> HIDE DEF F, r
      <4> QED BY <2>4, <2>5, <4>1, OnPathOf
    <3>3. y.trail = trail /\ y.houses = frame.path.set_instructions
          /\ y.formulas = frame.path.formulas /\ y.expressions = frame.path.expressions
      BY <2>4 DEF SituationAt
    <3> HIDE DEF y, z, F, r
    <3>4. z.branch = taken[2] /\ z.trail = above.path.trail /\ z.houses = above.path.set_instructions
          /\ z.formulas = above.path.formulas /\ z.expressions = above.path.expressions
      BY <1>1, <3>2, <3>3 DEF OnPathFrom, HasTrail, item
    <3>5. z = SituationAt(z.branch, above.path)
      BY <3>2, <3>4, SituationRecord DEF IsProper, SituationAt
    <3>6. Stands(m, c, above, F[z])
      BY <3>2, <3>4, <3>5, StandsAtFirst DEF IsAtPath, F
    <3> QED
      BY <2>3, <3>1, <3>6
  <2>6. CASE taken \notin PathsIn(m, c, f)
    <3>1. PathsIn(m, c, f) \cap Range(frame.todo) = PathsIn(m, c, f) \cap Range(Tail(frame.todo))
      BY <1>3, <2>6
    <3>2. rest = r \cup {}
      BY <2>1, <2>2, <3>1 DEF ToComeOf
    <3>3. Stands(m, c, above, {})
      BY <1>3, <1>4, <2>6 DEF PathsIn, Stands
    <3> QED
      BY <2>3, <3>2, <3>3
  <2> QED
    BY <2>5, <2>6
<1>7. ~StandsAtBranch(m, c, frame, rest) /\ ~StandsAtSequence(m, c, frame, rest)
  <2>1. \A b : <<"branch", b>>[1] # <<"fork", f>>[1]
    OBVIOUS
  <2> QED
    BY <2>1 DEF StandsAtBranch, StandsAtSequence, ExecutesBranch, ExecutesSequence, Kind
<1> QED
  BY <1>5, <1>6, <1>7 DEF Stands

\* A fork without paths left has nothing to come.
LEMMA StandsAtLeftFork ==
  ASSUME NEW m, NEW c, NEW frame, frame.at[1] = "fork", frame.todo = <<>>, NEW found
  PROVE  Settles(m, c, frame, found, found)
<1> SUFFICES ASSUME NEW rest, Stands(m, c, frame, rest)
             PROVE  Found(c, found) = Found(c, found) \cup rest
  BY DEF Settles
<1>1. ~StandsAtBranch(m, c, frame, rest) /\ ~StandsAtSequence(m, c, frame, rest)
  <2>1. \A b : <<"branch", b>>[1] # "fork"
    OBVIOUS
  <2> QED
    BY <2>1 DEF StandsAtBranch, StandsAtSequence, ExecutesBranch, ExecutesSequence, Kind
<1>2. Range(<<>>) = {}
  BY DEF Range
<1>3. StandsAtFork(m, c, frame, rest) => rest = {}
  BY <1>2 DEF StandsAtFork, ToComeOf
<1> QED
  BY <1>1, <1>3 DEF Stands

-----------------------------------------------------------------------------
\* A path ends: what it has collected is found.

\* The paths to sequences with one more.
AddedTo(found, s, path) ==
  [t \in DOMAIN found \cup {s} |->
     IF t = s THEN Append(IF s \in DOMAIN found THEN found[s] ELSE <<>>, path) ELSE found[t]]

IsAdded(new, found, s, path) ==
  /\ DOMAIN new = DOMAIN found \cup {s}
  /\ \A t \in DOMAIN found : t # s => new[t] = found[t]
  /\ new[s] = Append(IF s \in DOMAIN found THEN found[s] ELSE <<>>, path)
  /\ Range(new[s]) = (IF s \in DOMAIN found THEN Range(found[s]) ELSE {}) \cup {path}
  /\ IsList(new[s])

LEMMA AddedPaths ==
  ASSUME NEW found, \A s \in DOMAIN found : IsList(found[s]), NEW s, NEW path
  PROVE  IsAdded(AddedTo(found, s, path), found, s, path)
<1> DEFINE new == AddedTo(found, s, path)
           old == IF s \in DOMAIN found THEN found[s] ELSE <<>>
<1>1. /\ DOMAIN new = DOMAIN found \cup {s}
      /\ \A t \in DOMAIN found : t # s => new[t] = found[t]
      /\ new[s] = Append(old, path)
  BY DEF AddedTo
<1>2. IsList(<<>>) /\ Range(<<>>) = {}
  BY DEF IsList, Range
<1>3. IsList(old) /\ Range(old) = IF s \in DOMAIN found THEN Range(found[s]) ELSE {}
  BY <1>2
<1> HIDE DEF new, old
<1>4. Range(Append(old, path)) = Range(old) \cup {path} /\ IsList(Append(old, path))
  BY <1>3, AppendToList
<1> QED
  BY <1>1, <1>3, <1>4 DEF new, old, IsAdded

LEMMA FoundOne ==
  ASSUME NEW c, NEW found, \A s \in DOMAIN found : IsList(found[s]), NEW s, NEW path
  PROVE  Found(c, AddedTo(found, s, path))
           = Found(c, found) \cup IF Agrees(c, path.trail) THEN {<<s, Content(path)>>} ELSE {}
<1> DEFINE new == AddedTo(found, s, path)
           Part(lists, t) == {<<t, Content(p)>> : p \in {q \in Range(lists[t]) : Agrees(c, q.trail)}}
           one == IF Agrees(c, path.trail) THEN {<<s, Content(path)>>} ELSE {}
<1>1. /\ DOMAIN new = DOMAIN found \cup {s}
      /\ \A t \in DOMAIN found : t # s => new[t] = found[t]
      /\ Range(new[s]) = (IF s \in DOMAIN found THEN Range(found[s]) ELSE {}) \cup {path}
  <2>1. IsAdded(new, found, s, path)
    BY AddedPaths
  <2> HIDE DEF one, Part, new
  <2> QED BY <2>1 DEF IsAdded
<1> HIDE DEF new
<1>2. \A lists : Found(c, lists) = UNION {Part(lists, t) : t \in DOMAIN lists}
  BY DEF Found
<1>3. \A t \in DOMAIN found : t # s => Part(new, t) = Part(found, t)
  BY <1>1
<1>4. Part(new, s) = (IF s \in DOMAIN found THEN Part(found, s) ELSE {}) \cup one
  BY <1>1
<1> HIDE DEF Part, one
<1>5. UNION {Part(new, t) : t \in DOMAIN new} = one \cup UNION {Part(found, t) : t \in DOMAIN found}
  <2>1. CASE s \in DOMAIN found
    <3>1. Part(new, s) = Part(found, s) \cup one
      BY <1>4, <2>1
    <3> QED BY <1>1, <1>3, <2>1, <3>1
  <2>2. CASE s \notin DOMAIN found
    <3>1. Part(new, s) = one
      BY <1>4, <2>2
    <3> QED BY <1>1, <1>3, <2>2, <3>1
  <2> QED BY <2>1, <2>2
<1>6. Found(c, new) = Found(c, found) \cup one
  BY <1>2, <1>5
<1> QED
  BY <1>6 DEF new, one

LEMMA StandsAtEnd ==
  ASSUME NEW m, IsDefined(m), NEW c, NEW frame, NEW s, frame.at = <<"sequence", s>>,
         frame.todo = <<>>,
         NEW found, \A t \in DOMAIN found : IsList(found[t]), NEW new,
         new = IF frame.is_linked THEN found ELSE AddedTo(found, s, frame.path)
  PROVE  Settles(m, c, frame, found, new)
<1> SUFFICES ASSUME NEW rest, Stands(m, c, frame, rest)
             PROVE  Found(c, new) = Found(c, found) \cup rest
  BY DEF Settles
<1> DEFINE path == frame.path
<1>1. ~frame.is_linked => Found(c, new) = Found(c, found) \cup
        IF Agrees(c, path.trail) THEN {<<s, Content(path)>>} ELSE {}
  BY FoundOne
<1>2. CASE ~Agrees(c, path.trail)
  BY <1>1, <1>2 DEF Stands
<1>3. CASE Agrees(c, path.trail) /\ StandsAtSequence(m, c, frame, rest)
  <2>1. PICK x \in Situations(m), n \in Nat :
          ExecutesSequence(m, c, frame, x, n) /\ rest = ToCome(m, c, x, n)
    BY <1>3 DEF StandsAtSequence
  <2> DEFINE list == ListOf(m, x)
             y == AtTarget(m, c, x)
  <2>2. IsOfModel(m, list) /\ path.trail = x.trail
    BY <2>1, TrailAtSequence
  <2>3. /\ IsProper(m, c, x) /\ frame.at = TargetOf(m, x) /\ Kind(frame.at) = "sequence"
        /\ IsRest(frame.todo, list, n)
        /\ After(m, c, y, list)[n] = SituationAt(x.branch, path)
        /\ frame.is_linked <=> \E k \in Links(m, c, x) : k <= n
    BY <2>1 DEF ExecutesSequence
  <2>4. \A k \in Links(m, c, x) : k \in 1 .. Len(list)
    BY DEF Links
  <2>5. Kind(TargetOf(m, x)) = "sequence" /\ Name(TargetOf(m, x)) = s
    BY <2>3 DEF Kind, Name
  <2>6. Ends(m, c, x) = IF Links(m, c, x) = {} THEN {<<s, Content(AfterAll(m, c, y, list))>>} ELSE {}
    BY <2>5 DEF Ends
  <2> HIDE DEF list, y, path
  <2>7. n = Len(list) /\ Len(list) \in Nat
    <3>1. Len(<<>>) = 0 /\ Len(list) \in Nat
      BY <2>2 DEF IsOfModel
    <3> QED BY <2>3, <3>1 DEF IsRest
  <2>8. LinksAfter(m, c, x, n) = {} /\ (frame.is_linked <=> Links(m, c, x) # {})
    BY <2>3, <2>4, <2>7 DEF LinksAfter
  <2>9. rest = Ends(m, c, x)
    BY <2>1, <2>8 DEF ToCome
  <2>10. Content(AfterAll(m, c, y, list)) = Content(path)
    BY <2>3, <2>7 DEF AfterAll, Content, SituationAt
  <2>11. rest = IF frame.is_linked THEN {} ELSE {<<s, Content(path)>>}
    BY <2>6, <2>8, <2>9, <2>10
  <2> QED
    BY <1>1, <1>3, <2>11
<1>4. ~StandsAtBranch(m, c, frame, rest) /\ ~StandsAtFork(m, c, frame, rest)
  <2>1. \A b : <<"branch", b>>[1] # <<"sequence", s>>[1] /\ <<"fork", b>>[1] # <<"sequence", s>>[1]
    OBVIOUS
  <2> QED
    BY <2>1 DEF StandsAtBranch, StandsAtFork, ExecutesBranch, IsAtFork
<1> QED
  BY <1>2, <1>3, <1>4 DEF Stands

\* A walk begins with all outcomes to come.
LEMMA InitialIsProper ==
  ASSUME NEW m, IsDefined(m), NEW ie \in DOMAIN m.initiating, NEW c
  PROVE  IsProper(m, c, InitialSituation(m, ie))
<1> DEFINE x == InitialSituation(m, ie)
<1>1. m.initial[m.initiating[ie]] \in DOMAIN m.branch
  BY DEF IsDefined
<1>2. <<>> \in HouseStates(m)
  <2>1. <<>> \in [{} -> {i.state : i \in Doing(m, "set")}]
    OBVIOUS
  <2>2. {} \in SUBSET {i.house : i \in Doing(m, "set")}
    OBVIOUS
  <2> QED BY <2>1, <2>2 DEF HouseStates
<1>3. x \in Situations(m)
  <2>1. \A S : <<>> \in Seq(S)
    OBVIOUS
  <2>2. {} \in SUBSET EventsOf(m)
    OBVIOUS
  <2> QED BY <1>1, <1>2, <2>1, <2>2 DEF InitialSituation, Situations
<1>4. x.trail = <<>> /\ x.seen = {} /\ Len(<<>>) = 0
  BY DEF InitialSituation
<1>5. Current(<<>>) = {}
  BY <1>4 DEF Current
<1>6. Met(<<>>) = {} /\ Agrees(c, <<>>)
  BY <1>4, <1>5 DEF Met, Agrees
<1> HIDE DEF x
<1> QED
  BY <1>3, <1>4, <1>5, <1>6 DEF IsProper, x

LEMMA CoverStart ==
  ASSUME NEW m, IsDefined(m), NEW ie \in DOMAIN m.initiating, NEW c, NEW frame,
         frame.at = <<"branch", m.initial[m.initiating[ie]]>>,
         frame.todo = m.branch[m.initial[m.initiating[ie]]].instructions,
         frame.path = EmptyPath
  PROVE  Covers(m, ie, c, <<frame>>, <<>>)
<1> DEFINE z == InitialSituation(m, ie)
           rest == <<OutcomesFrom(m, c)[z]>>
<1>1. IsProper(m, c, z)
  BY InitialIsProper
<1>2. z.branch = m.initial[m.initiating[ie]]
  BY DEF InitialSituation
<1>3. z = SituationAt(z.branch, frame.path)
  <2>1. /\ Len(<<>>) = 0 /\ frame.path.trail = <<>> /\ frame.path.formulas = <<>>
        /\ frame.path.expressions = <<>> /\ frame.path.set_instructions = <<>>
    BY DEF EmptyPath
  <2>2. Met(<<>>) = {}
    BY <2>1 DEF Current, Met
  <2>3. SituationAt(z.branch, frame.path)
          = [branch |-> z.branch, seen |-> {}, houses |-> <<>>, formulas |-> <<>>,
             expressions |-> <<>>, trail |-> <<>>]
    BY <2>1, <2>2 DEF SituationAt
  <2> QED
    BY <1>2, <2>3 DEF InitialSituation
<1> HIDE DEF z
<1>4. Stands(m, c, frame, OutcomesFrom(m, c)[z])
  BY <1>1, <1>2, <1>3, StandsAtFirst
<1>5. Len(<<frame>>) = 1 /\ <<frame>>[1] = frame /\ rest[1] = OutcomesFrom(m, c)[z]
  OBVIOUS
<1>6. 1 .. 1 = {1}
  OBVIOUS
<1>7. Found(c, <<>>) = {}
  BY DEF Found
<1> HIDE DEF rest
<1>8. CoversWith(m, ie, c, <<frame>>, <<>>, rest)
  BY <1>4, <1>5, <1>6, <1>7 DEF CoversWith, z
<1> QED
  BY <1>8 DEF Covers

-----------------------------------------------------------------------------
\* What the steps of the walk do to the frame on top.

Replaced(frames, frame) == Append(SubSeq(frames, 1, Len(frames) - 1), frame)
Pushed(frames, frame, above) == Append(Append(SubSeq(frames, 1, Len(frames) - 1), frame), above)
Popped(frames) ==
  LET front == SubSeq(frames, 1, Len(frames) - 1)
  IN  IF front = <<>> THEN <<>> ELSE [front EXCEPT ![Len(front)].save = <<>>]

\* A frame goes on to the target of its branch.
GoesTo(m, frame, next) ==
  LET target == m.branch[Name(frame.at)].target
  IN  /\ next.path = frame.path /\ next.is_linked = FALSE
      /\ \/ /\ Kind(target) = "branch" /\ next.at = <<"branch", Name(target)>>
            /\ next.todo = m.branch[Name(target)].instructions
         \/ /\ Kind(target) = "sequence" /\ next.at = target
            /\ next.todo = m.sequence[Name(target)]
         \/ /\ Kind(target) = "fork" /\ next.at = target
            /\ next.todo = m.fork[Name(target)].paths

IsWalking(m, frames, frame) ==
  /\ IsDefined(m) /\ IsList(frames) /\ frames # <<>> /\ frame = frames[Len(frames)]
  /\ \A i \in 1 .. Len(frames) : IsFrame(frames[i])
  /\ IsPath(frame.path) /\ IsList(frame.path.trail) /\ IsList(frame.todo)

LEMMA TopIsWalking ==
  ASSUME IInv, phase = "walk", stack # <<>>
  PROVE  IsWalking(model, stack, Top)
<1>1. /\ FrameIsGood(model, Beginning, Top) /\ PathIsGood(model, Beginning, Top.path)
      /\ StackIsGood(model, Beginning, functional_events, stack)
      /\ Top = stack[Len(stack)] /\ IsDefined(model)
  BY TopIsGood
<1>2. IsList(stack) /\ \A i \in 1 .. Len(stack) : IsFrame(stack[i])
  BY <1>1 DEF StackIsGood, FrameIsGood
<1>3. IsPath(Top.path) /\ IsList(Top.path.trail)
  BY <1>1, ListElements DEF PathIsGood, IsPath
<1>4. IsList(Top.todo)
  BY <1>1, ListElements DEF FrameIsGood, AtBranchIsGood, AtSequenceIsGood, AtForkIsGood
<1> QED
  BY <1>1, <1>2, <1>3, <1>4 DEF IsWalking

LEMMA ExecutedStep ==
  ASSUME IInv, PassOver \/ Visit
  PROVE  /\ Executing /\ phase = "walk" /\ stack # <<>> /\ Top.todo # <<>> /\ Top.at[1] # "fork"
         /\ Holds(Instruction) => Instruction.do \in {"set", "formula", "expression"}
         /\ UNCHANGED <<model, phase, pending, initiating_event, sequences, gates>>
         /\ \E next : /\ stack' = Replaced(stack, next)
                      /\ IsExecuted(Top, next, Instruction, Holds(Instruction))
<1>1. Executing /\ phase = "walk" /\ stack # <<>> /\ Top.todo # <<>> /\ Top.at[1] # "fork"
  BY DEF PassOver, Visit, Executing, Kind
<1>2. /\ FrameIsGood(model, Beginning, Top) /\ PathIsGood(model, Beginning, Top.path)
      /\ IsDefined(model) /\ IsValid(model)
  BY <1>1, TopIsGood
<1>3. /\ Instruction.do \in {"set", "formula", "expression", "link"}
      /\ Instruction.do \in Kinds(model, Beginning)
  BY <1>1, <1>2, NextInstruction DEF Instruction, IsValid
<1>4. Holds(Instruction) => Instruction.do \in {"set", "formula", "expression"}
  BY <1>3 DEF PassOver, Visit
<1> DEFINE path == IF Holds(Instruction) THEN Collected(Top.path, Instruction) ELSE Top.path
           next == [Top EXCEPT !.todo = Tail(@), !.path = path]
<1>5. stack' = Replaced(stack, next)
  BY DEF PassOver, Visit, Executed, WithTop, Pop, Replaced
<1>6. path.trail = Top.path.trail
  BY <1>2, <1>3, <1>4, CollectedIsGood
<1> HIDE DEF path
<1>7. next = [at |-> Top.at, todo |-> Tail(Top.todo), path |-> path,
              is_linked |-> Top.is_linked, save |-> Top.save]
  BY <1>2, FrameWithPath DEF FrameIsGood
<1> HIDE DEF next
<1>8. IsExecuted(Top, next, Instruction, Holds(Instruction))
  BY <1>6, <1>7 DEF IsExecuted, path
<1>9. UNCHANGED <<model, phase, pending, initiating_event, sequences, gates>>
  BY DEF PassOver, Visit
<1> QED
  BY <1>1, <1>4, <1>5, <1>8, <1>9

LEMMA LinkStep ==
  ASSUME IInv, VisitLink
  PROVE  /\ Executing /\ phase = "walk" /\ stack # <<>> /\ Top.todo # <<>>
         /\ Top.at[1] = "sequence" /\ Instruction.do = "link" /\ Holds(Instruction)
         /\ Instruction.tree \in DOMAIN model.initial
         /\ UNCHANGED <<model, phase, pending, initiating_event, sequences, gates>>
         /\ \E next, above : /\ stack' = Pushed(stack, next, above)
                             /\ IsAtLink(model, Top, next, above, Instruction)
<1>1. /\ Executing /\ phase = "walk" /\ stack # <<>> /\ Top.todo # <<>> /\ Top.at[1] # "fork"
      /\ Instruction.do = "link" /\ Holds(Instruction)
  BY DEF VisitLink, Executing, Kind
<1>2. FrameIsGood(model, Beginning, Top) /\ IsDefined(model) /\ IsValid(model)
  BY <1>1, TopIsGood
<1>3. Top.at[1] = "sequence" /\ Instruction.tree \in DOMAIN model.initial
  BY <1>1, <1>2, NextInstruction DEF Instruction, IsValid
<1> DEFINE path == Relinked(Top.path, Instruction.tree, Len(Top.todo) - 1)
           above == AtBranch(model.initial[Instruction.tree], path)
           next == [at |-> Top.at, todo |-> Tail(Top.todo), path |-> Top.path,
                    is_linked |-> TRUE, save |-> <<functional_events>>]
<1>4. stack' = Pushed(stack, next, above)
  BY DEF VisitLink, WithTop, Pop, Pushed
<1>5. IsAtLink(model, Top, next, above, Instruction)
  <2>1. /\ above.at = <<"branch", model.initial[Instruction.tree]>>
        /\ above.todo = model.branch[model.initial[Instruction.tree]].instructions
        /\ above.path = path
    <3> HIDE DEF path
    <3> QED BY DEF AtBranch, Collector
  <2>2. /\ next.at = Top.at /\ next.todo = Tail(Top.todo) /\ next.path = Top.path
        /\ next.is_linked = TRUE
    OBVIOUS
  <2> HIDE DEF above, next
  <2> QED
    BY <2>1, <2>2 DEF IsAtLink
<1>6. UNCHANGED <<model, phase, pending, initiating_event, sequences, gates>>
  BY DEF VisitLink
<1> QED
  BY <1>1, <1>3, <1>4, <1>5, <1>6

LEMMA GoStep ==
  ASSUME IInv, GoOn \/ EnterFork
  PROVE  /\ phase = "walk" /\ stack # <<>> /\ Top.at[1] = "branch" /\ Top.todo = <<>>
         /\ UNCHANGED <<model, phase, pending, initiating_event, sequences, gates>>
         /\ \E next : stack' = Replaced(stack, next) /\ GoesTo(model, Top, next)
<1>1. /\ Arrived /\ phase = "walk" /\ stack # <<>> /\ Top.at[1] = "branch" /\ Top.todo = <<>>
  BY DEF GoOn, EnterFork, Arrived
<1>2. PICK c \in DOMAIN model.branch :
           /\ c \in UnderWithLinks(model, Beginning)
           /\ Target = model.branch[c].target /\ Target \in Targets(model)
           /\ BranchInOrder(model, Top.path.trail, c)
           /\ IsContextOf(functional_events, Top.path.trail)
  BY <1>1, ArrivedAt
<1>3. IsDefined(model) /\ IsValid(model) /\ PathIsGood(model, Beginning, Top.path)
  BY <1>1, TopIsGood
<1>4. Kind(Target) \in {"sequence", "branch", "fork"}
  BY <1>2, <1>3, TargetOfModel
<1>5. Target = model.branch[Name(Top.at)].target
  BY DEF Target
<1>6. CASE GoOn
  <2> DEFINE next == IF Kind(Target) = "branch" THEN AtBranch(Name(Target), Top.path)
                     ELSE Collector(Target, model.sequence[Name(Target)], Top.path)
  <2>1. stack' = Replaced(stack, next)
    BY <1>6 DEF GoOn, WithTop, Pop, Replaced
  <2>2. Kind(Target) # "fork"
    BY <1>6 DEF GoOn
  <2>3. GoesTo(model, Top, next)
    BY <1>4, <1>5, <2>2 DEF GoesTo, AtBranch, Collector
  <2> HIDE DEF next
  <2> QED
    BY <1>1, <1>6, <2>1, <2>3 DEF GoOn
<1>7. CASE EnterFork
  <2> DEFINE next == Collector(Target, model.fork[Name(Target)].paths, Top.path)
  <2>1. Kind(Target) = "fork"
    BY <1>7 DEF EnterFork
  <2>2. Event(Name(Target)) \notin DOMAIN functional_events
    <3>1. Place(model, Name(Target)) \in Int
      BY <1>2, <1>3, <2>1, TargetOfModel, ForkOfModel
    <3>2. InOrder(model, Top.path.trail, model.fork[Name(Target)].tree, Place(model, Name(Target)))
      BY <1>2, <1>3, <2>1, ForkAfterBranch
    <3>3. Event(Name(Target)) \notin Met(Top.path.trail)
      BY <3>1, <3>2, NextEventIsNew DEF Event
    <3> QED
      BY <1>2, <3>3 DEF IsContextOf, Met
  <2>3. /\ stack' = Replaced(stack, next)
        /\ UNCHANGED <<model, phase, pending, initiating_event, sequences, gates>>
    BY <1>7, <2>2 DEF EnterFork, WithTop, Pop, Replaced
  <2>4. GoesTo(model, Top, next)
    BY <1>5, <2>1 DEF GoesTo, Collector
  <2> HIDE DEF next
  <2> QED
    BY <1>1, <2>3, <2>4
<1> QED
  BY <1>6, <1>7

LEMMA PathStep ==
  ASSUME IInv, TakePath
  PROVE  /\ AtFork /\ phase = "walk" /\ stack # <<>> /\ Top.todo # <<>>
         /\ UNCHANGED <<model, phase, pending, initiating_event, sequences, gates>>
         /\ \E next, above : /\ stack' = Pushed(stack, next, above)
                             /\ IsAtPath(model, Top, next, above, Name(Top.at), Head(Top.todo))
<1>1. AtFork /\ phase = "walk" /\ stack # <<>> /\ Top.todo # <<>>
  BY DEF TakePath, AtFork
<1>2. FrameIsGood(model, Beginning, Top) /\ PathIsGood(model, Beginning, Top.path)
  BY <1>1, TopIsGood
<1> DEFINE f == Name(Top.at)
           taken == Head(Top.todo)
           path == Chosen(Top.path, f, taken[1])
           above == AtBranch(taken[2], path)
           next == [Top EXCEPT !.todo = Tail(@)]
<1>3. stack' = Pushed(stack, next, above)
  BY DEF TakePath, WithTop, Pop, Pushed
<1>4. HasTrail(path, Top.path, Append(Top.path.trail, ForkItem(model, f, taken[1])))
  <2> DEFINE item == ForkItem(model, f, taken[1])
  <2>1. path = [Top.path EXCEPT !.trail = Append(@, item)]
    BY DEF Chosen, ForkItem, Event
  <2>2. IsPath(Top.path)
    BY <1>2 DEF PathIsGood, IsPath
  <2> HIDE DEF item, path
  <2> QED
    BY <2>1, <2>2, ChosenPath DEF item
<1>5. /\ above.at = <<"branch", taken[2]>> /\ above.todo = model.branch[taken[2]].instructions
      /\ above.path = path
  <2> HIDE DEF path
  <2> QED BY DEF AtBranch, Collector
<1>6. /\ next.at = Top.at /\ next.todo = Tail(Top.todo) /\ next.path = Top.path
  <2>1. next = [at |-> Top.at, todo |-> Tail(Top.todo), path |-> Top.path,
                is_linked |-> Top.is_linked, save |-> Top.save]
    BY <1>2, FrameWithTodo DEF FrameIsGood
  <2> HIDE DEF next
  <2> QED BY <2>1
<1>7. UNCHANGED <<model, phase, pending, initiating_event, sequences, gates>>
  BY DEF TakePath
<1> HIDE DEF above, next, path
<1>8. IsAtPath(model, Top, next, above, f, taken)
  BY <1>4, <1>5, <1>6 DEF IsAtPath
<1> QED
  BY <1>1, <1>3, <1>7, <1>8

\* A walk of a frame ends, at a fork or with a path to a sequence.
LEMMA LeaveStep ==
  ASSUME IInv, LeaveFork
  PROVE  /\ phase = "walk" /\ stack # <<>> /\ Top.at[1] = "fork" /\ Top.todo = <<>>
         /\ stack' = Popped(stack)
         /\ UNCHANGED <<model, phase, pending, initiating_event, sequences, gates>>
  BY DEF LeaveFork, AtFork, Return, Pop, Popped

LEMMA EndStep ==
  ASSUME IInv, EndPath
  PROVE  /\ phase = "walk" /\ stack # <<>> /\ Top.todo = <<>>
         /\ Top.at = <<"sequence", Name(Top.at)>>
         /\ \A t \in DOMAIN sequences : IsList(sequences[t])
         /\ stack' = Popped(stack)
         /\ sequences' = IF Top.is_linked THEN sequences ELSE AddedTo(sequences, Name(Top.at), Top.path)
         /\ UNCHANGED <<model, phase, pending, initiating_event, gates>>
<1>1. phase = "walk" /\ stack # <<>> /\ Top.at[1] = "sequence" /\ Top.todo = <<>>
  BY DEF EndPath
<1>2. Top.at = <<"sequence", Name(Top.at)>>
  BY <1>1, TopIsGood, FrameAtSequence DEF AtSequenceIsGood, Name
<1>3. \A t \in DOMAIN sequences : IsList(sequences[t])
  BY DEF IInv, SequencesAreGood
<1>4. stack' = Popped(stack)
  BY DEF EndPath, Return, Pop, Popped
<1>5. sequences' = IF Top.is_linked THEN sequences ELSE AddedTo(sequences, Name(Top.at), Top.path)
  BY DEF EndPath, WithPath, PathsTo, AddedTo
<1> QED
  BY <1>1, <1>2, <1>3, <1>4, <1>5 DEF EndPath

-----------------------------------------------------------------------------
\* First invariant: what was found and what is to come are all outcomes.

AllAreCovered ==
  phase \in {"walk", "join"} =>
    \A c \in Scenarios(model, initiating_event) :
      Covers(model, initiating_event, c, stack, sequences)

\* What a step keeps of the scenarios.
LEMMA CoverSteps ==
  ASSUME IInv, AllAreCovered, phase = "walk", stack # <<>>,
         UNCHANGED <<model, phase, initiating_event>>,
         \A c \in Scenarios(model, initiating_event) :
           Covers(model, initiating_event, c, stack, sequences)
             => Covers(model, initiating_event, c, stack', sequences')
  PROVE  AllAreCovered'
  BY DEF AllAreCovered

LEMMA GoesToStands ==
  ASSUME NEW m, IsDefined(m), NEW c, NEW frame, frame.at[1] = "branch", frame.todo = <<>>,
         NEW next, GoesTo(m, frame, next)
  PROVE  \A rest : Stands(m, c, frame, rest) => Stands(m, c, next, rest)
<1> DEFINE target == m.branch[Name(frame.at)].target
<1>1. next.path = frame.path /\ next.is_linked = FALSE
  BY DEF GoesTo
<1>2. CASE /\ Kind(target) = "branch" /\ next.at = <<"branch", Name(target)>>
           /\ next.todo = m.branch[Name(target)].instructions
  <2> HIDE DEF target
  <2> QED BY <1>1, <1>2, StandsAtNamed DEF target
<1>3. CASE /\ Kind(target) = "sequence" /\ next.at = target
           /\ next.todo = m.sequence[Name(target)]
  <2> HIDE DEF target
  <2> QED BY <1>1, <1>3, StandsInSequence DEF target
<1>4. CASE /\ Kind(target) = "fork" /\ next.at = target
           /\ next.todo = m.fork[Name(target)].paths
  <2> HIDE DEF target
  <2> QED BY <1>1, <1>4, StandsAtEnteredFork DEF target
<1> QED
  BY <1>2, <1>3, <1>4 DEF GoesTo

LEMMA CoverReplaced ==
  ASSUME NEW m, NEW ie, NEW c, NEW found, NEW frames, NEW frame, IsWalking(m, frames, frame),
         Covers(m, ie, c, frames, found), NEW next,
         \A rest : Stands(m, c, frame, rest) => Stands(m, c, next, rest)
  PROVE  Covers(m, ie, c, Replaced(frames, next), found)
  BY CoverReplace DEF IsWalking, Replaced

LEMMA CoverPushed ==
  ASSUME NEW m, NEW ie, NEW c, NEW found, NEW frames, NEW frame, IsWalking(m, frames, frame),
         Covers(m, ie, c, frames, found), NEW next, NEW above, Splits(m, c, frame, next, above)
  PROVE  Covers(m, ie, c, Pushed(frames, next, above), found)
  BY CoverPush DEF IsWalking, Pushed

LEMMA CoverPopped ==
  ASSUME NEW m, NEW ie, NEW c, NEW found, NEW frames, NEW frame, IsWalking(m, frames, frame),
         Covers(m, ie, c, frames, found), NEW new, Settles(m, c, frame, found, new)
  PROVE  Covers(m, ie, c, Popped(frames), new)
  BY CoverPop DEF IsWalking, Popped

LEMMA CoverExecuted ==
  ASSUME IInv, AllAreCovered, PassOver \/ Visit
  PROVE  AllAreCovered'
<1>1. /\ Executing /\ phase = "walk" /\ stack # <<>> /\ Top.todo # <<>> /\ Top.at[1] # "fork"
      /\ Holds(Instruction) => Instruction.do \in {"set", "formula", "expression"}
      /\ UNCHANGED <<model, phase, pending, initiating_event, sequences, gates>>
  BY ExecutedStep
<1>2. PICK next : /\ stack' = Replaced(stack, next)
                  /\ IsExecuted(Top, next, Instruction, Holds(Instruction))
  BY ExecutedStep
<1>3. IsWalking(model, stack, Top) /\ RunsIn(model, functional_events, Top)
  BY <1>1, TopIsWalking, TopIsGood
<1>4. ASSUME NEW c \in Scenarios(model, initiating_event)
      PROVE  \A rest : Stands(model, c, Top, rest) => Stands(model, c, next, rest)
  <2>1. IsContextOf(functional_events, Top.path.trail) /\ c.initiating = initiating_event
    BY <1>1, <1>3 DEF RunsIn, Scenarios
  <2> DEFINE frame == Top
             i == Instruction
             holds == Holds(Instruction)
  <2>2. Decides(model, c, frame.path.trail, i, holds)
    BY <2>1, HoldsDecides
  <2>3. /\ IsDefined(model) /\ IsPath(frame.path) /\ frame.todo \in Seq(Range(frame.todo))
        /\ frame.todo # <<>> /\ frame.at[1] # "fork" /\ i = Head(frame.todo)
        /\ holds => i.do \in {"set", "formula", "expression"}
        /\ IsExecuted(frame, next, i, holds)
    BY <1>1, <1>2, <1>3 DEF IsWalking, IsList, Instruction
  <2>4. holds \in BOOLEAN
    BY DEF Holds
  <2> HIDE DEF frame, i, holds
  <2>5. \A rest : Stands(model, c, frame, rest) => Stands(model, c, next, rest)
    BY <2>2, <2>3, <2>4, StandsExecuted
  <2> QED
    BY <2>5 DEF frame
<1>5. ASSUME NEW c \in Scenarios(model, initiating_event),
             Covers(model, initiating_event, c, stack, sequences)
      PROVE  Covers(model, initiating_event, c, stack', sequences')
  <2>1. Covers(model, initiating_event, c, Replaced(stack, next), sequences)
    BY <1>3, <1>4, <1>5, CoverReplaced
  <2> QED
    BY <1>1, <1>2, <2>1
<1> QED
  BY <1>1, <1>5, CoverSteps

LEMMA CoverLink ==
  ASSUME IInv, AllAreCovered, VisitLink
  PROVE  AllAreCovered'
<1>1. /\ Executing /\ phase = "walk" /\ stack # <<>> /\ Top.todo # <<>>
      /\ Top.at[1] = "sequence" /\ Instruction.do = "link" /\ Holds(Instruction)
      /\ UNCHANGED <<model, phase, pending, initiating_event, sequences, gates>>
  BY LinkStep
<1>2. PICK next, above : /\ stack' = Pushed(stack, next, above)
                         /\ IsAtLink(model, Top, next, above, Instruction)
  BY LinkStep
<1>3. IsWalking(model, stack, Top) /\ RunsIn(model, functional_events, Top)
  BY <1>1, TopIsWalking, TopIsGood
<1>4. ASSUME NEW c \in Scenarios(model, initiating_event)
      PROVE  Splits(model, c, Top, next, above)
  <2>1. IsContextOf(functional_events, Top.path.trail) /\ c.initiating = initiating_event
    BY <1>1, <1>3 DEF RunsIn, Scenarios
  <2> DEFINE frame == Top
             i == Instruction
             holds == Holds(Instruction)
  <2>2. Decides(model, c, frame.path.trail, i, holds)
    BY <2>1, HoldsDecides
  <2>3. /\ IsDefined(model) /\ IsPath(frame.path) /\ frame.todo \in Seq(Range(frame.todo))
        /\ IsList(frame.path.trail) /\ holds = TRUE
        /\ frame.todo # <<>> /\ frame.at[1] = "sequence" /\ i = Head(frame.todo) /\ i.do = "link"
        /\ IsAtLink(model, frame, next, above, i)
    <3>1. holds \in BOOLEAN
      BY DEF Holds
    <3> QED
      BY <1>1, <1>2, <1>3, <3>1 DEF IsWalking, IsList, Instruction
  <2> HIDE DEF frame, i, holds
  <2>4. Decides(model, c, frame.path.trail, i, TRUE)
    BY <2>2, <2>3
  <2>5. Splits(model, c, frame, next, above)
    BY <2>3, <2>4, StandsAtLink
  <2> QED
    BY <2>5 DEF frame
<1>5. ASSUME NEW c \in Scenarios(model, initiating_event),
             Covers(model, initiating_event, c, stack, sequences)
      PROVE  Covers(model, initiating_event, c, stack', sequences')
  <2>1. Covers(model, initiating_event, c, Pushed(stack, next, above), sequences)
    BY <1>3, <1>4, <1>5, CoverPushed
  <2> QED
    BY <1>1, <1>2, <2>1
<1> QED
  BY <1>1, <1>5, CoverSteps

LEMMA CoverGo ==
  ASSUME IInv, AllAreCovered, GoOn \/ EnterFork
  PROVE  AllAreCovered'
<1>1. /\ phase = "walk" /\ stack # <<>> /\ Top.at[1] = "branch" /\ Top.todo = <<>>
      /\ UNCHANGED <<model, phase, pending, initiating_event, sequences, gates>>
  BY GoStep
<1>2. PICK next : stack' = Replaced(stack, next) /\ GoesTo(model, Top, next)
  BY GoStep
<1>3. IsWalking(model, stack, Top)
  BY <1>1, TopIsWalking
<1>4. ASSUME NEW c \in Scenarios(model, initiating_event),
             Covers(model, initiating_event, c, stack, sequences)
      PROVE  Covers(model, initiating_event, c, stack', sequences')
  <2>1. \A rest : Stands(model, c, Top, rest) => Stands(model, c, next, rest)
    BY <1>1, <1>2, <1>3, GoesToStands DEF IsWalking
  <2>2. Covers(model, initiating_event, c, Replaced(stack, next), sequences)
    BY <1>3, <1>4, <2>1, CoverReplaced
  <2> QED
    BY <1>1, <1>2, <2>2
<1> QED
  BY <1>1, <1>4, CoverSteps

LEMMA CoverPath ==
  ASSUME IInv, AllAreCovered, TakePath
  PROVE  AllAreCovered'
<1>1. /\ AtFork /\ phase = "walk" /\ stack # <<>> /\ Top.todo # <<>>
      /\ UNCHANGED <<model, phase, pending, initiating_event, sequences, gates>>
  BY PathStep
<1>2. PICK next, above : /\ stack' = Pushed(stack, next, above)
                         /\ IsAtPath(model, Top, next, above, Name(Top.at), Head(Top.todo))
  BY PathStep
<1>3. IsWalking(model, stack, Top)
  BY <1>1, TopIsWalking
<1>4. PICK f \in DOMAIN model.fork :
           /\ Top.at = <<"fork", f>> /\ Name(Top.at) = f /\ Top.todo \in Seq(Paths(model, f))
  BY <1>1, TopAtFork
<1>5. ASSUME NEW c \in Scenarios(model, initiating_event)
      PROVE  Splits(model, c, Top, next, above)
  <2> DEFINE frame == Top
             taken == Head(Top.todo)
  <2>1. /\ IsDefined(model) /\ frame.at = <<"fork", f>> /\ frame.todo \in Seq(Paths(model, f))
        /\ frame.todo # <<>> /\ taken = Head(frame.todo) /\ IsList(frame.path.trail)
        /\ IsAtPath(model, frame, next, above, f, taken)
    BY <1>1, <1>2, <1>3, <1>4 DEF IsWalking
  <2> HIDE DEF frame, taken
  <2>2. Splits(model, c, frame, next, above)
    BY <2>1, StandsAtPath
  <2> QED
    BY <2>2 DEF frame
<1>6. ASSUME NEW c \in Scenarios(model, initiating_event),
             Covers(model, initiating_event, c, stack, sequences)
      PROVE  Covers(model, initiating_event, c, stack', sequences')
  <2>1. Covers(model, initiating_event, c, Pushed(stack, next, above), sequences)
    BY <1>3, <1>5, <1>6, CoverPushed
  <2> QED
    BY <1>1, <1>2, <2>1
<1> QED
  BY <1>1, <1>6, CoverSteps

LEMMA CoverLeave ==
  ASSUME IInv, AllAreCovered, LeaveFork
  PROVE  AllAreCovered'
<1>1. /\ phase = "walk" /\ stack # <<>> /\ Top.at[1] = "fork" /\ Top.todo = <<>>
      /\ stack' = Popped(stack)
      /\ UNCHANGED <<model, phase, pending, initiating_event, sequences, gates>>
  BY LeaveStep
<1>2. IsWalking(model, stack, Top)
  BY <1>1, TopIsWalking
<1>3. ASSUME NEW c \in Scenarios(model, initiating_event),
             Covers(model, initiating_event, c, stack, sequences)
      PROVE  Covers(model, initiating_event, c, stack', sequences')
  <2>1. Settles(model, c, Top, sequences, sequences)
    BY <1>1, StandsAtLeftFork
  <2>2. Covers(model, initiating_event, c, Popped(stack), sequences)
    BY <1>2, <1>3, <2>1, CoverPopped
  <2> QED
    BY <1>1, <2>2
<1> QED
  BY <1>1, <1>3, CoverSteps

LEMMA CoverEnd ==
  ASSUME IInv, AllAreCovered, EndPath
  PROVE  AllAreCovered'
<1>1. /\ phase = "walk" /\ stack # <<>> /\ Top.todo = <<>>
      /\ Top.at = <<"sequence", Name(Top.at)>>
      /\ \A t \in DOMAIN sequences : IsList(sequences[t])
      /\ stack' = Popped(stack)
      /\ sequences' = IF Top.is_linked THEN sequences ELSE AddedTo(sequences, Name(Top.at), Top.path)
      /\ UNCHANGED <<model, phase, pending, initiating_event, gates>>
  BY EndStep
<1>2. IsWalking(model, stack, Top)
  BY <1>1, TopIsWalking
<1>3. ASSUME NEW c \in Scenarios(model, initiating_event),
             Covers(model, initiating_event, c, stack, sequences)
      PROVE  Covers(model, initiating_event, c, stack', sequences')
  <2> DEFINE s == Name(Top.at)
             new == sequences'
  <2>1. /\ IsDefined(model) /\ Top.at = <<"sequence", s>> /\ Top.todo = <<>>
        /\ new = IF Top.is_linked THEN sequences ELSE AddedTo(sequences, s, Top.path)
    BY <1>1, <1>2 DEF IsWalking
  <2> HIDE DEF s, new
  <2>2. Settles(model, c, Top, sequences, new)
    BY <1>1, <2>1, StandsAtEnd
  <2>3. Covers(model, initiating_event, c, Popped(stack), new)
    BY <1>2, <1>3, <2>2, CoverPopped
  <2> QED
    BY <1>1, <2>3 DEF new
<1> QED
  BY <1>1, <1>3, CoverSteps

LEMMA CoverBegins ==
  ASSUME IInv, NEW event \in DOMAIN model.initiating, Start(event)
  PROVE  AllAreCovered'
<1> DEFINE b == model.initial[model.initiating[event]]
           frame == AtBranch(b, EmptyPath)
<1>1. IsDefined(model)
  BY Beginnings DEF IInv
<1>2. /\ frame.at = <<"branch", b>> /\ frame.todo = model.branch[b].instructions
      /\ frame.path = EmptyPath
  BY DEF AtBranch, Collector
<1>3. /\ model' = model /\ initiating_event' = event /\ stack' = <<frame>> /\ sequences' = <<>>
  BY DEF Start
<1> HIDE DEF frame
<1>4. \A c : Covers(model, event, c, <<frame>>, <<>>)
  BY <1>1, <1>2, CoverStart
<1> QED
  BY <1>3, <1>4 DEF AllAreCovered

LEMMA CoverNext ==
  ASSUME IInv, AllAreCovered, [Next]_vars
  PROVE  AllAreCovered'
<1>1. CASE UNCHANGED vars
  BY <1>1 DEF AllAreCovered, vars
<1>2. CASE Validate
  BY <1>2 DEF AllAreCovered, Validate
<1>3. CASE \E event \in DOMAIN model.initiating : Start(event)
  BY <1>3, CoverBegins
<1>4. CASE EndWalk
  BY <1>4 DEF AllAreCovered, EndWalk
<1>5. CASE Walk /\ ~EndWalk
  BY <1>5, CoverExecuted, CoverLink, CoverGo, CoverPath, CoverLeave, CoverEnd DEF Walk
<1>6. CASE \E s \in DOMAIN sequences : Join(s)
  BY <1>6 DEF AllAreCovered, Join
<1>7. CASE EndAnalysis
  BY <1>7 DEF AllAreCovered, EndAnalysis
<1> QED
  BY <1>1, <1>2, <1>3, <1>4, <1>5, <1>6, <1>7 DEF Next, Step, Terminated

-----------------------------------------------------------------------------
\* Second invariant: no trail is found, or to come, twice.

Extends(longer, trail) == \A i \in 1 .. Len(trail) : longer[i] = trail[i]

\* A trail may be to come from a frame: one that goes on from its own, at a fork with the
\* state of a path left, in a sequence with a link left or, if none has applied, as it is.
IsToCome(m, frame, trail) ==
  \/ frame.at[1] = "branch" /\ Extends(trail, frame.path.trail)
  \/ frame.at[1] = "sequence" /\ ~frame.is_linked /\ Extends(trail, frame.path.trail)
  \/ /\ frame.at[1] = "sequence"
     /\ \E tree, left : /\ left \in Nat /\ left < Len(frame.todo)
                        /\ Extends(trail, Append(frame.path.trail, <<"link", tree, left>>))
  \/ /\ frame.at[1] = "fork"
     /\ \E path \in Range(frame.todo) :
          Extends(trail, Append(frame.path.trail, ForkItem(m, frame.at[2], path[1])))

\* All that is to come from a frame has been to come from another one.
ComesFrom(m, next, frame) == \A trail : IsToCome(m, next, trail) => IsToCome(m, frame, trail)
AreApart(m, frame, other) == \A trail : ~(IsToCome(m, frame, trail) /\ IsToCome(m, other, trail))

LEMMA ExtendsLonger ==
  ASSUME NEW trail, IsList(trail), NEW item, NEW longer, Extends(longer, Append(trail, item))
  PROVE  Extends(longer, trail) /\ longer[Len(trail) + 1] = item
<1> DEFINE all == Append(trail, item)
           n == Len(trail)
<1>1. /\ n \in Nat /\ Len(all) = n + 1 /\ all[n + 1] = item
      /\ \A i \in 1 .. n : all[i] = trail[i]
  BY AppendToList
<1>2. n + 1 \in 1 .. n + 1 /\ \A i \in 1 .. n : i \in 1 .. n + 1
  BY <1>1
<1>3. \A i \in 1 .. Len(all) : longer[i] = all[i]
  BY DEF Extends
<1> HIDE DEF all
<1> QED
  BY <1>1, <1>2, <1>3 DEF Extends

LEMMA ExecutedComes ==
  ASSUME NEW m, NEW frame, IsList(frame.todo), frame.todo # <<>>, frame.at[1] # "fork",
         NEW i, NEW holds, NEW next, IsExecuted(frame, next, i, holds)
  PROVE  ComesFrom(m, next, frame)
<1>1. /\ next.at = frame.at /\ next.todo = Tail(frame.todo)
      /\ next.is_linked = frame.is_linked /\ next.path.trail = frame.path.trail
  BY DEF IsExecuted
<1>2. Len(next.todo) = Len(frame.todo) - 1 /\ Len(frame.todo) \in Nat
  BY <1>1 DEF IsList
<1>3. \A left \in Nat : left < Len(next.todo) => left < Len(frame.todo)
  BY <1>2
<1> QED
  BY <1>1, <1>3 DEF ComesFrom, IsToCome

LEMMA GoesToComes ==
  ASSUME NEW m, NEW frame, IsList(frame.path.trail), frame.at[1] = "branch",
         NEW next, GoesTo(m, frame, next)
  PROVE  ComesFrom(m, next, frame)
<1>1. next.path = frame.path
  BY DEF GoesTo
<1>2. ASSUME NEW trail, NEW item, Extends(trail, Append(frame.path.trail, item))
      PROVE  Extends(trail, frame.path.trail)
  <2> DEFINE own == frame.path.trail
  <2>1. IsList(own) /\ Extends(trail, Append(own, item))
    BY <1>2
  <2> HIDE DEF own
  <2>2. Extends(trail, own)
    BY <2>1, ExtendsLonger
  <2> QED BY <2>2 DEF own
<1> QED
  BY <1>1, <1>2 DEF ComesFrom, IsToCome

LEMMA LinkComes ==
  ASSUME NEW m, NEW frame, IsList(frame.todo), frame.todo # <<>>, frame.at[1] = "sequence",
         IsPath(frame.path), IsList(frame.path.trail),
         NEW i, NEW next, NEW above, IsAtLink(m, frame, next, above, i)
  PROVE  ComesFrom(m, next, frame) /\ ComesFrom(m, above, frame) /\ AreApart(m, next, above)
<1> DEFINE own == frame.path.trail
           n == Len(frame.todo)
           linked == Append(own, <<"link", i.tree, n - 1>>)
<1>1. /\ next.at = frame.at /\ next.todo = Tail(frame.todo) /\ next.is_linked = TRUE
      /\ next.path = frame.path /\ above.at[1] = "branch"
      /\ above.path = Relinked(frame.path, i.tree, n - 1)
  BY DEF IsAtLink
<1>2. Len(next.todo) = n - 1 /\ n \in Nat \ {0}
  BY <1>1 DEF IsList
<1>3. above.path.trail = linked
  BY <1>1, RelinkedPath DEF HasTrail
<1>4. n - 1 \in Nat /\ n - 1 < n /\ \A left \in Nat : left < n - 1 => left < n /\ left # n - 1
  BY <1>2
<1>5. "sequence" # "branch" /\ "sequence" # "fork" /\ "branch" # "fork"
  OBVIOUS
<1>6. \A trail : IsToCome(m, above, trail) <=> Extends(trail, linked)
  BY <1>1, <1>3, <1>5 DEF IsToCome
<1> HIDE DEF n
<1>7. \A trail : IsToCome(m, next, trail) <=>
        \E tree, left :
          left \in Nat /\ left < n - 1 /\ Extends(trail, Append(own, <<"link", tree, left>>))
  BY <1>1, <1>2, <1>5 DEF IsToCome
<1>8. ASSUME NEW trail, NEW tree, NEW left, left \in Nat, left < n,
             Extends(trail, Append(own, <<"link", tree, left>>))
      PROVE  IsToCome(m, frame, trail)
  BY <1>8 DEF IsToCome, n
<1>9. ComesFrom(m, next, frame)
  BY <1>4, <1>7, <1>8 DEF ComesFrom
<1>10. ComesFrom(m, above, frame)
  BY <1>4, <1>6, <1>8 DEF ComesFrom
<1>11. ASSUME NEW trail, IsToCome(m, next, trail), IsToCome(m, above, trail) PROVE FALSE
  <2>1. PICK tree, left :
          left \in Nat /\ left < n - 1 /\ Extends(trail, Append(own, <<"link", tree, left>>))
    BY <1>7, <1>11
  <2> HIDE DEF own
  <2>2. trail[Len(own) + 1] = <<"link", tree, left>>
    BY <2>1, ExtendsLonger DEF own
  <2>3. trail[Len(own) + 1] = <<"link", i.tree, n - 1>>
    BY <1>6, <1>11, ExtendsLonger DEF own
  <2>4. left = n - 1
    BY <2>2, <2>3
  <2> QED
    BY <1>4, <2>1, <2>4
<1> QED
  BY <1>9, <1>10, <1>11 DEF AreApart

\* The paths of a fork that are left have different states.
ChoicesDiffer(frame) ==
  frame.at[1] = "fork" =>
    \A k, l \in 1 .. Len(frame.todo) : frame.todo[k][1] = frame.todo[l][1] => k = l

LEMMA PathComes ==
  ASSUME NEW m, NEW frame, IsList(frame.todo), frame.todo # <<>>, NEW f, frame.at = <<"fork", f>>,
         IsList(frame.path.trail), ChoicesDiffer(frame),
         NEW taken, taken = Head(frame.todo),
         NEW next, NEW above, IsAtPath(m, frame, next, above, f, taken)
  PROVE  /\ ComesFrom(m, next, frame) /\ ComesFrom(m, above, frame) /\ AreApart(m, next, above)
         /\ ChoicesDiffer(next)
<1> DEFINE own == frame.path.trail
           n == Len(frame.todo)
           chosen == Append(own, ForkItem(m, f, taken[1]))
<1>1. /\ next.at = frame.at /\ next.todo = Tail(frame.todo) /\ next.path = frame.path
      /\ above.at[1] = "branch" /\ above.path.trail = chosen
  BY DEF IsAtPath, HasTrail
<1>2. /\ Len(next.todo) = n - 1 /\ n \in Nat \ {0} /\ taken = frame.todo[1]
      /\ \A k \in 1 .. n - 1 : next.todo[k] = frame.todo[k + 1]
      /\ DOMAIN next.todo = 1 .. n - 1
  BY <1>1 DEF IsList
<1>3. frame.at[1] = "fork" /\ frame.at[2] = f
  OBVIOUS
<1>4. "sequence" # "branch" /\ "sequence" # "fork" /\ "branch" # "fork"
  OBVIOUS
<1>5. \A trail : IsToCome(m, above, trail) <=> Extends(trail, chosen)
  BY <1>1, <1>4 DEF IsToCome
<1>6. \A trail : IsToCome(m, frame, trail) <=>
        \E path \in Range(frame.todo) : Extends(trail, Append(own, ForkItem(m, f, path[1])))
  BY <1>3, <1>4 DEF IsToCome
<1>7. \A trail : IsToCome(m, next, trail) <=>
        \E path \in Range(next.todo) : Extends(trail, Append(own, ForkItem(m, f, path[1])))
  BY <1>1, <1>3, <1>4 DEF IsToCome
<1>8. Range(frame.todo) = {taken} \cup Range(next.todo)
  <2> DEFINE todo == frame.todo
  <2>1. todo \in Seq(Range(todo)) /\ todo # <<>>
    BY DEF IsList
  <2> HIDE DEF todo
  <2>2. Range(todo) = {Head(todo)} \cup Range(Tail(todo))
    BY <2>1, RangeOfTail
  <2> QED BY <1>1, <2>2 DEF todo
<1>9. ComesFrom(m, next, frame) /\ ComesFrom(m, above, frame)
  BY <1>5, <1>6, <1>7, <1>8 DEF ComesFrom
<1>10. \A k \in 1 .. n - 1 : k + 1 \in 1 .. n /\ k + 1 # 1
  BY <1>2
<1>11. 1 \in 1 .. n
  BY <1>2
<1>12. \A path \in Range(next.todo) : path[1] # taken[1]
  <2>1. ASSUME NEW k \in 1 .. n - 1 PROVE next.todo[k][1] # taken[1]
    BY <1>2, <1>3, <1>10, <1>11 DEF ChoicesDiffer
  <2> QED BY <1>2, <2>1 DEF Range
<1>13. ChoicesDiffer(next)
  <2>1. ASSUME NEW k \in 1 .. n - 1, NEW l \in 1 .. n - 1, next.todo[k][1] = next.todo[l][1]
        PROVE  k = l
    <3>1. frame.todo[k + 1][1] = frame.todo[l + 1][1]
      BY <1>2, <2>1
    <3>2. k + 1 \in 1 .. n /\ l + 1 \in 1 .. n
      BY <1>10
    <3>3. k + 1 = l + 1
      <4> DEFINE k1 == k + 1
                 l1 == l + 1
      <4> HIDE DEF k1, l1
      <4>1. frame.todo[k1][1] = frame.todo[l1][1] => k1 = l1
        BY <1>3, <3>2 DEF ChoicesDiffer, k1, l1
      <4> QED BY <3>1, <4>1 DEF k1, l1
    <3> QED BY <1>2, <3>3
  <2> QED BY <1>2, <2>1 DEF ChoicesDiffer
<1>14. ASSUME NEW trail, IsToCome(m, next, trail), IsToCome(m, above, trail) PROVE FALSE
  <2>1. PICK path \in Range(next.todo) : Extends(trail, Append(own, ForkItem(m, f, path[1])))
    BY <1>7, <1>14
  <2> HIDE DEF own
  <2>2. trail[Len(own) + 1] = ForkItem(m, f, path[1])
    BY <2>1, ExtendsLonger DEF own
  <2>3. trail[Len(own) + 1] = ForkItem(m, f, taken[1])
    BY <1>5, <1>14, ExtendsLonger DEF own
  <2>4. \A state : ForkItem(m, f, state)[4] = state
    BY DEF ForkItem
  <2>5. path[1] = taken[1]
    BY <2>2, <2>3, <2>4
  <2> QED
    BY <1>12, <2>5
<1> QED
  BY <1>9, <1>13, <1>14 DEF AreApart

-----------------------------------------------------------------------------
\* Third invariant: the choices of a trail are those of a scenario.

\* No two of its choices for a functional event differ: those that count are of the
\* event tree t it is in, the others of event trees that it has left by links.
IsConsistent(trail) ==
  \A i, j \in 1 .. Len(trail) :
    /\ trail[i][1] = "fork" /\ trail[j][1] = "fork"
    /\ trail[i][2] = trail[j][2] /\ trail[i][3] = trail[j][3]
    => trail[i][4] = trail[j][4]
IsTrailIn(t, left, trail) ==
  /\ IsConsistent(trail)
  /\ \A i \in 1 .. Len(trail) : trail[i][1] = "fork" =>
       IF i \in Current(trail) THEN trail[i][2] = t ELSE trail[i][2] \in left
\* Each event tree that was left links to one of them or to t.
AreLeftFor(m, t, left) ==
  /\ left \subseteq DOMAIN m.initial /\ t \in DOMAIN m.initial /\ t \notin left
  /\ \A a \in left : \E e \in left \cup {t} : e \in LinksUnder(m, m.initial[a])

\* A frame is at branch c, or where it leads to.
IsNear(m, c, at) ==
  /\ c \in DOMAIN m.branch /\ c \in Under(m, m.initial[m.tree[c]])
  /\ at = <<"branch", c>> \/ (at = m.branch[c].target /\ at[1] # "branch")
IsIn(m, frame, c, left) ==
  /\ IsNear(m, c, frame.at) /\ AreLeftFor(m, m.tree[c], left)
  /\ IsTrailIn(m.tree[c], left, frame.path.trail)
FrameIsRight(m, frame) == ChoicesDiffer(frame) /\ \E c, left : IsIn(m, frame, c, left)

LEMMA ExecutedIsRight ==
  ASSUME NEW m, NEW frame, FrameIsRight(m, frame), frame.at[1] # "fork",
         NEW i, NEW holds, NEW next, IsExecuted(frame, next, i, holds)
  PROVE  FrameIsRight(m, next)
<1>1. next.at = frame.at /\ next.path.trail = frame.path.trail
  BY DEF IsExecuted
<1> QED
  BY <1>1 DEF FrameIsRight, IsIn, ChoicesDiffer

LEMMA GoesToIsRight ==
  ASSUME NEW m, IsDefined(m), NEW frame, FrameIsRight(m, frame), frame.at[1] = "branch",
         NEW next, GoesTo(m, frame, next)
  PROVE  FrameIsRight(m, next)
<1>1. PICK c, left : IsIn(m, frame, c, left)
  BY DEF FrameIsRight
<1> DEFINE target == m.branch[c].target
<1>2. /\ c \in DOMAIN m.branch /\ c \in Under(m, m.initial[m.tree[c]]) /\ Name(frame.at) = c
  <2>1. c \in DOMAIN m.branch /\ c \in Under(m, m.initial[m.tree[c]]) /\ frame.at = <<"branch", c>>
    BY <1>1 DEF IsIn, IsNear
  <2> QED BY <2>1 DEF Name
<1>3. target \in Targets(m) /\ (Kind(target) = "branch" => m.tree[Name(target)] = m.tree[c])
  BY <1>2, BranchOfModel
<1>4. /\ Kind(target) = "branch" => Name(target) \in DOMAIN m.branch
      /\ Kind(target) = "fork" => Name(target) \in DOMAIN m.fork
  BY <1>3, TargetOfModel
<1>5. next.path = frame.path
  BY DEF GoesTo
<1>6. CASE /\ Kind(target) = "branch" /\ next.at = <<"branch", Name(target)>>
  <2> DEFINE d == Name(target)
  <2>1. <<c, d>> \in Edges(m)
    BY <1>2, <1>6 DEF Edges, Successors
  <2>2. d \in Under(m, m.initial[m.tree[c]])
    BY <1>2, <2>1, VisitedStep DEF Under
  <2>3. IsNear(m, d, next.at) /\ m.tree[d] = m.tree[c]
    BY <1>3, <1>4, <1>6, <2>2 DEF IsNear
  <2>4. IsIn(m, next, d, left)
    BY <1>1, <1>5, <2>3 DEF IsIn
  <2>5. ChoicesDiffer(next)
    <3>1. next.at[1] # "fork"
      BY <1>6
    <3> QED BY <3>1 DEF ChoicesDiffer
  <2> QED
    BY <2>4, <2>5 DEF FrameIsRight
<1>7. CASE Kind(target) # "branch" /\ next.at = target
           /\ (Kind(target) = "fork" => next.todo = m.fork[Name(target)].paths)
  <2>1. IsNear(m, c, next.at)
    BY <1>2, <1>7 DEF IsNear, Kind
  <2>2. IsIn(m, next, c, left)
    BY <1>1, <1>5, <2>1 DEF IsIn
  <2>3. ChoicesDiffer(next)
    <3> SUFFICES ASSUME next.at[1] = "fork"
                 PROVE  \A k, l \in 1 .. Len(next.todo) : next.todo[k][1] = next.todo[l][1] => k = l
      BY DEF ChoicesDiffer
    <3> DEFINE paths == m.fork[Name(target)].paths
    <3>1. Kind(target) = "fork"
      BY <1>7 DEF Kind
    <3>2. IsList(paths) /\ \A k, l \in DOMAIN paths : paths[k][1] = paths[l][1] => k = l
      BY <1>4, <3>1 DEF IsDefined, ForkIsDefined
    <3>3. next.todo = paths
      BY <1>7, <3>1
    <3> HIDE DEF paths
    <3>4. DOMAIN paths = 1 .. Len(paths)
      BY <3>2 DEF IsList
    <3> QED
      BY <3>2, <3>3, <3>4
  <2> QED
    BY <2>2, <2>3 DEF FrameIsRight
<1>8. \/ /\ Kind(target) = "branch" /\ next.at = <<"branch", Name(target)>>
      \/ /\ Kind(target) # "branch" /\ next.at = target
         /\ (Kind(target) = "fork" => next.todo = m.fork[Name(target)].paths)
  <2>1. "sequence" # "branch" /\ "sequence" # "fork" /\ "fork" # "branch"
    OBVIOUS
  <2> HIDE DEF target
  <2> QED BY <1>2, <2>1 DEF GoesTo, target
<1> QED
  BY <1>6, <1>7, <1>8

\* A link leads to an event tree that the trail has not been in.
LEMMA NewTreeAtLink ==
  ASSUME NEW m, LinksAreAcyclic(m), NEW t, NEW left, AreLeftFor(m, t, left),
         NEW tree \in DOMAIN m.initial, tree \in LinksUnder(m, m.initial[t])
  PROVE  AreLeftFor(m, tree, left \cup {t})
<1> DEFINE S == left \cup {t}
           edges == UNION {{u} \X LinksUnder(m, m.initial[u]) : u \in DOMAIN m.initial}
<1>1. S \subseteq DOMAIN m.initial /\ S # {}
  BY DEF AreLeftFor
<1>2. \A a \in S : \E e \in S \cup {tree} : e \in LinksUnder(m, m.initial[a])
  BY DEF AreLeftFor
<1>3. ~HasCycle(edges)
  BY DEF LinksAreAcyclic
<1>4. ASSUME tree \in S PROVE FALSE
  <2>1. ASSUME NEW a \in S PROVE \E edge \in edges : edge[1] = a /\ edge[2] \in S
    <3>1. PICK e \in S : e \in LinksUnder(m, m.initial[a])
      BY <1>2, <1>4
    <3>2. <<a, e>> \in edges
      BY <1>1, <3>1
    <3>3. <<a, e>>[1] = a /\ <<a, e>>[2] = e
      OBVIOUS
    <3> HIDE DEF edges
    <3> QED BY <3>1, <3>2, <3>3
  <2> HIDE DEF edges
  <2>2. S \in SUBSET {edge[1] : edge \in edges}
    BY <2>1
  <2> QED
    BY <1>1, <1>3, <2>1, <2>2 DEF HasCycle
<1> QED
  BY <1>1, <1>2, <1>4 DEF AreLeftFor

\* A longer trail is right if what it adds is.
LEMMA TrailWithLink ==
  ASSUME NEW trail, IsList(trail), NEW t, NEW left, IsTrailIn(t, left, trail), NEW tree, NEW n
  PROVE  IsTrailIn(tree, left \cup {t}, Append(trail, <<"link", tree, n>>))
<1> DEFINE item == <<"link", tree, n>>
           longer == Append(trail, item)
           k == Len(trail)
<1>1. item[1] # "fork"
  OBVIOUS
<1>2. Current(longer) = {}
  BY MetAfterLink
<1> HIDE DEF item
<1>3. /\ k \in Nat /\ Len(longer) = k + 1 /\ longer[k + 1] = item
      /\ \A i \in 1 .. k : longer[i] = trail[i]
  BY AppendToList
<1>4. \A i \in 1 .. k + 1 : i \in 1 .. k \/ i = k + 1
  BY <1>3
<1> HIDE DEF longer, k
<1>5. \A i \in 1 .. k + 1 : longer[i][1] = "fork" => i \in 1 .. k /\ longer[i] = trail[i]
  BY <1>1, <1>3, <1>4
<1>6. \A i \in 1 .. k : trail[i][1] = "fork" => trail[i][2] \in left \cup {t}
  BY DEF IsTrailIn, k
<1>7. IsConsistent(longer)
  BY <1>3, <1>5 DEF IsTrailIn, IsConsistent, k
<1>8. IsTrailIn(tree, left \cup {t}, longer)
  BY <1>2, <1>3, <1>5, <1>6, <1>7 DEF IsTrailIn
<1> QED
  BY <1>8 DEF longer, item

LEMMA TrailWithChoice ==
  ASSUME NEW trail, IsList(trail), NEW t, NEW left, t \notin left, IsTrailIn(t, left, trail),
         NEW event, event \notin Met(trail), NEW state
  PROVE  IsTrailIn(t, left, Append(trail, <<"fork", t, event, state>>))
<1> DEFINE item == <<"fork", t, event, state>>
           longer == Append(trail, item)
           k == Len(trail)
<1>1. /\ Current(longer) = Current(trail) \cup {k + 1}
      /\ k \in Nat /\ Current(trail) \subseteq 1 .. k
  BY MetAfterChoice
<1>2. item[1] = "fork" /\ item[2] = t /\ item[3] = event /\ item[4] = state
  OBVIOUS
<1> HIDE DEF item
<1>3. /\ Len(longer) = k + 1 /\ longer[k + 1] = item
      /\ \A i \in 1 .. k : longer[i] = trail[i]
  BY AppendToList
<1>4. \A i \in 1 .. k + 1 : (i \in 1 .. k /\ i # k + 1) \/ i = k + 1
  BY <1>1
<1> HIDE DEF longer, k
<1>5. ASSUME NEW i \in 1 .. k, trail[i][1] = "fork", trail[i][2] = t, trail[i][3] = event
      PROVE  FALSE
  <2>1. i \in Current(trail)
    BY <1>5 DEF IsTrailIn, k
  <2> QED BY <1>5, <2>1 DEF Met
<1>6. ASSUME NEW i \in 1 .. k + 1, longer[i][1] = "fork"
      PROVE  IF i \in Current(longer) THEN longer[i][2] = t ELSE longer[i][2] \in left
  <2>1. CASE i = k + 1
    BY <1>1, <1>2, <1>3, <2>1
  <2>2. CASE i \in 1 .. k /\ i # k + 1
    <3>1. i \in Current(longer) <=> i \in Current(trail)
      BY <1>1, <2>2
    <3>2. IF i \in Current(trail) THEN trail[i][2] = t ELSE trail[i][2] \in left
      BY <1>3, <1>6, <2>2 DEF IsTrailIn, k
    <3> QED BY <1>3, <2>2, <3>1, <3>2
  <2> QED BY <1>4, <2>1, <2>2
<1>7. ASSUME NEW i \in 1 .. k + 1, NEW j \in 1 .. k + 1, longer[i][1] = "fork", longer[j][1] = "fork",
             longer[i][2] = longer[j][2], longer[i][3] = longer[j][3]
      PROVE  longer[i][4] = longer[j][4]
  <2>1. CASE i = k + 1 /\ j = k + 1
    BY <2>1
  <2>2. CASE i = k + 1 /\ j \in 1 .. k
    BY <1>2, <1>3, <1>5, <1>7, <2>2
  <2>3. CASE i \in 1 .. k /\ j = k + 1
    BY <1>2, <1>3, <1>5, <1>7, <2>3
  <2>4. CASE i \in 1 .. k /\ j \in 1 .. k
    <3>1. longer[i] = trail[i] /\ longer[j] = trail[j]
      BY <1>3, <2>4
    <3> QED BY <1>7, <2>4, <3>1 DEF IsTrailIn, IsConsistent, k
  <2> QED BY <1>4, <2>1, <2>2, <2>3, <2>4
<1>8. IsConsistent(longer)
  BY <1>3, <1>7 DEF IsConsistent
<1>9. IsTrailIn(t, left, longer)
  BY <1>3, <1>6, <1>8 DEF IsTrailIn
<1> QED
  BY <1>9 DEF longer, item

LEMMA LinkIsRight ==
  ASSUME NEW m, IsDefined(m), LinksAreAcyclic(m), NEW frame, FrameIsRight(m, frame),
         NEW s, frame.at = <<"sequence", s>>, IsPath(frame.path), IsList(frame.path.trail),
         NEW i \in Range(m.sequence[s]), i.do = "link", i.tree \in DOMAIN m.initial,
         NEW next, NEW above, IsAtLink(m, frame, next, above, i)
  PROVE  FrameIsRight(m, next) /\ FrameIsRight(m, above)
<1> DEFINE own == frame.path.trail
           tree == i.tree
           n == Len(frame.todo) - 1
           first == m.initial[tree]
<1>1. PICK c, left : IsIn(m, frame, c, left)
  BY DEF FrameIsRight
<1>2. /\ next.at = frame.at /\ next.path = frame.path /\ above.at = <<"branch", first>>
      /\ above.path = Relinked(frame.path, tree, n)
  BY DEF IsAtLink
<1>3. frame.at[1] # "fork" /\ above.at[1] # "fork" /\ frame.at[1] # "branch"
  BY <1>2
<1>4. FrameIsRight(m, next)
  BY <1>1, <1>2, <1>3 DEF FrameIsRight, IsIn, ChoicesDiffer
<1>5. /\ c \in DOMAIN m.branch /\ c \in Under(m, m.initial[m.tree[c]])
      /\ m.branch[c].target = <<"sequence", s>>
  BY <1>1, <1>3 DEF IsIn, IsNear
<1>6. tree \in LinksUnder(m, m.initial[m.tree[c]])
  <2>1. s \in SequencesUnder(m, m.initial[m.tree[c]])
    BY <1>5 DEF SequencesUnder, Kind, Name
  <2> QED BY <2>1 DEF LinksUnder
<1>7. AreLeftFor(m, tree, left \cup {m.tree[c]})
  BY <1>1, <1>6, NewTreeAtLink DEF IsIn
<1>8. first \in DOMAIN m.branch /\ m.tree[first] = tree /\ first \in Under(m, first)
  BY VisitedStart DEF IsDefined, Under
<1>9. above.path.trail = Append(own, <<"link", tree, n>>)
  BY <1>2, RelinkedPath DEF HasTrail
<1>10. IsTrailIn(tree, left \cup {m.tree[c]}, Append(own, <<"link", tree, n>>))
  <2> HIDE DEF n, tree, own
  <2>1. IsList(own) /\ IsTrailIn(m.tree[c], left, own)
    BY <1>1 DEF IsIn, own
  <2> QED BY <2>1, TrailWithLink
<1>11. IsNear(m, first, above.at)
  BY <1>2, <1>8 DEF IsNear
<1> HIDE DEF own, tree, n, first
<1>12. IsIn(m, above, first, left \cup {m.tree[c]})
  BY <1>7, <1>8, <1>9, <1>10, <1>11 DEF IsIn
<1>13. ChoicesDiffer(above)
  BY <1>3 DEF ChoicesDiffer
<1> QED
  BY <1>4, <1>12, <1>13 DEF FrameIsRight

LEMMA PathIsRight ==
  ASSUME NEW m, IsDefined(m), NEW frame, FrameIsRight(m, frame),
         NEW f \in DOMAIN m.fork, frame.at = <<"fork", f>>, IsList(frame.path.trail),
         m.fork[f].event \notin Met(frame.path.trail),
         NEW taken \in Paths(m, f),
         NEW next, ChoicesDiffer(next), NEW above, IsAtPath(m, frame, next, above, f, taken)
  PROVE  FrameIsRight(m, next) /\ FrameIsRight(m, above)
<1> DEFINE own == frame.path.trail
           event == m.fork[f].event
           state == taken[1]
           d == taken[2]
<1>1. PICK c, left : IsIn(m, frame, c, left)
  BY DEF FrameIsRight
<1>2. /\ next.at = frame.at /\ next.path = frame.path /\ above.at = <<"branch", d>>
      /\ above.path.trail = Append(own, <<"fork", m.fork[f].tree, event, state>>)
  BY DEF IsAtPath, HasTrail, ForkItem
<1>3. above.at[1] # "fork" /\ frame.at[1] # "branch"
  BY <1>2
<1>4. FrameIsRight(m, next)
  BY <1>1, <1>2 DEF FrameIsRight, IsIn
<1>5. c \in DOMAIN m.branch /\ c \in Under(m, m.initial[m.tree[c]]) /\ m.branch[c].target = <<"fork", f>>
  BY <1>1, <1>3 DEF IsIn, IsNear
<1>6. m.fork[f].tree = m.tree[c]
  BY <1>5, BranchOfModel DEF Kind, Name
<1>7. d \in DOMAIN m.branch /\ m.tree[d] = m.tree[c]
  BY <1>6, ForkOfModel
<1>8. d \in Under(m, m.initial[m.tree[c]])
  <2>1. d \in Successors(m, c)
    BY <1>5 DEF Successors, Kind, Name
  <2>2. <<c, d>> \in Edges(m)
    BY <1>5, <2>1 DEF Edges
  <2> QED BY <1>5, <2>2, VisitedStep DEF Under
<1>9. IsNear(m, d, above.at)
  BY <1>2, <1>7, <1>8 DEF IsNear
<1>10. IsTrailIn(m.tree[c], left, Append(own, <<"fork", m.tree[c], event, state>>))
  <2> HIDE DEF own, event, state
  <2>1. /\ IsList(own) /\ IsTrailIn(m.tree[c], left, own) /\ m.tree[c] \notin left
        /\ event \notin Met(own)
    BY <1>1 DEF IsIn, AreLeftFor, own, event
  <2> QED BY <2>1, TrailWithChoice
<1> HIDE DEF own, event, state, d
<1>11. IsIn(m, above, d, left)
  BY <1>1, <1>2, <1>6, <1>7, <1>9, <1>10 DEF IsIn
<1>12. ChoicesDiffer(above)
  BY <1>3 DEF ChoicesDiffer
<1> QED
  BY <1>4, <1>11, <1>12 DEF FrameIsRight

\* A walk begins in its own event tree.
LEMMA FirstIsRight ==
  ASSUME NEW m, IsDefined(m), NEW t \in DOMAIN m.initial, NEW frame,
         frame.at = <<"branch", m.initial[t]>>, frame.path = EmptyPath
  PROVE  FrameIsRight(m, frame)
<1> DEFINE c == m.initial[t]
<1>1. c \in DOMAIN m.branch /\ m.tree[c] = t /\ c \in Under(m, c)
  BY VisitedStart DEF IsDefined, Under
<1>2. frame.path.trail = <<>> /\ Len(<<>>) = 0 /\ 1 .. 0 = {}
  BY DEF EmptyPath
<1>3. IsNear(m, c, frame.at)
  BY <1>1 DEF IsNear
<1>4. AreLeftFor(m, t, {})
  BY DEF AreLeftFor
<1>5. IsTrailIn(t, {}, <<>>)
  BY <1>2 DEF IsTrailIn, IsConsistent
<1>6. frame.at[1] # "fork"
  OBVIOUS
<1> HIDE DEF c
<1>7. IsIn(m, frame, c, {})
  BY <1>1, <1>2, <1>3, <1>4, <1>5 DEF IsIn
<1> QED
  BY <1>6, <1>7 DEF FrameIsRight, ChoicesDiffer

-----------------------------------------------------------------------------
\* The second and third invariants over the stack and the paths found.

FramesAreRight(m, frames) ==
  /\ \A i \in 1 .. Len(frames) : FrameIsRight(m, frames[i])
  /\ \A i, j \in 1 .. Len(frames) : i # j => AreApart(m, frames[i], frames[j])
NothingIsFoundTwice(paths) ==
  \A k, l \in DOMAIN paths : paths[k].trail = paths[l].trail => k = l
IsNotToCome(m, frames, trail) == \A i \in 1 .. Len(frames) : ~IsToCome(m, frames[i], trail)
PathsAreRight(m, frames, found) ==
  \A s \in DOMAIN found :
    /\ IsList(found[s]) /\ found[s] # <<>> /\ NothingIsFoundTwice(found[s])
    /\ \A p \in Range(found[s]) : IsConsistent(p.trail) /\ IsNotToCome(m, frames, p.trail)
AreRight(m, frames, found) == FramesAreRight(m, frames) /\ PathsAreRight(m, frames, found)

\* New frames come from old ones: frame i from frame from[i], or two from one.
FramesComeFrom(m, new, frames, from) ==
  \A i \in 1 .. Len(new) : from[i] \in 1 .. Len(frames) /\ ComesFrom(m, new[i], frames[from[i]])
LEMMA RightFrames ==
  ASSUME NEW m, NEW frames, NEW found, AreRight(m, frames, found),
         NEW new, NEW from, FramesComeFrom(m, new, frames, from),
         \A i \in 1 .. Len(new) : FrameIsRight(m, new[i]),
         \A i, j \in 1 .. Len(new) : i # j /\ from[i] = from[j] => AreApart(m, new[i], new[j])
  PROVE  AreRight(m, new, found)
<1>1. ASSUME NEW i \in 1 .. Len(new), NEW j \in 1 .. Len(new), i # j
      PROVE  AreApart(m, new[i], new[j])
  <2>1. CASE from[i] = from[j]
    BY <1>1, <2>1
  <2>2. CASE from[i] # from[j]
    <3>1. AreApart(m, frames[from[i]], frames[from[j]])
      BY <2>2 DEF AreRight, FramesAreRight, FramesComeFrom
    <3>2. ComesFrom(m, new[i], frames[from[i]]) /\ ComesFrom(m, new[j], frames[from[j]])
      BY DEF FramesComeFrom
    <3> QED BY <3>1, <3>2 DEF AreApart, ComesFrom
  <2> QED BY <2>1, <2>2
<1>2. FramesAreRight(m, new)
  BY <1>1 DEF FramesAreRight
<1>3. ASSUME NEW trail, IsNotToCome(m, frames, trail) PROVE IsNotToCome(m, new, trail)
  BY <1>3 DEF IsNotToCome, FramesComeFrom, ComesFrom
<1>4. PathsAreRight(m, new, found)
  BY <1>3 DEF AreRight, PathsAreRight
<1> QED
  BY <1>2, <1>4 DEF AreRight

LEMMA ComesFromSelf ==
  ASSUME NEW m, NEW frame PROVE ComesFrom(m, frame, frame)
  BY DEF ComesFrom

LEMMA RightReplaced ==
  ASSUME NEW m, NEW frames, NEW frame, IsWalking(m, frames, frame),
         NEW found, AreRight(m, frames, found),
         NEW next, FrameIsRight(m, next), ComesFrom(m, next, frame)
  PROVE  AreRight(m, Replaced(frames, next), found)
<1> DEFINE n == Len(frames)
           new == Replaced(frames, next)
           from == [i \in 1 .. n |-> i]
<1>1. /\ n \in Nat \ {0} /\ Len(new) = n /\ new[n] = next /\ frame = frames[n]
      /\ \A i \in 1 .. n - 1 : new[i] = frames[i]
  BY ReplacedTop DEF IsWalking, Replaced
<1> HIDE DEF new
<1>2. \A i \in 1 .. n : i \in 1 .. n - 1 \/ i = n
  BY <1>1
<1>3. \A i \in 1 .. n : from[i] = i
  OBVIOUS
<1> HIDE DEF from, n
<1>4. FramesComeFrom(m, new, frames, from)
  BY <1>1, <1>2, <1>3, ComesFromSelf DEF FramesComeFrom, n
<1>5. \A i \in 1 .. n : FrameIsRight(m, new[i])
  BY <1>1, <1>2 DEF AreRight, FramesAreRight, n
<1>6. \A i, j \in 1 .. Len(new) : i # j /\ from[i] = from[j] => AreApart(m, new[i], new[j])
  BY <1>1, <1>3
<1>7. AreRight(m, new, found)
  BY <1>1, <1>4, <1>5, <1>6, RightFrames
<1> QED
  BY <1>7 DEF new

LEMMA RightPushed ==
  ASSUME NEW m, NEW frames, NEW frame, IsWalking(m, frames, frame),
         NEW found, AreRight(m, frames, found),
         NEW next, FrameIsRight(m, next), ComesFrom(m, next, frame),
         NEW above, FrameIsRight(m, above), ComesFrom(m, above, frame), AreApart(m, next, above)
  PROVE  AreRight(m, Pushed(frames, next, above), found)
<1> DEFINE n == Len(frames)
           new == Pushed(frames, next, above)
           from == [i \in 1 .. n + 1 |-> IF i = n + 1 THEN n ELSE i]
<1>1. IsPushed(new, frames, next, above) /\ frame = frames[n]
  BY PushedTop DEF IsWalking, Pushed
<1> HIDE DEF new
<1>2. /\ n \in Nat \ {0} /\ Len(new) = n + 1 /\ new[n] = next /\ new[n + 1] = above
      /\ \A i \in 1 .. n - 1 : new[i] = frames[i]
  BY <1>1 DEF IsPushed
<1>3. \A i \in 1 .. n + 1 : (i \in 1 .. n - 1 /\ i \in 1 .. n /\ i # n /\ i # n + 1) \/ i = n \/ i = n + 1
  BY <1>2
<1>4. n \in 1 .. n /\ n # n + 1 /\ n \in 1 .. n + 1
  BY <1>2
<1>5. from[n + 1] = n /\ \A i \in 1 .. n + 1 : i # n + 1 => from[i] = i
  BY <1>2
<1> HIDE DEF from, n
<1>6. FramesComeFrom(m, new, frames, from)
  <2>1. ASSUME NEW i \in 1 .. n + 1
        PROVE  from[i] \in 1 .. n /\ ComesFrom(m, new[i], frames[from[i]])
    <3>1. CASE i \in 1 .. n - 1 /\ i \in 1 .. n /\ i # n /\ i # n + 1
      BY <1>2, <1>5, <3>1, ComesFromSelf
    <3>2. CASE i = n
      BY <1>1, <1>2, <1>4, <1>5, <3>2
    <3>3. CASE i = n + 1
      BY <1>1, <1>2, <1>4, <1>5, <3>3
    <3> QED BY <1>3, <3>1, <3>2, <3>3
  <2> QED BY <1>2, <2>1 DEF FramesComeFrom, n
<1>7. \A i \in 1 .. n + 1 : FrameIsRight(m, new[i])
  BY <1>2, <1>3 DEF AreRight, FramesAreRight, n
<1>8. AreApart(m, above, next)
  BY DEF AreApart
<1>9. ASSUME NEW i \in 1 .. n + 1, NEW j \in 1 .. n + 1, i # j, from[i] = from[j]
      PROVE  AreApart(m, new[i], new[j])
  <2>1. (i = n + 1 /\ j = n) \/ (i = n /\ j = n + 1)
    BY <1>3, <1>4, <1>5, <1>9
  <2> QED BY <1>2, <1>8, <2>1
<1>10. AreRight(m, new, found)
  BY <1>2, <1>6, <1>7, <1>9, RightFrames
<1> QED
  BY <1>10 DEF new

LEMMA SamePlaceIsRight ==
  ASSUME NEW m, NEW frame, NEW other, SamePlace(frame, other)
  PROVE  ComesFrom(m, frame, other) /\ (FrameIsRight(m, other) => FrameIsRight(m, frame))
<1>1. /\ frame.at = other.at /\ frame.todo = other.todo /\ frame.path = other.path
      /\ frame.is_linked = other.is_linked
  BY DEF SamePlace
<1>2. ComesFrom(m, frame, other)
  BY <1>1 DEF ComesFrom, IsToCome
<1>3. FrameIsRight(m, other) => FrameIsRight(m, frame)
  BY <1>1 DEF FrameIsRight, IsIn, ChoicesDiffer
<1> QED
  BY <1>2, <1>3

LEMMA RightPopped ==
  ASSUME NEW m, NEW frames, NEW frame, IsWalking(m, frames, frame),
         NEW found, AreRight(m, frames, found)
  PROVE  /\ AreRight(m, Popped(frames), found)
         /\ \A trail : IsToCome(m, frame, trail) => IsNotToCome(m, Popped(frames), trail)
<1> DEFINE n == Len(frames)
           new == Popped(frames)
           from == [i \in 1 .. n |-> i]
<1>1. /\ n \in Nat \ {0} /\ Len(new) = n - 1 /\ frame = frames[n]
      /\ \A i \in 1 .. n - 1 : SamePlace(new[i], frames[i])
  BY PoppedTop DEF IsWalking, Popped
<1> HIDE DEF new
<1>2. n \in 1 .. n /\ \A i \in 1 .. n - 1 : i \in 1 .. n /\ i # n
  BY <1>1
<1>3. \A i \in 1 .. n - 1 : from[i] = i
  BY <1>2
<1> HIDE DEF from, n
<1>4. \A i \in 1 .. n - 1 : ComesFrom(m, new[i], frames[i])
  BY <1>1, SamePlaceIsRight
<1>5. FramesComeFrom(m, new, frames, from)
  BY <1>1, <1>2, <1>3, <1>4 DEF FramesComeFrom, n
<1>6. \A i \in 1 .. n - 1 : FrameIsRight(m, new[i])
  BY <1>1, <1>2, SamePlaceIsRight DEF AreRight, FramesAreRight, n
<1>7. \A i, j \in 1 .. Len(new) : i # j /\ from[i] = from[j] => AreApart(m, new[i], new[j])
  BY <1>1, <1>3
<1>8. AreRight(m, new, found)
  BY <1>1, <1>5, <1>6, <1>7, RightFrames
<1>9. ASSUME NEW trail, IsToCome(m, frame, trail) PROVE IsNotToCome(m, new, trail)
  <2>1. ASSUME NEW i \in 1 .. n - 1 PROVE ~IsToCome(m, new[i], trail)
    <3>1. AreApart(m, frames[i], frames[n])
      BY <1>2 DEF AreRight, FramesAreRight, n
    <3> QED BY <1>1, <1>4, <1>9, <3>1 DEF AreApart, ComesFrom
  <2> QED BY <1>1, <2>1 DEF IsNotToCome
<1> QED
  BY <1>8, <1>9 DEF new

\* A path that was to come is found.
LEMMA RightAdded ==
  ASSUME NEW m, NEW frames, NEW found, AreRight(m, frames, found),
         NEW path, IsConsistent(path.trail), IsNotToCome(m, frames, path.trail),
         \A t \in DOMAIN found : \A p \in Range(found[t]) : p.trail # path.trail, NEW s
  PROVE  AreRight(m, frames, AddedTo(found, s, path))
<1> DEFINE new == AddedTo(found, s, path)
           old == IF s \in DOMAIN found THEN found[s] ELSE <<>>
<1>1. \A t \in DOMAIN found :
        /\ IsList(found[t]) /\ found[t] # <<>> /\ NothingIsFoundTwice(found[t])
        /\ \A p \in Range(found[t]) : IsConsistent(p.trail) /\ IsNotToCome(m, frames, p.trail)
  BY DEF AreRight, PathsAreRight
<1>2. IsAdded(new, found, s, path)
  BY <1>1, AddedPaths
<1> HIDE DEF new
<1>3. /\ DOMAIN new = DOMAIN found \cup {s} /\ \A t \in DOMAIN found : t # s => new[t] = found[t]
      /\ new[s] = Append(old, path)
      /\ Range(new[s]) = (IF s \in DOMAIN found THEN Range(found[s]) ELSE {}) \cup {path}
      /\ IsList(new[s])
  BY <1>2 DEF IsAdded
<1>4. IsList(old) /\ NothingIsFoundTwice(old) /\ \A p \in Range(old) : p.trail # path.trail
  <2>1. IsList(<<>>) /\ DOMAIN <<>> = {}
    BY DEF IsList, Range
  <2> QED BY <1>1, <2>1 DEF NothingIsFoundTwice, Range
<1> HIDE DEF old
<1> DEFINE n == Len(old)
           longer == Append(old, path)
<1>5. /\ n \in Nat /\ IsList(longer) /\ Len(longer) = n + 1 /\ longer[n + 1] = path
      /\ \A k \in 1 .. n : longer[k] = old[k]
  BY <1>4, AppendToList
<1>6. DOMAIN longer = 1 .. n + 1 /\ DOMAIN old = 1 .. n
  BY <1>4, <1>5 DEF IsList
<1>7. n + 1 \in 1 .. n + 1 /\ \A k \in 1 .. n + 1 : k \in 1 .. n \/ k = n + 1
  BY <1>5
<1> HIDE DEF n, longer
<1>8. \A k \in 1 .. n : longer[k].trail # path.trail
  BY <1>4, <1>5, <1>6 DEF Range
<1>9. NothingIsFoundTwice(longer)
  <2>1. ASSUME NEW k \in 1 .. n + 1, NEW l \in 1 .. n + 1, longer[k].trail = longer[l].trail
        PROVE  k = l
    <3>1. CASE k \in 1 .. n /\ l \in 1 .. n
      BY <1>4, <1>5, <1>6, <2>1, <3>1 DEF NothingIsFoundTwice
    <3>2. CASE k = n + 1 /\ l \in 1 .. n
      BY <1>5, <1>8, <2>1, <3>2
    <3>3. CASE k \in 1 .. n /\ l = n + 1
      BY <1>5, <1>8, <2>1, <3>3
    <3> QED BY <1>7, <3>1, <3>2, <3>3
  <2> QED BY <1>6, <2>1 DEF NothingIsFoundTwice
<1>10. longer # <<>>
  <2>1. Len(<<>>) = 0 /\ n + 1 # 0
    BY <1>5
  <2> QED BY <1>5, <2>1
<1>11. new[s] = longer
  BY <1>3 DEF longer
<1>12. ASSUME NEW t \in DOMAIN new
       PROVE  /\ IsList(new[t]) /\ new[t] # <<>> /\ NothingIsFoundTwice(new[t])
              /\ \A p \in Range(new[t]) : IsConsistent(p.trail) /\ IsNotToCome(m, frames, p.trail)
  <2>1. CASE t = s
    BY <1>1, <1>3, <1>9, <1>10, <1>11, <2>1
  <2>2. CASE t # s
    BY <1>1, <1>3, <2>2
  <2> QED BY <2>1, <2>2
<1>13. AreRight(m, frames, new)
  BY <1>12 DEF AreRight, PathsAreRight
<1> QED
  BY <1>13 DEF new

NothingIsTwice == phase \in {"walk", "join"} => AreRight(model, stack, sequences)

LEMMA RightExecuted ==
  ASSUME IInv, NothingIsTwice, PassOver \/ Visit
  PROVE  NothingIsTwice'
<1>1. /\ Executing /\ phase = "walk" /\ stack # <<>> /\ Top.todo # <<>> /\ Top.at[1] # "fork"
      /\ Holds(Instruction) => Instruction.do \in {"set", "formula", "expression"}
      /\ UNCHANGED <<model, phase, pending, initiating_event, sequences, gates>>
  BY ExecutedStep
<1>2. PICK next : /\ stack' = Replaced(stack, next)
                  /\ IsExecuted(Top, next, Instruction, Holds(Instruction))
  BY ExecutedStep
<1>3. IsWalking(model, stack, Top) /\ AreRight(model, stack, sequences)
  BY <1>1, TopIsWalking DEF NothingIsTwice
<1>4. FrameIsRight(model, Top) /\ IsList(Top.todo)
  BY <1>3 DEF AreRight, FramesAreRight, IsWalking, IsList
<1> DEFINE frame == Top
           i == Instruction
           holds == Holds(Instruction)
<1>5. FrameIsRight(model, next) /\ ComesFrom(model, next, frame)
  <2>1. /\ FrameIsRight(model, frame) /\ IsList(frame.todo) /\ frame.todo # <<>>
        /\ frame.at[1] # "fork" /\ IsExecuted(frame, next, i, holds)
    BY <1>1, <1>2, <1>4
  <2> HIDE DEF frame, i, holds
  <2> QED
    BY <2>1, ExecutedIsRight, ExecutedComes
<1>6. AreRight(model, Replaced(stack, next), sequences)
  BY <1>3, <1>5, RightReplaced
<1> QED
  BY <1>1, <1>2, <1>6 DEF NothingIsTwice

LEMMA RightLink ==
  ASSUME IInv, NothingIsTwice, VisitLink
  PROVE  NothingIsTwice'
<1>1. /\ Executing /\ phase = "walk" /\ stack # <<>> /\ Top.todo # <<>>
      /\ Top.at[1] = "sequence" /\ Instruction.do = "link" /\ Holds(Instruction)
      /\ Instruction.tree \in DOMAIN model.initial
      /\ UNCHANGED <<model, phase, pending, initiating_event, sequences, gates>>
  BY LinkStep
<1>2. PICK next, above : /\ stack' = Pushed(stack, next, above)
                         /\ IsAtLink(model, Top, next, above, Instruction)
  BY LinkStep
<1>3. IsWalking(model, stack, Top) /\ AreRight(model, stack, sequences)
  BY <1>1, TopIsWalking DEF NothingIsTwice
<1>4. FrameIsRight(model, Top) /\ IsList(Top.todo)
  BY <1>3 DEF AreRight, FramesAreRight, IsWalking, IsList
<1>5. LinksAreAcyclic(model) /\ FrameIsGood(model, Beginning, Top)
  BY <1>1, TopIsGood DEF IsValid
<1>6. PICK s \in DOMAIN model.sequence : /\ Top.at = <<"sequence", s>>
                                         /\ Top.todo \in Seq(Range(model.sequence[s]))
  BY <1>1, <1>5, FrameAtSequence DEF AtSequenceIsGood
<1> DEFINE frame == Top
           i == Instruction
<1>7. i \in Range(model.sequence[s])
  BY <1>1, <1>6, HeadAndTail DEF Instruction
<1>8. /\ FrameIsRight(model, next) /\ ComesFrom(model, next, frame)
      /\ FrameIsRight(model, above) /\ ComesFrom(model, above, frame) /\ AreApart(model, next, above)
  <2>1. /\ IsDefined(model) /\ FrameIsRight(model, frame) /\ IsList(frame.todo) /\ frame.todo # <<>>
        /\ frame.at[1] = "sequence" /\ frame.at = <<"sequence", s>>
        /\ IsPath(frame.path) /\ IsList(frame.path.trail)
        /\ i.do = "link" /\ i.tree \in DOMAIN model.initial /\ IsAtLink(model, frame, next, above, i)
    BY <1>1, <1>2, <1>3, <1>4, <1>6 DEF IsWalking
  <2> HIDE DEF frame, i
  <2>2. FrameIsRight(model, next) /\ FrameIsRight(model, above)
    BY <1>5, <1>7, <2>1, LinkIsRight
  <2>3. ComesFrom(model, next, frame) /\ ComesFrom(model, above, frame) /\ AreApart(model, next, above)
    BY <2>1, LinkComes
  <2> QED BY <2>2, <2>3
<1>9. AreRight(model, Pushed(stack, next, above), sequences)
  BY <1>3, <1>8, RightPushed
<1> QED
  BY <1>1, <1>2, <1>9 DEF NothingIsTwice

LEMMA RightGo ==
  ASSUME IInv, NothingIsTwice, GoOn \/ EnterFork
  PROVE  NothingIsTwice'
<1>1. /\ phase = "walk" /\ stack # <<>> /\ Top.at[1] = "branch" /\ Top.todo = <<>>
      /\ UNCHANGED <<model, phase, pending, initiating_event, sequences, gates>>
  BY GoStep
<1>2. PICK next : stack' = Replaced(stack, next) /\ GoesTo(model, Top, next)
  BY GoStep
<1>3. IsWalking(model, stack, Top) /\ AreRight(model, stack, sequences)
  BY <1>1, TopIsWalking DEF NothingIsTwice
<1>4. FrameIsRight(model, Top)
  BY <1>3 DEF AreRight, FramesAreRight, IsWalking, IsList
<1> DEFINE frame == Top
<1>5. FrameIsRight(model, next) /\ ComesFrom(model, next, frame)
  <2>1. /\ IsDefined(model) /\ FrameIsRight(model, frame) /\ frame.at[1] = "branch"
        /\ IsList(frame.path.trail) /\ GoesTo(model, frame, next)
    BY <1>1, <1>2, <1>3, <1>4 DEF IsWalking
  <2> HIDE DEF frame
  <2> QED
    BY <2>1, GoesToIsRight, GoesToComes
<1>6. AreRight(model, Replaced(stack, next), sequences)
  BY <1>3, <1>5, RightReplaced
<1> QED
  BY <1>1, <1>2, <1>6 DEF NothingIsTwice

LEMMA RightPath ==
  ASSUME IInv, NothingIsTwice, TakePath
  PROVE  NothingIsTwice'
<1>1. /\ AtFork /\ phase = "walk" /\ stack # <<>> /\ Top.todo # <<>>
      /\ UNCHANGED <<model, phase, pending, initiating_event, sequences, gates>>
  BY PathStep
<1>2. PICK next, above : /\ stack' = Pushed(stack, next, above)
                         /\ IsAtPath(model, Top, next, above, Name(Top.at), Head(Top.todo))
  BY PathStep
<1>3. IsWalking(model, stack, Top) /\ AreRight(model, stack, sequences)
  BY <1>1, TopIsWalking DEF NothingIsTwice
<1>4. FrameIsRight(model, Top) /\ IsList(Top.todo)
  BY <1>3 DEF AreRight, FramesAreRight, IsWalking, IsList
<1>5. PICK f \in DOMAIN model.fork :
           /\ Top.at = <<"fork", f>> /\ Name(Top.at) = f /\ Top.todo \in Seq(Paths(model, f))
           /\ Event(f) \notin Met(Top.path.trail)
  BY <1>1, TopAtFork
<1> DEFINE frame == Top
           taken == Head(Top.todo)
<1>6. taken \in Paths(model, f)
  BY <1>1, <1>5, HeadAndTail
<1>7. /\ FrameIsRight(model, next) /\ ComesFrom(model, next, frame)
      /\ FrameIsRight(model, above) /\ ComesFrom(model, above, frame) /\ AreApart(model, next, above)
  <2>1. /\ IsDefined(model) /\ FrameIsRight(model, frame) /\ IsList(frame.todo) /\ frame.todo # <<>>
        /\ frame.at = <<"fork", f>> /\ IsList(frame.path.trail) /\ taken = Head(frame.todo)
        /\ model.fork[f].event \notin Met(frame.path.trail)
        /\ IsAtPath(model, frame, next, above, f, taken)
    BY <1>1, <1>2, <1>3, <1>4, <1>5 DEF IsWalking, Event
  <2> HIDE DEF frame, taken
  <2>2. ChoicesDiffer(frame)
    BY <2>1 DEF FrameIsRight
  <2>3. /\ ComesFrom(model, next, frame) /\ ComesFrom(model, above, frame) /\ AreApart(model, next, above)
        /\ ChoicesDiffer(next)
    BY <2>1, <2>2, PathComes
  <2>4. FrameIsRight(model, next) /\ FrameIsRight(model, above)
    BY <1>6, <2>1, <2>3, PathIsRight
  <2> QED BY <2>3, <2>4
<1>8. AreRight(model, Pushed(stack, next, above), sequences)
  BY <1>3, <1>7, RightPushed
<1> QED
  BY <1>1, <1>2, <1>8 DEF NothingIsTwice

LEMMA RightLeave ==
  ASSUME IInv, NothingIsTwice, LeaveFork
  PROVE  NothingIsTwice'
<1>1. /\ phase = "walk" /\ stack # <<>> /\ Top.at[1] = "fork" /\ Top.todo = <<>>
      /\ stack' = Popped(stack)
      /\ UNCHANGED <<model, phase, pending, initiating_event, sequences, gates>>
  BY LeaveStep
<1>2. IsWalking(model, stack, Top) /\ AreRight(model, stack, sequences)
  BY <1>1, TopIsWalking DEF NothingIsTwice
<1>3. AreRight(model, Popped(stack), sequences)
  BY <1>2, RightPopped
<1> QED
  BY <1>1, <1>3 DEF NothingIsTwice

LEMMA RightEnd ==
  ASSUME IInv, NothingIsTwice, EndPath
  PROVE  NothingIsTwice'
<1>1. /\ phase = "walk" /\ stack # <<>> /\ Top.todo = <<>>
      /\ Top.at = <<"sequence", Name(Top.at)>>
      /\ \A t \in DOMAIN sequences : IsList(sequences[t])
      /\ stack' = Popped(stack)
      /\ sequences' = IF Top.is_linked THEN sequences ELSE AddedTo(sequences, Name(Top.at), Top.path)
      /\ UNCHANGED <<model, phase, pending, initiating_event, gates>>
  BY EndStep
<1>2. IsWalking(model, stack, Top) /\ AreRight(model, stack, sequences)
  BY <1>1, TopIsWalking DEF NothingIsTwice
<1>3. AreRight(model, Popped(stack), sequences)
  BY <1>2, RightPopped
<1>4. CASE Top.is_linked
  BY <1>1, <1>3, <1>4 DEF NothingIsTwice
<1>5. CASE ~Top.is_linked
  <2> DEFINE path == Top.path
             s == Name(Top.at)
             n == Len(stack)
  <2>1. IsToCome(model, Top, path.trail)
    <3>1. Top.at[1] = "sequence"
      BY <1>1
    <3> QED BY <1>5, <3>1 DEF IsToCome, Extends
  <2>2. IsNotToCome(model, Popped(stack), path.trail)
    BY <1>2, <2>1, RightPopped
  <2>3. n \in 1 .. n /\ Top = stack[n]
    BY <1>2, FrontOfList DEF IsWalking
  <2>4. IsConsistent(path.trail)
    <3>1. FrameIsRight(model, Top)
      BY <1>2, <2>3 DEF AreRight, FramesAreRight
    <3> QED BY <3>1 DEF FrameIsRight, IsIn, IsTrailIn
  <2>5. \A t \in DOMAIN sequences : \A p \in Range(sequences[t]) : p.trail # path.trail
    <3>1. \A t \in DOMAIN sequences : \A p \in Range(sequences[t]) : ~IsToCome(model, stack[n], p.trail)
      BY <1>2, <2>3 DEF AreRight, PathsAreRight, IsNotToCome
    <3> QED BY <2>1, <2>3, <3>1
  <2> HIDE DEF path, s
  <2>6. AreRight(model, Popped(stack), AddedTo(sequences, s, path))
    BY <1>3, <2>2, <2>4, <2>5, RightAdded
  <2> QED
    BY <1>1, <1>5, <2>6 DEF NothingIsTwice, path, s
<1> QED
  BY <1>4, <1>5

LEMMA RightBegins ==
  ASSUME IInv, NEW event \in DOMAIN model.initiating, Start(event)
  PROVE  NothingIsTwice'
<1> DEFINE t == model.initiating[event]
           b == model.initial[t]
           frame == AtBranch(b, EmptyPath)
<1>1. IsDefined(model) /\ t \in DOMAIN model.initial
  BY Beginnings DEF IInv, IsDefined
<1>2. frame.at = <<"branch", b>> /\ frame.path = EmptyPath
  BY DEF AtBranch, Collector
<1>3. model' = model /\ stack' = <<frame>> /\ sequences' = <<>>
  BY DEF Start
<1> HIDE DEF frame
<1>4. FrameIsRight(model, frame)
  BY <1>1, <1>2, FirstIsRight
<1>5. Len(<<frame>>) = 1 /\ <<frame>>[1] = frame /\ 1 .. 1 = {1} /\ DOMAIN <<>> = {}
  OBVIOUS
<1>6. AreRight(model, <<frame>>, <<>>)
  BY <1>4, <1>5 DEF AreRight, FramesAreRight, PathsAreRight
<1> QED
  BY <1>3, <1>6 DEF NothingIsTwice

LEMMA RightNext ==
  ASSUME IInv, NothingIsTwice, [Next]_vars
  PROVE  NothingIsTwice'
<1>1. CASE UNCHANGED vars
  BY <1>1 DEF NothingIsTwice, vars
<1>2. CASE Validate
  BY <1>2 DEF NothingIsTwice, Validate
<1>3. CASE \E event \in DOMAIN model.initiating : Start(event)
  BY <1>3, RightBegins
<1>4. CASE EndWalk
  BY <1>4 DEF NothingIsTwice, EndWalk
<1>5. CASE Walk /\ ~EndWalk
  BY <1>5, RightExecuted, RightLink, RightGo, RightPath, RightLeave, RightEnd DEF Walk
<1>6. CASE \E s \in DOMAIN sequences : Join(s)
  BY <1>6 DEF NothingIsTwice, Join
<1>7. CASE EndAnalysis
  BY <1>7 DEF NothingIsTwice, EndAnalysis
<1> QED
  BY <1>1, <1>2, <1>3, <1>4, <1>5, <1>6, <1>7 DEF Next, Step, Terminated

-----------------------------------------------------------------------------
\* The gate of the paths to a sequence.

LEMMA PathsCounted ==
  ASSUME NEW paths, IsList(paths), NothingIsFoundTwice(paths)
  PROVE  Cardinality({Content(p) : p \in Range(paths)}) = Cardinality(DOMAIN paths)
<1> DEFINE S == DOMAIN paths
           T == {Content(p) : p \in Range(paths)}
           F == [k \in S |-> Content(paths[k])]
<1>1. IsFiniteSet(S)
  <2>1. Len(paths) \in Nat /\ S = 1 .. Len(paths) /\ 1 \in Int
    BY DEF IsList
  <2> QED BY <2>1, FS_Interval
<1>2. T = {Content(paths[k]) : k \in S}
  BY DEF Range
<1>3. \A k, l \in S : Content(paths[k]) = Content(paths[l]) => k = l
  <2>1. ASSUME NEW k \in S, NEW l \in S, Content(paths[k]) = Content(paths[l]) PROVE k = l
    <3>1. Content(paths[k]).trail = paths[k].trail /\ Content(paths[l]).trail = paths[l].trail
      BY DEF Content
    <3>2. paths[k].trail = paths[l].trail
      BY <2>1, <3>1
    <3> QED BY <3>2 DEF NothingIsFoundTwice
  <2> QED BY <2>1
<1> HIDE DEF S, T
<1>4. F \in [S -> T] /\ \A t \in T : \E k \in S : F[k] = t
  BY <1>2
<1>5. \A k, l \in S : F[k] = F[l] => k = l
  BY <1>3
<1>6. DOMAIN F = S
  OBVIOUS
<1> HIDE DEF F
<1>7. F \in Bijection(S, T)
  BY <1>4, <1>5, <1>6 DEF Bijection, Injection, Surjection, IsInjective
<1>8. ExistsBijection(S, T)
  BY <1>7 DEF ExistsBijection
<1>9. Cardinality(T) = Cardinality(S)
  BY <1>1, <1>8, FS_Bijection
<1> QED
  BY <1>9 DEF S, T

LEMMA GateOfPaths ==
  ASSUME NEW paths, IsList(paths), paths # <<>>, NothingIsFoundTwice(paths),
         ~(HaveFormulas(paths) /\ HaveExpressions(paths))
  PROVE  GateIsRight(Gate(paths), {Content(p) : p \in Range(paths)})
<1> DEFINE O == {Content(p) : p \in Range(paths)}
           gate == Gate(paths)
<1>1. \A p : Content(p).formulas = p.formulas /\ Content(p).expressions = p.expressions
  BY DEF Content
<1>2. paths = [k \in DOMAIN paths |-> paths[k]] /\ \E p : p \in Range(paths)
  <2>1. Len(paths) \in Nat \ {0} /\ DOMAIN paths = 1 .. Len(paths)
    BY DEF IsList
  <2>2. 1 \in DOMAIN paths
    BY <2>1
  <2>3. paths = [k \in DOMAIN paths |-> paths[k]]
    BY DEF IsList
  <2> QED BY <2>2, <2>3 DEF Range
<1>3. (\E o \in O : o.formulas # <<>>) <=> HaveFormulas(paths)
  <2> HIDE DEF HaveFormulas
  <2>1. HaveFormulas(paths) <=> \E p \in Range(paths) : p.formulas # <<>>
    BY DEF HaveFormulas
  <2> QED BY <1>1, <2>1
<1>4. HaveExpressions(paths) <=> \E p \in Range(paths) : p.expressions # <<>>
  BY DEF HaveExpressions
<1>5. HaveFormulas(paths) <=> \E p \in Range(paths) : p.formulas # <<>>
  BY DEF HaveFormulas
<1>6. Cardinality(O) = Cardinality(DOMAIN paths)
  BY PathsCounted
<1>7. ASSUME \A o \in O : IsEmpty(o) PROVE gate.type = "true"
  <2>1. \A p \in Range(paths) : p.formulas = <<>> /\ p.expressions = <<>>
    BY <1>1, <1>7 DEF IsEmpty
  <2>2. ~HaveFormulas(paths) /\ ~HaveExpressions(paths)
    BY <1>4, <1>5, <2>1
  <2>3. gate = [type |-> "true", paths |-> <<>>]
    BY <2>2 DEF Gate
  <2> HIDE DEF gate
  <2> QED BY <2>3
<1>8. ASSUME \A o \in O : ~IsEmpty(o)
      PROVE  /\ gate.paths = paths
             /\ gate.type = IF \E o \in O : o.formulas # <<>> THEN "or" ELSE "sum"
  <2>1. \A p \in Range(paths) : p.formulas # <<>> \/ p.expressions # <<>>
    BY <1>1, <1>8 DEF IsEmpty
  <2>2. \A k \in DOMAIN paths : paths[k] \in Range(paths)
    BY DEF Range
  <2>3. CASE HaveFormulas(paths)
    <3>1. \A p \in Range(paths) : p.formulas # <<>>
      BY <1>4, <2>1, <2>3
    <3>2. {k \in DOMAIN paths : paths[k].formulas # <<>>} = DOMAIN paths
      BY <2>2, <3>1
    <3>3. Formulas(paths) = paths
      BY <1>2, <3>2 DEF Formulas, Restrict
    <3>4. gate = [type |-> "or", paths |-> paths]
      BY <2>3, <3>3 DEF Gate
    <3> HIDE DEF gate, O
    <3> QED BY <1>3, <2>3, <3>4
  <2>4. CASE ~HaveFormulas(paths)
    <3>1. \A p \in Range(paths) : p.expressions # <<>>
      BY <1>5, <2>1, <2>4
    <3>2. {k \in DOMAIN paths : paths[k].expressions # <<>>} = DOMAIN paths
      BY <2>2, <3>1
    <3>3. Expressions(paths) = paths
      BY <1>2, <3>2 DEF Expressions, Restrict
    <3>4. HaveExpressions(paths)
      BY <1>2, <1>4, <3>1
    <3>5. gate = [type |-> "sum", paths |-> paths]
      BY <2>4, <3>3, <3>4 DEF Gate
    <3> HIDE DEF gate, O
    <3> QED BY <1>3, <2>4, <3>5
  <2> QED BY <2>3, <2>4
<1> HIDE DEF gate
<1>9. (\A o \in O : ~IsEmpty(o)) =>
        /\ {Content(path) : path \in Range(gate.paths)} = O
        /\ Cardinality(DOMAIN gate.paths) = Cardinality(O)
        /\ gate.type = IF \E o \in O : o.formulas # <<>> THEN "or" ELSE "sum"
  BY <1>6, <1>8
<1> HIDE DEF O
<1>10. GateIsRight(gate, O)
  BY <1>7, <1>9 DEF GateIsRight
<1> QED
  BY <1>10 DEF gate, O

-----------------------------------------------------------------------------
\* What was found is what all scenarios lead to.

LEMMA SomeScenarioAgrees ==
  ASSUME NEW m, IsDefined(m), NEW trail \in Seq(Items(m)), IsConsistent(trail), NEW ie
  PROVE  \E c \in Scenarios(m, ie) : Agrees(c, trail)
<1> DEFINE Choice(i, x) == trail[i][1] = "fork" /\ <<trail[i][2], trail[i][3]>> = x
           places == 1 .. Len(trail)
           any == CHOOSE state \in StatesOf(m) : TRUE
           chosen == [x \in ForkedEvents(m) |->
                        IF \E i \in places : Choice(i, x)
                          THEN trail[CHOOSE i \in places : Choice(i, x)][4] ELSE any]
           c == [initiating |-> ie, state |-> chosen]
<1>1. ASSUME NEW i \in places, trail[i][1] = "fork"
      PROVE  <<trail[i][2], trail[i][3]>> \in ForkedEvents(m) /\ trail[i][4] \in StatesOf(m)
  <2>1. trail[i] \in Items(m)
    OBVIOUS
  <2>2. \A t, left : <<"link", t, left>>[1] # "fork"
    OBVIOUS
  <2>3. PICK f \in DOMAIN m.fork : trail[i] \in Choices(m, f)
    BY <1>1, <2>1, <2>2 DEF Items
  <2>4. PICK path \in Paths(m, f) : trail[i] = ForkItem(m, f, path[1])
    BY <2>3 DEF Choices
  <2>5. trail[i][2] = m.fork[f].tree /\ trail[i][3] = m.fork[f].event /\ trail[i][4] = path[1]
    BY <2>4 DEF ForkItem
  <2> QED
    BY <2>5 DEF ForkedEvents, StatesOf
<1>2. ASSUME NEW x \in ForkedEvents(m) PROVE any \in StatesOf(m)
  <2>1. PICK f \in DOMAIN m.fork : x = <<m.fork[f].tree, m.fork[f].event>>
    BY DEF ForkedEvents
  <2> DEFINE paths == m.fork[f].paths
  <2>2. IsList(paths) /\ paths # <<>>
    BY DEF IsDefined, ForkIsDefined
  <2> HIDE DEF paths
  <2>3. 1 \in DOMAIN paths
    BY <2>2 DEF IsList
  <2>4. paths[1] \in Paths(m, f)
    BY <2>3 DEF Paths, Range, paths
  <2>5. paths[1][1] \in StatesOf(m)
    BY <2>4 DEF StatesOf
  <2> QED BY <2>5
<1>3. ASSUME NEW x \in ForkedEvents(m) PROVE chosen[x] \in StatesOf(m)
  <2>1. CASE \E i \in places : Choice(i, x)
    <3> DEFINE k == CHOOSE i \in places : Choice(i, x)
    <3>1. k \in places /\ Choice(k, x)
      BY <2>1
    <3>2. chosen[x] = trail[k][4]
      BY <2>1
    <3> HIDE DEF k, places
    <3> QED BY <1>1, <3>1, <3>2
  <2>2. CASE ~\E i \in places : Choice(i, x)
    BY <1>2, <2>2
  <2> QED BY <2>1, <2>2
<1>4. c \in Scenarios(m, ie)
  <2>1. chosen \in [ForkedEvents(m) -> StatesOf(m)]
    BY <1>3
  <2> HIDE DEF chosen
  <2> QED BY <2>1 DEF Scenarios
<1>5. ASSUME NEW i \in places, trail[i][1] = "fork"
      PROVE  c.state[<<trail[i][2], trail[i][3]>>] = trail[i][4]
  <2> DEFINE x == <<trail[i][2], trail[i][3]>>
             k == CHOOSE j \in places : Choice(j, x)
  <2>1. x \in ForkedEvents(m) /\ Choice(i, x)
    BY <1>1, <1>5
  <2>2. k \in places /\ Choice(k, x)
    BY <2>1
  <2>3. chosen[x] = trail[k][4]
    BY <2>1
  <2>4. trail[k][2] = trail[i][2] /\ trail[k][3] = trail[i][3] /\ trail[k][1] = "fork"
    BY <2>2
  <2>5. trail[k][4] = trail[i][4]
    <3> HIDE DEF k
    <3> QED BY <1>5, <2>2, <2>4 DEF IsConsistent
  <2> QED BY <2>3, <2>5
<1> HIDE DEF c
<1>6. Agrees(c, trail)
  BY <1>5 DEF Agrees
<1> QED
  BY <1>4, <1>6

LEMMA OutcomesAreFound ==
  ASSUME IInv, AllAreCovered, NothingIsTwice, phase = "join"
  PROVE  AllOutcomes(model, initiating_event)
           = UNION {{<<s, Content(p)>> : p \in Range(sequences[s])} : s \in DOMAIN sequences}
<1> DEFINE ie == initiating_event
           found == sequences
           All == UNION {{<<s, Content(p)>> : p \in Range(found[s])} : s \in DOMAIN found}
<1>1. IsDefined(model) /\ stack = <<>> /\ SequencesAreGood(model, Beginning, sequences)
  BY ModelsAssumption DEF IInv
<1>2. ASSUME NEW c \in Scenarios(model, ie)
      PROVE  OutcomesFrom(model, c)[InitialSituation(model, ie)] = Found(c, found)
  <2>1. Covers(model, ie, c, <<>>, found)
    BY <1>1 DEF AllAreCovered
  <2>2. PICK rest : CoversWith(model, ie, c, <<>>, found, rest)
    BY <2>1 DEF Covers
  <2>3. Len(<<>>) = 0 /\ 1 .. 0 = {}
    OBVIOUS
  <2>4. UNION {rest[i] : i \in 1 .. Len(<<>>)} = {}
    BY <2>3
  <2> QED
    BY <2>2, <2>4 DEF CoversWith
<1>3. AllOutcomes(model, ie) = UNION {Found(c, found) : c \in Scenarios(model, ie)}
  BY <1>2 DEF AllOutcomes
<1>4. ASSUME NEW c, NEW o \in Found(c, found) PROVE o \in All
  BY DEF Found
<1>5. ASSUME NEW s \in DOMAIN found, NEW p \in Range(found[s])
      PROVE  \E c \in Scenarios(model, ie) : <<s, Content(p)>> \in Found(c, found)
  <2>1. p.trail \in Seq(Items(model))
    BY <1>1 DEF SequencesAreGood, PathIsGood
  <2>2. IsConsistent(p.trail)
    BY DEF NothingIsTwice, AreRight, PathsAreRight
  <2>3. PICK c \in Scenarios(model, ie) : Agrees(c, p.trail)
    BY <1>1, <2>1, <2>2, SomeScenarioAgrees
  <2>4. <<s, Content(p)>> \in Found(c, found)
    BY <2>3 DEF Found
  <2> QED BY <2>4
<1>6. AllOutcomes(model, ie) \subseteq All
  <2> HIDE DEF All, found, ie
  <2> QED BY <1>3, <1>4
<1>7. All \subseteq AllOutcomes(model, ie)
  <2>1. ASSUME NEW o \in All PROVE o \in AllOutcomes(model, ie)
    <3>1. PICK s \in DOMAIN found : \E p \in Range(found[s]) : o = <<s, Content(p)>>
      OBVIOUS
    <3> QED BY <1>3, <1>5, <3>1
  <2> HIDE DEF All
  <2> QED BY <2>1
<1> HIDE DEF All
<1>8. AllOutcomes(model, ie) = All
  BY <1>6, <1>7
<1> QED
  BY <1>8 DEF All

-----------------------------------------------------------------------------
\* Fourth invariant: gates are made of the paths found, and not changed afterwards.

IsGateOf(gate, paths) ==
  gate = Gate(paths) /\ ~(HaveFormulas(paths) /\ HaveExpressions(paths))
IsOpen(ie) == phase \in {"walk", "join"} /\ ie = initiating_event
GatesAreMade ==
  /\ \A ie, s : <<ie, s>> \in DOMAIN gates => ie \notin pending
  /\ phase \in {"walk", "join"} => initiating_event \notin pending
  /\ phase = "walk" => \A s : <<initiating_event, s>> \notin DOMAIN gates
  /\ phase = "join" => \A s : <<initiating_event, s>> \in DOMAIN gates =>
       s \in DOMAIN sequences /\ IsGateOf(gates[<<initiating_event, s>>], sequences[s])
  /\ \A ie \in DOMAIN model.initiating \ pending :
       ~IsOpen(ie) => InitiatingIsRight(model, gates, ie)

LEMMA JoinedIsRight ==
  ASSUME IInv, AllAreCovered, NothingIsTwice, GatesAreMade, phase = "join",
         \A s \in DOMAIN sequences : <<initiating_event, s>> \in DOMAIN gates
  PROVE  InitiatingIsRight(model, gates, initiating_event)
<1> DEFINE ie == initiating_event
           found == sequences
<1>1. AllOutcomes(model, ie) = UNION {{<<s, Content(p)>> : p \in Range(found[s])} : s \in DOMAIN found}
  BY OutcomesAreFound
<1>2. ASSUME NEW s \in DOMAIN found
      PROVE  /\ s \in DOMAIN model.sequence /\ IsList(found[s]) /\ found[s] # <<>>
             /\ NothingIsFoundTwice(found[s]) /\ IsGateOf(gates[<<ie, s>>], found[s])
             /\ <<ie, s>> \in DOMAIN gates
  BY DEF IInv, SequencesAreGood, NothingIsTwice, AreRight, PathsAreRight, GatesAreMade
<1>3. ASSUME NEW s \in DOMAIN found PROVE \E p : p \in Range(found[s])
  <2>1. found[s] # <<>> /\ IsList(found[s])
    BY <1>2
  <2>2. 1 \in DOMAIN found[s]
    BY <2>1 DEF IsList
  <2> QED BY <2>2 DEF Range
<1>4. \A s : <<ie, s>> \in DOMAIN gates => s \in DOMAIN found
  BY DEF GatesAreMade
<1>5. GatesOf(model, gates, ie) = DOMAIN found
  BY <1>2, <1>4 DEF GatesOf
<1> HIDE DEF found, ie
<1>6. \A s, o : <<s, o>>[1] = s /\ <<s, o>>[2] = o
  OBVIOUS
<1>7. {o[1] : o \in AllOutcomes(model, ie)} = DOMAIN found
  <2>1. ASSUME NEW o \in AllOutcomes(model, ie) PROVE o[1] \in DOMAIN found
    BY <1>1
  <2>2. ASSUME NEW s \in DOMAIN found PROVE \E o \in AllOutcomes(model, ie) : o[1] = s
    <3>1. PICK p : p \in Range(found[s])
      BY <1>3
    <3>2. <<s, Content(p)>> \in AllOutcomes(model, ie)
      BY <1>1, <3>1
    <3> QED BY <1>6, <3>2
  <2> QED BY <2>1, <2>2
<1>8. ASSUME NEW s \in DOMAIN found PROVE OutcomesAt(model, ie, s) = {Content(p) : p \in Range(found[s])}
  <2>1. ASSUME NEW o \in AllOutcomes(model, ie), o[1] = s
        PROVE  \E p \in Range(found[s]) : o[2] = Content(p)
    <3>1. PICK t \in DOMAIN found : \E p \in Range(found[t]) : o = <<t, Content(p)>>
      BY <1>1
    <3> QED BY <1>6, <2>1, <3>1
  <2>2. ASSUME NEW p \in Range(found[s])
        PROVE  \E o \in AllOutcomes(model, ie) : o[1] = s /\ o[2] = Content(p)
    <3>1. <<s, Content(p)>> \in AllOutcomes(model, ie)
      BY <1>1
    <3> QED BY <1>6, <3>1
  <2>3. OutcomesAt(model, ie, s) = {o[2] : o \in {q \in AllOutcomes(model, ie) : q[1] = s}}
    BY DEF OutcomesAt
  <2> QED BY <2>1, <2>2, <2>3
<1>9. ASSUME NEW s \in DOMAIN found
      PROVE  GateIsRight(gates[<<ie, s>>], OutcomesAt(model, ie, s))
  <2> DEFINE paths == found[s]
  <2>1. /\ IsList(paths) /\ paths # <<>> /\ NothingIsFoundTwice(paths)
        /\ ~(HaveFormulas(paths) /\ HaveExpressions(paths)) /\ gates[<<ie, s>>] = Gate(paths)
    BY <1>2 DEF IsGateOf
  <2> HIDE DEF paths
  <2>2. GateIsRight(Gate(paths), {Content(p) : p \in Range(paths)})
    BY <2>1, GateOfPaths
  <2> QED BY <1>8, <2>1, <2>2 DEF paths
<1>10. InitiatingIsRight(model, gates, ie)
  BY <1>5, <1>7, <1>9 DEF InitiatingIsRight
<1> QED
  BY <1>10 DEF ie

LEMMA WalkKeepsGates ==
  ASSUME GatesAreMade, phase = "walk", phase' \in {"walk", "join"},
         UNCHANGED <<model, pending, initiating_event, gates>>
  PROVE  GatesAreMade'
<1>1. phase' = "walk" => \A s : <<initiating_event', s>> \notin DOMAIN gates'
  BY DEF GatesAreMade
<1>2. phase' = "join" => \A s : <<initiating_event', s>> \in DOMAIN gates' =>
        s \in DOMAIN sequences' /\ IsGateOf(gates'[<<initiating_event', s>>], sequences'[s])
  BY DEF GatesAreMade
<1>3. \A ie \in DOMAIN model'.initiating \ pending' :
        ~IsOpen(ie)' => InitiatingIsRight(model', gates', ie)
  BY DEF GatesAreMade, IsOpen
<1>4. /\ \A ie, s : <<ie, s>> \in DOMAIN gates' => ie \notin pending'
      /\ initiating_event' \notin pending'
  BY DEF GatesAreMade
<1> QED
  BY <1>1, <1>2, <1>3, <1>4 DEF GatesAreMade

LEMMA StartKeepsGates ==
  ASSUME GatesAreMade, NEW event \in DOMAIN model.initiating, Start(event)
  PROVE  GatesAreMade'
<1>1. /\ phase = "start" /\ phase' = "walk" /\ event \in pending /\ pending' = pending \ {event}
      /\ initiating_event' = event /\ UNCHANGED <<model, gates>>
  BY DEF Start
<1>2. \A s : <<event, s>> \notin DOMAIN gates
  BY <1>1 DEF GatesAreMade
<1>3. ASSUME NEW ie \in DOMAIN model.initiating \ pending', ie # event
      PROVE  InitiatingIsRight(model, gates, ie)
  BY <1>1, <1>3 DEF GatesAreMade, IsOpen
<1>4. \A ie \in DOMAIN model'.initiating \ pending' :
        ~IsOpen(ie)' => InitiatingIsRight(model', gates', ie)
  BY <1>1, <1>3 DEF IsOpen
<1>5. \A ie, s : <<ie, s>> \in DOMAIN gates' => ie \notin pending'
  BY <1>1 DEF GatesAreMade
<1> QED
  BY <1>1, <1>2, <1>4, <1>5 DEF GatesAreMade

LEMMA JoinKeepsGates ==
  ASSUME IInv, GatesAreMade, NEW s \in DOMAIN sequences, Join(s), phase' # "failed"
  PROVE  GatesAreMade'
<1> DEFINE ie == initiating_event
           pair == <<ie, s>>
<1>1. /\ phase = "join" /\ phase' = "join" /\ pair \notin DOMAIN gates
      /\ ~(HaveFormulas(sequences[s]) /\ HaveExpressions(sequences[s]))
      /\ gates' = [t \in DOMAIN gates \cup {pair} |->
                     IF t = pair THEN Gate(sequences[s]) ELSE gates[t]]
      /\ UNCHANGED <<model, pending, initiating_event, sequences>>
  BY DEF Join
<1>2. /\ DOMAIN gates' = DOMAIN gates \cup {pair} /\ gates'[pair] = Gate(sequences[s])
      /\ \A t \in DOMAIN gates : gates'[t] = gates[t]
  BY <1>1
<1>3. ie \notin pending
  BY <1>1 DEF GatesAreMade
<1>4. \A other, t : <<other, t>> \in DOMAIN gates' => other \notin pending'
  BY <1>1, <1>2, <1>3 DEF GatesAreMade
<1>5. ASSUME NEW t, <<ie, t>> \in DOMAIN gates'
      PROVE  t \in DOMAIN sequences /\ IsGateOf(gates'[<<ie, t>>], sequences[t])
  <2>1. CASE t = s
    BY <1>1, <1>2, <2>1 DEF IsGateOf
  <2>2. CASE t # s
    BY <1>1, <1>2, <1>5, <2>2 DEF GatesAreMade
  <2> QED BY <2>1, <2>2
<1>6. ASSUME NEW other \in DOMAIN model.initiating \ pending, other # ie
      PROVE  InitiatingIsRight(model, gates', other)
  <2>1. InitiatingIsRight(model, gates, other)
    BY <1>6 DEF GatesAreMade, IsOpen
  <2>2. \A t : <<other, t>> # pair
    BY <1>6
  <2>3. \A t : <<other, t>> \in DOMAIN gates' <=> <<other, t>> \in DOMAIN gates
    BY <1>2, <2>2
  <2>4. GatesOf(model, gates', other) = GatesOf(model, gates, other)
    BY <2>3 DEF GatesOf
  <2>5. \A t \in GatesOf(model, gates, other) : gates'[<<other, t>>] = gates[<<other, t>>]
    BY <1>2 DEF GatesOf
  <2> QED
    BY <2>1, <2>4, <2>5 DEF InitiatingIsRight
<1>7. \A other \in DOMAIN model'.initiating \ pending' :
        ~IsOpen(other)' => InitiatingIsRight(model', gates', other)
  BY <1>1, <1>6 DEF IsOpen
<1>8. /\ phase' = "join" /\ initiating_event' \notin pending' /\ initiating_event' = ie
      /\ sequences' = sequences
  BY <1>1, <1>3
<1> HIDE DEF ie, pair
<1> QED
  BY <1>4, <1>5, <1>7, <1>8 DEF GatesAreMade

LEMMA EndKeepsGates ==
  ASSUME IInv, AllAreCovered, NothingIsTwice, GatesAreMade, EndAnalysis
  PROVE  GatesAreMade'
<1>1. /\ phase = "join" /\ phase' \in {"start", "done"}
      /\ \A s \in DOMAIN sequences : <<initiating_event, s>> \in DOMAIN gates
      /\ UNCHANGED <<model, pending, initiating_event, sequences, gates>>
  BY DEF EndAnalysis
<1>2. InitiatingIsRight(model, gates, initiating_event)
  BY <1>1, JoinedIsRight
<1>3. \A ie \in DOMAIN model.initiating \ pending : InitiatingIsRight(model, gates, ie)
  BY <1>2 DEF GatesAreMade, IsOpen
<1>4. \A ie \in DOMAIN model'.initiating \ pending' :
        ~IsOpen(ie)' => InitiatingIsRight(model', gates', ie)
  BY <1>1, <1>3
<1>5. phase' # "walk" /\ phase' # "join"
  BY <1>1
<1>6. \A ie, s : <<ie, s>> \in DOMAIN gates' => ie \notin pending'
  BY <1>1 DEF GatesAreMade
<1> QED
  BY <1>4, <1>5, <1>6 DEF GatesAreMade

LEMMA GatesNext ==
  ASSUME IInv, AllAreCovered, NothingIsTwice, GatesAreMade, [Next]_vars, phase' # "failed"
  PROVE  GatesAreMade'
<1>1. CASE UNCHANGED vars
  BY <1>1 DEF GatesAreMade, IsOpen, vars
<1>2. CASE Validate
  <2>1. /\ phase = "validate" /\ phase' \in {"start", "refused"}
        /\ UNCHANGED <<model, pending, initiating_event, sequences, gates>>
    BY <1>2 DEF Validate
  <2> QED BY <2>1 DEF GatesAreMade, IsOpen
<1>3. CASE \E event \in DOMAIN model.initiating : Start(event)
  BY <1>3, StartKeepsGates
<1>4. CASE EndWalk
  BY <1>4, WalkKeepsGates DEF EndWalk
<1>5. CASE Walk /\ ~EndWalk
  <2>1. phase = "walk" /\ UNCHANGED <<model, phase, pending, initiating_event, gates>>
    BY <1>5, ExecutedStep, LinkStep, GoStep, PathStep, LeaveStep, EndStep DEF Walk
  <2> QED BY <2>1, WalkKeepsGates
<1>6. CASE \E s \in DOMAIN sequences : Join(s)
  BY <1>6, JoinKeepsGates
<1>7. CASE EndAnalysis
  BY <1>7, EndKeepsGates
<1> QED
  BY <1>1, <1>2, <1>3, <1>4, <1>5, <1>6, <1>7 DEF Next, Step, Terminated

-----------------------------------------------------------------------------
\* The theorem.

GatesInv == IInv /\ AllAreCovered /\ NothingIsTwice /\ GatesAreMade

LEMMA GatesInvBegins ==
  ASSUME Init
  PROVE  GatesInv
<1>1. IInv
  BY InitHolds
<1>2. phase = "validate" /\ pending = DOMAIN model.initiating /\ gates = <<>> /\ DOMAIN <<>> = {}
  BY DEF Init
<1>3. AllAreCovered /\ NothingIsTwice /\ GatesAreMade
  BY <1>2 DEF AllAreCovered, NothingIsTwice, GatesAreMade
<1> QED
  BY <1>1, <1>3 DEF GatesInv

LEMMA GatesInvNext ==
  ASSUME GatesInv, [Next]_vars
  PROVE  GatesInv'
<1>1. IInv /\ AllAreCovered /\ NothingIsTwice /\ GatesAreMade
  BY DEF GatesInv
<1>2. IInv'
  BY <1>1, NextKeeps
<1>3. phase' # "failed"
  BY <1>2 DEF IInv
<1>4. AllAreCovered' /\ NothingIsTwice'
  BY <1>1, CoverNext, RightNext
<1>5. GatesAreMade'
  BY <1>1, <1>3, GatesNext
<1> QED
  BY <1>2, <1>4, <1>5 DEF GatesInv

\* The gates that EventTreeAnalysis makes for an initiating event hold what its scenarios
\* lead to: whenever Analyze is through with one, a sequence has a gate if and only if
\* some scenario ends in it, and the gate joins the formulas or adds up the expressions
\* of exactly the paths of these scenarios, each of them once
\* (src/event_tree_analysis.cc, Analyze and CollectSequences).
THEOREM GatesCorrect == Spec => []GatesAreRight
<1>1. Init => GatesInv
  BY GatesInvBegins
<1>2. GatesInv /\ [Next]_vars => GatesInv'
  BY GatesInvNext
<1>3. GatesInv => GatesAreRight
  BY DEF GatesInv, GatesAreMade, GatesAreRight, IsOpen
<1> QED
  BY <1>1, <1>2, <1>3, PTL DEF Spec

=============================================================================
