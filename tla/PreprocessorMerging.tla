------------------------- MODULE PreprocessorMerging -------------------------
(***************************************************************************)
(* Arguments that several gates have in common (src/preprocessor.cc): they *)
(* are merged into a gate of their own, or factored out of gates that the  *)
(* law of distributivity applies to.                                       *)
(*                                                                         *)
(* A candidate is [gate, args], an option [args, parents]: the gates that  *)
(* have all the given arguments.  The ranges of arguments and times that   *)
(* the code sorts by, to find what is connected quickly, are left out.     *)
(***************************************************************************)
EXTENDS PdagGates

Intersect(S, T) == S \cap T # {}

-----------------------------------------------------------------------------
(* Options, and the choice of a group of them *)

GroupCommonParents(number, candidates) ==
  LET pairs == {pair \in candidates \X candidates : pair[1].gate # pair[2].gate}
      Common(pair) == pair[1].args \cap pair[2].args
      commons == {Common(pair) : pair \in {p \in pairs : Cardinality(Common(p)) >= number}}
  IN  {[args |-> args, parents |-> UNION {{p[1].gate, p[2].gate} : p \in {q \in pairs : Common(q) = args}}]
         : args \in commons}

\* By the number of arguments; the order of the others is that of a hash table.
Smallest(args) == CHOOSE n \in args : \A m \in args : n <= m
SortOptions(options) ==
  LET Less(o, p) ==
        \/ Cardinality(o.args) < Cardinality(p.args)
        \/ /\ Cardinality(o.args) = Cardinality(p.args)
           /\ Smallest(o.args \ p.args) < Smallest(p.args \ o.args)
  IN  [i \in 1..Cardinality(options) |->
         CHOOSE o \in options : Cardinality({p \in options \ {o} : Less(p, o)}) = i - 1]

\* The number of arguments with the given number of parents that are not in the option, and
\* whether an option is better by these numbers.
ExtraParents(G, option, a) == Cardinality(Parents(G, Node(a)) \ option.parents)
Extras(G, option) == [a \in option.args |-> ExtraParents(G, option, a)]
Counts(extras) == [n \in 0..2 |-> Cardinality({a \in DOMAIN extras : extras[a] = n})]
Better(c, d) ==
  \E n \in 0..2 : c[n] > d[n] /\ \A m \in 0..(n - 1) : c[m] = d[m]
\* The position of the best option to start with, or 0: the first one with two arguments that
\* have no other parents, or else the first one that nothing is better than.
FirstOf(S) == CHOOSE i \in S : \A j \in S : i <= j
BestOf(counts) ==
  LET modular == {i \in DOMAIN counts : counts[i][0] > 1}
      best == {i \in DOMAIN counts : /\ \E n \in 0..2 : counts[i][n] > 0
                                     /\ \A j \in DOMAIN counts : ~Better(counts[j], counts[i])}
  IN  IF modular # {} THEN FirstOf(modular) ELSE IF best # {} THEN FirstOf(best) ELSE 0
FindBaseOption(G, options) == BestOf([i \in DOMAIN options |-> Counts(Extras(G, options[i]))])

\* A chain of options, each with the arguments of the last and more, for parents of it.
ChainFrom(options, i) ==
  LET Extend(chain, j) ==
        LET top == options[chain[Len(chain)]]
        IN  IF top.args \subseteq options[j].args /\ options[j].parents \subseteq top.parents
              THEN Append(chain, j) ELSE chain
  IN  FoldLeft(Extend, <<i>>, [j \in 1..(Len(options) - i) |-> i + j])
LongestChain(options) ==
  LET Competitors(chain) == Cardinality(options[chain[1]].parents)
      Choose(best, chain) ==
        IF Len(chain) > Len(best) \/ (Len(chain) = Len(best) /\ Competitors(chain) < Competitors(best))
          THEN chain ELSE best
  IN  FoldLeft(Choose, <<>>, [i \in DOMAIN options |-> ChainFrom(options, i)])
ChainFromBase(options, base) == IF base = 0 THEN LongestChain(options) ELSE ChainFrom(options, base)
FindOptionGroup(G, options) == ChainFromBase(options, FindBaseOption(G, options))

\* Groups of options that do not compete for arguments of the same gates; with any, options
\* compete whenever they have gates in common.
WithoutParents(o, group, any) ==
  [o EXCEPT !.parents = IF any \/ Intersect(o.args, group[Len(group)].args) THEN @ \ group[1].parents ELSE @]
Remaining(options, group, any) ==
  SortOptions({o \in {WithoutParents(p, group, any) : p \in ToSet(options) \ ToSet(group)} :
                 Cardinality(o.parents) > 1})
FindOptions(G, options) ==
  LET chain == FindOptionGroup(G, options) IN [i \in DOMAIN chain |-> options[chain[i]]]
RECURSIVE GroupOptions(_, _, _, _)
GroupAndGoOn(G, options, groups, group, any) ==
  GroupOptions(G, Remaining(options, group, any), Append(groups, group), any)
GroupOptions(G, options, groups, any) ==
  IF options = <<>> THEN groups
  ELSE GroupAndGoOn(G, options, groups, FindOptions(G, options), any)
GroupCommonArgs(G, options) == GroupOptions(G, SortOptions(options), <<>>, FALSE)
GroupDistributiveArgs(G, options) == GroupOptions(G, SortOptions(options), <<>>, TRUE)

-----------------------------------------------------------------------------
(* Merging of common arguments *)

\* Modules in breadth-first order.
NewGateArgs(G, found, g) ==
  SelectSeq([i \in DOMAIN GateArgs(G, g) |-> Node(GateArgs(G, g)[i])], LAMBDA n : ~Contains(found, n))
RECURSIVE BreadthFirst(_, _, _)
BreadthFirst(G, met, i) ==
  IF i > Len(met) THEN met ELSE BreadthFirst(G, met \o NewGateArgs(G, met, met[i]), i + 1)
MarkModules(G, all) ==
  [graph |-> FoldLeft(Mark, Ensure(ClearGateMarks(G), IsModule(G, G.root), "root is no module"), all),
   modules |-> SelectSeq(all, LAMBDA g : g = G.root \/ IsModule(G, g))]
GatherModules(G) == MarkModules(G, BreadthFirst(G, <<G.root>>, 1))

\* How many gates of the type have the argument.
MarkCommonArgs(G, op) ==
  LET typed == {g \in Alive(G) : Type(G, g) = op}
      args == UNION {Args(G, g) : g \in typed}
  IN  [a \in args |-> Cardinality({g \in typed : a \in Args(G, g)})]

\* The gates of the type inside the module that have two common arguments or more,
\* in the order in which the traversal leaves them.  C = [graph, list].
AddCandidate(C, g, common, op) ==
  IF Type(C.graph, g) = op /\ Cardinality(common) > 1
    THEN [C EXCEPT !.list = Append(@, [gate |-> g, args |-> common])] ELSE C
CheckGathered(G, g) == Ensure(G, \A n \in SubGates(G, g) : ~IsConstant(G, n), "constant with common arguments")
RECURSIVE GatherCommonArgs(_, _, _, _)
GatherCommonArgs(C, counts, g, op) ==
  IF C.graph.gate[g].mark THEN C
  ELSE AddCandidate(FoldLeft(LAMBDA D, a : IF IsModule(C.graph, Node(a)) THEN D
                                           ELSE GatherCommonArgs(D, counts, Node(a), op),
                             [C EXCEPT !.graph = CheckGathered(Mark(@, g), g)], GateArgs(C.graph, g)),
                    g, {a \in Args(C.graph, g) : a \in DOMAIN counts /\ counts[a] > 1}, op)

BySize(candidates) ==
  LET Size(i) == Cardinality(candidates[i].args)
      Less(i, j) == Size(i) < Size(j) \/ (Size(i) = Size(j) /\ i < j)
  IN  [k \in DOMAIN candidates |-> candidates[
         CHOOSE i \in DOMAIN candidates : Cardinality({j \in DOMAIN candidates : Less(j, i)}) = k - 1]]

\* A gate all of whose arguments are common stands in for them in the other candidates.
\* C = [graph, list].
SubstituteIn(C, H, j, host, diff) ==
  [graph |-> IF Cardinality(Args(H, host)) = 1 /\ ~IsConstant(H, host)
               THEN SetType(Ensure(H, Cardinality(diff) = 1, "perfect substitution"), host, "null") ELSE H,
   list |-> [k \in DOMAIN C.list |->
               IF k = j THEN [gate |-> host, args |-> IF IsConstant(H, host) THEN {} ELSE diff]
               ELSE C.list[k]]]
Substitute(C, i, j) ==
  LET gate == C.list[i].gate
      host == C.list[j].gate
      common == C.list[i].args
  IN  SubstituteIn(C, AddArg(FoldLeft(LAMBDA H, a : EraseArg(H, host, a), C.graph,
                                      InOrder(C.graph, common)), host, gate),
                   j, host, (C.list[j].args \ common) \cup {gate})
StandsFor(G, c) ==
  LET size == Cardinality(Args(G, c.gate))
  IN  size > 1 /\ ~IsConstant(G, c.gate) /\ size = Cardinality(c.args)
CheckCandidate(C, i, c) ==
  [C EXCEPT !.graph = Ensure(@, Cardinality(c.args) >= Cardinality(C.list[i].args) => ~IsConstant(@, c.gate),
                             "constant candidate")]
SubstituteIfIn(C, i, j) == IF C.list[i].args \subseteq C.list[j].args THEN Substitute(C, i, j) ELSE C
SubstituteEverywhere(C, i) ==
  IF StandsFor(C.graph, C.list[i])
    THEN FoldLeft(LAMBDA D, j : SubstituteIfIn(CheckCandidate(D, i, D.list[j]), i, j),
                  C, [k \in 1..(Len(C.list) - i) |-> i + k])
    ELSE C
RemainingCandidates(C) ==
  [C EXCEPT !.list = SelectSeq(@, LAMBDA c : ~IsConstant(C.graph, c.gate) /\ Type(C.graph, c.gate) # "null"
                                             /\ Cardinality(c.args) # 1)]
FilterMergeCandidates(C) ==
  RemainingCandidates(FoldLeft(SubstituteEverywhere, [C EXCEPT !.list = BySize(@)], [i \in DOMAIN C.list |-> i]))

\* Candidates that share arguments, directly or not.
RECURSIVE SharingWith(_, _)
SharingWith(candidates, group) ==
  LET more == {c \in candidates : \E d \in group : c = d \/ Intersect(c.args, d.args)}
  IN  IF more = group THEN group ELSE SharingWith(candidates, more)
GroupCandidatesByArgs(list) ==
  LET groups == {SharingWith(ToSet(list), {c}) : c \in ToSet(list)}
      large == {group \in groups : Cardinality(group) > 1}
      First(group) == CHOOSE i \in DOMAIN list : list[i] \in group /\ \A j \in 1..(i - 1) : list[j] \notin group
  IN  [k \in 1..Cardinality(large) |->
         CHOOSE group \in large : Cardinality({h \in large : First(h) < First(group)}) = k - 1]

\* One option after the other: a new gate takes the arguments from all the parents.
MoveArg(G, parents, a, m) ==
  FoldLeft(LAMBDA F, p : EraseArg(F, p, a), ShareArg(G, parents[1], a, m), parents)
CheckParent(G, p) == Ensure(G, ~IsConstant(G, p), "constant parent of merged arguments")
TransformOption(G, parents, args, m) ==
  [FoldLeft(LAMBDA H, p : CheckParent(NullIfOne(AddArg(H, p, m), p), p),
            FoldLeft(LAMBDA H, a : MoveArg(H, parents, a, m),
                     Ensure(NewGate(G, Type(G, parents[1])),
                            /\ Len(parents) > 1 /\ Cardinality(args) > 1
                            /\ Cardinality(Args(G, parents[1])) > 1, "merge option"), InOrder(G, args)), parents)
     EXCEPT !.held = G.held]
\* In what is left of the group, the new gate stands for the arguments that were merged.
RECURSIVE TransformCommonArgs(_, _)
TransformCommonArgs(G, group) ==
  LET option == group[1]
  IN  IF group = <<>> THEN G
      ELSE TransformCommonArgs(
             Ensure(TransformOption(G, InOrder(G, option.parents), option.args, G.next + 1),
                    \A o \in ToSet(Tail(group)) : option.args \subseteq o.args /\ option.args # o.args,
                    "no superset of merged arguments"),
             [i \in 1..(Len(group) - 1) |->
                [group[i + 1] EXCEPT !.args = (@ \ option.args) \cup {G.next + 1}]])

MergeOptions(G, options) ==
  FoldLeft(TransformCommonArgs, G, IF options = {} THEN <<>> ELSE GroupCommonArgs(G, options))
\* Candidates are held.
CheckSizes(G, candidates, name) == Ensure(G, \A c \in ToSet(candidates) : Cardinality(c.args) > 1, name)
MergeCandidates(C) ==
  IF Len(C.list) < 2 THEN C.graph
  ELSE RemoveNullGates(FoldLeft(LAMBDA H, group : MergeOptions(H, GroupCommonParents(2, group)),
                                CheckSizes(Hold(C.graph, {c.gate : c \in ToSet(C.list)}), C.list,
                                           "merge candidate of one argument"),
                                GroupCandidatesByArgs(C.list)))
FilterAndMerge(C, module) ==
  IF Len(C.list) < 2 THEN ClearMarks(C.graph, module)
  ELSE MergeCandidates(FilterMergeCandidates([C EXCEPT !.graph = ClearMarks(@, module)]))
MergeInModule(G, counts, module, op) ==
  IF module \in Alive(G)
    THEN FilterAndMerge(GatherCommonArgs([graph |-> G, list |-> <<>>], counts, module, op), module) ELSE G
MergeInModules(M, counts, op) ==
  FoldLeft(LAMBDA H, module : MergeInModule(H, counts, module, op), ClearGateMarks(M.graph), M.modules)
MergeCommonArgs(G, op) ==
  MergeInModules(GatherModules(CheckArgGates(G, "constant to merge")), MarkCommonArgs(G, op), op)

-----------------------------------------------------------------------------
(* Distributivity *)

\* A candidate that has an argument of the gate itself is redundant, and so is one that has all
\* the arguments of another.  F = [graph, list].
CheckArgs(G, g) == Ensure(G, Args(G, g) # {}, "distributive gate without arguments")
SettleGate(G, g) ==
  IF Cardinality(Args(G, g)) = 1
    THEN SetType(Ensure(G, Type(G, g) \in {"and", "or", "nand", "nor"}, "distributive gate"), g,
                 IF Type(G, g) \in {"and", "or"} THEN "null" ELSE "not")
    ELSE CheckArgs(G, g)
RemoveRedundant(G, g, rest, redundant) ==
  [graph |-> SettleGate(FoldLeft(LAMBDA E, n : EraseArg(E, g, n), G, InOrder(G, redundant)), g),
   list |-> SelectSeq(rest, LAMBDA c : c.gate \notin redundant)]
FilterSorted(G, g, rest, absorbed) ==
  RemoveRedundant(G, g, rest,
    absorbed \cup {rest[i].gate : i \in {j \in DOMAIN rest :
                                         \E k \in 1..(j - 1) : rest[k].args \subseteq rest[j].args}})
FilterDistributiveArgs(G, g, candidates) ==
  LET absorbed == {n \in ToSet(candidates) : Intersect(Args(G, n), Args(G, g))}
      kept == SelectSeq(candidates, LAMBDA n : n \notin absorbed)
  IN  FilterSorted(G, g, BySize([i \in DOMAIN kept |-> [gate |-> kept[i], args |-> Args(G, kept[i])]]), absorbed)

\* Members of the group that have other parents are cloned first.  S = [graph, group].
SeparateMember(S, g, n) ==
  LET c == S.graph.next + 1
  IN  [graph |-> [AddArg(EraseArg(Mark(Clone(S.graph, n), c), g, n), g, c) EXCEPT !.held = S.graph.held],
       group |-> [i \in DOMAIN S.group |->
                    [S.group[i] EXCEPT !.parents = IF n \in @ THEN (@ \ {n}) \cup {c} ELSE @]]]
CheckMembers(G, members) == Ensure(G, \A n \in members : Parents(G, n) # {}, "member without parents")
SeparateMembers(G, g, group) ==
  FoldLeft(LAMBDA S, n : SeparateMember(S, g, n),
           [graph |-> CheckMembers(G, group[1].parents), group |-> group],
           InOrder(G, {n \in group[1].parents : Cardinality(Parents(G, n)) > 1}))

\* (a|b)&(a|c) = a|(b&c): the members lose the common arguments and go under a new gate.
Swapped(type) == CASE type = "nand" -> "nor" [] type = "nor" -> "nand"
HostOfCommon(G, g, distr, whole) ==
  IF whole THEN SetType(G, g, IF Type(G, g) \in {"and", "or"} THEN distr ELSE Swapped(Type(G, g)))
  ELSE AddArg(Mark(NewGate(G, distr), G.next + 1), g, G.next + 1)
SettleMember(G, m) == Ensure(NullIfOne(G, m), Args(G, m) # {}, "member without arguments")
MoveMember(G, g, m, s, args) ==
  SettleMember(FoldLeft(LAMBDA F, a : EraseArg(F, m, a),
                        AddArg(EraseArg(Ensure(G, Cardinality(Parents(G, m)) = 1, "shared member"), g, m), s, m),
                        args), m)
FactorOut(G, g, distr, parent, s, members, args) ==
  [FoldLeft(LAMBDA H, m : MoveMember(H, g, m, s, args),
            FoldLeft(LAMBDA H, a : ShareArg(H, members[1], a, parent),
                     AddArg(Mark(NewGate(HostOfCommon(G, g, distr, parent = g),
                                         IF distr = "and" THEN "or" ELSE "and"), s), parent, s), args),
            members) EXCEPT !.held = G.held]
RECURSIVE TransformDistributiveArgs(_, _, _, _)
TransformDistributiveArgs(G, g, distr, group) ==
  LET args == group[1].args
      members == InOrder(G, group[1].parents)
      whole == Cardinality(Args(G, g)) = Len(members)
      s == IF whole THEN G.next + 1 ELSE G.next + 2
  IN  IF group = <<>> THEN G
      ELSE TransformDistributiveArgs(
             FactorOut(G, g, distr, IF whole THEN g ELSE G.next + 1, s, members, InOrder(G, args)), s, distr,
             [i \in 1..(Len(group) - 1) |-> [group[i + 1] EXCEPT !.args = @ \ args]])

\* All groups are separated, then all are transformed.  S = [graph, groups].
NoteGroup(S, groups) == [graph |-> S.graph, groups |-> Append(groups, S.group)]
SeparateGroups(G, g, groups) ==
  FoldLeft(LAMBDA S, group : NoteGroup(SeparateMembers(S.graph, g, group), S.groups),
           [graph |-> G, groups |-> <<>>], groups)
TransformGroups(S, g, distr) ==
  FoldLeft(LAMBDA H, group : TransformDistributiveArgs(H, g, distr, group), S.graph, S.groups)
HandleOptions(G, g, distr, options) ==
  IF options = {} THEN G
  ELSE CheckArgs(TransformGroups(SeparateGroups(G, g, GroupDistributiveArgs(G, options)), g, distr), g)
HandleFiltered(F, g, distr) ==
  IF Len(F.list) < 2 THEN F.graph
  ELSE HandleOptions(CheckSizes(F.graph, F.list, "distributive candidate of one argument"), g, distr,
                     GroupCommonParents(1, ToSet(F.list)))
HandleDistributiveArgs(G, g, distr, candidates) ==
  IF candidates = <<>> THEN G
  ELSE HandleFiltered(FilterDistributiveArgs(Ensure(G, Cardinality(Args(G, g)) > 1, "malformed parent"), g,
                                             candidates), g, distr)

Distributive(type) == CASE type \in {"and", "nand"} -> "or"
                        [] type \in {"or", "nor"} -> "and"
                        [] OTHER -> "none"
\* C = [graph, list].
NoteCandidate(G, a, distr, list) ==
  [graph |-> Ensure(G, ~IsConstant(G, Node(a)), "constant child"),
   list |-> IF a > 0 /\ ~IsModule(G, Node(a)) /\ Type(G, Node(a)) = distr THEN Append(list, a) ELSE list]
RECURSIVE DetectDistributivityFrom(_, _)
DetectInArgs(G, g, distr) ==
  FoldLeft(LAMBDA C, a : NoteCandidate(DetectDistributivityFrom(C.graph, Node(a)), a, distr, C.list),
           [graph |-> Mark(G, g), list |-> <<>>], GateArgs(G, g))
HandleCandidates(C, g, distr) == HandleDistributiveArgs(C.graph, g, distr, C.list)
DetectDistributivityFrom(G, g) ==
  IF G.gate[g].mark THEN G
  ELSE HandleCandidates(DetectInArgs(Ensure(G, ~IsConstant(G, g), "constant and distributivity"), g,
                                     Distributive(Type(G, g))), g, Distributive(Type(G, g)))
CheckDistributed(G) == Ensure(G, ~HasConstants(G), "constants after distributivity")
DetectDistributivity(G) ==
  RemoveNullGates(CheckDistributed(DetectDistributivityFrom(
    ClearGateMarks(CheckNoNulls(G, "pass-through gates to distribute")), G.root)))
=============================================================================
