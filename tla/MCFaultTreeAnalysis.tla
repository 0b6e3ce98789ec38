------------------------ MODULE MCFaultTreeAnalysis ------------------------
(***************************************************************************)
(* Small models for FaultTreeAnalysis: a family of fault trees in which    *)
(* gates and events are shared in many ways, and single models with house  *)
(* events, several fault trees, common-cause groups and substitutions,     *)
(* among them models that are refused.                                     *)
(***************************************************************************)
EXTENDS FaultTreeAnalysis

Pos(event) == [complement |-> FALSE, event |-> event]
Neg(event) == [complement |-> TRUE, event |-> event]
F(connective, args) == [connective |-> connective, min |-> Absent, max |-> Absent, args |-> args]
Vote(min, args) == [connective |-> "atleast", min |-> min, max |-> Absent, args |-> args]
FromTo(min, max, args) == [connective |-> "cardinality", min |-> min, max |-> max, args |-> args]
Events(events) == [i \in DOMAIN events |-> Pos(events[i])]

NoHouse == [h \in {} |-> TRUE]
Model(formula, house, groups, substitutions) ==
  [trees |-> <<DOMAIN formula>>, formula |-> formula, house |-> house, groups |-> groups,
   substitutions |-> substitutions]
Tree(formula) == Model(formula, NoHouse, <<>>, <<>>)

-----------------------------------------------------------------------------
(* Three levels of gates, the lowest one shared *)

Tops == <<F("and", Events(<<"g1", "g2">>)), F("or", Events(<<"g1", "g2">>)),
          F("xor", Events(<<"g1", "g2">>)), F("nand", Events(<<"g1", "g2">>)),
          Vote(2, Events(<<"g1", "g2", "a">>))>>
Lefts == <<F("and", Events(<<"g3", "a">>)), F("or", Events(<<"g3", "a">>)),
           F("xor", Events(<<"g3", "a">>)), Vote(2, Events(<<"g3", "b", "c">>)),
           F("or", <<Pos("b"), Neg("c"), Pos("g3")>>)>>
Rights == <<F("and", Events(<<"g3", "b">>)), F("or", Events(<<"g3", "b">>)),
            F("nor", Events(<<"g3", "b">>)), F("and", Events(<<"g3", "a", "c">>)),
            F("imply", Events(<<"g3", "c">>)), FromTo(1, 2, Events(<<"a", "b", "g3">>))>>
Shared == <<F("and", Events(<<"c", "d">>)), F("or", Events(<<"c", "d">>)),
            F("not", Events(<<"c">>)), F("or", Events(<<"a", "b">>))>>
Family ==
  {Tree([top |-> Tops[i[1]], g1 |-> Lefts[i[2]], g2 |-> Rights[i[3]], g3 |-> Shared[i[4]]]) :
     i \in {j \in (1..5) \X (1..5) \X (1..6) \X (1..4) : (j[1] + 2 * j[2] + j[3] + j[4]) % 4 = 0}}

-----------------------------------------------------------------------------
(* Constants, pass-through gates, votes, and several fault trees *)

Single == {
  Model([top |-> F("or", Events(<<"g1", "off">>)), g1 |-> F("and", <<Pos("a"), Pos("on"), Neg("off")>>)],
        [on |-> TRUE, off |-> FALSE], <<>>, <<>>),
  Model([top |-> F("nand", Events(<<"a", "off">>))], [off |-> FALSE], <<>>, <<>>),
  Model([top |-> Vote(2, Events(<<"a", "b", "c", "on">>))], [on |-> TRUE], <<>>, <<>>),
  Model([top |-> F("or", Events(<<"g1", "g2">>)), g1 |-> F("iff", Events(<<"a", "on">>)),
         g2 |-> F("xor", Events(<<"g3", "b">>)), g3 |-> F("null", Events(<<"off">>))],
        [on |-> TRUE, off |-> FALSE], <<>>, <<>>),
  Tree([top |-> F("and", Events(<<"g1", "g2">>)), g1 |-> F("iff", Events(<<"a", "b">>)),
        g2 |-> F("or", Events(<<"b", "c">>))]),
  Tree([top |-> F("not", Events(<<"g1">>)), g1 |-> F("or", Events(<<"a", "b">>))]),
  Tree([top |-> F("null", Events(<<"g1">>)), g1 |-> F("null", <<Pos("g2")>>), g2 |-> F("nor", Events(<<"a", "b">>))]),
  \* the same argument twice, through pass-through gates
  Tree([top |-> Vote(2, Events(<<"a", "b", "c", "g1">>)), g1 |-> F("null", Events(<<"a">>))]),
  Tree([top |-> Vote(3, Events(<<"a", "b", "c", "d", "g1">>)), g1 |-> F("null", Events(<<"a">>))]),
  Tree([top |-> Vote(3, Events(<<"a", "b", "c", "g1">>)), g1 |-> F("not", Events(<<"a">>))]),
  Tree([top |-> F("xor", Events(<<"a", "g1">>)), g1 |-> F("null", Events(<<"a">>))]),
  Tree([top |-> FromTo(0, 1, Events(<<"a", "b">>))]),
  Tree([top |-> F("or", Events(<<"g1", "c">>)), g1 |-> FromTo(2, 2, Events(<<"a", "b">>))]),
  Tree([top |-> FromTo(1, 2, Events(<<"a", "b", "c", "d">>))]),
  \* two modules side by side, and one in the other
  Tree([top |-> F("and", Events(<<"g1", "g2">>)), g1 |-> F("or", Events(<<"a", "b", "g3">>)),
        g2 |-> F("xor", Events(<<"d", "e">>)), g3 |-> F("and", Events(<<"a", "b", "c">>))]),
  Tree([top |-> F("or", Events(<<"g1", "g2", "g3">>)), g1 |-> F("and", Events(<<"a", "b", "c">>)),
        g2 |-> F("and", Events(<<"a", "b", "d">>)), g3 |-> F("and", Events(<<"c", "d", "e">>))]),
  \* a module in sets of different orders
  Tree([top |-> F("or", Events(<<"g1", "g2", "g3">>)), g1 |-> F("and", Events(<<"m", "a">>)),
        g2 |-> F("and", Events(<<"m", "b", "c">>)), g3 |-> F("and", Events(<<"a", "b">>)),
        m |-> F("or", Events(<<"d", "n">>)), n |-> F("and", Events(<<"e", "f">>))]),
  \* top events of two fault trees
  [trees |-> <<{"top", "g1", "next"}, {"other"}>>,
   formula |-> [top |-> F("and", Events(<<"g1", "a">>)), g1 |-> F("or", Events(<<"b", "c">>)),
                next |-> F("or", Events(<<"g1", "a">>)), other |-> F("and", Events(<<"top", "b">>))],
   house |-> NoHouse, groups |-> <<>>, substitutions |-> <<>>]}

\* Formulas that are refused.
Refused == {
  Tree([top |-> formula]) : formula \in {
    F("and", Events(<<"a">>)), F("xor", Events(<<"a", "b", "c">>)), F("or", Events(<<"a", "a">>)),
    Vote(1, Events(<<"a", "b">>)), Vote(2, Events(<<"a", "b">>)), F("atleast", Events(<<"a", "b", "c">>)),
    FromTo(2, 1, Events(<<"a", "b">>)), FromTo(1, 3, Events(<<"a", "b">>)), F("null", Events(<<>>))}}
  \cup {Model([top |-> F("not", Events(<<"__true__">>))], [h \in {"__true__"} |-> TRUE], <<>>, <<>>)}

\* Two votes out of three, two of them the same, with house events besides.
DuplicateVotes == {
  Model([top |-> F("or", Events(<<"g2", "g3">>)), g1 |-> F("null", Events(<<"a">>)),
         g2 |-> Vote(2, Events(<<"a", "b", "g1">>)), g3 |-> F("and", <<Pos("c"), Pos("d"), other>>)],
        [on |-> TRUE, off |-> FALSE], <<>>, <<>>) : other \in {Pos("on"), Neg("off")}}
-----------------------------------------------------------------------------
(* Common-cause groups *)

Factor(level, tenths) == [level |-> level, value |-> <<tenths, 10>>]
Group(kind, members, factors) == [model |-> kind, members |-> members, factors |-> factors]
Two == <<"a", "b">>
Three == <<"a", "b", "c">>
WithGroup(group) ==
  Model([top |-> F("and", Events(<<"g1", "c">>)), g1 |-> F("or", <<Pos("a"), Neg("d")>>)],
        NoHouse, <<group>>, <<>>)
Groups == {WithGroup(group) : group \in {
  Group("beta", Two, <<Factor(Absent, 1)>>),
  Group("mgl", Two, <<Factor(2, 2)>>),
  Group("alpha", Two, <<Factor(2, 1), Factor(1, 7)>>),
  Group("phi", Two, <<Factor(1, 8), Factor(Absent, 2)>>),
  Group("mgl", <<"p", "q", "r", "s">>, <<Factor(Absent, 3), Factor(Absent, 4)>>),
  Group("alpha", <<"p", "q", "r">>, <<Factor(Absent, 5), Factor(Absent, 3)>>)}}
  \cup {Model([top |-> F("and", Events(<<"a", "d">>))], NoHouse,
              <<Group("mgl", Three, <<Factor(3, 1), Factor(2, 2)>>)>>, <<>>),
        Model([top |-> F("or", Events(<<"g1", "p">>)), g1 |-> F("and", Events(Two))], NoHouse,
              <<Group("beta", Two, <<Factor(2, 1)>>), Group("alpha", <<"p", "q">>, <<Factor(1, 3), Factor(2, 3)>>)>>,
              <<>>)}
RefusedGroups == {WithGroup(group) : group \in {
  Group("beta", Two, <<Factor(1, 1)>>),                            \* below the minimum level
  Group("beta", Two, <<Factor(Absent, 1), Factor(Absent, 1)>>),    \* above the number of members
  Group("mgl", Three, <<Factor(2, 1), Factor(2, 1)>>),             \* a level twice
  Group("mgl", Three, <<Factor(3, 1)>>),                           \* a level missing
  Group("alpha", Two, <<>>),
  Group("alpha", Two, <<Factor(1, 11)>>),                          \* no probability
  Group("alpha", Two, <<Factor(1, 9)>>),                           \* a gate of one event
  Group("phi", Two, <<Factor(1, 5), Factor(2, 4)>>),               \* a sum below one
  Group("beta", <<"a">>, <<Factor(Absent, 1)>>),
  Group("beta", <<"a", "a">>, <<Factor(Absent, 1)>>)}}

-----------------------------------------------------------------------------
(* Substitutions *)

Rule(hypothesis, source, target) ==
  [hypothesis |-> hypothesis, source |-> source, target |-> target, type |-> "none"]
AllOf(events) == F("and", Events(events))
AnyOf(events) == F("or", Events(events))
Only(event) == F("null", Events(<<event>>))
Typed(rule, type) == [rule EXCEPT !.type = type]
DeleteAB == Rule(AllOf(<<"a", "b">>), <<>>, DeleteTerms)
RecoverAB == Rule(AllOf(<<"a", "b">>), <<"a", "b">>, "r")
ExchangeB == Rule(AllOf(<<"b", "c">>), <<"b">>, "r")
WithRules(rules) ==
  Model([top |-> F("or", Events(<<"g1", "g2">>)), g1 |-> F("and", Events(<<"a", "b", "c">>)),
         g2 |-> F("and", Events(<<"b", "d">>))], NoHouse, <<>>, rules)
Rules == {WithRules(rules) : rules \in {
  <<DeleteAB>>, <<Rule(AllOf(<<"a", "b">>), <<>>, "d")>>, <<Rule(Vote(2, Events(<<"a", "b", "c">>)), <<>>, DeleteTerms)>>,
  <<Rule(AnyOf(<<"a", "c">>), <<>>, "d"), DeleteAB>>,
  <<Typed(RecoverAB, "recovery-rule")>>, <<Typed(ExchangeB, "exchange-event")>>,
  <<Rule(AnyOf(<<"a", "d">>), <<"b">>, "r")>>, <<Rule(Only("b"), <<"b">>, Nothing)>>,
  <<Rule(AllOf(<<"a", "c">>), <<"a">>, "r"), Rule(Only("d"), <<"d">>, "s")>>,
  <<Rule(AnyOf(<<"a", "d">>), <<"a">>, "r"), DeleteAB>>}}
  \cup {Model([top |-> F("or", Events(<<"a", "h">>))], [h |-> FALSE], <<>>, <<Rule(Only("a"), <<"a">>, "r")>>)}
RefusedRules == {WithRules(rules) : rules \in {
  <<Typed(DeleteAB, "recovery-rule")>>, <<Typed(RecoverAB, "exchange-event")>>,
  <<Rule(AllOf(<<"a", "b">>), <<>>, Nothing)>>, <<Rule(AllOf(<<"a", "b">>), <<"a">>, DeleteTerms)>>,
  <<Rule(F("nor", Events(<<"a", "b">>)), <<>>, DeleteTerms)>>, <<Rule(AllOf(<<"a", "g2">>), <<>>, "d")>>,
  <<Rule(Vote(2, Events(<<"a", "b", "c">>)), <<"a">>, "r")>>, <<Rule(F("and", <<Pos("a"), Neg("b")>>), <<>>, "d")>>,
  <<Rule(Only("a"), <<"b", "b">>, "r")>>,
  <<RecoverAB, Rule(Only("d"), <<"r">>, "s")>>,       \* a target is a source
  <<RecoverAB, Rule(Only("r"), <<"d">>, "s")>>,       \* a target is in a hypothesis
  <<RecoverAB, ExchangeB>>}}                          \* a source is in a hypothesis
  \cup {Model([top |-> F("and", Events(<<"a", "b">>))], NoHouse,
              <<Group("beta", Two, <<Factor(2, 1)>>)>>, <<Rule(Only("a"), <<"a">>, "r")>>)}

MCInputs == Family \cup Single \cup Refused \cup Groups \cup RefusedGroups \cup Rules \cup RefusedRules
=============================================================================
