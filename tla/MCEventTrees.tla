---------------------------- MODULE MCEventTrees ----------------------------
(* Two event trees for TLC.  In t1 a fork of e1 leads to a sequence or to a  *)
(* named branch, and on the other side to a fork of e2 or to the same named  *)
(* branch; sequence s1 may link to t2, which has a functional event called   *)
(* e1 as well.  Some of the models are not valid.                            *)
EXTENDS EventTreeScenarios, TLC

Always == {}
If(event, state) == {TestFunctionalEvent(event, state, TRUE)}
Unless(event, state) == {TestFunctionalEvent(event, state, FALSE)}

AtStart == {<<>>, <<SetHouseEvent("h", TRUE, Always), CollectFormula("a", Always)>>,
            <<CollectExpression("x", {TestInitiatingEvent("i1", TRUE)})>>}
OnFailure == {<<>>, <<SetHouseEvent("h", FALSE, Always), CollectFormula("b", Always)>>}
InNamed == {<<>>, <<CollectFormula("c", If("e1", "s"))>>, <<Link("t2", Always)>>}
InSequence == {<<>>, <<Link("t2", Unless("e1", "f"))>>,
               <<CollectFormula("d", Always), Link("t2", Always), Link("t2", Always)>>}
InLinked == {<<CollectFormula("g", If("e1", "f"))>>, <<CollectFormula("g", Unless("e2", "f"))>>}
AfterFork == {<<"sequence", "s2">>, <<"fork", "f2">>}
\* A path of the linked tree that ends in the sequence that links is a cycle of links.
AfterLink == {<<"sequence", "s3">>, <<"sequence", "s1">>}

Branch(instructions, target) == [instructions |-> instructions, target |-> target]

Model(start, failure, named, sequence, linked, success, target, end, second, e2) ==
  [initiating |-> "i1" :> "t1" @@ "i2" :> "t2",
   initial |-> "t1" :> "b1" @@ "t2" :> "b2",
   named |-> {"n"},
   branch |-> "b1" :> Branch(start, <<"fork", "f1">>)
           @@ "s" :> Branch(<<>>, success)
           @@ "f" :> Branch(failure, <<"branch", "n">>)
           @@ "n" :> Branch(named, target)
           @@ "ns" :> Branch(<<>>, <<"sequence", "s1">>)
           @@ "nf" :> Branch(<<>>, <<"sequence", "s2">>)
           @@ "b2" :> Branch(<<>>, <<"fork", "f3">>)
           @@ "ls" :> Branch(linked, <<"sequence", "s2">>)
           @@ "lf" :> Branch(linked, end),
   tree |-> [b \in {"b1", "s", "f", "n", "ns", "nf"} |-> "t1"]
         @@ [b \in {"b2", "ls", "lf"} |-> "t2"],
   fork |-> "f1" :> [tree |-> "t1", event |-> "e1", paths |-> <<<<"s", "s">>, <<"f", "f">>>>]
         @@ "f2" :> [tree |-> "t1", event |-> second, paths |-> <<<<"s", "ns">>, <<"f", "nf">>>>]
         @@ "f3" :> [tree |-> "t2", event |-> "e1", paths |-> <<<<"s", "ls">>, <<"f", "lf">>>>],
   order |-> <<"t1", "e1">> :> 3 - e2 @@ <<"t1", "e2">> :> e2 @@ <<"t2", "e1">> :> 1,
   sequence |-> "s1" :> sequence @@ "s2" :> <<>> @@ "s3" :> <<CollectFormula("k", Always)>>]

MCModels ==
  {Model(start, failure, named, sequence, linked, success, target, end, second, e2) :
     start \in AtStart, failure \in OnFailure, named \in InNamed, sequence \in InSequence,
     linked \in InLinked, success \in {<<"sequence", "s1">>, <<"branch", "n">>},
     target \in AfterFork, end \in AfterLink, second \in {"e1", "e2"}, e2 \in {1, 2}}
=============================================================================
