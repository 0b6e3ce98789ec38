--------------------------- MODULE EventTreeWalk ----------------------------
(***************************************************************************)
(* EventTreeAnalysis (src/event_tree_analysis.cc): for every initiating    *)
(* event the walk over the branches of its event tree collects formulas or *)
(* expressions on the way to each sequence, and the paths that end in one  *)
(* sequence are joined into one gate.                                      *)
(*                                                                         *)
(* The walk keeps the states of functional events in the context that the  *)
(* whole model shares, where the tests of conditionals read them: a fork   *)
(* writes and erases its event, a link puts the context aside for the      *)
(* event tree it leads to.  A Collector is a frame of the stack; it goes   *)
(* from a branch to its target, and a fork or a link copies it.            *)
(***************************************************************************)
EXTENDS EventTrees

CONSTANTS
  Models,  \* the models to check
  None     \* no initiating event

ASSUME ModelsAssumption == \A m \in Models : IsDefined(m)

VARIABLES
  model,
  phase,             \* "validate", "start", "walk", "join", or the end:
                     \* "refused", "failed" (an assertion), "done"
  pending,           \* initiating events that are left
  initiating_event,  \* Context::initiating_event
  functional_events, \* Context::functional_events
  stack,             \* the active Collectors, outermost first
  sequences,         \* SequenceCollector::sequences
  gates              \* the gates made of them, by initiating event and sequence

vars == <<model, phase, pending, initiating_event, functional_events, stack, sequences, gates>>

\* A PathCollector; trail, the choices on the path, is only for the properties.
EmptyPath == [formulas |-> <<>>, expressions |-> <<>>, set_instructions |-> <<>>, trail |-> <<>>]

\* A Collector at a target or branch with its instructions or paths left, and the context
\* it has put aside, if any.
Collector(at, todo, path) ==
  [at |-> at, todo |-> todo, path |-> path, is_linked |-> FALSE, save |-> <<>>]
AtBranch(b, path) == Collector(<<"branch", b>>, model.branch[b].instructions, path)

Top == stack[Len(stack)]
Pop == SubSeq(stack, 1, Len(stack) - 1)
WithTop(frame) == Append(Pop, frame)
Without(context, event) == [e \in DOMAIN context \ {event} |-> context[e]]

Validate ==
  /\ phase = "validate"
  /\ phase' = IF IsValid(model) THEN "start" ELSE "refused"
  /\ UNCHANGED <<model, pending, initiating_event, functional_events, stack, sequences, gates>>

\* Mutant: the initiating event is not taken off the list.
StartAgain(event) ==
  /\ phase = "start" /\ event \in pending
  /\ initiating_event' = event
  /\ functional_events' = <<>>
  /\ stack' = <<AtBranch(model.initial[model.initiating[event]], EmptyPath)>>
  /\ sequences' = <<>>
  /\ phase' = "walk"
  /\ UNCHANGED <<model, pending, gates>>

\* Analyze of the next initiating event.
Start(event) ==
  /\ phase = "start" /\ event \in pending
  /\ pending' = pending \ {event}
  /\ initiating_event' = event
  /\ functional_events' = <<>>
  /\ stack' = <<AtBranch(model.initial[model.initiating[event]], EmptyPath)>>
  /\ sequences' = <<>>
  /\ phase' = "walk"
  /\ UNCHANGED <<model, gates>>

-----------------------------------------------------------------------------
\* The next instruction of a branch or a sequence.

\* TestFunctionalEvent::value and TestInitiatingEvent::value.
Outcome(test) ==
  IF test[1] = "initiating" THEN test[2] = initiating_event
  ELSE test[2] \in DOMAIN functional_events /\ functional_events[test[2]] = test[3]
Holds(instruction) == \A test \in instruction.when : Outcome(test) = test[4]

Executing == phase = "walk" /\ stack # <<>> /\ Kind(Top.at) # "fork" /\ Top.todo # <<>>
Instruction == Head(Top.todo)
Executed(path) == WithTop([Top EXCEPT !.todo = Tail(@), !.path = path])

PassOver ==
  /\ Executing /\ ~Holds(Instruction)
  /\ stack' = Executed(Top.path)
  /\ UNCHANGED <<model, phase, pending, initiating_event, functional_events, sequences, gates>>

\* The last instruction for a house event wins; a formula sees those before it.
Overridden(houses, house, state) == [h \in DOMAIN houses \cup {house} |->
                                       IF h = house THEN state ELSE houses[h]]
Collected(path, i) ==
  CASE i.do = "set" -> [path EXCEPT !.set_instructions = Overridden(@, i.house, i.state)]
    [] i.do = "formula" -> [path EXCEPT !.formulas =
                              Append(@, <<i.formula, path.set_instructions>>)]
    [] i.do = "expression" -> [path EXCEPT !.expressions = Append(@, i.expression)]

Visit ==
  /\ Executing /\ Holds(Instruction) /\ Instruction.do # "link"
  /\ stack' = Executed(Collected(Top.path, Instruction))
  /\ UNCHANGED <<model, phase, pending, initiating_event, functional_events, sequences, gates>>

\* Lists may link to a tree twice; how many instructions are left tells the links apart.
Relinked(path, tree, left) == [path EXCEPT !.trail = Append(@, <<"link", tree, left>>)]

\* A link: a copy of the collector goes on in another event tree, with the context
\* put aside (moved away, which leaves the map empty).
VisitLink ==
  /\ Executing /\ Holds(Instruction) /\ Instruction.do = "link"
  /\ functional_events' = <<>>
  /\ stack' = Append(WithTop([at |-> Top.at, todo |-> Tail(Top.todo), path |-> Top.path,
                              is_linked |-> TRUE, save |-> <<functional_events>>]),
                     AtBranch(model.initial[Instruction.tree],
                              Relinked(Top.path, Instruction.tree, Len(Top.todo) - 1)))
  /\ UNCHANGED <<model, phase, pending, initiating_event, sequences, gates>>

-----------------------------------------------------------------------------
\* All instructions of a branch are executed: the collector goes on to the target.

Arrived == phase = "walk" /\ stack # <<>> /\ Top.at[1] = "branch" /\ Top.todo = <<>>
Target == model.branch[Name(Top.at)].target

GoOn ==
  /\ Arrived /\ Kind(Target) # "fork"
  /\ stack' = WithTop(IF Kind(Target) = "branch" THEN AtBranch(Name(Target), Top.path)
                      ELSE Collector(Target, model.sequence[Name(Target)], Top.path))
  /\ UNCHANGED <<model, phase, pending, initiating_event, functional_events, sequences, gates>>

Event(f) == model.fork[f].event

\* A fork adds its functional event to the context; it must not be there.
EnterFork ==
  /\ Arrived /\ Kind(Target) = "fork"
  /\ LET event == Event(Name(Target)) IN
       IF event \in DOMAIN functional_events
         THEN phase' = "failed" /\ UNCHANGED <<functional_events, stack>>
         ELSE /\ functional_events' = [e \in DOMAIN functional_events \cup {event} |->
                                         IF e = event THEN "" ELSE functional_events[e]]
              /\ stack' = WithTop(Collector(Target, model.fork[Name(Target)].paths, Top.path))
              /\ phase' = phase
  /\ UNCHANGED <<model, pending, initiating_event, sequences, gates>>

AtFork == phase = "walk" /\ stack # <<>> /\ Top.at[1] = "fork"
Chosen(path, f, state) ==
  [path EXCEPT !.trail = Append(@, <<"fork", model.fork[f].tree, Event(f), state>>)]

\* The next path of a fork is walked with a copy of the collector.
TakePath ==
  /\ AtFork /\ Top.todo # <<>>
  /\ LET f == Name(Top.at)
         state == Head(Top.todo)[1]
     IN  /\ functional_events' = [functional_events EXCEPT ![Event(f)] = state]
         /\ stack' = Append(WithTop([Top EXCEPT !.todo = Tail(@)]),
                            AtBranch(Head(Top.todo)[2], Chosen(Top.path, f, state)))
  /\ UNCHANGED <<model, phase, pending, initiating_event, sequences, gates>>

\* Mutant: the context that was put aside stays there as well.
ReturnWithCopy(context) ==
  /\ stack' = Pop
  /\ functional_events' =
       IF Pop # <<>> /\ Pop[Len(Pop)].save # <<>> THEN Head(Pop[Len(Pop)].save) ELSE context

\* The collector on top is through.  The one below goes on: if it is at a link, with
\* the context that it had put aside.
Return(context) ==
  /\ stack' = IF Pop = <<>> THEN <<>> ELSE [Pop EXCEPT ![Len(Pop)].save = <<>>]
  /\ functional_events' =
       IF Pop # <<>> /\ Pop[Len(Pop)].save # <<>> THEN Head(Pop[Len(Pop)].save) ELSE context

\* Mutant: the functional event of the fork stays in the context.
LeaveForkOnly ==
  /\ AtFork /\ Top.todo = <<>>
  /\ Return(functional_events)
  /\ UNCHANGED <<model, phase, pending, initiating_event, sequences, gates>>

LeaveFork ==
  /\ AtFork /\ Top.todo = <<>>
  /\ Return(Without(functional_events, Event(Name(Top.at))))
  /\ UNCHANGED <<model, phase, pending, initiating_event, sequences, gates>>

PathsTo(s) == IF s \in DOMAIN sequences THEN sequences[s] ELSE <<>>
WithPath(s, path) == [t \in DOMAIN sequences \cup {s} |->
                        IF t = s THEN Append(PathsTo(s), path) ELSE sequences[t]]

\* Mutant: a sequence that links to another event tree is an end state too.
EndAnyPath ==
  /\ phase = "walk" /\ stack # <<>> /\ Top.at[1] = "sequence" /\ Top.todo = <<>>
  /\ sequences' = WithPath(Name(Top.at), Top.path)
  /\ Return(functional_events)
  /\ UNCHANGED <<model, phase, pending, initiating_event, gates>>

\* A path ends in a sequence, unless the sequence has linked to another event tree.
EndPath ==
  /\ phase = "walk" /\ stack # <<>> /\ Top.at[1] = "sequence" /\ Top.todo = <<>>
  /\ sequences' = IF Top.is_linked THEN sequences ELSE WithPath(Name(Top.at), Top.path)
  /\ Return(functional_events)
  /\ UNCHANGED <<model, phase, pending, initiating_event, gates>>

EndWalk ==
  /\ phase = "walk" /\ stack = <<>>
  /\ phase' = "join"
  /\ UNCHANGED <<model, pending, initiating_event, functional_events, stack, sequences, gates>>

-----------------------------------------------------------------------------
\* Analyze makes one gate of the paths to a sequence: the disjunction of their
\* formulas, the sum of their expressions, or TRUE if they have neither.  A path that
\* has collected nothing adds nothing.
Formulas(paths) == Restrict(paths, {i \in DOMAIN paths : paths[i].formulas # <<>>})
Expressions(paths) == Restrict(paths, {i \in DOMAIN paths : paths[i].expressions # <<>>})
HaveFormulas(paths) == \E path \in Range(paths) : path.formulas # <<>>
HaveExpressions(paths) == \E path \in Range(paths) : path.expressions # <<>>

Gate(paths) ==
  CASE HaveFormulas(paths) -> [type |-> "or", paths |-> Formulas(paths)]
    [] ~HaveFormulas(paths) /\ HaveExpressions(paths) ->
         [type |-> "sum", paths |-> Expressions(paths)]
    [] OTHER -> [type |-> "true", paths |-> <<>>]

Join(s) ==
  /\ phase = "join" /\ s \in DOMAIN sequences
  /\ <<initiating_event, s>> \notin DOMAIN gates
  /\ IF HaveFormulas(sequences[s]) /\ HaveExpressions(sequences[s])
       THEN phase' = "failed" /\ gates' = gates
       ELSE /\ gates' = [t \in DOMAIN gates \cup {<<initiating_event, s>>} |->
                           IF t = <<initiating_event, s>> THEN Gate(sequences[s]) ELSE gates[t]]
            /\ phase' = phase
  /\ UNCHANGED <<model, pending, initiating_event, functional_events, stack, sequences>>

EndAnalysis ==
  /\ phase = "join"
  /\ \A s \in DOMAIN sequences : <<initiating_event, s>> \in DOMAIN gates
  /\ phase' = IF pending = {} THEN "done" ELSE "start"
  /\ UNCHANGED <<model, pending, initiating_event, functional_events, stack, sequences, gates>>

Ended == {"refused", "failed", "done"}
Terminated == phase \in Ended /\ UNCHANGED vars

Init ==
  /\ model \in Models
  /\ phase = "validate"
  /\ pending = DOMAIN model.initiating
  /\ initiating_event = None
  /\ functional_events = <<>>
  /\ stack = <<>> /\ sequences = <<>> /\ gates = <<>>

Walk ==
  \/ PassOver \/ Visit \/ VisitLink \/ GoOn \/ EnterFork \/ TakePath \/ LeaveFork
  \/ EndPath \/ EndWalk

Step ==
  \/ Validate
  \/ \E event \in DOMAIN model.initiating : Start(event)
  \/ Walk
  \/ \E s \in DOMAIN sequences : Join(s)
  \/ EndAnalysis

Next == Step \/ Terminated

Spec == Init /\ [][Next]_vars
\* Analyze is a plain function call in one thread.  This is weak fairness of Step, written
\* out: until the end a step is enabled, and every step changes something.
FairSpec == Spec /\ ([]<>(phase \in Ended) \/ []<><<Step>>_vars)

-----------------------------------------------------------------------------
\* The values the variables may hold; only a collector below another one has put a
\* context aside, and only in a sequence that links.
TypeOK ==
  /\ phase \in {"validate", "start", "walk", "join"} \cup Ended
  /\ pending \subseteq DOMAIN model.initiating
  /\ initiating_event \in DOMAIN model.initiating \cup {None}
  /\ DOMAIN functional_events \subseteq EventsOf(model)
  /\ Range(functional_events) \subseteq StatesOf(model) \cup {""}
  /\ \A i \in 1 .. Len(stack) :
       /\ stack[i].at[1] \in {"branch", "sequence", "fork"}
       /\ stack[i].save # <<>> => stack[i].is_linked /\ i < Len(stack)
       /\ stack[i].is_linked => stack[i].at[1] = "sequence"
  /\ DOMAIN sequences \subseteq DOMAIN model.sequence
  /\ DOMAIN gates \subseteq (DOMAIN model.initiating) \X (DOMAIN model.sequence)

\* The checks of the initializer are enough for the walk: no assertion of
\* EventTreeAnalysis fails in a model that they accept, neither that of a fork whose
\* functional event is in the context (src/event_tree_analysis.cc:219) nor that of a
\* sequence with both formulas and expressions (src/event_tree_analysis.cc:135).
AssertionsHold == phase # "failed"

\* The choices since the last link, which is what the tests are meant to see.
Current(trail) ==
  LET links == {i \in 1 .. Len(trail) : trail[i][1] = "link"}
  IN  {i \in 1 .. Len(trail) : \A j \in links : j < i}
IsContextOf(context, trail) ==
  /\ DOMAIN context = {trail[i][3] : i \in Current(trail)}
  /\ \A i \in Current(trail) : context[trail[i][3]] = trail[i][4]

\* Whenever an instruction is executed, the shared context holds the states of the
\* forks on its own path in its own event tree, and nothing of paths walked before, of
\* linked event trees or of other initiating events.
ContextIsOfPath ==
  Executing => IsContextOf(functional_events, Top.path.trail)

\* Analyze ends for every model the initializer accepts, and others are refused.
EveryWalkEnds == <>(phase \in Ended)
=============================================================================
