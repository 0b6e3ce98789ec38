-------------------------- MODULE EventTreeProofs ---------------------------
(***************************************************************************)
(* Proofs about EventTreeWalk for every set of models that are defined:    *)
(* what the initializer accepts is walked without a failing assertion, and *)
(* the tests of conditionals see the states of the path they are on.       *)
(***************************************************************************)
EXTENDS EventTreeWalk, TLAPS

-----------------------------------------------------------------------------
\* Lists.

LEMMA ListElements ==
  ASSUME NEW S, NEW list \in Seq(S)
  PROVE  /\ IsList(list) /\ Len(list) \in Nat
         /\ \A i \in 1 .. Len(list) : list[i] \in Range(list)
         /\ Range(list) \subseteq S
  BY DEF IsList, Range

LEMMA HeadAndTail ==
  ASSUME NEW S, NEW list \in Seq(S), list # <<>>
  PROVE  Head(list) \in S /\ Tail(list) \in Seq(S)
  OBVIOUS

\* What Append does to a list of anything.
LEMMA AppendToList ==
  ASSUME NEW list, IsList(list), NEW x
  PROVE  /\ IsList(Append(list, x)) /\ Len(list) \in Nat
         /\ Len(Append(list, x)) = Len(list) + 1
         /\ Append(list, x)[Len(list) + 1] = x
         /\ \A i \in 1 .. Len(list) : Append(list, x)[i] = list[i]
         /\ Range(Append(list, x)) = Range(list) \cup {x}
<1> DEFINE S == Range(list) \cup {x}
           appended == Append(list, x)
<1>1. list \in Seq(S) /\ Len(list) \in Nat
  BY DEF IsList
<1>2. appended \in Seq(S) /\ DOMAIN appended = 1 .. Len(appended) /\ DOMAIN list = 1 .. Len(list)
  BY <1>1
<1>3. /\ Len(appended) = Len(list) + 1 /\ appended[Len(list) + 1] = x
      /\ \A i \in 1 .. Len(list) : appended[i] = list[i]
  BY <1>1
<1>4. Range(appended) = S
  BY <1>1, <1>2, <1>3 DEF Range
<1> QED
  BY <1>1, <1>2, <1>3, <1>4 DEF IsList

\* A list without its last element.
LEMMA FrontOfList ==
  ASSUME NEW list, IsList(list), list # <<>>
  PROVE  LET front == SubSeq(list, 1, Len(list) - 1)
         IN  /\ IsList(front) /\ Len(list) \in Nat \ {0} /\ Len(front) = Len(list) - 1
             /\ \A i \in 1 .. Len(list) - 1 : front[i] = list[i]
<1> DEFINE j == Len(list) - 1
<1>1. list \in Seq(Range(list)) /\ Len(list) \in Nat \ {0}
  BY DEF IsList
<1>2. j \in Nat /\ j < Len(list)
  BY <1>1
<1> HIDE DEF j
<1>3. SubSeq(list, 1, j) \in Seq(Range(list))
  BY <1>1, <1>2
<1>4. Len(SubSeq(list, 1, j)) = j
  BY <1>1, <1>2
<1>5. \A i \in 1 .. j : SubSeq(list, 1, j)[i] = list[i]
  BY <1>1, <1>2
<1>6. IsList(SubSeq(list, 1, j))
  BY <1>3, ListElements
<1> QED
  BY <1>1, <1>4, <1>5, <1>6 DEF j

-----------------------------------------------------------------------------
\* Traversals.

LEMMA VisitedStart ==
  ASSUME NEW edges, NEW n
  PROVE  n \in VisitedFrom(edges, n)
  BY DEF VisitedFrom

LEMMA VisitedStep ==
  ASSUME NEW edges, NEW n, NEW k \in VisitedFrom(edges, n), NEW l, <<k, l>> \in edges
  PROVE  l \in VisitedFrom(edges, n)
<1> DEFINE nodes == {n} \cup {edge[2] : edge \in edges}
<1>1. l \in nodes
  <2>1. <<k, l>>[2] = l
    OBVIOUS
  <2> QED BY <2>1
<1>2. ASSUME NEW S \in SUBSET nodes, n \in S, \A edge \in edges : edge[1] \in S => edge[2] \in S
      PROVE  l \in S
  <2>1. k \in S
    BY <1>2 DEF VisitedFrom
  <2>2. <<k, l>>[1] = k /\ <<k, l>>[2] = l
    OBVIOUS
  <2> QED BY <1>2, <2>1, <2>2
<1> QED
  BY <1>1, <1>2 DEF VisitedFrom

\* What is visited after an edge is visited from its beginning.
LEMMA VisitedAfterEdge ==
  ASSUME NEW edges, NEW n, NEW k, <<n, k>> \in edges
  PROVE  VisitedFrom(edges, k) \subseteq VisitedFrom(edges, n)
<1> SUFFICES ASSUME NEW l \in VisitedFrom(edges, k) PROVE l \in VisitedFrom(edges, n)
  OBVIOUS
<1> DEFINE nodes == {k} \cup {edge[2] : edge \in edges}
           S == VisitedFrom(edges, n) \cap nodes
<1>1. k \in S
  BY VisitedStart, VisitedStep
<1>2. ASSUME NEW edge \in edges, edge[1] \in S PROVE edge[2] \in S
  <2>1. edge[2] \in nodes
    OBVIOUS
  <2>2. ASSUME NEW T \in SUBSET ({n} \cup {e[2] : e \in edges}), n \in T,
               \A e \in edges : e[1] \in T => e[2] \in T
        PROVE  edge[2] \in T
    <3>1. edge[1] \in T
      BY <1>2, <2>2 DEF VisitedFrom
    <3> QED BY <2>2, <3>1
  <2> QED
    BY <2>1, <2>2 DEF VisitedFrom
<1>3. l \in S
  <2> HIDE DEF S
  <2>1. S \in SUBSET nodes
    BY DEF S
  <2> QED
    BY <1>1, <1>2, <2>1 DEF VisitedFrom
<1> QED
  BY <1>3

-----------------------------------------------------------------------------
\* Contexts and trails.

Met(trail) == {trail[i][3] : i \in Current(trail)}

LEMMA NothingMet ==
  /\ Current(<<>>) = {}
  /\ IsContextOf(<<>>, <<>>)
  BY DEF Current, IsContextOf

\* After a link no choice counts.
LEMMA MetAfterLink ==
  ASSUME NEW trail, IsList(trail), NEW tree, NEW left
  PROVE  LET linked == Append(trail, <<"link", tree, left>>)
         IN  Current(linked) = {} /\ IsContextOf(<<>>, linked)
<1> DEFINE linked == Append(trail, <<"link", tree, left>>)
           n == Len(trail)
<1>1. n \in Nat /\ Len(linked) = n + 1 /\ linked[n + 1] = <<"link", tree, left>>
  BY AppendToList
<1>2. <<"link", tree, left>>[1] = "link"
  OBVIOUS
<1>3. n + 1 \in {i \in 1 .. Len(linked) : linked[i][1] = "link"}
  BY <1>1, <1>2
<1>4. \A i \in 1 .. Len(linked) : ~(n + 1 < i)
  BY <1>1
<1>5. Current(linked) = {}
  BY <1>1, <1>3, <1>4 DEF Current
<1> QED
  BY <1>5 DEF IsContextOf

\* A choice at a fork counts with those before it.
LEMMA MetAfterChoice ==
  ASSUME NEW trail, IsList(trail), NEW tree, NEW event, NEW state
  PROVE  LET chosen == Append(trail, <<"fork", tree, event, state>>)
         IN  /\ Current(chosen) = Current(trail) \cup {Len(trail) + 1}
             /\ Len(trail) \in Nat /\ Current(trail) \subseteq 1 .. Len(trail)
             /\ \A i \in Current(trail) : chosen[i] = trail[i]
             /\ chosen[Len(trail) + 1] = <<"fork", tree, event, state>>
<1> DEFINE item == <<"fork", tree, event, state>>
           chosen == Append(trail, item)
           n == Len(trail)
           links == {i \in 1 .. n : trail[i][1] = "link"}
<1>1. /\ n \in Nat /\ Len(chosen) = n + 1 /\ chosen[n + 1] = item
      /\ \A i \in 1 .. n : chosen[i] = trail[i]
  <2> HIDE DEF item
  <2> QED BY AppendToList
<1>2. item[1] # "link"
  OBVIOUS
<1>3. {i \in 1 .. n + 1 : chosen[i][1] = "link"} = links
  <2> HIDE DEF item, chosen
  <2>1. \A i \in 1 .. n + 1 : i \in 1 .. n \/ i = n + 1
    BY <1>1
  <2> QED BY <1>1, <1>2, <2>1
<1>4. Current(trail) = {i \in 1 .. n : \A j \in links : j < i}
  BY DEF Current
<1>5. Current(chosen) = {i \in 1 .. n + 1 : \A j \in links : j < i}
  BY <1>1, <1>3 DEF Current
<1>6. \A j \in links : j < n + 1
  BY <1>1
<1>7. Current(chosen) = Current(trail) \cup {n + 1}
  <2> HIDE DEF links, n
  <2> QED BY <1>1, <1>4, <1>5, <1>6
<1> QED
  BY <1>1, <1>4, <1>7

\* The context of a path with one more choice: the entry of its event is replaced.
LEMMA ContextAfterChoice ==
  ASSUME NEW context, NEW trail, IsList(trail), NEW tree, NEW event, NEW state,
         event \in DOMAIN context, event \notin Met(trail),
         IsContextOf(Without(context, event), trail)
  PROVE  IsContextOf([context EXCEPT ![event] = state],
                     Append(trail, <<"fork", tree, event, state>>))
<1> DEFINE item == <<"fork", tree, event, state>>
           chosen == Append(trail, item)
           n == Len(trail)
           extended == [context EXCEPT ![event] = state]
<1>1. /\ Current(chosen) = Current(trail) \cup {n + 1}
      /\ \A i \in Current(trail) : chosen[i] = trail[i]
      /\ chosen[n + 1] = item
  BY MetAfterChoice
<1>2. item[3] = event /\ item[4] = state
  OBVIOUS
<1> HIDE DEF item, chosen, n
<1>3. DOMAIN context \ {event} = {trail[i][3] : i \in Current(trail)}
  BY DEF IsContextOf, Without
<1>4. \A i \in Current(trail) : context[trail[i][3]] = trail[i][4]
  BY <1>3 DEF IsContextOf, Without
<1>5. DOMAIN extended = {chosen[i][3] : i \in Current(chosen)}
  <2>1. {chosen[i][3] : i \in Current(chosen)} = {trail[i][3] : i \in Current(trail)} \cup {event}
    BY <1>1, <1>2
  <2> QED BY <1>3, <2>1
<1>6. ASSUME NEW i \in Current(chosen) PROVE extended[chosen[i][3]] = chosen[i][4]
  <2>1. CASE i = n + 1
    BY <1>1, <1>2, <2>1
  <2>2. CASE i \in Current(trail)
    <3>1. trail[i][3] \in DOMAIN context \ {event}
      BY <1>3, <2>2
    <3> QED BY <1>1, <1>4, <2>2, <3>1
  <2> QED BY <1>1, <2>1, <2>2
<1> QED
  BY <1>5, <1>6 DEF IsContextOf, item, chosen

\* The way back.
LEMMA ContextBeforeChoice ==
  ASSUME NEW context, NEW trail, IsList(trail), NEW tree, NEW event, NEW state,
         event \notin Met(trail),
         IsContextOf(context, Append(trail, <<"fork", tree, event, state>>))
  PROVE  event \in DOMAIN context /\ IsContextOf(Without(context, event), trail)
<1> DEFINE item == <<"fork", tree, event, state>>
           chosen == Append(trail, item)
           n == Len(trail)
<1>1. /\ Current(chosen) = Current(trail) \cup {n + 1}
      /\ \A i \in Current(trail) : chosen[i] = trail[i]
      /\ chosen[n + 1] = item
  BY MetAfterChoice
<1>2. item[3] = event
  OBVIOUS
<1>3. IsContextOf(context, chosen)
  OBVIOUS
<1> HIDE DEF item, chosen, n
<1>4. {chosen[i][3] : i \in Current(chosen)} = Met(trail) \cup {event}
  BY <1>1, <1>2 DEF Met
<1>5. DOMAIN context = Met(trail) \cup {event}
  BY <1>3, <1>4 DEF IsContextOf
<1>6. \A i \in Current(trail) : context[trail[i][3]] = trail[i][4]
  BY <1>1, <1>3 DEF IsContextOf
<1>7. \A i \in Current(trail) : trail[i][3] \in Met(trail)
  BY DEF Met
<1> QED
  BY <1>5, <1>6, <1>7 DEF IsContextOf, Without, Met

-----------------------------------------------------------------------------
(***************************************************************************)
(* The inductive invariant.  b is the branch the walk began with; what     *)
(* depends on the state is a parameter.                                    *)
(***************************************************************************)

\* What trails consist of.
ForkItem(m, f, state) == <<"fork", m.fork[f].tree, m.fork[f].event, state>>
Choices(m, f) == {ForkItem(m, f, path[1]) : path \in Paths(m, f)}
Items(m) ==
  (UNION {Choices(m, f) : f \in DOMAIN m.fork})
    \cup {<<"link", t, left>> : t \in DOMAIN m.initial, left \in Nat}

\* A path has collected only what its model has under b, so that it does not mix kinds.
PathIsGood(m, b, path) ==
  /\ path = [formulas |-> path.formulas, expressions |-> path.expressions,
             set_instructions |-> path.set_instructions, trail |-> path.trail]
  /\ path.trail \in Seq(Items(m))
  /\ path.formulas # <<>> => "formula" \in Kinds(m, b)
  /\ path.expressions # <<>> => "expression" \in Kinds(m, b)

\* The choices that count are of tree t, and come before place n in it.
InOrder(m, trail, t, n) ==
  \A i \in Current(trail) : trail[i][2] = t /\ m.order[<<trail[i][2], trail[i][3]>>] < n
\* They come before every fork that branch c leads to next.
BranchInOrder(m, trail, c) ==
  /\ \A i \in Current(trail) : trail[i][2] = m.tree[c]
  /\ \A d \in Passed(m, c) : Kind(m.branch[d].target) = "fork" =>
       InOrder(m, trail, m.tree[c], Place(m, Name(m.branch[d].target)))

IsReached(m, b, target) ==
  \E c \in UnderWithLinks(m, b) \cap DOMAIN m.branch : m.branch[c].target = target

\* A frame is at a place under b with some of its instructions or paths left.
AtBranchIsGood(m, b, frame) ==
  \E c \in UnderWithLinks(m, b) \cap DOMAIN m.branch :
    /\ frame.at = <<"branch", c>>
    /\ frame.todo \in Seq(Range(m.branch[c].instructions))
    /\ BranchInOrder(m, frame.path.trail, c)
AtSequenceIsGood(m, b, frame) ==
  \E s \in DOMAIN m.sequence :
    /\ frame.at = <<"sequence", s>>
    /\ frame.todo \in Seq(Range(m.sequence[s]))
    /\ IsReached(m, b, frame.at)
AtForkIsGood(m, b, frame) ==
  \E f \in DOMAIN m.fork :
    /\ frame.at = <<"fork", f>>
    /\ frame.todo \in Seq(Paths(m, f))
    /\ IsReached(m, b, frame.at)
    /\ InOrder(m, frame.path.trail, m.fork[f].tree, Place(m, f))
IsFrame(frame) ==
  frame = [at |-> frame.at, todo |-> frame.todo, path |-> frame.path,
           is_linked |-> frame.is_linked, save |-> frame.save]
FrameIsGood(m, b, frame) ==
  /\ IsFrame(frame)
  /\ PathIsGood(m, b, frame.path)
  /\ frame.is_linked => Kind(frame.at) = "sequence"
  /\ AtBranchIsGood(m, b, frame) \/ AtSequenceIsGood(m, b, frame) \/ AtForkIsGood(m, b, frame)

\* A context holds functional events with states.
ContextIsGood(m, context) ==
  DOMAIN context \subseteq EventsOf(m) /\ Range(context) \subseteq StatesOf(m) \cup {""}

\* A frame below another one waits at a fork for the path it has taken, or at a link with
\* the context of its own path put aside.
WaitsAtFork(m, frame, above) ==
  /\ frame.save = <<>>
  /\ \E f \in DOMAIN m.fork : \E path \in Paths(m, f) :
       /\ frame.at = <<"fork", f>>
       /\ above.path.trail = Append(frame.path.trail, ForkItem(m, f, path[1]))
WaitsAtLink(m, frame, above) ==
  /\ frame.at[1] = "sequence" /\ frame.is_linked
  /\ frame.save = <<Head(frame.save)>>
  /\ ContextIsGood(m, Head(frame.save))
  /\ IsContextOf(Head(frame.save), frame.path.trail)
Waits(m, frame, above) == WaitsAtFork(m, frame, above) \/ WaitsAtLink(m, frame, above)

\* The frame on top runs in the context of its path; at a fork, its event is in it too.
RunsIn(m, context, frame) ==
  /\ frame.save = <<>>
  /\ frame.at[1] # "fork" => IsContextOf(context, frame.path.trail)
  /\ \A f \in DOMAIN m.fork : frame.at = <<"fork", f>> =>
       /\ m.fork[f].event \in DOMAIN context
       /\ IsContextOf(Without(context, m.fork[f].event), frame.path.trail)

StackIsGood(m, b, context, frames) ==
  /\ IsList(frames)
  /\ \A i \in 1 .. Len(frames) : FrameIsGood(m, b, frames[i])
  /\ \A i \in 1 .. Len(frames) - 1 : Waits(m, frames[i], frames[i + 1])
  /\ frames # <<>> => RunsIn(m, context, frames[Len(frames)])

SequencesAreGood(m, b, paths) ==
  \A s \in DOMAIN paths :
    /\ s \in DOMAIN m.sequence
    /\ IsList(paths[s])
    /\ \A path \in Range(paths[s]) : PathIsGood(m, b, path)

Beginning == model.initial[model.initiating[initiating_event]]

IInv ==
  /\ model \in Models
  /\ phase \in {"validate", "start", "walk", "join", "refused", "done"}
  /\ phase \notin {"validate", "refused"} => IsValid(model)
  /\ pending \subseteq DOMAIN model.initiating
  /\ initiating_event \in DOMAIN model.initiating \cup {None}
  /\ phase \in {"walk", "join"} => initiating_event \in DOMAIN model.initiating
  /\ phase # "walk" => stack = <<>>
  /\ ContextIsGood(model, functional_events)
  /\ StackIsGood(model, Beginning, functional_events, stack)
  /\ SequencesAreGood(model, Beginning, sequences)
  /\ DOMAIN gates \subseteq (DOMAIN model.initiating) \X (DOMAIN model.sequence)

-----------------------------------------------------------------------------
\* What the invariant says of one frame.

\* What EXCEPT makes of a frame.
LEMMA FrameWithTodo ==
  ASSUME NEW frame, IsFrame(frame), NEW todo
  PROVE  [frame EXCEPT !.todo = todo]
           = [at |-> frame.at, todo |-> todo, path |-> frame.path,
              is_linked |-> frame.is_linked, save |-> frame.save]
  BY Z3 DEF IsFrame

LEMMA FrameWithPath ==
  ASSUME NEW frame, IsFrame(frame), NEW todo, NEW path
  PROVE  [frame EXCEPT !.todo = todo, !.path = path]
           = [at |-> frame.at, todo |-> todo, path |-> path,
              is_linked |-> frame.is_linked, save |-> frame.save]
<1> DEFINE f == [frame EXCEPT !.todo = todo]
<1>1. [frame EXCEPT !.todo = todo, !.path = path] = [f EXCEPT !.path = path]
  OBVIOUS
<1>2. f = [at |-> frame.at, todo |-> todo, path |-> frame.path,
           is_linked |-> frame.is_linked, save |-> frame.save]
  BY FrameWithTodo
<1> HIDE DEF f
<1>3. [f EXCEPT !.path = path] = [at |-> frame.at, todo |-> todo, path |-> path,
                                  is_linked |-> frame.is_linked, save |-> frame.save]
  BY <1>2
<1> QED BY <1>1, <1>3

\* The functional event of the fork that is next is not in the context yet.
LEMMA NextEventIsNew ==
  ASSUME NEW m, NEW f, NEW trail, Place(m, f) \in Int,
         InOrder(m, trail, m.fork[f].tree, Place(m, f))
  PROVE  m.fork[f].event \notin Met(trail)
<1> SUFFICES ASSUME NEW i \in Current(trail), trail[i][3] = m.fork[f].event PROVE FALSE
  BY DEF Met
<1>1. trail[i][2] = m.fork[f].tree /\ m.order[<<trail[i][2], trail[i][3]>>] < Place(m, f)
  BY DEF InOrder
<1>2. Place(m, f) < Place(m, f)
  BY <1>1 DEF Place
<1> QED
  BY <1>2

LEMMA FrameAtFork ==
  ASSUME NEW m, NEW b, NEW frame, FrameIsGood(m, b, frame), frame.at[1] = "fork"
  PROVE  AtForkIsGood(m, b, frame)
<1>1. \A c : <<"branch", c>>[1] # "fork" /\ <<"sequence", c>>[1] # "fork"
  OBVIOUS
<1> QED
  BY <1>1 DEF FrameIsGood, AtBranchIsGood, AtSequenceIsGood

LEMMA FrameAtBranch ==
  ASSUME NEW m, NEW b, NEW frame, FrameIsGood(m, b, frame), frame.at[1] = "branch"
  PROVE  AtBranchIsGood(m, b, frame)
<1>1. \A c : <<"fork", c>>[1] # "branch" /\ <<"sequence", c>>[1] # "branch"
  OBVIOUS
<1> QED
  BY <1>1 DEF FrameIsGood, AtForkIsGood, AtSequenceIsGood

LEMMA FrameAtSequence ==
  ASSUME NEW m, NEW b, NEW frame, FrameIsGood(m, b, frame), frame.at[1] = "sequence"
  PROVE  AtSequenceIsGood(m, b, frame)
<1>1. \A c : <<"fork", c>>[1] # "sequence" /\ <<"branch", c>>[1] # "sequence"
  OBVIOUS
<1> QED
  BY <1>1 DEF FrameIsGood, AtForkIsGood, AtBranchIsGood

-----------------------------------------------------------------------------
\* What can be done to a stack.

\* The top is replaced by a frame that goes on with the same trail.
LEMMA ReplaceTop ==
  ASSUME NEW m, NEW b, NEW context, NEW frames, StackIsGood(m, b, context, frames),
         frames # <<>>,
         NEW frame, FrameIsGood(m, b, frame),
         frame.path.trail = frames[Len(frames)].path.trail,
         NEW new, RunsIn(m, new, frame)
  PROVE  StackIsGood(m, b, new, Append(SubSeq(frames, 1, Len(frames) - 1), frame))
<1> DEFINE front == SubSeq(frames, 1, Len(frames) - 1)
           n == Len(frames)
           all == Append(front, frame)
<1>1. /\ IsList(front) /\ n \in Nat \ {0} /\ Len(front) = n - 1
      /\ \A i \in 1 .. n - 1 : front[i] = frames[i]
  BY FrontOfList DEF StackIsGood
<1> HIDE DEF front
<1>2. /\ IsList(all) /\ Len(all) = n /\ all[n] = frame
      /\ \A i \in 1 .. n - 1 : all[i] = frames[i]
  BY <1>1, AppendToList
<1> HIDE DEF all
<1>3. \A i \in 1 .. n : FrameIsGood(m, b, all[i])
  <2>1. \A i \in 1 .. n : i \in 1 .. n - 1 \/ i = n
    BY <1>1
  <2> QED
    BY <1>1, <1>2, <2>1 DEF StackIsGood
<1>4. ASSUME NEW i \in 1 .. n - 1 PROVE Waits(m, all[i], all[i + 1])
  <2>1. Waits(m, frames[i], frames[i + 1]) /\ all[i] = frames[i]
    BY <1>2 DEF StackIsGood
  <2>2. i + 1 \in 1 .. n - 1 \/ i + 1 = n
    BY <1>1
  <2>3. all[i + 1].path.trail = frames[i + 1].path.trail
    BY <1>2, <2>2
  <2> QED
    BY <2>1, <2>3 DEF Waits, WaitsAtFork, WaitsAtLink
<1>5. StackIsGood(m, b, new, all)
  <2>1. all # <<>>
    BY <1>1, <1>2
  <2> QED
    BY <1>2, <1>3, <1>4, <2>1 DEF StackIsGood
<1> QED
  BY <1>5 DEF all, front

\* The top waits for a new frame above it.
LEMMA PushOnTop ==
  ASSUME NEW m, NEW b, NEW context, NEW frames, StackIsGood(m, b, context, frames),
         frames # <<>>,
         NEW frame, FrameIsGood(m, b, frame),
         frame.path.trail = frames[Len(frames)].path.trail,
         NEW above, FrameIsGood(m, b, above), Waits(m, frame, above),
         NEW new, RunsIn(m, new, above)
  PROVE  StackIsGood(m, b, new,
                     Append(Append(SubSeq(frames, 1, Len(frames) - 1), frame), above))
<1> DEFINE front == SubSeq(frames, 1, Len(frames) - 1)
           n == Len(frames)
           below == Append(front, frame)
           all == Append(below, above)
<1>1. /\ IsList(front) /\ n \in Nat \ {0} /\ Len(front) = n - 1
      /\ \A i \in 1 .. n - 1 : front[i] = frames[i]
  BY FrontOfList DEF StackIsGood
<1> HIDE DEF front
<1>2. /\ IsList(below) /\ Len(below) = n /\ below[n] = frame
      /\ \A i \in 1 .. n - 1 : below[i] = frames[i]
  BY <1>1, AppendToList
<1> HIDE DEF below
<1>3. /\ IsList(all) /\ Len(all) = n + 1 /\ all[n + 1] = above
      /\ \A i \in 1 .. n : all[i] = below[i]
  BY <1>2, AppendToList
<1> HIDE DEF all
<1>4. all[n] = frame /\ \A i \in 1 .. n - 1 : all[i] = frames[i]
  BY <1>1, <1>2, <1>3
<1>5. \A i \in 1 .. n + 1 : FrameIsGood(m, b, all[i])
  <2>1. \A i \in 1 .. n + 1 : i \in 1 .. n - 1 \/ i = n \/ i = n + 1
    BY <1>1
  <2>2. \A i \in 1 .. n - 1 : FrameIsGood(m, b, frames[i])
    BY <1>1 DEF StackIsGood
  <2> QED
    BY <1>3, <1>4, <2>1, <2>2
<1>6. ASSUME NEW i \in 1 .. n PROVE Waits(m, all[i], all[i + 1])
  <2>1. CASE i = n
    BY <1>3, <1>4, <2>1
  <2>2. CASE i \in 1 .. n - 1
    <3>1. Waits(m, frames[i], frames[i + 1]) /\ all[i] = frames[i]
      BY <1>4, <2>2 DEF StackIsGood
    <3>2. i + 1 \in 1 .. n - 1 \/ i + 1 = n
      BY <1>1, <2>2
    <3>3. all[i + 1].path.trail = frames[i + 1].path.trail
      BY <1>4, <3>2
    <3> QED
      BY <3>1, <3>3 DEF Waits, WaitsAtFork, WaitsAtLink
  <2> QED
    BY <1>1, <2>1, <2>2
<1>7. n + 1 - 1 = n /\ all # <<>>
  BY <1>1, <1>3
<1>8. StackIsGood(m, b, new, all)
  BY <1>3, <1>5, <1>6, <1>7 DEF StackIsGood
<1> QED
  BY <1>8 DEF all, below, front

\* The top has come back with the context of its path: the frame below, if any, goes on
\* with the context of its own.
LEMMA PopTop ==
  ASSUME NEW m, NEW b, NEW context, NEW frames, StackIsGood(m, b, context, frames),
         frames # <<>>, \A f \in DOMAIN m.fork : Place(m, f) \in Int,
         NEW new, ContextIsGood(m, new), IsContextOf(new, frames[Len(frames)].path.trail)
  PROVE  LET front == SubSeq(frames, 1, Len(frames) - 1)
             back == IF front = <<>> THEN <<>> ELSE [front EXCEPT ![Len(front)].save = <<>>]
             next == IF front # <<>> /\ front[Len(front)].save # <<>>
                       THEN Head(front[Len(front)].save) ELSE new
         IN  StackIsGood(m, b, next, back) /\ ContextIsGood(m, next)
<1> DEFINE front == SubSeq(frames, 1, Len(frames) - 1)
           n == Len(frames)
           back == IF front = <<>> THEN <<>> ELSE [front EXCEPT ![Len(front)].save = <<>>]
           next == IF front # <<>> /\ front[Len(front)].save # <<>>
                     THEN Head(front[Len(front)].save) ELSE new
<1>1. /\ IsList(front) /\ n \in Nat \ {0} /\ Len(front) = n - 1
      /\ \A i \in 1 .. n - 1 : front[i] = frames[i]
  BY FrontOfList DEF StackIsGood
<1> HIDE DEF front
<1> SUFFICES StackIsGood(m, b, next, back) /\ ContextIsGood(m, next)
  BY DEF front
<1>2. CASE front = <<>>
  <2>1. IsList(<<>>) /\ Len(<<>>) = 0 /\ back = <<>> /\ next = new
    BY <1>2 DEF IsList
  <2> HIDE DEF back, next
  <2> QED
    BY <2>1 DEF StackIsGood
<1>3. CASE front # <<>>
  <2> DEFINE frame == frames[n - 1]
             free == [frame EXCEPT !.save = <<>>]
  <2>1. n - 1 \in 1 .. n - 1 /\ front[n - 1] = frame
    BY <1>1, <1>3 DEF IsList
  <2>2. FrameIsGood(m, b, frame) /\ Waits(m, frame, frames[n])
    <3>1. Waits(m, frames[n - 1], frames[n - 1 + 1]) /\ n - 1 + 1 = n /\ n - 1 \in 1 .. n
      BY <1>1, <2>1 DEF StackIsGood
    <3> QED
      BY <3>1 DEF StackIsGood
  <2>3. back = [front EXCEPT ![n - 1] = free]
    BY <1>1, <1>3, <2>1
  <2>4. next = IF frame.save # <<>> THEN Head(frame.save) ELSE new
    BY <1>1, <1>3, <2>1
  <2> HIDE DEF frame, next, back
  <2>5. /\ free.at = frame.at /\ free.todo = frame.todo /\ free.path = frame.path
        /\ free.is_linked = frame.is_linked /\ free.save = <<>> /\ IsFrame(free)
    <3>1. free = [at |-> frame.at, todo |-> frame.todo, path |-> frame.path,
                  is_linked |-> frame.is_linked, save |-> <<>>]
      BY <2>2, Z3 DEF FrameIsGood, IsFrame
    <3> HIDE DEF free
    <3> QED
      BY <3>1 DEF IsFrame
  <2> HIDE DEF free
  <2>6. FrameIsGood(m, b, free)
    BY <2>2, <2>5 DEF FrameIsGood, AtBranchIsGood, AtSequenceIsGood, AtForkIsGood
  <2>7. IsList(back) /\ Len(back) = n - 1 /\ back[n - 1] = free
        /\ \A i \in 1 .. n - 2 : back[i] = frames[i]
    <3>1. front \in Seq(Range(front) \cup {free})
      BY <1>1 DEF IsList
    <3>2. back \in Seq(Range(front) \cup {free}) /\ Len(back) = n - 1
      BY <1>1, <2>1, <2>3, <3>1
    <3>3. IsList(back)
      BY <3>2, ListElements
    <3> QED
      BY <1>1, <2>1, <2>3, <3>1, <3>2, <3>3
  <2>8. RunsIn(m, next, free) /\ ContextIsGood(m, next)
    <3>1. CASE WaitsAtFork(m, frame, frames[n])
      <4> PICK f \in DOMAIN m.fork : \E path \in Paths(m, f) :
              /\ frame.at = <<"fork", f>>
              /\ frames[n].path.trail = Append(frame.path.trail, ForkItem(m, f, path[1]))
        BY <3>1 DEF WaitsAtFork
      <4>1. PICK path \in Paths(m, f) :
              /\ frame.at = <<"fork", f>>
              /\ frames[n].path.trail = Append(frame.path.trail, ForkItem(m, f, path[1]))
        OBVIOUS
      <4>2. next = new
        BY <2>4, <3>1 DEF WaitsAtFork
      <4>3. frame.at[1] = "fork" /\ frame.at[2] = f
        BY <4>1
      <4>4. InOrder(m, frame.path.trail, m.fork[f].tree, Place(m, f))
        <5>1. PICK g \in DOMAIN m.fork : /\ frame.at = <<"fork", g>>
                                         /\ InOrder(m, frame.path.trail, m.fork[g].tree, Place(m, g))
          BY <2>2, <4>3, FrameAtFork DEF AtForkIsGood
        <5>2. g = f
          BY <4>3, <5>1
        <5> QED BY <5>1, <5>2
      <4>5. m.fork[f].event \notin Met(frame.path.trail)
        BY <4>4, NextEventIsNew
      <4>6. IsList(frame.path.trail)
        BY <2>2, ListElements DEF FrameIsGood, PathIsGood
      <4>7. /\ m.fork[f].event \in DOMAIN new
            /\ IsContextOf(Without(new, m.fork[f].event), frame.path.trail)
        BY <4>1, <4>5, <4>6, ContextBeforeChoice DEF ForkItem
      <4>8. \A g : <<"fork", g>>[1] = "fork" /\ <<"fork", g>>[2] = g
        OBVIOUS
      <4> QED
        BY <2>5, <4>2, <4>3, <4>7, <4>8 DEF RunsIn
    <3>2. CASE WaitsAtLink(m, frame, frames[n])
      <4>1. frame.save # <<>>
        BY <3>2 DEF WaitsAtLink
      <4>2. next = Head(frame.save)
        BY <2>4, <4>1
      <4>3. /\ frame.at[1] = "sequence" /\ ContextIsGood(m, next)
            /\ IsContextOf(next, frame.path.trail)
        BY <3>2, <4>2 DEF WaitsAtLink
      <4>4. \A g : <<"fork", g>>[1] = "fork"
        OBVIOUS
      <4> QED
        BY <2>5, <4>3, <4>4 DEF RunsIn
    <3> QED
      BY <2>2, <3>1, <3>2 DEF Waits
  <2>9. \A i \in 1 .. n - 1 : FrameIsGood(m, b, back[i])
    <3>1. \A i \in 1 .. n - 1 : i = n - 1 \/ (i \in 1 .. n - 2 /\ i \in 1 .. n)
      BY <1>1
    <3> QED
      BY <2>6, <2>7, <3>1 DEF StackIsGood
  <2>10. ASSUME NEW i \in 1 .. n - 1 - 1 PROVE Waits(m, back[i], back[i + 1])
    <3>1. i \in 1 .. n - 1 /\ i \in 1 .. n - 2 /\ (i + 1 \in 1 .. n - 2 \/ i + 1 = n - 1)
      BY <1>1
    <3>2. Waits(m, frames[i], frames[i + 1])
      BY <3>1 DEF StackIsGood
    <3>3. back[i] = frames[i] /\ back[i + 1].path.trail = frames[i + 1].path.trail
      BY <2>5, <2>7, <3>1 DEF frame
    <3> QED
      BY <3>2, <3>3 DEF Waits, WaitsAtFork, WaitsAtLink
  <2> QED
    BY <1>1, <2>7, <2>8, <2>9, <2>10 DEF StackIsGood
<1> QED
  BY <1>2, <1>3

-----------------------------------------------------------------------------
\* What the definitions and the checks say of a place that is reached.

LEMMA BranchOfModel ==
  ASSUME NEW m, IsDefined(m), NEW c \in DOMAIN m.branch
  PROVE  /\ InstructionsAreDefined(m, m.branch[c].instructions)
         /\ m.branch[c].target \in Targets(m)
         /\ Kind(m.branch[c].target) = "branch" =>
              m.tree[Name(m.branch[c].target)] = m.tree[c]
         /\ Kind(m.branch[c].target) = "fork" =>
              m.fork[Name(m.branch[c].target)].tree = m.tree[c]
  BY DEF IsDefined, BranchIsDefined

LEMMA ForkOfModel ==
  ASSUME NEW m, IsDefined(m), NEW f \in DOMAIN m.fork
  PROVE  /\ IsList(m.fork[f].paths) /\ Place(m, f) \in Int
         /\ \A path \in Paths(m, f) :
              path[2] \in DOMAIN m.branch /\ m.tree[path[2]] = m.fork[f].tree
  BY DEF IsDefined, ForkIsDefined

\* A target is an element of its kind.
LEMMA TargetOfModel ==
  ASSUME NEW m, IsDefined(m), NEW target \in Targets(m)
  PROVE  \/ Kind(target) = "sequence" /\ Name(target) \in DOMAIN m.sequence
            /\ target = <<"sequence", Name(target)>>
         \/ Kind(target) = "branch" /\ Name(target) \in DOMAIN m.branch
            /\ Name(target) \in m.named /\ target = <<"branch", Name(target)>>
         \/ Kind(target) = "fork" /\ Name(target) \in DOMAIN m.fork
            /\ target = <<"fork", Name(target)>>
  BY DEF Targets, IsDefined, Kind, Name

\* Where a reached branch leads is reached too.
LEMMA ReachedNext ==
  ASSUME NEW m, NEW b, NEW c \in UnderWithLinks(m, b), c \in DOMAIN m.branch,
         NEW d \in Successors(m, c) \cup Linked(m, c)
  PROVE  d \in UnderWithLinks(m, b)
<1>1. <<c, d>> \in EdgesAndLinks(m)
  BY DEF EdgesAndLinks
<1> QED
  BY <1>1, VisitedStep DEF UnderWithLinks

\* The kinds of what a reached branch executes are those of the beginning.
LEMMA ReachedKinds ==
  ASSUME NEW m, NEW b, NEW c \in UnderWithLinks(m, b), NEW i \in InstructionsOf(m, c)
  PROVE  i.do \in Kinds(m, b)
  BY DEF Kinds

\* Beyond a fork there is no other one with a functional event of the path.
LEMMA ItemIsChoice ==
  ASSUME NEW m, NEW trail \in Seq(Items(m)), NEW i \in Current(trail)
  PROVE  \E f \in DOMAIN m.fork : \E path \in Paths(m, f) : trail[i] = ForkItem(m, f, path[1])
<1>1. i \in 1 .. Len(trail) /\ trail[i] \in Items(m) /\ i \in Nat
  BY DEF Current
<1>2. trail[i][1] # "link"
  BY <1>1 DEF Current
<1>3. \A t, left : <<"link", t, left>>[1] = "link"
  OBVIOUS
<1>4. PICK f \in DOMAIN m.fork : trail[i] \in Choices(m, f)
  BY <1>1, <1>2, <1>3 DEF Items
<1> QED
  BY <1>4 DEF Choices

LEMMA BranchAfterChoice ==
  ASSUME NEW m, IsDefined(m), FunctionalEventsAreInOrder(m),
         NEW f \in DOMAIN m.fork, NEW path \in Paths(m, f),
         NEW trail \in Seq(Items(m)), InOrder(m, trail, m.fork[f].tree, Place(m, f))
  PROVE  BranchInOrder(m, Append(trail, ForkItem(m, f, path[1])), path[2])
<1> DEFINE chosen == Append(trail, ForkItem(m, f, path[1]))
           c == path[2]
<1>1. /\ Current(chosen) = Current(trail) \cup {Len(trail) + 1}
      /\ \A i \in Current(trail) : chosen[i] = trail[i]
      /\ chosen[Len(trail) + 1] = ForkItem(m, f, path[1])
  BY ListElements, MetAfterChoice DEF ForkItem
<1>2. c \in DOMAIN m.branch /\ m.tree[c] = m.fork[f].tree /\ Place(m, f) \in Int
  BY ForkOfModel
<1> HIDE DEF chosen, c
<1>3. \A i \in Current(chosen) : chosen[i][2] = m.fork[f].tree
  <2>1. ForkItem(m, f, path[1])[2] = m.fork[f].tree
    BY DEF ForkItem
  <2> QED
    BY <1>1, <2>1 DEF InOrder
<1>4. ASSUME NEW d \in Passed(m, c), Kind(m.branch[d].target) = "fork",
             NEW i \in Current(chosen)
      PROVE  m.order[<<chosen[i][2], chosen[i][3]>>] < Place(m, Name(m.branch[d].target))
  <2> DEFINE g == Name(m.branch[d].target)
  <2>1. Place(m, f) < Place(m, g)
    BY <1>4 DEF FunctionalEventsAreInOrder, c
  <2>2. d \in DOMAIN m.branch
    <3>1. d \in {c} \cup {edge[2] : edge \in NamedEdges(m)}
      BY DEF Passed, VisitedFrom
    <3>2. ASSUME NEW e \in DOMAIN m.branch, Kind(m.branch[e].target) = "branch"
          PROVE  Name(m.branch[e].target) \in DOMAIN m.branch
      BY <3>2, BranchOfModel, TargetOfModel
    <3>3. \A e, k : <<e, k>>[2] = k
      OBVIOUS
    <3> QED
      BY <1>2, <3>1, <3>2, <3>3 DEF NamedEdges
  <2>3. g \in DOMAIN m.fork
    BY <1>4, <2>2, BranchOfModel, TargetOfModel
  <2>4. Place(m, g) \in Int
    BY <2>3, ForkOfModel
  <2>5. CASE i = Len(trail) + 1
    <3>1. /\ ForkItem(m, f, path[1])[2] = m.fork[f].tree
          /\ ForkItem(m, f, path[1])[3] = m.fork[f].event
      BY DEF ForkItem
    <3>2. m.order[<<chosen[i][2], chosen[i][3]>>] = Place(m, f)
      BY <1>1, <2>5, <3>1 DEF Place
    <3> QED
      BY <2>1, <3>2
  <2>6. CASE i \in Current(trail)
    <3>1. PICK h \in DOMAIN m.fork : \E p \in Paths(m, h) : trail[i] = ForkItem(m, h, p[1])
      BY <2>6, ItemIsChoice
    <3>2. trail[i][2] = m.fork[h].tree /\ trail[i][3] = m.fork[h].event
      BY <3>1 DEF ForkItem
    <3>3. m.order[<<trail[i][2], trail[i][3]>>] = Place(m, h) /\ Place(m, h) \in Int
      BY <3>2, ForkOfModel DEF Place
    <3>4. Place(m, h) < Place(m, f)
      BY <2>6, <3>3 DEF InOrder
    <3>5. Place(m, h) < Place(m, g)
      <4> HIDE DEF g
      <4> QED
        BY <1>2, <2>1, <2>4, <3>3, <3>4
    <3> QED
      BY <1>1, <2>6, <3>3, <3>5
  <2> QED
    BY <1>1, <2>5, <2>6
<1>5. BranchInOrder(m, chosen, c)
  BY <1>2, <1>3, <1>4 DEF BranchInOrder, InOrder
<1> QED
  BY <1>5 DEF chosen, c

\* A named branch is passed on the way of the branch that leads to it.
LEMMA BranchAfterBranch ==
  ASSUME NEW m, IsDefined(m), NEW c \in DOMAIN m.branch,
         Kind(m.branch[c].target) = "branch", NEW trail, BranchInOrder(m, trail, c)
  PROVE  BranchInOrder(m, trail, Name(m.branch[c].target))
<1> DEFINE d == Name(m.branch[c].target)
<1>1. m.tree[d] = m.tree[c]
  BY BranchOfModel
<1>2. <<c, d>> \in NamedEdges(m)
  BY DEF NamedEdges
<1>3. Passed(m, d) \subseteq Passed(m, c)
  BY <1>2, VisitedAfterEdge DEF Passed
<1> QED
  BY <1>1, <1>3 DEF BranchInOrder

LEMMA ForkAfterBranch ==
  ASSUME NEW m, IsDefined(m), NEW c \in DOMAIN m.branch,
         Kind(m.branch[c].target) = "fork", NEW trail, BranchInOrder(m, trail, c)
  PROVE  LET f == Name(m.branch[c].target)
         IN  InOrder(m, trail, m.fork[f].tree, Place(m, f))
<1>1. c \in Passed(m, c)
  BY VisitedStart DEF Passed
<1>2. m.fork[Name(m.branch[c].target)].tree = m.tree[c]
  BY BranchOfModel
<1> QED
  BY <1>1, <1>2 DEF BranchInOrder

\* The first branch of an event tree.
LEMMA BranchAtFirst ==
  ASSUME NEW m, NEW c, NEW trail, Current(trail) = {}
  PROVE  BranchInOrder(m, trail, c)
  BY DEF BranchInOrder, InOrder

\* A frame with the next of its instructions done.
LEMMA FrameWithTail ==
  ASSUME NEW m, NEW b, NEW frame, FrameIsGood(m, b, frame), frame.todo # <<>>,
         NEW path, PathIsGood(m, b, path), path.trail = frame.path.trail
  PROVE  FrameIsGood(m, b, [frame EXCEPT !.todo = Tail(@), !.path = path])
<1> DEFINE rest == [frame EXCEPT !.todo = Tail(@), !.path = path]
<1>5. rest = [at |-> frame.at, todo |-> Tail(frame.todo), path |-> path,
              is_linked |-> frame.is_linked, save |-> frame.save]
  BY FrameWithPath DEF FrameIsGood
<1> HIDE DEF rest
<1>1. /\ rest.at = frame.at /\ rest.todo = Tail(frame.todo) /\ rest.path = path
      /\ rest.is_linked = frame.is_linked /\ rest.save = frame.save
      /\ IsFrame(rest)
  BY <1>5 DEF IsFrame
<1>2. CASE AtBranchIsGood(m, b, frame)
  <2>1. AtBranchIsGood(m, b, rest)
    BY <1>1, <1>2, HeadAndTail DEF AtBranchIsGood
  <2> QED BY <1>1, <2>1 DEF FrameIsGood, rest
<1>3. CASE AtSequenceIsGood(m, b, frame)
  <2>1. AtSequenceIsGood(m, b, rest)
    BY <1>1, <1>3, HeadAndTail DEF AtSequenceIsGood
  <2> QED BY <1>1, <2>1 DEF FrameIsGood, rest
<1>4. CASE AtForkIsGood(m, b, frame)
  <2>1. AtForkIsGood(m, b, rest)
    BY <1>1, <1>4, HeadAndTail DEF AtForkIsGood
  <2> QED BY <1>1, <2>1 DEF FrameIsGood, rest
<1> QED
  BY <1>2, <1>3, <1>4 DEF FrameIsGood

\* The next instruction of a frame is defined, and its kind is one of those under b; a
\* link is in a sequence and leads to a branch under b.
LEMMA NextInstruction ==
  ASSUME NEW m, NEW b, IsDefined(m), LinksAreInSequences(m),
         NEW frame, FrameIsGood(m, b, frame), frame.at[1] # "fork", frame.todo # <<>>
  PROVE  LET i == Head(frame.todo)
         IN  /\ i.do \in {"set", "formula", "expression", "link"} /\ i.do \in Kinds(m, b)
             /\ i.do = "link" => /\ frame.at[1] = "sequence"
                                /\ i.tree \in DOMAIN m.initial
                                /\ m.initial[i.tree] \in UnderWithLinks(m, b)
                                /\ m.initial[i.tree] \in DOMAIN m.branch
<1> DEFINE i == Head(frame.todo)
<1>1. ~AtForkIsGood(m, b, frame)
  <2>1. \A f : <<"fork", f>>[1] = "fork"
    OBVIOUS
  <2> QED BY <2>1 DEF AtForkIsGood
<1>2. CASE AtBranchIsGood(m, b, frame)
  <2>1. PICK c \in UnderWithLinks(m, b) \cap DOMAIN m.branch :
          /\ frame.at = <<"branch", c>>
          /\ frame.todo \in Seq(Range(m.branch[c].instructions))
    BY <1>2 DEF AtBranchIsGood
  <2>2. i \in Range(m.branch[c].instructions)
    BY <2>1, HeadAndTail
  <2>3. i.do \in {"set", "formula", "expression", "link"} /\ i.do # "link"
    BY <2>2, BranchOfModel DEF InstructionsAreDefined, LinksAreInSequences
  <2>4. i.do \in Kinds(m, b)
    BY <2>2, ReachedKinds DEF InstructionsOf
  <2> QED
    BY <2>3, <2>4
<1>3. CASE AtSequenceIsGood(m, b, frame)
  <2>1. PICK s \in DOMAIN m.sequence : /\ frame.at = <<"sequence", s>>
                                        /\ frame.todo \in Seq(Range(m.sequence[s]))
                                        /\ IsReached(m, b, frame.at)
    BY <1>3 DEF AtSequenceIsGood
  <2>2. PICK c \in UnderWithLinks(m, b) \cap DOMAIN m.branch : m.branch[c].target = <<"sequence", s>>
    BY <2>1 DEF IsReached
  <2>3. i \in Range(m.sequence[s])
    BY <2>1, HeadAndTail
  <2>4. i \in InstructionsOf(m, c)
    BY <2>2, <2>3 DEF InstructionsOf, Kind, Name
  <2>5. i.do \in Kinds(m, b)
    BY <2>4, ReachedKinds
  <2>6. /\ i.do \in {"set", "formula", "expression", "link"}
        /\ i.do = "link" => i.tree \in DOMAIN m.initial
    BY <2>3 DEF IsDefined, InstructionsAreDefined
  <2>7. ASSUME i.do = "link"
        PROVE  /\ m.initial[i.tree] \in UnderWithLinks(m, b)
               /\ m.initial[i.tree] \in DOMAIN m.branch
    <3>1. m.initial[i.tree] \in Linked(m, c)
      BY <2>4, <2>7 DEF Linked
    <3> QED
      BY <2>6, <2>7, <3>1, ReachedNext DEF IsDefined
  <2>8. frame.at[1] = "sequence"
    BY <2>1
  <2> QED
    BY <2>5, <2>6, <2>7, <2>8
<1> QED
  BY <1>1, <1>2, <1>3 DEF FrameIsGood

\* What an instruction collects is of its kind.
LEMMA CollectedIsGood ==
  ASSUME NEW m, NEW b, NEW path, PathIsGood(m, b, path),
         NEW i, i.do \in {"set", "formula", "expression"}, i.do \in Kinds(m, b)
  PROVE  PathIsGood(m, b, Collected(path, i)) /\ Collected(path, i).trail = path.trail
<1>1. CASE i.do = "set"
  BY <1>1 DEF Collected, PathIsGood
<1>2. CASE i.do = "formula"
  BY <1>2 DEF Collected, PathIsGood
<1>3. CASE i.do = "expression"
  BY <1>3 DEF Collected, PathIsGood
<1> QED
  BY <1>1, <1>2, <1>3

\* A path with one more item on its trail.
LEMMA PathWithItem ==
  ASSUME NEW m, NEW b, NEW path, PathIsGood(m, b, path), NEW item \in Items(m),
         NEW longer, longer = [path EXCEPT !.trail = Append(@, item)]
  PROVE  /\ PathIsGood(m, b, longer) /\ longer.trail = Append(path.trail, item)
         /\ IsList(path.trail)
<1>1. path = [formulas |-> path.formulas, expressions |-> path.expressions,
              set_instructions |-> path.set_instructions, trail |-> path.trail]
  BY DEF PathIsGood
<1>2. longer = [formulas |-> path.formulas, expressions |-> path.expressions,
                set_instructions |-> path.set_instructions, trail |-> Append(path.trail, item)]
  BY <1>1
<1>3. path.trail \in Seq(Items(m)) /\ Append(path.trail, item) \in Seq(Items(m))
  BY DEF PathIsGood
<1>4. PathIsGood(m, b, longer) /\ longer.trail = Append(path.trail, item)
  BY <1>2, <1>3 DEF PathIsGood
<1> QED
  BY <1>3, <1>4, ListElements

LEMMA PathWithLink ==
  ASSUME NEW m, NEW b, NEW path, PathIsGood(m, b, path), NEW tree \in DOMAIN m.initial,
         NEW left \in Nat
  PROVE  /\ PathIsGood(m, b, Relinked(path, tree, left))
         /\ Relinked(path, tree, left).trail = Append(path.trail, <<"link", tree, left>>)
         /\ IsList(path.trail)
<1> DEFINE item == <<"link", tree, left>>
           longer == Relinked(path, tree, left)
<1>1. item \in Items(m)
  BY DEF Items
<1> HIDE DEF item
<1>2. longer = [path EXCEPT !.trail = Append(@, item)]
  BY DEF Relinked, item
<1> HIDE DEF longer
<1>3. PathIsGood(m, b, longer) /\ longer.trail = Append(path.trail, item) /\ IsList(path.trail)
  BY <1>1, <1>2, PathWithItem
<1> QED
  BY <1>3 DEF item, longer

LEMMA PathWithChoice ==
  ASSUME NEW b, NEW path, PathIsGood(model, b, path), NEW f \in DOMAIN model.fork,
         NEW taken \in Paths(model, f)
  PROVE  LET longer == Chosen(path, f, taken[1])
         IN  /\ PathIsGood(model, b, longer)
             /\ longer.trail = Append(path.trail, ForkItem(model, f, taken[1]))
             /\ IsList(path.trail)
<1> DEFINE item == ForkItem(model, f, taken[1])
           longer == Chosen(path, f, taken[1])
<1>1. item \in Items(model)
  BY DEF Items, Choices
<1>2. longer = [path EXCEPT !.trail = Append(@, item)]
  BY DEF Chosen, ForkItem, Event
<1> HIDE DEF item, longer
<1>3. /\ PathIsGood(model, b, longer) /\ longer.trail = Append(path.trail, item)
      /\ IsList(path.trail)
  BY <1>1, <1>2, PathWithItem
<1> QED
  BY <1>3 DEF item, longer

-----------------------------------------------------------------------------
\* Every step keeps the invariant.

LEMMA Beginnings ==
  ASSUME model \in Models, NEW ie \in DOMAIN model.initiating
  PROVE  /\ IsDefined(model)
         /\ model.initial[model.initiating[ie]] \in DOMAIN model.branch
  BY ModelsAssumption DEF IsDefined

LEMMA InitHolds ==
  ASSUME Init
  PROVE  IInv
<1>1. IsList(<<>>) /\ Len(<<>>) = 0 /\ DOMAIN <<>> = {} /\ Range(<<>>) = {}
  BY DEF IsList, Range
<1>2. stack = <<>> /\ functional_events = <<>> /\ sequences = <<>> /\ gates = <<>>
  BY DEF Init
<1>3. ContextIsGood(model, functional_events)
  BY <1>1, <1>2 DEF ContextIsGood
<1>4. StackIsGood(model, Beginning, functional_events, stack)
  BY <1>1, <1>2 DEF StackIsGood
<1>5. SequencesAreGood(model, Beginning, sequences)
  BY <1>1, <1>2 DEF SequencesAreGood
<1> QED
  BY <1>1, <1>2, <1>3, <1>4, <1>5 DEF IInv, Init

\* What all steps of a walk have in common.
LEMMA WalkGoesOn ==
  ASSUME IInv, phase = "walk", UNCHANGED <<model, pending, initiating_event, gates>>,
         phase' = "walk",
         StackIsGood(model, Beginning, functional_events', stack'),
         ContextIsGood(model, functional_events'),
         SequencesAreGood(model, Beginning, sequences')
  PROVE  IInv'
  BY DEF IInv, Beginning

LEMMA TopIsGood ==
  ASSUME IInv, phase = "walk", stack # <<>>
  PROVE  /\ FrameIsGood(model, Beginning, Top)
         /\ PathIsGood(model, Beginning, Top.path)
         /\ RunsIn(model, functional_events, Top)
         /\ IsDefined(model) /\ IsValid(model)
         /\ StackIsGood(model, Beginning, functional_events, stack)
         /\ Top = stack[Len(stack)]
<1>1. Len(stack) \in 1 .. Len(stack)
  BY FrontOfList DEF IInv, StackIsGood
<1> QED
  BY <1>1, ModelsAssumption DEF IInv, StackIsGood, FrameIsGood, Top

LEMMA ValidateKeeps ==
  ASSUME IInv, Validate
  PROVE  IInv'
  BY DEF IInv, Validate, Beginning

LEMMA StartKeeps ==
  ASSUME IInv, NEW event \in DOMAIN model.initiating, Start(event)
  PROVE  IInv'
<1> DEFINE b == model.initial[model.initiating[event]]
           frame == AtBranch(b, EmptyPath)
<1>1. b \in DOMAIN model.branch /\ IsDefined(model) /\ b \in UnderWithLinks(model, b)
  BY Beginnings, VisitedStart DEF IInv, UnderWithLinks
<1>2. frame = [at |-> <<"branch", b>>, todo |-> model.branch[b].instructions,
               path |-> EmptyPath, is_linked |-> FALSE, save |-> <<>>]
  BY DEF AtBranch, Collector
<1>3. Beginning' = b /\ stack' = <<frame>> /\ functional_events' = <<>> /\ model' = model
  BY DEF Start, Beginning
<1> HIDE DEF frame, b
<1>4. FrameIsGood(model, b, frame)
  <2>1. PathIsGood(model, b, EmptyPath) /\ EmptyPath.trail = <<>>
    BY DEF PathIsGood, EmptyPath
  <2>2. model.branch[b].instructions \in Seq(Range(model.branch[b].instructions))
    BY <1>1, BranchOfModel DEF InstructionsAreDefined, IsList
  <2>3. BranchInOrder(model, EmptyPath.trail, b)
    BY <2>1, NothingMet, BranchAtFirst
  <2>4. AtBranchIsGood(model, b, frame)
    BY <1>1, <1>2, <2>2, <2>3 DEF AtBranchIsGood
  <2> QED
    BY <1>2, <2>1, <2>4 DEF FrameIsGood, IsFrame
<1>5. RunsIn(model, <<>>, frame)
  <2>1. IsContextOf(<<>>, frame.path.trail)
    BY <1>2, NothingMet DEF EmptyPath
  <2>2. frame.save = <<>> /\ frame.at = <<"branch", b>>
    BY <1>2
  <2>3. \A f : <<"branch", b>> # <<"fork", f>>
    OBVIOUS
  <2> QED
    BY <2>1, <2>2, <2>3 DEF RunsIn
<1>6. StackIsGood(model, b, <<>>, <<frame>>)
  <2>1. IsList(<<frame>>) /\ Len(<<frame>>) = 1 /\ <<frame>>[1] = frame
    <3>1. <<frame>> \in Seq({frame})
      OBVIOUS
    <3> QED
      BY <3>1, ListElements
  <2> QED
    BY <1>4, <1>5, <2>1 DEF StackIsGood
<1>7. SequencesAreGood(model, b, <<>>) /\ ContextIsGood(model, <<>>)
  BY DEF SequencesAreGood, ContextIsGood, Range
<1> QED
  BY <1>3, <1>6, <1>7 DEF IInv, Start

\* An instruction of the frame on top is executed, which leaves its trail as it is.
LEMMA ExecutedKeeps ==
  ASSUME IInv, Executing, NEW path, PathIsGood(model, Beginning, path),
         path.trail = Top.path.trail
  PROVE  StackIsGood(model, Beginning, functional_events, Executed(path))
<1> DEFINE frame == [Top EXCEPT !.todo = Tail(@), !.path = path]
<1>1. phase = "walk" /\ stack # <<>> /\ Top.todo # <<>> /\ Top.at[1] # "fork"
  BY DEF Executing, Kind
<1>2. FrameIsGood(model, Beginning, Top) /\ RunsIn(model, functional_events, Top)
  BY <1>1, TopIsGood
<1>3. FrameIsGood(model, Beginning, frame)
  BY <1>1, <1>2, FrameWithTail
<1>4. frame.at = Top.at /\ frame.save = Top.save /\ frame.path = path
  BY <1>2 DEF FrameIsGood
<1> HIDE DEF frame
<1>5. RunsIn(model, functional_events, frame)
  BY <1>2, <1>4 DEF RunsIn
<1>6. Executed(path) = Append(SubSeq(stack, 1, Len(stack) - 1), frame)
  BY DEF Executed, WithTop, Pop, frame
<1> QED
  BY <1>1, <1>3, <1>4, <1>5, <1>6, ReplaceTop, TopIsGood

LEMMA PassOverKeeps ==
  ASSUME IInv, PassOver
  PROVE  IInv'
<1>1. Executing /\ phase = "walk" /\ stack # <<>>
  BY DEF PassOver, Executing
<1>2. StackIsGood(model, Beginning, functional_events, stack')
  BY <1>1, TopIsGood, ExecutedKeeps DEF PassOver
<1> QED
  BY <1>1, <1>2, WalkGoesOn DEF PassOver, IInv

LEMMA VisitKeeps ==
  ASSUME IInv, Visit
  PROVE  IInv'
<1>1. Executing /\ phase = "walk" /\ stack # <<>> /\ Top.todo # <<>> /\ Top.at[1] # "fork"
  BY DEF Visit, Executing, Kind
<1>2. /\ Instruction.do \in {"set", "formula", "expression"}
      /\ Instruction.do \in Kinds(model, Beginning)
  BY <1>1, TopIsGood, NextInstruction DEF Visit, Instruction, IsValid
<1>3. StackIsGood(model, Beginning, functional_events, stack')
  BY <1>1, <1>2, TopIsGood, CollectedIsGood, ExecutedKeeps DEF Visit
<1> QED
  BY <1>1, <1>3, WalkGoesOn DEF Visit, IInv

\* A frame at a branch under the beginning.
LEMMA FrameAtReachedBranch ==
  ASSUME NEW b, IsDefined(model), NEW c \in DOMAIN model.branch,
         c \in UnderWithLinks(model, b), NEW path, PathIsGood(model, b, path),
         BranchInOrder(model, path.trail, c)
  PROVE  /\ FrameIsGood(model, b, AtBranch(c, path))
         /\ AtBranch(c, path).path = path
         /\ \A context : IsContextOf(context, path.trail)
                          => RunsIn(model, context, AtBranch(c, path))
<1> DEFINE frame == AtBranch(c, path)
<1>1. frame = [at |-> <<"branch", c>>, todo |-> model.branch[c].instructions,
               path |-> path, is_linked |-> FALSE, save |-> <<>>]
  BY DEF AtBranch, Collector
<1> HIDE DEF frame
<1>2. frame.todo \in Seq(Range(model.branch[c].instructions))
  BY <1>1, BranchOfModel DEF InstructionsAreDefined, IsList
<1>3. AtBranchIsGood(model, b, frame)
  BY <1>1, <1>2 DEF AtBranchIsGood
<1>4. FrameIsGood(model, b, frame)
  BY <1>1, <1>3 DEF FrameIsGood, IsFrame
<1>5. \A f : <<"branch", c>> # <<"fork", f>>
  OBVIOUS
<1>6. \A context : IsContextOf(context, path.trail) => RunsIn(model, context, frame)
  BY <1>1, <1>5 DEF RunsIn
<1>7. frame.path = path
  BY <1>1
<1> QED
  BY <1>4, <1>6, <1>7 DEF frame

LEMMA VisitLinkKeeps ==
  ASSUME IInv, VisitLink
  PROVE  IInv'
<1> DEFINE tree == Instruction.tree
           left == Len(Top.todo) - 1
           path == Relinked(Top.path, tree, left)
           above == AtBranch(model.initial[tree], path)
           rest == [Top EXCEPT !.todo = Tail(@), !.path = Top.path]
           frame == [at |-> Top.at, todo |-> Tail(Top.todo), path |-> Top.path,
                     is_linked |-> TRUE, save |-> <<functional_events>>]
<1>1. phase = "walk" /\ stack # <<>> /\ Top.todo # <<>> /\ Top.at[1] # "fork"
  BY DEF VisitLink, Executing, Kind
<1>2. /\ FrameIsGood(model, Beginning, Top) /\ RunsIn(model, functional_events, Top)
      /\ PathIsGood(model, Beginning, Top.path) /\ IsDefined(model) /\ IsValid(model)
  BY <1>1, TopIsGood
<1>3. /\ Top.at[1] = "sequence" /\ tree \in DOMAIN model.initial
      /\ model.initial[tree] \in UnderWithLinks(model, Beginning)
      /\ model.initial[tree] \in DOMAIN model.branch
  BY <1>1, <1>2, NextInstruction DEF VisitLink, Instruction, IsValid
<1>4. /\ PathIsGood(model, Beginning, path)
      /\ path.trail = Append(Top.path.trail, <<"link", tree, left>>)
      /\ IsList(Top.path.trail)
  <2>1. \E S : Top.todo \in Seq(S)
    BY <1>2, <1>3, FrameAtSequence DEF AtSequenceIsGood
  <2>2. left \in Nat
    BY <1>1, <2>1
  <2> HIDE DEF left, tree
  <2> QED
    BY <1>2, <1>3, <2>2, PathWithLink
<1>5. Current(path.trail) = {} /\ IsContextOf(<<>>, path.trail)
  BY <1>4, MetAfterLink
<1>6. /\ FrameIsGood(model, Beginning, above) /\ above.path = path
      /\ RunsIn(model, <<>>, above)
  <2> HIDE DEF path, tree, left
  <2>1. BranchInOrder(model, path.trail, model.initial[tree])
    BY <1>5, BranchAtFirst
  <2>2. /\ FrameIsGood(model, Beginning, above) /\ above.path = path
        /\ \A context : IsContextOf(context, path.trail) => RunsIn(model, context, above)
    <3> DEFINE first == model.initial[tree]
               b == Beginning
    <3>1. first \in DOMAIN model.branch /\ first \in UnderWithLinks(model, b)
      BY <1>3
    <3>2. PathIsGood(model, b, path) /\ IsDefined(model) /\ BranchInOrder(model, path.trail, first)
      BY <1>2, <1>4, <2>1
    <3>3. above = AtBranch(first, path)
      OBVIOUS
    <3> HIDE DEF first, b, above
    <3>4. FrameIsGood(model, b, AtBranch(first, path))
      BY <3>1, <3>2, FrameAtReachedBranch
    <3>5. AtBranch(first, path).path = path
      BY <3>1, <3>2, FrameAtReachedBranch
    <3>6. \A context : IsContextOf(context, path.trail) => RunsIn(model, context, AtBranch(first, path))
      BY <3>1, <3>2, FrameAtReachedBranch
    <3> QED
      BY <3>3, <3>4, <3>5, <3>6 DEF b
  <2> QED
    BY <1>5, <2>2
<1>7. FrameIsGood(model, Beginning, frame) /\ Waits(model, frame, above)
      /\ frame.path = Top.path
  <2>1. FrameIsGood(model, Beginning, rest)
    BY <1>1, <1>2, FrameWithTail
  <2>2. rest = [at |-> Top.at, todo |-> Tail(Top.todo), path |-> Top.path,
                is_linked |-> Top.is_linked, save |-> Top.save]
    BY <1>2, FrameWithPath DEF FrameIsGood
  <2>4. /\ frame.at = Top.at /\ frame.path = Top.path /\ frame.is_linked = TRUE
        /\ frame.save = <<functional_events>> /\ IsFrame(frame)
        /\ rest.at = frame.at /\ rest.todo = frame.todo /\ rest.path = frame.path
    <3>1. /\ rest.at = Top.at /\ rest.todo = Tail(Top.todo) /\ rest.path = Top.path
      BY <2>2
    <3> HIDE DEF rest
    <3> QED
      BY <3>1 DEF IsFrame
  <2> HIDE DEF frame, rest, above
  <2>5. Kind(frame.at) = "sequence"
    BY <1>3, <2>4 DEF Kind
  <2>6. FrameIsGood(model, Beginning, frame)
    BY <2>1, <2>4, <2>5
    DEF FrameIsGood, AtBranchIsGood, AtSequenceIsGood, AtForkIsGood
  <2>7. IsContextOf(functional_events, frame.path.trail)
    BY <1>2, <1>3, <2>4 DEF RunsIn
  <2>8. Head(frame.save) = functional_events /\ frame.save = <<Head(frame.save)>>
    BY <2>4
  <2>9. ContextIsGood(model, functional_events)
    BY DEF IInv
  <2> QED
    BY <1>3, <2>4, <2>6, <2>7, <2>8, <2>9 DEF Waits, WaitsAtLink
<1>8. stack' = Append(Append(SubSeq(stack, 1, Len(stack) - 1), frame), above)
  BY DEF VisitLink, WithTop, Pop
<1>9. functional_events' = <<>> /\ ContextIsGood(model, <<>>)
  BY DEF VisitLink, ContextIsGood, Range
<1> HIDE DEF frame, above, path, tree, left, rest
<1>10. StackIsGood(model, Beginning, functional_events', stack')
  BY <1>1, <1>6, <1>7, <1>8, <1>9, TopIsGood, PushOnTop
<1> QED
  BY <1>1, <1>9, <1>10, WalkGoesOn DEF VisitLink, IInv

\* Where a frame is that has executed all instructions of its branch.
LEMMA ArrivedAt ==
  ASSUME IInv, Arrived
  PROVE  \E c \in DOMAIN model.branch :
           /\ c \in UnderWithLinks(model, Beginning)
           /\ Target = model.branch[c].target /\ Target \in Targets(model)
           /\ BranchInOrder(model, Top.path.trail, c)
           /\ IsContextOf(functional_events, Top.path.trail)
<1>1. /\ FrameIsGood(model, Beginning, Top) /\ RunsIn(model, functional_events, Top)
      /\ IsDefined(model) /\ Top.at[1] = "branch"
  BY TopIsGood DEF Arrived
<1>2. AtBranchIsGood(model, Beginning, Top)
  BY <1>1, FrameAtBranch
<1>3. PICK c \in UnderWithLinks(model, Beginning) \cap DOMAIN model.branch :
        Top.at = <<"branch", c>> /\ BranchInOrder(model, Top.path.trail, c)
  BY <1>2 DEF AtBranchIsGood
<1>4. Target = model.branch[c].target
  BY <1>3 DEF Target, Name
<1>5. Target \in Targets(model)
  BY <1>1, <1>4, BranchOfModel
<1>6. IsContextOf(functional_events, Top.path.trail)
  BY <1>1 DEF RunsIn
<1> QED
  BY <1>3, <1>4, <1>5, <1>6

\* The frame on top is replaced by one at its target.
LEMMA GoOnKeeps ==
  ASSUME IInv, GoOn
  PROVE  IInv'
<1> DEFINE b == Beginning
           n == Name(Target)
           path == Top.path
<1>1. Arrived /\ phase = "walk" /\ stack # <<>>
  BY DEF GoOn, Arrived
<1>2. PICK c \in DOMAIN model.branch :
           /\ c \in UnderWithLinks(model, b)
           /\ Target = model.branch[c].target /\ Target \in Targets(model)
           /\ BranchInOrder(model, path.trail, c)
           /\ IsContextOf(functional_events, path.trail)
  BY <1>1, ArrivedAt
<1>3. PathIsGood(model, b, path) /\ IsDefined(model)
  BY <1>1, TopIsGood
<1>4. SUFFICES ASSUME NEW frame, FrameIsGood(model, b, frame), frame.path = path,
                      RunsIn(model, functional_events, frame), stack' = WithTop(frame)
               PROVE  IInv'
  <2>1. CASE Kind(Target) = "branch"
    <3>1. n \in DOMAIN model.branch /\ n \in Successors(model, c)
      BY <1>2, <1>3, <2>1, TargetOfModel DEF Successors
    <3>2. n \in UnderWithLinks(model, b)
      BY <1>2, <3>1, ReachedNext
    <3>3. BranchInOrder(model, path.trail, n)
      BY <1>2, <1>3, <2>1, BranchAfterBranch
    <3> HIDE DEF b, n, path
    <3>4. /\ FrameIsGood(model, b, AtBranch(n, path)) /\ AtBranch(n, path).path = path
          /\ RunsIn(model, functional_events, AtBranch(n, path))
      BY <1>2, <1>3, <3>1, <3>2, <3>3, FrameAtReachedBranch
    <3>5. stack' = WithTop(AtBranch(n, path))
      BY <2>1 DEF GoOn, n, path
    <3> QED
      BY <1>4, <3>4, <3>5
  <2>2. CASE Kind(Target) # "branch"
    <3> DEFINE frame == Collector(Target, model.sequence[n], path)
    <3>1. Kind(Target) = "sequence" /\ n \in DOMAIN model.sequence /\ Target = <<"sequence", n>>
      BY <1>2, <1>3, <2>2, TargetOfModel DEF GoOn
    <3>2. frame = [at |-> Target, todo |-> model.sequence[n], path |-> path,
                   is_linked |-> FALSE, save |-> <<>>]
      BY DEF Collector
    <3>3. stack' = WithTop(frame)
      BY <2>2 DEF GoOn
    <3> HIDE DEF b, n, path, frame
    <3>4. frame.todo \in Seq(Range(model.sequence[n]))
      BY <1>3, <3>1, <3>2 DEF IsDefined, InstructionsAreDefined, IsList
    <3>5. IsReached(model, b, frame.at)
      BY <1>2, <3>2 DEF IsReached
    <3>6. AtSequenceIsGood(model, b, frame)
      BY <3>1, <3>2, <3>4, <3>5 DEF AtSequenceIsGood
    <3>7. FrameIsGood(model, b, frame) /\ frame.path = path
      BY <1>3, <3>2, <3>6 DEF FrameIsGood, IsFrame
    <3>8. \A f : <<"sequence", n>> # <<"fork", f>>
      OBVIOUS
    <3>9. RunsIn(model, functional_events, frame)
      BY <1>2, <3>1, <3>2, <3>8 DEF RunsIn
    <3> QED
      BY <1>4, <3>3, <3>7, <3>9
  <2> QED
    BY <2>1, <2>2
<1> HIDE DEF b, n, path
<1>5. StackIsGood(model, b, functional_events, stack)
  BY <1>1, TopIsGood DEF b
<1>6. stack' = Append(SubSeq(stack, 1, Len(stack) - 1), frame)
  BY <1>4 DEF WithTop, Pop
<1>7. frame.path.trail = stack[Len(stack)].path.trail
  BY <1>4 DEF path, Top
<1>8. StackIsGood(model, b, functional_events, stack')
  BY <1>1, <1>4, <1>5, <1>6, <1>7, ReplaceTop
<1> QED
  BY <1>1, <1>8, WalkGoesOn DEF GoOn, IInv, b

\* The assertion of the fork holds, since the functional events are in order.
LEMMA EnterForkKeeps ==
  ASSUME IInv, EnterFork
  PROVE  IInv'
<1> DEFINE b == Beginning
           f == Name(Target)
           path == Top.path
           event == Event(f)
           new == [e \in DOMAIN functional_events \cup {event} |->
                     IF e = event THEN "" ELSE functional_events[e]]
           frame == Collector(Target, model.fork[f].paths, path)
<1>1. Arrived /\ phase = "walk" /\ stack # <<>> /\ Kind(Target) = "fork"
  BY DEF EnterFork, Arrived
<1>2. PICK c \in DOMAIN model.branch :
           /\ c \in UnderWithLinks(model, b)
           /\ Target = model.branch[c].target /\ Target \in Targets(model)
           /\ BranchInOrder(model, path.trail, c)
           /\ IsContextOf(functional_events, path.trail)
  BY <1>1, ArrivedAt
<1>3. PathIsGood(model, b, path) /\ IsDefined(model)
  BY <1>1, TopIsGood
<1>4. f \in DOMAIN model.fork /\ Target = <<"fork", f>>
  BY <1>1, <1>2, <1>3, TargetOfModel
<1>5. InOrder(model, path.trail, model.fork[f].tree, Place(model, f))
  BY <1>1, <1>2, <1>3, ForkAfterBranch
<1>6. event \notin DOMAIN functional_events
  <2>1. event \notin Met(path.trail)
    BY <1>3, <1>4, <1>5, ForkOfModel, NextEventIsNew DEF Event
  <2> QED
    BY <1>2, <2>1 DEF IsContextOf, Met
<1>7. /\ functional_events' = new /\ stack' = WithTop(frame) /\ phase' = phase
      /\ UNCHANGED <<model, pending, initiating_event, sequences, gates>>
  BY <1>6 DEF EnterFork
<1>8. frame = [at |-> Target, todo |-> model.fork[f].paths, path |-> path,
               is_linked |-> FALSE, save |-> <<>>]
  BY DEF Collector
<1> HIDE DEF b, f, path, frame
<1>9. FrameIsGood(model, b, frame)
  <2>1. frame.todo \in Seq(Paths(model, f))
    BY <1>3, <1>4, <1>8, ForkOfModel DEF IsList, Paths
  <2>2. IsReached(model, b, frame.at)
    BY <1>2, <1>8 DEF IsReached
  <2>3. AtForkIsGood(model, b, frame)
    BY <1>4, <1>5, <1>8, <2>1, <2>2 DEF AtForkIsGood
  <2> QED
    BY <1>3, <1>8, <2>3 DEF FrameIsGood, IsFrame
<1>10. /\ event \in DOMAIN new
       /\ IsContextOf(Without(new, event), path.trail)
  <2>1. /\ DOMAIN Without(new, event) = DOMAIN functional_events
        /\ \A e \in DOMAIN functional_events : Without(new, event)[e] = functional_events[e]
    BY <1>6 DEF Without
  <2> HIDE DEF new
  <2>2. \A i \in Current(path.trail) : path.trail[i][3] \in DOMAIN functional_events
    BY <1>2 DEF IsContextOf
  <2>3. IsContextOf(Without(new, event), path.trail)
    BY <1>2, <2>1, <2>2 DEF IsContextOf
  <2> QED
    BY <2>3 DEF new
<1>11. RunsIn(model, new, frame)
  <2>1. frame.at = <<"fork", f>> /\ frame.at[1] = "fork" /\ frame.save = <<>> /\ frame.path = path
    BY <1>4, <1>8
  <2>2. \A g : <<"fork", g>> = <<"fork", f>> => g = f
    OBVIOUS
  <2> HIDE DEF new, event
  <2> QED
    BY <1>10, <2>1, <2>2 DEF RunsIn, event, Event
<1>12. ContextIsGood(model, new)
  <2>1. event \in EventsOf(model)
    BY <1>4 DEF EventsOf, Event
  <2>2. ContextIsGood(model, functional_events)
    BY DEF IInv
  <2> HIDE DEF event
  <2> QED
    BY <2>1, <2>2 DEF ContextIsGood, Range
<1> HIDE DEF new, event
<1>13. StackIsGood(model, b, functional_events, stack)
  BY <1>1, TopIsGood DEF b
<1>14. stack' = Append(SubSeq(stack, 1, Len(stack) - 1), frame)
  BY <1>7 DEF WithTop, Pop
<1>15. frame.path.trail = stack[Len(stack)].path.trail
  BY <1>8 DEF path, Top
<1>16. StackIsGood(model, b, new, stack')
  BY <1>1, <1>9, <1>11, <1>13, <1>14, <1>15, ReplaceTop
<1> QED
  BY <1>1, <1>7, <1>12, <1>16, WalkGoesOn DEF IInv, b

\* The frame on top is at a fork.
LEMMA TopAtFork ==
  ASSUME IInv, AtFork
  PROVE  \E f \in DOMAIN model.fork :
           /\ Top.at = <<"fork", f>> /\ Name(Top.at) = f /\ Top.todo \in Seq(Paths(model, f))
           /\ IsReached(model, Beginning, Top.at)
           /\ InOrder(model, Top.path.trail, model.fork[f].tree, Place(model, f))
           /\ Event(f) \in DOMAIN functional_events
           /\ Event(f) \notin Met(Top.path.trail)
           /\ IsContextOf(Without(functional_events, Event(f)), Top.path.trail)
<1>1. /\ FrameIsGood(model, Beginning, Top) /\ RunsIn(model, functional_events, Top)
      /\ IsDefined(model) /\ Top.at[1] = "fork"
  BY TopIsGood DEF AtFork
<1>2. AtForkIsGood(model, Beginning, Top)
  BY <1>1, FrameAtFork
<1>3. PICK f \in DOMAIN model.fork :
         /\ Top.at = <<"fork", f>> /\ Top.todo \in Seq(Paths(model, f))
         /\ IsReached(model, Beginning, Top.at)
         /\ InOrder(model, Top.path.trail, model.fork[f].tree, Place(model, f))
  BY <1>2 DEF AtForkIsGood
<1>4. Name(Top.at) = f
  BY <1>3 DEF Name
<1>5. /\ Event(f) \in DOMAIN functional_events
      /\ IsContextOf(Without(functional_events, Event(f)), Top.path.trail)
  BY <1>1, <1>3 DEF RunsIn, Event
<1>6. Event(f) \notin Met(Top.path.trail)
  BY <1>1, <1>3, ForkOfModel, NextEventIsNew DEF Event
<1> QED
  BY <1>3, <1>4, <1>5, <1>6

LEMMA TakePathKeeps ==
  ASSUME IInv, TakePath
  PROVE  IInv'
<1> DEFINE b == Beginning
           path == Top.path
           taken == Head(Top.todo)
           state == taken[1]
           c == taken[2]
           rest == [Top EXCEPT !.todo = Tail(@)]
<1>1. AtFork /\ phase = "walk" /\ stack # <<>> /\ Top.todo # <<>>
  BY DEF TakePath, AtFork
<1>2. PICK f \in DOMAIN model.fork :
           /\ Top.at = <<"fork", f>> /\ Name(Top.at) = f /\ Top.todo \in Seq(Paths(model, f))
           /\ IsReached(model, b, Top.at)
           /\ InOrder(model, path.trail, model.fork[f].tree, Place(model, f))
           /\ Event(f) \in DOMAIN functional_events
           /\ Event(f) \notin Met(path.trail)
           /\ IsContextOf(Without(functional_events, Event(f)), path.trail)
  BY <1>1, TopAtFork
<1> DEFINE chosen == Chosen(path, f, state)
           above == AtBranch(c, chosen)
           new == [functional_events EXCEPT ![Event(f)] = state]
<1>3. /\ PathIsGood(model, b, path) /\ IsDefined(model) /\ IsValid(model)
      /\ FrameIsGood(model, b, Top)
  BY <1>1, TopIsGood
<1>4. /\ functional_events' = new /\ phase' = phase
      /\ stack' = Append(WithTop(rest), above)
      /\ UNCHANGED <<model, pending, initiating_event, sequences, gates>>
  BY <1>2 DEF TakePath
<1>5. taken \in Paths(model, f) /\ Tail(Top.todo) \in Seq(Paths(model, f))
  BY <1>1, <1>2, HeadAndTail
<1>6. rest = [at |-> Top.at, todo |-> Tail(Top.todo), path |-> path,
              is_linked |-> Top.is_linked, save |-> Top.save]
  <2> DEFINE tail == Tail(Top.todo)
  <2> HIDE DEF tail
  <2>1. IsFrame(Top)
    BY <1>3 DEF FrameIsGood
  <2>2. [Top EXCEPT !.todo = tail] = [at |-> Top.at, todo |-> tail, path |-> path,
                                      is_linked |-> Top.is_linked, save |-> Top.save]
    BY <2>1, Z3 DEF IsFrame
  <2> QED
    BY <2>2 DEF tail
<1> HIDE DEF rest, taken
<1>7. c \in DOMAIN model.branch /\ c \in UnderWithLinks(model, b)
  <2>1. PICK d \in UnderWithLinks(model, b) \cap DOMAIN model.branch :
          model.branch[d].target = <<"fork", f>>
    BY <1>2 DEF IsReached
  <2>2. c \in Successors(model, d)
    BY <1>5, <2>1 DEF Successors, Kind, Name
  <2> QED
    BY <1>3, <1>5, <2>1, <2>2, ForkOfModel, ReachedNext
<1>8. /\ PathIsGood(model, b, chosen)
      /\ chosen.trail = Append(path.trail, ForkItem(model, f, state))
      /\ IsList(path.trail) /\ path.trail \in Seq(Items(model))
  <2>1. path.trail \in Seq(Items(model))
    BY <1>3 DEF PathIsGood
  <2> HIDE DEF b, path, state
  <2> QED
    BY <1>3, <1>5, <2>1, PathWithChoice DEF state
<1>9. BranchInOrder(model, chosen.trail, c)
  <2>1. FunctionalEventsAreInOrder(model)
    BY <1>3 DEF IsValid
  <2>2. BranchInOrder(model, Append(path.trail, ForkItem(model, f, state)), c)
    BY <1>2, <1>3, <1>5, <1>8, <2>1, BranchAfterChoice
  <2> QED
    BY <1>8, <2>2
<1>10. IsContextOf(new, chosen.trail)
  <2> HIDE DEF path, state
  <2>1. IsContextOf(new, Append(path.trail, <<"fork", model.fork[f].tree, Event(f), state>>))
    BY <1>2, <1>8, ContextAfterChoice
  <2> QED
    BY <1>8, <2>1 DEF ForkItem, Event
<1>11. ContextIsGood(model, new)
  <2>1. state \in StatesOf(model)
    BY <1>5 DEF StatesOf
  <2>2. ContextIsGood(model, functional_events)
    BY DEF IInv
  <2> HIDE DEF state
  <2> QED
    BY <1>2, <2>1, <2>2 DEF ContextIsGood, Range
<1> HIDE DEF b, path, state, c, chosen, new
<1>12. /\ FrameIsGood(model, b, above) /\ above.path = chosen
       /\ RunsIn(model, new, above)
  BY <1>3, <1>7, <1>8, <1>9, <1>10, FrameAtReachedBranch
<1> HIDE DEF above
<1>13. /\ rest.at = Top.at /\ rest.todo = Tail(Top.todo) /\ rest.path = path
       /\ rest.is_linked = Top.is_linked /\ rest.save = Top.save /\ IsFrame(rest)
  BY <1>6 DEF IsFrame
<1>14. FrameIsGood(model, b, rest)
  <2>1. AtForkIsGood(model, b, rest)
    BY <1>2, <1>5, <1>13 DEF AtForkIsGood
  <2>2. rest.is_linked => Kind(rest.at) = "sequence"
    BY <1>3, <1>13 DEF FrameIsGood
  <2> QED
    BY <1>3, <1>13, <2>1, <2>2 DEF FrameIsGood
<1>15. Waits(model, rest, above)
  <2>1. RunsIn(model, functional_events, Top)
    BY <1>1, TopIsGood
  <2>2. rest.save = <<>>
    BY <1>13, <2>1 DEF RunsIn
  <2>3. above.path.trail = Append(rest.path.trail, ForkItem(model, f, taken[1]))
    BY <1>8, <1>12, <1>13 DEF state
  <2> QED
    BY <1>2, <1>5, <1>13, <2>2, <2>3 DEF Waits, WaitsAtFork
<1>16. StackIsGood(model, b, functional_events, stack)
  BY <1>1, TopIsGood DEF b
<1>17. stack' = Append(Append(SubSeq(stack, 1, Len(stack) - 1), rest), above)
  BY <1>4 DEF WithTop, Pop
<1>18. rest.path.trail = stack[Len(stack)].path.trail
  BY <1>13 DEF path, Top
<1>19. StackIsGood(model, b, new, stack')
  BY <1>1, <1>12, <1>14, <1>15, <1>16, <1>17, <1>18, PushOnTop
<1> QED
  BY <1>1, <1>4, <1>11, <1>19, WalkGoesOn DEF IInv, b

\* The frame on top is through, and its own choices are still in the context.
LEMMA ReturnKeeps ==
  ASSUME IInv, phase = "walk", stack # <<>>, NEW context, ContextIsGood(model, context),
         IsContextOf(context, Top.path.trail), Return(context),
         UNCHANGED <<model, phase, pending, initiating_event, gates>>,
         SequencesAreGood(model, Beginning, sequences')
  PROVE  IInv'
<1> DEFINE b == Beginning
<1>1. StackIsGood(model, b, functional_events, stack) /\ IsDefined(model)
  BY TopIsGood
<1>2. \A f \in DOMAIN model.fork : Place(model, f) \in Int
  BY <1>1, ForkOfModel
<1>3. IsContextOf(context, stack[Len(stack)].path.trail)
  BY DEF Top
<1> HIDE DEF b
<1>4. /\ StackIsGood(model, b, functional_events', stack')
      /\ ContextIsGood(model, functional_events')
  BY <1>1, <1>2, <1>3, PopTop DEF Return, Pop
<1> QED
  BY <1>4, WalkGoesOn DEF b

LEMMA LeaveForkKeeps ==
  ASSUME IInv, LeaveFork
  PROVE  IInv'
<1>1. AtFork /\ phase = "walk" /\ stack # <<>>
  BY DEF LeaveFork, AtFork
<1>2. PICK f \in DOMAIN model.fork :
           /\ Name(Top.at) = f
           /\ IsContextOf(Without(functional_events, Event(f)), Top.path.trail)
  BY <1>1, TopAtFork
<1> DEFINE context == Without(functional_events, Event(f))
<1>3. ContextIsGood(model, context)
  <2>1. ContextIsGood(model, functional_events)
    BY DEF IInv
  <2> QED
    BY <2>1 DEF ContextIsGood, Without, Range
<1>4. Return(context) /\ UNCHANGED <<model, phase, pending, initiating_event, sequences, gates>>
  BY <1>2 DEF LeaveFork
<1>5. SequencesAreGood(model, Beginning, sequences')
  BY <1>4 DEF IInv
<1> HIDE DEF context
<1> QED
  BY <1>1, <1>2, <1>3, <1>4, <1>5, ReturnKeeps DEF context

LEMMA EndPathKeeps ==
  ASSUME IInv, EndPath
  PROVE  IInv'
<1> DEFINE b == Beginning
           path == Top.path
           s == Name(Top.at)
<1>1. phase = "walk" /\ stack # <<>> /\ Top.at[1] = "sequence"
  BY DEF EndPath
<1>2. /\ FrameIsGood(model, b, Top) /\ RunsIn(model, functional_events, Top)
      /\ PathIsGood(model, b, path)
  BY <1>1, TopIsGood
<1>3. IsContextOf(functional_events, path.trail)
  BY <1>1, <1>2 DEF RunsIn
<1>4. s \in DOMAIN model.sequence
  <2>1. AtSequenceIsGood(model, b, Top)
    BY <1>1, <1>2, FrameAtSequence
  <2> QED
    BY <2>1 DEF AtSequenceIsGood, Name
<1>5. SequencesAreGood(model, b, sequences)
  BY DEF IInv
<1>6. SequencesAreGood(model, b, WithPath(s, path))
  <2> HIDE DEF b, s, path
  <2>1. IsList(PathsTo(s)) /\ \A p \in Range(PathsTo(s)) : PathIsGood(model, b, p)
    <3>1. IsList(<<>>) /\ Range(<<>>) = {}
      BY DEF IsList, Range
    <3> QED
      BY <1>5, <3>1 DEF PathsTo, SequencesAreGood
  <2>2. /\ IsList(Append(PathsTo(s), path))
        /\ Range(Append(PathsTo(s), path)) = Range(PathsTo(s)) \cup {path}
    BY <2>1, AppendToList
  <2>3. \A p \in Range(Append(PathsTo(s), path)) : PathIsGood(model, b, p)
    BY <1>2, <2>1, <2>2
  <2>4. ASSUME NEW t \in DOMAIN sequences \cup {s}
        PROVE  /\ t \in DOMAIN model.sequence /\ IsList(WithPath(s, path)[t])
               /\ \A p \in Range(WithPath(s, path)[t]) : PathIsGood(model, b, p)
    <3>1. CASE t = s
      BY <1>4, <2>2, <2>3, <3>1 DEF WithPath
    <3>2. CASE t # s
      <4>1. t \in DOMAIN sequences /\ WithPath(s, path)[t] = sequences[t]
        BY <3>2 DEF WithPath
      <4> QED
        BY <1>5, <4>1 DEF SequencesAreGood
    <3> QED
      BY <3>1, <3>2
  <2>5. DOMAIN WithPath(s, path) = DOMAIN sequences \cup {s}
    BY DEF WithPath
  <2> QED
    BY <2>4, <2>5 DEF SequencesAreGood
<1>7. SequencesAreGood(model, b, sequences')
  BY <1>5, <1>6 DEF EndPath
<1>8. ContextIsGood(model, functional_events)
  BY DEF IInv
<1>9. /\ Return(functional_events)
      /\ UNCHANGED <<model, phase, pending, initiating_event, gates>>
  BY DEF EndPath
<1> QED
  BY <1>1, <1>3, <1>7, <1>8, <1>9, ReturnKeeps

LEMMA EndWalkKeeps ==
  ASSUME IInv, EndWalk
  PROVE  IInv'
  BY DEF IInv, EndWalk, Beginning

\* The assertion of a sequence holds, since event trees are homogeneous with their links.
LEMMA JoinKeeps ==
  ASSUME IInv, NEW s \in DOMAIN sequences, Join(s)
  PROVE  IInv'
<1>1. phase = "join" /\ initiating_event \in DOMAIN model.initiating
  BY DEF Join, IInv
<1>2. ~(HaveFormulas(sequences[s]) /\ HaveExpressions(sequences[s]))
  <2>1. IsHomogeneous(model, Beginning)
    <3>1. Beginning \in Range(model.initial)
      BY <1>1, ModelsAssumption DEF IInv, IsDefined, Beginning, Range
    <3>2. EventTreesAreHomogeneous(model)
      BY <1>1 DEF IInv, IsValid
    <3> QED
      BY <3>1, <3>2 DEF EventTreesAreHomogeneous
  <2>2. \A path \in Range(sequences[s]) : PathIsGood(model, Beginning, path)
    BY DEF IInv, SequencesAreGood
  <2>3. HaveFormulas(sequences[s]) => "formula" \in Kinds(model, Beginning)
    BY <2>2 DEF HaveFormulas, PathIsGood
  <2>4. HaveExpressions(sequences[s]) => "expression" \in Kinds(model, Beginning)
    BY <2>2 DEF HaveExpressions, PathIsGood
  <2> QED
    BY <2>1, <2>3, <2>4 DEF IsHomogeneous
<1>3. /\ phase' = phase /\ DOMAIN gates' = DOMAIN gates \cup {<<initiating_event, s>>}
      /\ UNCHANGED <<model, pending, initiating_event, functional_events, stack, sequences>>
  BY <1>2 DEF Join
<1>4. s \in DOMAIN model.sequence
  BY DEF IInv, SequencesAreGood
<1> QED
  BY <1>1, <1>3, <1>4 DEF IInv, Beginning

LEMMA EndAnalysisKeeps ==
  ASSUME IInv, EndAnalysis
  PROVE  IInv'
  BY DEF IInv, EndAnalysis, Beginning

LEMMA NextKeeps ==
  ASSUME IInv, [Next]_vars
  PROVE  IInv'
<1>1. CASE UNCHANGED vars
  BY <1>1 DEF IInv, Beginning, vars
<1>2. CASE Validate
  BY <1>2, ValidateKeeps
<1>3. CASE \E event \in DOMAIN model.initiating : Start(event)
  BY <1>3, StartKeeps
<1>4. CASE Walk
  BY <1>4, PassOverKeeps, VisitKeeps, VisitLinkKeeps, GoOnKeeps, EnterForkKeeps,
     TakePathKeeps, LeaveForkKeeps, EndPathKeeps, EndWalkKeeps DEF Walk
<1>5. CASE \E s \in DOMAIN sequences : Join(s)
  BY <1>5, JoinKeeps
<1>6. CASE EndAnalysis
  BY <1>6, EndAnalysisKeeps
<1> QED
  BY <1>1, <1>2, <1>3, <1>4, <1>5, <1>6 DEF Next, Step, Terminated

LEMMA InvariantHolds ==
  Spec => []IInv
<1>1. Init => IInv
  BY InitHolds
<1>2. IInv /\ [Next]_vars => IInv'
  BY NextKeeps
<1> QED
  BY <1>1, <1>2, PTL DEF Spec

-----------------------------------------------------------------------------
\* What follows from the invariant.

LEMMA TypesFollow ==
  ASSUME IInv
  PROVE  TypeOK
<1>1. DOMAIN functional_events \subseteq EventsOf(model)
  BY DEF IInv, ContextIsGood
<1>2. Range(functional_events) \subseteq StatesOf(model) \cup {""}
  BY DEF IInv, ContextIsGood
<1>3. ASSUME NEW i \in 1 .. Len(stack)
      PROVE  /\ stack[i].at[1] \in {"branch", "sequence", "fork"}
             /\ stack[i].save # <<>> => stack[i].is_linked /\ i < Len(stack)
             /\ stack[i].is_linked => stack[i].at[1] = "sequence"
  <2>1. FrameIsGood(model, Beginning, stack[i])
    BY DEF IInv, StackIsGood
  <2>2. stack[i].at[1] \in {"branch", "sequence", "fork"}
    BY <2>1 DEF FrameIsGood, AtBranchIsGood, AtSequenceIsGood, AtForkIsGood
  <2>3. stack[i].is_linked => stack[i].at[1] = "sequence"
    BY <2>1 DEF FrameIsGood, Kind
  <2>4. Len(stack) \in Nat /\ stack # <<>>
    BY DEF IInv, StackIsGood, IsList
  <2>5. CASE i = Len(stack)
    <3>1. stack[i].save = <<>>
      BY <2>4, <2>5 DEF IInv, StackIsGood, RunsIn
    <3> QED
      BY <2>2, <2>3, <3>1
  <2>6. CASE i # Len(stack)
    <3>1. i \in 1 .. Len(stack) - 1 /\ i < Len(stack)
      BY <2>4, <2>6
    <3>2. Waits(model, stack[i], stack[i + 1])
      BY <3>1 DEF IInv, StackIsGood
    <3>3. stack[i].save # <<>> => stack[i].is_linked
      BY <3>2 DEF Waits, WaitsAtFork, WaitsAtLink
    <3> QED
      BY <2>2, <2>3, <3>1, <3>3
  <2> QED
    BY <2>5, <2>6
<1>4. DOMAIN sequences \subseteq DOMAIN model.sequence
  BY DEF IInv, SequencesAreGood
<1> QED
  BY <1>1, <1>2, <1>3, <1>4 DEF IInv, TypeOK, Ended

LEMMA ContextFollows ==
  ASSUME IInv
  PROVE  ContextIsOfPath
<1> SUFFICES ASSUME Executing PROVE IsContextOf(functional_events, Top.path.trail)
  BY DEF ContextIsOfPath
<1>1. RunsIn(model, functional_events, Top) /\ Top.at[1] # "fork"
  BY TopIsGood DEF Executing, Kind
<1> QED
  BY <1>1 DEF RunsIn

\* The variables keep their types in every walk, and only a collector that waits at a link
\* has put a context aside (src/event_tree_analysis.cc:206).
THEOREM TypeCorrect == Spec => []TypeOK
<1>1. IInv => TypeOK
  BY TypesFollow
<1> QED
  BY <1>1, InvariantHolds, PTL

\* Whatever models the initializer accepts, no assertion of the walk fails: a fork never
\* meets its functional event in the context (src/event_tree_analysis.cc:219), and no
\* sequence has both formulas and expressions (src/event_tree_analysis.cc:135).
THEOREM AssertionsCorrect == Spec => []AssertionsHold
<1>1. IInv => AssertionsHold
  BY DEF IInv, AssertionsHold
<1> QED
  BY <1>1, InvariantHolds, PTL

\* Whatever forks and links an instruction is under, the tests of its conditionals see the
\* choices of its own path in its own event tree, and no others
\* (CollectSequences, src/event_tree_analysis.cc:160-250).
THEOREM ContextCorrect == Spec => []ContextIsOfPath
<1>1. IInv => ContextIsOfPath
  BY ContextFollows
<1> QED
  BY <1>1, InvariantHolds, PTL
=============================================================================
