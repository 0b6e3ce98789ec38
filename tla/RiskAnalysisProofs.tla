------------------------- MODULE RiskAnalysisProofs -------------------------
(***************************************************************************)
(* The scope guard of RunAnalysis isolates the contexts from one another,  *)
(* for every model whose phases set each house event at most once.  The    *)
(* hypothesis is needed: without it the run repeated_house_event finds the *)
(* model changed after a phase.                                            *)
(***************************************************************************)
EXTENDS RiskAnalysis, TLAPS

\* No phase names a house event twice.
DistinctEvents ==
  \A l \in Programs : \A i, j \in 1 .. Len(l) : l[i].event = l[j].event => i = j

Pristine == model_time = InitTime /\ settings_time = InitTime /\ house = init_house

\* The mission time a context asks for.
ContextTime == IF context = NoContext THEN InitTime ELSE Scaled(fraction[context], InitTime)

\* The scope guard has what it takes to restore the house events: each entry
\* holds the original state, and an event without an entry has not changed.
GuardCovers(first) ==
  /\ \A i \in 1 .. Len(house_events) :
       house_events[i].state = init_house[house_events[i].event]
  /\ \A h \in HouseEvent :
       \/ house[h] = init_house[h]
       \/ \E i \in first .. Len(house_events) : house_events[i].event = h

\* The instructions before next are in force, and no others.
PrefixApplied ==
  LET l == instructions[context] IN
    /\ next <= Len(l) + 1
    /\ \A j \in 1 .. next - 1 : house[l[j].event] = l[j].state
    /\ \A h \in HouseEvent :
         (\A j \in 1 .. next - 1 : l[j].event # h) => house[h] = init_house[h]

ContextInForce ==
  IF context = NoContext THEN house = init_house
  ELSE \A h \in HouseEvent : house[h] = Asked(context, h)

IInv ==
  /\ TypeOK
  /\ ResultsSeeOwnContext
  /\ pc \in {"idle", "done"} => Pristine
  /\ pc \in {"apply", "run", "timeline", "restore"} => init_time = InitTime
  /\ pc \in {"apply", "run"} => model_time = ContextTime /\ settings_time = ContextTime
  /\ pc = "timeline" => total_time = ContextTime /\ settings_time = ContextTime
  /\ pc = "restore" => model_time = InitTime /\ settings_time = InitTime
  /\ pc \in {"apply", "run", "timeline"} => GuardCovers(1)
  /\ pc = "restore" => GuardCovers(next)
  /\ pc = "apply" => PrefixApplied
  /\ pc \in {"run", "timeline"} => ContextInForce

-----------------------------------------------------------------------------
LEMMA ScaledType ==
  ASSUME NEW f \in 1 .. Whole, NEW time \in Nat
  PROVE  Scaled(f, time) \in Nat
BY TimeAssumption DEF Scaled

LEMMA AppendFacts ==
  ASSUME NEW S, NEW s \in Seq(S), NEW x \in S
  PROVE  /\ Append(s, x) \in Seq(S)
         /\ Len(Append(s, x)) = Len(s) + 1
         /\ Append(s, x)[Len(s) + 1] = x
         /\ \A i \in 1 .. Len(s) : Append(s, x)[i] = s[i]
OBVIOUS

\* An instruction list of a phase is a sequence of instructions.
LEMMA ProgramType ==
  ASSUME TypeOK, NEW p \in Phase
  PROVE  /\ instructions[p] \in Programs
         /\ Len(instructions[p]) \in Nat
         /\ \A i \in 1 .. Len(instructions[p]) :
              /\ instructions[p][i].event \in HouseEvent
              /\ instructions[p][i].state \in BOOLEAN
<1>1. instructions[p] \in Programs /\ instructions[p] \in Seq(Instruction)
  BY ProgramAssumption DEF TypeOK
<1>2. Len(instructions[p]) \in Nat
  BY <1>1
<1>3. \A i \in 1 .. Len(instructions[p]) : instructions[p][i] \in Instruction
  BY <1>1
<1>4. \A x \in Instruction : x.event \in HouseEvent /\ x.state \in BOOLEAN
  BY DEF Instruction
<1> QED
  BY <1>1, <1>2, <1>3, <1>4

\* What the results are held against does not change.
LEMMA ResultsStable ==
  ASSUME ResultsSeeOwnContext, UNCHANGED <<phases, instructions, fraction, init_house, results>>
  PROVE  ResultsSeeOwnContext'
<1>1. ASSUME NEW p, NEW h PROVE Asked(p, h)' = Asked(p, h)
  BY DEF Asked
<1> QED
  BY <1>1 DEF ResultsSeeOwnContext

\* With distinct events, the state asked for is that of the only instruction.
LEMMA AskedIsApplied ==
  ASSUME DistinctEvents, TypeOK, NEW p \in Phase, NEW j \in 1 .. Len(instructions[p])
  PROVE  Asked(p, instructions[p][j].event) = instructions[p][j].state
<1> DEFINE l == instructions[p]
           sets == {i \in 1 .. Len(l) : l[i].event = l[j].event}
<1>1. l \in Programs /\ Len(l) \in Nat
  BY ProgramType
<1>2. sets = {j}
  BY <1>1 DEF DistinctEvents
<1>3. (CHOOSE i \in sets : \A k \in sets : k <= i) = j
  BY <1>2
<1> QED
  BY <1>2, <1>3 DEF Asked

LEMMA InitIInv == Init => IInv
<1> SUFFICES ASSUME Init PROVE IInv
  OBVIOUS
<1>1. TypeOK
  BY TimeAssumption DEF Init, TypeOK, Contexts
<1>2. pc = "idle" /\ Pristine /\ results = {}
  BY DEF Init, Pristine
<1>3. ResultsSeeOwnContext
  BY <1>2 DEF ResultsSeeOwnContext
<1> QED
  BY <1>1, <1>2, <1>3 DEF IInv

\* A context begins with the pristine model.
LEMMA EnterIInv == IInv /\ (EnterPlain \/ \E p \in Phase : EnterPhase(p)) => IInv'
<1> SUFFICES ASSUME IInv, EnterPlain \/ \E p \in Phase : EnterPhase(p) PROVE IInv'
  OBVIOUS
<1>1. /\ pc = "idle" /\ init_time' = model_time /\ house_events' = <<>>
      /\ UNCHANGED <<definition, house, results>>
      /\ UNCHANGED <<phases, instructions, fraction, init_house, time_step, timeline>>
      /\ todo' = Target /\ context' \in pending /\ pending' \subseteq pending
  BY DEF EnterPlain, EnterPhase, definition
<1>2. TypeOK /\ Pristine /\ ResultsSeeOwnContext
  BY <1>1 DEF IInv
<1>3. Len(house_events') = 0 /\ house_events' \in Seq(Instruction)
  BY <1>1
<1>4. ResultsSeeOwnContext'
  BY <1>1, <1>2, ResultsStable
<1>5. GuardCovers(1)'
  BY <1>1, <1>2, <1>3 DEF GuardCovers, Pristine
<1>6. CASE EnterPlain
  <2>1. /\ context' = NoContext /\ pc' = "run"
        /\ UNCHANGED <<model_time, settings_time, next>>
    BY <1>6 DEF EnterPlain
  <2>2. TypeOK'
    BY <1>1, <1>2, <1>3, <2>1 DEF TypeOK, Contexts, timeline
  <2>3. ContextInForce' /\ ContextTime' = InitTime
    BY <1>1, <1>2, <2>1 DEF ContextInForce, Pristine, ContextTime
  <2> QED
    BY <1>1, <1>2, <1>4, <1>5, <2>1, <2>2, <2>3 DEF IInv, Pristine
<1>7. ASSUME NEW p \in Phase, EnterPhase(p) PROVE IInv'
  <2>1. /\ context' = p /\ pc' = "apply" /\ next' = 1
        /\ model_time' = Scaled(fraction[p], model_time) /\ settings_time' = model_time'
    BY <1>7 DEF EnterPhase
  <2>2. model_time' \in Nat
    BY <1>2, <2>1, ScaledType, TimeAssumption DEF TypeOK
  <2>3. TypeOK'
    BY <1>1, <1>2, <1>3, <2>1, <2>2 DEF TypeOK, Contexts, timeline
  <2>4. model_time' = ContextTime'
    BY <1>1, <1>2, <2>1, ContextAssumption DEF ContextTime, Pristine
  <2>5. PrefixApplied'
    BY <1>1, <1>2, <2>1, ProgramType DEF PrefixApplied, Pristine
  <2> QED
    BY <1>1, <1>2, <1>4, <1>5, <2>1, <2>3, <2>4, <2>5 DEF IInv, Pristine
<1> QED
  BY <1>6, <1>7

\* One instruction is applied and, if it changes anything, recorded.
LEMMA SetHouseEventIInv == DistinctEvents /\ IInv /\ SetHouseEvent => IInv'
<1> SUFFICES ASSUME DistinctEvents, IInv, SetHouseEvent PROVE IInv'
  OBVIOUS
<1> DEFINE l == instructions[context]
           i == l[next]
<1>1. /\ pc = "apply" /\ next <= Len(l) /\ next' = next + 1
      /\ UNCHANGED <<model_time, settings_time, pending, context, init_time, todo, results, pc>>
      /\ UNCHANGED <<phases, instructions, fraction, init_house, time_step, timeline>>
  BY DEF SetHouseEvent, definition
<1>2. TypeOK /\ PrefixApplied /\ GuardCovers(1) /\ ResultsSeeOwnContext /\ context \in Phase
  BY <1>1 DEF IInv, TypeOK
<1>3. /\ l \in Programs /\ Len(l) \in Nat /\ next \in 1 .. Len(l)
      /\ \A j \in 1 .. Len(l) : l[j].event \in HouseEvent /\ l[j].state \in BOOLEAN
  BY <1>1, <1>2, ProgramType DEF TypeOK
<1>4. i.event \in HouseEvent /\ i.state \in BOOLEAN
  BY <1>3
<1>5. \A j \in 1 .. next - 1 : l[j].event # i.event
  BY <1>3 DEF DistinctEvents
<1>6. house[i.event] = init_house[i.event]
  BY <1>2, <1>4, <1>5 DEF PrefixApplied
<1>7. ResultsSeeOwnContext'
  BY <1>1, <1>2, ResultsStable
<1>8. /\ house' \in [HouseEvent -> BOOLEAN]
      /\ house'[i.event] = i.state
      /\ \A h \in HouseEvent \ {i.event} : house'[h] = house[h]
  BY <1>2, <1>4 DEF SetHouseEvent, TypeOK
<1>9. house_events' \in Seq(Instruction) /\ GuardCovers(1)'
  <2>1. CASE house[i.event] = i.state
    <3>1. UNCHANGED <<house, house_events>>
      BY <2>1 DEF SetHouseEvent
    <3> QED
      BY <1>1, <1>2, <3>1 DEF GuardCovers, TypeOK
  <2>2. CASE house[i.event] # i.state
    <3> DEFINE e == [event |-> i.event, state |-> house[i.event]]
               m == Len(house_events)
    <3>1. house_events' = Append(house_events, e)
      BY <2>2 DEF SetHouseEvent
    <3>2. e \in Instruction /\ e.event = i.event /\ e.state = init_house[i.event]
      BY <1>2, <1>4, <1>6 DEF TypeOK, Instruction
    <3> HIDE DEF e, i
    <3>3. /\ house_events' \in Seq(Instruction) /\ Len(house_events') = m + 1 /\ m \in Nat
          /\ house_events'[m + 1] = e /\ \A k \in 1 .. m : house_events'[k] = house_events[k]
      BY <1>2, <3>1, <3>2, AppendFacts DEF TypeOK
    <3> HIDE DEF m
    <3>4. \A k \in 1 .. m + 1 :
            house_events'[k].state = init_house[house_events'[k].event]
      <4>1. \A k \in 1 .. m : house_events[k].state = init_house[house_events[k].event]
        BY <1>2 DEF GuardCovers, m
      <4> QED
        BY <3>2, <3>3, <4>1
    <3>5. ASSUME NEW h \in HouseEvent
          PROVE  \/ house'[h] = init_house[h]
                 \/ \E k \in 1 .. m + 1 : house_events'[k].event = h
      <4>1. CASE h = i.event
        BY <3>2, <3>3, <4>1
      <4>2. CASE h # i.event
        <5>1. house'[h] = house[h]
          BY <1>8, <4>2
        <5>2. house[h] = init_house[h] \/ \E k \in 1 .. m : house_events[k].event = h
          BY <1>2 DEF GuardCovers, m
        <5> QED
          BY <3>3, <5>1, <5>2
      <4> QED
        BY <4>1, <4>2
    <3> QED
      BY <1>1, <3>3, <3>4, <3>5 DEF GuardCovers
  <2> QED
    BY <2>1, <2>2
<1>10. PrefixApplied'
  <2>1. \A j \in 1 .. next : house'[l[j].event] = l[j].state
    <3>1. \A j \in 1 .. next - 1 : house[l[j].event] = l[j].state
      BY <1>2 DEF PrefixApplied
    <3> QED
      BY <1>3, <1>5, <1>8, <3>1
  <2>2. \A h \in HouseEvent :
          (\A j \in 1 .. next : l[j].event # h) => house'[h] = init_house[h]
    <3>1. \A h \in HouseEvent :
            (\A j \in 1 .. next - 1 : l[j].event # h) => house[h] = init_house[h]
      BY <1>2 DEF PrefixApplied
    <3> QED
      BY <1>3, <1>8, <3>1
  <2>3. next' - 1 = next /\ next' <= Len(l) + 1
    BY <1>1, <1>3
  <2> QED
    BY <1>1, <2>1, <2>2, <2>3 DEF PrefixApplied
<1>11. TypeOK'
  BY <1>1, <1>2, <1>3, <1>8, <1>9 DEF TypeOK, Contexts, timeline
<1> QED
  BY <1>1, <1>7, <1>9, <1>10, <1>11 DEF IInv, ContextTime

\* When the loop over the instructions ends, the context is in force.
LEMMA PhaseAppliedIInv == DistinctEvents /\ IInv /\ PhaseApplied => IInv'
<1> SUFFICES ASSUME DistinctEvents, IInv, PhaseApplied PROVE IInv'
  OBVIOUS
<1> DEFINE l == instructions[context]
<1>1. /\ pc = "apply" /\ pc' = "run" /\ next > Len(l)
      /\ UNCHANGED <<model_time, settings_time, house, pending, context, init_time,
                     house_events, next, todo, results>>
      /\ UNCHANGED <<phases, instructions, fraction, init_house, time_step, timeline>>
  BY DEF PhaseApplied, definition, guard
<1>2. TypeOK /\ PrefixApplied /\ ResultsSeeOwnContext /\ context \in Phase
  BY <1>1 DEF IInv, TypeOK
<1>3. Len(l) \in Nat /\ next = Len(l) + 1
  BY <1>1, <1>2, ProgramType DEF PrefixApplied, TypeOK
<1>4. ASSUME NEW h \in HouseEvent PROVE house[h] = Asked(context, h)
  <2>1. CASE \E j \in 1 .. Len(l) : l[j].event = h
    <3>1. PICK j \in 1 .. Len(l) : l[j].event = h
      BY <2>1
    <3>2. house[h] = l[j].state
      BY <1>2, <1>3, <3>1 DEF PrefixApplied
    <3> QED
      BY <1>2, <3>1, <3>2, AskedIsApplied
  <2>2. CASE \A j \in 1 .. Len(l) : l[j].event # h
    <3>1. house[h] = init_house[h]
      BY <1>2, <1>3, <2>2 DEF PrefixApplied
    <3>2. {j \in 1 .. Len(l) : l[j].event = h} = {}
      BY <2>2
    <3> QED
      BY <3>1, <3>2 DEF Asked
  <2> QED
    BY <2>1, <2>2
<1>5. ContextInForce'
  <2>1. \A h \in HouseEvent : Asked(context, h)' = Asked(context, h)
    BY <1>1 DEF Asked
  <2> QED
    BY <1>1, <1>2, <1>4, <2>1, ContextAssumption DEF ContextInForce
<1>6. ResultsSeeOwnContext'
  BY <1>1, <1>2, ResultsStable
<1>7. TypeOK'
  BY <1>1, <1>2 DEF TypeOK, Contexts, timeline
<1> QED
  BY <1>1, <1>5, <1>6, <1>7 DEF IInv, ContextTime, GuardCovers

\* A target is analysed under its context and nothing else.
LEMMA AnalyzeTargetIInv == IInv /\ (\E t \in Target : AnalyzeTarget(t)) => IInv'
<1> SUFFICES ASSUME IInv, NEW t \in Target, AnalyzeTarget(t) PROVE IInv'
  OBVIOUS
<1> DEFINE r == [target |-> t, context |-> context, time |-> model_time,
                 settings |-> settings_time, house |-> house]
<1>1. /\ pc = "run" /\ todo' = todo \ {t} /\ results' = results \cup {r}
      /\ UNCHANGED <<model_time, settings_time, house, pending, context, init_time,
                     house_events, next>>
      /\ UNCHANGED <<phases, instructions, fraction, init_house, time_step>>
  BY DEF AnalyzeTarget, definition, guard
<1>2. \/ UNCHANGED timeline /\ pc' = "run"
      \/ clock' = 0 /\ total_time' = model_time /\ pc' = "timeline"
  BY <1>1 DEF AnalyzeTarget, timeline
<1>3. /\ TypeOK /\ ResultsSeeOwnContext /\ ContextInForce /\ GuardCovers(1)
      /\ model_time = ContextTime /\ settings_time = ContextTime /\ init_time = InitTime
  BY <1>1 DEF IInv
<1>4. TypeOK'
  BY <1>1, <1>2, <1>3 DEF TypeOK, Contexts, timeline
<1>5. ResultsSeeOwnContext'
  <2>1. ASSUME NEW p, NEW h PROVE Asked(p, h)' = Asked(p, h)
    BY <1>1 DEF Asked
  <2>2. CASE context = NoContext
    BY <1>1, <1>3, <2>1, <2>2 DEF ResultsSeeOwnContext, ContextInForce, ContextTime
  <2>3. CASE context # NoContext
    BY <1>1, <1>3, <2>1, <2>3 DEF ResultsSeeOwnContext, ContextInForce, ContextTime
  <2> QED
    BY <2>2, <2>3
<1>6. ContextInForce' /\ ContextTime' = ContextTime /\ GuardCovers(1)'
  <2>1. ASSUME NEW p, NEW h PROVE Asked(p, h)' = Asked(p, h)
    BY <1>1 DEF Asked
  <2> QED
    BY <1>1, <1>3, <2>1 DEF ContextInForce, ContextTime, GuardCovers
<1> QED
  BY <1>1, <1>2, <1>3, <1>4, <1>5, <1>6 DEF IInv, timeline

\* The timeline moves the mission time of the model and puts it back.
LEMMA TimelineIInv == IInv /\ (TimelinePoint \/ TimelineEnd) => IInv'
<1> SUFFICES ASSUME IInv, TimelinePoint \/ TimelineEnd PROVE IInv'
  OBVIOUS
<1>1. /\ pc = "timeline" /\ total_time' = total_time
      /\ UNCHANGED <<settings_time, house, pending, context, init_time, house_events, next,
                     todo, results>>
      /\ UNCHANGED <<phases, instructions, fraction, init_house, time_step>>
  BY DEF TimelinePoint, TimelineEnd, definition, guard, timeline
<1>2. \/ pc' = "timeline" /\ model_time' = clock /\ clock' = clock + time_step
      \/ pc' = "run" /\ model_time' = total_time /\ clock' = clock
  BY <1>1 DEF TimelinePoint, TimelineEnd, timeline
<1>3. /\ TypeOK /\ ResultsSeeOwnContext /\ ContextInForce /\ GuardCovers(1)
      /\ total_time = ContextTime /\ settings_time = ContextTime /\ init_time = InitTime
  BY <1>1 DEF IInv
<1>4. TypeOK'
  BY <1>1, <1>2, <1>3, TimeAssumption DEF TypeOK, Contexts
<1>5. ResultsSeeOwnContext'
  BY <1>1, <1>3, ResultsStable
<1>6. ContextInForce' /\ ContextTime' = ContextTime /\ GuardCovers(1)'
  <2>1. ASSUME NEW p, NEW h PROVE Asked(p, h)' = Asked(p, h)
    BY <1>1 DEF Asked
  <2> QED
    BY <1>1, <1>3, <2>1 DEF ContextInForce, ContextTime, GuardCovers
<1> QED
  BY <1>1, <1>2, <1>3, <1>4, <1>5, <1>6 DEF IInv

\* The scope guard restores the mission times and begins with its entries.
LEMMA LeaveContextIInv == IInv /\ LeaveContext => IInv'
<1> SUFFICES ASSUME IInv, LeaveContext PROVE IInv'
  OBVIOUS
<1>1. /\ pc = "run" /\ pc' = "restore" /\ next' = 1
      /\ model_time' = init_time /\ settings_time' = init_time
      /\ UNCHANGED <<house, pending, context, init_time, house_events, todo, results>>
      /\ UNCHANGED <<phases, instructions, fraction, init_house, time_step, timeline>>
  BY DEF LeaveContext, definition, guard
<1>2. TypeOK /\ ResultsSeeOwnContext /\ GuardCovers(1) /\ init_time = InitTime
  BY <1>1 DEF IInv
<1>3. TypeOK'
  BY <1>1, <1>2 DEF TypeOK, Contexts, timeline
<1>4. ResultsSeeOwnContext'
  BY <1>1, <1>2, ResultsStable
<1>5. GuardCovers(next)'
  BY <1>1, <1>2 DEF GuardCovers
<1> QED
  BY <1>1, <1>2, <1>3, <1>4, <1>5 DEF IInv

\* Each entry puts one house event back.
LEMMA RestoreHouseEventIInv == IInv /\ RestoreHouseEvent => IInv'
<1> SUFFICES ASSUME IInv, RestoreHouseEvent PROVE IInv'
  OBVIOUS
<1> DEFINE m == Len(house_events)
           e == house_events[next]
<1>1. /\ pc = "restore" /\ pc' = "restore" /\ next <= m /\ next' = next + 1
      /\ house' = [house EXCEPT ![e.event] = e.state]
      /\ UNCHANGED <<model_time, settings_time, pending, context, init_time, house_events,
                     todo, results>>
      /\ UNCHANGED <<phases, instructions, fraction, init_house, time_step, timeline>>
  BY DEF RestoreHouseEvent, definition, guard
<1>2. /\ TypeOK /\ ResultsSeeOwnContext /\ GuardCovers(next) /\ init_time = InitTime
      /\ model_time = InitTime /\ settings_time = InitTime
  BY <1>1 DEF IInv
<1>3. m \in Nat /\ next \in 1 .. m /\ e \in Instruction
  BY <1>1, <1>2 DEF TypeOK
<1>4. e.event \in HouseEvent /\ e.state \in BOOLEAN /\ e.state = init_house[e.event]
  BY <1>2, <1>3 DEF GuardCovers, Instruction
<1>5. TypeOK'
  BY <1>1, <1>2, <1>3, <1>4 DEF TypeOK, Contexts, timeline
<1>6. ResultsSeeOwnContext'
  BY <1>1, <1>2, ResultsStable
<1>7. ASSUME NEW h \in HouseEvent
      PROVE  house'[h] = init_house[h] \/ \E i \in next + 1 .. m : house_events[i].event = h
  <2>1. CASE h = e.event
    BY <1>1, <1>2, <1>4, <2>1 DEF TypeOK
  <2>2. CASE h # e.event
    <3>1. house'[h] = house[h]
      BY <1>1, <1>2, <2>2 DEF TypeOK
    <3>2. house[h] = init_house[h] \/ \E i \in next .. m : house_events[i].event = h
      BY <1>2 DEF GuardCovers
    <3> QED
      BY <1>3, <2>2, <3>1, <3>2
  <2> QED
    BY <2>1, <2>2
<1>8. GuardCovers(next)'
  BY <1>1, <1>2, <1>7 DEF GuardCovers
<1> QED
  BY <1>1, <1>2, <1>5, <1>6, <1>8 DEF IInv

\* With the last entry the model is pristine again, and it stays so.
LEMMA RestoredIInv == IInv /\ (Restored \/ Return) => IInv'
<1> SUFFICES ASSUME IInv, Restored \/ Return PROVE IInv'
  OBVIOUS
<1>1. /\ pc' \in {"idle", "done"}
      /\ UNCHANGED <<model_time, settings_time, house, pending, context, init_time,
                     house_events, next, todo, results>>
      /\ UNCHANGED <<phases, instructions, fraction, init_house, time_step, timeline>>
  BY DEF Restored, Return, definition, guard
<1>2. TypeOK /\ ResultsSeeOwnContext
  BY DEF IInv
<1>3. TypeOK' /\ ResultsSeeOwnContext'
  BY <1>1, <1>2, ResultsStable DEF TypeOK, Contexts, timeline
<1>4. Pristine
  <2>1. CASE Return
    BY <2>1 DEF IInv, Return
  <2>2. CASE Restored
    <3>1. /\ GuardCovers(next) /\ next > Len(house_events)
          /\ model_time = InitTime /\ settings_time = InitTime
      BY <2>2 DEF IInv, Restored
    <3>2. \A h \in HouseEvent : house[h] = init_house[h]
      <4>1. Len(house_events) \in Nat /\ next \in Nat
        BY <1>2 DEF TypeOK
      <4>2. next .. Len(house_events) = {}
        BY <3>1, <4>1
      <4> QED
        BY <3>1, <4>2 DEF GuardCovers
    <3>3. house = init_house
      BY <1>2, <3>2 DEF TypeOK
    <3> QED
      BY <3>1, <3>3 DEF Pristine
  <2> QED
    BY <2>1, <2>2
<1> QED
  BY <1>1, <1>3, <1>4 DEF IInv, Pristine

LEMMA StutterIInv == IInv /\ UNCHANGED vars => IInv'
<1> SUFFICES ASSUME IInv, UNCHANGED vars PROVE IInv'
  OBVIOUS
<1>1. /\ UNCHANGED <<model_time, settings_time, house, pending, context, init_time,
                     house_events, next, todo, results, pc>>
      /\ UNCHANGED <<phases, instructions, fraction, init_house, time_step>>
      /\ UNCHANGED <<clock, total_time>>
  BY DEF vars, definition, guard, timeline
<1>2. TypeOK' /\ ResultsSeeOwnContext'
  BY <1>1, ResultsStable DEF IInv, TypeOK, Contexts
<1>3. ASSUME NEW p, NEW h PROVE Asked(p, h)' = Asked(p, h)
  BY <1>1 DEF Asked
<1>4. /\ ContextTime' = ContextTime /\ (Pristine => Pristine')
      /\ (GuardCovers(1) => GuardCovers(1)') /\ (GuardCovers(next) => GuardCovers(next)')
      /\ (PrefixApplied => PrefixApplied') /\ (ContextInForce => ContextInForce')
  BY <1>1, <1>3 DEF ContextTime, Pristine, GuardCovers, PrefixApplied, ContextInForce
<1> QED
  BY <1>1, <1>2, <1>4 DEF IInv

\* IInv is an invariant of the analysis of models with distinct instructions.
LEMMA Invariance ==
  ASSUME DistinctEvents
  PROVE  Spec => []IInv
<1>1. IInv /\ [Next]_vars => IInv'
  BY EnterIInv, SetHouseEventIInv, PhaseAppliedIInv, AnalyzeTargetIInv, TimelineIInv,
     LeaveContextIInv, RestoreHouseEventIInv, RestoredIInv, StutterIInv
     DEF Next, Step, Terminated
<1> QED
  BY InitIInv, <1>1, PTL DEF Spec

\* Whatever the phases are, if none names a house event twice, the model is as
\* the input defines it between contexts and when the analysis is over.
THEOREM GuardRestores ==
  ASSUME DistinctEvents
  PROVE  Spec => []ModelIsPristine
<1>1. IInv => ModelIsPristine
  BY DEF IInv, ModelIsPristine, Pristine
<1> QED
  BY Invariance, <1>1, PTL

\* Under the same hypothesis every analysis sees its own phase, and no result
\* depends on which phases or timelines came before it.
THEOREM ContextsAreIsolated ==
  ASSUME DistinctEvents
  PROVE  Spec => []ResultsSeeOwnContext
<1>1. IInv => ResultsSeeOwnContext
  BY DEF IInv
<1> QED
  BY Invariance, <1>1, PTL
-----------------------------------------------------------------------------
\* Types do not depend on what the phases set: each step keeps them.
LEMMA SetHouseEventType == TypeOK /\ SetHouseEvent => TypeOK'
<1> SUFFICES ASSUME TypeOK, SetHouseEvent PROVE TypeOK'
  OBVIOUS
<1> DEFINE i == instructions[context][next]
           entry == [event |-> i.event, state |-> house[i.event]]
<1>1. /\ context \in Phase /\ next \in 1 .. Len(instructions[context]) /\ pc' = pc
      /\ UNCHANGED <<phases, instructions, fraction, init_house, time_step, model_time,
                     settings_time, pending, context, init_time, todo, clock, total_time, results>>
      /\ next' = next + 1
      /\ \/ UNCHANGED <<house, house_events>>
         \/ /\ house_events' = Append(house_events, entry)
            /\ house' = [house EXCEPT ![i.event] = i.state]
  BY DEF SetHouseEvent, TypeOK, definition, timeline
<1>2. i.event \in HouseEvent /\ i.state \in BOOLEAN
  BY <1>1, ProgramType
<1>3. entry \in Instruction
  BY <1>2 DEF TypeOK, Instruction
<1>4. house' \in [HouseEvent -> BOOLEAN]
  BY <1>1, <1>2 DEF TypeOK
<1>5. house_events' \in Seq(Instruction)
  <2>1. house_events \in Seq(Instruction)
    BY DEF TypeOK
  <2>2. house_events' = house_events \/ house_events' = Append(house_events, entry)
    BY <1>1
  <2> HIDE DEF entry, i
  <2> QED
    BY <1>3, <2>1, <2>2, AppendFacts
<1> QED
  BY <1>1, <1>4, <1>5 DEF TypeOK, Contexts

LEMMA RestoreHouseEventType == TypeOK /\ RestoreHouseEvent => TypeOK'
<1> SUFFICES ASSUME TypeOK, RestoreHouseEvent PROVE TypeOK'
  OBVIOUS
<1>1. /\ pc = "restore" /\ pc' = pc /\ next \in 1 .. Len(house_events) /\ next' = next + 1
      /\ house' = [house EXCEPT ![house_events[next].event] = house_events[next].state]
      /\ UNCHANGED <<phases, instructions, fraction, init_house, time_step, model_time,
                     settings_time, pending, context, init_time, house_events, todo, clock,
                     total_time, results>>
  BY DEF RestoreHouseEvent, TypeOK, definition, timeline, guard
<1>2. house_events[next] \in Instruction
  BY <1>1 DEF TypeOK
<1>3. house' \in [HouseEvent -> BOOLEAN]
  BY <1>1, <1>2 DEF TypeOK, Instruction
<1> QED
  BY <1>1, <1>3 DEF TypeOK, Contexts

\* The values the variables hold are of their types, whatever the phases are: here
\* they may name house events any number of times.
THEOREM TypeCorrect == Spec => []TypeOK
<1>1. Init => TypeOK
  BY TimeAssumption DEF Init, TypeOK, Contexts
<1>2. TypeOK /\ [Next]_vars => TypeOK'
  <2> SUFFICES ASSUME TypeOK, [Next]_vars PROVE TypeOK'
    OBVIOUS
  <2>1. ASSUME EnterPlain PROVE TypeOK'
    BY <2>1 DEF EnterPlain, TypeOK, Contexts, definition, timeline
  <2>2. ASSUME NEW p \in Phase, EnterPhase(p) PROVE TypeOK'
    <3>1. fraction[p] \in 1 .. Whole /\ model_time \in Nat
      BY TimeAssumption DEF TypeOK
    <3>2. model_time' \in Nat
      BY <2>2, <3>1, ScaledType DEF EnterPhase
    <3> QED
      BY <2>2, <3>2 DEF EnterPhase, TypeOK, Contexts, definition, timeline
  <2>3. ASSUME PhaseApplied PROVE TypeOK'
    BY <2>3 DEF PhaseApplied, TypeOK, Contexts, definition, timeline, guard
  <2>4. ASSUME NEW t \in Target, AnalyzeTarget(t) PROVE TypeOK'
    BY <2>4 DEF AnalyzeTarget, TypeOK, Contexts, definition, timeline, guard
  <2>5. ASSUME TimelinePoint \/ TimelineEnd PROVE TypeOK'
    BY <2>5, TimeAssumption DEF TimelinePoint, TimelineEnd, TypeOK, Contexts, definition,
       timeline, guard
  <2>6. ASSUME LeaveContext \/ Restored \/ Return PROVE TypeOK'
    BY <2>6 DEF LeaveContext, Restored, Return, TypeOK, Contexts, definition, timeline, guard
  <2>7. ASSUME UNCHANGED vars PROVE TypeOK'
    BY <2>7 DEF vars, TypeOK, Contexts, definition, timeline, guard
  <2> QED
    BY SetHouseEventType, RestoreHouseEventType, <2>1, <2>2, <2>3, <2>4, <2>5, <2>6, <2>7
       DEF Next, Step, Terminated
<1> QED
  BY <1>1, <1>2, PTL DEF Spec

=============================================================================
