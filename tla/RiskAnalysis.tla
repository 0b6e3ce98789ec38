---------------------------- MODULE RiskAnalysis ----------------------------
(***************************************************************************)
(* RiskAnalysis::Analyze and RunAnalysis (src/risk_analysis.cc): the whole *)
(* model is analysed once per phase of every alignment.  A phase scales    *)
(* the mission time and sets house events in the one shared mef::Model; a  *)
(* scope guard puts the model back before the next phase begins.  While a  *)
(* target is analysed the mission time may run from 0 to the end once more *)
(* (ProbabilityAnalyzerBase::CalculateProbabilityOverTime).                *)
(*                                                                         *)
(* The order of phases and of targets is that of hash tables in the code   *)
(* and is left open here.  What an analysis computes is abstracted to the  *)
(* mission time and the house states that it saw.                          *)
(***************************************************************************)
EXTENDS Integers, Sequences

CONSTANTS
  HouseEvent,  \* house events of the model
  Phase,       \* the phases an alignment of the model may have
  NoContext,   \* the context of a model without alignments
  Target,      \* sequences of event trees and top gates of fault trees
  Programs,    \* the instruction lists a phase may have
  Fractions,   \* the time fractions a phase may have, in parts of Whole
  Whole,       \* the parts a mission is divided into
  InitTime,    \* the mission time of the settings, a multiple of Whole
  TimeSteps    \* steps of the probability timeline; 0 turns it off

Instruction == [event : HouseEvent, state : BOOLEAN]

ASSUME ProgramAssumption == Programs \subseteq Seq(Instruction)
ASSUME TimeAssumption ==
  /\ Whole \in Nat \ {0} /\ InitTime \in Nat /\ TimeSteps \subseteq Nat
  /\ Fractions \subseteq 1 .. Whole
ASSUME ContextAssumption == NoContext \notin Phase

VARIABLES
  phases,                  \* the phases of all alignments; {} without alignments
  instructions, fraction,  \* the phases as the input file defines them
  init_house,              \* the house states as the input file defines them
  time_step,               \* the time step of the settings
  model_time,              \* mef::Model::mission_time
  settings_time,           \* mission_time of the settings RiskAnalysis holds
  house,                   \* the states of the house events in the model
  pending,                 \* contexts still to run
  context,                 \* the context being run
  init_time,               \* mission time captured by the scope guard
  house_events,            \* the (event, state) entries of the scope guard
  next,                    \* position in the loop over instructions or entries
  todo,                    \* targets left in this context
  clock, total_time,       \* the timeline of the target being analysed
  results,                 \* what each analysis of a target saw
  pc

definition == <<phases, instructions, fraction, init_house, time_step>>
guard == <<init_time, house_events>>
timeline == <<clock, total_time>>
vars == <<definition, model_time, settings_time, house, pending, context, guard,
          next, todo, timeline, results, pc>>

Contexts == IF phases = {} THEN {NoContext} ELSE phases
Scaled(f, time) == (f * time) \div Whole

Init ==
  /\ phases \in SUBSET Phase
  /\ instructions \in [Phase -> Programs]
  /\ fraction \in [Phase -> Fractions]
  /\ init_house \in [HouseEvent -> BOOLEAN]
  /\ time_step \in TimeSteps
  /\ model_time = InitTime /\ settings_time = InitTime
  /\ house = init_house
  /\ pending = Contexts /\ context = NoContext
  /\ init_time = InitTime /\ house_events = <<>>
  /\ next = 1 /\ todo = {}
  /\ clock = 0 /\ total_time = 0
  /\ results = {}
  /\ pc = "idle"

-----------------------------------------------------------------------------
\* RunAnalysis() without a context leaves the model as it is.
EnterPlain ==
  /\ pc = "idle" /\ NoContext \in pending
  /\ pending' = pending \ {NoContext} /\ context' = NoContext
  /\ init_time' = model_time /\ house_events' = <<>>
  /\ todo' = Target
  /\ pc' = "run"
  /\ UNCHANGED <<definition, model_time, settings_time, house, next, timeline, results>>

\* RunAnalysis(Context{alignment, phase}): the guard is armed and the mission
\* time becomes the fraction of it that the phase takes.
EnterPhase(p) ==
  /\ pc = "idle" /\ p \in pending
  /\ pending' = pending \ {p} /\ context' = p
  /\ init_time' = model_time /\ house_events' = <<>>
  /\ model_time' = Scaled(fraction[p], model_time)
  /\ settings_time' = model_time'
  /\ next' = 1 /\ todo' = Target
  /\ pc' = "apply"
  /\ UNCHANGED <<definition, house, timeline, results>>

\* Mutant: the old state is recorded after the new one is set.
SetHouseEventLate ==
  /\ pc = "apply" /\ next <= Len(instructions[context])
  /\ LET i == instructions[context][next] IN
       IF house[i.event] = i.state THEN UNCHANGED <<house, house_events>>
       ELSE /\ house_events' = Append(house_events, i)
            /\ house' = [house EXCEPT ![i.event] = i.state]
  /\ next' = next + 1
  /\ UNCHANGED <<definition, model_time, settings_time, pending, context, init_time,
                 todo, timeline, results, pc>>

\* One set-house-event instruction; only a change of state is recorded.
SetHouseEvent ==
  /\ pc = "apply" /\ next <= Len(instructions[context])
  /\ LET i == instructions[context][next] IN
       IF house[i.event] = i.state THEN UNCHANGED <<house, house_events>>
       ELSE /\ house_events' = Append(house_events, [event |-> i.event, state |-> house[i.event]])
            /\ house' = [house EXCEPT ![i.event] = i.state]
  /\ next' = next + 1
  /\ UNCHANGED <<definition, model_time, settings_time, pending, context, init_time,
                 todo, timeline, results, pc>>

PhaseApplied ==
  /\ pc = "apply" /\ next > Len(instructions[context])
  /\ pc' = "run"
  /\ UNCHANGED <<definition, model_time, settings_time, house, pending, context, guard,
                 next, todo, timeline, results>>

\* A target is analysed under the current state of the model.  With a time step
\* its probability analysis goes on to the timeline.
AnalyzeTarget(t) ==
  /\ pc = "run" /\ t \in todo
  /\ todo' = todo \ {t}
  /\ results' = results \cup
       {[target |-> t, context |-> context, time |-> model_time,
         settings |-> settings_time, house |-> house]}
  /\ IF time_step = 0 THEN UNCHANGED <<timeline, pc>>
     ELSE clock' = 0 /\ total_time' = model_time /\ pc' = "timeline"
  /\ UNCHANGED <<definition, model_time, settings_time, house, pending, context, guard, next>>

\* Mutant: the points are one step early.
TimelinePointEarly ==
  /\ pc = "timeline" /\ clock < total_time
  /\ model_time' = clock - time_step
  /\ clock' = clock + time_step
  /\ UNCHANGED <<definition, settings_time, house, pending, context, guard, next, todo,
                 total_time, results, pc>>

TimelinePoint ==
  /\ pc = "timeline" /\ clock < total_time
  /\ model_time' = clock
  /\ clock' = clock + time_step
  /\ UNCHANGED <<definition, settings_time, house, pending, context, guard, next, todo,
                 total_time, results, pc>>

\* Mutant: the point at the end of the mission is taken for granted.
TimelineEndSkipped ==
  /\ pc = "timeline" /\ clock >= total_time
  /\ pc' = "run"
  /\ UNCHANGED <<definition, model_time, settings_time, house, pending, context, guard,
                 next, todo, timeline, results>>

\* The last point is the end of the mission, whether the step divides it or not.
TimelineEnd ==
  /\ pc = "timeline" /\ clock >= total_time
  /\ model_time' = total_time
  /\ pc' = "run"
  /\ UNCHANGED <<definition, settings_time, house, pending, context, guard, next, todo,
                 timeline, results>>

\* Mutant: the guard forgets that settings carry a mission time of their own.
LeaveModelOnly ==
  /\ pc = "run" /\ todo = {}
  /\ model_time' = init_time
  /\ next' = 1
  /\ pc' = "restore"
  /\ UNCHANGED <<definition, settings_time, house, pending, context, guard, todo, timeline,
                 results>>

\* The destructor of the scope guard: the mission times first ...
LeaveContext ==
  /\ pc = "run" /\ todo = {}
  /\ model_time' = init_time /\ settings_time' = init_time
  /\ next' = 1
  /\ pc' = "restore"
  /\ UNCHANGED <<definition, house, pending, context, guard, todo, timeline, results>>

\* ... then the recorded house events, in the order in which they were recorded.
RestoreHouseEvent ==
  /\ pc = "restore" /\ next <= Len(house_events)
  /\ house' = [house EXCEPT ![house_events[next].event] = house_events[next].state]
  /\ next' = next + 1
  /\ UNCHANGED <<definition, model_time, settings_time, pending, context, guard, todo,
                 timeline, results, pc>>

\* Mutant: the loop over phases ends with the first one.
RestoredEndsAnalysis ==
  /\ pc = "restore" /\ next > Len(house_events)
  /\ pc' = "idle"
  /\ pending' = {}
  /\ UNCHANGED <<definition, model_time, settings_time, house, context, guard, next, todo,
                 timeline, results>>

Restored ==
  /\ pc = "restore" /\ next > Len(house_events)
  /\ pc' = "idle"
  /\ UNCHANGED <<definition, model_time, settings_time, house, pending, context, guard, next,
                 todo, timeline, results>>

Return ==
  /\ pc = "idle" /\ pending = {}
  /\ pc' = "done"
  /\ UNCHANGED <<definition, model_time, settings_time, house, pending, context, guard, next,
                 todo, timeline, results>>

Terminated == pc = "done" /\ UNCHANGED vars

Step ==
  \/ EnterPlain \/ (\E p \in Phase : EnterPhase(p)) \/ SetHouseEvent \/ PhaseApplied
  \/ (\E t \in Target : AnalyzeTarget(t)) \/ TimelinePoint \/ TimelineEnd
  \/ LeaveContext \/ RestoreHouseEvent \/ Restored \/ Return

Next == Step \/ Terminated

Spec == Init /\ [][Next]_vars
\* Analyze is one sequential call: it keeps running until it returns.
FairSpec == Spec /\ WF_vars(Step)

-----------------------------------------------------------------------------
\* The values the variables may hold.
TypeOK ==
  /\ phases \in SUBSET Phase
  /\ instructions \in [Phase -> Programs]
  /\ fraction \in [Phase -> Fractions]
  /\ init_house \in [HouseEvent -> BOOLEAN]
  /\ time_step \in TimeSteps
  /\ model_time \in Nat /\ settings_time \in Nat /\ init_time \in Nat
  /\ house \in [HouseEvent -> BOOLEAN]
  /\ pending \subseteq Contexts /\ context \in Phase \cup {NoContext}
  /\ house_events \in Seq(Instruction)
  /\ next \in Nat \ {0}
  /\ todo \subseteq Target
  /\ clock \in Nat /\ total_time \in Nat
  /\ results \subseteq
       [target : Target, context : Phase \cup {NoContext}, time : Nat, settings : Nat,
        house : [HouseEvent -> BOOLEAN]]
  /\ pc \in {"idle", "apply", "run", "timeline", "restore", "done"}
  /\ pc = "apply" => context \in Phase

\* Between two contexts, and after the last, the model is what the input file
\* defines: "The model is restored to the original state" (risk_analysis.h:120).
ModelIsPristine ==
  pc \in {"idle", "done"} =>
    model_time = InitTime /\ settings_time = InitTime /\ house = init_house

\* The state that the instructions of a phase ask for, the last one winning.
Asked(p, h) ==
  LET sets == {i \in 1 .. Len(instructions[p]) : instructions[p][i].event = h}
  IN  IF sets = {} THEN init_house[h]
      ELSE instructions[p][CHOOSE i \in sets : \A j \in sets : j <= i].state

\* Every analysis sees its own phase applied to the original model and nothing
\* of any other phase or of an earlier timeline.
ResultsSeeOwnContext ==
  \A r \in results :
    IF r.context = NoContext
      THEN r.time = InitTime /\ r.settings = InitTime /\ r.house = init_house
      ELSE /\ r.time = Scaled(fraction[r.context], InitTime)
           /\ r.settings = r.time
           /\ \A h \in HouseEvent : r.house[h] = Asked(r.context, h)

\* Analyze returns, and by then every target has its result in every context.
EveryContextIsAnalyzed ==
  <>[](/\ pc = "done"
       /\ {<<r.target, r.context>> : r \in results} = Target \X Contexts)
=============================================================================
