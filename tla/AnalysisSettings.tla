--------------------------- MODULE AnalysisSettings -------------------------
(***************************************************************************)
(* The analysis settings: the builder Settings of src/settings.h, and its  *)
(* only two clients, Project (src/project.cc), which applies the options   *)
(* of a project file in their document order, and ConstructSettings of     *)
(* src/scram.cc, which then applies the command line in an order of its    *)
(* own.  Setters check, refuse and change other settings, so that what an  *)
(* analysis gets in the end depends on the order of the calls.             *)
(*                                                                         *)
(* A step is one call of a setter, or the decision that there is no call   *)
(* because the option is not given.  Options that only have a range        *)
(* (limits on orders, trials, seeds...) are one option, valid or not.      *)
(***************************************************************************)
EXTENDS Sequences, Integers

VARIABLES
  settings,  \* the fields of Settings that constrain each other
  stage,     \* how many options have been dealt with
  asked,     \* what the command line asked for, by option
  status     \* "building", "ready", "refused" (SettingsError), "terminated" (std::terminate)

vars == <<settings, stage, asked, status>>

Algorithms == {"bdd", "zbdd", "mocus"}
Approximations == {"none", "rare-event", "mcub"}
Absent == "absent"
TimeSteps == {"zero", "positive"}   \* zero disables the step

\* project.rng fixes the order of the options; the attributes of "analysis" come last.
ProjectOptions == <<"algorithm", "prime-implicants", "approximation", "limits", "time-step",
                    "probability", "importance", "uncertainty", "sil">>

\* Mutant: the approximation is set before the algorithm that gives it a default.
CommandLineApproximationFirst ==
  <<"approximation", "algorithm", "prime-implicants", "time-step", "sil",
    "probability", "importance", "uncertainty", "limits">>

CommandLineOptions ==
  <<"algorithm", "prime-implicants", "approximation", "time-step", "sil",
    "probability", "importance", "uncertainty", "limits">>

\* All of them in turn.
Turns == Len(ProjectOptions) + Len(CommandLineOptions)
Option(turn) ==
  IF turn <= Len(ProjectOptions) THEN ProjectOptions[turn]
                                 ELSE CommandLineOptions[turn - Len(ProjectOptions)]
FromCommandLine == stage >= Len(ProjectOptions)

\* The next option has this name.
Due(option) == status = "building" /\ stage < Turns /\ Option(stage + 1) = option

Advance(option, value) ==
  /\ stage' = stage + 1
  /\ asked' = IF FromCommandLine THEN [asked EXCEPT ![option] = value] ELSE asked
Set(s) == settings' = s /\ status' = "building"
Refuse == settings' = settings /\ status' = "refused"

-----------------------------------------------------------------------------
\* The setters.

\* Settings::approximation(value) throws; the new value otherwise.
ApproximationThrows(s, value) == value # "none" /\ s.prime_implicants

\* Mutant: the flag is kept, but the approximation is not reset.
WithPrimeImplicantsOnly(s) == [s EXCEPT !.prime_implicants = TRUE]

\* prime_implicants(true) resets the approximation.
WithPrimeImplicants(s) == [s EXCEPT !.prime_implicants = TRUE, !.approximation = "none"]

\* What the algorithms other than BDD need; the exception of approximation() does not
\* leave algorithm(), which is noexcept: the program ends.
SetDefaultApproximation(s, value) ==
  IF s.approximation = "none"
    THEN IF ApproximationThrows(s, "rare-event")
           THEN settings' = [s EXCEPT !.algorithm = value] /\ status' = "terminated"
           ELSE Set([s EXCEPT !.algorithm = value, !.approximation = "rare-event",
                              !.prime_implicants = FALSE])
    ELSE Set([s EXCEPT !.algorithm = value, !.prime_implicants = FALSE])

SetAlgorithm(value) ==
  /\ Due("algorithm")
  /\ Advance("algorithm", value)
  /\ IF value = "bdd" THEN Set([settings EXCEPT !.algorithm = value, !.approximation = "none"])
                      ELSE SetDefaultApproximation(settings, value)

SetPrimeImplicants(flag) ==
  /\ Due("prime-implicants")
  /\ flag \/ FromCommandLine   \* a project file can only ask for them
  /\ Advance("prime-implicants", flag)
  /\ IF ~flag THEN Set([settings EXCEPT !.prime_implicants = FALSE])
     ELSE IF settings.algorithm # "bdd" THEN Refuse
     ELSE Set(WithPrimeImplicants(settings))

SetApproximation(value) ==
  /\ Due("approximation")
  /\ Advance("approximation", value)
  /\ IF ApproximationThrows(settings, value) THEN Refuse
     ELSE Set([settings EXCEPT !.approximation = value])

SetTimeStep(time) ==
  /\ Due("time-step")
  /\ Advance("time-step", time)
  /\ IF time = "zero" /\ settings.sil THEN Refuse ELSE Set([settings EXCEPT !.time_step = time])

SetLimit(valid) ==
  /\ Due("limits")
  /\ Advance("limits", Absent)
  /\ IF valid THEN Set(settings) ELSE Refuse

SetSil(flag) ==
  /\ Due("sil")
  /\ Advance("sil", flag)
  /\ IF flag /\ settings.time_step = "zero" THEN Refuse
     ELSE Set([settings EXCEPT !.sil = flag, !.probability = @ \/ flag])

\* Mutant: the other analyses are not asked whether they need probabilities.
ProbabilityAlwaysFree(s) == TRUE

ProbabilityIsFree(s) == ~s.importance /\ ~s.uncertainty /\ ~s.sil

SetProbability(flag) ==
  /\ Due("probability")
  /\ Advance("probability", flag)
  /\ Set([settings EXCEPT !.probability = IF ProbabilityIsFree(settings) THEN flag ELSE @])

SetImportance(flag) ==
  /\ Due("importance")
  /\ Advance("importance", flag)
  /\ Set([settings EXCEPT !.importance = flag, !.probability = @ \/ flag])

SetUncertainty(flag) ==
  /\ Due("uncertainty")
  /\ Advance("uncertainty", flag)
  /\ Set([settings EXCEPT !.uncertainty = flag, !.probability = @ \/ flag])

\* An option that is not given makes no call.  On the command line the flags are
\* passed on whether they are given or not.
Flags == {"prime-implicants", "sil", "probability", "importance", "uncertainty"}
Skip(option) ==
  /\ Due(option)
  /\ FromCommandLine => option \notin Flags
  /\ stage' = stage + 1
  /\ UNCHANGED <<settings, asked, status>>

\* All options are there: the analysis begins.
Finish ==
  /\ status = "building" /\ stage = Turns
  /\ status' = "ready"
  /\ UNCHANGED <<settings, stage, asked>>

Terminated == status \in {"ready", "refused", "terminated"} /\ UNCHANGED vars

Init ==
  /\ settings = [algorithm |-> "bdd", prime_implicants |-> FALSE, approximation |-> "none",
                 time_step |-> "zero", sil |-> FALSE, probability |-> FALSE,
                 importance |-> FALSE, uncertainty |-> FALSE]
  \* Without a project file the command line is all there is.
  /\ stage \in {0, Len(ProjectOptions)}
  /\ asked = [option \in {Option(turn) : turn \in 1 .. Turns} |-> Absent]
  /\ status = "building"

Next ==
  \/ \E value \in Algorithms : SetAlgorithm(value)
  \/ \E flag \in BOOLEAN : SetPrimeImplicants(flag)
  \/ \E value \in Approximations \ {"none"} : SetApproximation(value)
  \/ \E time \in TimeSteps : SetTimeStep(time)
  \/ \E valid \in BOOLEAN : SetLimit(valid)
  \/ \E flag \in BOOLEAN : SetSil(flag) \/ SetProbability(flag) \/ SetImportance(flag) \/ SetUncertainty(flag)
  \/ \E option \in DOMAIN asked : Skip(option)
  \/ Finish
  \/ Terminated

Spec == Init /\ [][Next]_vars

-----------------------------------------------------------------------------
Settings ==
  [algorithm : Algorithms, prime_implicants : BOOLEAN, approximation : Approximations,
   time_step : TimeSteps, sil : BOOLEAN, probability : BOOLEAN,
   importance : BOOLEAN, uncertainty : BOOLEAN]

TypeOK ==
  /\ settings \in Settings
  /\ stage \in 0 .. Turns
  /\ status \in {"building", "ready", "refused", "terminated"}

\* The settings agree with each other after every call, whatever came before it
\* ("Analysis facilities are guaranteed not to throw or fail with an instance of
\* this class", src/settings.h:42): prime implicants are only for exact
\* calculations with BDD, the other algorithms have an approximation, what
\* is derived from probabilities has them, and SIL has points in time.
Consistent ==
  status # "terminated" =>
    /\ settings.prime_implicants =>
         settings.algorithm = "bdd" /\ settings.approximation = "none"
    /\ settings.algorithm # "bdd" => settings.approximation # "none"
    /\ settings.importance \/ settings.uncertainty \/ settings.sil => settings.probability
    /\ settings.sil => settings.time_step # "zero"

\* What the command line asks for is what the analysis gets, or it does not begin:
\* no later setter of ConstructSettings takes an earlier one back, whatever the
\* project file has set before ("Command-line settings overwrite the settings
\* from the configurations", src/scram.cc:260).
CommandLineIsObeyed ==
  status = "ready" =>
    /\ asked["algorithm"] \in {Absent, settings.algorithm}
    /\ asked["approximation"] \in {Absent, settings.approximation}
    /\ asked["time-step"] \in {Absent, settings.time_step}
    /\ asked["prime-implicants"] = settings.prime_implicants
    /\ asked["sil"] = settings.sil
    /\ asked["importance"] = settings.importance
    /\ asked["uncertainty"] = settings.uncertainty
    /\ asked["probability"] => settings.probability

\* The errors of all calls are reported as errors: Settings::algorithm lists no
\* exception and does not end the program (src/settings.h:55-65), and main
\* "@returns 1 for errored state" (src/scram.cc:342).
ErrorsAreReported == status # "terminated"
=============================================================================
