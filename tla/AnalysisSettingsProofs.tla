---------------------- MODULE AnalysisSettingsProofs ------------------------
(***************************************************************************)
(* Proofs about AnalysisSettings.                                          *)
(***************************************************************************)
EXTENDS AnalysisSettings, SequenceTheorems, TLAPS

Names == {"algorithm", "prime-implicants", "approximation", "limits", "time-step",
          "probability", "importance", "uncertainty", "sil"}

LEMMA OptionsInTurn ==
  /\ Len(ProjectOptions) = 9 /\ Turns = 18
  /\ {Option(turn) : turn \in 1 .. Turns} = Names
  /\ \A n \in 0 .. 17 :
       /\ Option(n + 1) = "algorithm" => n \in {0, 9}
       /\ Option(n + 1) = "prime-implicants" => n \in {1, 10}
       /\ Option(n + 1) = "approximation" => n \in {2, 11}
       /\ Option(n + 1) = "limits" => n \in {3, 17}
       /\ Option(n + 1) = "time-step" => n \in {4, 12}
       /\ Option(n + 1) = "probability" => n \in {5, 14}
       /\ Option(n + 1) = "importance" => n \in {6, 15}
       /\ Option(n + 1) = "uncertainty" => n \in {7, 16}
       /\ Option(n + 1) = "sil" => n \in {8, 13}
<1>1. Len(ProjectOptions) = 9 /\ Len(CommandLineOptions) = 9 /\ Turns = 18
  BY DEF ProjectOptions, CommandLineOptions, Turns
<1>2. /\ Option(1) = "algorithm" /\ Option(2) = "prime-implicants"
      /\ Option(3) = "approximation" /\ Option(4) = "limits" /\ Option(5) = "time-step"
      /\ Option(6) = "probability" /\ Option(7) = "importance"
      /\ Option(8) = "uncertainty" /\ Option(9) = "sil"
  BY DEF Option, ProjectOptions
<1>3. /\ Option(10) = "algorithm" /\ Option(11) = "prime-implicants"
      /\ Option(12) = "approximation" /\ Option(13) = "time-step" /\ Option(14) = "sil"
      /\ Option(15) = "probability" /\ Option(16) = "importance"
      /\ Option(17) = "uncertainty" /\ Option(18) = "limits"
  BY <1>1 DEF Option, CommandLineOptions
<1>4. \A n \in 1 .. 18 : n \in 1 .. 9 \/ n \in 10 .. 18
  OBVIOUS
<1>5. \A n \in 1 .. 18 : Option(n) \in Names
  BY <1>2, <1>3 DEF Names
<1>6. \A name \in Names : \E n \in 1 .. 18 : Option(n) = name
  BY <1>2 DEF Names
<1>7. {Option(turn) : turn \in 1 .. Turns} = Names
  BY <1>1, <1>5, <1>6
<1>8. ASSUME NEW n \in 0 .. 17
      PROVE  /\ Option(n + 1) = "algorithm" => n \in {0, 9}
             /\ Option(n + 1) = "prime-implicants" => n \in {1, 10}
             /\ Option(n + 1) = "approximation" => n \in {2, 11}
             /\ Option(n + 1) = "limits" => n \in {3, 17}
             /\ Option(n + 1) = "time-step" => n \in {4, 12}
             /\ Option(n + 1) = "probability" => n \in {5, 14}
             /\ Option(n + 1) = "importance" => n \in {6, 15}
             /\ Option(n + 1) = "uncertainty" => n \in {7, 16}
             /\ Option(n + 1) = "sil" => n \in {8, 13}
  BY <1>2, <1>3
<1> QED
  BY <1>1, <1>7, <1>8

\* What the command line has asked for so far is set, and the rest is not asked for yet.
Obeyed ==
  /\ IF stage < 10 THEN asked["algorithm"] = Absent
                   ELSE asked["algorithm"] \in {Absent, settings.algorithm}
  /\ IF stage < 12 THEN asked["approximation"] = Absent
                   ELSE asked["approximation"] \in {Absent, settings.approximation}
  /\ IF stage < 13 THEN asked["time-step"] = Absent
                   ELSE asked["time-step"] \in {Absent, settings.time_step}
  /\ stage >= 11 => asked["prime-implicants"] = settings.prime_implicants
  /\ stage >= 14 => asked["sil"] = settings.sil
  /\ stage >= 15 => asked["probability"] \in {FALSE, settings.probability}
  /\ stage >= 16 => asked["importance"] = settings.importance
  /\ stage >= 17 => asked["uncertainty"] = settings.uncertainty

\* The inductive invariant.
IInv ==
  /\ TypeOK
  /\ DOMAIN asked = Names
  /\ Consistent
  /\ status \in {"building", "ready"} => Obeyed
  /\ status = "ready" => stage = 18

LEMMA InitHolds == Init => IInv
<1> SUFFICES ASSUME Init PROVE IInv
  OBVIOUS
<1>1. stage \in {0, 9} /\ asked = [option \in Names |-> Absent] /\ status = "building"
  BY OptionsInTurn DEF Init
<1>2. settings \in Settings
  BY DEF Init, Settings, Algorithms, Approximations, TimeSteps
<1>3. Consistent
  BY DEF Init, Consistent
<1>4. Obeyed
  <2>1. asked["algorithm"] = Absent /\ asked["approximation"] = Absent /\ asked["time-step"] = Absent
    BY <1>1 DEF Names
  <2>2. /\ stage < 10 /\ stage < 12 /\ stage < 13 /\ ~(stage >= 11) /\ ~(stage >= 14)
        /\ ~(stage >= 15) /\ ~(stage >= 16) /\ ~(stage >= 17)
    BY <1>1
  <2> QED
    BY <2>1, <2>2, Zenon DEF Obeyed
<1>5. TypeOK /\ DOMAIN asked = Names
  BY <1>1, <1>2, OptionsInTurn DEF TypeOK
<1> QED
  BY <1>1, <1>3, <1>4, <1>5 DEF IInv

\* What a call that is due finds, and what it leaves besides the settings.
LEMMA CallInTurn ==
  ASSUME IInv, NEW option, Due(option), NEW value, Advance(option, value)
  PROVE  /\ option \in Names /\ stage \in 0 .. 17 /\ Option(stage + 1) = option
         /\ stage' = stage + 1 /\ status = "building" /\ Obeyed /\ settings \in Settings
         /\ DOMAIN asked' = Names
         /\ stage >= 9 => asked'[option] = value
         /\ stage < 9 => asked' = asked
         /\ \A name \in Names \ {option} : asked'[name] = asked[name]
<1>1. stage \in 0 .. 17 /\ Option(stage + 1) = option
  BY OptionsInTurn DEF IInv, TypeOK, Due
<1>2. option \in Names
  BY <1>1, OptionsInTurn
<1>3. stage' = stage + 1
      /\ asked' = IF stage >= 9 THEN [asked EXCEPT ![option] = value] ELSE asked
  BY OptionsInTurn DEF Advance, FromCommandLine
<1>4. DOMAIN asked = Names /\ status = "building" /\ Obeyed /\ settings \in Settings
  BY DEF IInv, TypeOK, Due
<1> QED
  BY <1>1, <1>2, <1>3, <1>4
\* What is left to show of a call.
LEMMA CallKeeps ==
  ASSUME IInv, NEW option, Due(option), NEW value, Advance(option, value),
         settings' \in Settings, status' \in {"building", "refused", "terminated"},
         Consistent', status' = "building" => Obeyed'
  PROVE  IInv'
<1>1. stage \in 0 .. 17 /\ stage' = stage + 1 /\ DOMAIN asked' = Names
  BY CallInTurn
<1>2. stage' \in 0 .. Turns
  BY <1>1, OptionsInTurn
<1> QED
  BY <1>1, <1>2 DEF IInv, TypeOK

\* Before the command line nothing is asked for.
LEMMA ProjectFileKeepsObeyed ==
  ASSUME Obeyed, stage \in 0 .. 8, stage' = stage + 1, asked' = asked
  PROVE  Obeyed'
<1>1. asked["algorithm"] = Absent /\ asked["approximation"] = Absent /\ asked["time-step"] = Absent
  BY stage < 10, stage < 12, stage < 13 DEF Obeyed
<1>2. /\ stage' < 10 /\ stage' < 12 /\ stage' < 13 /\ ~(stage' >= 11) /\ ~(stage' >= 14)
      /\ ~(stage' >= 15) /\ ~(stage' >= 16) /\ ~(stage' >= 17)
  OBVIOUS
<1> QED
  BY <1>1, <1>2, Zenon DEF Obeyed

LEMMA SetAlgorithmKeeps ==
  ASSUME IInv, NEW value \in Algorithms, SetAlgorithm(value)
  PROVE  IInv'
<1>1. /\ Due("algorithm") /\ Advance("algorithm", value)
      /\ stage \in {0, 9} /\ stage' = stage + 1 /\ settings \in Settings /\ Obeyed
      /\ status = "building"
      /\ stage >= 9 => asked'["algorithm"] = value
      /\ stage < 9 => asked' = asked
      /\ \A name \in Names \ {"algorithm"} : asked'[name] = asked[name]
  BY CallInTurn, OptionsInTurn DEF SetAlgorithm
<1>2. settings' \in Settings /\ status' \in {"building", "terminated"} /\ settings'.algorithm = value
  BY <1>1 DEF SetAlgorithm, SetDefaultApproximation, Set, Settings, Approximations, Algorithms
<1>3. Consistent'
  <2>1. Consistent /\ status # "terminated"
    BY <1>1 DEF IInv
  <2>2. CASE value = "bdd"
    <3>1. settings' = [settings EXCEPT !.algorithm = value, !.approximation = "none"]
      BY <2>2 DEF SetAlgorithm, Set
    <3> QED
      BY <1>1, <2>1, <2>2, <3>1 DEF Consistent, Settings
  <2>3. CASE value # "bdd" /\ settings.approximation = "none" /\ settings.prime_implicants
    BY <1>1, <2>3 DEF SetAlgorithm, SetDefaultApproximation, ApproximationThrows, Consistent
  <2>4. CASE value # "bdd" /\ settings.approximation = "none" /\ ~settings.prime_implicants
    <3>1. settings' = [settings EXCEPT !.algorithm = value, !.approximation = "rare-event",
                                       !.prime_implicants = FALSE]
      BY <2>4 DEF SetAlgorithm, SetDefaultApproximation, ApproximationThrows, Set
    <3> QED
      BY <1>1, <2>1, <2>4, <3>1 DEF Consistent, Settings
  <2>5. CASE value # "bdd" /\ settings.approximation # "none"
    <3>1. settings' = [settings EXCEPT !.algorithm = value, !.prime_implicants = FALSE]
      BY <2>5 DEF SetAlgorithm, SetDefaultApproximation, Set
    <3> QED
      BY <1>1, <2>1, <2>5, <3>1 DEF Consistent, Settings
  <2> QED
    BY <2>2, <2>3, <2>4, <2>5
<1>4. Obeyed'
  <2>1. CASE stage = 0
    BY <1>1, <2>1, ProjectFileKeepsObeyed
  <2>2. CASE stage = 9
    <3>1. /\ asked'["algorithm"] = settings'.algorithm
          /\ asked'["approximation"] = Absent /\ asked'["time-step"] = Absent
      <4>1. asked["approximation"] = Absent /\ asked["time-step"] = Absent
        BY <1>1, <2>2 DEF Obeyed
      <4> QED
        BY <1>1, <1>2, <2>2, <4>1 DEF Names
    <3>2. /\ ~(stage' < 10) /\ stage' < 12 /\ stage' < 13 /\ ~(stage' >= 11) /\ ~(stage' >= 14)
          /\ ~(stage' >= 15) /\ ~(stage' >= 16) /\ ~(stage' >= 17)
      BY <1>1, <2>2
    <3> QED
      BY <3>1, <3>2, Zenon DEF Obeyed
  <2> QED
    BY <1>1, <2>1, <2>2
<1> QED
  BY <1>1, <1>2, <1>3, <1>4, CallKeeps

LEMMA SetPrimeImplicantsKeeps ==
  ASSUME IInv, NEW flag \in BOOLEAN, SetPrimeImplicants(flag)
  PROVE  IInv'
<1>1. /\ Due("prime-implicants") /\ Advance("prime-implicants", flag)
      /\ stage \in {1, 10} /\ stage' = stage + 1 /\ settings \in Settings /\ Obeyed
      /\ status = "building"
      /\ stage >= 9 => asked'["prime-implicants"] = flag
      /\ stage < 9 => asked' = asked
      /\ \A name \in Names \ {"prime-implicants"} : asked'[name] = asked[name]
  BY CallInTurn, OptionsInTurn DEF SetPrimeImplicants
<1>2. Consistent /\ status # "terminated"
  BY <1>1 DEF IInv
<1>3. /\ settings' \in Settings /\ Consistent' /\ settings'.algorithm = settings.algorithm
      /\ status' \in {"building", "refused"}
      /\ status' = "building" => settings'.prime_implicants = flag
  <2>1. CASE ~flag
    <3>1. settings' = [settings EXCEPT !.prime_implicants = FALSE] /\ status' = "building"
      BY <2>1 DEF SetPrimeImplicants, Set
    <3> QED
      BY <1>1, <1>2, <2>1, <3>1 DEF Consistent, Settings
  <2>2. CASE flag /\ settings.algorithm # "bdd"
    <3>1. settings' = settings /\ status' = "refused"
      BY <2>2 DEF SetPrimeImplicants, Refuse
    <3> QED
      BY <1>1, <1>2, <3>1 DEF Consistent
  <2>3. CASE flag /\ settings.algorithm = "bdd"
    <3>1. /\ settings' = [settings EXCEPT !.prime_implicants = TRUE, !.approximation = "none"]
          /\ status' = "building"
      BY <2>3 DEF SetPrimeImplicants, WithPrimeImplicants, Set
    <3> QED
      BY <1>1, <1>2, <2>3, <3>1 DEF Consistent, Settings, Approximations
  <2> QED
    BY <2>1, <2>2, <2>3
<1>4. ASSUME status' = "building" PROVE Obeyed'
  <2>1. CASE stage = 1
    BY <1>1, <2>1, ProjectFileKeepsObeyed
  <2>2. CASE stage = 10
    <3>1. /\ asked'["algorithm"] \in {Absent, settings'.algorithm}
          /\ asked'["approximation"] = Absent /\ asked'["time-step"] = Absent
          /\ asked'["prime-implicants"] = settings'.prime_implicants
      <4>1. /\ asked["algorithm"] \in {Absent, settings.algorithm}
            /\ asked["approximation"] = Absent /\ asked["time-step"] = Absent
        BY <1>1, <2>2 DEF Obeyed
      <4>2. /\ asked'["algorithm"] = asked["algorithm"]
            /\ asked'["approximation"] = asked["approximation"]
            /\ asked'["time-step"] = asked["time-step"]
            /\ asked'["prime-implicants"] = flag
        BY <1>1, <2>2 DEF Names
      <4> QED
        BY <1>3, <1>4, <4>1, <4>2
    <3>2. /\ ~(stage' < 10) /\ stage' < 12 /\ stage' < 13 /\ ~(stage' >= 14)
          /\ ~(stage' >= 15) /\ ~(stage' >= 16) /\ ~(stage' >= 17)
      BY <1>1, <2>2
    <3> QED
      BY <3>1, <3>2, Zenon DEF Obeyed
  <2> QED
    BY <1>1, <2>1, <2>2
<1> QED
  BY <1>1, <1>3, <1>4, CallKeeps

LEMMA SetApproximationKeeps ==
  ASSUME IInv, NEW value \in Approximations \ {"none"}, SetApproximation(value)
  PROVE  IInv'
<1>1. /\ Due("approximation") /\ Advance("approximation", value)
      /\ stage \in {2, 11} /\ stage' = stage + 1 /\ settings \in Settings /\ Obeyed
      /\ status = "building"
      /\ stage >= 9 => asked'["approximation"] = value
      /\ stage < 9 => asked' = asked
      /\ \A name \in Names \ {"approximation"} : asked'[name] = asked[name]
  BY CallInTurn, OptionsInTurn DEF SetApproximation
<1>2. Consistent /\ status # "terminated"
  BY <1>1 DEF IInv
<1>3. /\ settings' \in Settings /\ Consistent'
      /\ status' \in {"building", "refused"}
      /\ settings'.algorithm = settings.algorithm /\ settings'.prime_implicants = settings.prime_implicants
      /\ status' = "building" => settings'.approximation = value
  <2>1. CASE settings.prime_implicants
    <3>1. settings' = settings /\ status' = "refused"
      BY <2>1 DEF SetApproximation, ApproximationThrows, Refuse
    <3> QED
      BY <1>1, <1>2, <2>1, <3>1 DEF Consistent
  <2>2. CASE ~settings.prime_implicants
    <3>1. settings' = [settings EXCEPT !.approximation = value] /\ status' = "building"
      BY <2>2 DEF SetApproximation, ApproximationThrows, Set
    <3> QED
      BY <1>1, <1>2, <2>2, <3>1 DEF Consistent, Settings
  <2> QED
    BY <2>1, <2>2
<1>4. ASSUME status' = "building" PROVE Obeyed'
  <2>1. CASE stage = 2
    BY <1>1, <2>1, ProjectFileKeepsObeyed
  <2>2. CASE stage = 11
    <3>1. /\ asked'["algorithm"] \in {Absent, settings'.algorithm}
          /\ asked'["approximation"] \in {Absent, settings'.approximation}
          /\ asked'["time-step"] = Absent
          /\ asked'["prime-implicants"] = settings'.prime_implicants
      <4>0. /\ ~(stage < 10) /\ stage < 12 /\ stage < 13 /\ stage >= 11
            /\ ~(stage >= 14) /\ ~(stage >= 15) /\ ~(stage >= 16) /\ ~(stage >= 17)
        BY <2>2
      <4>1. /\ asked["algorithm"] \in {Absent, settings.algorithm}
            /\ asked["approximation"] = Absent
            /\ asked["time-step"] = Absent
            /\ asked["prime-implicants"] = settings.prime_implicants
        BY <1>1, <4>0, Zenon DEF Obeyed
      <4>2. /\ asked'["algorithm"] = asked["algorithm"]
            /\ asked'["time-step"] = asked["time-step"]
            /\ asked'["prime-implicants"] = asked["prime-implicants"]
            /\ asked'["approximation"] = value
        BY <1>1, <2>2 DEF Names
      <4> QED
        BY <1>3, <1>4, <4>1, <4>2
    <3>2. /\ ~(stage' < 10) /\ ~(stage' < 12) /\ stage' < 13 /\ stage' >= 11
          /\ ~(stage' >= 14) /\ ~(stage' >= 15) /\ ~(stage' >= 16) /\ ~(stage' >= 17)
      BY <1>1, <2>2
    <3> QED
      BY <3>1, <3>2, Zenon DEF Obeyed
  <2> QED
    BY <1>1, <2>1, <2>2
<1> QED
  BY <1>1, <1>3, <1>4, CallKeeps

LEMMA SetTimeStepKeeps ==
  ASSUME IInv, NEW time \in TimeSteps, SetTimeStep(time)
  PROVE  IInv'
<1>1. /\ Due("time-step") /\ Advance("time-step", time)
      /\ stage \in {4, 12} /\ stage' = stage + 1 /\ settings \in Settings /\ Obeyed
      /\ status = "building"
      /\ stage >= 9 => asked'["time-step"] = time
      /\ stage < 9 => asked' = asked
      /\ \A name \in Names \ {"time-step"} : asked'[name] = asked[name]
  BY CallInTurn, OptionsInTurn DEF SetTimeStep
<1>2. Consistent /\ status # "terminated"
  BY <1>1 DEF IInv
<1>3. /\ settings' \in Settings /\ Consistent'
      /\ status' \in {"building", "refused"}
      /\ settings'.algorithm = settings.algorithm /\ settings'.prime_implicants = settings.prime_implicants /\ settings'.approximation = settings.approximation
      /\ status' = "building" => settings'.time_step = time
  <2>1. CASE time = "zero" /\ settings.sil
    <3>1. settings' = settings /\ status' = "refused"
      BY <2>1 DEF SetTimeStep, Refuse
    <3> QED
      BY <1>1, <1>2, <2>1, <3>1 DEF Consistent
  <2>2. CASE ~(time = "zero" /\ settings.sil)
    <3>1. settings' = [settings EXCEPT !.time_step = time] /\ status' = "building"
      BY <2>2 DEF SetTimeStep, Set
    <3> QED
      BY <1>1, <1>2, <2>2, <3>1 DEF Consistent, Settings
  <2> QED
    BY <2>1, <2>2
<1>4. ASSUME status' = "building" PROVE Obeyed'
  <2>1. CASE stage = 4
    BY <1>1, <2>1, ProjectFileKeepsObeyed
  <2>2. CASE stage = 12
    <3>1. /\ asked'["algorithm"] \in {Absent, settings'.algorithm}
          /\ asked'["approximation"] \in {Absent, settings'.approximation}
          /\ asked'["time-step"] \in {Absent, settings'.time_step}
          /\ asked'["prime-implicants"] = settings'.prime_implicants
      <4>0. /\ ~(stage < 10) /\ ~(stage < 12) /\ stage < 13 /\ stage >= 11
            /\ ~(stage >= 14) /\ ~(stage >= 15) /\ ~(stage >= 16) /\ ~(stage >= 17)
        BY <2>2
      <4>1. /\ asked["algorithm"] \in {Absent, settings.algorithm}
            /\ asked["approximation"] \in {Absent, settings.approximation}
            /\ asked["time-step"] = Absent
            /\ asked["prime-implicants"] = settings.prime_implicants
        BY <1>1, <4>0, Zenon DEF Obeyed
      <4>2. /\ asked'["algorithm"] = asked["algorithm"]
            /\ asked'["approximation"] = asked["approximation"]
            /\ asked'["prime-implicants"] = asked["prime-implicants"]
            /\ asked'["time-step"] = time
        BY <1>1, <2>2 DEF Names
      <4> QED
        BY <1>3, <1>4, <4>1, <4>2
    <3>2. /\ ~(stage' < 10) /\ ~(stage' < 12) /\ ~(stage' < 13) /\ stage' >= 11
          /\ ~(stage' >= 14) /\ ~(stage' >= 15) /\ ~(stage' >= 16) /\ ~(stage' >= 17)
      BY <1>1, <2>2
    <3> QED
      BY <3>1, <3>2, Zenon DEF Obeyed
  <2> QED
    BY <1>1, <2>1, <2>2
<1> QED
  BY <1>1, <1>3, <1>4, CallKeeps

LEMMA SetSilKeeps ==
  ASSUME IInv, NEW flag \in BOOLEAN, SetSil(flag)
  PROVE  IInv'
<1>1. /\ Due("sil") /\ Advance("sil", flag)
      /\ stage \in {8, 13} /\ stage' = stage + 1 /\ settings \in Settings /\ Obeyed
      /\ status = "building"
      /\ stage >= 9 => asked'["sil"] = flag
      /\ stage < 9 => asked' = asked
      /\ \A name \in Names \ {"sil"} : asked'[name] = asked[name]
  BY CallInTurn, OptionsInTurn DEF SetSil
<1>2. Consistent /\ status # "terminated"
  BY <1>1 DEF IInv
<1>3. /\ settings' \in Settings /\ Consistent'
      /\ status' \in {"building", "refused"}
      /\ settings'.algorithm = settings.algorithm /\ settings'.prime_implicants = settings.prime_implicants /\ settings'.approximation = settings.approximation /\ settings'.time_step = settings.time_step
      /\ status' = "building" => settings'.sil = flag
  <2>1. CASE flag /\ settings.time_step = "zero"
    <3>1. settings' = settings /\ status' = "refused"
      BY <2>1 DEF SetSil, Refuse
    <3> QED
      BY <1>1, <1>2, <2>1, <3>1 DEF Consistent
  <2>2. CASE ~(flag /\ settings.time_step = "zero")
    <3>1. /\ settings' = [settings EXCEPT !.sil = flag, !.probability = @ \/ flag]
          /\ status' = "building"
      BY <2>2 DEF SetSil, Set
    <3> QED
      BY <1>1, <1>2, <2>2, <3>1 DEF Consistent, Settings
  <2> QED
    BY <2>1, <2>2
<1>4. ASSUME status' = "building" PROVE Obeyed'
  <2>1. CASE stage = 8
    BY <1>1, <2>1, ProjectFileKeepsObeyed
  <2>2. CASE stage = 13
    <3>1. /\ asked'["algorithm"] \in {Absent, settings'.algorithm}
          /\ asked'["approximation"] \in {Absent, settings'.approximation}
          /\ asked'["time-step"] \in {Absent, settings'.time_step}
          /\ asked'["prime-implicants"] = settings'.prime_implicants
          /\ asked'["sil"] = settings'.sil
      <4>0. /\ ~(stage < 10) /\ ~(stage < 12) /\ ~(stage < 13) /\ stage >= 11
            /\ ~(stage >= 14) /\ ~(stage >= 15) /\ ~(stage >= 16) /\ ~(stage >= 17)
        BY <2>2
      <4>1. /\ asked["algorithm"] \in {Absent, settings.algorithm}
            /\ asked["approximation"] \in {Absent, settings.approximation}
            /\ asked["time-step"] \in {Absent, settings.time_step}
            /\ asked["prime-implicants"] = settings.prime_implicants
        BY <1>1, <4>0, Zenon DEF Obeyed
      <4>2. /\ asked'["algorithm"] = asked["algorithm"]
            /\ asked'["approximation"] = asked["approximation"]
            /\ asked'["time-step"] = asked["time-step"]
            /\ asked'["prime-implicants"] = asked["prime-implicants"]
            /\ asked'["sil"] = flag
        BY <1>1, <2>2 DEF Names
      <4> QED
        BY <1>3, <1>4, <4>1, <4>2
    <3>2. /\ ~(stage' < 10) /\ ~(stage' < 12) /\ ~(stage' < 13) /\ stage' >= 11
          /\ stage' >= 14 /\ ~(stage' >= 15) /\ ~(stage' >= 16) /\ ~(stage' >= 17)
      BY <1>1, <2>2
    <3> QED
      BY <3>1, <3>2, Zenon DEF Obeyed
  <2> QED
    BY <1>1, <2>1, <2>2
<1> QED
  BY <1>1, <1>3, <1>4, CallKeeps

LEMMA SetProbabilityKeeps ==
  ASSUME IInv, NEW flag \in BOOLEAN, SetProbability(flag)
  PROVE  IInv'
<1>1. /\ Due("probability") /\ Advance("probability", flag)
      /\ stage \in {5, 14} /\ stage' = stage + 1 /\ settings \in Settings /\ Obeyed
      /\ status = "building"
      /\ stage >= 9 => asked'["probability"] = flag
      /\ stage < 9 => asked' = asked
      /\ \A name \in Names \ {"probability"} : asked'[name] = asked[name]
  BY CallInTurn, OptionsInTurn DEF SetProbability
<1>2. Consistent /\ status # "terminated"
  BY <1>1 DEF IInv
<1>3. /\ settings' \in Settings /\ Consistent'
      /\ status' \in {"building", "refused"}
      /\ settings'.algorithm = settings.algorithm /\ settings'.prime_implicants = settings.prime_implicants /\ settings'.approximation = settings.approximation /\ settings'.time_step = settings.time_step /\ settings'.sil = settings.sil
      /\ flag => settings'.probability
  <2>1. CASE ~ProbabilityIsFree(settings)
    <3>1. /\ settings' = [settings EXCEPT !.probability = settings.probability]
          /\ status' = "building"
      BY <2>1 DEF SetProbability, Set
    <3> QED
      BY <1>1, <1>2, <2>1, <3>1 DEF Consistent, Settings, ProbabilityIsFree
  <2>2. CASE ProbabilityIsFree(settings)
    <3>1. settings' = [settings EXCEPT !.probability = flag] /\ status' = "building"
      BY <2>2 DEF SetProbability, Set
    <3> QED
      BY <1>1, <1>2, <2>2, <3>1 DEF Consistent, Settings, ProbabilityIsFree
  <2> QED
    BY <2>1, <2>2
<1>4. ASSUME status' = "building" PROVE Obeyed'
  <2>1. CASE stage = 5
    BY <1>1, <2>1, ProjectFileKeepsObeyed
  <2>2. CASE stage = 14
    <3>1. /\ asked'["algorithm"] \in {Absent, settings'.algorithm}
          /\ asked'["approximation"] \in {Absent, settings'.approximation}
          /\ asked'["time-step"] \in {Absent, settings'.time_step}
          /\ asked'["prime-implicants"] = settings'.prime_implicants
          /\ asked'["sil"] = settings'.sil
          /\ asked'["probability"] \in {FALSE, settings'.probability}
      <4>0. /\ ~(stage < 10) /\ ~(stage < 12) /\ ~(stage < 13) /\ stage >= 11
            /\ stage >= 14 /\ ~(stage >= 15) /\ ~(stage >= 16) /\ ~(stage >= 17)
        BY <2>2
      <4>1. /\ asked["algorithm"] \in {Absent, settings.algorithm}
            /\ asked["approximation"] \in {Absent, settings.approximation}
            /\ asked["time-step"] \in {Absent, settings.time_step}
            /\ asked["prime-implicants"] = settings.prime_implicants
            /\ asked["sil"] = settings.sil
        BY <1>1, <4>0, Zenon DEF Obeyed
      <4>2. /\ asked'["algorithm"] = asked["algorithm"]
            /\ asked'["approximation"] = asked["approximation"]
            /\ asked'["time-step"] = asked["time-step"]
            /\ asked'["prime-implicants"] = asked["prime-implicants"]
            /\ asked'["sil"] = asked["sil"]
            /\ asked'["probability"] = flag
        BY <1>1, <2>2 DEF Names
      <4> QED
        BY <1>3, <1>4, <4>1, <4>2
    <3>2. /\ ~(stage' < 10) /\ ~(stage' < 12) /\ ~(stage' < 13) /\ stage' >= 11
          /\ stage' >= 14 /\ stage' >= 15 /\ ~(stage' >= 16) /\ ~(stage' >= 17)
      BY <1>1, <2>2
    <3> QED
      BY <3>1, <3>2, Zenon DEF Obeyed
  <2> QED
    BY <1>1, <2>1, <2>2
<1> QED
  BY <1>1, <1>3, <1>4, CallKeeps

LEMMA SetImportanceKeeps ==
  ASSUME IInv, NEW flag \in BOOLEAN, SetImportance(flag)
  PROVE  IInv'
<1>1. /\ Due("importance") /\ Advance("importance", flag)
      /\ stage \in {6, 15} /\ stage' = stage + 1 /\ settings \in Settings /\ Obeyed
      /\ status = "building"
      /\ stage >= 9 => asked'["importance"] = flag
      /\ stage < 9 => asked' = asked
      /\ \A name \in Names \ {"importance"} : asked'[name] = asked[name]
  BY CallInTurn, OptionsInTurn DEF SetImportance
<1>2. Consistent /\ status # "terminated"
  BY <1>1 DEF IInv
<1>3. /\ settings' \in Settings /\ Consistent'
      /\ status' \in {"building", "refused"}
      /\ settings'.algorithm = settings.algorithm /\ settings'.prime_implicants = settings.prime_implicants /\ settings'.approximation = settings.approximation /\ settings'.time_step = settings.time_step /\ settings'.sil = settings.sil
      /\ settings'.importance = flag
      /\ settings'.probability \in {TRUE, settings.probability}
  <2>1. /\ settings' = [settings EXCEPT !.importance = flag, !.probability = @ \/ flag]
        /\ status' = "building"
    BY <1>1 DEF SetImportance, Set
  <2> QED
    BY <1>1, <1>2, <2>1 DEF Consistent, Settings
<1>4. ASSUME status' = "building" PROVE Obeyed'
  <2>1. CASE stage = 6
    BY <1>1, <2>1, ProjectFileKeepsObeyed
  <2>2. CASE stage = 15
    <3>1. /\ asked'["algorithm"] \in {Absent, settings'.algorithm}
          /\ asked'["approximation"] \in {Absent, settings'.approximation}
          /\ asked'["time-step"] \in {Absent, settings'.time_step}
          /\ asked'["prime-implicants"] = settings'.prime_implicants
          /\ asked'["sil"] = settings'.sil
          /\ asked'["probability"] \in {FALSE, settings'.probability}
          /\ asked'["importance"] = settings'.importance
      <4>0. /\ ~(stage < 10) /\ ~(stage < 12) /\ ~(stage < 13) /\ stage >= 11
            /\ stage >= 14 /\ stage >= 15 /\ ~(stage >= 16) /\ ~(stage >= 17)
        BY <2>2
      <4>1. /\ asked["algorithm"] \in {Absent, settings.algorithm}
            /\ asked["approximation"] \in {Absent, settings.approximation}
            /\ asked["time-step"] \in {Absent, settings.time_step}
            /\ asked["prime-implicants"] = settings.prime_implicants
            /\ asked["sil"] = settings.sil
            /\ asked["probability"] \in {FALSE, settings.probability}
        BY <1>1, <4>0, Zenon DEF Obeyed
      <4>2. /\ asked'["algorithm"] = asked["algorithm"]
            /\ asked'["approximation"] = asked["approximation"]
            /\ asked'["time-step"] = asked["time-step"]
            /\ asked'["prime-implicants"] = asked["prime-implicants"]
            /\ asked'["sil"] = asked["sil"]
            /\ asked'["probability"] = asked["probability"]
            /\ asked'["importance"] = flag
        BY <1>1, <2>2 DEF Names
      <4>3. settings.probability \in BOOLEAN
        BY <1>1 DEF Settings
      <4>4. asked'["probability"] \in {FALSE, settings'.probability}
        BY <1>3, <4>1, <4>2, <4>3
      <4> QED
        BY <1>3, <1>4, <4>1, <4>2, <4>4
    <3>2. /\ ~(stage' < 10) /\ ~(stage' < 12) /\ ~(stage' < 13) /\ stage' >= 11
          /\ stage' >= 14 /\ stage' >= 15 /\ stage' >= 16 /\ ~(stage' >= 17)
      BY <1>1, <2>2
    <3> QED
      BY <3>1, <3>2, Zenon DEF Obeyed
  <2> QED
    BY <1>1, <2>1, <2>2
<1> QED
  BY <1>1, <1>3, <1>4, CallKeeps

LEMMA SetUncertaintyKeeps ==
  ASSUME IInv, NEW flag \in BOOLEAN, SetUncertainty(flag)
  PROVE  IInv'
<1>1. /\ Due("uncertainty") /\ Advance("uncertainty", flag)
      /\ stage \in {7, 16} /\ stage' = stage + 1 /\ settings \in Settings /\ Obeyed
      /\ status = "building"
      /\ stage >= 9 => asked'["uncertainty"] = flag
      /\ stage < 9 => asked' = asked
      /\ \A name \in Names \ {"uncertainty"} : asked'[name] = asked[name]
  BY CallInTurn, OptionsInTurn DEF SetUncertainty
<1>2. Consistent /\ status # "terminated"
  BY <1>1 DEF IInv
<1>3. /\ settings' \in Settings /\ Consistent'
      /\ status' \in {"building", "refused"}
      /\ settings'.algorithm = settings.algorithm /\ settings'.prime_implicants = settings.prime_implicants /\ settings'.approximation = settings.approximation /\ settings'.time_step = settings.time_step /\ settings'.sil = settings.sil /\ settings'.importance = settings.importance
      /\ settings'.uncertainty = flag
      /\ settings'.probability \in {TRUE, settings.probability}
  <2>1. /\ settings' = [settings EXCEPT !.uncertainty = flag, !.probability = @ \/ flag]
        /\ status' = "building"
    BY <1>1 DEF SetUncertainty, Set
  <2> QED
    BY <1>1, <1>2, <2>1 DEF Consistent, Settings
<1>4. ASSUME status' = "building" PROVE Obeyed'
  <2>1. CASE stage = 7
    BY <1>1, <2>1, ProjectFileKeepsObeyed
  <2>2. CASE stage = 16
    <3>1. /\ asked'["algorithm"] \in {Absent, settings'.algorithm}
          /\ asked'["approximation"] \in {Absent, settings'.approximation}
          /\ asked'["time-step"] \in {Absent, settings'.time_step}
          /\ asked'["prime-implicants"] = settings'.prime_implicants
          /\ asked'["sil"] = settings'.sil
          /\ asked'["probability"] \in {FALSE, settings'.probability}
          /\ asked'["importance"] = settings'.importance
          /\ asked'["uncertainty"] = settings'.uncertainty
      <4>0. /\ ~(stage < 10) /\ ~(stage < 12) /\ ~(stage < 13) /\ stage >= 11
            /\ stage >= 14 /\ stage >= 15 /\ stage >= 16 /\ ~(stage >= 17)
        BY <2>2
      <4>1. /\ asked["algorithm"] \in {Absent, settings.algorithm}
            /\ asked["approximation"] \in {Absent, settings.approximation}
            /\ asked["time-step"] \in {Absent, settings.time_step}
            /\ asked["prime-implicants"] = settings.prime_implicants
            /\ asked["sil"] = settings.sil
            /\ asked["probability"] \in {FALSE, settings.probability}
            /\ asked["importance"] = settings.importance
        BY <1>1, <4>0, Zenon DEF Obeyed
      <4>2. /\ asked'["algorithm"] = asked["algorithm"]
            /\ asked'["approximation"] = asked["approximation"]
            /\ asked'["time-step"] = asked["time-step"]
            /\ asked'["prime-implicants"] = asked["prime-implicants"]
            /\ asked'["sil"] = asked["sil"]
            /\ asked'["probability"] = asked["probability"]
            /\ asked'["importance"] = asked["importance"]
            /\ asked'["uncertainty"] = flag
        BY <1>1, <2>2 DEF Names
      <4>3. settings.probability \in BOOLEAN
        BY <1>1 DEF Settings
      <4>4. asked'["probability"] \in {FALSE, settings'.probability}
        BY <1>3, <4>1, <4>2, <4>3
      <4> QED
        BY <1>3, <1>4, <4>1, <4>2, <4>4
    <3>2. /\ ~(stage' < 10) /\ ~(stage' < 12) /\ ~(stage' < 13) /\ stage' >= 11
          /\ stage' >= 14 /\ stage' >= 15 /\ stage' >= 16 /\ stage' >= 17
      BY <1>1, <2>2
    <3> QED
      BY <3>1, <3>2, Zenon DEF Obeyed
  <2> QED
    BY <1>1, <2>1, <2>2
<1> QED
  BY <1>1, <1>3, <1>4, CallKeeps

LEMMA SetLimitKeeps ==
  ASSUME IInv, NEW valid \in BOOLEAN, SetLimit(valid)
  PROVE  IInv'
<1>1. /\ Due("limits") /\ Advance("limits", Absent)
      /\ stage \in {3, 17} /\ stage' = stage + 1 /\ settings \in Settings /\ Obeyed
      /\ status = "building"
      /\ stage >= 9 => asked'["limits"] = Absent
      /\ stage < 9 => asked' = asked
      /\ \A name \in Names \ {"limits"} : asked'[name] = asked[name]
  BY CallInTurn, OptionsInTurn DEF SetLimit
<1>2. Consistent /\ status # "terminated"
  BY <1>1 DEF IInv
<1>3. /\ settings' \in Settings /\ Consistent'
      /\ status' \in {"building", "refused"}
      /\ settings' = settings
  <2>1. settings' = settings /\ status' \in {"building", "refused"}
    BY <1>1 DEF SetLimit, Set, Refuse
  <2> QED
    BY <1>1, <1>2, <2>1 DEF Consistent
<1>4. ASSUME status' = "building" PROVE Obeyed'
  <2>1. CASE stage = 3
    BY <1>1, <2>1, ProjectFileKeepsObeyed
  <2>2. CASE stage = 17
    <3>1. /\ asked'["algorithm"] \in {Absent, settings'.algorithm}
          /\ asked'["approximation"] \in {Absent, settings'.approximation}
          /\ asked'["time-step"] \in {Absent, settings'.time_step}
          /\ asked'["prime-implicants"] = settings'.prime_implicants
          /\ asked'["sil"] = settings'.sil
          /\ asked'["probability"] \in {FALSE, settings'.probability}
          /\ asked'["importance"] = settings'.importance
          /\ asked'["uncertainty"] = settings'.uncertainty
      <4>0. /\ ~(stage < 10) /\ ~(stage < 12) /\ ~(stage < 13) /\ stage >= 11
            /\ stage >= 14 /\ stage >= 15 /\ stage >= 16 /\ stage >= 17
        BY <2>2
      <4>1. /\ asked["algorithm"] \in {Absent, settings.algorithm}
            /\ asked["approximation"] \in {Absent, settings.approximation}
            /\ asked["time-step"] \in {Absent, settings.time_step}
            /\ asked["prime-implicants"] = settings.prime_implicants
            /\ asked["sil"] = settings.sil
            /\ asked["probability"] \in {FALSE, settings.probability}
            /\ asked["importance"] = settings.importance
            /\ asked["uncertainty"] = settings.uncertainty
        BY <1>1, <4>0, Zenon DEF Obeyed
      <4>2. /\ asked'["algorithm"] = asked["algorithm"]
            /\ asked'["approximation"] = asked["approximation"]
            /\ asked'["time-step"] = asked["time-step"]
            /\ asked'["prime-implicants"] = asked["prime-implicants"]
            /\ asked'["sil"] = asked["sil"]
            /\ asked'["probability"] = asked["probability"]
            /\ asked'["importance"] = asked["importance"]
            /\ asked'["uncertainty"] = asked["uncertainty"]
        BY <1>1, <2>2 DEF Names
      <4> QED
        BY <1>3, <1>4, <4>1, <4>2
    <3>2. /\ ~(stage' < 10) /\ ~(stage' < 12) /\ ~(stage' < 13) /\ stage' >= 11
          /\ stage' >= 14 /\ stage' >= 15 /\ stage' >= 16 /\ stage' >= 17
      BY <1>1, <2>2
    <3> QED
      BY <3>1, <3>2, Zenon DEF Obeyed
  <2> QED
    BY <1>1, <2>1, <2>2
<1> QED
  BY <1>1, <1>3, <1>4, CallKeeps

\* An option that is not given; on the command line that is no flag.
LEMMA SkipKeepsObeyed ==
  ASSUME IInv, NEW option, Skip(option)
  PROVE  Obeyed'
<1>1. /\ stage \in 0 .. 17 /\ Option(stage + 1) = option /\ Obeyed
      /\ stage >= 9 => option \notin Flags
      /\ stage' = stage + 1 /\ settings' = settings /\ asked' = asked
  BY OptionsInTurn DEF Skip, Due, IInv, TypeOK, FromCommandLine
<1>2. CASE stage \in 0 .. 8
  BY <1>1, <1>2, ProjectFileKeepsObeyed
<1>3. CASE stage = 9
  <2>1. /\ stage < 10 /\ stage < 12 /\ stage < 13 /\ ~(stage >= 11)
        /\ ~(stage >= 14) /\ ~(stage >= 15) /\ ~(stage >= 16) /\ ~(stage >= 17)
    BY <1>3
  <2>2. /\ asked["algorithm"] = Absent
        /\ asked["approximation"] = Absent
        /\ asked["time-step"] = Absent
    BY <1>1, <2>1, Zenon DEF Obeyed
  <2>3. /\ ~(stage' < 10) /\ stage' < 12 /\ stage' < 13 /\ ~(stage' >= 11)
        /\ ~(stage' >= 14) /\ ~(stage' >= 15) /\ ~(stage' >= 16) /\ ~(stage' >= 17)
    BY <1>1, <1>3
  <2>4. /\ asked'["algorithm"] \in {Absent, settings'.algorithm}
        /\ asked'["approximation"] = Absent
        /\ asked'["time-step"] = Absent
    BY <1>1, <2>2, Zenon
  <2> QED
    BY <2>3, <2>4, Zenon DEF Obeyed
<1>4. CASE stage = 11
  <2>1. /\ ~(stage < 10) /\ stage < 12 /\ stage < 13 /\ stage >= 11
        /\ ~(stage >= 14) /\ ~(stage >= 15) /\ ~(stage >= 16) /\ ~(stage >= 17)
    BY <1>4
  <2>2. /\ asked["algorithm"] \in {Absent, settings.algorithm}
        /\ asked["approximation"] = Absent
        /\ asked["time-step"] = Absent
        /\ asked["prime-implicants"] = settings.prime_implicants
    BY <1>1, <2>1, Zenon DEF Obeyed
  <2>3. /\ ~(stage' < 10) /\ ~(stage' < 12) /\ stage' < 13 /\ stage' >= 11
        /\ ~(stage' >= 14) /\ ~(stage' >= 15) /\ ~(stage' >= 16) /\ ~(stage' >= 17)
    BY <1>1, <1>4
  <2>4. /\ asked'["algorithm"] \in {Absent, settings'.algorithm}
        /\ asked'["approximation"] \in {Absent, settings'.approximation}
        /\ asked'["time-step"] = Absent
        /\ asked'["prime-implicants"] = settings'.prime_implicants
    BY <1>1, <2>2, Zenon
  <2> QED
    BY <2>3, <2>4, Zenon DEF Obeyed
<1>5. CASE stage = 12
  <2>1. /\ ~(stage < 10) /\ ~(stage < 12) /\ stage < 13 /\ stage >= 11
        /\ ~(stage >= 14) /\ ~(stage >= 15) /\ ~(stage >= 16) /\ ~(stage >= 17)
    BY <1>5
  <2>2. /\ asked["algorithm"] \in {Absent, settings.algorithm}
        /\ asked["approximation"] \in {Absent, settings.approximation}
        /\ asked["time-step"] = Absent
        /\ asked["prime-implicants"] = settings.prime_implicants
    BY <1>1, <2>1, Zenon DEF Obeyed
  <2>3. /\ ~(stage' < 10) /\ ~(stage' < 12) /\ ~(stage' < 13) /\ stage' >= 11
        /\ ~(stage' >= 14) /\ ~(stage' >= 15) /\ ~(stage' >= 16) /\ ~(stage' >= 17)
    BY <1>1, <1>5
  <2>4. /\ asked'["algorithm"] \in {Absent, settings'.algorithm}
        /\ asked'["approximation"] \in {Absent, settings'.approximation}
        /\ asked'["time-step"] \in {Absent, settings'.time_step}
        /\ asked'["prime-implicants"] = settings'.prime_implicants
    BY <1>1, <2>2, Zenon
  <2> QED
    BY <2>3, <2>4, Zenon DEF Obeyed
<1>6. CASE stage = 17
  <2>1. /\ ~(stage < 10) /\ ~(stage < 12) /\ ~(stage < 13) /\ stage >= 11
        /\ stage >= 14 /\ stage >= 15 /\ stage >= 16 /\ stage >= 17
    BY <1>6
  <2>2. /\ asked["algorithm"] \in {Absent, settings.algorithm}
        /\ asked["approximation"] \in {Absent, settings.approximation}
        /\ asked["time-step"] \in {Absent, settings.time_step}
        /\ asked["prime-implicants"] = settings.prime_implicants
        /\ asked["sil"] = settings.sil
        /\ asked["probability"] \in {FALSE, settings.probability}
        /\ asked["importance"] = settings.importance
        /\ asked["uncertainty"] = settings.uncertainty
    BY <1>1, <2>1, Zenon DEF Obeyed
  <2>3. /\ ~(stage' < 10) /\ ~(stage' < 12) /\ ~(stage' < 13) /\ stage' >= 11
        /\ stage' >= 14 /\ stage' >= 15 /\ stage' >= 16 /\ stage' >= 17
    BY <1>1, <1>6
  <2>4. /\ asked'["algorithm"] \in {Absent, settings'.algorithm}
        /\ asked'["approximation"] \in {Absent, settings'.approximation}
        /\ asked'["time-step"] \in {Absent, settings'.time_step}
        /\ asked'["prime-implicants"] = settings'.prime_implicants
        /\ asked'["sil"] = settings'.sil
        /\ asked'["probability"] \in {FALSE, settings'.probability}
        /\ asked'["importance"] = settings'.importance
        /\ asked'["uncertainty"] = settings'.uncertainty
    BY <1>1, <2>2, Zenon
  <2> QED
    BY <2>3, <2>4, Zenon DEF Obeyed
<1>7. stage \in 0 .. 8 \/ stage = 9 \/ stage = 11 \/ stage = 12 \/ stage = 17
  <2>1. ASSUME stage \in {10, 13, 14, 15, 16} PROVE FALSE
    <3>1. /\ Option(11) = "prime-implicants" /\ Option(14) = "sil" /\ Option(15) = "probability"
          /\ Option(16) = "importance" /\ Option(17) = "uncertainty"
      BY OptionsInTurn DEF Option, CommandLineOptions
    <3>2. option \in Flags
      BY <1>1, <2>1, <3>1 DEF Flags
    <3> QED
      BY <1>1, <2>1, <3>2
  <2> QED
    BY <1>1, <2>1
<1> QED
  BY <1>2, <1>3, <1>4, <1>5, <1>6, <1>7

LEMMA NextKeeps ==
  ASSUME IInv, [Next]_vars
  PROVE  IInv'
<1>1. CASE \E value \in Algorithms : SetAlgorithm(value)
  BY <1>1, SetAlgorithmKeeps
<1>2. CASE \E flag \in BOOLEAN : SetPrimeImplicants(flag)
  BY <1>2, SetPrimeImplicantsKeeps
<1>3. CASE \E value \in Approximations \ {"none"} : SetApproximation(value)
  BY <1>3, SetApproximationKeeps
<1>4. CASE \E time \in TimeSteps : SetTimeStep(time)
  BY <1>4, SetTimeStepKeeps
<1>5. CASE \E valid \in BOOLEAN : SetLimit(valid)
  BY <1>5, SetLimitKeeps
<1>6. CASE \E flag \in BOOLEAN :
             SetSil(flag) \/ SetProbability(flag) \/ SetImportance(flag) \/ SetUncertainty(flag)
  BY <1>6, SetSilKeeps, SetProbabilityKeeps, SetImportanceKeeps, SetUncertaintyKeeps
<1>7. CASE \E option \in DOMAIN asked : Skip(option)
  <2> PICK option \in DOMAIN asked : Skip(option)
    BY <1>7
  <2>1. /\ stage \in 0 .. 17 /\ stage' = stage + 1 /\ status = "building" /\ Consistent
        /\ UNCHANGED <<settings, asked, status>>
    BY OptionsInTurn DEF Skip, Due, IInv, TypeOK
  <2>2. stage' \in 0 .. Turns
    BY <2>1, OptionsInTurn
  <2>3. Consistent'
    BY <2>1 DEF Consistent
  <2> QED
    BY <2>1, <2>2, <2>3, SkipKeepsObeyed DEF IInv, TypeOK
<1>8. CASE Finish
  <2>1. status = "building" /\ stage = 18 /\ status' = "ready" /\ UNCHANGED <<settings, stage, asked>>
    BY <1>8, OptionsInTurn DEF Finish
  <2>2. Consistent' /\ Obeyed'
    BY <2>1 DEF IInv, Consistent, Obeyed
  <2> QED
    BY <2>1, <2>2 DEF IInv, TypeOK
<1>9. CASE UNCHANGED vars
  <2>1. Consistent' /\ (status \in {"building", "ready"} => Obeyed')
    BY <1>9 DEF IInv, Consistent, Obeyed, vars
  <2> QED
    BY <1>9, <2>1 DEF IInv, TypeOK, vars
<1> QED
  BY <1>1, <1>2, <1>3, <1>4, <1>5, <1>6, <1>7, <1>8, <1>9 DEF Next, Terminated

LEMMA InductiveInvariant == Spec => []IInv
  BY InitHolds, NextKeeps, PTL DEF Spec

\* TypeOK in every behaviour.
THEOREM TypeCorrect == Spec => []TypeOK
<1>1. IInv => TypeOK
  BY DEF IInv
<1> QED
  BY <1>1, InductiveInvariant, PTL

\* Whatever calls Project and ConstructSettings make, in their orders, the settings
\* agree with each other after every one of them (src/settings.h).
THEOREM ConsistencyCorrect == Spec => []Consistent
<1>1. IInv => Consistent
  BY DEF IInv
<1> QED
  BY <1>1, InductiveInvariant, PTL

\* Whatever the project file has set, ConstructSettings of src/scram.cc leaves every
\* option as the command line asks for it, or the analysis does not begin.
THEOREM CommandLineCorrect == Spec => []CommandLineIsObeyed
<1>1. ASSUME IInv, status = "ready" PROVE CommandLineIsObeyed
  <2>1. /\ ~(stage < 10) /\ ~(stage < 12) /\ ~(stage < 13) /\ stage >= 11
        /\ stage >= 14 /\ stage >= 15 /\ stage >= 16 /\ stage >= 17
    BY <1>1 DEF IInv
  <2>2. /\ asked["algorithm"] \in {Absent, settings.algorithm}
        /\ asked["approximation"] \in {Absent, settings.approximation}
        /\ asked["time-step"] \in {Absent, settings.time_step}
        /\ asked["prime-implicants"] = settings.prime_implicants
        /\ asked["sil"] = settings.sil
        /\ asked["probability"] \in {FALSE, settings.probability}
        /\ asked["importance"] = settings.importance
        /\ asked["uncertainty"] = settings.uncertainty
    BY <1>1, <2>1, Zenon DEF IInv, Obeyed
  <2>3. asked["probability"] => settings.probability
    BY <2>2, Zenon
  <2> QED
    BY <2>2, <2>3, Zenon DEF CommandLineIsObeyed
<1>2. IInv => CommandLineIsObeyed
  BY <1>1 DEF CommandLineIsObeyed
<1> QED
  BY <1>2, InductiveInvariant, PTL
=============================================================================
