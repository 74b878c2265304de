---------------------------- MODULE V2PairProofs ----------------------------
(* Proofs about V2Pair, and about V1Pair, which extends it, for any         *)
(* executions of the arms, without bound on their number nor on the deaths  *)
(* of processes.                                                            *)
EXTENDS V1Pair, TLAPS

Executed == {ArmRun(a, run) : a \in Arms, run \in Executions}

ArmDir == [files : Nat, report : Nat \cup {Torn}, patch : Nat]
PairDir == [archive : [Arms -> Nat], report : {"none", "ready", "blocked", "torn"},
            summary : {"none", "eligible", "ineligible"}]
Scorecard == [written : BOOLEAN, completed : BOOLEAN, uplift : BOOLEAN]
EvalDir ==
  [logs : [Arms -> Nat],
   report : [decision : {"none", "torn", "blocked", "outcome_label_ready",
                         "pending_or_failed", "ready_pending_official_eval"},
             passed : BOOLEAN, completed : BOOLEAN],
   scorecard : Scorecard]

\* What an orchestrator and an evaluation hold while they work.
Assembling == [pc : {"loaded", "copied"}, arms : [Arms -> ArmDir]]
Evaluating == [pc : {"control", "treatment", "ran"}, run : BOOLEAN, ack : BOOLEAN,
               pair : PairDir, failed : BOOLEAN, predicted : BOOLEAN]

Typed == /\ ex \in Seq(Executed)
         /\ preflight \in {"none", "ready", "blocked"}
         /\ arms \in [Arms -> ArmDir]
         /\ live \in {Idle} \cup [pc : {"ran", "filed"}, arm : Arms]
         /\ pair \in PairDir
         /\ orch \in {Idle} \cup Assembling \cup [pc : {"reported"}, eligible : BOOLEAN]
         /\ oe \in EvalDir
         /\ eval \in {Idle} \cup Evaluating \cup [pc : {"reported"}, scorecard : Scorecard]

\* A report that can be read is of a run of its arm, as are the files beside it
\* and the patch.
ArmsAreWhole ==
  \A a \in Arms :
     /\ arms[a].report \notin {0, Torn} =>
           /\ arms[a].report \in 1..Len(ex)
           /\ arms[a].files = arms[a].report
           /\ ex[arms[a].report].arm = a
     /\ arms[a].patch # 0 => arms[a].patch = arms[a].report

\* The treatment is in: from here on no arm is cleared but through clear_pair.
TreatmentIn == arms["treatment"].report # 0 /\ arm_complete("treatment")

\* While an arm runs, nothing that comes after it is there or under way.
LiveIsAlone ==
  live # Idle =>
    /\ arms[live.arm].report = 0 /\ arms["treatment"].report = 0
    /\ pair.report = "none" /\ orch \notin Assembling
    /\ ex # << >> /\ ex[Len(ex)].arm = live.arm
    /\ live.pc = "filed" => arms[live.arm].files = Len(ex)

\* The arms do not change under an orchestrator that has read them.
OrchIsCurrent ==
  orch \in Assembling =>
    /\ pair.report = "none" /\ TreatmentIn
    /\ \A a \in Arms : /\ orch.arms[a].report = arms[a].report
                       /\ orch.arms[a].files = arms[a].files

ArchiveIsOfArms ==
  \A a \in Arms : pair.archive[a] # 0 => TreatmentIn /\ pair.archive[a] = arms[a].report

\* A pair is ready when its arms can be compared.
ReadyIsSound ==
  pair.report = "ready" =>
    \A a \in Arms : /\ pair.archive[a] # 0
                    /\ Run(arms[a].report).completed /\ Run(arms[a].report).generated
                    /\ \A b \in Arms : Run(arms[a].report).replay = Run(arms[b].report).replay

\* An evaluation is of the pair that is ready, and of its archive.
EvalIsOfPair ==
  /\ eval # Idle \/ oe # NoEval => pair.report = "ready"
  /\ eval \in Evaluating => eval.pair.archive = pair.archive /\ oe.report.decision = "none"
  /\ \A a \in Arms : oe.logs[a] \in {0, pair.archive[a]}

AllLogged == \A a \in Arms : oe.logs[a] # 0

CompletedIsLogged ==
  /\ oe.report.decision = "outcome_label_ready" => AllLogged
  /\ oe.scorecard.completed => AllLogged
  /\ eval.pc = "reported" /\ eval.scorecard.completed => AllLogged

PairInv == /\ Typed /\ ArmsAreWhole /\ LiveIsAlone /\ OrchIsCurrent
           /\ ArchiveIsOfArms /\ ReadyIsSound /\ EvalIsOfPair /\ CompletedIsLogged

-----------------------------------------------------------------------------
(* The states in which something may happen                                *)

LEMMA StateFacts ==
  ASSUME Typed
  PROVE  /\ infer_pair_state \in {"pending", "failed_preflight", "awaiting_control_authorization",
              "failed_control", "awaiting_treatment_authorization"} =>
               /\ oe.report.decision = "none" /\ pair.report = "none"
               /\ arms["treatment"].report = 0
         /\ infer_pair_state = "awaiting_control_authorization" => arms["control"].report = 0
         /\ infer_pair_state = "failed_control" => arms["control"].report # 0
         /\ infer_pair_state = "failed_treatment" =>
               /\ oe.report.decision = "none" /\ pair.report = "none"
               /\ arms["treatment"].report # 0 /\ ~arm_complete("treatment")
         /\ infer_pair_state = "treatment_complete" =>
               oe.report.decision = "none" /\ pair.report = "none" /\ TreatmentIn
         /\ infer_pair_state = "failed_pair_assembly" =>
               oe.report.decision = "none" /\ pair.report = "blocked"
         /\ infer_pair_state = "awaiting_official_eval_authorization" =>
               oe.report.decision = "none" /\ pair.report = "ready"
  BY SMTT(60) DEF infer_pair_state, official_eval_state, pair_state, arm_state, preflight_state,
         TreatmentIn, Typed, PairDir
-----------------------------------------------------------------------------
(* The invariant, action by action                                         *)

LEMMA InitPairInv == Init => PairInv
  BY DEF Init, PairInv, Typed, ArmsAreWhole, LiveIsAlone, OrchIsCurrent, ArchiveIsOfArms,
         ReadyIsSound, EvalIsOfPair, CompletedIsLogged, AllLogged, NoArm, NoPair, NoEval,
         Report, NoScorecard, Idle, Torn, ArmDir, PairDir, EvalDir, Scorecard, Assembling,
         Evaluating

\* An arm starts only where there is no treatment yet, so no pair either.
LEMMA LiveStartKeeps == ASSUME PairInv, NEW a \in Arms, live_start(a) PROVE PairInv'
<1>1. PICK run \in Executions : ex' = Append(ex, ArmRun(a, run))
  BY DEF live_start
<1> DEFINE e == ArmRun(a, run)
<1>2. e \in Executed /\ e.arm = a
  BY DEF Executed, ArmRun
<1>3. ex' = Append(ex, e)
  BY <1>1
<1> HIDE DEF e
<1>4. /\ ex' \in Seq(Executed) /\ Len(ex) \in Nat /\ Len(ex') = Len(ex) + 1 /\ ex' # << >>
      /\ ex'[Len(ex')] = e /\ \A n \in 1..Len(ex) : n \in 1..Len(ex') /\ ex'[n] = ex[n]
  BY <1>2, <1>3 DEF PairInv, Typed
<1>5. /\ pair.report = "none" /\ arms["treatment"].report = 0 /\ arms[a].report = 0
  BY StateFacts DEF PairInv, live_start, Arms
<1>6. UNCHANGED <<preflight, arms, pair, orch, oe, eval>> /\ live = Idle
      /\ live' = [pc |-> "ran", arm |-> a]
  BY DEF live_start, PairInv, Typed, Idle
<1>7. Typed'
  BY <1>4, <1>6 DEF PairInv, Typed
<1>8. ArmsAreWhole'
  BY <1>4, <1>6 DEF PairInv, ArmsAreWhole
<1>9. OrchIsCurrent' /\ orch \notin Assembling
  BY <1>5, <1>6 DEF PairInv, OrchIsCurrent, TreatmentIn
<1>10. LiveIsAlone'
  BY <1>2, <1>4, <1>5, <1>6, <1>9 DEF LiveIsAlone
<1>11. ArchiveIsOfArms'
  BY <1>5, <1>6 DEF PairInv, ArchiveIsOfArms, TreatmentIn
<1>12. ReadyIsSound'
  BY <1>5, <1>6 DEF ReadyIsSound
<1>13. EvalIsOfPair' /\ CompletedIsLogged'
  BY <1>6 DEF PairInv, EvalIsOfPair, CompletedIsLogged, AllLogged
<1>14. QED
  BY <1>7, <1>8, <1>9, <1>10, <1>11, <1>12, <1>13 DEF PairInv

\* What the arm writes is in nobody's way.
LEMMA LiveKeeps == ASSUME PairInv, live_files \/ live_report PROVE PairInv'
<1> DEFINE a == live.arm
<1>1. live # Idle /\ a \in Arms /\ live \in [pc : {"ran", "filed"}, arm : Arms]
  BY DEF PairInv, Typed, live_files, live_report, Idle
<1>2. /\ arms[a].report = 0 /\ arms["treatment"].report = 0
      /\ pair.report = "none" /\ orch \notin Assembling
      /\ ex # << >> /\ ex[Len(ex)].arm = a
      /\ live.pc = "filed" => arms[a].files = Len(ex)
  BY <1>1 DEF PairInv, LiveIsAlone
<1>3. arms[a] \in ArmDir /\ Len(ex) \in Nat /\ Len(ex) \in 1..Len(ex)
  BY <1>1, <1>2 DEF PairInv, Typed
<1>4. /\ UNCHANGED <<ex, preflight, pair, orch, oe, eval>>
      /\ \E dir \in ArmDir :
           /\ arms' = [arms EXCEPT ![a] = dir]
           /\ \/ /\ dir.report = 0 /\ dir.files = Len(ex) /\ dir.patch = arms[a].patch
                 /\ live' = [pc |-> "filed", arm |-> a]
              \/ dir.report = Torn /\ dir.patch = arms[a].patch /\ live' = Idle
              \/ /\ dir.report = Len(ex) /\ dir.files = Len(ex)
                 /\ dir.patch = arms[a].patch /\ live' = Idle
  <2>1. CASE live_files
    <3>1. [arms[a] EXCEPT !.files = Len(ex)] \in ArmDir
      BY <1>3 DEF ArmDir
    <3>2. arms' = [arms EXCEPT ![a] = [arms[a] EXCEPT !.files = Len(ex)]]
      BY <1>1, <2>1 DEF live_files, PairInv, Typed
    <3>3. QED
      BY <1>2, <1>3, <2>1, <3>1, <3>2 DEF live_files, ArmDir
  <2>2. CASE live_report
    <3>1. PICK cut \in BOOLEAN :
             /\ Write(cut, live', Idle)
             /\ arms' = [arms EXCEPT ![a].report = IF cut THEN Torn ELSE Len(ex)]
      BY <2>2 DEF live_report
    <3> DEFINE dir == [arms[a] EXCEPT !.report = IF cut THEN Torn ELSE Len(ex)]
    <3>2. dir \in ArmDir /\ dir.patch = arms[a].patch /\ dir.files = arms[a].files
          /\ dir.report = IF cut THEN Torn ELSE Len(ex)
      BY <1>3 DEF ArmDir
    <3>3. arms' = [arms EXCEPT ![a] = dir] /\ live' = Idle
      BY <1>1, <3>1 DEF Write, PairInv, Typed
    <3>4. live.pc = "filed"
      BY <2>2 DEF live_report
    <3> HIDE DEF dir
    <3>5. QED
      BY <1>2, <2>2, <3>2, <3>3, <3>4 DEF live_report
  <2>3. QED
    BY <2>1, <2>2
<1>5. PICK dir \in ArmDir :
           /\ arms' = [arms EXCEPT ![a] = dir]
           /\ \/ /\ dir.report = 0 /\ dir.files = Len(ex) /\ dir.patch = arms[a].patch
                 /\ live' = [pc |-> "filed", arm |-> a]
              \/ dir.report = Torn /\ dir.patch = arms[a].patch /\ live' = Idle
              \/ /\ dir.report = Len(ex) /\ dir.files = Len(ex)
                 /\ dir.patch = arms[a].patch /\ live' = Idle
  BY <1>4
<1>6. arms'[a] = dir /\ \A b \in Arms : b # a => arms'[b] = arms[b]
  BY <1>1, <1>5 DEF PairInv, Typed
<1>7. arms[a].patch = 0
  BY <1>1, <1>2 DEF PairInv, ArmsAreWhole
<1>8. Typed'
  BY <1>1, <1>4, <1>5 DEF PairInv, Typed
<1>9. ArmsAreWhole'
  BY <1>1, <1>2, <1>3, <1>4, <1>5, <1>6, <1>7 DEF PairInv, ArmsAreWhole
<1>10. LiveIsAlone'
  BY <1>1, <1>2, <1>4, <1>5, <1>6 DEF LiveIsAlone, Arms
<1>11. OrchIsCurrent'
  BY <1>2, <1>4 DEF OrchIsCurrent
<1>12. ArchiveIsOfArms' /\ ReadyIsSound'
  BY <1>2, <1>4 DEF PairInv, ArchiveIsOfArms, TreatmentIn, ReadyIsSound
<1>13. EvalIsOfPair' /\ CompletedIsLogged'
  BY <1>4 DEF PairInv, EvalIsOfPair, CompletedIsLogged, AllLogged
<1>14. QED
  BY <1>8, <1>9, <1>10, <1>11, <1>12, <1>13 DEF PairInv

LEMMA PreflightKeeps == ASSUME PairInv, run_preflight PROVE PairInv'
<1>1. UNCHANGED <<ex, arms, live, pair, orch, oe, eval>>
      /\ preflight' \in {"none", "ready", "blocked"}
  BY DEF run_preflight
<1>2. Typed'
  BY <1>1 DEF PairInv, Typed
<1>3. QED
  BY <1>1, <1>2 DEF PairInv, ArmsAreWhole, LiveIsAlone, OrchIsCurrent, ArchiveIsOfArms,
     ReadyIsSound, EvalIsOfPair, CompletedIsLogged, AllLogged, TreatmentIn, arm_complete, Run

\* The patch that is archived is of the execution the arm reports.
LEMMA ArchivePatchKeeps == ASSUME PairInv, NEW a \in Arms, archive_patch(a) PROVE PairInv'
<1> DEFINE dir == [arms[a] EXCEPT !.patch = arms[a].report]
<1>1. UNCHANGED <<ex, preflight, live, pair, orch, oe, eval>> /\ arms[a].report \notin {0, Torn}
  BY DEF archive_patch
<1>2. /\ dir \in ArmDir /\ dir.patch = arms[a].report
      /\ dir.report = arms[a].report /\ dir.files = arms[a].files
  BY <1>1 DEF PairInv, Typed, ArmDir
<1>3. arms' = [arms EXCEPT ![a] = dir]
  BY DEF archive_patch, PairInv, Typed
<1> HIDE DEF dir
<1>4. Typed'
  BY <1>1, <1>2, <1>3 DEF PairInv, Typed
<1>5. \A b \in Arms : /\ arms'[b].report = arms[b].report /\ arms'[b].files = arms[b].files
                      /\ arms'[b].patch \in {arms[b].patch, arms[b].report}
  BY <1>2, <1>3 DEF PairInv, Typed
<1>6. ArmsAreWhole'
  BY <1>1, <1>5 DEF PairInv, ArmsAreWhole
<1>7. TreatmentIn' <=> TreatmentIn
  BY <1>1, <1>5 DEF TreatmentIn, arm_complete, Run, Arms
<1>8. LiveIsAlone'
  BY <1>1, <1>5 DEF PairInv, Typed, LiveIsAlone, Arms, Idle
<1>9. OrchIsCurrent' /\ ArchiveIsOfArms' /\ ReadyIsSound'
  BY <1>1, <1>5, <1>7 DEF PairInv, OrchIsCurrent, ArchiveIsOfArms, ReadyIsSound, Run
<1>10. EvalIsOfPair' /\ CompletedIsLogged'
  BY <1>1 DEF PairInv, EvalIsOfPair, CompletedIsLogged, AllLogged
<1>11. QED
  BY <1>4, <1>6, <1>8, <1>9, <1>10 DEF PairInv

\* An arm is cleared where it failed: it is in nobody's hands.
LEMMA ClearArmKeeps == ASSUME PairInv, NEW a \in Arms, clear_arm(a) PROVE PairInv'
<1>1. UNCHANGED <<ex, preflight, live, pair, orch, oe, eval>> /\ arms' = [arms EXCEPT ![a] = NoArm]
  BY DEF clear_arm
<1>2. pair.report = "none" /\ ~TreatmentIn
  BY StateFacts DEF PairInv, clear_arm, Arms, TreatmentIn
<1>3. arms[a].report # 0
  BY StateFacts DEF PairInv, clear_arm, Arms
<1>4. NoArm \in ArmDir /\ NoArm.report = 0 /\ NoArm.patch = 0
  BY DEF NoArm, ArmDir
<1>5. Typed'
  BY <1>1, <1>4 DEF PairInv, Typed
<1>6. ArmsAreWhole'
  BY <1>1, <1>4 DEF PairInv, Typed, ArmsAreWhole
<1>7. LiveIsAlone' /\ OrchIsCurrent' /\ ReadyIsSound'
  <2>1. \A b \in Arms : arms'[b] = IF b = a THEN NoArm ELSE arms[b]
    BY <1>1 DEF PairInv, Typed
  <2>2. live # Idle => live.arm # a /\ live.arm \in Arms
    BY <1>3 DEF PairInv, Typed, LiveIsAlone
  <2>3. QED
    BY <1>1, <1>2, <1>4, <2>1, <2>2 DEF PairInv, LiveIsAlone, OrchIsCurrent, ReadyIsSound, Arms
<1>8. ArchiveIsOfArms'
  BY <1>1, <1>2 DEF PairInv, ArchiveIsOfArms
<1>9. EvalIsOfPair' /\ CompletedIsLogged'
  BY <1>1 DEF PairInv, EvalIsOfPair, CompletedIsLogged, AllLogged
<1>10. QED
  BY <1>5, <1>6, <1>7, <1>8, <1>9 DEF PairInv

\* A blocked pair is cleared as a whole, with the arms that are to run again.
LEMMA ClearPairKeeps == ASSUME PairInv, clear_pair PROVE PairInv'
<1>1. UNCHANGED <<ex, preflight, live, orch, oe, eval>> /\ pair' = NoPair
  BY DEF clear_pair
<1>2. PICK again \in {{}, {"treatment"}, Arms} :
         arms' = [a \in Arms |-> IF a \in again THEN NoArm ELSE arms[a]]
  BY DEF clear_pair
<1>3. pair.report = "blocked"
  BY StateFacts DEF PairInv, clear_pair
<1>4. /\ NoArm \in ArmDir /\ NoArm.report = 0 /\ NoArm.patch = 0
      /\ NoPair \in PairDir /\ \A a \in Arms : NoPair.archive[a] = 0
  BY DEF NoArm, ArmDir, NoPair, PairDir
<1>5. live = Idle /\ orch \notin Assembling /\ eval = Idle /\ oe = NoEval
  BY <1>3 DEF PairInv, LiveIsAlone, OrchIsCurrent, EvalIsOfPair
<1>6. Typed'
  BY <1>1, <1>2, <1>4 DEF PairInv, Typed
<1>7. ArmsAreWhole'
  BY <1>1, <1>2, <1>4 DEF PairInv, ArmsAreWhole
<1>8. LiveIsAlone' /\ OrchIsCurrent' /\ ArchiveIsOfArms'
  BY <1>1, <1>4, <1>5 DEF LiveIsAlone, OrchIsCurrent, ArchiveIsOfArms
<1>9. ReadyIsSound'
  BY <1>1 DEF ReadyIsSound, NoPair
<1>10. EvalIsOfPair' /\ CompletedIsLogged'
  BY <1>1, <1>4, <1>5 DEF PairInv, EvalIsOfPair, CompletedIsLogged, AllLogged, Evaluating,
     NoEval, NoScorecard, Report, Idle
<1>11. QED
  BY <1>6, <1>7, <1>8, <1>9, <1>10 DEF PairInv

LEMMA ClearEvalKeeps == ASSUME PairInv, clear_eval PROVE PairInv'
<1>1. UNCHANGED <<ex, preflight, arms, live, pair, orch, eval>> /\ oe' = NoEval /\ eval = Idle
  BY DEF clear_eval, PairInv, Typed, Evaluating, Idle
<1>2. NoEval \in EvalDir /\ \A a \in Arms : NoEval.logs[a] = 0
  BY DEF NoEval, EvalDir, Report, NoScorecard, Scorecard
<1>3. Typed'
  BY <1>1, <1>2 DEF PairInv, Typed
<1>4. EvalIsOfPair' /\ CompletedIsLogged'
  BY <1>1, <1>2 DEF PairInv, EvalIsOfPair, CompletedIsLogged, AllLogged, Evaluating,
     NoEval, NoScorecard, Report, Idle
<1>5. QED
  BY <1>1, <1>3, <1>4 DEF PairInv, ArmsAreWhole, LiveIsAlone, OrchIsCurrent, ArchiveIsOfArms,
     ReadyIsSound, TreatmentIn, arm_complete, Run

-----------------------------------------------------------------------------
(* The orchestrator                                                        *)

LEMMA AdvanceLoadKeeps == ASSUME PairInv, advance_load PROVE PairInv'
<1>1. UNCHANGED <<ex, preflight, arms, live, pair, oe, eval>>
      /\ orch' = [pc |-> "loaded", arms |-> arms]
  BY DEF advance_load
<1>2. pair.report = "none" /\ TreatmentIn
  BY StateFacts DEF PairInv, advance_load, assembles
<1>3. Typed'
  BY <1>1 DEF PairInv, Typed, Assembling
<1>4. live = Idle
  BY <1>2 DEF PairInv, LiveIsAlone, TreatmentIn
<1>5. OrchIsCurrent'
  BY <1>1, <1>2 DEF OrchIsCurrent, TreatmentIn, arm_complete, Run
<1>6. QED
  BY <1>1, <1>3, <1>4, <1>5 DEF PairInv, ArmsAreWhole, LiveIsAlone, ArchiveIsOfArms,
     ReadyIsSound, EvalIsOfPair, CompletedIsLogged, AllLogged, TreatmentIn, arm_complete, Run

\* What is copied is what the arms report, however old the reading is.
LEMMA AssembleCopyKeeps == ASSUME PairInv, assemble_copy PROVE PairInv'
<1> DEFINE archive == [a \in Arms |-> IF arms[a].patch # 0 THEN arms[a].patch
                                                           ELSE pair.archive[a]]
<1>1. /\ UNCHANGED <<ex, preflight, arms, live, oe, eval>>
      /\ pair' = [pair EXCEPT !.archive = archive]
      /\ orch' = [pc |-> "copied", arms |-> orch.arms]
  BY DEF assemble_copy
<1>2. orch \in Assembling
  BY DEF assemble_copy, PairInv, Typed, Idle
<1>3. pair.report = "none" /\ TreatmentIn
  BY <1>2 DEF PairInv, OrchIsCurrent
<1>4. archive \in [Arms -> Nat]
  BY DEF PairInv, Typed, ArmDir, PairDir
<1>5. \A a \in Arms : archive[a] # 0 => archive[a] = arms[a].report
  BY DEF PairInv, ArmsAreWhole, ArchiveIsOfArms
<1> HIDE DEF archive
<1>6. pair' \in PairDir /\ pair'.archive = archive /\ pair'.report = "none"
  BY <1>1, <1>3, <1>4 DEF PairInv, Typed, PairDir
<1>7. orch' \in Assembling /\ orch'.arms = orch.arms
  BY <1>1, <1>2 DEF Assembling
<1>8. Typed'
  BY <1>1, <1>6, <1>7 DEF PairInv, Typed
<1>9. live = Idle /\ eval = Idle /\ oe = NoEval
  BY <1>3 DEF PairInv, LiveIsAlone, TreatmentIn, EvalIsOfPair
<1>10. OrchIsCurrent'
  BY <1>1, <1>2, <1>3, <1>6, <1>7 DEF PairInv, OrchIsCurrent, TreatmentIn, arm_complete, Run
<1>11. ArchiveIsOfArms'
  BY <1>1, <1>3, <1>5, <1>6 DEF ArchiveIsOfArms, TreatmentIn, arm_complete, Run
<1>12. ArmsAreWhole' /\ LiveIsAlone' /\ ReadyIsSound'
  BY <1>1, <1>6, <1>9 DEF PairInv, ArmsAreWhole, LiveIsAlone, ReadyIsSound
<1>13. EvalIsOfPair' /\ CompletedIsLogged'
  BY <1>1, <1>9 DEF PairInv, EvalIsOfPair, CompletedIsLogged, AllLogged, NoEval, Evaluating, Idle
<1>14. QED
  BY <1>8, <1>10, <1>11, <1>12, <1>13 DEF PairInv

\* A pair is ready by its gates, which looked at the arms that are there.
LEMMA AssembleReportKeeps == ASSUME PairInv, assemble_report PROVE PairInv'
<1> DEFINE gates == pair_gates(orch.arms)
<1>1. UNCHANGED <<ex, preflight, arms, live, oe, eval>>
  BY DEF assemble_report
<1>2. orch \in Assembling
  BY DEF assemble_report, PairInv, Typed, Idle
<1>3. /\ pair.report = "none" /\ TreatmentIn
      /\ \A a \in Arms : orch.arms[a].report = arms[a].report /\ orch.arms[a].files = arms[a].files
  BY <1>2 DEF PairInv, OrchIsCurrent
<1>4. PICK cut \in BOOLEAN :
         /\ Write(cut, orch', [pc |-> "reported", eligible |-> assembled(gates) = "ready"])
         /\ pair' = [pair EXCEPT !.report = IF cut THEN "torn" ELSE assembled(gates)]
  BY DEF assemble_report
<1>5. orch' \in {Idle} \cup [pc : {"reported"}, eligible : BOOLEAN] /\ orch' \notin Assembling
  <2> DEFINE eligible == assembled(gates) = "ready"
  <2>1. eligible \in BOOLEAN
    OBVIOUS
  <2>2. Write(cut, orch', [pc |-> "reported", eligible |-> eligible])
    BY <1>4
  <2> HIDE DEF eligible
  <2>3. orch' = Idle \/ orch' = [pc |-> "reported", eligible |-> eligible]
    BY <2>2 DEF Write
  <2>4. QED
    BY <2>1, <2>3 DEF Idle, Assembling
<1>6. assembled(gates) \in {"ready", "blocked"} /\ (assembled(gates) = "ready" => gates)
  BY DEF assembled
<1>7. gates => \A a \in Arms :
         /\ arms[a].files # 0 /\ arms[a].report # 0 /\ pair.archive[a] # 0
         /\ Run(arms[a].report).completed /\ Run(arms[a].files).generated
         /\ \A b \in Arms : Run(arms[a].files).replay = Run(arms[b].files).replay
  BY <1>3 DEF pair_gates
<1> HIDE DEF gates
<1>8. /\ pair' \in PairDir /\ pair'.archive = pair.archive
      /\ pair'.report # "none" /\ (pair'.report = "ready" => gates)
  BY <1>4, <1>6 DEF PairInv, Typed, PairDir
<1>9. Typed'
  BY <1>1, <1>5, <1>8 DEF PairInv, Typed
<1>10. live = Idle /\ eval = Idle /\ oe = NoEval
  BY <1>3 DEF PairInv, LiveIsAlone, TreatmentIn, EvalIsOfPair
<1>11. ArchiveIsOfArms'
  BY <1>1, <1>8 DEF PairInv, ArchiveIsOfArms, TreatmentIn, arm_complete, Run
<1>12. \A a \in Arms : pair.archive[a] # 0 => arms[a].files = arms[a].report
  <2> SUFFICES ASSUME NEW a \in Arms, pair.archive[a] # 0
               PROVE  arms[a].files = arms[a].report
    OBVIOUS
  <2>1. pair.archive[a] = arms[a].report /\ pair.archive[a] \in Nat
    BY DEF PairInv, ArchiveIsOfArms, Typed, PairDir
  <2>2. arms[a].report \notin {0, Torn}
    BY <2>1 DEF Torn
  <2>3. QED
    BY <2>2 DEF PairInv, ArmsAreWhole
<1>13. ReadyIsSound'
  BY <1>1, <1>7, <1>8, <1>12 DEF ReadyIsSound, Run
<1>14. ArmsAreWhole' /\ LiveIsAlone' /\ OrchIsCurrent'
  BY <1>1, <1>5, <1>10 DEF PairInv, ArmsAreWhole, LiveIsAlone, OrchIsCurrent
<1>15. EvalIsOfPair' /\ CompletedIsLogged'
  BY <1>1, <1>8, <1>10 DEF PairInv, EvalIsOfPair, CompletedIsLogged, AllLogged, NoEval,
     Evaluating, Idle
<1>16. QED
  BY <1>9, <1>11, <1>13, <1>14, <1>15 DEF PairInv

LEMMA AssembleSummaryKeeps == ASSUME PairInv, assemble_summary PROVE PairInv'
<1>1. /\ UNCHANGED <<ex, preflight, arms, live, oe, eval>>
      /\ orch' = Idle /\ orch' \notin Assembling
      /\ pair' \in PairDir /\ pair'.archive = pair.archive /\ pair'.report = pair.report
  BY DEF assemble_summary, PairInv, Typed, PairDir, Idle, Assembling
<1>2. Typed'
  BY <1>1 DEF PairInv, Typed
<1>3. QED
  BY <1>1, <1>2 DEF PairInv, ArmsAreWhole, LiveIsAlone, OrchIsCurrent, ArchiveIsOfArms,
     ReadyIsSound, EvalIsOfPair, CompletedIsLogged, AllLogged, TreatmentIn, arm_complete, Run

-----------------------------------------------------------------------------
(* The official evaluation                                                 *)

\* Of what an evaluation does, only its own state and directory change.
LEMMA EvalFrame ==
  ASSUME PairInv, UNCHANGED <<ex, preflight, arms, live, pair, orch>>
  PROVE  /\ ArmsAreWhole' /\ LiveIsAlone' /\ OrchIsCurrent' /\ ArchiveIsOfArms' /\ ReadyIsSound'
         /\ oe' \in EvalDir
            /\ eval' \in {Idle} \cup Evaluating \cup [pc : {"reported"}, scorecard : Scorecard]
               => Typed'
<1>1. ArmsAreWhole' /\ LiveIsAlone' /\ OrchIsCurrent'
  BY DEF PairInv, ArmsAreWhole, LiveIsAlone, OrchIsCurrent, TreatmentIn, arm_complete, Run
<1>2. ArchiveIsOfArms' /\ ReadyIsSound'
  BY DEF PairInv, ArchiveIsOfArms, ReadyIsSound, TreatmentIn, arm_complete, Run
<1>3. QED
  BY <1>1, <1>2 DEF PairInv, Typed

LEMMA EvalStartKeeps == ASSUME PairInv, eval_start PROVE PairInv'
<1>1. UNCHANGED <<ex, preflight, arms, live, pair, orch, oe>>
  BY DEF eval_start
<1>2. PICK run \in BOOLEAN, ack \in BOOLEAN :
         eval' = [pc |-> "control", run |-> run, ack |-> ack, pair |-> pair, failed |-> FALSE,
                  predicted |-> pair.summary # "none" /\ \A a \in Arms : pair.archive[a] # 0]
  BY DEF eval_start
<1>3. oe.report.decision = "none" /\ pair.report = "ready"
  BY StateFacts DEF PairInv, eval_start
<1>4. eval' \in Evaluating /\ eval'.pair = pair /\ eval'.pc = "control"
  <2> DEFINE predicted == pair.summary # "none" /\ \A a \in Arms : pair.archive[a] # 0
  <2>1. predicted \in BOOLEAN
    OBVIOUS
  <2> HIDE DEF predicted
  <2>2. eval' = [pc |-> "control", run |-> run, ack |-> ack, pair |-> pair,
                 failed |-> FALSE, predicted |-> predicted]
    BY <1>2 DEF predicted
  <2>3. QED
    BY <2>1, <2>2 DEF PairInv, Typed, Evaluating
<1>5. Typed'
  BY <1>1, <1>4, EvalFrame DEF PairInv, Typed
<1>6. EvalIsOfPair' /\ CompletedIsLogged'
  BY <1>1, <1>3, <1>4 DEF PairInv, EvalIsOfPair, CompletedIsLogged, AllLogged
<1>7. QED
  BY <1>1, <1>5, <1>6, EvalFrame DEF PairInv

\* The harness logs a prediction, which is the archived patch of the arm.
LEMMA RunEvalKeeps == ASSUME PairInv, NEW a \in Arms, run_official_eval(a) PROVE PairInv'
<1>1. UNCHANGED <<ex, preflight, arms, live, pair, orch>>
  BY DEF run_official_eval
<1>2. eval \in Evaluating /\ eval.pc = a
  <2>1. eval.pc = a
    BY DEF run_official_eval
  <2>2. QED
    BY <2>1 DEF PairInv, Typed, Arms, Idle
<1>3. pair.report = "ready" /\ eval.pair.archive = pair.archive /\ oe.report.decision = "none"
  BY <1>2 DEF PairInv, EvalIsOfPair, Evaluating, Idle
<1>4. \A b \in Arms : pair.archive[b] # 0 /\ pair.archive[b] \in Nat
  BY <1>3 DEF PairInv, ReadyIsSound, Typed, PairDir
<1>5. eval' \in Evaluating /\ eval'.pair = eval.pair
  <2>1. \E failed \in BOOLEAN, pc \in {"treatment", "ran"} :
           \/ eval' = [eval EXCEPT !.failed = failed, !.pc = pc]
           \/ eval' = [eval EXCEPT !.pc = pc]
    <3>1. CASE \E log \in {oe.logs[a], eval.pair.archive[a]}, failed \in BOOLEAN :
                 eval' = [eval EXCEPT !.failed = @ \/ failed,
                            !.pc = IF a = "control" THEN "treatment" ELSE "ran"]
      <4>1. PICK failed \in BOOLEAN :
               eval' = [eval EXCEPT !.failed = @ \/ failed,
                            !.pc = IF a = "control" THEN "treatment" ELSE "ran"]
        BY <3>1
      <4> DEFINE f == eval.failed \/ failed
      <4>2. f \in BOOLEAN
        OBVIOUS
      <4>3. eval' = [eval EXCEPT !.failed = f,
                            !.pc = IF a = "control" THEN "treatment" ELSE "ran"]
        BY <4>1
      <4> HIDE DEF f
      <4>4. QED
        BY <4>2, <4>3
    <3>2. CASE eval' = [eval EXCEPT !.pc = "ran"]
      BY <3>2
    <3>3. QED
      BY <3>1, <3>2 DEF run_official_eval
  <2>2. QED
    BY <1>2, <2>1 DEF Evaluating
<1>6. \/ oe' = oe
      \/ \E log \in {oe.logs[a], pair.archive[a]} : oe' = [oe EXCEPT !.logs[a] = log]
  <2>1. oe' = oe \/ \E log \in {oe.logs[a], eval.pair.archive[a]} :
                       oe' = [oe EXCEPT !.logs[a] = log]
    BY Zenon DEF run_official_eval
  <2>2. QED
    BY <1>3, <2>1
<1>7. /\ oe' \in EvalDir /\ oe'.report = oe.report /\ oe'.scorecard = oe.scorecard
      /\ \A b \in Arms : \/ oe'.logs[b] = oe.logs[b]
                         \/ oe'.logs[b] = pair.archive[b]
  <2>1. CASE oe' = oe
    BY <2>1 DEF PairInv, Typed
  <2>2. ASSUME NEW log \in {oe.logs[a], pair.archive[a]}, oe' = [oe EXCEPT !.logs[a] = log]
        PROVE  /\ oe' \in EvalDir /\ oe'.report = oe.report /\ oe'.scorecard = oe.scorecard
               /\ \A b \in Arms : oe'.logs[b] = oe.logs[b] \/ oe'.logs[b] = pair.archive[b]
    <3>1. oe \in EvalDir /\ log \in Nat
      BY <1>4 DEF PairInv, Typed, EvalDir
    <3>2. [oe.logs EXCEPT ![a] = log] \in [Arms -> Nat]
      BY <3>1 DEF EvalDir
    <3>3. oe' = [oe EXCEPT !.logs = [oe.logs EXCEPT ![a] = log]]
      BY <2>2, <3>1 DEF EvalDir
    <3>4. QED
      BY <2>2, <3>1, <3>2, <3>3 DEF EvalDir
  <2>3. QED
    BY <1>6, <2>1, <2>2
<1>8. Typed'
  BY <1>1, <1>5, <1>7, EvalFrame
<1>9. EvalIsOfPair'
  BY <1>1, <1>3, <1>5, <1>7 DEF PairInv, EvalIsOfPair
<1>10. CompletedIsLogged'
  BY <1>3, <1>4, <1>5, <1>7 DEF PairInv, CompletedIsLogged, AllLogged, Evaluating
<1>11. QED
  BY <1>1, <1>8, <1>9, <1>10, EvalFrame DEF PairInv

\* Report and scorecard say completed only of two logged arms.
LEMMA EvalReportKeeps == ASSUME PairInv, eval_report PROVE PairInv'
<1> DEFINE card == [written |-> TRUE, completed |-> official_completed, uplift |-> uplift]
<1>1. UNCHANGED <<ex, preflight, arms, live, pair, orch>>
  BY DEF eval_report
<1>2. eval \in Evaluating
  BY DEF eval_report, PairInv, Typed, Idle
<1>3. pair.report = "ready"
  BY <1>2 DEF PairInv, EvalIsOfPair, Evaluating, Idle
<1>4. PICK cut \in BOOLEAN :
         /\ Write(cut, eval', [pc |-> "reported", scorecard |-> card])
         /\ oe' = [oe EXCEPT !.report =
                     IF cut THEN Report("torn", FALSE, FALSE)
                     ELSE Report(eval_decision, eval_gates, official_completed)]
  BY DEF eval_report
<1>5. card \in Scorecard /\ (card.completed => AllLogged)
  <2>1. official_completed \in BOOLEAN /\ uplift \in BOOLEAN
    BY DEF official_completed, uplift
  <2>2. official_completed => AllLogged
    BY DEF official_completed, AllLogged
  <2>3. QED
    BY <2>1, <2>2 DEF Scorecard
<1> HIDE DEF card
<1>6. /\ eval' \in {Idle} \cup [pc : {"reported"}, scorecard : Scorecard]
      /\ eval' \notin Evaluating
      /\ eval'.pc = "reported" => eval'.scorecard = card
  BY <1>4, <1>5 DEF Write, Idle, Evaluating
<1>7. eval_decision \in {"blocked", "outcome_label_ready", "pending_or_failed",
                         "ready_pending_official_eval"}
      /\ (eval_decision = "outcome_label_ready" => official_completed)
  <2>1. CASE ~eval_gates
    BY <2>1, SMTT(30) DEF eval_decision
  <2>2. CASE eval_gates /\ official_completed
    BY <2>2, SMTT(30) DEF eval_decision
  <2>3. CASE eval_gates /\ ~official_completed
    BY <2>3, SMTT(30) DEF eval_decision
  <2>4. QED
    BY <2>1, <2>2, <2>3
<1>8. PICK report \in [decision : {"torn", "blocked", "outcome_label_ready",
                                   "pending_or_failed", "ready_pending_official_eval"},
                       passed : BOOLEAN, completed : BOOLEAN] :
         /\ oe' = [oe EXCEPT !.report = report]
         /\ report.decision = "outcome_label_ready" => AllLogged
  <2>1. eval_gates \in BOOLEAN /\ official_completed \in BOOLEAN
    BY DEF eval_gates, official_completed
  <2>2. official_completed => AllLogged
    BY DEF official_completed, AllLogged
  <2>3. CASE cut
    <3>1. oe' = [oe EXCEPT !.report = Report("torn", FALSE, FALSE)]
      BY <1>4, <2>3
    <3> DEFINE report == Report("torn", FALSE, FALSE)
    <3>2. report \in [decision : {"torn", "blocked", "outcome_label_ready",
                                  "pending_or_failed", "ready_pending_official_eval"},
                      passed : BOOLEAN, completed : BOOLEAN]
          /\ report.decision = "torn"
      BY DEF Report
    <3>3. oe' = [oe EXCEPT !.report = report]
      BY <3>1
    <3> HIDE DEF report
    <3>4. QED
      BY <3>2, <3>3
  <2>4. CASE ~cut
    <3> DEFINE report == Report(eval_decision, eval_gates, official_completed)
    <3>1. oe' = [oe EXCEPT !.report = report]
      BY <1>4, <2>4
    <3>2. report \in [decision : {"torn", "blocked", "outcome_label_ready",
                                  "pending_or_failed", "ready_pending_official_eval"},
                      passed : BOOLEAN, completed : BOOLEAN]
          /\ report.decision = eval_decision
      BY <1>7, <2>1 DEF Report
    <3>3. QED
      BY <1>7, <2>2, <3>1, <3>2
  <2>5. QED
    BY <2>3, <2>4
<1>9. oe' \in EvalDir /\ oe'.logs = oe.logs /\ oe'.scorecard = oe.scorecard /\ oe'.report = report
  BY <1>8 DEF PairInv, Typed, EvalDir
<1>10. Typed'
  BY <1>1, <1>6, <1>9, EvalFrame
<1>11. EvalIsOfPair'
  BY <1>1, <1>3, <1>6, <1>9 DEF PairInv, EvalIsOfPair
<1>12. CompletedIsLogged'
  BY <1>5, <1>6, <1>8, <1>9 DEF PairInv, CompletedIsLogged, AllLogged
<1>13. QED
  BY <1>1, <1>10, <1>11, <1>12, EvalFrame DEF PairInv

LEMMA EvalScorecardKeeps == ASSUME PairInv, eval_scorecard PROVE PairInv'
<1>1. UNCHANGED <<ex, preflight, arms, live, pair, orch>> /\ eval' = Idle /\ eval.pc = "reported"
      /\ oe' = [oe EXCEPT !.scorecard = eval.scorecard]
  BY DEF eval_scorecard
<1>2. eval \in [pc : {"reported"}, scorecard : Scorecard]
  BY <1>1 DEF PairInv, Typed, Evaluating, Idle
<1>3. /\ oe' \in EvalDir /\ oe'.logs = oe.logs /\ oe'.report = oe.report
      /\ oe'.scorecard = eval.scorecard
  BY <1>1, <1>2 DEF PairInv, Typed, EvalDir
<1>4. eval # Idle
  BY <1>1 DEF Idle
<1>5. Typed'
  BY <1>1, <1>3, EvalFrame
<1>6. EvalIsOfPair' /\ CompletedIsLogged'
  BY <1>1, <1>3, <1>4 DEF PairInv, EvalIsOfPair, CompletedIsLogged, AllLogged, Evaluating, Idle
<1>7. QED
  BY <1>1, <1>5, <1>6, EvalFrame DEF PairInv

\* A process that dies leaves the files as they are.
LEMMA CrashKeeps == ASSUME PairInv, crash \/ UNCHANGED vars PROVE PairInv'
<1>1. /\ UNCHANGED <<ex, preflight, arms, pair, oe>>
      /\ live' \in {live, Idle} /\ orch' \in {orch, Idle} /\ eval' \in {eval, Idle}
  BY DEF crash, vars
<1>2. Idle \notin Assembling /\ Idle \notin Evaluating /\ Idle.pc = "idle"
  BY DEF Idle, Assembling, Evaluating
<1>3. Typed'
  BY <1>1 DEF PairInv, Typed
<1>4. ArmsAreWhole' /\ LiveIsAlone' /\ OrchIsCurrent'
  BY <1>1, <1>2 DEF PairInv, ArmsAreWhole, LiveIsAlone, OrchIsCurrent, TreatmentIn,
     arm_complete, Run
<1>5. ArchiveIsOfArms' /\ ReadyIsSound'
  BY <1>1 DEF PairInv, ArchiveIsOfArms, ReadyIsSound, TreatmentIn, arm_complete, Run
<1>6. EvalIsOfPair' /\ CompletedIsLogged'
  BY <1>1, <1>2 DEF PairInv, EvalIsOfPair, CompletedIsLogged, AllLogged
<1>7. QED
  BY <1>3, <1>4, <1>5, <1>6 DEF PairInv

-----------------------------------------------------------------------------
LEMMA NextKeepsPairInv == PairInv /\ [Next]_vars => PairInv'
<1> SUFFICES ASSUME PairInv, [Next]_vars PROVE PairInv'
  OBVIOUS
<1>1. CASE Operator
  BY <1>1, PreflightKeeps, LiveKeeps, ClearArmKeeps, ClearPairKeeps, ClearEvalKeeps,
     LiveStartKeeps, ArchivePatchKeeps DEF Operator, Clear
<1>2. CASE Orchestrator
  BY <1>2, AdvanceLoadKeeps, AssembleCopyKeeps, AssembleReportKeeps, AssembleSummaryKeeps
     DEF Orchestrator
<1>3. CASE OfficialEval
  BY <1>3, EvalStartKeeps, EvalReportKeeps, EvalScorecardKeeps, RunEvalKeeps DEF OfficialEval
<1>4. CASE crash \/ UNCHANGED vars
  BY <1>4, CrashKeeps
<1>5. QED
  BY <1>1, <1>2, <1>3, <1>4 DEF Next

LEMMA PairInvAlways == Spec => []PairInv
  BY InitPairInv, NextKeepsPairInv, PTL DEF Spec

\* What the two theorems need of a pair both arms of which are logged.
LEMMA LoggedIsSound ==
  ASSUME PairInv, AllLogged
  PROVE  \A a \in Arms :
           /\ oe.logs[a] = pair.archive[a] /\ oe.logs[a] = arms[a].report
           /\ Run(oe.logs[a]).arm = a /\ Run(oe.logs[a]).completed /\ Run(oe.logs[a]).generated
           /\ \A b \in Arms : Run(oe.logs[a]).replay = Run(oe.logs[b]).replay
<1>1. \A a \in Arms : /\ oe.logs[a] = pair.archive[a] /\ oe.logs[a] = arms[a].report
                      /\ oe.logs[a] \in Nat /\ oe.logs[a] # 0
  BY DEF PairInv, EvalIsOfPair, ArchiveIsOfArms, AllLogged, Typed, EvalDir
<1>2. oe # NoEval
  <2>1. oe.logs["control"] # 0
    BY <1>1 DEF Arms
  <2>2. NoEval.logs["control"] = 0
    BY DEF NoEval, Arms
  <2>3. QED
    BY <2>1, <2>2
<1>3. pair.report = "ready"
  BY <1>2 DEF PairInv, EvalIsOfPair
<1>4. \A a \in Arms : ex[arms[a].report].arm = a
  BY <1>1 DEF PairInv, ArmsAreWhole, Torn
<1>5. QED
  BY <1>1, <1>3, <1>4 DEF PairInv, ReadyIsSound, Run

\* BOUNDARY of the pair adapters, for any number of executions, evaluations and
\* deaths of processes: a label compares two completed arms that replayed the
\* same prefix, by the evaluation of what these arms wrote.
THEOREM LabelsAreEarned == Spec => []LabelIsEarned
<1>1. PairInv => LabelIsEarned
  BY LoggedIsSound DEF PairInv, CompletedIsLogged, LabelIsEarned
<1>2. QED
  BY PairInvAlways, <1>1, PTL

\* _scorecard: what batch outcomes count rests on a log of each archived patch.
THEOREM ScorecardsAreEvidenced == Spec => []ScorecardIsEvidenced
<1>1. PairInv => ScorecardIsEvidenced
  BY LoggedIsSound DEF PairInv, CompletedIsLogged, AllLogged, ScorecardIsEvidenced
<1>2. QED
  BY PairInvAlways, <1>1, PTL

-----------------------------------------------------------------------------
(* The v1 pair.  Nothing infers what may be done from the files: what keeps *)
(* a pair together is the operator's order of the commands.                *)

V1_PairDir == [archive : [Arms -> Nat],
               report : {"none", "torn", "blocked", "ready", "outcome_label_ready"},
               summary : {"none", "eligible", "ineligible"}]
V1_Assembling == [pc : {"loaded", "copied"}, arms : [Arms -> ArmDir],
                  outcomes : {"none", "sourced", "unsourced"}]
V1_Evaluating == [pc : {"control", "treatment", "ran"}, run : BOOLEAN, ack : BOOLEAN,
                  pair : V1_PairDir, failed : BOOLEAN, predicted : BOOLEAN]

V1_Typed ==
  /\ ex \in Seq(Executed)
  /\ arms \in [Arms -> ArmDir]
  /\ live \in {Idle} \cup [pc : {"ran", "filed"}, arm : Arms]
  /\ pair \in V1_PairDir
  /\ orch \in {Idle} \cup V1_Assembling \cup [pc : {"reported"}, eligible : BOOLEAN]
  /\ oe \in EvalDir
  /\ eval \in {Idle} \cup V1_Evaluating \cup [pc : {"reported"}, scorecard : Scorecard]

\* Arms run under no pair report and no assembly.
V1_LiveIsAlone == live # Idle => pair.report = "none" /\ orch = Idle

\* Once an arm has a patch it has one for good, so no archive outlives it.
V1_ArchiveIsBacked == \A a \in Arms : pair.archive[a] # 0 => arms[a].patch # 0

\* The arms do not change under an assembly, and no evaluation is there.
V1_OrchIsCurrent ==
  /\ orch # Idle => oe = NoEval /\ eval = Idle
  /\ orch \in V1_Assembling =>
       /\ orch.arms = arms /\ pair.report # "ready"
       /\ orch.pc = "copied" => \A a \in Arms : pair.archive[a] = arms[a].patch

\* A pair is ready when its arms can be compared, and its archive is theirs.
V1_ReadyIsSound ==
  pair.report = "ready" =>
    /\ \A a \in Arms : /\ pair.archive[a] # 0 /\ pair.archive[a] = arms[a].patch
                       /\ Run(arms[a].report).completed /\ Run(arms[a].report).arm = a
    /\ Run(arms["control"].report).replay = Run(arms["treatment"].report).replay
    /\ ~Run(arms["treatment"].files).blocked

\* An evaluation is of the pair that is there, and a label of a ready one.
V1_EvalIsOfPair ==
  /\ eval \in V1_Evaluating => eval.pair = pair /\ pair.report # "none"
  /\ \A a \in Arms : oe.logs[a] \in {0, pair.archive[a]}
  /\ oe.report.decision = "outcome_label_ready" => pair.report = "ready" /\ AllLogged

V1Inv == /\ V1_Typed /\ V1_LiveIsAlone /\ V1_ArchiveIsBacked /\ V1_OrchIsCurrent
         /\ V1_ReadyIsSound /\ V1_EvalIsOfPair

LEMMA InitV1Inv == Init => V1Inv
  BY DEF Init, V1Inv, V1_Typed, V1_LiveIsAlone, V1_ArchiveIsBacked, V1_OrchIsCurrent,
         V1_ReadyIsSound, V1_EvalIsOfPair, AllLogged, NoArm, NoPair, NoEval, Report, NoScorecard,
         Idle, ArmDir, V1_PairDir, EvalDir, Scorecard, V1_Assembling, V1_Evaluating

\* An arm, or the operator for it, writes while there is no pair: nothing that
\* follows depends on what the arms' directories held.
LEMMA V1ArmFrame ==
  ASSUME V1Inv, pair.report = "none", orch = Idle, UNCHANGED <<ex, pair, orch, oe, eval>>,
         NEW a \in Arms, NEW dir \in ArmDir, arms' = [arms EXCEPT ![a] = dir],
         arms[a].patch # 0 => dir.patch # 0,
         live' \in {Idle} \cup [pc : {"ran", "filed"}, arm : Arms]
  PROVE  V1Inv'
<1>1. V1_Typed'
  BY DEF V1Inv, V1_Typed
<1>2. \A b \in Arms : arms[b].patch # 0 => arms'[b].patch # 0
  BY DEF V1Inv, V1_Typed
<1>3. V1_LiveIsAlone' /\ V1_ArchiveIsBacked' /\ V1_ReadyIsSound'
  BY <1>2 DEF V1Inv, V1_LiveIsAlone, V1_ArchiveIsBacked, V1_ReadyIsSound
<1>4. V1_OrchIsCurrent'
  BY DEF V1_OrchIsCurrent, V1_Assembling, Idle
<1>5. V1_EvalIsOfPair'
  BY DEF V1Inv, V1_EvalIsOfPair, AllLogged
<1>6. QED
  BY <1>1, <1>3, <1>4, <1>5 DEF V1Inv

\* An arm is executed again over whatever its directory holds.
LEMMA V1LiveStartKeeps == ASSUME V1Inv, NEW a \in Arms, V1_live_start(a) PROVE V1Inv'
<1>1. PICK run \in Executions : ex' = Append(ex, ArmRun(a, run))
  BY DEF V1_live_start
<1>2. ArmRun(a, run) \in Executed
  BY DEF Executed
<1>3. ex' \in Seq(Executed)
  BY <1>1, <1>2 DEF V1Inv, V1_Typed
<1>4. /\ UNCHANGED <<arms, pair, orch, oe, eval>> /\ pair.report = "none"
      /\ live' = [pc |-> "ran", arm |-> a]
  BY DEF V1_live_start
<1>5. orch = Idle
  BY DEF V1_live_start, V1Inv, V1_Typed, V1_Assembling
<1>6. V1_Typed'
  BY <1>3, <1>4 DEF V1Inv, V1_Typed
<1>7. V1_LiveIsAlone' /\ V1_ArchiveIsBacked' /\ V1_OrchIsCurrent'
  BY <1>4, <1>5 DEF V1Inv, V1_LiveIsAlone, V1_ArchiveIsBacked, V1_OrchIsCurrent
<1>8. V1_ReadyIsSound' /\ V1_EvalIsOfPair'
  BY <1>4 DEF V1Inv, V1_ReadyIsSound, V1_EvalIsOfPair, AllLogged
<1>9. QED
  BY <1>6, <1>7, <1>8 DEF V1Inv

LEMMA V1LiveKeeps == ASSUME V1Inv, live_files \/ live_report PROVE V1Inv'
<1> DEFINE a == live.arm
<1>1. live # Idle /\ a \in Arms
  BY DEF V1Inv, V1_Typed, live_files, live_report, Idle
<1>2. pair.report = "none" /\ orch = Idle /\ UNCHANGED <<ex, pair, orch, oe, eval>>
  BY <1>1 DEF V1Inv, V1_LiveIsAlone, live_files, live_report
<1>3. arms[a] \in ArmDir /\ Len(ex) \in Nat
  BY <1>1 DEF V1Inv, V1_Typed
<1>4. CASE live_files
  <2>1. [arms[a] EXCEPT !.files = Len(ex)] \in ArmDir
    BY <1>3 DEF ArmDir
  <2>2. arms' = [arms EXCEPT ![a] = [arms[a] EXCEPT !.files = Len(ex)]]
        /\ live' = [pc |-> "filed", arm |-> a]
    BY <1>1, <1>4 DEF live_files, V1Inv, V1_Typed
  <2>3. [arms[a] EXCEPT !.files = Len(ex)].patch = arms[a].patch
    BY <1>3 DEF ArmDir
  <2>4. QED
    BY <1>1, <1>2, <2>1, <2>2, <2>3, V1ArmFrame
<1>5. CASE live_report
  <2>1. PICK cut \in BOOLEAN :
           /\ Write(cut, live', Idle)
           /\ arms' = [arms EXCEPT ![a].report = IF cut THEN Torn ELSE Len(ex)]
    BY <1>5 DEF live_report
  <2> DEFINE dir == [arms[a] EXCEPT !.report = IF cut THEN Torn ELSE Len(ex)]
  <2>2. dir \in ArmDir /\ dir.patch = arms[a].patch
    BY <1>3 DEF ArmDir
  <2>3. arms' = [arms EXCEPT ![a] = dir] /\ live' = Idle
    BY <1>1, <2>1 DEF Write, V1Inv, V1_Typed
  <2> HIDE DEF dir
  <2>4. QED
    BY <1>1, <1>2, <2>2, <2>3, V1ArmFrame
<1>6. QED
  BY <1>4, <1>5

LEMMA V1ArchivePatchKeeps == ASSUME V1Inv, NEW a \in Arms, V1_archive_patch(a) PROVE V1Inv'
<1> DEFINE dir == [arms[a] EXCEPT !.patch = arms[a].report]
<1>1. /\ pair.report = "none" /\ UNCHANGED <<ex, live, pair, orch, oe, eval>>
      /\ arms[a].report \notin {0, Torn}
  BY DEF V1_archive_patch, archive_patch
<1>2. orch = Idle
  BY DEF V1_archive_patch, V1Inv, V1_Typed, V1_Assembling
<1>3. dir \in ArmDir /\ dir.patch # 0
  BY <1>1 DEF V1Inv, V1_Typed, ArmDir
<1>4. arms' = [arms EXCEPT ![a] = dir]
  BY DEF V1_archive_patch, archive_patch, V1Inv, V1_Typed
<1>5. live' \in {Idle} \cup [pc : {"ran", "filed"}, arm : Arms]
  BY <1>1 DEF V1Inv, V1_Typed
<1> HIDE DEF dir
<1>6. QED
  BY <1>1, <1>2, <1>3, <1>4, <1>5, V1ArmFrame

\* The assembly: what is read at its start is what is there at its end.
LEMMA V1LoadKeeps ==
  ASSUME V1Inv, NEW outcomes \in {"none", "sourced", "unsourced"}, V1_load(outcomes)
  PROVE  V1Inv'
<1>1. /\ UNCHANGED <<ex, arms, live, pair, oe, eval>> /\ oe = NoEval /\ pair.report # "ready"
      /\ orch' = [pc |-> "loaded", arms |-> arms, outcomes |-> outcomes]
  BY DEF V1_load
<1>2. live = Idle /\ eval = Idle
  BY DEF V1_load, V1Inv, V1_Typed, V1_Evaluating
<1>3. orch' \in V1_Assembling /\ orch'.arms = arms /\ orch'.pc = "loaded"
  BY <1>1 DEF V1Inv, V1_Typed, V1_Assembling
<1>4. V1_Typed'
  BY <1>1, <1>3 DEF V1Inv, V1_Typed
<1>5. V1_LiveIsAlone' /\ V1_ArchiveIsBacked' /\ V1_OrchIsCurrent'
  BY <1>1, <1>2, <1>3 DEF V1Inv, V1_LiveIsAlone, V1_ArchiveIsBacked, V1_OrchIsCurrent
<1>6. V1_ReadyIsSound' /\ V1_EvalIsOfPair'
  BY <1>1 DEF V1Inv, V1_ReadyIsSound, V1_EvalIsOfPair, AllLogged, Run
<1>7. QED
  BY <1>4, <1>5, <1>6 DEF V1Inv

LEMMA V1CopyKeeps == ASSUME V1Inv, V1_copy PROVE V1Inv'
<1> DEFINE archive == [a \in Arms |-> IF arms[a].patch # 0 THEN arms[a].patch
                                                           ELSE pair.archive[a]]
<1>1. /\ UNCHANGED <<ex, arms, live, oe, eval>> /\ orch.pc = "loaded"
      /\ pair' = [pair EXCEPT !.archive = archive] /\ orch' = [orch EXCEPT !.pc = "copied"]
  BY DEF V1_copy
<1>2. orch \in V1_Assembling /\ orch # Idle
  BY <1>1 DEF V1Inv, V1_Typed, Idle
<1>3. orch.arms = arms /\ pair.report # "ready" /\ oe = NoEval /\ eval = Idle
  BY <1>2 DEF V1Inv, V1_OrchIsCurrent
<1>4. archive \in [Arms -> Nat] /\ \A a \in Arms : archive[a] = arms[a].patch
  BY DEF V1Inv, V1_Typed, ArmDir, V1_PairDir, V1_ArchiveIsBacked
<1> HIDE DEF archive
<1>5. pair' \in V1_PairDir /\ pair'.archive = archive /\ pair'.report = pair.report
  BY <1>1, <1>4 DEF V1Inv, V1_Typed, V1_PairDir
<1>6. orch' \in V1_Assembling /\ orch'.arms = orch.arms /\ orch' # Idle
  BY <1>1, <1>2 DEF V1_Assembling, Idle
<1>7. live = Idle
  BY <1>2 DEF V1Inv, V1_LiveIsAlone
<1>8. V1_Typed'
  BY <1>1, <1>5, <1>6 DEF V1Inv, V1_Typed
<1>9. V1_LiveIsAlone' /\ V1_ArchiveIsBacked' /\ V1_OrchIsCurrent' /\ V1_ReadyIsSound'
  BY <1>1, <1>3, <1>4, <1>5, <1>6, <1>7 DEF V1_LiveIsAlone, V1_ArchiveIsBacked,
     V1_OrchIsCurrent, V1_ReadyIsSound
<1>10. V1_EvalIsOfPair'
  <2>1. \A a \in Arms : oe.logs[a] = 0
    BY <1>3 DEF NoEval
  <2>2. oe.report.decision = "none" /\ Idle \notin V1_Evaluating
    BY <1>3 DEF NoEval, Report, V1_Evaluating, Idle
  <2>3. QED
    BY <1>1, <1>3, <2>1, <2>2 DEF V1_EvalIsOfPair
<1>11. QED
  BY <1>8, <1>9, <1>10 DEF V1Inv

LEMMA V1ReportKeeps == ASSUME V1Inv, V1_report PROVE V1Inv'
<1> DEFINE content == V1_assembled(orch.arms, orch.outcomes)
           eligible == content # "blocked"
<1>1. UNCHANGED <<ex, arms, live, oe, eval>> /\ orch.pc = "copied"
  BY DEF V1_report
<1>2. orch \in V1_Assembling /\ orch # Idle
  BY <1>1 DEF V1Inv, V1_Typed, Idle
<1>3. /\ orch.arms = arms /\ oe = NoEval /\ eval = Idle /\ live = Idle
      /\ \A a \in Arms : pair.archive[a] = arms[a].patch
  BY <1>1, <1>2 DEF V1Inv, V1_OrchIsCurrent, V1_LiveIsAlone
<1>4. PICK cut \in BOOLEAN :
         /\ Write(cut, orch', [pc |-> "reported", eligible |-> eligible])
         /\ pair' = [pair EXCEPT !.report = IF cut THEN "torn" ELSE content]
  BY DEF V1_report
<1>5. orch' \in {Idle} \cup [pc : {"reported"}, eligible : BOOLEAN] /\ orch' \notin V1_Assembling
  <2>1. eligible \in BOOLEAN
    OBVIOUS
  <2> HIDE DEF eligible
  <2>2. orch' = Idle \/ orch' = [pc |-> "reported", eligible |-> eligible]
    BY <1>4 DEF Write
  <2>3. QED
    BY <2>1, <2>2 DEF Idle, V1_Assembling
<1>6. content \in {"blocked", "ready", "outcome_label_ready"}
      /\ (content = "ready" => V1_pair_gates(orch.arms, orch.outcomes))
  <2>1. CASE ~V1_pair_gates(orch.arms, orch.outcomes)
    BY <2>1, SMTT(30) DEF V1_assembled
  <2>2. CASE V1_pair_gates(orch.arms, orch.outcomes) /\ orch.outcomes = "none"
    BY <2>2, SMTT(30) DEF V1_assembled
  <2>3. CASE V1_pair_gates(orch.arms, orch.outcomes) /\ orch.outcomes # "none"
    BY <2>3, SMTT(30) DEF V1_assembled
  <2>4. QED
    BY <2>1, <2>2, <2>3
<1> HIDE DEF content, eligible
<1>7. /\ pair' \in V1_PairDir /\ pair'.archive = pair.archive
      /\ pair'.report # "none" /\ (pair'.report = "ready" => content = "ready")
  BY <1>4, <1>6 DEF V1Inv, V1_Typed, V1_PairDir
<1>8. V1_Typed'
  BY <1>1, <1>5, <1>7 DEF V1Inv, V1_Typed
<1>9. V1_LiveIsAlone' /\ V1_ArchiveIsBacked' /\ V1_OrchIsCurrent'
  BY <1>1, <1>3, <1>5, <1>7 DEF V1Inv, V1_LiveIsAlone, V1_ArchiveIsBacked, V1_OrchIsCurrent
<1>10. V1_ReadyIsSound'
  <2>1. content = "ready" =>
          /\ \A a \in Arms : /\ pair.archive[a] # 0 /\ Run(arms[a].report).completed
                             /\ Run(arms[a].report).arm = a
          /\ Run(arms["control"].report).replay = Run(arms["treatment"].report).replay
          /\ ~Run(arms["treatment"].files).blocked
    BY <1>3, <1>6 DEF V1_pair_gates, pair_gates
  <2>2. QED
    BY <1>1, <1>3, <1>7, <2>1 DEF V1_ReadyIsSound, Run
<1>11. V1_EvalIsOfPair'
  <2>1. oe.report.decision = "none" /\ Idle \notin V1_Evaluating
    BY <1>3 DEF NoEval, Report, V1_Evaluating, Idle
  <2>2. QED
    BY <1>1, <1>3, <1>7, <2>1 DEF V1Inv, V1_EvalIsOfPair
<1>12. QED
  BY <1>8, <1>9, <1>10, <1>11 DEF V1Inv

LEMMA V1SummaryKeeps == ASSUME V1Inv, assemble_summary PROVE V1Inv'
<1>1. /\ UNCHANGED <<ex, arms, live, oe, eval>> /\ orch.pc = "reported"
      /\ orch' = Idle /\ Idle \notin V1_Assembling /\ Idle \notin V1_Evaluating
      /\ pair' \in V1_PairDir /\ pair'.archive = pair.archive /\ pair'.report = pair.report
  BY DEF assemble_summary, V1Inv, V1_Typed, V1_PairDir, Idle, V1_Assembling, V1_Evaluating
<1>2. eval = Idle
  BY <1>1 DEF V1Inv, V1_OrchIsCurrent, Idle
<1>3. V1_Typed'
  BY <1>1 DEF V1Inv, V1_Typed
<1>4. V1_LiveIsAlone' /\ V1_ArchiveIsBacked' /\ V1_OrchIsCurrent'
  BY <1>1 DEF V1Inv, V1_LiveIsAlone, V1_ArchiveIsBacked, V1_OrchIsCurrent
<1>5. V1_ReadyIsSound' /\ V1_EvalIsOfPair'
  BY <1>1, <1>2 DEF V1Inv, V1_ReadyIsSound, V1_EvalIsOfPair, AllLogged, Run
<1>6. QED
  BY <1>3, <1>4, <1>5 DEF V1Inv

\* An evaluation leaves the arms and the pair alone.
LEMMA V1EvalFrame ==
  ASSUME V1Inv, UNCHANGED <<ex, arms, live, pair, orch>>, orch = Idle, oe' \in EvalDir,
         eval' \in {Idle} \cup V1_Evaluating \cup [pc : {"reported"}, scorecard : Scorecard]
  PROVE  /\ V1_Typed' /\ V1_LiveIsAlone' /\ V1_ArchiveIsBacked' /\ V1_OrchIsCurrent'
         /\ V1_ReadyIsSound'
<1>1. Idle \notin V1_Assembling
  BY DEF Idle, V1_Assembling
<1>2. QED
  BY <1>1 DEF V1Inv, V1_Typed, V1_LiveIsAlone, V1_ArchiveIsBacked, V1_OrchIsCurrent,
     V1_ReadyIsSound, Run

LEMMA V1EvalStartKeeps == ASSUME V1Inv, V1_eval_start PROVE V1Inv'
<1>1. /\ UNCHANGED <<ex, arms, live, pair, orch, oe>> /\ pair.report # "none"
  BY DEF V1_eval_start
<1>2. orch = Idle
  BY DEF V1_eval_start, V1Inv, V1_Typed, V1_Assembling
<1>3. PICK run \in BOOLEAN, ack \in BOOLEAN :
         eval' = [pc |-> "control", run |-> run, ack |-> ack, pair |-> pair, failed |-> FALSE,
                  predicted |-> pair.summary # "none" /\ \A a \in Arms : pair.archive[a] # 0]
  BY DEF V1_eval_start
<1>4. eval' \in V1_Evaluating /\ eval'.pair = pair
  <2> DEFINE predicted == pair.summary # "none" /\ \A a \in Arms : pair.archive[a] # 0
  <2>1. predicted \in BOOLEAN
    OBVIOUS
  <2> HIDE DEF predicted
  <2>2. eval' = [pc |-> "control", run |-> run, ack |-> ack, pair |-> pair,
                 failed |-> FALSE, predicted |-> predicted]
    BY <1>3 DEF predicted
  <2>3. QED
    BY <2>1, <2>2 DEF V1Inv, V1_Typed, V1_Evaluating
<1>5. oe' \in EvalDir
  BY <1>1 DEF V1Inv, V1_Typed
<1>6. V1_EvalIsOfPair'
  BY <1>1, <1>4 DEF V1Inv, V1_EvalIsOfPair, AllLogged
<1>7. QED
  BY <1>1, <1>2, <1>4, <1>5, <1>6, V1EvalFrame DEF V1Inv

LEMMA V1RunEvalKeeps == ASSUME V1Inv, NEW a \in Arms, V1_run_official_eval(a) PROVE V1Inv'
<1>1. UNCHANGED <<ex, arms, live, pair, orch>> /\ eval.pc = a
  BY DEF V1_run_official_eval, run_official_eval
<1>2. eval \in V1_Evaluating /\ eval # Idle
  BY <1>1 DEF V1Inv, V1_Typed, Arms, Idle
<1>3. orch = Idle /\ eval.pair = pair /\ pair.report # "none"
  BY <1>2 DEF V1Inv, V1_OrchIsCurrent, V1_EvalIsOfPair
<1>4. \A b \in Arms : pair.archive[b] \in Nat
  BY DEF V1Inv, V1_Typed, V1_PairDir
<1>5. /\ eval' \in V1_Evaluating /\ eval'.pair = eval.pair
      /\ \/ oe' = oe
         \/ oe' = [oe EXCEPT !.logs[a] = oe.logs[a]]
         \/ oe' = [oe EXCEPT !.logs[a] = pair.archive[a]]
  <2>1. CASE eval.run /\ eval.ack /\ eval.predicted
    <3>1. PICK log \in {oe.logs[a], eval.pair.archive[a]}, failed \in BOOLEAN :
             /\ oe' = [oe EXCEPT !.logs[a] = log]
             /\ eval' = [eval EXCEPT !.failed = @ \/ failed,
                           !.pc = IF a = "control" THEN "treatment" ELSE "ran"]
      BY <2>1 DEF V1_run_official_eval, run_official_eval
    <3> DEFINE f == eval.failed \/ failed
    <3>2. f \in BOOLEAN
      OBVIOUS
    <3>3. eval' = [eval EXCEPT !.failed = f,
                     !.pc = IF a = "control" THEN "treatment" ELSE "ran"]
      BY <3>1
    <3> HIDE DEF f
    <3>4. eval' \in V1_Evaluating /\ eval'.pair = eval.pair
      BY <1>2, <3>2, <3>3 DEF V1_Evaluating
    <3>5. QED
      BY <1>3, <3>1, <3>4
  <2>2. CASE ~(eval.run /\ eval.ack /\ eval.predicted)
    <3>1. eval' = [eval EXCEPT !.pc = "ran"] /\ oe' = oe
      BY <2>2 DEF V1_run_official_eval, run_official_eval
    <3>2. QED
      BY <1>2, <3>1 DEF V1_Evaluating
  <2>3. QED
    BY <2>1, <2>2
<1>6. /\ oe' \in EvalDir /\ oe'.report = oe.report
      /\ \A b \in Arms : oe'.logs[b] \in {oe.logs[b], pair.archive[b]}
  <2>1. oe \in EvalDir
    BY DEF V1Inv, V1_Typed
  <2>2. ASSUME NEW log \in Nat, oe' = [oe EXCEPT !.logs[a] = log], log \in {oe.logs[a], pair.archive[a]}
        PROVE  /\ oe' \in EvalDir /\ oe'.report = oe.report
               /\ \A b \in Arms : oe'.logs[b] \in {oe.logs[b], pair.archive[b]}
    <3>1. [oe.logs EXCEPT ![a] = log] \in [Arms -> Nat]
      BY <2>1 DEF EvalDir
    <3>2. oe' = [oe EXCEPT !.logs = [oe.logs EXCEPT ![a] = log]]
      BY <2>1, <2>2 DEF EvalDir
    <3>3. \A b \in Arms : [oe.logs EXCEPT ![a] = log][b] \in {oe.logs[b], pair.archive[b]}
      BY <2>1, <2>2 DEF EvalDir
    <3>4. QED
      BY <2>1, <3>1, <3>2, <3>3 DEF EvalDir
  <2>3. oe.logs[a] \in Nat
    BY <2>1 DEF EvalDir
  <2>4. QED
    BY <1>4, <1>5, <2>1, <2>2, <2>3
<1>7. V1_EvalIsOfPair'
  BY <1>1, <1>3, <1>5, <1>6 DEF V1Inv, V1_EvalIsOfPair, V1_ReadyIsSound, AllLogged
<1>8. QED
  BY <1>1, <1>3, <1>5, <1>6, <1>7, V1EvalFrame DEF V1Inv

\* A label is of a pair whose report was ready, with two logged arms.
LEMMA V1EvalReportKeeps == ASSUME V1Inv, V1_eval_report PROVE V1Inv'
<1> DEFINE card == [written |-> TRUE, completed |-> official_completed, uplift |-> uplift]
<1>1. UNCHANGED <<ex, arms, live, pair, orch>>
  BY DEF V1_eval_report
<1>2. eval \in V1_Evaluating /\ eval # Idle
  BY DEF V1_eval_report, V1Inv, V1_Typed, Idle
<1>3. orch = Idle /\ eval.pair = pair /\ pair.report # "none"
  BY <1>2 DEF V1Inv, V1_OrchIsCurrent, V1_EvalIsOfPair
<1>4. PICK cut \in BOOLEAN :
         /\ Write(cut, eval', [pc |-> "reported", scorecard |-> card])
         /\ oe' = [oe EXCEPT !.report =
                     IF cut THEN Report("torn", FALSE, FALSE)
                     ELSE Report(V1_eval_decision, V1_eval_gates, official_completed)]
  BY DEF V1_eval_report
<1>5. official_completed \in BOOLEAN /\ uplift \in BOOLEAN /\ V1_eval_gates \in BOOLEAN
      /\ (official_completed => AllLogged)
  BY DEF official_completed, uplift, V1_eval_gates, eval_gates, AllLogged
<1>6. V1_eval_gates => pair.report = "ready"
  BY <1>3 DEF V1_eval_gates, eval_gates
<1>7. V1_eval_decision \in {"blocked", "outcome_label_ready", "pending_or_failed",
                            "ready_pending_official_eval"}
      /\ (V1_eval_decision = "outcome_label_ready" => V1_eval_gates /\ official_completed)
  BY DEF V1_eval_decision
<1>8. /\ eval' \in {Idle} \cup [pc : {"reported"}, scorecard : Scorecard]
      /\ eval' \notin V1_Evaluating
  <2>1. card \in Scorecard
    BY <1>5 DEF Scorecard
  <2> HIDE DEF card
  <2>2. QED
    BY <1>4, <2>1 DEF Write, Idle, V1_Evaluating
<1>9. PICK report \in [decision : {"torn", "blocked", "outcome_label_ready",
                                   "pending_or_failed", "ready_pending_official_eval"},
                       passed : BOOLEAN, completed : BOOLEAN] :
         /\ oe' = [oe EXCEPT !.report = report]
         /\ report.decision = "outcome_label_ready" => pair.report = "ready" /\ AllLogged
  <2>1. CASE cut
    <3> DEFINE report == Report("torn", FALSE, FALSE)
    <3>1. oe' = [oe EXCEPT !.report = report]
      BY <1>4, <2>1
    <3>2. report \in [decision : {"torn", "blocked", "outcome_label_ready",
                                  "pending_or_failed", "ready_pending_official_eval"},
                      passed : BOOLEAN, completed : BOOLEAN]
          /\ report.decision = "torn"
      BY DEF Report
    <3> HIDE DEF report
    <3>3. QED
      BY <3>1, <3>2
  <2>2. CASE ~cut
    <3> DEFINE report == Report(V1_eval_decision, V1_eval_gates, official_completed)
    <3>1. oe' = [oe EXCEPT !.report = report]
      BY <1>4, <2>2
    <3>2. report \in [decision : {"torn", "blocked", "outcome_label_ready",
                                  "pending_or_failed", "ready_pending_official_eval"},
                      passed : BOOLEAN, completed : BOOLEAN]
          /\ report.decision = V1_eval_decision
      BY <1>5, <1>7 DEF Report
    <3> HIDE DEF report
    <3>3. QED
      BY <1>5, <1>6, <1>7, <3>1, <3>2
  <2>3. QED
    BY <2>1, <2>2
<1>10. oe' \in EvalDir /\ oe'.logs = oe.logs /\ oe'.report = report
  BY <1>9 DEF V1Inv, V1_Typed, EvalDir
<1>11. V1_EvalIsOfPair'
  BY <1>1, <1>8, <1>9, <1>10 DEF V1Inv, V1_EvalIsOfPair, AllLogged
<1>12. QED
  BY <1>1, <1>3, <1>8, <1>10, <1>11, V1EvalFrame DEF V1Inv

LEMMA V1ScorecardKeeps == ASSUME V1Inv, V1_eval_scorecard PROVE V1Inv'
<1>1. /\ UNCHANGED <<ex, arms, live, pair, orch>> /\ eval' = Idle /\ eval.pc = "reported"
      /\ oe' = [oe EXCEPT !.scorecard = eval.scorecard]
  BY DEF V1_eval_scorecard, eval_scorecard
<1>2. eval \in [pc : {"reported"}, scorecard : Scorecard] /\ eval # Idle
  BY <1>1 DEF V1Inv, V1_Typed, V1_Evaluating, Idle
<1>3. oe' \in EvalDir /\ oe'.logs = oe.logs /\ oe'.report = oe.report
  BY <1>1, <1>2 DEF V1Inv, V1_Typed, EvalDir
<1>4. orch = Idle /\ Idle \notin V1_Evaluating
  BY <1>2 DEF V1Inv, V1_OrchIsCurrent, V1_Evaluating, Idle
<1>5. V1_EvalIsOfPair'
  BY <1>1, <1>3, <1>4 DEF V1Inv, V1_EvalIsOfPair, AllLogged
<1>6. QED
  BY <1>1, <1>3, <1>4, <1>5, V1EvalFrame DEF V1Inv

\* A pair is taken back with its evaluation.
LEMMA V1ClearKeeps == ASSUME V1Inv, V1_clear PROVE V1Inv'
<1>1. /\ UNCHANGED <<ex, arms, live, orch, eval>> /\ pair' = NoPair /\ oe' = NoEval
  BY DEF V1_clear
<1>2. orch = Idle /\ eval = Idle /\ Idle \notin V1_Assembling /\ Idle \notin V1_Evaluating
  BY DEF V1_clear, V1Inv, V1_Typed, V1_Assembling, V1_Evaluating, Idle
<1>3. /\ NoPair \in V1_PairDir /\ NoPair.report = "none"
      /\ NoEval \in EvalDir /\ NoEval.report.decision = "none"
      /\ \A a \in Arms : NoPair.archive[a] = 0 /\ NoEval.logs[a] = 0
  BY DEF NoPair, V1_PairDir, NoEval, EvalDir, Report, NoScorecard, Scorecard
<1>4. V1_Typed'
  BY <1>1, <1>3 DEF V1Inv, V1_Typed
<1>5. V1_LiveIsAlone' /\ V1_ArchiveIsBacked' /\ V1_OrchIsCurrent' /\ V1_ReadyIsSound'
  BY <1>1, <1>2, <1>3 DEF V1_LiveIsAlone, V1_ArchiveIsBacked, V1_OrchIsCurrent, V1_ReadyIsSound
<1>6. V1_EvalIsOfPair'
  BY <1>1, <1>2, <1>3 DEF V1_EvalIsOfPair
<1>7. QED
  BY <1>4, <1>5, <1>6 DEF V1Inv

LEMMA V1CrashKeeps == ASSUME V1Inv, crash \/ UNCHANGED vars PROVE V1Inv'
<1>1. /\ UNCHANGED <<ex, arms, pair, oe>>
      /\ live' \in {live, Idle} /\ orch' \in {orch, Idle} /\ eval' \in {eval, Idle}
  BY DEF crash, vars
<1>2. Idle \notin V1_Assembling /\ Idle \notin V1_Evaluating
  BY DEF Idle, V1_Assembling, V1_Evaluating
<1>3. V1_Typed'
  BY <1>1 DEF V1Inv, V1_Typed
<1>4. V1_LiveIsAlone' /\ V1_ArchiveIsBacked' /\ V1_OrchIsCurrent'
  BY <1>1, <1>2 DEF V1Inv, V1_LiveIsAlone, V1_ArchiveIsBacked, V1_OrchIsCurrent
<1>5. V1_ReadyIsSound' /\ V1_EvalIsOfPair'
  BY <1>1, <1>2 DEF V1Inv, V1_ReadyIsSound, V1_EvalIsOfPair, AllLogged, Run
<1>6. QED
  BY <1>3, <1>4, <1>5 DEF V1Inv

LEMMA NextKeepsV1Inv == V1Inv /\ [V1_Next]_vars => V1Inv'
<1> SUFFICES ASSUME V1Inv, [V1_Next]_vars PROVE V1Inv'
  OBVIOUS
<1>1. CASE V1_Next
  BY <1>1, V1LiveKeeps, V1ClearKeeps, V1CrashKeeps, V1LiveStartKeeps, V1ArchivePatchKeeps,
     V1RunEvalKeeps, V1LoadKeeps, V1CopyKeeps, V1ReportKeeps, V1SummaryKeeps, V1EvalStartKeeps,
     V1EvalReportKeeps, V1ScorecardKeeps DEF V1_Next, V1_pair_summary
<1>2. CASE UNCHANGED vars
  BY <1>2, V1CrashKeeps
<1>3. QED
  BY <1>1, <1>2

\* BOUNDARY of the v1 evaluation, for any executions, any number of them and any
\* deaths of processes: with no arm that died between its files and its report, a
\* label is of the patches archived of two completed arms of one recording, the
\* treatment never blocked.
THEOREM V1LabelsAreEarned == V1_Spec => []V1LabelIsEarned
<1>1. V1Inv => V1LabelIsEarned
  <2>1. SUFFICES ASSUME V1Inv, oe.report.decision = "outcome_label_ready", V1_whole
                 PROVE  /\ \A a \in Arms : /\ oe.logs[a] = pair.archive[a]
                                           /\ Run(oe.logs[a]).arm = a /\ Run(oe.logs[a]).completed
                        /\ Run(oe.logs["control"]).replay = Run(oe.logs["treatment"]).replay
                        /\ ~Run(oe.logs["treatment"]).blocked
    BY DEF V1LabelIsEarned
  <2>2. pair.report = "ready" /\ \A a \in Arms : oe.logs[a] = pair.archive[a]
    BY <2>1 DEF V1Inv, V1_EvalIsOfPair, AllLogged
  <2>3. \A a \in Arms : oe.logs[a] = arms[a].report /\ oe.logs[a] = arms[a].files
    BY <2>1, <2>2 DEF V1Inv, V1_ReadyIsSound, V1_whole
  <2>4. QED
    BY <2>1, <2>2, <2>3 DEF V1Inv, V1_ReadyIsSound, Arms
<1>2. QED
  BY <1>1, InitV1Inv, NextKeepsV1Inv, PTL DEF V1_Spec
=============================================================================
