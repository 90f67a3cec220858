---------------------------- MODULE PipelinePlan ----------------------------
(***************************************************************************)
(* The declarative plan of the reup pipeline (reup_pipeline_plan.py): the  *)
(* order of the stages, where each automation mode stops, which stages a   *)
(* clip without dialogue skips, and what runs next.                        *)
(***************************************************************************)
EXTENDS Naturals, Sequences, FiniteSetsExt

Order == <<"download", "analyze_audio", "translate", "tts", "ocr", "render">>
Stages == {Order[k] : k \in DOMAIN Order}

\* Position of a stage in the order; 0 when nothing is completed yet.
Rank(step) == IF step = "none" THEN 0 ELSE CHOOSE k \in DOMAIN Order : Order[k] = step

Dubbing == {"translate", "tts"}
AutoModes == {"auto_to_tts", "auto_to_render"}

LastStep(mode) == IF mode = "auto_to_tts" THEN "tts" ELSE "render"

\* Mutant of NextStep: the completed stage is asked for again.
NextStepAgain(done, mode, skip) ==
  LET ahead == {k \in DOMAIN Order :
                  /\ k >= Rank(done) /\ k > 0 /\ k <= Rank(LastStep(mode))
                  /\ ~(skip /\ Order[k] \in Dubbing)}
  IN IF mode \in AutoModes /\ ahead # {} THEN Order[Min(ahead)] ELSE "none"

\* Mutant of NextStep: the dubbing stages are never run.
NextStepSilent(done, mode, skip) ==
  LET ahead == {k \in DOMAIN Order :
                  /\ k > Rank(done) /\ k <= Rank(LastStep(mode))
                  /\ Order[k] \notin Dubbing}
  IN IF mode \in AutoModes /\ ahead # {} THEN Order[Min(ahead)] ELSE "none"

\* next_pipeline_step: the stage to enqueue after done finished, or "none" when
\* the plan of this mode is complete.
NextStep(done, mode, skip) ==
  LET ahead == {k \in DOMAIN Order :
                  /\ k > Rank(done) /\ k <= Rank(LastStep(mode))
                  /\ ~(skip /\ Order[k] \in Dubbing)}
  IN IF mode \in AutoModes /\ ahead # {} THEN Order[Min(ahead)] ELSE "none"
=============================================================================
