------------------------------ MODULE ReupItems ------------------------------
(***************************************************************************)
(* One clip of the reup queue and what the orchestrator does to it.        *)
(*                                                                         *)
(* A clip is a record [it, jobs, talk, bind]: its queue item, the jobs     *)
(* created for its source video in creation order (a job's id is its       *)
(* position), what Analyze Audio found about its dialogue, and the preview *)
(* a transaction still has to link ("no" between transactions).  Every     *)
(* operator here maps a clip to a clip.  The answers of the outside world  *)
(* (a creation refused, a quality verdict) come in as the parameter ans.   *)
(***************************************************************************)
EXTENDS PipelinePlan

JobKinds == Stages \cup {"preview"}
JobStates == {"live", "completed", "failed", "cancelled"}
Dead == {"failed", "cancelled"}
Active == {"READY", "MEDIA", "METADATA"}
Talks == {"unknown", "speech", "silent", "uncertain"}
ParkedSteps == {"ready_final", "needs_attention", "quality_review", "translation_review"}

\* The columns status, held_at, started_at, media_ready_at and job_id, and the
\* keys of the one JSON column metadata_json (mode and below).
NewItem ==
  [status |-> "READY", held |-> FALSE, started |-> FALSE, ready |-> FALSE, job |-> 0,
   mode |-> "manual", hold |-> FALSE, step |-> "none", last |-> "none", wait |-> FALSE,
   failed |-> "none", link |-> [s \in Stages |-> 0], tries |-> 0, fetched |-> FALSE]

MetaKeys == {"mode", "hold", "step", "last", "wait", "failed", "link", "tries", "fetched"}

NewClip == [it |-> NewItem, jobs |-> <<>>, talk |-> "unknown", bind |-> "no"]

IsAuto(it) == it.mode \in AutoModes
IsHeld(it) == it.held \/ it.hold

\* is_in_flight: the item occupies a slot of the auto lane.
InFlight(it) == IsAuto(it) /\ ~it.wait /\ it.status \in Active /\ it.step \notin ParkedSteps

Owns(c, kind) == c.it.job # 0 /\ c.jobs[c.it.job].kind = kind

HasLiveJob(c) == c.it.job # 0 /\ c.jobs[c.it.job].status = "live"
LiveJobs(c, kind) == {n \in DOMAIN c.jobs : c.jobs[n].kind = kind /\ c.jobs[n].status = "live"}
KeyedJobs(c, kind) == {n \in DOMAIN c.jobs : c.jobs[n].kind = kind /\ c.jobs[n].key}

-----------------------------------------------------------------------------
(* Item updates *)

Resolved(step) == IF step = "none" THEN "unknown" ELSE step

\* _mark_needs_attention
Attention(c, step) ==
  [c EXCEPT !.it = [@ EXCEPT !.status = "FAILED", !.step = "needs_attention",
                             !.hold = TRUE, !.failed = Resolved(step)]]

AttentionHere(c) == Attention(c, c.it.step)

AtStep(c, step) == [c EXCEPT !.it.step = step]

\* The item is bound to its current job as the job of this stage.
Linked(c, step, status) ==
  [c EXCEPT !.it = [@ EXCEPT !.step = step, !.status = status, !.link[step] = c.it.job]]

UseJob(c, n) == [c EXCEPT !.it.job = n]

\* A new durable job, bound to the item in the same unit of work.
UseNew(c, kind, key, variant) ==
  [c EXCEPT !.jobs = Append(@, [kind |-> kind, status |-> "live", key |-> key,
                                variant |-> variant]),
            !.it.job = Len(c.jobs) + 1]

\* _release_download_job_idempotency_slot (whatever the kind of the job): other
\* queries see it from the commit on, the session does not flush by itself.
Released(c, n) == IF n = 0 THEN c ELSE [c EXCEPT !.jobs[n].key = FALSE]

\* The item drops a failed or cancelled job of this kind, and its key.
Shed(c, kind) ==
  IF Owns(c, kind) /\ c.jobs[c.it.job].status \in Dead
  THEN UseJob(Released(c, c.it.job), 0) ELSE c

Later(step, than) == Rank(step) > Rank(than)

\* Mutant of Recorded: any callback overwrites the progress.
RecordedLast(c, step) == [c EXCEPT !.it.last = step]

\* _record_completed_step: progress is monotone.
Recorded(c, step) ==
  IF step \in Stages /\ Later(step, c.it.last) THEN [c EXCEPT !.it.last = step] ELSE c

\* _finish_pipeline
Finished(c) == [c EXCEPT !.it = [@ EXCEPT !.step = "ready_final", !.status = "METADATA"]]

-----------------------------------------------------------------------------
(* One operator per stage: find or create its job and bind the item to it *)

\* The item's own download job is kept unless it is dead.
KeepDownload(c) == IF Owns(c, "download") THEN Shed(c, "download") ELSE UseJob(c, 0)

\* The key finds the job of an earlier attempt, whatever its status; a key that
\* this unit of work has released is still the one in the table (was), so that
\* the dead job just dropped is found and bound again.
DownloadJob(c, was) ==
  LET keyed == KeyedJobs(was, "download")
  IN IF Owns(c, "download") THEN c
     ELSE IF keyed # {} THEN UseJob(c, Max(keyed)) ELSE UseNew(c, "download", TRUE, "plain")

EnsureDownload(c, ans) ==
  LET kept == KeepDownload(c)
      begun == [DownloadJob(kept, c) EXCEPT !.it.started = TRUE]
  IN IF ans = "refused" /\ ~Owns(kept, "download") THEN AttentionHere(kept)
     ELSE Linked(begun, "download", "MEDIA")

\* Mutant of SingleFlight: the live job is not looked up.
AlwaysFresh(c, kind) == UseNew(c, kind, FALSE, "plain")

\* Single flight on the source video: a live job of the kind is reused.
SingleFlight(c, kind) ==
  LET live == LiveJobs(c, kind)
  IN IF live # {} THEN UseJob(c, Max(live)) ELSE UseNew(c, kind, FALSE, "plain")

EnsureAnalyze(c, ans) ==
  LET ready == [c EXCEPT !.it.ready = TRUE]
  IN IF ans = "refused" THEN AttentionHere(ready)
     ELSE Linked(SingleFlight(ready, "analyze_audio"), "analyze_audio", "METADATA")

EnsureTranslation(c, ans) ==
  IF ans = "refused" THEN AttentionHere(c)
  ELSE Linked(SingleFlight(c, "translate"), "translate", "METADATA")

\* create_tts_job: a live job, then the keyed one: given back when COMPLETED,
\* retried when it FAILED and may be retried on this runtime ("fresh": it may
\* not), else replaced by a job without a key.  The retry commits on its way.
TtsJob(c, ans) ==
  LET live == LiveJobs(c, "tts")
      keyed == KeyedJobs(c, "tts")
      n == Max(keyed)
  IN IF live # {} THEN UseJob(c, Max(live))
     ELSE IF keyed = {} THEN UseNew(c, "tts", TRUE, "plain")
     ELSE IF c.jobs[n].status \notin Dead THEN UseJob(c, n)
     ELSE IF c.jobs[n].status = "failed" /\ ans # "fresh"
     THEN UseJob([c EXCEPT !.jobs[n].status = "live"], n)
     ELSE UseNew(c, "tts", FALSE, "plain")

EnsureTts(c, ans) ==
  IF ans = "refused" THEN AttentionHere(c)
  ELSE IF ans = "review"
  THEN [c EXCEPT !.it = [@ EXCEPT !.step = "translation_review", !.job = 0, !.status = "METADATA"]]
  ELSE Linked(TtsJob(c, ans), "tts", "METADATA")

\* create_ocr_job reuses a live job of the same workflow action and auto flag.
OcrJob(c, variant) ==
  LET same == {n \in LiveJobs(c, "ocr") : c.jobs[n].variant = variant}
  IN IF same # {} THEN UseJob(c, Max(same)) ELSE UseNew(c, "ocr", FALSE, variant)

EnsureOcr(c, ans) ==
  IF ans = "refused" THEN AttentionHere(c)
  ELSE Linked(OcrJob(c, IF c.it.mode = "auto_to_render" THEN "auto" ELSE "plain"),
              "ocr", "METADATA")

\* _ensure_auto_ocr_review.  A refusal here, and one of QueuePreview, leaves the
\* callback as an exception: Die.
EnsureOcrReview(c) == Linked(OcrJob(c, "approve"), "ocr", c.it.status)

EnsureRender(c, ans) ==
  IF ans = "refused" THEN AttentionHere(c)
  ELSE Linked(UseNew(c, "render", FALSE, "plain"), "render", "METADATA")

\* Mutant of QueuePreview: nothing remembers that the preview is to be linked.
QueueUnlinked(c, why) ==
  [c EXCEPT !.jobs = Append(@, [kind |-> "preview", status |-> "live", key |-> FALSE,
                                variant |-> "plain"])]

\* create_preview_job and create_residual_review_job commit the new job before
\* the item is bound to it; the binding is left to the next transaction.
QueuePreview(c, why) ==
  [c EXCEPT !.jobs = Append(@, [kind |-> "preview", status |-> "live", key |-> FALSE,
                                variant |-> "plain"]),
            !.bind = why]

\* The rest of _ensure_quality_preview and _ensure_auto_residual_remediation.
BindPreview(c, n, why, tries) ==
  [c EXCEPT !.it = [@ EXCEPT !.job = n, !.step = "quality_review", !.status = "METADATA",
                             !.tries = IF why = "residual" THEN tries ELSE c.it.tries]]

\* _ENSURE_METHOD_BY_STEP, with its default.
Ensure(c, step, ans) ==
  CASE step = "analyze_audio" -> EnsureAnalyze(c, ans)
    [] step = "translate" -> EnsureTranslation(c, ans)
    [] step = "tts" -> EnsureTts(c, ans)
    [] step = "ocr" -> EnsureOcr(c, ans)
    [] step = "render" -> EnsureRender(c, ans)
    [] OTHER -> EnsureDownload(c, ans)

-----------------------------------------------------------------------------
(* What a completed stage leads to *)

SkipDubbing(c) == c.talk = "silent"
Uncertain(c) == c.talk = "uncertain"

\* _run_next_step, up to the catch-up with the stage it ensures.
RunNextStep(c, done, ans) ==
  LET next == NextStep(done, c.it.mode, SkipDubbing(c))
  IN IF next = "none" THEN Finished(c) ELSE Ensure(AtStep(c, next), next, ans)

\* The full-auto policy after OCR.
AfterAutoOcr(c, ans) ==
  CASE ans \in {"ok", "can_render", "refused"} -> EnsureRender(AtStep(c, "render"), ans)
    [] ans = "ocr_review" -> EnsureOcrReview(c)
    [] ans = "preview" -> QueuePreview(c, "preview")
    [] OTHER -> AttentionHere(c)

ParkForQuality(c) ==
  [c EXCEPT !.it = [@ EXCEPT !.step = "quality_review", !.status = "METADATA"]]

\* The completed job n of the current stage leads on to the next one of the plan.
LeadsOn(c, n, ans) ==
  LET kind == c.jobs[n].kind
  IN /\ kind # "preview" /\ c.it.step = kind
     /\ kind = "analyze_audio" => ~Uncertain(c)
     /\ kind = "ocr" => c.it.mode # "auto_to_render" /\ ans \in {"ok", "can_render"}
     /\ kind = "render" => ans # "fail" /\ ~(ans = "pass" /\ c.it.mode = "auto_to_render")

\* Only the current stage may advance the item.
AfterSuccess(c, n, ans) ==
  LET kind == c.jobs[n].kind
  IN IF kind = "preview" \/ c.it.step # kind THEN c
     ELSE IF LeadsOn(c, n, ans) THEN RunNextStep(c, kind, ans)
     ELSE CASE kind = "analyze_audio" -> AttentionHere(c)
            [] kind = "ocr" -> IF c.it.mode = "auto_to_render" THEN AfterAutoOcr(c, ans)
                               ELSE ParkForQuality(c)
            [] kind = "render" -> IF ans = "fail" THEN AttentionHere(c)
                                  ELSE AtStep(UseJob(c, n), "ready_final")

\* _catch_up_terminal_step: the job the stage is bound to may have ended already.
CatchUp(c, step, ans) ==
  LET n == c.it.job
  IN IF n = 0 THEN c
     ELSE IF c.jobs[n].kind # step THEN c
     ELSE IF c.jobs[n].status = "completed"
     THEN AfterSuccess(Recorded(c, step), n, ans)
     ELSE IF c.jobs[n].status \in Dead THEN AttentionHere(c) ELSE c

\* _ensure_step.  The stage after a caught-up one is never terminal yet (its job
\* is live or new), so one level of catch-up is all there is.
EnsureStep(c, step, ans) == CatchUp(Ensure(c, step, ans), step, ans)

\* _advance_after_success: the stage it leads on to may have ended already.
AdvanceAfterSuccess(c, n, ans) ==
  LET after == AfterSuccess(c, n, ans)
      next == NextStep(c.jobs[n].kind, c.it.mode, SkipDubbing(c))
  IN IF LeadsOn(c, n, ans) /\ next # "none" THEN CatchUp(after, next, ans) ELSE after

\* Mutant of Remediate: the cap is not checked.
RemediateForever(c, ans) == QueuePreview(c, "residual")

\* _ensure_auto_residual_remediation: two attempts for each residual authority.
Remediate(c, ans) ==
  IF c.it.tries >= 2 /\ ans = "residual" THEN AttentionHere(c) ELSE QueuePreview(c, "residual")

\* A preview completed while its item waits in quality_review.
AfterPreview(c, ans) ==
  IF c.it.mode # "auto_to_render" THEN ParkForQuality(c)
  ELSE IF ans \in {"can_render", "refused"} THEN EnsureRender(AtStep(c, "render"), ans)
  ELSE IF ans \in {"residual", "residual_new"} THEN Remediate(c, ans)
  ELSE AttentionHere(c)

-----------------------------------------------------------------------------
(* The terminal callback of a job, for the clip of its source video *)

\* sync_reup_queue_from_download_job
SyncDownload(c, n, out) ==
  IF c.jobs[n].kind # "download" \/ c.it.job # n \/ c.it.status # "MEDIA" THEN c
  ELSE IF out = "completed" THEN [c EXCEPT !.it.fetched = TRUE]
  ELSE [c EXCEPT !.it = [@ EXCEPT !.status = "FAILED", !.fetched = FALSE]]

\* _find_items_for_job
FoundFor(c, n) ==
  /\ c.it.status \in Active
  /\ \/ c.it.job = n
     \/ /\ IsAuto(c.it)
        /\ \/ \E s \in Stages : c.it.link[s] = n
           \/ c.jobs[n].kind = "preview" /\ c.it.step = "quality_review"

FailedStep(kind) == IF kind = "preview" THEN "render_preview" ELSE kind

\* A preview that failed because its own QA found residual text is remediated.
FailedPreviewHeals(c, n, ans) ==
  /\ c.jobs[n].kind = "preview" /\ c.it.mode = "auto_to_render"
  /\ c.it.step = "quality_review" /\ ans \in {"residual", "residual_new"}

\* Mutant of Advanced: the hold is not honoured.
AdvancedThroughHold(c, n, out, ans) ==
  LET noted == IF out = "completed" THEN Recorded(c, c.jobs[n].kind) ELSE c
  IN IF ~IsAuto(noted.it) THEN noted
     ELSE IF out = "failed" THEN Attention(noted, FailedStep(c.jobs[n].kind))
     ELSE AdvanceAfterSuccess(noted, n, ans)

\* on_job_terminal, before the lane is looked at.
Advanced(c, n, out, ans) ==
  LET kind == c.jobs[n].kind
      noted == IF out = "completed" THEN Recorded(c, kind) ELSE c
  IN CASE ~IsAuto(noted.it) -> noted
       [] IsAuto(noted.it) /\ out = "failed" ->
            IF FailedPreviewHeals(noted, n, ans) THEN Remediate(noted, ans)
            ELSE Attention(noted, FailedStep(kind))
       [] IsAuto(noted.it) /\ out = "completed" /\ IsHeld(noted.it) -> noted
       [] OTHER -> IF kind = "preview" /\ noted.it.step = "quality_review"
                   THEN AfterPreview(noted, ans)
                   ELSE AdvanceAfterSuccess(noted, n, ans)

-----------------------------------------------------------------------------
(* Switching the automation, resuming, and repairing a stale clip *)

Unheld(c) == [c EXCEPT !.it.held = FALSE, !.it.hold = FALSE]

\* set_automation
SetAutomation(c, mode, ans) ==
  LET auto == Unheld([c EXCEPT !.it.mode = mode])
      next == NextStep(auto.it.last, mode, SkipDubbing(auto))
  IN CASE mode \notin AutoModes -> [c EXCEPT !.it.mode = mode]
       [] mode \in AutoModes /\ HasLiveJob(auto) -> auto
       [] OTHER ->
            IF auto.it.last = "analyze_audio" /\ Uncertain(auto) THEN AttentionHere(auto)
            ELSE IF auto.it.last = "none" /\ auto.it.step \in Stages
            THEN EnsureStep(auto, auto.it.step, ans)
            ELSE IF next = "none" THEN Finished(auto)
            ELSE EnsureStep(AtStep(auto, next), next, ans)

\* The step resume_item picks up; "keep" when it leaves the item as it is and
\* "switch" when it goes on from the recorded progress.
ResumeStep(c) ==
  IF c.it.step = "none" THEN "download"
  ELSE IF c.it.step \in {"ready_final", "translation_review"} THEN "keep"
  ELSE IF c.it.step # "needs_attention" \/ c.it.failed \in Stages
  THEN IF c.it.step = "needs_attention" THEN c.it.failed ELSE c.it.step
  ELSE IF c.it.last = "analyze_audio" /\ ~Uncertain(c) THEN "switch"
  ELSE IF c.it.last \in Stages \ {"download"} THEN c.it.last
  ELSE IF c.it.failed = "none" THEN "keep" ELSE "needs_attention"

\* resume_item
ResumeItem(c, ans) ==
  LET free == Unheld(c)
      step == ResumeStep(c)
      at == IF c.it.step = "needs_attention" THEN AtStep(free, step) ELSE free
  IN CASE step = "keep" -> free
       [] step = "switch" -> SetAutomation(free, free.it.mode, ans)
       [] OTHER -> EnsureStep([at EXCEPT !.it.failed = "none"], step, ans)

\* The job reconcile_stale_auto_items looks at; 0 when there is none.
AuthorityJob(it) ==
  IF it.link[it.step] # 0 THEN it.link[it.step] ELSE IF it.step = "download" THEN it.job ELSE 0

\* reconcile_stale_auto_items, for one candidate.
Reconciled(c, ans) ==
  LET counted == c.it.status \in Active /\ IsAuto(c.it) /\ ~IsHeld(c.it) /\ ~c.it.wait
      n == IF counted /\ c.it.step \in Stages THEN AuthorityJob(c.it) ELSE 0
  IN IF n = 0 THEN c
     ELSE IF c.jobs[n].status = "completed" THEN AdvanceAfterSuccess(c, n, ans)
     ELSE IF c.jobs[n].status \in Dead THEN Attention(c, FailedStep(c.jobs[n].kind)) ELSE c
=============================================================================
