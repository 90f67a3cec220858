---------------------------- MODULE ReupPipeline ----------------------------
(***************************************************************************)
(* The auto lane of the reup queue: workers that settle jobs and call the  *)
(* orchestrator back, operators that act on queue items, and the bounded   *)
(* lane that admits parked clips when a slot is free.                      *)
(*                                                                         *)
(* A transaction reads the items when it begins (view) and writes the      *)
(* columns it changed when it commits; pc is "busy" in between.  A worker  *)
(* whose step queued a preview, and a pause that cancelled a job, have     *)
(* committed half of their work and are at "bind".                         *)
(***************************************************************************)
EXTENDS ReupItems, Naturals, FiniteSets

CONSTANTS
  N,             \* clips are 1..N, in admission order (priority, then age)
  Workers,       \* worker processes, each executing one job at a time
  Operators,     \* concurrent API sessions
  Requests,      \* the requests operators may make
  Modes,         \* the automation modes operators may choose
  Limit,         \* reup_max_items_in_flight
  Fails,         \* kinds of job that may end FAILED
  Answers,       \* answers of the outside world: creations and quality verdicts
  Dialogues,     \* what Analyze Audio may find
  JobBound,      \* bound: no transaction begins on a clip with more jobs
  RequestBound,  \* bound: requests made by operators, in all
  LossBound,     \* bound: jobs that end without a callback, and worker deaths
  Overlap        \* how transactions may overlap: "none"; "short": no stage's
                 \* handler returns before the transactions that were open when
                 \* its job was created have ended; or "any"

ASSUME ReupAssumption ==
  /\ N \in Nat \ {0} /\ Limit \in Nat \ {0}
  /\ {JobBound, RequestBound, LossBound} \subseteq Nat
  /\ Workers \cap Operators = {} /\ Modes \subseteq AutoModes \cup {"manual"}
  /\ Fails \subseteq JobKinds /\ Dialogues \subseteq Talks
  /\ Overlap \in {"none", "short", "any"}

VARIABLES
  clips,    \* the database: the clip of each item
  pc,       \* where each worker and operator session is
  task,     \* what it is doing
  view,     \* the clips when its transaction read their items
  asked,    \* requests made so far
  lost      \* callbacks and workers lost so far

vars == <<clips, pc, task, view, asked, lost>>

Items == 1..N
Actors == Workers \cup Operators
AllRequests == {"start_auto", "set_auto", "hold", "resume", "retry", "cancel", "block",
                "start", "media_ready", "approve_text", "approve_quality", "enqueue"}

NoTask == [act |-> "none", item |-> 0, job |-> 0, mode |-> "none", talk |-> "none",
           ans |-> "none", seat |-> "none", tries |-> 0]
NoView == <<>>

ItemType ==
  [status : Active \cup {"FAILED", "CANCELLED"}, held : BOOLEAN, started : BOOLEAN,
   ready : BOOLEAN, job : Nat, mode : AutoModes \cup {"manual"}, hold : BOOLEAN,
   step : Stages \cup ParkedSteps \cup {"none"}, last : Stages \cup {"none"}, wait : BOOLEAN,
   failed : Stages \cup ParkedSteps \cup {"none", "unknown", "render_preview"},
   link : [Stages -> Nat], tries : Nat, fetched : BOOLEAN]

JobType == [kind : JobKinds, status : JobStates, key : BOOLEAN,
            variant : {"plain", "auto", "approve"}]

TypeOK ==
  /\ \A i \in Items : /\ clips[i].it \in ItemType
                      /\ clips[i].jobs \in Seq(JobType)
                      /\ clips[i].talk \in Talks /\ clips[i].bind = "no"
                      /\ clips[i].it.job <= Len(clips[i].jobs)
  /\ pc \in [Actors -> {"idle", "busy", "bind"}]
  /\ \A a \in Actors : pc[a] # "idle" => task[a].item \in Items
  /\ asked \in 0..RequestBound /\ lost \in 0..LossBound

-----------------------------------------------------------------------------
(* Transactions *)

\* The items as the transaction of a read them; the second half of one reads
\* them again.
Read(a) == IF pc[a] = "bind" THEN clips ELSE view[a]

\* The database as the transaction of a sees it: items as read, jobs current.
Seen(a) == [i \in Items |-> [clips[i] EXCEPT !.it = Read(a)[i].it]]

\* The columns a transaction writes are those that differ from what it read;
\* metadata_json is one column.
Flush(new, old, now) ==
  LET metaWritten == \E f \in MetaKeys : new[f] # old[f]
  IN [f \in DOMAIN now |->
        IF f \in MetaKeys
        THEN IF metaWritten THEN new[f] ELSE now[f]
        ELSE IF new[f] # old[f] THEN new[f] ELSE now[f]]

Write(a, db) ==
  clips' = [i \in Items |->
              [db[i] EXCEPT !.it = Flush(db[i].it, Read(a)[i].it, clips[i].it), !.bind = "no"]]

Enter(a, t) ==
  /\ Overlap = "none" => \A b \in Actors : pc[b] = "idle"
  /\ pc' = [pc EXCEPT ![a] = "busy"]
  /\ task' = [task EXCEPT ![a] = t]
  /\ view' = [view EXCEPT ![a] = clips]

Leave(a) ==
  /\ pc' = [pc EXCEPT ![a] = "idle"]
  /\ task' = [task EXCEPT ![a] = NoTask]
  /\ view' = [view EXCEPT ![a] = NoView]

\* The transaction committed half of its work and reads the items again.
Halfway(a, t) ==
  /\ pc' = [pc EXCEPT ![a] = "bind"]
  /\ task' = [task EXCEPT ![a] = t]
  /\ view' = [view EXCEPT ![a] = NoView]

\* Every open transaction began when job n of clip i existed already.
Outlasted(i, n) == \A a \in Actors : pc[a] = "busy" => n <= Len(view[a][i].jobs)

\* Job n of clip i is being settled: its row is locked.
Settling(i, n) ==
  \E w \in Workers : pc[w] = "busy" /\ task[w].item = i /\ task[w].job = n

-----------------------------------------------------------------------------
(* The lane *)

CountInFlight(db, ids) == Cardinality({i \in ids : InFlight(db[i].it)})

Reconcile(db, ids, seat) ==
  [i \in Items |-> IF i \in ids THEN Reconciled(db[i], seat) ELSE db[i]]

\* Mutant of AdmissionPlan: one slot too many.
AdmitOneMore(db) ==
  LET parked == {i \in Items : db[i].it.status \in Active /\ db[i].it.wait}
  IN {i \in parked : Cardinality({j \in parked : j <= i}) <= Limit - CountInFlight(db, Items) + 1}

\* Mutant of AdmissionPlan: the slots are not counted.
AdmitEveryone(db) == {i \in Items : db[i].it.status \in Active /\ db[i].it.wait}

\* admission_plan: the parked items that get the free slots.
AdmissionPlan(db) ==
  LET free == Limit - CountInFlight(db, Items)
      parked == {i \in Items : db[i].it.status \in Active /\ db[i].it.wait}
  IN {i \in parked : Cardinality({j \in parked : j <= i}) <= free}

\* Mutant of Admit: a finished clip does not look for a successor.
AdmitNobody(db, seat) == Reconcile(db, Items, seat)

\* admit_waiting_items
Admit(db, seat) ==
  LET fresh == Reconcile(db, Items, seat)
      plan == AdmissionPlan(fresh)
  IN [i \in Items |->
        IF i \in plan
        THEN SetAutomation([fresh[i] EXCEPT !.it.wait = FALSE], fresh[i].it.mode, seat)
        ELSE fresh[i]]

LaneFull(db, i) == CountInFlight(db, Items \ {i}) >= Limit

-----------------------------------------------------------------------------
(* Workers *)

Replies(kind) ==
  CASE kind = "translate" -> {"ok", "review", "refused", "fresh"}
    [] kind = "ocr" -> {"can_render", "ocr_review", "preview", "blocked", "refused"}
    [] kind = "preview" -> {"can_render", "residual", "residual_new", "blocked", "refused"}
    [] kind = "render" -> {"pass", "warn", "fail"}
    [] OTHER -> {"ok", "refused"}

Outcomes(kind) == {"completed"} \cup (IF kind \in Fails THEN {"failed"} ELSE {})

\* The handler of a live job returned; run_job is about to settle it.
Begin(w) ==
  \E i \in Items :
    \E n \in DOMAIN clips[i].jobs :
      LET kind == clips[i].jobs[n].kind
      IN /\ pc[w] = "idle"
         /\ clips[i].jobs[n].status = "live" /\ ~Settling(i, n)
         /\ Len(clips[i].jobs) <= JobBound
         /\ Overlap = "short" => Outlasted(i, n)
         /\ \E out \in Outcomes(kind),
               talk \in IF kind = "analyze_audio" THEN Dialogues ELSE {clips[i].talk},
               ans \in Answers \cap Replies(kind),
               seat \in Answers \cap {"ok", "refused", "fresh", "ocr_review", "preview",
                                     "blocked"} :
              Enter(w, [NoTask EXCEPT !.act = out, !.item = i, !.job = n, !.talk = talk,
                                      !.ans = ans, !.seat = seat])
         /\ UNCHANGED <<clips, asked, lost>>

\* The job's new status, the download sync and the orchestrator's callback.
Settled(db, t) ==
  LET ended == [db[t.item] EXCEPT !.jobs[t.job].status = t.act,
                                  !.talk = IF t.act = "completed" THEN t.talk ELSE @]
      synced == SyncDownload(ended, t.job, t.act)
  IN IF FoundFor(synced, t.job)
     THEN [db EXCEPT ![t.item] = Advanced(synced, t.job, t.act, t.ans)]
     ELSE [db EXCEPT ![t.item] = synced]

\* Whether the callback found the item: only then is the lane looked at.
LaneIsLookedAt(db, t) == FoundFor(SyncDownload(db[t.item], t.job, t.act), t.job)

\* Attempts of the preview's authority once it is linked.
NextTries(t, it) == IF t.ans = "residual_new" THEN 1 ELSE it.tries + 1

\* The commit of worker w, whose transaction t leads to db.  A preview queued on
\* the way is committed before it is linked; a second one is left to the repair
\* that follows the linking.
Commit(w, t, db) ==
  LET unlinked == {i \in Items : db[i].bind # "no"}
      i == Min(unlinked)
  IN IF unlinked = {} THEN Write(w, db) /\ Leave(w)
     ELSE /\ Write(w, [j \in Items |-> IF j \in unlinked \ {i} THEN Seen(w)[j] ELSE db[j]])
          /\ Halfway(w, [t EXCEPT !.act = db[i].bind, !.item = i, !.job = Len(db[i].jobs),
                                  !.tries = NextTries(t, db[i].it)])

SettleJob(w) ==
  LET t == task[w]
      db == Settled(Seen(w), t)
      toLink == db[t.item].bind # "no"
  IN /\ pc[w] = "busy" /\ w \in Workers
     /\ Commit(w, t, IF ~toLink /\ LaneIsLookedAt(Seen(w), t) THEN Admit(db, t.seat) ELSE db)
     /\ UNCHANGED <<asked, lost>>

\* The second half of a step that queued a preview.
LinkPreview(w) ==
  LET t == task[w]
      linked == [clips EXCEPT ![t.item] = BindPreview(@, t.job, t.act, t.tries)]
  IN /\ pc[w] = "bind" /\ w \in Workers
     /\ Commit(w, t, Admit(linked, t.seat))
     /\ UNCHANGED <<asked, lost>>

\* A worker dies in a transaction, or an exception leaves its callback (a preview
\* or an OCR review refused) and rolls it back.  Its job, if not settled yet, stays
\* live: the queue recovers and runs it again.
Die(w) ==
  /\ pc[w] # "idle" /\ lost < LossBound
  /\ lost' = lost + 1
  /\ Leave(w)
  /\ UNCHANGED <<clips, asked>>

\* The job ends without a callback: cancelled from the Ops page, or failed by
\* the stale sweep.
EndSilently(i) ==
  \E n \in DOMAIN clips[i].jobs, status \in Dead :
    /\ clips[i].jobs[n].status = "live" /\ ~Settling(i, n)
    /\ lost < LossBound
    /\ clips' = [clips EXCEPT ![i].jobs[n].status = status]
    /\ lost' = lost + 1
    /\ UNCHANGED <<pc, task, view, asked>>

-----------------------------------------------------------------------------
(* Operators *)

DownloadIdle(c) ==
  LET done == c.it.fetched \/ (c.it.job # 0 /\ c.jobs[c.it.job].status = "completed")
  IN ~done /\ ~(Owns(c, "download") /\ HasLiveJob(c))

AnalyzeFailed(c) == Owns(c, "analyze_audio") /\ c.jobs[c.it.job].status = "failed"

\* available_action_values, the two approval routes and the enqueue request.
Available(c) ==
  LET it == c.it
      resumable == \/ it.status = "FAILED"
                   \/ (it.status \in Active /\ it.held)
                   \/ (it.status = "MEDIA" /\ DownloadIdle(c))
  IN {act \in AllRequests :
        \/ act \in {"approve_text", "approve_quality"}
        \/ act \in {"set_auto", "block"} /\ it.status \in Active
        \/ act = "cancel" /\ it.status \in Active \cup {"FAILED"}
        \/ act \in {"start", "start_auto"} /\ it.status = "READY"
        \/ act = "media_ready" /\ it.status \in {"MEDIA", "METADATA"}
        \/ act = "hold" /\ it.status \in Active /\ ~resumable
        \/ act = "resume" /\ resumable
        \/ act = "retry" /\ (it.status = "FAILED" \/ (it.status = "METADATA" /\ AnalyzeFailed(c)))
        \/ act = "enqueue" /\ it.status = "CANCELLED"}

Ask(o) ==
  \E i \in Items, act \in Requests, mode \in Modes,
     ans \in Answers \cap {"ok", "refused", "fresh"} :
    /\ pc[o] = "idle" /\ asked < RequestBound
    /\ Len(clips[i].jobs) <= JobBound
    /\ act \in Available(clips[i])
    /\ act \notin {"start_auto", "set_auto"} => mode = CHOOSE m \in Modes : TRUE
    /\ act = "start_auto" => mode \in AutoModes
    /\ Enter(o, [NoTask EXCEPT !.act = act, !.item = i, !.mode = mode, !.ans = ans,
                               !.job = IF HasLiveJob(clips[i]) THEN clips[i].it.job ELSE 0])
    /\ asked' = asked + 1
    /\ UNCHANGED <<clips, lost>>

\* START_AUTO_PIPELINE: parked when the lane is full, started otherwise.
StartedAuto(db, i, mode, ans) ==
  LET seen == Reconcile(db, Items \ {i}, ans)
      c == [seen[i] EXCEPT !.it.held = FALSE]
      parked == [c EXCEPT !.it = [@ EXCEPT !.mode = mode, !.hold = FALSE, !.wait = TRUE]]
      begun == SetAutomation([c EXCEPT !.it.started = TRUE], mode, ans)
  IN [seen EXCEPT ![i] = IF LaneFull(seen, i) THEN parked ELSE begun]

Blocked(c) == [c EXCEPT !.it.status = "FAILED"]

\* START_PROCESSING, the manual lane.
StartedByHand(c, ans) ==
  LET begun == [c EXCEPT !.it = [@ EXCEPT !.started = TRUE, !.held = FALSE, !.mode = "manual",
                                          !.hold = FALSE, !.step = "download"]]
      kept == KeepDownload(begun)
  IN IF ans = "refused" /\ ~Owns(kept, "download") THEN Blocked(kept)
     ELSE [DownloadJob(kept, begun) EXCEPT !.it.status = "MEDIA"]

\* _ensure_analyze_audio_job_id and its caller's success and failure branches.
AnalyzeByHand(c, ans) ==
  LET kept == Shed(c, "analyze_audio")
      bound == IF Owns(kept, "analyze_audio") THEN kept ELSE SingleFlight(kept, "analyze_audio")
  IN IF ans = "refused" /\ ~Owns(kept, "analyze_audio") THEN Blocked(kept)
     ELSE [bound EXCEPT !.it = [@ EXCEPT !.status = "METADATA",
                                         !.link["analyze_audio"] = bound.it.job]]

MediaReady(c, ans) ==
  AnalyzeByHand([c EXCEPT !.it = [@ EXCEPT !.ready = TRUE, !.held = FALSE]], ans)

\* RESUME of a manual item.
ResumedByHand(c, ans) ==
  LET freed == UseJob(Released(c, c.it.job), 0)
      begun == [freed EXCEPT !.it.started = TRUE]
  IN IF c.it.status = "METADATA" \/ (c.it.ready /\ c.it.status = "MEDIA")
     THEN AnalyzeByHand(freed, ans)
     ELSE IF c.it.status = "MEDIA" \/ c.it.started
     THEN IF ans = "refused" THEN Blocked(begun)
          ELSE [DownloadJob(begun, c) EXCEPT !.it.status = "MEDIA"]
     ELSE [c EXCEPT !.it.status = "READY"]

Resumed(c, ans) ==
  LET free == [c EXCEPT !.it.held = FALSE]
  IN IF IsAuto(c.it) THEN ResumeItem(free, ans) ELSE ResumedByHand(free, ans)

Retried(c) ==
  LET freed == Released(c, c.it.job)
  IN [freed EXCEPT !.it = [@ EXCEPT !.status = "READY", !.job = 0, !.held = FALSE,
                                    !.mode = "manual", !.hold = FALSE, !.step = "none"]]

\* A cancelled item is queued again: a fresh metadata document.
Reactivated(c) ==
  [Released(c, c.it.job) EXCEPT
     !.it = [NewItem EXCEPT !.started = c.it.started, !.ready = c.it.ready]]

ApprovedText(c, ans) ==
  IF c.it.status \in Active /\ IsAuto(c.it) /\ c.it.step = "translation_review" /\ ~IsHeld(c.it)
  THEN EnsureTts(AtStep(c, "tts"), ans) ELSE c

ApprovedQuality(c, ans) ==
  IF /\ c.it.status \in Active /\ c.it.mode = "auto_to_render"
     /\ c.it.step = "quality_review" /\ ~IsHeld(c.it)
  THEN EnsureRender(AtStep(c, "render"), ans) ELSE c

\* HOLD once the linked job is out of the way.
Paused(c) ==
  [Released(c, c.it.job) EXCEPT !.it.held = TRUE, !.it.hold = IF IsAuto(c.it) THEN TRUE ELSE @]

\* apply_action, but for START_AUTO_PIPELINE.
Applied(c, t) ==
  CASE t.act = "set_auto" -> SetAutomation(c, t.mode, t.ans)
    [] t.act = "hold" -> Paused(c)
    [] t.act = "resume" -> Resumed(c, t.ans)
    [] t.act = "retry" -> Retried(c)
    [] t.act = "cancel" -> [c EXCEPT !.it.status = "CANCELLED"]
    [] t.act = "block" -> Blocked(c)
    [] t.act = "start" -> StartedByHand(c, t.ans)
    [] t.act = "media_ready" -> MediaReady(c, t.ans)
    [] t.act = "approve_text" -> ApprovedText(c, t.ans)
    [] t.act = "approve_quality" -> ApprovedQuality(c, t.ans)
    [] OTHER -> Reactivated(c)

Answer(o) ==
  LET t == task[o]
      db == IF t.act = "start_auto" THEN StartedAuto(Seen(o), t.item, t.mode, t.ans)
            ELSE [Seen(o) EXCEPT ![t.item] = Applied(@, t)]
  IN /\ pc[o] = "busy" /\ o \in Operators
     /\ t.act = "hold" => t.job = 0
     /\ Write(o, db)
     /\ Leave(o)
     /\ UNCHANGED <<asked, lost>>

\* HOLD cancels the live job it read, in a commit of its own; a worker that is
\* settling the job holds its row until then.
CancelForHold(o) ==
  LET t == task[o]
  IN /\ pc[o] = "busy" /\ o \in Operators /\ t.act = "hold" /\ t.job # 0
     /\ ~Settling(t.item, t.job)
     /\ clips' = [clips EXCEPT ![t.item].jobs[t.job].status = "cancelled"]
     /\ Halfway(o, t)
     /\ UNCHANGED <<asked, lost>>

MarkHeld(o) ==
  /\ pc[o] = "bind" /\ o \in Operators
  /\ clips' = [clips EXCEPT ![task[o].item] = Paused(@)]
  /\ Leave(o)
  /\ UNCHANGED <<asked, lost>>

\* The operator resolves an uncertain transcript.
Clarify(i) ==
  /\ "speech" \in Dialogues /\ Operators # {} /\ clips[i].talk = "uncertain"
  /\ clips' = [clips EXCEPT ![i].talk = "speech"]
  /\ UNCHANGED <<pc, task, view, asked, lost>>

-----------------------------------------------------------------------------
Start(clipsOf) ==
  /\ clips = clipsOf
  /\ pc = [a \in Actors |-> "idle"]
  /\ task = [a \in Actors |-> NoTask]
  /\ view = [a \in Actors |-> NoView]
  /\ asked = 0 /\ lost = 0

\* Every clip has just been queued.
Init == Start([i \in Items |-> NewClip])

\* The operator has handed every clip to the lane, in order.
Handed(mode) ==
  [i \in Items |->
     IF i <= Limit
     THEN SetAutomation([NewClip EXCEPT !.it.started = TRUE], mode, "ok")
     ELSE [NewClip EXCEPT !.it.mode = mode, !.it.wait = TRUE]]

LaneInit == \E mode \in Modes \cap AutoModes : Start(Handed(mode))

WorkerStep(w) == Begin(w) \/ SettleJob(w) \/ LinkPreview(w)
OperatorStep(o) == Ask(o) \/ Answer(o) \/ CancelForHold(o) \/ MarkHeld(o)

Next ==
  \/ \E w \in Workers : WorkerStep(w) \/ Die(w)
  \/ \E o \in Operators : OperatorStep(o)
  \/ \E i \in Items : EndSilently(i) \/ Clarify(i)

Spec == Init /\ [][Next]_vars
LaneSpec == LaneInit /\ [][Next]_vars

\* The transaction of a ends: it commits, or its worker dies.
Ends(a) == pc[a] # "idle" /\ Leave(a)

\* A worker with a live job to run runs it (the job queue's own liveness), and a
\* transaction that began ends.
Fairness ==
  /\ \A w \in Workers : WF_pc(Begin(w))
  /\ \A a \in Actors : WF_pc(Ends(a))

FairLaneSpec == LaneSpec /\ Fairness

-----------------------------------------------------------------------------
(* Properties *)

\* The bounded lane (settings.reup_max_items_in_flight): at no time are more
\* clips in flight than the limit, whatever workers settle concurrently.
LaneBudget == Cardinality({i \in Items : InFlight(clips[i].it)}) <= Limit

\* A clip that occupies a slot of the lane and is not paused is being worked on:
\* it has a live job, or a transaction that will give it one.
NothingStranded ==
  \A i \in Items :
    LET c == clips[i]
    IN InFlight(c.it) /\ ~IsHeld(c.it) =>
         \/ \E n \in DOMAIN c.jobs : c.jobs[n].status = "live"
         \/ \E a \in Actors : pc[a] # "idle" /\ task[a].item = i

Started(i, kind) == \E n \in DOMAIN clips[i].jobs : clips[i].jobs[n].kind = kind
Done(i, kind) ==
  \E n \in DOMAIN clips[i].jobs :
    clips[i].jobs[n].kind = kind /\ clips[i].jobs[n].status = "completed"

\* A stage is only ever enqueued when the stages it needs have completed, on every
\* path: callback, catch-up, repair, admission, switch of mode, resume.
InputsReady ==
  \A i \in Items :
    /\ Started(i, "analyze_audio") => Done(i, "download")
    /\ Started(i, "translate") => Done(i, "analyze_audio")
    /\ Started(i, "tts") => Done(i, "translate")
    /\ Started(i, "ocr") => Done(i, "analyze_audio")
                            /\ (clips[i].talk = "speech" => Done(i, "tts"))
    /\ Started(i, "render") => Done(i, "ocr")

\* One job of a stage at a time for each clip.
OneLiveJob ==
  \A i \in Items : \A kind \in Stages : Cardinality(LiveJobs(clips[i], kind)) <= 1

\* Progress is never lost while a clip stays in the auto lane: the recorded last
\* completed step only moves forward (the docstring of _record_completed_step).
ProgressKept ==
  [][\A i \in Items : IsAuto(clips[i].it) /\ IsAuto(clips[i].it)'
       => Rank(clips[i].it.last') >= Rank(clips[i].it.last)]_vars

\* Pausing stops the pipeline: while an item is held, no job is created for it
\* and it does not move on to another stage (ACTION_COPY of HOLD).
HoldStops ==
  [][\A i \in Items : clips[i].it.held /\ clips'[i].it.held =>
       /\ Len(clips'[i].jobs) = Len(clips[i].jobs)
       /\ clips'[i].it.step \in Stages => clips'[i].it.step = clips[i].it.step]_vars

\* No more clips have work going on for the auto lane than its limit.
LaneLoad ==
  Cardinality({i \in Items : /\ IsAuto(clips[i].it) /\ clips[i].it.status \in Active
                             /\ clips[i].it.step \in Stages
                             /\ \E n \in DOMAIN clips[i].jobs : clips[i].jobs[n].status = "live"})
    <= Limit

\* No callback gets lost: every live job of an auto clip is one whose terminal
\* callback will find the clip (_find_items_for_job), or is about to be.
CallbackFinds ==
  \A i \in Items : IsAuto(clips[i].it) /\ clips[i].it.status \in Active =>
    \A n \in DOMAIN clips[i].jobs : clips[i].jobs[n].status = "live" =>
      FoundFor(clips[i], n) \/ \E a \in Actors : pc[a] = "bind" /\ task[a].item = i

\* Two automatic remediation attempts for one residual authority, no more.
RemediationBounded == \A i \in Items : clips[i].it.tries <= 2

\* Every clip handed to the lane ends at a resting place of its own.
EverythingSettles ==
  \A i \in Items : <>[](~clips[i].it.wait /\ ~InFlight(clips[i].it))

\* Parked clips start on their own when a slot frees up.
ParkedStarts == \A i \in Items : clips[i].it.wait ~> ~clips[i].it.wait
=============================================================================
