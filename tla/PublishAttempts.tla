-------------------------- MODULE PublishAttempts --------------------------
(***************************************************************************)
(* Publishing drafts to one Facebook Page (apps/api/src/publish).  A       *)
(* draft the operator has made READY is enqueued: the request checks the   *)
(* gate and commits an attempt with its PUBLISH_CONTENT job.  The worker   *)
(* runs the job: it reads the attempt, checks the gate again, commits      *)
(* RUNNING and UPLOADING, calls the platform, commits what it was told     *)
(* and brings draft and publications in line in a second commit.           *)
(* Refreshes and reconciliations ask the platform again, from requests     *)
(* and jobs that run beside all this.                                      *)
(*                                                                         *)
(* A transaction that waits for nothing outside the database is one step,  *)
(* but for what it decides on a read: the gate of a request and of a job,  *)
(* the stale mark and the start of a refresh are a read and a commit, and  *)
(* others commit in between.  What is written is laid over the row as it   *)
(* was read: only the columns that changed are written (Merge).  Two       *)
(* partial unique indexes let one attempt of a draft and one of a Page be  *)
(* active (Conflict); a commit that breaks them raises.                    *)
(*                                                                         *)
(* A job is executed by one worker at a time; JobQueueExclusive says when  *)
(* the queue promises that.                                                *)
(*                                                                         *)
(* Time is two facts per attempt: recent (the Page's minimum interval      *)
(* since it was created has not passed) and old (it has had no answer, and *)
(* was started, or created, more than stale_after ago).  A RECONCILING     *)
(* attempt may be stale at any time: nothing resets its started_at.        *)
(***************************************************************************)
EXTENDS Naturals, Sequences, FiniteSets, SequencesExt

CONSTANTS Drafts,       \* drafts of the Page
          NoDraft,      \* no draft
          N,            \* bound: attempts ever created
          Requests,     \* requests that publish, at once
          Refreshers,   \* requests and jobs that refresh or reconcile, at once
          MaxApprovals, \* bound: how often the operator makes drafts READY;
                        \* after that the drafts are left alone
          Effects       \* of {"none", "cool", "hold"}: what errors do to the Page

ASSUME PublishAssumption == /\ NoDraft \notin Drafts
                            /\ Requests \cap Refreshers = {}
                            /\ N \in Nat \ {0}
                            /\ MaxApprovals \in Nat
                            /\ Effects \subseteq {"none", "cool", "hold"}

Attempts == 1..N          \* in the order of their creation
Handlers == Requests \cup Refreshers

VARIABLES att,        \* rows of publish_attempts
          draft,      \* rows of publish_drafts: status and canonical attempt
          pub,        \* rows of platform_publications, one per attempt
          finished,   \* attempts in the order of their finished_at
          post,       \* what exists on the platform for each attempt
          work,       \* the PUBLISH_CONTENT job of each attempt, its worker; a
                      \* waiting job is QUEUED, or FAILED and may be retried
          seen,       \* the draft as the worker of each job read it at its gate
          req,        \* the handlers
          page,       \* the account: on hold, in a cooldown
          recent, old,
          calls,      \* history: platform calls to publish, per attempt
          approvals   \* history: how often each draft became READY

rows == <<att, draft, pub, finished>>
vars == <<att, draft, pub, finished, post, work, seen, req, page, recent, old,
          calls, approvals>>

(***************************************************************************)
(* Vocabulary.                                                             *)
(***************************************************************************)
ActiveStatuses == {"QUEUED", "RUNNING", "UPLOADING", "RECONCILING"}
AttemptStatuses ==
  ActiveStatuses \cup {"none", "SUCCEEDED", "FAILED", "NEEDS_RECONCILIATION",
                       "RECONCILED"}
\* OPEN stands for UNKNOWN, PROCESSING and PARTIALLY_CONFIRMED.
Evidence == {"OPEN", "PUBLISHED", "FAILED", "REMOVED"}
\* DRAFT stands for SCHEDULED too.
DraftStatuses == {"DRAFT", "READY", "PUBLISHING", "PUBLISHED",
                  "FAILED", "NEEDS_ATTENTION"}
\* created: Meta has returned the video id; made: it has accepted the finish
\* call; gone: removed, or rejected while it was processed.
Posts == {"none", "created", "made", "live", "gone"}
Posted == {a \in Attempts : post[a] \in {"made", "live", "gone"}}

NoAttempt == 0
NoRow == [draft |-> NoDraft, status |-> "none", ids |-> FALSE, ext |-> "OPEN",
          due |-> FALSE]                \* due: reconciliation_required
NoPub == [ext |-> "none", canon |-> FALSE]
NoDraftRow == [status |-> "none", canon |-> NoAttempt]
Idle == [pc |-> "idle", d |-> NoDraft, upto |-> NoAttempt, a |-> NoAttempt,
         row |-> NoRow, read |-> NoDraftRow]

Exists == {a \in Attempts : att[a].status # "none"}
NextAttempt == Cardinality(Exists) + 1                \* the next attempt's number
Of(A, d) == {a \in Attempts : A[a].draft = d}
Active(A) == {a \in Attempts : A[a].status \in ActiveStatuses}

\* Would making a active break a unique index?
Conflict(a) == Active(att) \ {a} # {}

\* The columns of new that differ from what was read, laid over the row.
Merge(row, read, new) ==
  [c \in DOMAIN row |-> IF new[c] # read[c] THEN new[c] ELSE row[c]]

Newest(S) == CHOOSE a \in S : \A b \in S : b <= a
FinishAgain(a) == Append(finished, a)                 \* mutant
FinishLast(a) ==
  Append(IF a \in Range(finished)
         THEN RemoveAt(finished, CHOOSE i \in DOMAIN finished : finished[i] = a)
         ELSE finished, a)

(***************************************************************************)
(* _sync_draft: the draft and its publications are worked out from the     *)
(* attempts A finished in the order F, and from the draft as it was read.  *)
(***************************************************************************)
\* _select_canonical_attempt: the last to finish of the published ones.
Canonical(A, F, d) ==
  LET S == {a \in Of(A, d) : A[a].ext = "PUBLISHED"}
      last == {a \in S : \A b \in S \ {a} :
                 \E i, j \in DOMAIN F : F[i] = b /\ F[j] = a /\ i < j}
  IN IF last = {} THEN NoAttempt ELSE CHOOSE a \in last : TRUE

\* mutant: a failed attempt gives its draft back as READY
LatestRevives(row) ==
  CASE row.status \in ActiveStatuses -> "PUBLISHING"
    [] row.status = "NEEDS_RECONCILIATION" -> "NEEDS_ATTENTION"
    [] row.status = "RECONCILED" ->
         IF row.ext \in {"FAILED", "REMOVED"} THEN "FAILED" ELSE "NEEDS_ATTENTION"
    [] OTHER -> "READY"

LatestShows(row) ==
  CASE row.status \in ActiveStatuses -> "PUBLISHING"
    [] row.status = "NEEDS_RECONCILIATION" -> "NEEDS_ATTENTION"
    [] row.status = "RECONCILED" ->
         IF row.ext \in {"FAILED", "REMOVED"} THEN "FAILED" ELSE "NEEDS_ATTENTION"
    [] row.status = "FAILED" -> "FAILED"
    [] OTHER -> "READY"

\* sync_attempt_to_draft
SyncDraft(row, A, F, d) ==
  LET c == Canonical(A, F, d) IN
  [status |-> IF c # NoAttempt THEN "PUBLISHED"
              ELSE IF Of(A, d) = {} THEN row.status
              ELSE LatestShows(A[Newest(Of(A, d))]),
   canon |-> c]

\* mutant: the canonical flag is never taken back
SyncPubsSticky(A, d, c) ==
  [a \in Attempts |->
     IF A[a].draft # d THEN pub[a]
     ELSE IF pub[a] # NoPub \/ (A[a].ids /\ A[a].ext = "PUBLISHED")
       THEN [ext |-> A[a].ext, canon |-> pub[a].canon \/ a = c] ELSE NoPub]
\* sync_for_draft
SyncPubs(A, d, c) ==
  [a \in Attempts |->
     IF A[a].draft # d THEN pub[a]
     ELSE IF pub[a] # NoPub \/ (A[a].ids /\ A[a].ext = "PUBLISHED")
       THEN [ext |-> A[a].ext, canon |-> a = c] ELSE NoPub]

\* The rest of a transaction that leaves the attempts as A and their order
\* as F, and had read draft d as read.
Sync(d, read, A, F) ==
  LET new == SyncDraft(read, A, F, d)
  IN /\ att' = A
     /\ finished' = F
     /\ draft' = [draft EXCEPT ![d] = Merge(@, read, new)]
     /\ pub' = SyncPubs(A, d, new.canon)

Init ==
  /\ att = [a \in Attempts |-> NoRow]
  /\ draft = [d \in Drafts |-> [status |-> "DRAFT", canon |-> NoAttempt]]
  /\ pub = [a \in Attempts |-> NoPub]
  /\ finished = <<>>
  /\ post = [a \in Attempts |-> "none"]
  /\ work = [a \in Attempts |-> "none"]
  /\ seen = [a \in Attempts |-> NoDraftRow]
  /\ req = [r \in Handlers |-> Idle]
  /\ page = [held |-> FALSE, cool |-> FALSE]
  /\ recent = {}
  /\ old = {}
  /\ calls = [a \in Attempts |-> 0]
  /\ approvals = [d \in Drafts |-> 0]

(***************************************************************************)
(* The gate, for attempt a (NoAttempt for a new one) of draft d.           *)
(***************************************************************************)
GateOpen(a, d, statuses) ==
  /\ draft[d].status \in statuses
  /\ ~page.held
  /\ ~page.cool
  /\ Active(att) \subseteq {a}
  /\ \A b \in Attempts \ {a} : ~att[b].due
  /\ recent \subseteq {a}

\* apply_connector_failure: a rate limit cools the Page down, a refused
\* token or permission puts it on hold.
PageAfter(effect) == [held |-> page.held \/ effect = "hold",
                      cool |-> page.cool \/ effect = "cool"]

\* mutant: an attempt that is given up is FAILED, reference or not
FailFlat(row) == [row EXCEPT !.status = "FAILED", !.due = FALSE]

\* apply_uncertain_failure
Fail(row) == [row EXCEPT !.status = IF row.ids THEN "NEEDS_RECONCILIATION" ELSE "FAILED",
                         !.due = row.ids]

\* Attempt a becomes row, and its draft is synced in the same transaction.
WriteAttempt(a, row, F) ==
  Sync(row.draft, draft[row.draft], [att EXCEPT ![a] = row], F)

(***************************************************************************)
(* enqueue_publish                                                         *)
(***************************************************************************)
EnqueueGate(r, d) ==
  /\ req[r] = Idle
  /\ NextAttempt <= N
  /\ GateOpen(NoAttempt, d, {"READY"})
  /\ req' = [req EXCEPT ![r] = [Idle EXCEPT !.pc = "gated", !.d = d, !.read = draft[d]]]
  /\ UNCHANGED <<rows, post, work, seen, page, recent, old, calls, approvals>>

EnqueueCommit(r) ==
  LET a == NextAttempt
      d == req[r].d
      row == [NoRow EXCEPT !.draft = d, !.status = "QUEUED"]
  IN /\ req[r].pc = "gated"
     /\ req' = [req EXCEPT ![r] = Idle]
     /\ \/ /\ a <= N /\ ~Conflict(a)
           /\ Sync(d, req[r].read, [att EXCEPT ![a] = row], finished)
           /\ work' = [work EXCEPT ![a] = "waiting"]
           /\ recent' = recent \cup {a}
        \/ /\ a > N \/ Conflict(a)
           /\ UNCHANGED <<rows, work, recent>>
     /\ UNCHANGED <<post, seen, page, old, calls, approvals>>

(***************************************************************************)
(* execute_attempt                                                         *)
(***************************************************************************)
Outcome(row) == IF row.status = "FAILED" THEN "waiting" ELSE "done"

\* An attempt that has left QUEUED is never uploaded again.
ExecResume(a) ==
  LET stuck == att[a].status \in ActiveStatuses
      row == IF stuck THEN Fail(att[a]) ELSE att[a]
  IN /\ work[a] = "waiting"
     /\ att[a].status # "QUEUED"
     /\ WriteAttempt(a, row, IF stuck THEN FinishLast(a) ELSE finished)
     /\ old' = old \ {a}
     /\ work' = [work EXCEPT ![a] = Outcome(row)]
     /\ UNCHANGED <<post, seen, req, page, recent, calls, approvals>>

\* The render or its file is missing: the attempt stays QUEUED.
ExecRaise(a) ==
  /\ work[a] = "waiting"
  /\ att[a].status = "QUEUED"
  /\ work' = [work EXCEPT ![a] = "waiting"]
  /\ UNCHANGED <<rows, post, seen, req, page, recent, old, calls, approvals>>

ExecRefuse(a) ==
  /\ work[a] = "waiting"
  /\ att[a].status = "QUEUED"
  /\ ~GateOpen(a, att[a].draft, {"READY", "PUBLISHING"})
  /\ WriteAttempt(a, Fail(att[a]), FinishLast(a))
  /\ old' = old \ {a}
  /\ work' = [work EXCEPT ![a] = "waiting"]
  /\ UNCHANGED <<post, seen, req, page, recent, calls, approvals>>

\* mutant: the job does not look at the status of its attempt
ExecGateAgain(a) ==
  /\ work[a] = "waiting"
  /\ GateOpen(a, att[a].draft, {"READY", "PUBLISHING"})
  /\ work' = [work EXCEPT ![a] = "gated"]
  /\ seen' = [seen EXCEPT ![a] = draft[att[a].draft]]
  /\ UNCHANGED <<rows, post, req, page, recent, old, calls, approvals>>

ExecGate(a) ==
  /\ work[a] = "waiting"
  /\ att[a].status = "QUEUED"
  /\ GateOpen(a, att[a].draft, {"READY", "PUBLISHING"})
  /\ work' = [work EXCEPT ![a] = "gated"]
  /\ seen' = [seen EXCEPT ![a] = draft[att[a].draft]]
  /\ UNCHANGED <<rows, post, req, page, recent, old, calls, approvals>>

\* RUNNING and started_at, over whatever the row is by now.
ExecRun(a) ==
  LET row == [att[a] EXCEPT !.status = "RUNNING"]
  IN /\ work[a] = "gated"
     /\ seen' = [seen EXCEPT ![a] = NoDraftRow]
     /\ \/ /\ ~Conflict(a)
           /\ Sync(row.draft, seen[a], [att EXCEPT ![a] = row], finished)
           /\ old' = old \ {a}
           /\ work' = [work EXCEPT ![a] = "running"]
        \/ /\ Conflict(a)
           /\ work' = [work EXCEPT ![a] = "waiting"]
           /\ UNCHANGED <<rows, old>>
     /\ UNCHANGED <<post, req, page, recent, calls, approvals>>

\* resolve_config: the account is paused, or has no token.
ExecNoAccount(a) ==
  /\ work[a] = "running"
  /\ att' = [att EXCEPT ![a] = Fail(@)]
  /\ finished' = FinishLast(a)
  /\ page' = PageAfter("hold")
  /\ work' = [work EXCEPT ![a] = "sync"]
  /\ UNCHANGED <<draft, pub, post, seen, req, recent, old, calls, approvals>>

ExecUpload(a) ==
  /\ work[a] = "running"
  /\ ~page.held
  /\ \/ /\ ~Conflict(a)
        /\ WriteAttempt(a, [att[a] EXCEPT !.status = "UPLOADING"], finished)
        /\ work' = [work EXCEPT ![a] = "sending"]
        /\ calls' = [calls EXCEPT ![a] = @ + 1]
     \/ /\ Conflict(a)
        /\ work' = [work EXCEPT ![a] = "waiting"]
        /\ UNCHANGED <<rows, calls>>
  /\ UNCHANGED <<post, seen, req, page, recent, old, approvals>>

\* The platform, while the worker's calls are under way and after.  A request
\* commits sooner after its gate than a video is uploaded.
Receives(a) ==
  /\ work[a] = "sending"
  /\ \A r \in Requests : req[r] = Idle
  /\ post[a] \in {"none", "created"}
  /\ post' = [post EXCEPT ![a] = IF @ = "none" THEN "created" ELSE "made"]
  /\ UNCHANGED <<rows, work, seen, req, page, recent, old, calls, approvals>>

Processes(a) ==
  /\ \/ post[a] = "made" /\ post' = [post EXCEPT ![a] = "live"]
     \/ post[a] \in {"made", "live"} /\ post' = [post EXCEPT ![a] = "gone"]
  /\ UNCHANGED <<rows, work, seen, req, page, recent, old, calls, approvals>>

\* The answer is laid over the row as it was when the upload was committed.
Uploaded(a) == [NoRow EXCEPT !.draft = att[a].draft, !.status = "UPLOADING"]
Answered(a, row) ==
  /\ work[a] = "sending"
  /\ att' = [att EXCEPT ![a] = Merge(@, Uploaded(a), row)]
  /\ finished' = FinishLast(a)
  /\ old' = old \ {a}
  /\ work' = [work EXCEPT ![a] = "sync"]
  /\ UNCHANGED <<draft, pub, post, seen, req, recent, calls, approvals>>

ExecSuccess(a) ==
  /\ a \in Posted
  /\ Answered(a, [Uploaded(a) EXCEPT !.status = "SUCCEEDED", !.ids = TRUE, !.ext = "PUBLISHED"])
  /\ UNCHANGED page

\* PublishConnectorError: it carries the video id if Meta has returned one.
ExecError(a) ==
  /\ Answered(a, Fail([Uploaded(a) EXCEPT !.ids = post[a] # "none"]))
  /\ \E effect \in Effects : page' = PageAfter(effect)

\* Any other ValueError of the connector counts as a refused token.
ExecInvalid(a) ==
  /\ Answered(a, Fail(Uploaded(a)))
  /\ page' = PageAfter("hold")

\* The second _sync_draft, and the commit that ends execute_attempt.
ExecSync(a) ==
  /\ work[a] = "sync"
  /\ WriteAttempt(a, att[a], finished)
  /\ work' = [work EXCEPT ![a] = Outcome(att[a])]
  /\ UNCHANGED <<post, seen, req, page, recent, old, calls, approvals>>

\* The worker dies, or an exception that publish does not catch (a read
\* timeout of the connector) ends the step: the job fails, the rows stay.
Crash(a) ==
  /\ work[a] \in {"gated", "running", "sending", "sync"}
  /\ work' = [work EXCEPT ![a] = "waiting"]
  /\ seen' = [seen EXCEPT ![a] = NoDraftRow]
  /\ UNCHANGED <<rows, post, req, page, recent, old, calls, approvals>>

\* cancel_job.  A job that is cancelled while it runs runs on and is not
\* retried: the same as one that is cancelled after it has failed.  For an
\* attempt that is over a cancel would change nothing here.
CancelJob(a) ==
  /\ work[a] = "waiting"
  /\ att[a].status \in ActiveStatuses
  /\ work' = [work EXCEPT ![a] = "done"]
  /\ UNCHANGED <<rows, post, seen, req, page, recent, old, calls, approvals>>

(***************************************************************************)
(* refresh_attempt_status, alone or from reconcile_draft.                  *)
(***************************************************************************)
\* The row of a is read; d is the draft that is being reconciled, if one is.
StartRefresh(r, d, a) ==
  /\ att[a].ids
  /\ req' = [req EXCEPT ![r] =
       [Idle EXCEPT !.pc = "refresh", !.d = d, !.upto = a - 1, !.a = a, !.row = att[a]]]
  /\ UNCHANGED <<rows, post, work, seen, page, recent, old, calls, approvals>>

RouteRefresh(r, a) == req[r] = Idle /\ StartRefresh(r, NoDraft, a)

\* RECONCILING is committed, and the row reloaded for the call.
RefreshCommit(r) ==
  LET q == req[r]
      row == Merge(att[q.a], q.row, [q.row EXCEPT !.status = "RECONCILING", !.due = TRUE])
      broken == row.status \in ActiveStatuses /\ Conflict(q.a)
  IN /\ q.pc = "refresh"
     /\ \/ /\ ~broken
           /\ att' = [att EXCEPT ![q.a] = row]
           /\ req' = [req EXCEPT ![r] =
                [Idle EXCEPT !.pc = "call", !.d = q.d, !.upto = q.upto, !.a = q.a, !.row = row]]
        \/ /\ broken
           /\ req' = [req EXCEPT ![r] = Idle]
           /\ UNCHANGED att
     /\ UNCHANGED <<draft, pub, finished, post, work, seen, page, recent, old, calls, approvals>>

\* _is_stale_active_attempt, _should_refresh
MayBeStale(a) == a \in old \/ att[a].status = "RECONCILING"
ShouldRefresh(a) ==
  /\ att[a].ids
  /\ att[a].status \in {"NEEDS_RECONCILIATION", "RECONCILING"} \/ att[a].due

\* The attempts of d that reconcile_draft, new or under way, has work for;
\* an attempt it has just marked is not marked again.
Looks(r, d) == req[r] = Idle \/ (req[r].pc = "loop" /\ req[r].d = d)
Left(r, d) == {a \in Of(att, d) :
                 /\ req[r] # Idle => a <= req[r].upto
                 /\ (MayBeStale(a) /\ a # req[r].a) \/ ShouldRefresh(a)}

\* The next of them is read and found stale, or to be refreshed.
FindStale(r, d) ==
  /\ Looks(r, d)
  /\ Left(r, d) # {}
  /\ LET a == Newest(Left(r, d))
     IN /\ MayBeStale(a) /\ a # req[r].a
        /\ req' = [req EXCEPT ![r] =
             [Idle EXCEPT !.pc = "mark", !.d = d, !.upto = a, !.a = a, !.row = att[a]]]
  /\ UNCHANGED <<rows, post, work, seen, page, recent, old, calls, approvals>>

ReconcileRefresh(r, d) ==
  /\ Looks(r, d)
  /\ Left(r, d) # {}
  /\ ShouldRefresh(Newest(Left(r, d)))
  /\ StartRefresh(r, d, Newest(Left(r, d)))

\* _mark_stale_attempt and its commit
MarkStale(r) ==
  LET q == req[r]
  IN /\ q.pc = "mark"
     /\ att' = [att EXCEPT ![q.a] = Merge(@, q.row, Fail(q.row))]
     /\ finished' = IF q.row.ids THEN finished ELSE FinishLast(q.a)
     /\ old' = old \ {q.a}
     /\ req' = [req EXCEPT ![r] =
          [Idle EXCEPT !.pc = "loop", !.d = q.d, !.upto = q.a, !.a = q.a]]
     /\ UNCHANGED <<draft, pub, post, work, seen, page, recent, calls, approvals>>

\* The account has no token any more: reconcile_draft notes it and goes on.
ReconcileSkip(r) ==
  /\ req[r].pc \in {"refresh", "call"}
  /\ req[r].d # NoDraft
  /\ req' = [req EXCEPT ![r] = [Idle EXCEPT !.pc = "loop", !.d = req[r].d, !.upto = req[r].upto]]
  /\ UNCHANGED <<rows, post, work, seen, page, recent, old, calls, approvals>>

\* sync_draft_state, when every attempt has been looked at.
ReconcileEnd(r, d) ==
  /\ Looks(r, d)
  /\ Left(r, d) = {}
  /\ Sync(d, draft[d], att, finished)
  /\ req' = [req EXCEPT ![r] = Idle]
  /\ UNCHANGED <<post, work, seen, page, recent, old, calls, approvals>>

\* What the platform may say of a video it knows.
Says(p) == CASE p = "created" -> {"OPEN", "FAILED"}
             [] p = "made" -> {"OPEN"}
             [] p = "live" -> {"OPEN", "PUBLISHED"}
             [] p = "gone" -> {"FAILED", "REMOVED"}
             [] OTHER -> {}

\* mutant: a status that is still open counts as published
MarkOpenPublished(row, e) ==
  [row EXCEPT !.ext = IF e = "OPEN" THEN "PUBLISHED" ELSE e,
              !.status = "RECONCILED",
              !.due = FALSE]

\* mark_reconciled
MarkReconciled(row, e) ==
  [row EXCEPT !.ext = e,
              !.status = IF e \in {"PUBLISHED", "FAILED"} THEN "RECONCILED"
                         ELSE "NEEDS_RECONCILIATION",
              !.due = e \notin {"PUBLISHED", "FAILED"}]

\* One transaction over the attempt as it was read before the call.
Heard(r, new, effect) ==
  LET q == req[r]
      A == [att EXCEPT ![q.a] = Merge(@, q.row, new)]
  IN /\ Sync(new.draft, draft[new.draft], A, finished)
     /\ page' = PageAfter(effect)
     /\ req' = [req EXCEPT ![r] = IF q.d = NoDraft THEN Idle
                  ELSE [Idle EXCEPT !.pc = "loop", !.d = q.d, !.upto = q.upto]]
     /\ UNCHANGED <<post, work, seen, recent, old, calls, approvals>>

RefreshAnswer(r) ==
  /\ req[r].pc = "call"
  /\ \E e \in Says(post[req[r].a]) : Heard(r, MarkReconciled(req[r].row, e), "none")

RefreshError(r) ==
  /\ req[r].pc = "call"
  /\ \E effect \in Effects :
       Heard(r, [req[r].row EXCEPT !.status = "NEEDS_RECONCILIATION", !.due = TRUE], effect)

HandlerDies(r) ==
  /\ req[r] # Idle
  /\ req' = [req EXCEPT ![r] = Idle]
  /\ UNCHANGED <<rows, post, work, seen, page, recent, old, calls, approvals>>

(***************************************************************************)
(* The operator, and time.                                                 *)
(***************************************************************************)
SetDraft(d, status) ==
  /\ draft' = [draft EXCEPT ![d].status = status]
  /\ UNCHANGED <<att, pub, finished, post, work, seen, req, page, recent, old, calls>>

\* mark_ready, from any status; an unschedule that finds the draft valid too.
MarkReady(d) ==
  /\ draft[d].status # "READY"
  /\ SumFunction(approvals) < MaxApprovals
  /\ approvals' = [approvals EXCEPT ![d] = @ + 1]
  /\ SetDraft(d, "READY")

\* An edit of a READY draft; a schedule, or an unschedule that finds the
\* draft incomplete, from any status.
Retract(d) == /\ SumFunction(approvals) < MaxApprovals
              /\ SetDraft(d, "DRAFT")
              /\ UNCHANGED approvals

\* The operator reconnects the Page; the cooldown runs out.
PageOpens == \E f \in {"held", "cool"} :
  /\ page[f]
  /\ page' = [page EXCEPT ![f] = FALSE]
  /\ UNCHANGED <<rows, post, work, seen, req, recent, old, calls, approvals>>

\* Minutes pass: no transaction and no query is still under way.
Calm == /\ \A r \in Handlers : req[r] = Idle
        /\ \A a \in Attempts : work[a] \notin {"gated", "running", "sync"}

IntervalPasses ==
  /\ Calm
  /\ recent # {}
  /\ recent' = {}
  /\ UNCHANGED <<rows, post, work, seen, req, page, old, calls, approvals>>

StalePasses ==
  /\ Calm
  /\ old' = {a \in Attempts : att[a].status \in {"QUEUED", "RUNNING", "UPLOADING"}}
  /\ old' # {}
  /\ recent' = {}
  /\ UNCHANGED <<rows, post, work, seen, req, page, calls, approvals>>

Worker(a) ==
  \/ ExecResume(a) \/ ExecRaise(a) \/ ExecRefuse(a) \/ ExecGate(a) \/ ExecRun(a)
  \/ ExecNoAccount(a) \/ ExecUpload(a)
  \/ ExecSuccess(a) \/ ExecError(a) \/ ExecInvalid(a) \/ ExecSync(a) \/ Crash(a)

Request(r) == EnqueueCommit(r) \/ \E d \in Drafts : EnqueueGate(r, d)

Refresher(r) ==
  \/ \E a \in Attempts : RouteRefresh(r, a)
  \/ \E d \in Drafts : FindStale(r, d) \/ ReconcileRefresh(r, d) \/ ReconcileEnd(r, d)
  \/ MarkStale(r) \/ ReconcileSkip(r) \/ RefreshCommit(r)
  \/ RefreshAnswer(r) \/ RefreshError(r)

Operator ==
  \/ \E d \in Drafts : MarkReady(d) \/ Retract(d)
  \/ \E a \in Attempts : CancelJob(a)

Next ==
  \/ \E a \in Attempts : Worker(a) \/ Receives(a) \/ Processes(a)
  \/ \E r \in Requests : Request(r)
  \/ \E r \in Refreshers : Refresher(r)
  \/ \E r \in Handlers : HandlerDies(r)
  \/ Operator
  \/ PageOpens \/ IntervalPasses \/ StalePasses

Spec == Init /\ [][Next]_vars

(***************************************************************************)
(* Properties.                                                             *)
(***************************************************************************)
\* The variables stay within their types.
TypeOK ==
  /\ att \in [Attempts -> [draft : Drafts \cup {NoDraft}, status : AttemptStatuses,
                           ids : BOOLEAN, ext : Evidence, due : BOOLEAN]]
  /\ draft \in [Drafts -> [status : DraftStatuses, canon : Attempts \cup {NoAttempt}]]
  /\ pub \in [Attempts -> [ext : Evidence \cup {"none"}, canon : BOOLEAN]]
  /\ finished \in Seq(Attempts) /\ IsInjective(finished)
  /\ post \in [Attempts -> Posts]
  /\ page \in [held : BOOLEAN, cool : BOOLEAN]
  /\ recent \subseteq Exists /\ old \subseteq Exists

Stage(a) == IF att[a].status = "none" THEN "none"
            ELSE IF work[a] = "sending"
              THEN IF att[a].status \in ActiveStatuses THEN "calling" ELSE "lost"
            ELSE IF calls[a] = 0 THEN "waiting" ELSE "over"
Once == INSTANCE PublishOnce WITH
          stage <- [a \in Attempts |-> Stage(a)],
          accepted <- Posted,
          confirmed <- {a \in Attempts : att[a].ext = "PUBLISHED"}

\* Workers that crash and are retried, handlers that mark and refresh what
\* they have read earlier and the platform's late answers only make the
\* steps of PublishOnce.
ImplementsPublishOnce == Once!Spec

\* A draft has at most one canonical publication.
OneCanonical ==
  \A a, b \in Attempts :
    a # b /\ pub[a].canon /\ pub[b].canon => att[a].draft # att[b].draft

\* A draft is posted at most as often as the operator approved it.
OnePostPerApproval ==
  \A d \in Drafts :
    Cardinality(Of(att, d) \cap Posted) <= approvals[d]

\* A publication that is there belongs to an attempt with a reference, and
\* the canonical attempt of a draft has one.
PublishedIsBacked ==
  /\ \A a \in Attempts : pub[a] # NoPub => att[a].ids /\ a \in Posted
  /\ \A d \in Drafts : draft[d].canon # NoAttempt => pub[draft[d].canon] # NoPub

\* An attempt that is FAILED although the platform's reference is known, by
\* a stale mark that lands on an answered upload, is still to be reconciled,
\* or the platform has said what became of it.
ReferenceFollowed ==
  \A a \in Attempts :
    att[a].status = "FAILED" /\ att[a].ids => att[a].due \/ att[a].ext # "OPEN"

\* An attempt that is FAILED has left nothing on the platform ("If an
\* upload/publish call fails after Facebook has returned a video/reel
\* reference, the attempt moves to NEEDS_RECONCILIATION").
ReferenceKept == \A a \in Attempts : att[a].status = "FAILED" => post[a] = "none"
=============================================================================
