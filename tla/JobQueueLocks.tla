---------------------------- MODULE JobQueueLocks ----------------------------
(***************************************************************************)
(* One worker process, as docker-compose.yml starts it.                    *)
(*                                                                         *)
(* What follows is about the rows themselves: a RUNNING row can be found   *)
(* by a sweep, a waiting row by resume_job, also when the recovery after   *)
(* an error fails and the worker polls on with the row in its name.  Both  *)
(* fail with two workers, where the one that lost its job may settle a row *)
(* the other one claimed.  With one worker, operators are the only others  *)
(* who write a row at work, and every commit of the worker that gives the  *)
(* row back also changes its status, since its copy never has the status   *)
(* it sets.                                                                *)
(***************************************************************************)
EXTENDS JobQueueProofs

\* Where a worker has a copy of the job in hand, and may commit it.
Copying == {"start", "mark", "run", "settle", "complete", "abort"}

OneWorker   == \A v, w \in Workers : v = w
OneOperator == \A o, p \in Operators : o = p

\* The row names a holder and carries a lock time: the sweeps can find it.
Tagged(r) == r.by # NoOne /\ r.lock # "none"

Waits(r) == \E i \in Steps : r.steps[i] = "WAITING_FOR_INPUT"

\* What the worker may find in the row of its job, and in its copy of it:
\* operators move a row that is executed to these statuses only.
CopyLive(w) ==
  /\ pc[w] \in Copying => view[w][task[w]].status \in {"RUNNING", "QUEUED", "CANCELLED"}
  /\ pc[w] = "settle" /\ result[w] = "input" =>
       view[w][task[w]].steps[at[w]] = "RUNNING"

RowLive(w) ==
  pc[w] \in Executing => jobs[task[w]].status \in {"RUNNING", "QUEUED", "CANCELLED", "GONE"}

SweepLive(w) ==
  pc[w] \in {"recover", "sweep"} => \A j \in Jobs :
    \/ view[w][j].status = "GONE"
    \/ view[w][j].status = "RUNNING" /\ jobs[j].status # "WAITING_FOR_REVIEW"

\* What an accepted request found, and the operator was shown.
RequestLive(o) ==
  LET status == view[o][task[o]].status IN
  /\ pc[o] = "retry"  => status \in {"FAILED", "RETRYABLE"}
  /\ pc[o] = "cancel" => status # "CANCELLED"
  /\ pc[o] = "resume" => status \in {"WAITING_FOR_REVIEW", "RETRYABLE"}

ParkInv ==
  /\ \A j \in Jobs : jobs[j].status = "WAITING_FOR_REVIEW" => Waits(jobs[j])
  /\ \A w \in Workers : CopyLive(w) /\ RowLive(w) /\ SweepLive(w)
  /\ \A o \in Operators : RequestLive(o)

\* A resume request that makes a row RUNNING still finds it waiting.
ResumeFinds ==
  \A o \in Operators : pc[o] = "resume" =>
    \/ view[o][task[o]].status = "RETRYABLE"
    \/ jobs[task[o]].status = "WAITING_FOR_REVIEW"

\* Rows that run or wait are tagged, and so is the row of a job at work until it
\* is deleted; a job seen cancelled does not run again while it is given back.
HoldInv ==
  /\ \A j \in Jobs : jobs[j].status \in {"RUNNING", "WAITING_FOR_REVIEW"} => Tagged(jobs[j])
  /\ \A w \in Workers : pc[w] \in Executing =>
       /\ jobs[task[w]].status # "GONE" => Tagged(jobs[task[w]])
       /\ pc[w] = "abort" => jobs[task[w]].status # "RUNNING"

-----------------------------------------------------------------------------
(***************************************************************************)
(* What a step of the worker does to the row of its job.                   *)
(***************************************************************************)
Elsewhere(j) == \A k \in Jobs \ {j} : jobs'[k] = jobs[k]

KeepsLock(j) == jobs'[j].by = jobs[j].by /\ jobs'[j].lock = jobs[j].lock

\* It is done with the job: the row was left alone, settled, or parked.
DoneWith(w) ==
  LET j == task[w] IN
  /\ pc'[w] \in {"poll", "raised"} /\ Elsewhere(j)
  /\ \/ jobs' = jobs
     \/ jobs'[j].status \in {"RETRYABLE", "FAILED", "COMPLETED"}
     \/ pc[w] = "abort" /\ jobs'[j].status = jobs[j].status
     \/ /\ jobs[j].status # "GONE" /\ KeepsLock(j)
        /\ jobs'[j].status = "WAITING_FOR_REVIEW" /\ Waits(jobs'[j])

\* It goes on with it.
Continues(w) ==
  LET j == task[w] IN
  /\ pc[w] \in Executing /\ pc'[w] \in Executing /\ task'[w] = j
  /\ Elsewhere(j) /\ KeepsLock(j) /\ jobs'[j].status = jobs[j].status
  /\ CopyLive(w)'
  /\ pc'[w] = "abort" => jobs[j].status = "CANCELLED"

LEMMA FlushFields ==
  ASSUME NEW r \in Row, NEW q \in Row, NEW new
  PROVE  LET f == Flush(r, q, new) IN
         /\ f.status = IF new.status = q.status THEN r.status ELSE new.status
         /\ f.by = IF new.by = q.by THEN r.by ELSE new.by
         /\ f.lock = IF new.lock = q.lock THEN r.lock ELSE new.lock
         /\ \A i \in Steps : f.steps[i] = IF new.steps[i] = q.steps[i] THEN r.steps[i]
                                          ELSE new.steps[i]
BY DEF Flush

LEMMA CommitRow ==
  ASSUME jobs \in [Jobs -> Row], NEW s, NEW j \in Jobs, NEW new, Commit(s, j, new)
  PROVE  Elsewhere(j) /\ jobs'[j] = Flush(jobs[j], view[s][j], new)
BY DEF Commit, Elsewhere

LEMMA WithStepRow ==
  ASSUME NEW r \in Row, NEW i, NEW to
  PROVE  LET n == WithStep(r, i, to) IN
         /\ n.status = r.status /\ n.by = r.by /\ n.lock = r.lock
         /\ \A k \in Steps : n.steps[k] = IF k = i THEN to ELSE r.steps[k]
BY DEF WithStep, Row

\* A commit that changes at most one step, from a copy.
LEMMA CommitStep ==
  ASSUME jobs \in [Jobs -> Row], NEW s, NEW j \in Jobs, view[s][j] \in Row, NEW i, NEW to,
         Commit(s, j, WithStep(view[s][j], i, to))
  PROVE  Elsewhere(j) /\ KeepsLock(j) /\ jobs'[j].status = jobs[j].status
<1> DEFINE q == view[s][j]
           n == WithStep(q, i, to)
<1>1. Elsewhere(j) /\ jobs'[j] = Flush(jobs[j], q, n) BY CommitRow
<1>2. n.status = q.status /\ n.by = q.by /\ n.lock = q.lock BY WithStepRow
<1> HIDE DEF n, q
<1>3. /\ Flush(jobs[j], q, n).status = jobs[j].status
      /\ Flush(jobs[j], q, n).by = jobs[j].by
      /\ Flush(jobs[j], q, n).lock = jobs[j].lock
  BY <1>2 DEF Flush
<1> QED BY <1>1, <1>3 DEF KeepsLock

LEMMA EndsWork ==
  ASSUME TypeOK, NEW w \in Workers, NEW label, EndWork(w, label) PROVE pc'[w] = label
BY DEF EndWork, Goto, TypeOK, Sessions

\* A copy that a worker commits with a status of its own is written.
LEMMA SettlesRow ==
  ASSUME TypeOK, NEW w \in Workers, CopyLive(w), pc[w] \in Copying,
         NEW new, Commit(w, task[w], new), EndWork(w, "poll"),
         new.status \in {"RETRYABLE", "FAILED", "COMPLETED"}
  PROVE  DoneWith(w)
<1>1. /\ task[w] \in Jobs /\ view[w][task[w]] \in Row /\ jobs \in [Jobs -> Row]
      /\ pc'[w] = "poll"
  BY EndsWork DEF TypeOK, Copying, Executing, Sessions
<1>2. /\ Elsewhere(task[w])
      /\ jobs'[task[w]] = Flush(jobs[task[w]], view[w][task[w]], new)
  BY <1>1, CommitRow
<1>3. jobs'[task[w]].status = new.status
  BY <1>1, <1>2, FlushFields DEF CopyLive
<1> QED BY <1>1, <1>2, <1>3 DEF DoneWith

LEMMA RaisesRow ==
  ASSUME TypeOK, NEW w \in Workers, EndWork(w, "raised"), UNCHANGED jobs
  PROVE  DoneWith(w)
BY EndsWork DEF DoneWith, Elsewhere

LEMMA PreflightRow ==
  ASSUME TypeOK, NEW w \in Workers, CopyLive(w), Preflight(w)
  PROVE  DoneWith(w) \/ Continues(w)
<1> DEFINE j == task[w]
           r == view[w][j]
           open == {i \in Steps : r.steps[i] \in {"PENDING", "RUNNING"}}
           ss == [i \in Steps |-> IF i \in open /\ \A k \in open : i <= k
                                 THEN "FAILED" ELSE r.steps[i]]
<1>1. w \in Sessions /\ j \in Jobs /\ r \in Row /\ pc[w] = "start"
  BY DEF Preflight, TypeOK, Sessions, Executing
<1>2. CASE Goto(w, "head") /\ UNCHANGED <<jobs, task, at, view, result>>
  <2>1. pc'[w] = "head" BY <1>1, <1>2 DEF Goto, TypeOK
  <2>2. CopyLive(w)' BY <2>1 DEF CopyLive, Copying
  <2> QED BY <1>1, <1>2, <2>1, <2>2 DEF Continues, Executing, Elsewhere, KeepsLock
<1>3. CASE Raise(w) BY <1>3, RaisesRow DEF Raise
<1>4. ASSUME NEW class, Commit(w, j, Outcome(j, [r EXCEPT !.steps = ss], class)),
             EndWork(w, "poll")
      PROVE  DoneWith(w)
  <2>1. ss \in [Steps -> StepStatuses] BY <1>1 DEF Row, StepStatuses
  <2> HIDE DEF ss
  <2>2. [r EXCEPT !.steps = ss] \in Row BY <1>1, <2>1 DEF Row
  <2>3. Outcome(j, [r EXCEPT !.steps = ss], class).status \in {"RETRYABLE", "FAILED"}
    BY <2>2, CallStatus
  <2> QED BY <1>1, <1>4, <2>3, SettlesRow DEF Copying
<1> QED BY <1>2, <1>3, <1>4 DEF Preflight

\* The row in hand is loaded again.
LEMMA ReloadRow ==
  ASSUME TypeOK, NEW w \in Workers, RowLive(w), pc[w] \in Executing,
         NEW label \in Executing, Goto(w, label), Load(w, {task[w]}),
         UNCHANGED <<jobs, task, result>>, jobs[task[w]].status # "GONE",
         label = "abort" => jobs[task[w]].status = "CANCELLED",
         label # "settle" \/ result[w] # "input"
  PROVE  Continues(w)
<1>1. w \in Sessions /\ task[w] \in Jobs BY DEF TypeOK, Sessions
<1>2. pc'[w] = label BY <1>1 DEF Goto, TypeOK
<1>3. view'[w][task[w]] = jobs[task[w]] BY <1>1 DEF Load, TypeOK
<1>4. CopyLive(w)' BY <1>2, <1>3 DEF CopyLive, RowLive
<1> QED BY <1>2, <1>4 DEF Continues, Elsewhere, KeepsLock

LEMMA HeadRow ==
  ASSUME TypeOK, NEW w \in Workers, RowLive(w), StepHead(w) \/ FinishRead(w)
  PROVE  DoneWith(w) \/ Continues(w)
<1>1. pc[w] \in Executing /\ UNCHANGED jobs
  BY DEF StepHead, FinishRead, Executing
<1>2. CASE EndWork(w, "raised") BY <1>1, <1>2, RaisesRow
<1>3. CASE StepHead(w) /\ ~EndWork(w, "raised")
  <2>1. /\ Load(w, {task[w]}) /\ UNCHANGED <<task, result>>
        /\ jobs[task[w]].status # "GONE"
        /\ Goto(w, IF jobs[task[w]].status = "CANCELLED" THEN "abort" ELSE "mark")
    BY <1>3 DEF StepHead, Refresh
  <2> QED BY <1>1, <2>1, ReloadRow DEF Executing
<1>4. CASE FinishRead(w) /\ ~EndWork(w, "raised")
  <2>1. /\ Load(w, {task[w]}) /\ UNCHANGED <<task, result>> /\ Goto(w, "complete")
        /\ jobs[task[w]].status # "GONE"
    BY <1>4 DEF FinishRead, JobMayMove, JobTransitions
  <2> QED BY <1>1, <2>1, ReloadRow DEF Executing
<1> QED BY <1>2, <1>3, <1>4

\* On to the next step, with nothing loaded.
LEMMA NextStepRow ==
  ASSUME TypeOK, NEW w \in Workers, pc[w] \in Executing, NextStep(w), UNCHANGED task,
         Elsewhere(task[w]), KeepsLock(task[w]),
         jobs'[task[w]].status = jobs[task[w]].status
  PROVE  Continues(w)
<1>1. pc'[w] \in {"finish", "head"} BY DEF NextStep, Goto, TypeOK, Sessions
<1>2. CopyLive(w)' BY <1>1 DEF CopyLive, Copying
<1> QED BY <1>1, <1>2 DEF Continues, Executing

LEMMA StepStartRow ==
  ASSUME TypeOK, NEW w \in Workers, CopyLive(w), RowLive(w), StepStart(w)
  PROVE  DoneWith(w) \/ Continues(w)
<1> DEFINE j == task[w]
           r == view[w][j]
<1>1. /\ w \in Sessions /\ j \in Jobs /\ r \in Row /\ pc[w] = "mark"
      /\ jobs \in [Jobs -> Row] /\ view \in [Sessions -> [Jobs -> Row]]
  BY DEF StepStart, TypeOK, Sessions, Executing
<1>2. CASE Raise(w) BY <1>2, RaisesRow DEF Raise
<1>3. CASE NextStep(w) /\ UNCHANGED <<jobs, task, result>>
  BY <1>1, <1>3, NextStepRow DEF Executing, Elsewhere, KeepsLock
<1>4. CASE UNCHANGED <<jobs, view>> /\ Goto(w, "run") /\ UNCHANGED <<task, at, result>>
  <2>1. pc'[w] = "run" BY <1>1, <1>4 DEF Goto, TypeOK
  <2>2. CopyLive(w)' BY <1>1, <1>4, <2>1 DEF CopyLive, Copying
  <2> QED BY <1>1, <1>4, <2>1, <2>2 DEF Continues, Executing, Elsewhere, KeepsLock
<1>5. CASE /\ Commit(w, j, WithStep(r, at[w], "RUNNING"))
           /\ jobs[j].status # "GONE"
           /\ view' = [view EXCEPT ![w][j] = jobs'[j]]
           /\ Goto(w, "run") /\ UNCHANGED <<task, at, result>>
  <2>1. Elsewhere(j) /\ KeepsLock(j) /\ jobs'[j].status = jobs[j].status
    BY <1>1, <1>5, CommitStep
  <2>2. pc'[w] = "run" BY <1>1, <1>5 DEF Goto, TypeOK
  <2>3. view'[w][j] = jobs'[j] BY <1>1, <1>5
  <2>4. CopyLive(w)'
    BY <1>1, <1>5, <2>1, <2>2, <2>3 DEF CopyLive, RowLive, Executing
  <2> QED BY <1>1, <1>5, <2>1, <2>2, <2>4 DEF Continues, Executing
<1> QED BY <1>1, <1>2, <1>3, <1>4, <1>5 DEF StepStart

LEMMA HandlerRow ==
  ASSUME TypeOK, NEW w \in Workers, CopyLive(w), RowLive(w), HandlerReturns(w)
  PROVE  DoneWith(w) \/ Continues(w)
<1> DEFINE j == task[w]
<1>1. /\ w \in Sessions /\ j \in Jobs /\ pc[w] = "run" /\ view[w][j] \in Row
      /\ jobs \in [Jobs -> Row] /\ view \in [Sessions -> [Jobs -> Row]]
      /\ at[w] \in Steps /\ result \in [Workers -> Results]
  BY DEF HandlerReturns, TypeOK, Sessions, Executing
<1>2. jobs' = jobs BY DEF HandlerReturns
<1>3. CASE EndWork(w, "raised") BY <1>2, <1>3, RaisesRow
<1>4. CASE /\ jobs[j].status = "CANCELLED" /\ Load(w, {j}) /\ Goto(w, "abort")
           /\ UNCHANGED <<task, at, result>>
  <2>1. "abort" \in Executing BY DEF Executing
  <2> QED BY <1>1, <1>2, <1>4, <2>1, ReloadRow DEF Executing
<1>5. ASSUME jobs[j].status \notin {"GONE", "CANCELLED"}, UNCHANGED <<task, at>>,
             Goto(w, "settle"), NEW res \in Results \ {"input"}, NEW seen,
             result' = [result EXCEPT ![w] = res],
             view' = [view EXCEPT ![w] = [NoView EXCEPT ![j] = WithStep(jobs[j], at[w], seen)]]
      PROVE  Continues(w)
  <2>1. pc'[w] = "settle" /\ result'[w] # "input" BY <1>1, <1>5 DEF Goto, TypeOK
  <2>2. NoView \in [Jobs -> Row] BY NewRowType
  <2>3. view'[w][j] = WithStep(jobs[j], at[w], seen) BY <1>1, <1>5, <2>2
  <2>4. view'[w][j].status = jobs[j].status BY <1>1, <2>3, WithStepStatus
  <2>5. CopyLive(w)'
    BY <1>1, <1>5, <2>1, <2>4 DEF CopyLive, RowLive, Executing
  <2> QED BY <1>1, <1>2, <1>5, <2>1, <2>5 DEF Continues, Executing, Elsewhere, KeepsLock
<1>6. CASE /\ Goto(w, "settle") /\ UNCHANGED <<task, at>>
           /\ view' = [view EXCEPT ![w][j] = WithStep(@, at[w], "RUNNING")]
  <2>1. pc'[w] = "settle" BY <1>1, <1>6 DEF Goto, TypeOK
  <2>2. view'[w][j] = WithStep(view[w][j], at[w], "RUNNING") BY <1>1, <1>6
  <2>3. /\ view'[w][j].status = view[w][j].status
        /\ view'[w][j].steps[at[w]] = "RUNNING"
    BY <1>1, <1>6, <2>2, WithStepRow
  <2>4. CopyLive(w)' BY <1>1, <1>6, <2>1, <2>3 DEF CopyLive, Copying
  <2> QED BY <1>1, <1>2, <1>6, <2>1, <2>4 DEF Continues, Executing, Elsewhere, KeepsLock
<1> QED BY <1>1, <1>3, <1>4, <1>5, <1>6 DEF HandlerReturns, Refresh

LEMMA SettleRow ==
  ASSUME TypeOK, NEW w \in Workers, CopyLive(w), SettleStep(w)
  PROVE  DoneWith(w) \/ Continues(w)
<1> DEFINE j == task[w]
           r == view[w][j]
           asks == [Stepped(w, "WAITING_FOR_INPUT") EXCEPT !.status = "WAITING_FOR_REVIEW"]
<1>1. /\ w \in Sessions /\ j \in Jobs /\ r \in Row /\ pc[w] = "settle"
      /\ jobs \in [Jobs -> Row] /\ at[w] \in Steps
  BY DEF SettleStep, TypeOK, Sessions, Executing
<1>2. \A st \in StepStatuses : Stepped(w, st) \in Row
  BY <1>1, WithStepType DEF Stepped
<1>3. CASE Raise(w) BY <1>3, RaisesRow DEF Raise
<1>4. CASE SettleWith(w, Stepped(w, "COMPLETED"), "step") /\ ~Raise(w)
  <2>1. /\ Commit(w, j, WithStep(r, at[w], "COMPLETED"))
        /\ NextStep(w) /\ UNCHANGED <<task, result>>
    BY <1>4 DEF SettleWith, Stepped
  <2> QED BY <1>1, <2>1, CommitStep, NextStepRow DEF Executing
<1>5. CASE SettleWith(w, Outcome(j, Stepped(w, "FAILED"), result[w]), "poll") /\ ~Raise(w)
  <2>1. /\ Commit(w, j, Outcome(j, Stepped(w, "FAILED"), result[w]))
        /\ EndWork(w, "poll")
    BY <1>5 DEF SettleWith
  <2>2. Outcome(j, Stepped(w, "FAILED"), result[w]).status \in {"RETRYABLE", "FAILED"}
    BY <1>2, CallStatus DEF StepStatuses
  <2> QED BY <1>1, <2>1, <2>2, SettlesRow DEF Copying
<1>6. CASE result[w] = "input" /\ SettleWith(w, asks, "poll") /\ ~Raise(w)
  <2>1. Commit(w, j, asks) /\ EndWork(w, "poll") /\ jobs[j].status # "GONE"
    BY <1>6 DEF SettleWith
  <2>2. r.status = "RUNNING" /\ r.steps[at[w]] = "RUNNING"
    <3>1. r.status \in {"RUNNING", "QUEUED", "CANCELLED"} BY <1>1 DEF CopyLive, Copying
    <3>2. asks.status = "WAITING_FOR_REVIEW"
      BY <1>2 DEF Row, StepStatuses
    <3>3. JobMayMove(r.status, "WAITING_FOR_REVIEW") BY <1>6, <3>2 DEF SettleWith
    <3> HIDE DEF r, asks
    <3>4. r.status = "RUNNING" BY <3>1, <3>3 DEF JobMayMove, JobTransitions
    <3> QED BY <1>1, <1>6, <3>4 DEF CopyLive, r
  <2>3. /\ asks.status = "WAITING_FOR_REVIEW" /\ asks.by = r.by /\ asks.lock = r.lock
        /\ asks.steps[at[w]] = "WAITING_FOR_INPUT"
    <3>1. Stepped(w, "WAITING_FOR_INPUT") \in Row BY <1>2 DEF StepStatuses
    <3> QED BY <1>1, <3>1, WithStepRow, SMTT(40) DEF Stepped, Row
  <2> HIDE DEF asks
  <2>4. Elsewhere(j) /\ jobs'[j] = Flush(jobs[j], r, asks) BY <1>1, <2>1, CommitRow
  <2>5. KeepsLock(j) /\ jobs'[j].status = "WAITING_FOR_REVIEW"
    BY <1>1, <2>2, <2>3, <2>4, FlushFields DEF KeepsLock
  <2>6. jobs'[j].steps[at[w]] = "WAITING_FOR_INPUT"
    BY <1>1, <2>2, <2>3, <2>4, FlushFields
  <2>7. pc'[w] = "poll" BY <2>1, EndsWork
  <2> QED BY <1>1, <2>1, <2>4, <2>5, <2>6, <2>7 DEF DoneWith, Waits
<1> QED BY <1>1, <1>3, <1>4, <1>5, <1>6 DEF SettleStep

LEMMA LastRow ==
  ASSUME TypeOK, NEW w \in Workers, CopyLive(w), CompleteJob(w) \/ AbortCancelled(w)
  PROVE  DoneWith(w)
<1> DEFINE j == task[w]
           r == view[w][j]
<1>1. /\ w \in Sessions /\ j \in Jobs /\ r \in Row /\ jobs \in [Jobs -> Row]
      /\ pc[w] \in Copying
  BY DEF CompleteJob, AbortCancelled, TypeOK, Sessions, Executing, Copying
<1>2. Unlocked(r) \in Row BY <1>1, UnlockedType
<1>3. CASE Raise(w) BY <1>3, RaisesRow DEF Raise
<1>4. CASE /\ EndWork(w, "poll")
           /\ Commit(w, j, [Unlocked(r) EXCEPT !.status = "COMPLETED"])
  <2>1. [Unlocked(r) EXCEPT !.status = "COMPLETED"].status = "COMPLETED"
    BY <1>2 DEF Row
  <2> QED BY <1>1, <1>4, <2>1, SettlesRow
<1>5. CASE pc[w] = "abort" /\ EndWork(w, "poll") /\ Commit(w, j, Unlocked(r))
  <2>1. Unlocked(r).status = r.status BY <1>1, CallStatus
  <2>2. Elsewhere(j) /\ jobs'[j] = Flush(jobs[j], r, Unlocked(r))
    BY <1>1, <1>5, CommitRow
  <2>3. jobs'[j].status = jobs[j].status BY <1>1, <2>1, <2>2, FlushFields
  <2>4. pc'[w] = "poll" BY <1>5, EndsWork
  <2> QED BY <1>1, <1>5, <2>2, <2>3, <2>4 DEF DoneWith
<1> QED BY <1>3, <1>4, <1>5 DEF CompleteJob, AbortCancelled

\* Whatever an executing worker does.
LEMMA WorkRow ==
  ASSUME TypeOK, NEW w \in Workers, CopyLive(w), RowLive(w), WorkerStep(w),
         pc[w] \in Executing
  PROVE  DoneWith(w) \/ Continues(w)
<1>1. /\ pc[w] \notin {"boot", "raised", "poll", "recover", "sweep", "ready"}
  BY DEF Executing
<1> QED
  BY <1>1, PreflightRow, HeadRow, StepStartRow, HandlerRow, SettleRow, LastRow
  DEF WorkerStep, RecoverRead, StaleRead, SweepCommit, Claim, ClaimNothing

-----------------------------------------------------------------------------
(***************************************************************************)
(* What the steps of the one worker keep.                                  *)
(***************************************************************************)
WaitingKept ==
  \A k \in Jobs : jobs[k].status = "WAITING_FOR_REVIEW"
                    => jobs'[k].status = "WAITING_FOR_REVIEW"

OperatorsWait ==
  \A o \in Operators : pc'[o] = pc[o] /\ task'[o] = task[o] /\ view'[o] = view[o]

Keeps == ParkInv' /\ (HoldInv => HoldInv') /\ WaitingKept

LEMMA WorkersOnly ==
  ASSUME TypeOK, NEW w \in Workers, Start(w) \/ Crash(w) \/ Error(w) \/ WorkerStep(w)
  PROVE  OperatorsWait
<1>1. /\ \A o \in Operators : o \in Sessions /\ o # w
      /\ w \in Sessions /\ pc \in [Sessions -> Executing \cup Between \cup Ops \cup {"idle"}]
      /\ task \in [Sessions -> Jobs \cup {0}] /\ view \in [Sessions -> [Jobs -> Row]]
  BY QueueAssumption DEF TypeOK, Sessions
<1>2. ASSUME NEW label, EndWork(w, label) PROVE OperatorsWait
  BY <1>1, <1>2 DEF OperatorsWait, EndWork, Goto, Forget
<1>3. ASSUME NEW label, Goto(w, label), UNCHANGED task,
             view' = view \/ Forget(w) \/ \E S : Load(w, S)
      PROVE  OperatorsWait
  BY <1>1, <1>3 DEF OperatorsWait, Goto, Forget, Load
<1>4. CASE Start(w) \/ Crash(w) \/ Error(w)
  BY <1>2, <1>3, <1>4 DEF Start, Crash, Error
<1>5. CASE RecoverRead(w) \/ StaleRead(w) \/ ClaimNothing(w) \/ SweepCommit(w)
  BY <1>3, <1>5 DEF RecoverRead, StaleRead, ClaimNothing, SweepCommit
<1>6. CASE Claim(w)
  BY <1>1, <1>6 DEF Claim, Goto, OperatorsWait
<1>7. CASE Preflight(w)
  BY <1>2, <1>3, <1>7 DEF Preflight, Raise
<1>8. CASE StepHead(w) \/ FinishRead(w)
  BY <1>2, <1>3, <1>8 DEF StepHead, FinishRead, Refresh
<1>9. CASE StepStart(w)
  <2>1. CASE Raise(w) BY <1>2, <2>1 DEF Raise
  <2>2. CASE NextStep(w) /\ UNCHANGED <<jobs, task, result>>
    BY <1>3, <2>2 DEF NextStep
  <2>3. CASE UNCHANGED <<jobs, view>> /\ Goto(w, "run") /\ UNCHANGED <<task, at, result>>
    BY <1>3, <2>3
  <2>4. CASE /\ view' = [view EXCEPT ![w][task[w]] = jobs'[task[w]]]
             /\ Goto(w, "run") /\ UNCHANGED <<task, at, result>>
    BY <1>1, <2>4 DEF OperatorsWait, Goto
  <2> QED BY <1>9, <2>1, <2>2, <2>3, <2>4 DEF StepStart
<1>10. CASE HandlerReturns(w)
  <2>1. CASE Refresh(w, "settle")
    BY <1>2, <1>3, <2>1 DEF Refresh
  <2>2. CASE /\ Goto(w, "settle") /\ UNCHANGED task
             /\ \E new : view' = [view EXCEPT ![w] = new]
    BY <1>1, <2>2 DEF OperatorsWait, Goto
  <2>3. CASE /\ Goto(w, "settle") /\ UNCHANGED task
             /\ \E new : view' = [view EXCEPT ![w][task[w]] = new]
    BY <1>1, <2>3 DEF OperatorsWait, Goto
  <2>4. \/ Refresh(w, "settle")
        \/ /\ Goto(w, "settle") /\ UNCHANGED task
           /\ \E new : view' = [view EXCEPT ![w] = new]
        \/ /\ Goto(w, "settle") /\ UNCHANGED task
           /\ \E new : view' = [view EXCEPT ![w][task[w]] = new]
    BY <1>10, Zenon DEF HandlerReturns
  <2> QED BY <2>1, <2>2, <2>3, <2>4
<1>11. CASE SettleStep(w)
  BY <1>2, <1>3, <1>11 DEF SettleStep, SettleWith, Raise, NextStep
<1>12. CASE CompleteJob(w) \/ AbortCancelled(w)
  BY <1>2, <1>12 DEF CompleteJob, AbortCancelled, Raise
<1> QED
  BY <1>4, <1>5, <1>6, <1>7, <1>8, <1>9, <1>10, <1>11, <1>12 DEF WorkerStep

\* The requests that operators have under way do not change.
LEMMA ParkParts ==
  ASSUME OneWorker, ParkInv, OperatorsWait, NEW w \in Workers,
         CopyLive(w)', RowLive(w)', SweepLive(w)',
         \A k \in Jobs : jobs'[k].status = "WAITING_FOR_REVIEW" => Waits(jobs'[k])
  PROVE  ParkInv'
<1>1. \A o \in Operators : RequestLive(o)' BY DEF ParkInv, RequestLive, OperatorsWait
<1>2. \A v \in Workers : v = w BY DEF OneWorker
<1>3. \A v \in Workers : CopyLive(v)' /\ RowLive(v)' /\ SweepLive(v)' BY <1>2
<1> QED BY <1>1, <1>3 DEF ParkInv

LEMMA HoldParts ==
  ASSUME OneWorker, NEW w \in Workers,
         \A k \in Jobs : jobs'[k].status \in {"RUNNING", "WAITING_FOR_REVIEW"}
                           => Tagged(jobs'[k]),
         pc'[w] \in Executing => /\ jobs'[task'[w]].status # "GONE" => Tagged(jobs'[task'[w]])
                                 /\ pc'[w] = "abort" => jobs'[task'[w]].status # "RUNNING"
  PROVE  HoldInv'
<1>1. \A v \in Workers : v = w BY DEF OneWorker
<1> QED BY <1>1 DEF HoldInv

LEMMA DoneKeeps ==
  ASSUME OneWorker, TypeOK, ParkInv, OperatorsWait, NEW w \in Workers,
         pc[w] \in Executing, DoneWith(w)
  PROVE  Keeps
<1> DEFINE j == task[w]
<1>1. /\ j \in Jobs /\ jobs[j].status \in {"RUNNING", "QUEUED", "CANCELLED", "GONE"}
      /\ pc'[w] \notin Executing \cup Copying \cup {"recover", "sweep"}
      /\ \A k \in Jobs \ {j} : jobs'[k] = jobs[k]
  BY DEF TypeOK, ParkInv, RowLive, DoneWith, Executing, Copying, Elsewhere
<1>2. CopyLive(w)' /\ RowLive(w)' /\ SweepLive(w)'
  BY <1>1 DEF CopyLive, RowLive, SweepLive, Executing, Copying
<1>3. jobs'[j].status = "WAITING_FOR_REVIEW" => Waits(jobs'[j])
  BY <1>1 DEF DoneWith
<1>4. ParkInv'
  <2>1. \A k \in Jobs : jobs'[k].status = "WAITING_FOR_REVIEW" => Waits(jobs'[k])
    BY <1>1, <1>3 DEF ParkInv
  <2> QED BY <1>2, <2>1, ParkParts
<1>5. WaitingKept BY <1>1 DEF WaitingKept
<1>6. ASSUME HoldInv PROVE HoldInv'
  <2>1. jobs'[j].status \in {"RUNNING", "WAITING_FOR_REVIEW"} => Tagged(jobs'[j])
    BY <1>1, <1>6 DEF DoneWith, HoldInv, KeepsLock, Tagged
  <2>2. \A k \in Jobs : jobs'[k].status \in {"RUNNING", "WAITING_FOR_REVIEW"}
                          => Tagged(jobs'[k])
    BY <1>1, <1>6, <2>1 DEF HoldInv
  <2> QED BY <1>1, <2>2, HoldParts
<1> QED BY <1>4, <1>5, <1>6 DEF Keeps

LEMMA ContinueKeeps ==
  ASSUME OneWorker, TypeOK, ParkInv, OperatorsWait, NEW w \in Workers, Continues(w)
  PROVE  Keeps
<1> DEFINE j == task[w]
<1>1. /\ j \in Jobs /\ jobs[j].status \in {"RUNNING", "QUEUED", "CANCELLED", "GONE"}
      /\ pc'[w] \in Executing /\ pc'[w] \notin {"recover", "sweep"} /\ task'[w] = j
      /\ \A k \in Jobs \ {j} : jobs'[k] = jobs[k]
      /\ jobs'[j].status = jobs[j].status
  BY DEF TypeOK, ParkInv, RowLive, Continues, Executing, Elsewhere
<1>2. CopyLive(w)' /\ RowLive(w)' /\ SweepLive(w)'
  BY <1>1 DEF Continues, RowLive, SweepLive
<1>3. ParkInv'
  <2>1. \A k \in Jobs : jobs'[k].status = "WAITING_FOR_REVIEW" => Waits(jobs'[k])
    BY <1>1 DEF ParkInv
  <2> QED BY <1>2, <2>1, ParkParts
<1>4. WaitingKept BY <1>1 DEF WaitingKept
<1>5. ASSUME HoldInv PROVE HoldInv'
  <2>1. Tagged(jobs[j]) => Tagged(jobs'[j]) BY DEF Continues, KeepsLock, Tagged
  <2>2. \A k \in Jobs : jobs'[k].status \in {"RUNNING", "WAITING_FOR_REVIEW"}
                          => Tagged(jobs'[k])
    BY <1>1, <1>5, <2>1 DEF HoldInv
  <2>3. /\ jobs'[j].status # "GONE" => Tagged(jobs'[j])
        /\ pc'[w] = "abort" => jobs'[j].status # "RUNNING"
    BY <1>1, <1>5, <2>1 DEF HoldInv, Continues
  <2> QED BY <1>1, <2>2, <2>3, HoldParts
<1> QED BY <1>3, <1>4, <1>5 DEF Keeps

\* Starting, dying, and looking for rows to recover or to claim.
LEMMA LookKeepsRows ==
  ASSUME OneWorker, TypeOK, ParkInv, OperatorsWait, NEW w \in Workers,
         \/ Start(w) \/ Crash(w) \/ Error(w)
         \/ RecoverRead(w) \/ StaleRead(w) \/ ClaimNothing(w)
  PROVE  Keeps
<1>1. w \in Sessions /\ view \in [Sessions -> [Jobs -> Row]] /\ jobs' = jobs
  BY DEF TypeOK, Sessions, Start, Crash, Error, RecoverRead, StaleRead, ClaimNothing
<1>2. pc'[w] \in {"boot", "down", "dead", "poll", "raised", "recover", "sweep", "ready"}
  <2>1. CASE Error(w)
    BY <1>1, <2>1, ErrorLabel DEF TypeOK, Error, EndWork, Goto
  <2> QED BY <1>1, <2>1 DEF TypeOK, Start, Crash, EndWork, RecoverRead, StaleRead, ClaimNothing, Goto
<1>3. CopyLive(w)' /\ RowLive(w)'
  BY <1>2 DEF CopyLive, RowLive, Executing, Copying
<1>4. SweepLive(w)'
  <2>1. CASE pc'[w] \notin {"recover", "sweep"} BY <2>1 DEF SweepLive
  <2>2. ASSUME NEW S, \A k \in S : jobs[k].status = "RUNNING", Load(w, S)
        PROVE  SweepLive(w)'
    <3>1. view'[w] = [k \in Jobs |-> IF k \in S THEN jobs[k] ELSE GoneRow]
      BY <1>1, <2>2 DEF Load
    <3>2. GoneRow.status = "GONE" BY DEF GoneRow, NewRow
    <3> QED BY <1>1, <2>2, <3>1, <3>2 DEF SweepLive
  <2>3. CASE RecoverRead(w) BY <2>2, <2>3 DEF RecoverRead, LockedBy
  <2>4. CASE StaleRead(w) BY <2>2, <2>4 DEF StaleRead, StaleRows
  <2>5. CASE Start(w) \/ Crash(w) \/ Error(w) \/ ClaimNothing(w)
    <3>1. pc'[w] \notin {"recover", "sweep"}
      <4>1. CASE Error(w)
        BY <1>1, <4>1, ErrorLabel DEF TypeOK, Error, EndWork, Goto
      <4> QED BY <1>1, <2>5, <4>1 DEF TypeOK, Start, Crash, EndWork, ClaimNothing, Goto
    <3> QED BY <2>1, <3>1
  <2> QED BY <2>3, <2>4, <2>5
<1>5. ParkInv' BY <1>1, <1>3, <1>4, ParkParts DEF ParkInv
<1>6. WaitingKept BY <1>1 DEF WaitingKept
<1>7. ASSUME HoldInv PROVE HoldInv'
  <2>1. pc'[w] \notin Executing BY <1>2 DEF Executing
  <2> QED BY <1>1, <1>7, <2>1, HoldParts DEF HoldInv
<1> QED BY <1>5, <1>6, <1>7 DEF Keeps

LEMMA SweepKeepsRows ==
  ASSUME OneWorker, TypeOK, ParkInv, OperatorsWait, NEW w \in Workers, SweepCommit(w)
  PROVE  Keeps
<1>1. /\ w \in Sessions /\ jobs \in [Jobs -> Row] /\ view \in [Sessions -> [Jobs -> Row]]
      /\ pc[w] \in {"recover", "sweep"} /\ SweepLive(w)
  BY DEF TypeOK, Sessions, SweepCommit, ParkInv
<1>2. pc'[w] \in {"poll", "ready"} BY <1>1 DEF SweepCommit, Goto, TypeOK
<1>3. ASSUME NEW k \in Jobs, jobs'[k] # jobs[k]
      PROVE  /\ jobs'[k].status \in {"RETRYABLE", "FAILED"}
             /\ jobs[k].status # "WAITING_FOR_REVIEW"
  <2>1. /\ jobs'[k] = Flush(jobs[k], view[w][k], Recovered(k, view[w][k]))
        /\ view[w][k].status # "GONE"
    BY <1>3 DEF SweepCommit
  <2>2. view[w][k].status = "RUNNING" /\ jobs[k].status # "WAITING_FOR_REVIEW"
    BY <1>1, <2>1 DEF SweepLive
  <2>3. Recovered(k, view[w][k]).status \in {"RETRYABLE", "FAILED"}
    BY <1>1, CallStatus, ZenonT(60)
  <2> QED BY <1>1, <2>1, <2>2, <2>3, FlushFields
<1>4. CopyLive(w)' /\ RowLive(w)' /\ SweepLive(w)'
  BY <1>2 DEF CopyLive, RowLive, SweepLive, Executing, Copying
<1>5. ParkInv'
  <2>1. \A k \in Jobs : jobs'[k].status = "WAITING_FOR_REVIEW" => Waits(jobs'[k])
    BY <1>3 DEF ParkInv
  <2> QED BY <1>4, <2>1, ParkParts
<1>6. WaitingKept BY <1>3 DEF WaitingKept
<1>7. ASSUME HoldInv PROVE HoldInv'
  <2>1. \A k \in Jobs : jobs'[k].status \in {"RUNNING", "WAITING_FOR_REVIEW"}
                          => Tagged(jobs'[k])
    BY <1>3, <1>7 DEF HoldInv
  <2>2. pc'[w] \notin Executing BY <1>2 DEF Executing
  <2> QED BY <2>1, <2>2, HoldParts
<1> QED BY <1>5, <1>6, <1>7 DEF Keeps

LEMMA ClaimKeepsRows ==
  ASSUME OneWorker, TypeOK, ParkInv, OperatorsWait, NEW w \in Workers, Claim(w)
  PROVE  Keeps
<1>1. PICK j \in Jobs : /\ jobs[j].status \in {"QUEUED", "RETRYABLE"}
                        /\ jobs' = [jobs EXCEPT ![j] = Claimed(@, w)]
                        /\ task' = [task EXCEPT ![w] = j]
                        /\ view' = [view EXCEPT ![w] = [NoView EXCEPT ![j] = Claimed(jobs[j], w)]]
  BY DEF Claim, Claimable
<1>2. /\ w \in Sessions /\ jobs \in [Jobs -> Row] /\ view \in [Sessions -> [Jobs -> Row]]
      /\ NoView \in [Jobs -> Row] /\ w # NoOne
  BY NewRowType, QueueAssumption DEF TypeOK, Sessions
<1>3. /\ Claimed(jobs[j], w).status = "RUNNING" /\ Claimed(jobs[j], w).by = w
      /\ Claimed(jobs[j], w).lock = "fresh"
  BY <1>2 DEF Claimed, Row
<1>4. pc'[w] = "start" /\ task'[w] = j
  BY <1>1, <1>2 DEF Claim, Goto, TypeOK
<1>5. /\ jobs'[j].status = "RUNNING" /\ Tagged(jobs'[j])
      /\ \A k \in Jobs \ {j} : jobs'[k] = jobs[k]
  BY <1>1, <1>2, <1>3 DEF Tagged
<1>6. view'[w][j].status = "RUNNING" BY <1>1, <1>2, <1>3
<1>7. CopyLive(w)' /\ RowLive(w)' /\ SweepLive(w)'
  BY <1>4, <1>5, <1>6 DEF CopyLive, RowLive, SweepLive
<1>8. ParkInv'
  <2>1. \A k \in Jobs : jobs'[k].status = "WAITING_FOR_REVIEW" => Waits(jobs'[k])
    BY <1>5 DEF ParkInv
  <2> QED BY <1>7, <2>1, ParkParts
<1>9. WaitingKept BY <1>1, <1>5 DEF WaitingKept
<1>10. ASSUME HoldInv PROVE HoldInv'
  <2>1. \A k \in Jobs : jobs'[k].status \in {"RUNNING", "WAITING_FOR_REVIEW"}
                          => Tagged(jobs'[k])
    BY <1>5, <1>10 DEF HoldInv
  <2> QED BY <1>4, <1>5, <2>1, HoldParts
<1> QED BY <1>8, <1>9, <1>10 DEF Keeps

LEMMA WorkersKeep ==
  ASSUME OneWorker, TypeOK, ParkInv, NEW w \in Workers,
         Start(w) \/ Crash(w) \/ Error(w) \/ WorkerStep(w)
  PROVE  OperatorsWait /\ Keeps
<1>1. OperatorsWait BY WorkersOnly
<1>2. CASE WorkerStep(w) /\ pc[w] \in Executing
  <2>1. DoneWith(w) \/ Continues(w) BY <1>2, WorkRow DEF ParkInv
  <2> QED BY <1>1, <1>2, <2>1, DoneKeeps, ContinueKeeps
<1>3. CASE WorkerStep(w) /\ pc[w] \notin Executing
  <2>1. RecoverRead(w) \/ StaleRead(w) \/ ClaimNothing(w) \/ SweepCommit(w) \/ Claim(w)
    BY <1>3 DEF WorkerStep, Executing, Preflight, StepHead, StepStart, HandlerReturns,
       SettleStep, FinishRead, CompleteJob, AbortCancelled
  <2> QED BY <1>1, <2>1, LookKeepsRows, SweepKeepsRows, ClaimKeepsRows
<1> QED BY <1>1, <1>2, <1>3, LookKeepsRows

-----------------------------------------------------------------------------
(***************************************************************************)
(* Clocks and operators.                                                   *)
(***************************************************************************)
LEMMA ClockKeepsRows ==
  ASSUME TypeOK, ParkInv,
         \/ \E w \in Workers : Heartbeat(w)
         \/ \E k \in Jobs : LockAges(k) \/ BecomesDue(k)
  PROVE  OperatorsWait /\ Keeps
<1>1. UNCHANGED <<pc, task, at, view, result>> BY DEF Heartbeat, LockAges, BecomesDue
<1>2. ASSUME NEW r \in Row,
             NEW q \in {[r EXCEPT !.lock = "fresh"], [r EXCEPT !.lock = "stale"],
                        [r EXCEPT !.due = TRUE]}
      PROVE  q.status = r.status /\ q.steps = r.steps /\ (Tagged(r) => Tagged(q))
  BY <1>2 DEF Row, Tagged
<1>3. PICK k, r : /\ jobs' = [jobs EXCEPT ![k] = r]
                  /\ r \in {[jobs[k] EXCEPT !.lock = "fresh"], [jobs[k] EXCEPT !.lock = "stale"],
                            [jobs[k] EXCEPT !.due = TRUE]}
  BY DEF Heartbeat, LockAges, BecomesDue
<1>4. ASSUME k \in Jobs
      PROVE  /\ r.status = jobs[k].status /\ r.steps = jobs[k].steps
             /\ Tagged(jobs[k]) => Tagged(r)
  <2>1. jobs[k] \in Row BY <1>4 DEF TypeOK
  <2> QED BY <1>2, <1>3, <2>1
<1>5. \A i \in Jobs : /\ jobs'[i].status = jobs[i].status /\ jobs'[i].steps = jobs[i].steps
                      /\ Tagged(jobs[i]) => Tagged(jobs'[i])
  BY <1>3, <1>4 DEF TypeOK
<1>6. \A w \in Workers : pc[w] \in Executing => task[w] \in Jobs BY DEF TypeOK
<1>7. ParkInv'
  BY <1>1, <1>5, <1>6 DEF ParkInv, Waits, CopyLive, RowLive, SweepLive, RequestLive
<1>8. WaitingKept BY <1>5 DEF WaitingKept
<1>9. HoldInv => HoldInv' BY <1>1, <1>5, <1>6 DEF HoldInv
<1> QED BY <1>1, <1>7, <1>8, <1>9 DEF Keeps, OperatorsWait

\* A request is accepted on what it loads.
LEMMA RequestKeeps ==
  ASSUME TypeOK, ParkInv, NEW o \in Operators, NEW op \in Ops, NEW j \in Jobs,
         Request(o, op, j)
  PROVE  /\ ParkInv' /\ (HoldInv => HoldInv')
         /\ (ResumeFinds => ResumeFinds')
<1>1. /\ o \in Sessions /\ view \in [Sessions -> [Jobs -> Row]] /\ jobs' = jobs
      /\ at' = at /\ result' = result
      /\ \A v \in Workers : v \in Sessions /\ v # o
  BY QueueAssumption DEF Request, TypeOK, Sessions
<1>2. /\ pc'[o] = op /\ task'[o] = j /\ view'[o][j] = jobs[j]
      /\ \A s \in Sessions \ {o} : pc'[s] = pc[s] /\ task'[s] = task[s] /\ view'[s] = view[s]
  BY <1>1 DEF Request, Goto, Load, TypeOK
<1>3. /\ op = "retry" => jobs[j].status \in {"FAILED", "RETRYABLE"}
      /\ op = "cancel" => jobs[j].status # "CANCELLED"
      /\ op = "resume" => jobs[j].status \in {"WAITING_FOR_REVIEW", "RETRYABLE"}
  BY DEF Request, Allowed, CanRetryJob, CanCancelJob, CanResumeJob
<1>4. ASSUME NEW p \in Operators PROVE RequestLive(p)'
  <2>1. CASE p = o BY <1>2, <1>3, <2>1 DEF RequestLive
  <2>2. CASE p # o BY <1>2, <2>2 DEF ParkInv, RequestLive, Sessions
  <2> QED BY <2>1, <2>2
<1>5. ASSUME NEW v \in Workers PROVE CopyLive(v)' /\ RowLive(v)' /\ SweepLive(v)'
  BY <1>1, <1>2 DEF ParkInv, CopyLive, RowLive, SweepLive
<1>6. ParkInv' BY <1>1, <1>4, <1>5 DEF ParkInv
<1>7. HoldInv => HoldInv' BY <1>1, <1>2 DEF HoldInv
<1>8. ASSUME ResumeFinds, NEW p \in Operators, pc'[p] = "resume"
      PROVE  \/ view'[p][task'[p]].status = "RETRYABLE"
             \/ jobs'[task'[p]].status = "WAITING_FOR_REVIEW"
  <2>1. CASE p = o BY <1>1, <1>2, <1>3, <1>8, <2>1
  <2>2. CASE p # o BY <1>1, <1>2, <1>8, <2>2 DEF ResumeFinds, Sessions
  <2> QED BY <2>1, <2>2
<1> QED BY <1>6, <1>7, <1>8 DEF ResumeFinds

\* A response writes a status that suits a row at work, and tags it if it runs.
LEMMA RespondRow ==
  ASSUME TypeOK, ParkInv, NEW o \in Operators, Respond(o), jobs' # jobs
  PROVE  LET j == task[o] IN
         /\ pc[o] # "idle" /\ Elsewhere(j)
         /\ \/ jobs'[j].status = "GONE"
            \/ jobs'[j].status \in {"QUEUED", "CANCELLED"} /\ KeepsLock(j)
            \/ /\ pc[o] = "resume" /\ view[o][j].status # "RETRYABLE"
               /\ jobs'[j].status = "RUNNING" /\ KeepsLock(j)
<1> DEFINE j == task[o]
           r == view[o][j]
<1>1. /\ o \in Sessions /\ pc[o] \in Ops /\ j \in Jobs /\ r \in Row
      /\ jobs \in [Jobs -> Row] /\ RequestLive(o)
  BY DEF Respond, TypeOK, Sessions, ParkInv
<1>2. pc[o] # "idle" BY DEF Respond
<1>3. CASE jobs' = [jobs EXCEPT ![j] = GoneRow]
  BY <1>1, <1>2, <1>3 DEF Elsewhere, GoneRow, NewRow
<1>4. ASSUME NEW new, Commit(o, j, new), new.by = r.by, new.lock = r.lock,
             new.status # r.status
      PROVE  Elsewhere(j) /\ KeepsLock(j) /\ jobs'[j].status = new.status
  <2>1. Elsewhere(j) /\ jobs'[j] = Flush(jobs[j], r, new) BY <1>1, <1>4, CommitRow
  <2> QED BY <1>1, <1>4, <2>1, FlushFields DEF KeepsLock
<1>5. CASE pc[o] = "retry" /\ Commit(o, j, Retried(r))
  <2>1. /\ Retried(r).status = "QUEUED" /\ Retried(r).by = r.by
        /\ Retried(r).lock = r.lock
    BY <1>1 DEF Retried, Row
  <2> QED BY <1>1, <1>2, <1>4, <1>5, <2>1 DEF RequestLive
<1>6. CASE pc[o] = "cancel" /\ Commit(o, j, Cancelled(r))
  <2>1. /\ Cancelled(r).status = "CANCELLED" /\ Cancelled(r).by = r.by
        /\ Cancelled(r).lock = r.lock
    BY <1>1 DEF Cancelled, Row
  <2> QED BY <1>1, <1>2, <1>4, <1>6, <2>1 DEF RequestLive
<1>7. CASE pc[o] = "resume" /\ Commit(o, j, Resumed(r))
  <2>1. /\ Resumed(r).status = IF r.status = "RETRYABLE" THEN "QUEUED" ELSE "RUNNING"
        /\ Resumed(r).by = r.by /\ Resumed(r).lock = r.lock
    BY <1>1 DEF Resumed, Row
  <2> HIDE DEF r
  <2>2. r.status \in {"WAITING_FOR_REVIEW", "RETRYABLE"} BY <1>1, <1>7 DEF RequestLive, r
  <2> QED BY <1>1, <1>2, <1>4, <1>7, <2>1, <2>2 DEF r
<1> QED
  BY <1>1, <1>3, <1>5, <1>6, <1>7, QueueAssumption DEF Respond

LEMMA RespondKeeps ==
  ASSUME TypeOK, ParkInv, NEW o \in Operators, Respond(o)
  PROVE  /\ ParkInv' /\ (HoldInv /\ ResumeFinds => HoldInv')
         /\ (OneOperator => ResumeFinds')
<1> DEFINE j == task[o]
<1>1. /\ o \in Sessions /\ j \in Jobs /\ view \in [Sessions -> [Jobs -> Row]]
      /\ at' = at /\ result' = result
      /\ \A v \in Workers : v \in Sessions /\ v # o
      /\ \A v \in Workers : pc[v] \in Executing => task[v] \in Jobs
  BY QueueAssumption DEF Respond, TypeOK, Sessions
<1>2. /\ pc'[o] = "idle"
      /\ \A s \in Sessions \ {o} : pc'[s] = pc[s] /\ task'[s] = task[s] /\ view'[s] = view[s]
  BY <1>1 DEF Respond, Goto, Forget, TypeOK
<1>3. ASSUME NEW p \in Operators PROVE RequestLive(p)'
  <2>1. CASE p = o BY <1>2, <2>1 DEF RequestLive
  <2>2. CASE p # o BY <1>2, <2>2 DEF ParkInv, RequestLive, Sessions
  <2> QED BY <2>1, <2>2
<1>4. ASSUME NEW k \in Jobs, jobs'[k] # jobs[k]
      PROVE  /\ jobs'[k].status \in {"RUNNING", "QUEUED", "CANCELLED", "GONE"}
             /\ jobs'[k].status # "GONE" => KeepsLock(k)
             /\ jobs'[k].status = "RUNNING" =>
                  k = j /\ pc[o] = "resume" /\ view[o][j].status # "RETRYABLE"
  BY <1>4, RespondRow DEF Elsewhere
<1>5. ASSUME NEW v \in Workers PROVE CopyLive(v)' /\ RowLive(v)' /\ SweepLive(v)'
  <2>1. CopyLive(v) /\ RowLive(v) /\ SweepLive(v) BY DEF ParkInv
  <2>2. CopyLive(v)' BY <1>1, <1>2, <2>1 DEF CopyLive
  <2>3. RowLive(v)' BY <1>1, <1>2, <1>4, <2>1 DEF RowLive
  <2>4. SweepLive(v)' BY <1>1, <1>2, <1>4, <2>1 DEF SweepLive
  <2> QED BY <2>2, <2>3, <2>4
<1>6. ParkInv'
  <2>1. \A k \in Jobs : jobs'[k].status = "WAITING_FOR_REVIEW" => Waits(jobs'[k])
    BY <1>4 DEF ParkInv
  <2> QED BY <1>3, <1>5, <2>1 DEF ParkInv
<1>7. ASSUME HoldInv, ResumeFinds PROVE HoldInv'
  <2>1. ASSUME NEW k \in Jobs, jobs'[k] # jobs[k], jobs'[k].status = "RUNNING"
        PROVE  jobs[k].status = "WAITING_FOR_REVIEW" /\ Tagged(jobs'[k])
    <3>1. jobs[k].status = "WAITING_FOR_REVIEW" BY <1>4, <1>7, <2>1 DEF ResumeFinds
    <3> QED BY <1>4, <1>7, <2>1, <3>1 DEF HoldInv, Tagged, KeepsLock
  <2>2. \A k \in Jobs : jobs'[k].status \in {"RUNNING", "WAITING_FOR_REVIEW"}
                          => Tagged(jobs'[k])
    BY <1>4, <1>7, <2>1 DEF HoldInv
  <2>3. ASSUME NEW v \in Workers, pc[v] \in Executing
        PROVE  /\ jobs'[task[v]].status # "GONE" => Tagged(jobs'[task[v]])
               /\ pc[v] = "abort" => jobs'[task[v]].status # "RUNNING"
    <3>1. task[v] \in Jobs /\ jobs[task[v]].status # "WAITING_FOR_REVIEW"
      BY <1>1, <2>3 DEF ParkInv, RowLive
    <3>2. CASE jobs'[task[v]] = jobs[task[v]] BY <1>7, <2>3, <3>2 DEF HoldInv
    <3>3. CASE jobs'[task[v]] # jobs[task[v]] /\ jobs[task[v]].status # "GONE"
      BY <1>4, <1>7, <2>1, <2>3, <3>1, <3>3 DEF HoldInv, Tagged, KeepsLock
    <3>4. CASE jobs'[task[v]] # jobs[task[v]] /\ jobs[task[v]].status = "GONE"
      <4>1. task[v] = j BY <3>1, <3>4, RespondRow DEF Elsewhere
      <4> QED BY <3>4, <4>1 DEF Respond
    <3> QED BY <3>2, <3>3, <3>4
  <2> QED BY <1>1, <1>2, <2>2, <2>3 DEF HoldInv
<1>8. ASSUME OneOperator PROVE ResumeFinds'
  BY <1>2, <1>8 DEF OneOperator, ResumeFinds
<1> QED BY <1>6, <1>7, <1>8

-----------------------------------------------------------------------------
(***************************************************************************)
(* The theorems.                                                           *)
(***************************************************************************)
LEMMA SoloInit == Init => ParkInv /\ HoldInv /\ ResumeFinds
<1> SUFFICES ASSUME Init PROVE ParkInv /\ HoldInv /\ ResumeFinds OBVIOUS
<1>1. /\ \A j \in Jobs : jobs[j].status = "QUEUED"
      /\ \A w \in Workers : pc[w] = "down"
      /\ \A o \in Operators : pc[o] = "idle"
  BY QueueAssumption DEF Init, NewRow, Sessions
<1>2. \A w \in Workers : CopyLive(w) /\ RowLive(w) /\ SweepLive(w)
  BY <1>1 DEF CopyLive, RowLive, SweepLive, Copying, Executing
<1>3. \A o \in Operators : RequestLive(o) BY <1>1 DEF RequestLive
<1>4. ParkInv BY <1>1, <1>2, <1>3 DEF ParkInv
<1>5. HoldInv BY <1>1 DEF HoldInv, Executing
<1>6. ResumeFinds BY <1>1 DEF ResumeFinds
<1> QED BY <1>4, <1>5, <1>6

LEMMA SoloStep ==
  ASSUME OneWorker, TypeOK, ParkInv, [Next]_vars
  PROVE  /\ ParkInv' /\ (HoldInv /\ ResumeFinds => HoldInv')
         /\ (OneOperator /\ ResumeFinds => ResumeFinds')
<1>1. ASSUME OperatorsWait, WaitingKept, ResumeFinds PROVE ResumeFinds'
  <2>1. \A o \in Operators : pc[o] = "resume" => task[o] \in Jobs BY DEF TypeOK
  <2> QED BY <1>1, <2>1 DEF OperatorsWait, WaitingKept, ResumeFinds
<1>2. CASE UNCHANGED vars
  BY <1>2 DEF vars, ParkInv, HoldInv, ResumeFinds, CopyLive, RowLive, SweepLive, RequestLive,
     Waits, Tagged
<1>3. CASE \E w \in Workers : Start(w) \/ Crash(w) \/ Error(w) \/ WorkerStep(w)
  BY <1>1, <1>3, WorkersKeep DEF Keeps
<1>4. CASE \/ \E w \in Workers : Heartbeat(w)
           \/ \E k \in Jobs : LockAges(k) \/ BecomesDue(k)
  BY <1>1, <1>4, ClockKeepsRows DEF Keeps
<1>5. CASE \E o \in Operators : Respond(o) \/ \E op \in Ops, k \in Jobs : Request(o, op, k)
  BY <1>5, RequestKeeps, RespondKeeps
<1> QED BY <1>2, <1>3, <1>4, <1>5 DEF Next

\* With one worker process a job that waits for review has a step for
\* resume_job to find, and is executed by nobody, for any number of jobs and
\* operators, and whatever the heartbeats and the operators do.
THEOREM SoloParks == ASSUME OneWorker PROVE Spec => []WaitingIsParked
<1>1. Init => ParkInv BY SoloInit
<1>2. TypeOK /\ ParkInv /\ [Next]_vars => ParkInv' BY SoloStep
<1>3. ParkInv => WaitingIsParked
  BY DEF ParkInv, WaitingIsParked, Waits, RowLive, Works
<1> QED BY <1>1, <1>2, <1>3, TypeCorrect, PTL DEF Spec

\* With one worker process no row is ever stuck in RUNNING: retries, resumes,
\* cancellations and deletions of any number of operators leave every RUNNING
\* row a holder and a lock time, provided no handler asks for input, or one
\* operator acts at a time.
THEOREM SoloRecoverable ==
  ASSUME OneWorker, InputJobs = {} \/ OneOperator PROVE Spec => []RunningIsRecoverable
<1>1. HoldInv => RunningIsRecoverable
  BY DEF HoldInv, RunningIsRecoverable, Tagged
<1>2. Init => ParkInv /\ HoldInv /\ ResumeFinds BY SoloInit
<1>3. CASE InputJobs = {}
  <2>1. SlotInv => ResumeFinds BY DEF SlotInv, ResumesRetryable, ResumeFinds
  <2>2. TypeOK /\ SlotInv /\ [Next]_vars => SlotInv' BY <1>3, SlotStep
  <2>3. TypeOK /\ SlotInv /\ ParkInv /\ HoldInv /\ [Next]_vars => ParkInv' /\ HoldInv'
    BY <2>1, SoloStep
  <2> QED BY <1>1, <1>2, <2>2, <2>3, SlotInit, TypeCorrect, PTL DEF Spec
<1>4. CASE OneOperator
  <2>1. TypeOK /\ ParkInv /\ HoldInv /\ ResumeFinds /\ [Next]_vars
          => ParkInv' /\ HoldInv' /\ ResumeFinds'
    BY <1>4, SoloStep
  <2> QED BY <1>1, <1>2, <2>1, TypeCorrect, PTL DEF Spec
<1> QED BY <1>3, <1>4
=============================================================================
