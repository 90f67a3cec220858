--------------------------- MODULE MetricCadence ---------------------------
(***************************************************************************)
(* The collection of publication metrics (apps/api/src/analytics).  A      *)
(* schedule says when the metrics of its publication are read next; the    *)
(* sweep of every worker, and a route, dispatch what is due: one durable   *)
(* COLLECT_PUBLICATION_METRICS job per schedule and slot.  A worker runs   *)
(* the job: it looks for the snapshot an earlier run may have left, checks *)
(* the account, asks the provider, commits the snapshot, brings the        *)
(* schedule up to date and completes the job, each in a commit of its own. *)
(*                                                                         *)
(* A transaction is one step, but for a sweep's: it locks the rows it      *)
(* selects until its first commit, and works from there on the rows as     *)
(* they have become.  That it stops a schedule is a mark in its session,   *)
(* written by the commit of a later job, or of the end.  It writes a       *)
(* schedule back in a second commit, after the one that creates its job.   *)
(*                                                                         *)
(* Time is counted in half hours (CadencePolicy).  Sweeps, and runs of a   *)
(* job, are shorter; a job left by a crash may wait for longer.            *)
(***************************************************************************)
EXTENDS CadencePolicy, FiniteSets

CONSTANTS Schedules,    \* one per publication; all on one account
          Old,          \* schedules with a start_at already at the age limit
          Dispatchers,  \* sweeps that may run at once
          Workers,      \* bound: how many jobs run at once
          MaxAge,       \* max_age_hours, in half hours
          MaxTries,     \* max_attempts of a job
          Labels,       \* trend labels of publications measured more than once
          Deltas,       \* of {"zero", "more", "unknown"}: delta_view_count
          Horizon,      \* bound: the last value of the clock
          OpsUntil,     \* bound: the operator acts up to this time
          OpBound,      \* bound: how often the operator acts
          FaultBound    \* bound: how many calls fail, workers and sweeps die

ASSUME MetricAssumption == /\ Old \subseteq Schedules
                           /\ Workers \in Nat \ {0}
                           /\ MaxAge \in Nat \ {0} /\ MaxTries \in Nat \ {0}
                           /\ Labels \subseteq Trends
                           /\ Deltas \subseteq {"zero", "more", "unknown"}
                           /\ Horizon \in Nat /\ MaxAge < Horizon /\ OpsUntil \in Nat
                           /\ OpBound \in Nat /\ FaultBound \in Nat

VARIABLES now,
          sched,    \* rows of publication_metric_schedules
          jobs,     \* the jobs created, by schedule and slot
          disp,     \* the sweeps under way
          gone,     \* publications that are PUBLISHED no more
          account,  \* on hold, and in a cooldown until
          ops, faults   \* history: what the operator did, what went wrong

vars == <<now, sched, jobs, disp, gone, account, ops, faults>>

\* last: slot of last_metric_snapshot_id
Schedule(start) == [status |-> "ACTIVE", next |-> start, start |-> start, flat |-> 0,
                    last |-> NoTime]
\* at: scheduled_at, of a job that is queued; read: it has a snapshot, with
\* its observed_at and delta, of a job that has not completed.
NewJob == [state |-> "queued", tries |-> MaxTries, at |-> NoTime, linked |-> FALSE,
           read |-> FALSE, observed |-> NoTime, delta |-> "unknown"]
\* marks: what the sweep has changed of a row and not committed
NoMarks == [s \in Schedules |-> [status |-> "none", clear |-> FALSE]]
IdleSweep == [pc |-> "idle", at |-> NoTime, left |-> {}, job |-> <<>>, next |-> NoTime,
              marks |-> NoMarks, locked |-> {}]

Running == {"calling", "snapped", "synced"}
JobStates == Running \cup {"queued", "completed", "failed", "cancelled"}

Of(s) == {j \in DOMAIN jobs : j[1] = s}
Cooldown == account.until > now

\* growth_summary: the labels its snapshots may give a publication.
Seen(s) ==
  LET n == Cardinality({j \in Of(s) : jobs[j].read})
  IN IF n = 0 THEN {"NO_DATA"} ELSE IF n = 1 THEN {"BASELINE_ONLY"}
     ELSE Labels

\* Every schedule has just been made, by its first upsert_schedule.
Init ==
  /\ now = MaxAge + 1
  /\ sched = [s \in Schedules |-> Schedule(IF s \in Old THEN 1 ELSE now)]
  /\ jobs = <<>>
  /\ disp = [d \in Dispatchers |-> IdleSweep]
  /\ gone = {}
  /\ account = [held |-> FALSE, until |-> NoTime]
  /\ ops = 0
  /\ faults = 0

(***************************************************************************)
(* dispatch_due                                                            *)
(***************************************************************************)
Due == {s \in Schedules : /\ sched[s].status = "ACTIVE"
                          /\ sched[s].next # NoTime
                          /\ sched[s].next <= now}

\* The rows that the sweeps of D have locked, and a commit of someone else's,
\* which waits for those it changes.
Locks(D) == UNION {disp[d].locked : d \in D}
Write(D, after) == /\ \A s \in Locks(D) : after[s] = sched[s]
                   /\ sched' = after

\* Only a column that changes is written.
Marked(q, s, status) ==
  [q EXCEPT !.marks[s] = [status |-> IF sched[s].status = status THEN "none" ELSE status,
                          clear |-> sched[s].next # NoTime]]
Committed(marks) ==
  [s \in Schedules |->
     [sched[s] EXCEPT !.status = IF marks[s].status = "none" THEN @ ELSE marks[s].status,
                      !.next = IF marks[s].clear THEN NoTime ELSE @]]

\* A commit, or a rollback, of the sweep q.
After(q) == [q EXCEPT !.marks = NoMarks, !.locked = {}]

\* mutant: the sweep does not see that it is done
GoOnForever(d, q) ==
  disp' = [disp EXCEPT ![d] = [q EXCEPT !.pc = "loop", !.job = <<>>, !.next = NoTime]]

GoOn(d, q) ==
  disp' = [disp EXCEPT ![d] =
             IF q.left = {} THEN IdleSweep
             ELSE [q EXCEPT !.pc = "loop", !.job = <<>>, !.next = NoTime]]

\* The loop's continue; after the last turn the sweep commits.
Skip(d, q) ==
  /\ IF q.left = {} THEN Write(Dispatchers \ {d}, Committed(q.marks)) ELSE UNCHANGED sched
  /\ GoOn(d, q)
  /\ UNCHANGED jobs

Link(d, q, j, next) ==
  disp' = [disp EXCEPT ![d] = [q EXCEPT !.pc = "link", !.job = j, !.next = next]]

\* enqueue, for the slot of s: refused; a job found, dead or alive; or a new one,
\* whose commit writes the marks too.  When another sweep commits the job first,
\* the insert fails, and its rollback forgets them.
Enqueue(d, s, q, next) ==
  LET slot == IF sched[s].next = NoTime THEN q.at ELSE sched[s].next
      j == <<s, slot>>
      found == j \in DOMAIN jobs
      dead == found /\ jobs[j].state \in {"failed", "cancelled"}
  IN \/ account.held /\ Skip(d, Marked(q, s, "BLOCKED"))
     \/ /\ ~account.held /\ dead
        /\ Write(Dispatchers \ {d}, Committed(Marked(q, s, "BLOCKED").marks))
        /\ GoOn(d, After(q))
        /\ UNCHANGED jobs
     \/ /\ ~account.held /\ found /\ ~dead
        /\ Link(d, q, j, next) \/ (Dispatchers # {d} /\ Link(d, After(q), j, next))
        /\ UNCHANGED <<sched, jobs>>
     \/ /\ ~account.held /\ ~found
        /\ jobs' = [k \in DOMAIN jobs \cup {j} |->
                      IF k \in DOMAIN jobs THEN jobs[k]
                      ELSE [NewJob EXCEPT !.at = IF Cooldown THEN account.until ELSE now]]
        /\ Write(Dispatchers \ {d}, Committed(q.marks))
        /\ Link(d, After(q), j, next)

\* One turn of the loop, up to the commit of the job.
Visit(d, s, q) ==
  /\ \/ s \in gone /\ Skip(d, Marked(q, s, "BLOCKED"))
     \/ /\ s \notin gone
        /\ \E trend \in Seen(s) :
             LET decision == Decide(q.at, sched[s].start, trend, sched[s].flat, MaxAge)
             IN IF decision.status = "COMPLETED" THEN Skip(d, Marked(q, s, "COMPLETED"))
                ELSE Enqueue(d, s, q, decision.next)
  /\ UNCHANGED <<now, gone, account, ops, faults>>

\* The rows another sweep has locked are passed over.
Sweep(d) ==
  /\ disp[d] = IdleSweep
  /\ LET open == Due \ Locks(Dispatchers)
     IN \E s \in open :
          /\ \A other \in open : sched[s].next <= sched[other].next
          /\ Visit(d, s, [IdleSweep EXCEPT !.at = now, !.left = open \ {s}, !.locked = open])

Continue(d) ==
  /\ disp[d].pc = "loop"
  /\ \E s \in disp[d].left : Visit(d, s, [disp[d] EXCEPT !.left = @ \ {s}])

\* The second commit of a turn: the job's link to the schedule, and the
\* decision taken before the first.
WriteBack(d) ==
  LET q == disp[d]
  IN /\ q.pc = "link"
     /\ jobs' = [jobs EXCEPT ![q.job].linked = TRUE]
     /\ Write(Dispatchers \ {d}, [Committed(q.marks) EXCEPT ![q.job[1]].next = q.next])
     /\ GoOn(d, After(q))
     /\ UNCHANGED <<now, gone, account, ops, faults>>

SweepDies(d) ==
  /\ disp[d] # IdleSweep
  /\ faults < FaultBound
  /\ faults' = faults + 1
  /\ disp' = [disp EXCEPT ![d] = IdleSweep]
  /\ UNCHANGED <<now, sched, jobs, gone, account, ops>>

(***************************************************************************)
(* execute_job                                                             *)
(***************************************************************************)
\* next_metric_collection_retry_at, while attempts are left.
Later(job, t) ==
  IF job.tries = 0 THEN [job EXCEPT !.state = "failed"]
  ELSE [job EXCEPT !.state = "queued", !.at = t]

Becomes(j, job) == jobs' = [jobs EXCEPT ![j] = job]
JobOnly == UNCHANGED <<now, sched, disp, gone, account, ops, faults>>

\* A worker claims the job and execute_job begins.  Up to the call it waits for
\* nothing: dying before it is dying at it.
Claimed(j) == [jobs[j] EXCEPT !.tries = @ - 1, !.at = NoTime]
Claimable(j) ==
  /\ jobs[j].state = "queued"
  /\ jobs[j].at <= now
  /\ Cardinality({k \in DOMAIN jobs : jobs[k].state \in Running}) < Workers

\* mutant: a job of an account on hold is left where it is
ReplayUnlessHeld(j) ==
  /\ Claimable(j)
  /\ jobs[j].read
  /\ ~account.held
  /\ Becomes(j, [Claimed(j) EXCEPT !.state = "snapped"])
  /\ JobOnly

\* The snapshot of an earlier run is found: no guard, no call.
Replay(j) ==
  /\ Claimable(j)
  /\ jobs[j].read
  /\ Becomes(j, [Claimed(j) EXCEPT !.state = "snapped"])
  /\ JobOnly

\* mutant: the guards are checked before the snapshot is looked for
RefuseFirst(j) ==
  /\ Claimable(j)
  /\ j[1] \in gone \/ account.held
  /\ Becomes(j, [Claimed(j) EXCEPT !.state = "failed"])
  /\ JobOnly

\* The publication or the account is no longer eligible: a terminal failure.
Refuse(j) ==
  /\ Claimable(j)
  /\ ~jobs[j].read
  /\ j[1] \in gone \/ account.held
  /\ Becomes(j, [Claimed(j) EXCEPT !.state = "failed"])
  /\ JobOnly

Eligible(j) == Claimable(j) /\ ~jobs[j].read /\ j[1] \notin gone /\ ~account.held

\* metrics_account_cooldown
Defer(j) ==
  /\ Eligible(j)
  /\ Cooldown
  /\ Becomes(j, Later(Claimed(j), account.until))
  /\ JobOnly

Call(j) ==
  /\ Eligible(j)
  /\ ~Cooldown
  /\ Becomes(j, [Claimed(j) EXCEPT !.state = "calling"])
  /\ JobOnly

\* record_snapshot; the first snapshot of a publication has no delta.
Answer(j) ==
  /\ jobs[j].state = "calling"
  /\ \E delta \in IF Seen(j[1]) = {"NO_DATA"} THEN {"unknown"} ELSE Deltas :
       Becomes(j, [jobs[j] EXCEPT !.state = "snapped", !.read = TRUE,
                                !.observed = now, !.delta = delta])
  /\ JobOnly

\* A terminal error, a transient one (its backoff is at most an hour), or a
\* rate limit, which puts the account into a cooldown.
CallFails(j) ==
  /\ jobs[j].state = "calling"
  /\ faults < FaultBound
  /\ faults' = faults + 1
  /\ \/ Becomes(j, [jobs[j] EXCEPT !.state = "failed"]) /\ UNCHANGED account
     \/ Becomes(j, Later(jobs[j], now)) /\ UNCHANGED account
     \/ /\ now < Horizon
        /\ Becomes(j, Later(jobs[j], now + 1))
        /\ account' = [account EXCEPT !.until = now + 1]
  /\ UNCHANGED <<now, sched, disp, gone, ops>>

\* consecutive_flat_count; beyond 2 it changes nothing.
Flat(row, delta) == CASE delta = "zero" -> AtMost(2, row.flat + 1)
                      [] delta = "more" -> 0
                      [] OTHER -> row.flat

\* mutant: a schedule that is not ACTIVE is decided on too
SyncedAnyway(row, slot, job, trend) ==
  LET flat == Flat(row, job.delta)
      decision == Decide(job.observed, row.start, trend, flat, MaxAge)
  IN IF row.last = slot THEN row
     ELSE [row EXCEPT !.last = slot, !.flat = flat,
                      !.status = decision.status, !.next = decision.next]

\* mutant: the age limit clears the time and forgets the status
SyncedHalf(row, slot, job, trend) ==
  LET flat == Flat(row, job.delta)
      decision == Decide(job.observed, row.start, trend, flat, MaxAge)
  IN IF row.last = slot THEN row
     ELSE IF row.status # "ACTIVE" THEN [row EXCEPT !.last = slot, !.flat = flat]
     ELSE [row EXCEPT !.last = slot, !.flat = flat, !.next = decision.next]

\* sync_after_collection: the schedule after the snapshot of a slot.
Synced(row, slot, job, trend) ==
  LET flat == Flat(row, job.delta)
      decision == Decide(job.observed, row.start, trend, flat, MaxAge)
  IN IF row.last = slot THEN row
     ELSE IF row.status # "ACTIVE" THEN [row EXCEPT !.last = slot, !.flat = flat]
     ELSE [row EXCEPT !.last = slot, !.flat = flat,
                      !.status = decision.status, !.next = decision.next]

Sync(j) ==
  /\ jobs[j].state = "snapped"
  /\ Becomes(j, [jobs[j] EXCEPT !.state = "synced"])
  /\ IF jobs[j].linked
     THEN \E trend \in Seen(j[1]) :
            Write(Dispatchers, [sched EXCEPT ![j[1]] = Synced(@, j[2], jobs[j], trend)])
     ELSE UNCHANGED sched
  /\ UNCHANGED <<now, disp, gone, account, ops, faults>>

Complete(j) ==
  /\ jobs[j].state = "synced"
  /\ Becomes(j, [NewJob EXCEPT !.state = "completed", !.read = TRUE])
  /\ JobOnly

\* The worker dies; the stale sweep queues the job again while tries are left.
WorkerDies(j) ==
  /\ jobs[j].state \in Running
  /\ faults < FaultBound
  /\ faults' = faults + 1
  /\ Becomes(j, Later(jobs[j], now))
  /\ UNCHANGED <<now, sched, disp, gone, account, ops>>

(***************************************************************************)
(* The operator, the account, the publication and time.                    *)
(***************************************************************************)
Acts == /\ now <= OpsUntil /\ ops < OpBound
        /\ ops' = ops + 1
        /\ UNCHANGED <<now, disp, faults>>

\* _default_start_at: now, or when the first snapshot is old enough to be
\* compared with.
StartsAt(s) == {now} \cup IF Seen(s) = {"BASELINE_ONLY"} THEN {now + 1} ELSE {}

\* upsert_schedule
Upsert(s) ==
  /\ Acts
  /\ s \notin gone /\ ~account.held
  /\ \E start \in StartsAt(s) :
       Write(Dispatchers,
             [sched EXCEPT ![s].status = "ACTIVE", ![s].next = start, ![s].start = start])
  /\ UNCHANGED <<jobs, gone, account>>

Pause(s) ==
  /\ Acts
  /\ Write(Dispatchers, [sched EXCEPT ![s].status = "PAUSED", ![s].next = NoTime])
  /\ UNCHANGED <<jobs, gone, account>>

Resume(s) ==
  /\ Acts
  /\ sched[s].status # "COMPLETED"
  /\ \E next \in StartsAt(s) :
       Write(Dispatchers, [sched EXCEPT ![s].status = "ACTIVE", ![s].next = next])
  /\ UNCHANGED <<jobs, gone, account>>

\* retry_job, of a job that has failed (can_retry_job); cancel_job.
RetryJob(j) ==
  /\ Acts
  /\ jobs[j].state = "failed"
  /\ Becomes(j, [jobs[j] EXCEPT !.state = "queued", !.at = now, !.tries = AtLeast(@, 1)])
  /\ UNCHANGED <<sched, gone, account>>

CancelJob(j) ==
  /\ Acts
  /\ jobs[j].state = "queued"
  /\ Becomes(j, [jobs[j] EXCEPT !.state = "cancelled"])
  /\ UNCHANGED <<sched, gone, account>>

Hold ==
  /\ Acts
  /\ account' = [account EXCEPT !.held = ~@]
  /\ UNCHANGED <<sched, jobs, gone>>

Withdrawn(s) ==
  /\ Acts
  /\ s \notin gone
  /\ gone' = gone \cup {s}
  /\ UNCHANGED <<sched, jobs, account>>

Tick ==
  /\ now < Horizon
  /\ \A d \in Dispatchers : disp[d] = IdleSweep
  /\ \A j \in DOMAIN jobs : jobs[j].state \notin Running
  /\ now' = now + 1
  /\ UNCHANGED <<sched, jobs, disp, gone, account, ops, faults>>

Dispatch(d) == Sweep(d) \/ Continue(d) \/ WriteBack(d)

Work(j) == \/ Replay(j) \/ Refuse(j) \/ Defer(j) \/ Call(j)
           \/ Answer(j) \/ CallFails(j) \/ Sync(j) \/ Complete(j)

Operator ==
  \/ \E s \in Schedules : Upsert(s) \/ Pause(s) \/ Resume(s) \/ Withdrawn(s)
  \/ \E j \in DOMAIN jobs : RetryJob(j) \/ CancelJob(j)
  \/ Hold

Dispatching == \E d \in Dispatchers : Dispatch(d)
Working == \E j \in DOMAIN jobs : Work(j)

Next == \/ Dispatching \/ Working \/ Operator \/ Tick
        \/ \E d \in Dispatchers : SweepDies(d)
        \/ \E j \in DOMAIN jobs : WorkerDies(j)

\* The clock runs and some worker goes on.  With METRICS_SCHEDULER_ENABLED,
\* which is off by default, some worker's poll dispatches what is due, at the
\* latest an interval after it is.
Fairness == WF_vars(Tick) /\ WF_vars(Dispatching) /\ WF_vars(Working)

Spec == Init /\ [][Next]_vars
FairSpec == Spec /\ Fairness

(***************************************************************************)
(* Properties.                                                             *)
(***************************************************************************)
\* The variables stay within their types.
TypeOK ==
  /\ now \in (MaxAge + 1)..Horizon
  /\ sched \in [Schedules -> [status : {"ACTIVE", "PAUSED", "COMPLETED", "BLOCKED"},
                              next : Nat, start : Nat, flat : 0..2, last : Nat]]
  /\ \A j \in DOMAIN jobs :
       /\ j \in Schedules \X (Nat \ {NoTime})
       /\ jobs[j] \in [state : JobStates, tries : 0..MaxTries, at : Nat, linked : BOOLEAN,
                       read : BOOLEAN, observed : 0..now, delta : Deltas \cup {"unknown"}]
  /\ \A d \in Dispatchers :
       /\ disp[d].pc \in {"idle", "loop", "link"}
       /\ disp[d].pc = "loop" => disp[d].left # {}
       /\ disp[d].pc = "link" => disp[d].job \in DOMAIN jobs
       /\ disp[d].locked \subseteq Schedules
       /\ \A s \in Schedules :
            disp[d].marks[s] \in [status : {"none", "BLOCKED", "COMPLETED"}, clear : BOOLEAN]

\* A schedule that is tracked has a next collection: no answer or request that
\* meets a sweep, and no sweep that dies, leaves it ACTIVE and never due.  (With
\* several sweeps at once one can: the mark of one clears a time it read, beside
\* the status another had stopped, after the operator has resumed the schedule.)
ActiveIsScheduled ==
  \A s \in Schedules : sched[s].status = "ACTIVE" => sched[s].next # NoTime

\* What has been read from the provider is not read again, and is not lost
\* to a hold or a cooldown that came after: its job fails only with the
\* worker that dies on its last attempt ("Eligibility and cooldown changes
\* must not block replaying that persisted result").
ResultKept ==
  [][\A j \in DOMAIN jobs : jobs[j].read =>
       /\ jobs'[j].state # "calling"
       /\ jobs[j].state # "failed" /\ jobs'[j].state = "failed" => faults' # faults]_vars

\* Only the operator starts a schedule that is not ACTIVE, whatever sweeps
\* and answers are under way when it stops.
OperatorStarts ==
  [][\A s \in Schedules :
       sched[s].status # "ACTIVE" /\ sched'[s].status = "ACTIVE" => ops' # ops]_vars

\* Every tracking ends: once the operator is done no schedule stays ACTIVE for
\* ever, through backoffs, failed jobs and sweeps that die.
TrackingEnds == <>[](\A s \in Schedules : sched[s].status # "ACTIVE")

\* Every collection ends: no job waits or is retried for ever.
CollectionsEnd ==
  <>[](\A j \in DOMAIN jobs : jobs[j].state \in {"completed", "failed", "cancelled"})
=============================================================================
