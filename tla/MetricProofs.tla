---------------------------- MODULE MetricProofs ----------------------------
(***************************************************************************)
(* Theorems of CadencePolicy and MetricCadence for every value of their    *)
(* constants.                                                              *)
(***************************************************************************)
EXTENDS MetricCadence, TLAPS

-----------------------------------------------------------------------------
(***************************************************************************)
(* The policy.                                                             *)
(***************************************************************************)

\* Whatever the age, the trend and the flat streak, a publication is looked
\* at again after half an hour at the soonest and two days at the latest
\* (decide_next_collection).
THEOREM IntervalBounds ==
  ASSUME NEW age \in Nat, NEW trend, NEW flat
  PROVE  Interval(age, trend, flat) \in MinInterval..(48 * Hour)
<1>1. BaseInterval(age) \in {2, 6, 24, 48} BY DEF BaseInterval, Hour
<1>2. FlatBackoff(flat) \in {2, 4} BY DEF FlatBackoff
<1>3. ASSUME NEW base \in {2, 6, 24, 48}, NEW backoff \in {2, 4}
      PROVE  /\ AtLeast(MinInterval, base \div 2) \in 1..96
             /\ AtMost(48 * Hour, base * backoff) \in 1..96
             /\ AtMost(base, 3 * Hour) \in 1..96
             /\ base \in 1..96
  <2>1. base \div 2 \in {1, 3, 12, 24} OBVIOUS
  <2>2. base * backoff \in {4, 8, 12, 24, 48, 96, 192} OBVIOUS
  <2> QED BY <2>1, <2>2 DEF AtLeast, AtMost, MinInterval, Hour
<1> QED BY <1>1, <1>2, <1>3 DEF Interval, MinInterval, Hour

\* A decision sets a time to come, or ends the tracking.
LEMMA Decided ==
  ASSUME NEW t \in Nat, NEW start \in Nat, NEW trend, NEW flat, NEW limit \in Nat
  PROVE  LET decision == Decide(t, start, trend, flat, limit)
         IN /\ decision.status \in {"ACTIVE", "COMPLETED"}
            /\ decision.next \in Nat
            /\ decision.status = "ACTIVE" => decision.next > t
            /\ decision.status = "COMPLETED" => decision.next = NoTime
<1> DEFINE age == AtLeast(0, t - start)
<1>1. age \in Nat BY DEF AtLeast
<1>2. Interval(age, trend, flat) \in 1..96
  BY <1>1, IntervalBounds DEF MinInterval, Hour
<1> HIDE DEF age
<1>3. t + Interval(age, trend, flat) \in Nat /\ t + Interval(age, trend, flat) > t
  BY <1>2
<1>4. CASE age >= limit
  BY <1>4 DEF Decide, NoTime, age
<1>5. CASE ~(age >= limit)
  <2>1. Decide(t, start, trend, flat, limit)
          = [status |-> "ACTIVE", next |-> t + Interval(age, trend, flat)]
    BY <1>5 DEF Decide, age
  <2> QED BY <2>1, <1>3
<1> QED BY <1>4, <1>5

-----------------------------------------------------------------------------
(***************************************************************************)
(* The invariant: the types, what a sweep remembers between its two        *)
(* commits, and what a job's state says of it.                             *)
(***************************************************************************)
ScheduleRow == [status : {"ACTIVE", "PAUSED", "COMPLETED", "BLOCKED"},
                next : Nat, start : Nat, flat : 0..2, last : Nat]
JobRow == [state : JobStates, tries : 0..MaxTries, at : Nat, linked : BOOLEAN,
           read : BOOLEAN, observed : Nat, delta : Deltas \cup {"unknown"}]
MarkRows == [Schedules -> [status : {"none", "BLOCKED", "COMPLETED"}, clear : BOOLEAN]]
SweepRow == [pc : {"idle", "loop", "link"}, at : Nat, left : SUBSET Schedules,
             job : (Schedules \X (Nat \ {NoTime})) \cup {<<>>}, next : Nat,
             marks : MarkRows, locked : SUBSET Schedules]

\* A job that waits has a try left; a job that is being read for has no
\* snapshot yet.
JobGood(job, t) == /\ job \in JobRow
                   /\ job.observed <= t
                   /\ job.state = "queued" => job.tries > 0
                   /\ job.state = "calling" => ~job.read

\* A sweep under way knows its time; one that has committed a job has a time
\* for the schedule of it.
SweepGood(q) == /\ q \in SweepRow
                /\ q.pc # "idle" => q.at # NoTime
                /\ q.pc = "loop" => q.left # {}
                /\ q.pc = "link" => q.job \in DOMAIN jobs /\ q.next # NoTime

ClockGood == now \in (MaxAge + 1)..Horizon
SchedulesGood == sched \in [Schedules -> ScheduleRow]
JobsGood == \A j \in DOMAIN jobs : /\ j \in Schedules \X (Nat \ {NoTime})
                                   /\ JobGood(jobs[j], now)
SweepsGood == /\ disp \in [Dispatchers -> SweepRow]
              /\ \A d \in Dispatchers : SweepGood(disp[d])
RestGood == /\ account \in [held : BOOLEAN, until : Nat]
            /\ ops \in Nat
            /\ faults \in Nat

MetricInv == ClockGood /\ SchedulesGood /\ JobsGood /\ SweepsGood /\ RestGood

LEMMA IdleRow == IdleSweep \in SweepRow /\ IdleSweep.pc = "idle" /\ IdleSweep.left = {}
<1>1. NoMarks \in MarkRows BY DEF NoMarks, MarkRows
<1> QED BY <1>1 DEF IdleSweep, SweepRow, NoTime

LEMMA Initially == Init => MetricInv
<1> SUFFICES ASSUME Init PROVE MetricInv OBVIOUS
<1>1. ClockGood BY MetricAssumption DEF Init, ClockGood
<1>2. SchedulesGood
  <2>1. ASSUME NEW start \in Nat PROVE Schedule(start) \in ScheduleRow
    BY DEF Schedule, ScheduleRow, NoTime
  <2>2. ASSUME NEW s \in Schedules
        PROVE  /\ (IF s \in Old THEN 1 ELSE now) \in Nat
               /\ (IF s \in Old THEN 1 ELSE now) # NoTime
    BY MetricAssumption DEF Init, NoTime
  <2> QED BY <2>1, <2>2 DEF Init, SchedulesGood
<1>3. JobsGood BY DEF Init, JobsGood
<1>4. SweepsGood
  <2>1. SweepGood(IdleSweep) BY IdleRow DEF SweepGood, IdleSweep
  <2> QED BY <2>1, IdleRow DEF Init, SweepsGood
<1>5. RestGood BY DEF Init, RestGood, NoTime
<1> QED BY <1>1, <1>2, <1>3, <1>4, <1>5 DEF MetricInv

-----------------------------------------------------------------------------
(***************************************************************************)
(* Jobs.                                                                   *)
(***************************************************************************)

\* A step that writes one job over keeps the invariant when the job is good.
LEMMA JobStep ==
  ASSUME MetricInv, NEW j \in DOMAIN jobs, NEW job, JobGood(job, now),
         Becomes(j, job), UNCHANGED <<now, disp>>, SchedulesGood', RestGood'
  PROVE  MetricInv'
<1>1. DOMAIN jobs' = DOMAIN jobs BY DEF Becomes
<1>2. \A k \in DOMAIN jobs : jobs'[k] = IF k = j THEN job ELSE jobs[k] BY DEF Becomes
<1>3. JobsGood' BY <1>1, <1>2 DEF MetricInv, JobsGood
<1>4. SweepsGood' BY <1>1 DEF MetricInv, SweepsGood, SweepGood
<1> QED BY <1>3, <1>4 DEF MetricInv, ClockGood

LEMMA LaterGood ==
  ASSUME NEW job \in JobRow, NEW t \in Nat, job.observed <= t, NEW at \in Nat
  PROVE  JobGood(Later(job, at), t)
<1>1. Later(job, at) \in JobRow BY DEF Later, JobRow, JobStates
<1> QED BY <1>1 DEF Later, JobGood, JobRow

LEMMA ClaimedRow ==
  ASSUME MetricInv, NEW j \in DOMAIN jobs, Claimable(j)
  PROVE  /\ Claimed(j) \in JobRow
         /\ Claimed(j).observed <= now
         /\ Claimed(j).read = jobs[j].read
<1>1. /\ jobs[j] \in JobRow
      /\ jobs[j].observed <= now
      /\ jobs[j].tries > 0
  BY DEF MetricInv, JobsGood, JobGood, Claimable
<1>2. jobs[j].tries - 1 \in 0..MaxTries BY <1>1, MetricAssumption DEF JobRow
<1>3. PICK row \in JobRow, tries \in 0..MaxTries :
        row = jobs[j] /\ tries = jobs[j].tries - 1
  BY <1>1, <1>2
<1>4. Claimed(j) = [row EXCEPT !.tries = tries, !.at = 0]
  BY <1>3 DEF Claimed, NoTime
<1>5. /\ [row EXCEPT !.tries = tries, !.at = 0] \in JobRow
      /\ [row EXCEPT !.tries = tries, !.at = 0].observed = row.observed
      /\ [row EXCEPT !.tries = tries, !.at = 0].read = row.read
  BY DEF JobRow
<1> QED BY <1>1, <1>3, <1>4, <1>5

\* The claims, and what becomes of them at once.
LEMMA ClaimSteps ==
  ASSUME MetricInv, NEW j \in DOMAIN jobs, Replay(j) \/ Refuse(j) \/ Defer(j) \/ Call(j)
  PROVE  MetricInv'
<1> DEFINE row == Claimed(j)
<1>1. Claimable(j) /\ JobOnly
  BY DEF Replay, Refuse, Defer, Call, Eligible
<1>2. row \in JobRow /\ row.observed <= now /\ row.read = jobs[j].read
  BY <1>1, ClaimedRow
<1>3. SchedulesGood' /\ RestGood' /\ UNCHANGED <<now, disp>>
  BY <1>1 DEF JobOnly, MetricInv, SchedulesGood, RestGood
<1> HIDE DEF row
<1>4. ASSUME NEW to \in {"snapped", "failed"}
      PROVE  JobGood([row EXCEPT !.state = to], now)
  BY <1>2 DEF JobGood, JobRow, JobStates, Running
<1>5. CASE Replay(j)
  BY <1>3, <1>4, <1>5, JobStep DEF Replay, row
<1>6. CASE Refuse(j)
  BY <1>3, <1>4, <1>6, JobStep DEF Refuse, row
<1>7. CASE Defer(j)
  <2>1. now \in Nat /\ account.until \in Nat
    BY MetricAssumption DEF MetricInv, ClockGood, RestGood
  <2>2. JobGood(Later(row, account.until), now)
    BY <1>2, <2>1, LaterGood
  <2> QED BY <1>3, <1>7, <2>2, JobStep DEF Defer, row
<1>8. CASE Call(j)
  <2>1. ~row.read BY <1>2, <1>8 DEF Call, Eligible
  <2>2. JobGood([row EXCEPT !.state = "calling"], now)
    BY <1>2, <2>1 DEF JobGood, JobRow, JobStates, Running
  <2> QED BY <1>3, <1>8, <2>2, JobStep DEF Call, row
<1> QED BY <1>5, <1>6, <1>7, <1>8

LEMMA AnswerStep ==
  ASSUME MetricInv, NEW j \in DOMAIN jobs, Answer(j)
  PROVE  MetricInv'
<1>1. PICK delta \in Deltas \cup {"unknown"} :
        Becomes(j, [jobs[j] EXCEPT !.state = "snapped", !.read = TRUE,
                                   !.observed = now, !.delta = delta])
  BY DEF Answer
<1>2. jobs[j] \in JobRow /\ now \in Nat
  BY MetricAssumption DEF MetricInv, ClockGood, JobsGood, JobGood
<1>3. JobGood([jobs[j] EXCEPT !.state = "snapped", !.read = TRUE,
                             !.observed = now, !.delta = delta], now)
  <2>1. PICK row \in JobRow, t \in Nat : row = jobs[j] /\ t = now BY <1>2
  <2>2. [row EXCEPT !.state = "snapped", !.read = TRUE,
                    !.observed = t, !.delta = delta] \in JobRow
    BY DEF JobRow, JobStates, Running
  <2>3. JobGood([row EXCEPT !.state = "snapped", !.read = TRUE,
                            !.observed = t, !.delta = delta], t)
    BY <2>2 DEF JobGood, JobRow
  <2> QED BY <2>1, <2>3
<1>4. SchedulesGood' /\ RestGood' /\ UNCHANGED <<now, disp>>
  BY DEF Answer, JobOnly, MetricInv, SchedulesGood, RestGood
<1> QED BY <1>1, <1>3, <1>4, JobStep

\* Failures: of the call, and of the worker.
LEMMA FailureSteps ==
  ASSUME MetricInv, NEW j \in DOMAIN jobs, CallFails(j) \/ WorkerDies(j)
  PROVE  MetricInv'
<1>1. jobs[j] \in JobRow /\ jobs[j].observed <= now /\ now \in Nat /\ now + 1 \in Nat
  BY MetricAssumption DEF MetricInv, ClockGood, JobsGood, JobGood
<1>2. JobGood(Later(jobs[j], now), now) /\ JobGood(Later(jobs[j], now + 1), now)
  BY <1>1, LaterGood
<1>3. JobGood([jobs[j] EXCEPT !.state = "failed"], now)
  BY <1>1 DEF JobGood, JobRow, JobStates
<1>4. SchedulesGood' /\ UNCHANGED <<now, disp>>
  BY DEF CallFails, WorkerDies, MetricInv, SchedulesGood
<1>5. RestGood'
  BY <1>1 DEF CallFails, WorkerDies, MetricInv, RestGood
<1>6. \E job : JobGood(job, now) /\ Becomes(j, job)
  BY <1>2, <1>3 DEF CallFails, WorkerDies
<1> QED BY <1>4, <1>5, <1>6, JobStep

\* A row that is tracked has a time, and one that is not has none.
Scheduled(row) == row.status = "ACTIVE" => row.next # NoTime
Stopped(row) == row.status # "ACTIVE" => row.next = NoTime

\* The schedule after a snapshot.
LEMMA SyncedRow ==
  ASSUME NEW row \in ScheduleRow, NEW slot \in Nat, NEW job \in JobRow, NEW trend
  PROVE  LET after == Synced(row, slot, job, trend)
         IN /\ after \in ScheduleRow
            /\ after.status = "ACTIVE" => row.status = "ACTIVE"
            /\ Scheduled(row) => Scheduled(after)
            /\ Stopped(row) => Stopped(after)
<1> DEFINE flat == Flat(row, job.delta)
           decision == Decide(job.observed, row.start, trend, flat, MaxAge)
<1>1. flat \in 0..2 BY DEF Flat, AtMost, ScheduleRow
<1>2. /\ decision.status \in {"ACTIVE", "COMPLETED"}
      /\ decision.next \in Nat
      /\ Scheduled(decision) /\ Stopped(decision)
  <2>1. job.observed \in Nat /\ row.start \in Nat /\ MaxAge \in Nat
    BY MetricAssumption DEF JobRow, ScheduleRow
  <2>2. /\ decision.status \in {"ACTIVE", "COMPLETED"}
        /\ decision.next \in Nat
        /\ decision.status = "ACTIVE" => decision.next > job.observed
        /\ decision.status = "COMPLETED" => decision.next = NoTime
    BY <2>1, Decided
  <2> QED BY <2>1, <2>2 DEF NoTime, Scheduled, Stopped
<1>3. Synced(row, slot, job, trend)
        = IF row.last = slot THEN row
          ELSE IF row.status # "ACTIVE" THEN [row EXCEPT !.last = slot, !.flat = flat]
          ELSE [row EXCEPT !.last = slot, !.flat = flat,
                           !.status = decision.status, !.next = decision.next]
  BY DEF Synced
<1> HIDE DEF flat, decision
<1>4. CASE row.last = slot BY <1>3, <1>4
<1>5. CASE row.last # slot /\ row.status # "ACTIVE"
  BY <1>1, <1>3, <1>5 DEF ScheduleRow, Scheduled, Stopped
<1>6. CASE row.last # slot /\ row.status = "ACTIVE"
  BY <1>1, <1>2, <1>3, <1>6 DEF ScheduleRow, Scheduled, Stopped
<1> QED BY <1>4, <1>5, <1>6

LEMMA SyncStep ==
  ASSUME MetricInv, NEW j \in DOMAIN jobs, Sync(j)
  PROVE  MetricInv'
<1>1. jobs[j] \in JobRow /\ jobs[j].observed <= now /\ j[1] \in Schedules /\ j[2] \in Nat
  BY DEF MetricInv, JobsGood, JobGood
<1>2. JobGood([jobs[j] EXCEPT !.state = "synced"], now)
  BY <1>1 DEF JobGood, JobRow, JobStates, Running
<1>3. SchedulesGood'
  <2>1. CASE UNCHANGED sched BY <2>1 DEF MetricInv, SchedulesGood
  <2>2. ASSUME NEW trend,
               sched' = [sched EXCEPT ![j[1]] = Synced(@, j[2], jobs[j], trend)]
        PROVE  SchedulesGood'
    BY <1>1, <2>2, SyncedRow DEF MetricInv, SchedulesGood
  <2> QED BY <2>1, <2>2 DEF Sync, Write
<1>4. RestGood' /\ UNCHANGED <<now, disp>>
  BY DEF Sync, MetricInv, RestGood
<1> QED BY <1>2, <1>3, <1>4, JobStep DEF Sync

LEMMA CompleteStep ==
  ASSUME MetricInv, NEW j \in DOMAIN jobs, Complete(j)
  PROVE  MetricInv'
<1>1. now \in Nat BY MetricAssumption DEF MetricInv, ClockGood
<1>2. JobGood([NewJob EXCEPT !.state = "completed", !.read = TRUE], now)
  <2>1. NewJob \in JobRow /\ NewJob.observed = 0
    BY MetricAssumption DEF NewJob, JobRow, JobStates, NoTime
  <2>2. PICK row \in JobRow : row = NewJob /\ row.observed = 0 BY <2>1
  <2>3. [row EXCEPT !.state = "completed", !.read = TRUE] \in JobRow
    BY DEF JobRow, JobStates
  <2>4. JobGood([row EXCEPT !.state = "completed", !.read = TRUE], now)
    BY <1>1, <2>2, <2>3 DEF JobGood, JobRow
  <2> QED BY <2>2, <2>4
<1>3. SchedulesGood' /\ RestGood' /\ UNCHANGED <<now, disp>>
  BY DEF Complete, JobOnly, MetricInv, SchedulesGood, RestGood
<1> QED BY <1>2, <1>3, JobStep DEF Complete

-----------------------------------------------------------------------------
(***************************************************************************)
(* Sweeps.                                                                 *)
(***************************************************************************)

\* The record of a sweep after a mark, and after a commit.
Mark(s, status) == [status |-> IF sched[s].status = status THEN "none" ELSE status,
                    clear |-> sched[s].next # NoTime]

LEMMA MarkedRow ==
  ASSUME MetricInv, NEW q \in SweepRow, NEW s \in Schedules,
         NEW status \in {"BLOCKED", "COMPLETED"}
  PROVE  /\ Marked(q, s, status) \in SweepRow
         /\ Marked(q, s, status).at = q.at /\ Marked(q, s, status).left = q.left
         /\ \A t \in Schedules : Marked(q, s, status).marks[t]
                                 = IF t = s THEN Mark(s, status) ELSE q.marks[t]
<1> DEFINE mark == Mark(s, status)
<1>1. mark \in [status : {"none", "BLOCKED", "COMPLETED"}, clear : BOOLEAN] BY DEF Mark
<1>2. Marked(q, s, status) = [q EXCEPT !.marks = [q.marks EXCEPT ![s] = mark]]
  BY DEF Marked, Mark
<1> HIDE DEF mark
<1>3. [q.marks EXCEPT ![s] = mark] \in MarkRows BY <1>1 DEF SweepRow, MarkRows
<1>4. PICK marks \in MarkRows : marks = [q.marks EXCEPT ![s] = mark] BY <1>3
<1>5. /\ [q EXCEPT !.marks = marks] \in SweepRow
      /\ [q EXCEPT !.marks = marks].at = q.at /\ [q EXCEPT !.marks = marks].left = q.left
      /\ [q EXCEPT !.marks = marks].marks = marks
  BY DEF SweepRow
<1>6. \A t \in Schedules : marks[t] = IF t = s THEN mark ELSE q.marks[t]
  BY <1>4 DEF SweepRow, MarkRows
<1> QED BY <1>2, <1>4, <1>5, <1>6 DEF mark

LEMMA AfterRow ==
  ASSUME NEW q \in SweepRow
  PROVE  /\ After(q) \in SweepRow
         /\ After(q).at = q.at /\ After(q).left = q.left /\ After(q).marks = NoMarks
<1>1. NoMarks \in MarkRows BY DEF NoMarks, MarkRows
<1> QED BY <1>1 DEF After, SweepRow

\* What a commit makes of the rows: a schedule is at most stopped.
LEMMA CommittedRows ==
  ASSUME MetricInv, NEW marks \in MarkRows
  PROVE  /\ Committed(marks) \in [Schedules -> ScheduleRow]
         /\ \A s \in Schedules :
              /\ Committed(marks)[s].status
                   = IF marks[s].status = "none" THEN sched[s].status ELSE marks[s].status
              /\ Committed(marks)[s].next
                   = IF marks[s].clear THEN NoTime ELSE sched[s].next
<1>1. ASSUME NEW s \in Schedules, NEW row,
             row = [sched[s] EXCEPT !.status = IF marks[s].status = "none" THEN @
                                               ELSE marks[s].status,
                                    !.next = IF marks[s].clear THEN NoTime ELSE @]
      PROVE  /\ row \in ScheduleRow
             /\ row.status = IF marks[s].status = "none" THEN sched[s].status
                             ELSE marks[s].status
             /\ row.next = IF marks[s].clear THEN NoTime ELSE sched[s].next
  <2>1. sched[s] \in ScheduleRow BY DEF MetricInv, SchedulesGood
  <2>2. marks[s] \in [status : {"none", "BLOCKED", "COMPLETED"}, clear : BOOLEAN]
    BY DEF MarkRows
  <2>3. PICK old \in ScheduleRow : old = sched[s] BY <2>1
  <2> QED BY <1>1, <2>2, <2>3 DEF ScheduleRow, NoTime
<1> QED BY <1>1 DEF Committed

\* A sweep goes on, or is over.
LEMMA GoOnGood ==
  ASSUME MetricInv, NEW d \in Dispatchers, NEW q \in SweepRow, q.at # NoTime,
         GoOn(d, q), DOMAIN jobs' = DOMAIN jobs
  PROVE  SweepsGood'
<1>1. [q EXCEPT !.pc = "loop", !.job = <<>>, !.next = NoTime] \in SweepRow
  BY DEF SweepRow, NoTime
<1>2. PICK r \in SweepRow : /\ disp' = [disp EXCEPT ![d] = r]
                            /\ r.pc \in {"idle", "loop"}
                            /\ r.pc # "idle" => r.at # NoTime
                            /\ r.pc = "loop" => r.left # {}
  <2>1. CASE q.left = {} BY <2>1, IdleRow DEF GoOn
  <2>2. CASE q.left # {} BY <1>1, <2>2 DEF GoOn, SweepRow
  <2> QED BY <2>1, <2>2
<1>3. disp' \in [Dispatchers -> SweepRow]
  BY <1>2 DEF MetricInv, SweepsGood
<1>4. ASSUME NEW e \in Dispatchers PROVE SweepGood(disp[e])'
  <2>1. CASE e = d BY <1>2, <2>1 DEF MetricInv, SweepsGood, SweepGood
  <2>2. CASE e # d BY <1>2, <2>2 DEF MetricInv, SweepsGood, SweepGood
  <2> QED BY <2>1, <2>2
<1> QED BY <1>3, <1>4 DEF SweepsGood

\* A sweep has a job to link.
LEMMA LinkGood ==
  ASSUME MetricInv, NEW d \in Dispatchers, NEW q \in SweepRow, q.at # NoTime,
         NEW j \in Schedules \X (Nat \ {NoTime}), NEW next \in Nat, next # NoTime,
         Link(d, q, j, next), j \in DOMAIN jobs', DOMAIN jobs \subseteq DOMAIN jobs'
  PROVE  SweepsGood'
<1> DEFINE r == [q EXCEPT !.pc = "link", !.job = j, !.next = next]
<1>1. r \in SweepRow BY DEF SweepRow
<1>2. r.pc = "link" /\ r.at = q.at /\ r.job = j /\ r.next = next BY DEF SweepRow
<1>3. disp' = [disp EXCEPT ![d] = r] BY DEF Link
<1> HIDE DEF r
<1>4. disp' \in [Dispatchers -> SweepRow] BY <1>1, <1>3 DEF MetricInv, SweepsGood
<1>5. ASSUME NEW e \in Dispatchers PROVE SweepGood(disp[e])'
  <2>1. CASE e = d BY <1>1, <1>2, <1>3, <2>1 DEF MetricInv, SweepsGood, SweepGood
  <2>2. CASE e # d BY <1>3, <2>2 DEF MetricInv, SweepsGood, SweepGood
  <2> QED BY <2>1, <2>2
<1> QED BY <1>4, <1>5 DEF SweepsGood

LEMMA SkipGood ==
  ASSUME MetricInv, NEW d \in Dispatchers, NEW q \in SweepRow, q.at # NoTime,
         Skip(d, q), UNCHANGED <<now, gone, account, ops, faults>>
  PROVE  MetricInv'
<1>1. SchedulesGood'
  <2>1. q.marks \in MarkRows BY DEF SweepRow
  <2> QED BY <2>1, CommittedRows DEF Skip, Write, MetricInv, SchedulesGood
<1>2. SweepsGood' BY GoOnGood DEF Skip
<1> QED BY <1>1, <1>2 DEF Skip, MetricInv, ClockGood, JobsGood, RestGood

\* A job created, or one found, for a sweep to link.
LEMMA EnqueueGood ==
  ASSUME MetricInv, NEW d \in Dispatchers, NEW s \in Schedules, NEW q \in SweepRow,
         q.at # NoTime, NEW next \in Nat, next # NoTime, Enqueue(d, s, q, next),
         UNCHANGED <<now, gone, account, ops, faults>>
  PROVE  MetricInv'
<1> DEFINE slot == IF sched[s].next = NoTime THEN q.at ELSE sched[s].next
           j == <<s, slot>>
           marked == Marked(q, s, "BLOCKED")
           new == [NewJob EXCEPT !.at = IF Cooldown THEN account.until ELSE now]
<1>1. ClockGood' /\ RestGood' BY DEF MetricInv, ClockGood, RestGood
<1>2. /\ marked \in SweepRow /\ marked.at # NoTime
      /\ marked.marks \in MarkRows
  BY MarkedRow DEF SweepRow
<1>3. After(q) \in SweepRow /\ After(q).at # NoTime /\ q.marks \in MarkRows
  BY AfterRow DEF SweepRow
<1>4. j \in Schedules \X (Nat \ {NoTime})
  BY DEF MetricInv, SchedulesGood, ScheduleRow, SweepRow
<1>5. CASE Skip(d, marked) BY <1>2, <1>5, SkipGood
<1> HIDE DEF j, marked, new
<1>6. CASE /\ Write(Dispatchers \ {d}, Committed(marked.marks))
           /\ GoOn(d, After(q))
           /\ UNCHANGED jobs
  <2>1. SchedulesGood' BY <1>2, <1>6, CommittedRows DEF Write, SchedulesGood
  <2>2. SweepsGood' BY <1>3, <1>6, GoOnGood
  <2> QED BY <1>1, <1>6, <2>1, <2>2 DEF MetricInv, JobsGood
<1>7. CASE /\ j \in DOMAIN jobs
           /\ Link(d, q, j, next) \/ Link(d, After(q), j, next)
           /\ UNCHANGED <<sched, jobs>>
  <2>1. SweepsGood' BY <1>3, <1>4, <1>7, LinkGood
  <2> QED BY <1>1, <1>7, <2>1 DEF MetricInv, SchedulesGood, JobsGood
<1>8. CASE /\ jobs' = [k \in DOMAIN jobs \cup {j} |->
                      IF k \in DOMAIN jobs THEN jobs[k] ELSE new]
           /\ Write(Dispatchers \ {d}, Committed(q.marks))
           /\ Link(d, After(q), j, next)
  <2>1. JobGood(new, now)
    <3>1. NewJob \in JobRow /\ NewJob.state = "queued" /\ NewJob.tries > 0
          /\ NewJob.observed = 0
      BY MetricAssumption DEF NewJob, JobRow, JobStates, NoTime
    <3>2. now \in Nat /\ account.until \in Nat
      BY MetricAssumption DEF MetricInv, ClockGood, RestGood
    <3>3. PICK row \in JobRow, t \in Nat :
            /\ row = NewJob /\ t = IF Cooldown THEN account.until ELSE now
            /\ row.state = "queued" /\ row.tries > 0 /\ row.observed = 0
      BY <3>1, <3>2
    <3>4. [row EXCEPT !.at = t] \in JobRow BY DEF JobRow
    <3>5. JobGood([row EXCEPT !.at = t], now)
      BY <3>2, <3>3, <3>4 DEF JobGood, JobRow
    <3> QED BY <3>3, <3>5 DEF new
  <2>2. j \in DOMAIN jobs' /\ DOMAIN jobs \subseteq DOMAIN jobs'
        /\ \A k \in DOMAIN jobs' : \/ k \in DOMAIN jobs /\ jobs'[k] = jobs[k]
                                   \/ k = j /\ jobs'[k] = new
    BY <1>8
  <2>3. JobsGood' BY <1>1, <1>4, <2>1, <2>2 DEF MetricInv, JobsGood
  <2>4. SweepsGood' BY <1>3, <1>4, <1>8, <2>2, LinkGood
  <2>5. SchedulesGood' BY <1>3, <1>8, CommittedRows DEF Write, SchedulesGood
  <2> QED BY <1>1, <2>3, <2>4, <2>5 DEF MetricInv
<1> QED BY <1>5, <1>6, <1>7, <1>8 DEF Enqueue, j, marked, new

LEMMA VisitGood ==
  ASSUME MetricInv, NEW d \in Dispatchers, NEW s \in Schedules, NEW q \in SweepRow,
         q.at # NoTime, Visit(d, s, q)
  PROVE  MetricInv'
<1>1. UNCHANGED <<now, gone, account, ops, faults>> BY DEF Visit
<1>2. ASSUME NEW status \in {"BLOCKED", "COMPLETED"}, Skip(d, Marked(q, s, status))
      PROVE  MetricInv'
  BY <1>1, <1>2, MarkedRow, SkipGood
<1>3. ASSUME NEW trend, NEW decision,
             decision = Decide(q.at, sched[s].start, trend, sched[s].flat, MaxAge),
             IF decision.status = "COMPLETED" THEN Skip(d, Marked(q, s, "COMPLETED"))
             ELSE Enqueue(d, s, q, decision.next)
      PROVE  MetricInv'
  <2>1. sched[s].start \in Nat /\ MaxAge \in Nat /\ q.at \in Nat
    BY MetricAssumption DEF MetricInv, SchedulesGood, ScheduleRow, SweepRow
  <2>2. /\ decision.status \in {"ACTIVE", "COMPLETED"}
        /\ decision.next \in Nat
        /\ decision.status = "ACTIVE" => decision.next > q.at
    BY <1>3, <2>1, Decided
  <2>3. CASE decision.status = "COMPLETED" BY <1>2, <1>3, <2>3
  <2>4. CASE decision.status # "COMPLETED"
    <3>1. decision.next # NoTime BY <2>1, <2>2, <2>4 DEF NoTime
    <3> QED BY <1>1, <1>3, <2>2, <2>4, <3>1, EnqueueGood
  <2> QED BY <2>3, <2>4
<1> QED BY <1>2, <1>3 DEF Visit

\* The two ways a turn of the loop begins.
Turns(d, s, q) ==
  /\ Visit(d, s, q) /\ q.at # NoTime /\ s \notin q.left
  /\ \/ q.marks = NoMarks /\ q.left \cup {s} \subseteq Due
     \/ q.marks = disp[d].marks /\ q.left \cup {s} \subseteq disp[d].left

LEMMA Turn ==
  ASSUME MetricInv, NEW d \in Dispatchers, Sweep(d) \/ Continue(d)
  PROVE  \E s \in Schedules, q \in SweepRow : Turns(d, s, q)
<1>1. disp[d] \in SweepRow /\ SweepGood(disp[d]) BY DEF MetricInv, SweepsGood
<1>2. CASE Sweep(d)
  <2> DEFINE open == Due \ Locks(Dispatchers)
  <2>1. PICK s \in open :
          Visit(d, s, [IdleSweep EXCEPT !.at = now, !.left = open \ {s}, !.locked = open])
    BY <1>2 DEF Sweep
  <2>2. now \in Nat /\ now # NoTime
    BY MetricAssumption DEF MetricInv, ClockGood, NoTime
  <2>3. PICK q : q = [IdleSweep EXCEPT !.at = now, !.left = open \ {s}, !.locked = open]
    OBVIOUS
  <2>4. s \in Schedules /\ open \in SUBSET Schedules /\ open \subseteq Due BY DEF Due
  <2> HIDE DEF open
  <2>5. /\ q \in SweepRow /\ q.at = now /\ q.left = open \ {s} /\ q.marks = NoMarks
    <3>1. PICK idle \in SweepRow : idle = IdleSweep BY IdleRow
    <3>2. q \in SweepRow /\ q.at = now /\ q.left = open \ {s} /\ q.marks = idle.marks
      BY <2>2, <2>3, <2>4, <3>1 DEF SweepRow
    <3> QED BY <3>1, <3>2 DEF IdleSweep
  <2>6. Turns(d, s, q) BY <2>1, <2>2, <2>3, <2>4, <2>5 DEF Turns, open
  <2> QED BY <2>4, <2>5, <2>6
<1>3. CASE Continue(d)
  <2>1. PICK s \in disp[d].left : Visit(d, s, [disp[d] EXCEPT !.left = @ \ {s}])
    BY <1>3 DEF Continue
  <2>2. PICK q : q = [disp[d] EXCEPT !.left = disp[d].left \ {s}] OBVIOUS
  <2>3. disp[d].pc = "loop" /\ disp[d].at # NoTime /\ s \in Schedules
    BY <1>1, <1>3 DEF Continue, SweepGood, SweepRow
  <2>4. /\ q \in SweepRow /\ q.at = disp[d].at /\ q.left = disp[d].left \ {s}
        /\ q.marks = disp[d].marks
    BY <1>1, <2>2 DEF SweepRow
  <2>5. Turns(d, s, q) BY <2>1, <2>2, <2>3, <2>4 DEF Turns
  <2> QED BY <2>3, <2>4, <2>5
<1> QED BY <1>2, <1>3

\* The second commit of a turn, in parts.
LEMMA WrittenBack ==
  ASSUME MetricInv, NEW d \in Dispatchers, WriteBack(d)
  PROVE  /\ disp[d].job[1] \in Schedules /\ disp[d].next \in Nat \ {NoTime}
         /\ disp[d].marks \in MarkRows
         /\ sched' \in [Schedules -> ScheduleRow]
         /\ \A t \in Schedules :
              /\ sched'[t].status = Committed(disp[d].marks)[t].status
              /\ sched'[t].next = IF t = disp[d].job[1] THEN disp[d].next
                                  ELSE Committed(disp[d].marks)[t].next
<1> DEFINE rows == Committed(disp[d].marks)
           s == disp[d].job[1]
           next == disp[d].next
<1>1. disp[d] \in SweepRow /\ SweepGood(disp[d]) /\ disp[d].pc = "link"
  BY DEF MetricInv, SweepsGood, WriteBack
<1>2. s \in Schedules BY <1>1 DEF SweepGood, MetricInv, JobsGood
<1>3. next \in Nat \ {NoTime} /\ disp[d].marks \in MarkRows
  BY <1>1 DEF SweepGood, SweepRow
<1>4. rows \in [Schedules -> ScheduleRow] BY <1>3, CommittedRows
<1>5. sched' = [rows EXCEPT ![s].next = next] BY DEF WriteBack, Write
<1> HIDE DEF rows, s, next
<1>6. PICK row \in ScheduleRow : row = rows[s] BY <1>2, <1>4
<1>7. [row EXCEPT !.next = next] \in ScheduleRow
      /\ [row EXCEPT !.next = next].next = next
      /\ [row EXCEPT !.next = next].status = row.status
  BY <1>3 DEF ScheduleRow
<1>8. sched' = [rows EXCEPT ![s] = [row EXCEPT !.next = next]] BY <1>5, <1>6
<1>9. /\ sched' \in [Schedules -> ScheduleRow]
      /\ \A t \in Schedules : /\ sched'[t].status = rows[t].status
                              /\ sched'[t].next = IF t = s THEN next ELSE rows[t].next
  BY <1>2, <1>4, <1>6, <1>7, <1>8
<1> QED BY <1>2, <1>3, <1>9 DEF rows, s, next

LEMMA SweepSteps ==
  ASSUME MetricInv, NEW d \in Dispatchers, Dispatch(d) \/ SweepDies(d)
  PROVE  MetricInv'
<1>1. disp[d] \in SweepRow /\ SweepGood(disp[d]) BY DEF MetricInv, SweepsGood
<1>2. CASE Sweep(d) \/ Continue(d) BY <1>2, Turn, VisitGood DEF Turns
<1>3. CASE WriteBack(d)
  <2>1. SchedulesGood' BY <1>3, WrittenBack DEF SchedulesGood
  <2>2. disp[d].job \in DOMAIN jobs /\ disp[d].at # NoTime
    BY <1>1, <1>3 DEF WriteBack, SweepGood
  <2>3. jobs' = [jobs EXCEPT ![disp[d].job] = [jobs[disp[d].job] EXCEPT !.linked = TRUE]]
    BY <1>3 DEF WriteBack
  <2>4. GoOn(d, After(disp[d])) /\ UNCHANGED <<now, gone, account, ops, faults>>
    BY <1>3 DEF WriteBack
  <2>5. JobsGood'
    <3>1. JobGood(jobs[disp[d].job], now) BY <2>2 DEF MetricInv, JobsGood
    <3>2. JobGood([jobs[disp[d].job] EXCEPT !.linked = TRUE], now)
      BY <3>1 DEF JobGood, JobRow
    <3> QED BY <2>2, <2>3, <2>4, <3>2 DEF MetricInv, JobsGood
  <2>6. SweepsGood' BY <1>1, <2>2, <2>3, <2>4, AfterRow, GoOnGood
  <2> QED BY <2>1, <2>4, <2>5, <2>6 DEF MetricInv, ClockGood, RestGood
<1>4. CASE SweepDies(d)
  <2>1. SweepsGood'
    BY <1>4, IdleRow DEF SweepDies, MetricInv, SweepsGood, SweepGood
  <2> QED BY <1>4, <2>1
          DEF SweepDies, MetricInv, ClockGood, SchedulesGood, JobsGood, RestGood
<1> QED BY <1>2, <1>3, <1>4 DEF Dispatch

-----------------------------------------------------------------------------
(***************************************************************************)
(* The operator, time, and all steps together.                             *)
(***************************************************************************)

\* A schedule that is given a time is a good one.
LEMMA Rescheduled ==
  ASSUME MetricInv, NEW s \in Schedules, NEW next \in Nat, next # NoTime,
         \/ sched' = [sched EXCEPT ![s].status = "ACTIVE", ![s].next = next]
         \/ sched' = [sched EXCEPT ![s].status = "ACTIVE", ![s].next = next,
                                   ![s].start = next]
  PROVE  SchedulesGood'
<1>1. PICK row \in ScheduleRow : row = sched[s]
  BY DEF MetricInv, SchedulesGood
<1>2. [row EXCEPT !.status = "ACTIVE", !.next = next] \in ScheduleRow
      /\ [row EXCEPT !.status = "ACTIVE", !.next = next].next = next
  BY DEF ScheduleRow
<1>3. [row EXCEPT !.status = "ACTIVE", !.next = next, !.start = next] \in ScheduleRow
      /\ [row EXCEPT !.status = "ACTIVE", !.next = next, !.start = next].next = next
  BY DEF ScheduleRow
<1>4. \E after \in ScheduleRow : sched' = [sched EXCEPT ![s] = after]
  BY <1>1, <1>2, <1>3, ZenonT(60)
<1> QED BY <1>4 DEF MetricInv, SchedulesGood

LEMMA OperatorSteps == ASSUME MetricInv, Operator PROVE MetricInv'
<1>1. ASSUME Acts, UNCHANGED jobs
      PROVE  ClockGood' /\ JobsGood' /\ SweepsGood' /\ UNCHANGED <<now, disp>>
             /\ ops' \in Nat /\ faults' \in Nat
  BY <1>1 DEF Acts, MetricInv, ClockGood, JobsGood, SweepsGood, SweepGood, RestGood
<1>2. ASSUME NEW s \in Schedules, Upsert(s) \/ Resume(s) PROVE MetricInv'
  <2>1. ASSUME NEW start \in StartsAt(s) PROVE start \in Nat /\ start # NoTime
    BY MetricAssumption DEF StartsAt, MetricInv, ClockGood, NoTime
  <2>2. SchedulesGood' BY <1>2, <2>1, Rescheduled DEF Upsert, Resume, Write
  <2> QED BY <1>1, <1>2, <2>2 DEF Upsert, Resume, MetricInv, RestGood
<1>3. ASSUME NEW s \in Schedules, Pause(s) PROVE MetricInv'
  <2>1. PICK row \in ScheduleRow : row = sched[s] BY DEF MetricInv, SchedulesGood
  <2>2. [row EXCEPT !.status = "PAUSED", !.next = NoTime] \in ScheduleRow
    BY DEF ScheduleRow, NoTime
  <2>3. sched' = [sched EXCEPT ![s] = [row EXCEPT !.status = "PAUSED", !.next = NoTime]]
    BY <1>3, <2>1 DEF Pause, Write
  <2>4. SchedulesGood' BY <2>2, <2>3 DEF MetricInv, SchedulesGood
  <2> QED BY <1>1, <1>3, <2>4 DEF Pause, MetricInv, RestGood
<1>4. ASSUME NEW s \in Schedules, Withdrawn(s) PROVE MetricInv'
  BY <1>1, <1>4 DEF Withdrawn, MetricInv, RestGood, SchedulesGood
<1>5. CASE Hold
  <2>1. RestGood' BY <1>1, <1>5 DEF Hold, MetricInv, RestGood
  <2> QED BY <1>1, <1>5, <2>1 DEF Hold, MetricInv, SchedulesGood
<1>6. ASSUME NEW j \in DOMAIN jobs, RetryJob(j) \/ CancelJob(j) PROVE MetricInv'
  <2>1. SchedulesGood' /\ RestGood' /\ UNCHANGED <<now, disp>>
    BY <1>6 DEF RetryJob, CancelJob, Acts, MetricInv, SchedulesGood,
                RestGood
  <2>2. PICK row \in JobRow, t \in Nat : row = jobs[j] /\ t = now /\ row.observed <= t
    BY MetricAssumption DEF MetricInv, ClockGood, JobsGood, JobGood
  <2>3. CASE RetryJob(j)
    <3>1. PICK tries \in 0..MaxTries : tries = AtLeast(row.tries, 1) /\ tries > 0
      BY MetricAssumption DEF AtLeast, JobRow
    <3>2. Becomes(j, [row EXCEPT !.state = "queued", !.at = t, !.tries = tries])
      BY <2>2, <2>3, <3>1 DEF RetryJob
    <3>3. [row EXCEPT !.state = "queued", !.at = t, !.tries = tries] \in JobRow
      BY DEF JobRow, JobStates
    <3>4. JobGood([row EXCEPT !.state = "queued", !.at = t, !.tries = tries], t)
      BY <2>2, <3>1, <3>3 DEF JobGood, JobRow
    <3> QED BY <2>1, <2>2, <3>2, <3>4, JobStep
  <2>4. CASE CancelJob(j)
    <3>1. JobGood([row EXCEPT !.state = "cancelled"], t)
      BY <2>2 DEF JobGood, JobRow, JobStates
    <3> QED BY <2>1, <2>2, <2>4, <3>1, JobStep DEF CancelJob
  <2> QED BY <1>6, <2>3, <2>4
<1> QED BY <1>2, <1>3, <1>4, <1>5, <1>6 DEF Operator

LEMMA TickStep == ASSUME MetricInv, Tick PROVE MetricInv'
<1>1. ClockGood' BY MetricAssumption DEF Tick, MetricInv, ClockGood
<1>2. ASSUME NEW j \in DOMAIN jobs, JobGood(jobs[j], now) PROVE JobGood(jobs[j], now + 1)
  BY <1>2, MetricAssumption DEF JobGood, JobRow, MetricInv, ClockGood
<1>3. JobsGood' BY <1>2 DEF Tick, MetricInv, JobsGood
<1> QED BY <1>1, <1>3
        DEF Tick, MetricInv, SchedulesGood, SweepsGood, SweepGood,
            RestGood

LEMMA Inductive == MetricInv /\ [Next]_vars => MetricInv'
<1> SUFFICES ASSUME MetricInv, [Next]_vars PROVE MetricInv' OBVIOUS
<1>1. CASE Dispatching BY <1>1, SweepSteps DEF Dispatching
<1>2. CASE Working
  BY <1>2, ClaimSteps, AnswerStep, FailureSteps, SyncStep, CompleteStep DEF Working, Work
<1>3. CASE Operator BY <1>3, OperatorSteps
<1>4. CASE Tick BY <1>4, TickStep
<1>5. CASE \E d \in Dispatchers : SweepDies(d) BY <1>5, SweepSteps
<1>6. CASE \E j \in DOMAIN jobs : WorkerDies(j) BY <1>6, FailureSteps
<1>7. CASE UNCHANGED vars
  BY <1>7 DEF vars, MetricInv, ClockGood, SchedulesGood, JobsGood,
              SweepsGood, SweepGood, RestGood
<1> QED BY <1>1, <1>2, <1>3, <1>4, <1>5, <1>6, <1>7 DEF Next

LEMMA Always == Spec => []MetricInv
BY Initially, Inductive, PTL DEF Spec

-----------------------------------------------------------------------------
(***************************************************************************)
(* The theorems.                                                           *)
(***************************************************************************)

\* The variables stay within their types.
THEOREM MetricTypes == Spec => []TypeOK
<1>1. MetricInv => TypeOK
  <2> SUFFICES ASSUME MetricInv PROVE TypeOK OBVIOUS
  <2>1. ASSUME NEW j \in DOMAIN jobs
        PROVE  jobs[j] \in [state : JobStates, tries : 0..MaxTries, at : Nat,
                            linked : BOOLEAN, read : BOOLEAN, observed : 0..now,
                            delta : Deltas \cup {"unknown"}]
    <3>1. jobs[j] \in JobRow /\ jobs[j].observed <= now /\ now \in Nat
      BY MetricAssumption DEF MetricInv, ClockGood, JobsGood, JobGood
    <3> QED BY <3>1 DEF JobRow
  <2> QED BY <2>1 DEF TypeOK, MetricInv, ClockGood, SchedulesGood, ScheduleRow, JobsGood,
                      SweepsGood, SweepGood, SweepRow, MarkRows
<1> QED BY <1>1, Always, PTL

\* What one step of a sweep does to the rows: a schedule changes its status
\* only to stop, and a job that was there is at most linked.
LEMMA SweepsOnlyStop ==
  ASSUME MetricInv, NEW d \in Dispatchers, Dispatch(d)
  PROVE  /\ \A s \in Schedules : sched'[s].status = "ACTIVE" => sched[s].status = "ACTIVE"
         /\ \A j \in DOMAIN jobs : jobs'[j].state = jobs[j].state
<1>1. \A j \in DOMAIN jobs : jobs[j] \in JobRow
  BY DEF MetricInv, JobsGood, JobGood
<1>2. ASSUME NEW marks \in MarkRows, NEW s \in Schedules,
             Committed(marks)[s].status = "ACTIVE"
      PROVE  sched[s].status = "ACTIVE"
  <2>1. marks[s].status # "ACTIVE" BY DEF MarkRows
  <2> QED BY <1>2, <2>1, CommittedRows
<1>3. CASE Sweep(d) \/ Continue(d)
  <2>1. PICK s \in Schedules, q \in SweepRow : Visit(d, s, q) BY <1>3, Turn DEF Turns
  <2>2. q.marks \in MarkRows /\ \A status \in {"BLOCKED", "COMPLETED"} :
                                 Marked(q, s, status).marks \in MarkRows
    BY MarkedRow DEF SweepRow
  <2>3. /\ \A j \in DOMAIN jobs : jobs'[j] = jobs[j]
        /\ UNCHANGED sched \/ \E marks \in MarkRows : sched' = Committed(marks)
    <3>1. ASSUME NEW status \in {"BLOCKED", "COMPLETED"}, Skip(d, Marked(q, s, status))
          PROVE  <2>3!:
      BY <2>2, <3>1 DEF Skip, Write
    <3>2. ASSUME NEW next, Enqueue(d, s, q, next) PROVE <2>3!:
      BY <2>2, <3>1, <3>2 DEF Enqueue, Write
    <3> QED BY <2>1, <3>1, <3>2 DEF Visit
  <2> QED BY <1>2, <2>3
<1>4. CASE WriteBack(d)
  <2>1. \A s \in Schedules : sched'[s].status = "ACTIVE" => sched[s].status = "ACTIVE"
    BY <1>2, <1>4, WrittenBack
  <2> QED BY <1>1, <1>4, <2>1 DEF WriteBack, JobRow
<1> QED BY <1>3, <1>4 DEF Dispatch

-----------------------------------------------------------------------------
(***************************************************************************)
(* One sweep at a time.  It clears the time only of a schedule it stops:   *)
(* no row it has still to visit has stopped and kept its time.             *)
(***************************************************************************)
OneSweep == \A d, e \in Dispatchers : d = e

Known(rows, marks, left) ==
  /\ \A s \in left : marks[s] = NoMarks[s] /\ Stopped(rows[s])
  /\ \A s \in Schedules : marks[s].clear => marks[s].status # "none"

TrackInv ==
  /\ ActiveIsScheduled
  /\ \A d \in Dispatchers : /\ Known(sched, disp[d].marks, disp[d].left)
                            /\ disp[d].pc = "link" => disp[d].job[1] \notin disp[d].left

LEMMA NothingKnown ==
  ASSUME NEW rows, NEW left \in SUBSET Schedules, \A s \in left : Stopped(rows[s])
  PROVE  Known(rows, NoMarks, left)
BY DEF Known, NoMarks

\* What others write leaves a tracked row a time and a stopped one none.
LEMMA RowsTracked ==
  ASSUME MetricInv, TrackInv, UNCHANGED disp,
         \A s \in Schedules : /\ Scheduled(sched[s]) => Scheduled(sched'[s])
                              /\ Stopped(sched[s]) => Stopped(sched'[s])
  PROVE  TrackInv'
<1>1. \A d \in Dispatchers : disp[d].left \subseteq Schedules
  BY DEF MetricInv, SweepsGood, SweepRow
<1>2. ActiveIsScheduled' BY DEF TrackInv, ActiveIsScheduled, Scheduled
<1> QED BY <1>1, <1>2 DEF TrackInv, Known

LEMMA MarkedKnown ==
  ASSUME MetricInv, NEW q \in SweepRow, NEW s \in Schedules,
         NEW status \in {"BLOCKED", "COMPLETED"}, Known(sched, q.marks, q.left),
         Stopped(sched[s]), s \notin q.left
  PROVE  Known(sched, Marked(q, s, status).marks, q.left)
<1>1. \A t \in Schedules : Marked(q, s, status).marks[t]
                              = IF t = s THEN Mark(s, status) ELSE q.marks[t]
  BY MarkedRow
<1>2. Mark(s, status).clear => Mark(s, status).status # "none" BY DEF Stopped, Mark
<1>3. q.left \subseteq Schedules BY DEF SweepRow
<1> QED BY <1>1, <1>2, <1>3 DEF Known

LEMMA CommittedKnown ==
  ASSUME MetricInv, TrackInv, NEW marks \in MarkRows, NEW left \in SUBSET Schedules,
         Known(sched, marks, left)
  PROVE  /\ \A s \in Schedules : Scheduled(Committed(marks)[s])
         /\ \A s \in left : Stopped(Committed(marks)[s])
<1>1. ASSUME NEW s \in Schedules PROVE Scheduled(Committed(marks)[s])
  <2>1. marks[s].status # "ACTIVE" /\ (marks[s].clear => marks[s].status # "none")
    BY DEF Known, MarkRows
  <2>2. Scheduled(sched[s]) BY DEF TrackInv, ActiveIsScheduled, Scheduled
  <2> QED BY <2>1, <2>2, CommittedRows DEF Scheduled
<1>2. ASSUME NEW s \in left PROVE Stopped(Committed(marks)[s])
  <2>1. marks[s].status = "none" /\ ~marks[s].clear BY DEF Known, NoMarks
  <2>2. Stopped(sched[s]) BY DEF Known
  <2> QED BY <2>1, <2>2, CommittedRows DEF Stopped
<1> QED BY <1>1, <1>2

LEMMA GoOnKnown ==
  ASSUME OneSweep, MetricInv, NEW d \in Dispatchers, NEW q \in SweepRow, GoOn(d, q),
         ActiveIsScheduled', q.left # {} => Known(sched', q.marks, q.left)
  PROVE  TrackInv'
<1>1. disp \in [Dispatchers -> SweepRow] BY DEF MetricInv, SweepsGood
<1>2. CASE q.left = {}
  <2>1. disp'[d] = IdleSweep BY <1>1, <1>2 DEF GoOn
  <2>2. Known(sched', NoMarks, {}) BY NothingKnown
  <2>3. IdleSweep.marks = NoMarks /\ IdleSweep.left = {} /\ IdleSweep.pc = "idle"
    BY DEF IdleSweep
  <2> QED BY <2>1, <2>2, <2>3 DEF TrackInv, OneSweep
<1>3. CASE q.left # {}
  <2> DEFINE r == [q EXCEPT !.pc = "loop", !.job = <<>>, !.next = NoTime]
  <2>1. disp'[d] = r BY <1>1, <1>3 DEF GoOn
  <2>2. r.marks = q.marks /\ r.left = q.left /\ r.pc = "loop" BY DEF SweepRow
  <2> HIDE DEF r
  <2> QED BY <1>3, <2>1, <2>2 DEF TrackInv, OneSweep
<1> QED BY <1>2, <1>3

LEMMA LinkKnown ==
  ASSUME OneSweep, MetricInv, NEW d \in Dispatchers, NEW q \in SweepRow, NEW j, NEW next,
         Link(d, q, j, next), j[1] \notin q.left, ActiveIsScheduled',
         Known(sched', q.marks, q.left)
  PROVE  TrackInv'
<1> DEFINE r == [q EXCEPT !.pc = "link", !.job = j, !.next = next]
<1>1. disp'[d] = r BY DEF Link, MetricInv, SweepsGood
<1>2. r.marks = q.marks /\ r.left = q.left /\ r.pc = "link" /\ r.job = j
  BY DEF SweepRow
<1> HIDE DEF r
<1> QED BY <1>1, <1>2 DEF TrackInv, OneSweep

LEMMA SkipKnown ==
  ASSUME OneSweep, MetricInv, TrackInv, NEW d \in Dispatchers, NEW q \in SweepRow,
         Skip(d, q), Known(sched, q.marks, q.left)
  PROVE  TrackInv'
<1>1. q.marks \in MarkRows /\ q.left \in SUBSET Schedules BY DEF SweepRow
<1>2. CASE q.left = {}
  <2>1. sched' = Committed(q.marks) BY <1>2 DEF Skip, Write
  <2>2. ActiveIsScheduled'
    BY <1>1, <2>1, CommittedKnown DEF ActiveIsScheduled, Scheduled
  <2> QED BY <1>2, <2>2, GoOnKnown DEF Skip
<1>3. CASE q.left # {}
  <2>1. UNCHANGED sched BY <1>3 DEF Skip
  <2>2. ActiveIsScheduled' BY <2>1 DEF TrackInv, ActiveIsScheduled
  <2> QED BY <2>1, <2>2, GoOnKnown DEF Skip
<1> QED BY <1>2, <1>3

LEMMA VisitKnown ==
  ASSUME OneSweep, MetricInv, TrackInv, NEW d \in Dispatchers, NEW s \in Schedules,
         NEW q \in SweepRow, Visit(d, s, q), s \notin q.left,
         Known(sched, q.marks, q.left), Stopped(sched[s])
  PROVE  TrackInv'
<1>1. q.marks \in MarkRows /\ q.left \in SUBSET Schedules BY DEF SweepRow
<1>2. /\ After(q) \in SweepRow /\ After(q).left = q.left /\ After(q).marks = NoMarks
  BY AfterRow
<1>3. ASSUME NEW status \in {"BLOCKED", "COMPLETED"}, Skip(d, Marked(q, s, status))
      PROVE  TrackInv'
  <2>1. Marked(q, s, status) \in SweepRow /\ Marked(q, s, status).left = q.left
    BY MarkedRow
  <2>2. Known(sched, Marked(q, s, status).marks, q.left) BY MarkedKnown
  <2> QED BY <1>3, <2>1, <2>2, SkipKnown
\* A commit on the way.
<1>4. ASSUME NEW marks \in MarkRows, Known(sched, marks, q.left), sched' = Committed(marks)
      PROVE  ActiveIsScheduled' /\ Known(sched', After(q).marks, After(q).left)
  <2>1. ActiveIsScheduled'
    BY <1>1, <1>4, CommittedKnown DEF ActiveIsScheduled, Scheduled
  <2>2. \A t \in q.left : Stopped(sched'[t]) BY <1>1, <1>4, CommittedKnown
  <2> QED BY <1>1, <1>2, <2>1, <2>2, NothingKnown
<1>5. ASSUME NEW next, Enqueue(d, s, q, next) PROVE TrackInv'
  <2> DEFINE j == <<s, IF sched[s].next = NoTime THEN q.at ELSE sched[s].next>>
             marked == Marked(q, s, "BLOCKED")
  <2>1. j[1] = s OBVIOUS
  <2>2. marked.marks \in MarkRows /\ Known(sched, marked.marks, q.left)
    BY MarkedRow, MarkedKnown DEF SweepRow
  <2> HIDE DEF j, marked
  <2>3. \/ Skip(d, marked)
        \/ sched' = Committed(marked.marks) /\ GoOn(d, After(q))
        \/ UNCHANGED sched /\ Link(d, q, j, next)
        \/ Dispatchers # {d}
        \/ sched' = Committed(q.marks) /\ Link(d, After(q), j, next)
    BY <1>5 DEF Enqueue, Write, j, marked
  <2>4. CASE Skip(d, marked) BY <1>3, <2>4 DEF marked
  <2>5. CASE sched' = Committed(marked.marks) /\ GoOn(d, After(q))
    BY <1>2, <1>4, <2>2, <2>5, GoOnKnown
  <2>6. CASE UNCHANGED sched /\ Link(d, q, j, next)
    <3>1. ActiveIsScheduled' BY <2>6 DEF TrackInv, ActiveIsScheduled
    <3> QED BY <2>1, <2>6, <3>1, LinkKnown
  <2>7. CASE sched' = Committed(q.marks) /\ Link(d, After(q), j, next)
    BY <1>1, <1>2, <1>4, <2>1, <2>7, LinkKnown
  <2> QED BY <2>3, <2>4, <2>5, <2>6, <2>7 DEF OneSweep
<1> QED BY <1>3, <1>5 DEF Visit

LEMMA Tracked ==
  ASSUME OneSweep, MetricInv, TrackInv, [Next]_vars
  PROVE  TrackInv'
<1>1. ASSUME UNCHANGED <<sched, disp>> PROVE TrackInv'
  BY <1>1 DEF TrackInv, ActiveIsScheduled
<1>2. ASSUME NEW d \in Dispatchers, Sweep(d) \/ Continue(d) PROVE TrackInv'
  <2>1. PICK s \in Schedules, q \in SweepRow : Turns(d, s, q) BY <1>2, Turn
  <2>2. Known(sched, q.marks, q.left) /\ Stopped(sched[s])
    <3>1. CASE q.marks = NoMarks /\ q.left \cup {s} \subseteq Due
      <4>1. \A t \in q.left \cup {s} : Stopped(sched[t]) BY <3>1 DEF Due, Stopped
      <4>2. q.left \in SUBSET Schedules BY DEF SweepRow
      <4> QED BY <3>1, <4>1, <4>2, NothingKnown
    <3>2. CASE q.marks = disp[d].marks /\ q.left \cup {s} \subseteq disp[d].left
      BY <3>2 DEF TrackInv, Known
    <3> QED BY <2>1, <3>1, <3>2 DEF Turns
  <2> QED BY <2>1, <2>2, VisitKnown DEF Turns
<1>3. ASSUME NEW d \in Dispatchers, WriteBack(d) PROVE TrackInv'
  <2> DEFINE q == disp[d]
             rows == Committed(q.marks)
  <2>1. /\ q \in SweepRow /\ After(q) \in SweepRow /\ q.left \in SUBSET Schedules
        /\ After(q).left = q.left /\ After(q).marks = NoMarks
    BY AfterRow DEF MetricInv, SweepsGood, SweepRow
  <2> DEFINE s == q.job[1]
  <2>2. /\ s \in Schedules /\ q.next # NoTime /\ q.marks \in MarkRows
        /\ \A t \in Schedules :
             /\ sched'[t].status = rows[t].status
             /\ sched'[t].next = IF t = s THEN q.next ELSE rows[t].next
    BY <1>3, WrittenBack
  <2>3. s \notin q.left /\ Known(sched, q.marks, q.left)
    BY <1>3, <2>2 DEF WriteBack, TrackInv
  <2>4. /\ \A t \in Schedules : Scheduled(rows[t])
        /\ \A t \in q.left : Stopped(rows[t])
    BY <2>1, <2>2, <2>3, CommittedKnown
  <2>5. ActiveIsScheduled' BY <2>2, <2>4 DEF ActiveIsScheduled, Scheduled
  <2>6. \A t \in q.left : Stopped(sched'[t]) BY <2>1, <2>2, <2>3, <2>4 DEF Stopped
  <2>7. Known(sched', After(q).marks, After(q).left) BY <2>1, <2>6, NothingKnown
  <2>8. GoOn(d, After(q)) BY <1>3 DEF WriteBack
  <2> QED BY <2>1, <2>5, <2>7, <2>8, GoOnKnown
<1>4. ASSUME NEW d \in Dispatchers, SweepDies(d) PROVE TrackInv'
  <2>1. disp'[d] = IdleSweep /\ UNCHANGED sched
    BY <1>4 DEF SweepDies, MetricInv, SweepsGood
  <2>2. Known(sched', NoMarks, {}) BY NothingKnown
  <2>3. IdleSweep.marks = NoMarks /\ IdleSweep.left = {} /\ IdleSweep.pc = "idle"
    BY DEF IdleSweep
  <2> QED BY <2>1, <2>2, <2>3 DEF TrackInv, ActiveIsScheduled, OneSweep
<1>5. ASSUME NEW j \in DOMAIN jobs, Sync(j) PROVE TrackInv'
  <2>1. jobs[j] \in JobRow /\ j[1] \in Schedules /\ j[2] \in Nat
    BY DEF MetricInv, JobsGood, JobGood
  <2>2. ASSUME NEW trend,
               sched' = [sched EXCEPT ![j[1]] = Synced(@, j[2], jobs[j], trend)]
        PROVE  \A s \in Schedules : /\ Scheduled(sched[s]) => Scheduled(sched'[s])
                                    /\ Stopped(sched[s]) => Stopped(sched'[s])
    BY <2>1, <2>2, SyncedRow DEF MetricInv, SchedulesGood
  <2>3. UNCHANGED sched \/ \E trend :
          sched' = [sched EXCEPT ![j[1]] = Synced(@, j[2], jobs[j], trend)]
    BY <1>5 DEF Sync, Write
  <2> QED BY <1>5, <2>2, <2>3, RowsTracked DEF Sync
<1>6. ASSUME NEW s \in Schedules, Upsert(s) \/ Pause(s) \/ Resume(s) PROVE TrackInv'
  <2>1. \A start \in StartsAt(s) : start # NoTime
    BY MetricAssumption DEF StartsAt, MetricInv, ClockGood, NoTime
  <2>2. PICK row \in ScheduleRow : row = sched[s] BY DEF MetricInv, SchedulesGood
  <2>3. ASSUME NEW next, next # NoTime
        PROVE  /\ Scheduled([row EXCEPT !.status = "ACTIVE", !.next = next])
               /\ Stopped([row EXCEPT !.status = "ACTIVE", !.next = next])
               /\ Scheduled([row EXCEPT !.status = "ACTIVE", !.next = next, !.start = next])
               /\ Stopped([row EXCEPT !.status = "ACTIVE", !.next = next, !.start = next])
               /\ Scheduled([row EXCEPT !.status = "PAUSED", !.next = NoTime])
               /\ Stopped([row EXCEPT !.status = "PAUSED", !.next = NoTime])
    BY <2>3 DEF ScheduleRow, Scheduled, Stopped
  <2>4. now # NoTime BY MetricAssumption DEF MetricInv, ClockGood, NoTime
  <2>5. \E after : /\ sched' = [sched EXCEPT ![s] = after]
                   /\ Scheduled(after) /\ Stopped(after)
    <3>1. CASE Upsert(s)
      <4>1. PICK start \in StartsAt(s) :
              sched' = [sched EXCEPT ![s] = [row EXCEPT !.status = "ACTIVE", !.next = start,
                                                        !.start = start]]
        BY <2>2, <3>1, ZenonT(60) DEF Upsert, Write
      <4> QED BY <2>1, <2>3, <4>1
    <3>2. CASE Resume(s)
      <4>1. PICK start \in StartsAt(s) :
              sched' = [sched EXCEPT ![s] = [row EXCEPT !.status = "ACTIVE", !.next = start]]
        BY <2>2, <3>2, ZenonT(60) DEF Resume, Write
      <4> QED BY <2>1, <2>3, <4>1
    <3>3. CASE Pause(s)
      <4>1. sched' = [sched EXCEPT ![s] = [row EXCEPT !.status = "PAUSED", !.next = NoTime]]
        BY <2>2, <3>3 DEF Pause, Write
      <4> QED BY <2>3, <2>4, <4>1
    <3> QED BY <1>6, <3>1, <3>2, <3>3
  <2>6. UNCHANGED disp BY <1>6 DEF Upsert, Pause, Resume, Acts
  <2> QED BY <2>5, <2>6, RowsTracked DEF MetricInv, SchedulesGood
<1> QED
  BY <1>1, <1>2, <1>3, <1>4, <1>5, <1>6
     DEF Next, Dispatching, Dispatch, Working, Work, Operator, vars, Replay, Refuse, Defer,
         Call, Answer, CallFails, Complete, JobOnly, Withdrawn, RetryJob, CancelJob, Hold,
         Acts, Tick, WorkerDies

\* A schedule that is tracked has a next collection, whatever answers,
\* requests and deaths meet the sweep, while no second sweep runs beside it.
THEOREM NeverForgotten == ASSUME OneSweep PROVE Spec => []ActiveIsScheduled
<1>1. Init => TrackInv
  <2> SUFFICES ASSUME Init PROVE TrackInv OBVIOUS
  <2>1. ASSUME NEW s \in Schedules PROVE sched[s].next # NoTime
    BY MetricAssumption DEF Init, Schedule, NoTime
  <2>2. \A d \in Dispatchers : disp[d] = IdleSweep BY DEF Init
  <2>3. Known(sched, NoMarks, {}) BY NothingKnown
  <2>4. IdleSweep.marks = NoMarks /\ IdleSweep.left = {} /\ IdleSweep.pc = "idle"
    BY DEF IdleSweep
  <2> QED BY <2>1, <2>2, <2>3, <2>4 DEF TrackInv, ActiveIsScheduled
<1>2. MetricInv /\ TrackInv /\ [Next]_vars => TrackInv' BY Tracked
<1>3. TrackInv => ActiveIsScheduled BY DEF TrackInv
<1> QED BY <1>1, <1>2, <1>3, Always, PTL DEF Spec

\* Only the operator starts a schedule that is not ACTIVE: no decision that
\* was under way when it stopped, of a sweep or of a job, does.
THEOREM OnlyOperatorStarts == Spec => OperatorStarts
<1> DEFINE Step == \A s \in Schedules :
                     sched[s].status # "ACTIVE" /\ sched'[s].status = "ACTIVE" => ops' # ops
<1>1. MetricInv /\ [Next]_vars => [Step]_vars
  <2> SUFFICES ASSUME MetricInv, Next PROVE Step BY DEF vars
  <2>1. CASE Dispatching BY <2>1, SweepsOnlyStop DEF Dispatching
  <2>2. CASE Operator
    <3>1. ops \in Nat BY DEF MetricInv, RestGood
    <3>2. ops' = ops + 1
      BY <2>2 DEF Operator, Acts, Upsert, Pause, Resume, Withdrawn, RetryJob, CancelJob, Hold
    <3> QED BY <3>1, <3>2
  <2>3. ASSUME NEW j \in DOMAIN jobs, Sync(j) PROVE Step
    <3>1. jobs[j] \in JobRow /\ j[1] \in Schedules /\ j[2] \in Nat
      BY DEF MetricInv, JobsGood, JobGood
    <3>2. CASE UNCHANGED sched BY <3>2
    <3>3. ASSUME NEW trend,
                 sched' = [sched EXCEPT ![j[1]] = Synced(@, j[2], jobs[j], trend)]
          PROVE  Step
      <4> DEFINE after == Synced(sched[j[1]], j[2], jobs[j], trend)
      <4>1. after.status = "ACTIVE" => sched[j[1]].status = "ACTIVE"
        BY <3>1, SyncedRow DEF MetricInv, SchedulesGood
      <4>2. sched' = [sched EXCEPT ![j[1]] = after] BY <3>3
      <4> HIDE DEF after
      <4> QED BY <4>1, <4>2 DEF MetricInv, SchedulesGood
    <3> QED BY <2>3, <3>2, <3>3 DEF Sync, Write
  <2>4. CASE UNCHANGED sched BY <2>4
  <2> QED
    BY <2>1, <2>2, <2>3, <2>4
       DEF Next, Working, Work, Replay, Refuse, Defer, Call, Answer, CallFails, Complete,
           JobOnly, Tick, SweepDies, WorkerDies
<1> QED BY <1>1, Always, PTL DEF Spec, OperatorStarts

\* A snapshot that is stored is neither asked for again nor lost to a hold or
\* a cooldown that came after it.
THEOREM SnapshotsKept == Spec => ResultKept
<1> DEFINE Step == \A j \in DOMAIN jobs : jobs[j].read =>
                     /\ jobs'[j].state # "calling"
                     /\ jobs[j].state # "failed" /\ jobs'[j].state = "failed"
                          => faults' # faults
<1>1. MetricInv /\ [Next]_vars => [Step]_vars
  <2> SUFFICES ASSUME MetricInv, [Next]_vars, vars' # vars PROVE Step OBVIOUS
  <2>1. \A j \in DOMAIN jobs : /\ jobs[j] \in JobRow
                               /\ jobs[j].state = "calling" => ~jobs[j].read
    BY DEF MetricInv, JobsGood, JobGood
  <2>2. CASE UNCHANGED jobs BY <2>1, <2>2
  <2>3. CASE Dispatching BY <2>1, <2>3, SweepsOnlyStop DEF Dispatching
  <2>4. ASSUME NEW k \in DOMAIN jobs, NEW job, Becomes(k, job),
               jobs[k].read => /\ job.state # "calling"
                               /\ job.state = "failed" => faults' # faults
        PROVE  Step
    BY <2>1, <2>4 DEF Becomes
  <2>5. ASSUME NEW k \in DOMAIN jobs, Replay(k) PROVE Step
    <3>1. [Claimed(k) EXCEPT !.state = "snapped"].state = "snapped"
      BY DEF Claimed, MetricInv, JobsGood, JobGood, JobRow
    <3> QED BY <2>4, <2>5, <3>1 DEF Replay
  <2>6. ASSUME NEW k \in DOMAIN jobs, Refuse(k) \/ Defer(k) \/ Call(k) PROVE Step
    BY <2>4, <2>6 DEF Refuse, Defer, Call, Eligible
  <2>7. ASSUME NEW k \in DOMAIN jobs, Answer(k) PROVE Step
    BY <2>1, <2>4, <2>7 DEF Answer
  <2>8. ASSUME NEW k \in DOMAIN jobs, CallFails(k) \/ WorkerDies(k) PROVE Step
    <3>1. faults' # faults BY <2>8 DEF CallFails, WorkerDies, MetricInv, RestGood
    <3>2. jobs[k] \in JobRow BY <2>1
    <3>3. ASSUME NEW t PROVE Later(jobs[k], t).state # "calling"
      BY <3>2 DEF Later, JobRow
    <3>4. [jobs[k] EXCEPT !.state = "failed"].state # "calling" BY <3>2 DEF JobRow
    <3>5. \E job : Becomes(k, job) /\ job.state # "calling"
      BY <2>8, <3>3, <3>4 DEF CallFails, WorkerDies
    <3> QED BY <2>4, <3>1, <3>5
  <2>9. ASSUME NEW k \in DOMAIN jobs, Sync(k) \/ Complete(k) PROVE Step
    <3>1. [jobs[k] EXCEPT !.state = "synced"].state = "synced" BY <2>1 DEF JobRow
    <3>2. [NewJob EXCEPT !.state = "completed", !.read = TRUE].state = "completed"
      BY DEF NewJob
    <3> QED BY <2>4, <2>9, <3>1, <3>2 DEF Sync, Complete
  <2>10. ASSUME NEW k \in DOMAIN jobs, RetryJob(k) \/ CancelJob(k) PROVE Step
    <3>1. PICK row \in JobRow : row = jobs[k] BY <2>1
    <3>2. ASSUME NEW tries
          PROVE  [row EXCEPT !.state = "queued", !.at = now, !.tries = tries].state = "queued"
      BY DEF JobRow
    <3>3. [row EXCEPT !.state = "cancelled"].state = "cancelled" BY DEF JobRow
    <3>4. CASE RetryJob(k)
      <4>1. Becomes(k, [row EXCEPT !.state = "queued", !.at = now,
                                   !.tries = AtLeast(row.tries, 1)])
        BY <3>1, <3>4 DEF RetryJob
      <4> QED BY <2>4, <3>2, <4>1
    <3>5. CASE CancelJob(k) BY <2>4, <3>1, <3>3, <3>5 DEF CancelJob
    <3> QED BY <2>10, <3>4, <3>5
  <2>11. CASE Operator
    BY <2>2, <2>10, <2>11 DEF Operator, Upsert, Pause, Resume, Withdrawn, Hold
  <2>12. CASE Working BY <2>5, <2>6, <2>7, <2>8, <2>9, <2>12 DEF Working, Work
  <2>13. CASE Tick BY <2>2, <2>13 DEF Tick
  <2>14. CASE \E d \in Dispatchers : SweepDies(d) BY <2>2, <2>14 DEF SweepDies
  <2> QED BY <2>3, <2>8, <2>11, <2>12, <2>13, <2>14 DEF Next
<1> QED BY <1>1, Always, PTL DEF Spec, ResultKept
=============================================================================
