------------------------- MODULE JobQueueExclusive -------------------------
(***************************************************************************)
(* What workers promise one another when only workers act: a claimed job   *)
(* is executed by its claimer alone until it is settled or swept.  The     *)
(* rows of an executing worker change under it in their lock only, so the  *)
(* copy it commits is the row; what a sweep has loaded nobody executes.    *)
(*                                                                         *)
(* Two sweeps may load the same row: the later commit then takes a claim   *)
(* back that was made in between (job_runner.py selects stale rows without *)
(* locking them).  SweepsApart says that this does not happen; it holds of *)
(* itself when one worker process runs, however often it crashes, and when *)
(* of two workers one may crash for good.  The theorems are about these.   *)
(***************************************************************************)
EXTENDS JobQueueLocks

\* Only workers act, no handler asks for input, a job may be tried, and the
\* lock of a live execution is kept fresh unless there is one worker only.
Regime ==
  /\ Ops = {} /\ InputJobs = {} /\ MaxAttempts # 0
  /\ HeartbeatReliable \/ OneWorker

Sweeping(w, j) == pc[w] \in {"recover", "sweep"} /\ view[w][j].status # "GONE"

\* No two sweeps have loaded the same row.
SweepsApart ==
  \A v, w \in Workers, j \in Jobs : Sweeping(v, j) /\ Sweeping(w, j) => v = w

\* Rows that differ in the age of their lock at most.
Alike(q, r) ==
  /\ q.status = r.status /\ q.steps = r.steps /\ q.attempts = r.attempts
  /\ q.max = r.max /\ q.due = r.due /\ q.by = r.by
  /\ q.lock # "none" /\ r.lock # "none"

\* n attempts are within the retry policy for some kind of failure.
Within(j, r, n) == \E class \in Failures : n <= RetryCap(j, r, class)

RowGood(j, r) ==
  /\ r.status \in {"QUEUED", "RUNNING", "RETRYABLE", "FAILED", "COMPLETED"}
  /\ r.status = "RUNNING" => r.by # NoOne /\ r.lock # "none" /\ r.due
  /\ \A i \in Steps : r.steps[i] \in {"PENDING", "RUNNING", "FAILED", "COMPLETED"}
  /\ r.status \in {"QUEUED", "RETRYABLE"} => \A i \in Steps : r.steps[i] # "RUNNING"
  /\ r.status = "COMPLETED" => \A i \in Steps : r.steps[i] = "COMPLETED"
  /\ r.max = MaxAttempts
  /\ r.status = "QUEUED" => r.attempts = 0
  /\ Within(j, r, r.attempts)
  /\ r.status = "RETRYABLE" => Within(j, r, r.attempts + 1)

\* How far w has come with the row of its job.
Reached(w, r) ==
  /\ \A i \in Steps : i < at[w] \/ pc[w] \in {"finish", "complete"}
                        => r.steps[i] = "COMPLETED"
  /\ \A i \in Steps : \/ r.steps[i] \in {"PENDING", "COMPLETED"}
                      \/ i = at[w] /\ pc[w] \in {"run", "settle"}
  /\ pc[w] \in {"run", "settle"} => r.steps[at[w]] = "RUNNING"

\* w has the job to itself, and its copy is the row.
ExecGood(w) ==
  IF pc[w] \in Executing
  THEN LET r == jobs[task[w]] IN
       /\ pc[w] # "abort" /\ r.status = "RUNNING" /\ r.by = w
       /\ HeartbeatReliable => r.lock = "fresh"
       /\ Reached(w, r)
       /\ pc[w] \in {"start", "mark", "settle", "complete"} => Alike(view[w][task[w]], r)
  ELSE at[w] = 1

\* Nobody executes what w sweeps, and its copies are the rows.
SweepGood(w) ==
  \A j \in Jobs : Sweeping(w, j) =>
    /\ jobs[j].status = "RUNNING" /\ Alike(view[w][j], jobs[j])
    /\ \A v \in Workers : ~Works(v, j)

ExecInv ==
  /\ \A j \in Jobs : RowGood(j, jobs[j])
  /\ \A w \in Workers : ExecGood(w) /\ SweepGood(w)

-----------------------------------------------------------------------------
(***************************************************************************)
(* Rows and copies.                                                        *)
(***************************************************************************)
LEMMA CapNat ==
  ASSUME NEW j \in Jobs, NEW r \in Row, NEW class PROVE RetryCap(j, r, class) \in Nat
BY QueueAssumption DEF RetryCap, Row

\* RetryCap looks at the cap of the row and nothing else of it.
LEMMA SameCap ==
  ASSUME NEW j, NEW r, NEW q, q.max = r.max, NEW class
  PROVE  RetryCap(j, q, class) = RetryCap(j, r, class)
BY DEF RetryCap

LEMMA SameWithin ==
  ASSUME NEW j, NEW r, NEW q, q.max = r.max, NEW n
  PROVE  Within(j, q, n) <=> Within(j, r, n)
BY SameCap DEF Within

LEMMA AlikeGood ==
  ASSUME NEW j, NEW r, NEW q, Alike(q, r), RowGood(j, r) PROVE RowGood(j, q)
<1>1. /\ Within(j, q, r.attempts) <=> Within(j, r, r.attempts)
      /\ Within(j, q, r.attempts + 1) <=> Within(j, r, r.attempts + 1)
  BY SameWithin DEF Alike
<1> HIDE DEF Within
<1> QED BY <1>1 DEF Alike, RowGood

\* A commit from a copy that is the row writes what was computed.
LEMMA FlushAlike ==
  ASSUME NEW r \in Row, NEW q \in Row, NEW new \in Row, Alike(q, r)
  PROVE  /\ new.lock = "none" => Flush(r, q, new) = new
         /\ new.lock = q.lock => Flush(r, q, new) = [new EXCEPT !.lock = r.lock]
<1>1. /\ r = [status |-> r.status, steps |-> r.steps, attempts |-> r.attempts,
              max |-> r.max, due |-> r.due, by |-> r.by, lock |-> r.lock]
      /\ new = [status |-> new.status, steps |-> new.steps, attempts |-> new.attempts,
                max |-> new.max, due |-> new.due, by |-> new.by, lock |-> new.lock]
      /\ new.steps = [i \in Steps |-> new.steps[i]]
  BY DEF Row
<1>2. [i \in Steps |-> IF new.steps[i] = q.steps[i] THEN r.steps[i] ELSE new.steps[i]]
        = new.steps
  BY <1>1 DEF Alike
<1>3. Flush(r, q, new)
        = [status |-> new.status, steps |-> new.steps, attempts |-> new.attempts,
           max |-> new.max, due |-> new.due, by |-> new.by,
           lock |-> IF new.lock = q.lock THEN r.lock ELSE new.lock]
  BY <1>2 DEF Flush, Alike
<1>4. new.lock = "none" => new.lock # q.lock BY DEF Alike
<1>5. [new EXCEPT !.lock = r.lock]
        = [status |-> new.status, steps |-> new.steps, attempts |-> new.attempts,
           max |-> new.max, due |-> new.due, by |-> new.by, lock |-> r.lock]
  BY <1>1
<1> QED BY <1>1, <1>3, <1>4, <1>5

LEMMA WithStepFields ==
  ASSUME NEW r \in Row, NEW i \in Steps, NEW to
  PROVE  LET n == WithStep(r, i, to) IN
         /\ n.status = r.status /\ n.attempts = r.attempts /\ n.max = r.max
         /\ n.due = r.due /\ n.by = r.by /\ n.lock = r.lock
         /\ n.steps[i] = to /\ \A k \in Steps \ {i} : n.steps[k] = r.steps[k]
BY DEF WithStep, Row

\* A step of a RUNNING row.
LEMMA SteppedGood ==
  ASSUME NEW j, NEW r \in Row, RowGood(j, r), r.status = "RUNNING", NEW i \in Steps,
         NEW to \in {"RUNNING", "COMPLETED", "FAILED"}
  PROVE  RowGood(j, WithStep(r, i, to))
<1> DEFINE n == WithStep(r, i, to)
<1>1. /\ n.status = r.status /\ n.attempts = r.attempts /\ n.max = r.max
      /\ n.due = r.due /\ n.by = r.by /\ n.lock = r.lock
      /\ n.steps[i] = to /\ \A k \in Steps \ {i} : n.steps[k] = r.steps[k]
  BY WithStepFields
<1> HIDE DEF n
<1>2. Within(j, n, r.attempts) <=> Within(j, r, r.attempts) BY <1>1, SameWithin
<1> QED BY <1>1, <1>2 DEF RowGood, n

\* A failure leaves a row that may be tried again, or has failed.
LEMMA OutcomeGood ==
  ASSUME NEW j \in Jobs, NEW r \in Row, RowGood(j, r),
         \A i \in Steps : r.steps[i] # "RUNNING", NEW class \in Failures \cup {"binding"}
  PROVE  LET n == Outcome(j, r, class) IN
         /\ n.status \in {"RETRYABLE", "FAILED"} /\ n.lock = "none" /\ n.steps = r.steps
         /\ RowGood(j, n)
<1> DEFINE n == Outcome(j, r, class)
<1>1. /\ n.steps = r.steps /\ n.attempts = r.attempts /\ n.max = r.max /\ n.lock = "none"
      /\ n.status \in {"RETRYABLE", "FAILED"}
      /\ n.status = "RETRYABLE" => r.attempts < RetryCap(j, r, class) /\ class # "binding"
  BY DEF Outcome, Unlocked, Row
<1> HIDE DEF n
<1>2. /\ Within(j, n, r.attempts) <=> Within(j, r, r.attempts)
      /\ Within(j, n, r.attempts + 1) <=> Within(j, r, r.attempts + 1)
  BY <1>1, SameWithin
<1>3. n.status = "RETRYABLE" => Within(j, r, r.attempts + 1)
  <2>1. r.attempts \in Nat /\ RetryCap(j, r, class) \in Nat BY CapNat DEF Row
  <2> QED BY <1>1, <2>1 DEF Within
<1>4. RowGood(j, n) BY <1>1, <1>2, <1>3 DEF RowGood
<1> QED BY <1>1, <1>4 DEF n

LEMMA RecoveredGood ==
  ASSUME NEW j \in Jobs, NEW r \in Row, RowGood(j, r), r.status = "RUNNING"
  PROVE  LET n == Recovered(j, r) IN
         /\ n.status \in {"RETRYABLE", "FAILED"} /\ n.lock = "none" /\ RowGood(j, n)
         /\ \A i \in Steps : n.steps[i] = "COMPLETED" <=> r.steps[i] = "COMPLETED"
<1> DEFINE q == [r EXCEPT !.steps = Restep(r, {"RUNNING"}, "FAILED")]
<1>1. Restep(r, {"RUNNING"}, "FAILED") \in [Steps -> StepStatuses]
  BY RestepType DEF StepStatuses
<1>2. q \in Row BY <1>1 DEF Row
<1>3. /\ q.status = r.status /\ q.attempts = r.attempts /\ q.max = r.max
      /\ q.due = r.due /\ q.by = r.by /\ q.lock = r.lock
      /\ q.steps = Restep(r, {"RUNNING"}, "FAILED")
  BY DEF Row
<1>4. \A i \in Steps : q.steps[i] = IF r.steps[i] = "RUNNING" THEN "FAILED" ELSE r.steps[i]
  BY <1>3 DEF Restep
<1>5. Recovered(j, r) = Outcome(j, q, "transient") BY DEF Recovered
<1> HIDE DEF q
<1>6. Within(j, q, r.attempts) <=> Within(j, r, r.attempts) BY <1>3, SameWithin
<1>7. RowGood(j, q) BY <1>3, <1>4, <1>6 DEF RowGood
<1>8. \A i \in Steps : q.steps[i] # "RUNNING" BY <1>4
<1>9. LET n == Outcome(j, q, "transient") IN
      /\ n.status \in {"RETRYABLE", "FAILED"} /\ n.lock = "none" /\ n.steps = q.steps
      /\ RowGood(j, n)
  BY <1>2, <1>7, <1>8, OutcomeGood DEF Failures
<1> QED BY <1>4, <1>5, <1>9

LEMMA ClaimedGood ==
  ASSUME Regime, NEW j \in Jobs, NEW r \in Row, RowGood(j, r),
         r.status \in {"QUEUED", "RETRYABLE"}, NEW w \in Workers
  PROVE  LET n == Claimed(r, w) IN
         /\ n \in Row /\ RowGood(j, n)
         /\ n.status = "RUNNING" /\ n.by = w /\ n.lock = "fresh"
         /\ \A i \in Steps : /\ n.steps[i] \in {"PENDING", "COMPLETED"}
                             /\ n.steps[i] = "COMPLETED" <=> r.steps[i] = "COMPLETED"
<1> DEFINE n == Claimed(r, w)
<1>1. /\ n.status = "RUNNING" /\ n.by = w /\ n.lock = "fresh" /\ n.due = TRUE
      /\ n.max = r.max /\ n.attempts = r.attempts + 1
      /\ n.steps = Restep(r, {"FAILED"}, "PENDING")
  BY DEF Claimed, Row
<1>2. \A i \in Steps : n.steps[i] = IF r.steps[i] = "FAILED" THEN "PENDING" ELSE r.steps[i]
  BY <1>1 DEF Restep
<1>3. n \in Row BY ClaimedType
<1> HIDE DEF n
<1>4. Within(j, n, n.attempts) <=> Within(j, r, r.attempts + 1)
  BY <1>1, SameWithin
<1>5. Within(j, r, r.attempts + 1)
  <2>1. CASE r.status = "RETRYABLE" BY <2>1 DEF RowGood
  <2>2. CASE r.status = "QUEUED"
    <3>1. r.attempts = 0 /\ r.max = MaxAttempts BY <2>2 DEF RowGood
    <3>2. 1 <= RetryCap(j, r, "transient")
      BY <3>1, QueueAssumption DEF RetryCap, Regime
    <3> QED BY <3>1, <3>2 DEF Within, Failures
  <2> QED BY <2>1, <2>2
<1>6. w # NoOne BY QueueAssumption
<1>7. RowGood(j, n) BY <1>1, <1>2, <1>4, <1>5, <1>6 DEF RowGood
<1> QED BY <1>1, <1>2, <1>3, <1>7, QueueAssumption DEF n, RowGood

-----------------------------------------------------------------------------
(***************************************************************************)
(* Whom a step disturbs.                                                   *)
(***************************************************************************)
Apart(w) ==
  \A v \in Workers \ {w} : /\ pc'[v] = pc[v] /\ task'[v] = task[v]
                           /\ view'[v] = view[v] /\ at'[v] = at[v]

\* The row of a job that somebody executes is the row of nobody else.
LEMMA Exclusive ==
  ASSUME ExecInv, NEW v \in Workers, NEW w \in Workers, NEW j, Works(v, j), Works(w, j)
  PROVE  v = w
BY DEF ExecInv, ExecGood, Works

\* A worker that stays where it is, its rows and copies too.
LEMMA Unmoved ==
  ASSUME TypeOK, ExecInv, NEW v \in Workers,
         pc'[v] = pc[v], task'[v] = task[v], view'[v] = view[v], at'[v] = at[v],
         \A j \in Jobs : Works(v, j) \/ Sweeping(v, j) => jobs'[j] = jobs[j],
         \A j \in Jobs, w \in Workers : Sweeping(v, j) => ~Works(w, j)'
  PROVE  ExecGood(v)' /\ SweepGood(v)'
<1>1. pc[v] \in Executing => task[v] \in Jobs /\ jobs'[task[v]] = jobs[task[v]]
  BY DEF TypeOK, Works
<1>2. ExecGood(v) /\ SweepGood(v) BY DEF ExecInv
<1>3. ExecGood(v)'
  <2>1. CASE pc[v] \in Executing
    <3>1. Reached(v, jobs[task[v]]) => Reached(v, jobs[task[v]])' BY <1>1, <2>1 DEF Reached
    <3> HIDE DEF Reached
    <3> QED BY <1>1, <1>2, <2>1, <3>1 DEF ExecGood
  <2>2. CASE pc[v] \notin Executing BY <1>2, <2>2 DEF ExecGood
  <2> QED BY <2>1, <2>2
<1>4. SweepGood(v)'
  <2>1. \A j \in Jobs : Sweeping(v, j)' <=> Sweeping(v, j) BY DEF Sweeping
  <2> QED BY <1>2, <2>1 DEF SweepGood
<1> QED BY <1>3, <1>4

\* w changes rows that nobody else executes or sweeps, and takes up no job that
\* somebody sweeps.
LEMMA Others ==
  ASSUME TypeOK, ExecInv, NEW w \in Workers, Apart(w), NEW S \in SUBSET Jobs,
         \A j \in Jobs \ S : jobs'[j] = jobs[j],
         \A j \in S : RowGood(j, jobs'[j]),
         \A j \in S, v \in Workers \ {w} : ~Works(v, j) /\ ~Sweeping(v, j),
         \A j \in Jobs, v \in Workers \ {w} : Works(w, j)' => Works(w, j) \/ ~Sweeping(v, j),
         ExecGood(w)', SweepGood(w)'
  PROVE  ExecInv'
<1>1. \A j \in Jobs : RowGood(j, jobs'[j]) BY DEF ExecInv
<1>2. ASSUME NEW v \in Workers, v # w PROVE ExecGood(v)' /\ SweepGood(v)'
  <2>1. /\ pc'[v] = pc[v] /\ task'[v] = task[v] /\ view'[v] = view[v] /\ at'[v] = at[v]
    BY <1>2 DEF Apart
  <2>2. \A j \in Jobs : Works(v, j) \/ Sweeping(v, j) => jobs'[j] = jobs[j]
    BY <1>2
  <2>3. ASSUME NEW j \in Jobs, NEW u \in Workers, Sweeping(v, j) PROVE ~Works(u, j)'
    <3>1. ~Works(u, j) BY <2>3 DEF ExecInv, SweepGood
    <3>2. CASE u = w BY <1>2, <2>3, <3>1, <3>2
    <3>3. CASE u # w BY <3>1, <3>3 DEF Apart, Works
    <3> QED BY <3>2, <3>3
  <2> QED BY <2>1, <2>2, <2>3, Unmoved
<1> HIDE DEF RowGood
<1>3. \A j \in Jobs : RowGood(j, jobs[j])' BY <1>1 DEF RowGood
<1> QED BY <1>2, <1>3 DEF ExecInv

\* A step of an executing worker on its own row.
LEMMA OwnRow ==
  ASSUME TypeOK, ExecInv, NEW w \in Workers, Apart(w), pc[w] \in Executing,
         \A j \in Jobs \ {task[w]} : jobs'[j] = jobs[j], RowGood(task[w], jobs'[task[w]]),
         \A j \in Jobs : Works(w, j)' => Works(w, j),
         ExecGood(w)', SweepGood(w)'
  PROVE  ExecInv'
<1>1. task[w] \in Jobs /\ Works(w, task[w]) BY DEF TypeOK, Works
<1>2. \A v \in Workers \ {w} : ~Works(v, task[w]) /\ ~Sweeping(v, task[w])
  BY <1>1, Exclusive DEF ExecInv, SweepGood
<1> DEFINE S == {task[w]}
<1>3. /\ S \in SUBSET Jobs /\ \A j \in Jobs \ S : jobs'[j] = jobs[j]
      /\ \A j \in S : RowGood(j, jobs'[j])
      /\ \A j \in S, v \in Workers \ {w} : ~Works(v, j) /\ ~Sweeping(v, j)
  BY <1>1, <1>2
<1> HIDE DEF S
<1> QED BY <1>3, Others

\* A worker ends its work.
LEMMA Ends ==
  ASSUME TypeOK, NEW w \in Workers,
         NEW label \in {"poll", "ready", "raised", "down", "dead"}, EndWork(w, label)
  PROVE  /\ Apart(w) /\ ExecGood(w)' /\ SweepGood(w)' /\ pc'[w] = label
         /\ \A j : ~Works(w, j)'
<1>1. pc'[w] = label /\ at'[w] = 1 /\ Apart(w)
  BY DEF EndWork, Goto, Forget, TypeOK, Sessions, Apart
<1> QED BY <1>1 DEF ExecGood, SweepGood, Sweeping, Works, Executing

-----------------------------------------------------------------------------
(***************************************************************************)
(* What the rows show of JobLifecycle.                                     *)
(***************************************************************************)
LifeStep == Lifecycle!Next \/ UNCHANGED Lifecycle!lifecycle

SameDone(r, q) == \A i \in Steps : q.steps[i] = "COMPLETED" <=> r.steps[i] = "COMPLETED"

SameLife(r, q) ==
  /\ q.status = r.status /\ SameDone(r, q)
  /\ r.status = "RUNNING" => q.by = r.by

LEMMA Stutters ==
  ASSUME \A j \in Jobs : SameLife(jobs[j], jobs'[j]) PROVE LifeStep
BY DEF LifeStep, Lifecycle!lifecycle, SameLife, SameDone

LEMMA Progresses ==
  ASSUME NEW j \in Jobs, NEW i \in Steps, jobs[j].status = "RUNNING",
         jobs[j].steps[i] # "COMPLETED", jobs'[j].steps[i] = "COMPLETED",
         \A k \in Steps \ {i} : jobs'[j].steps[k] = jobs[j].steps[k],
         jobs'[j].status = "RUNNING", jobs'[j].by = jobs[j].by,
         \A k \in Jobs \ {j} : jobs'[k] = jobs[k]
  PROVE  LifeStep
<1> DEFINE st(J) == [k \in Jobs |-> J[k].status]
           ho(J) == [k \in Jobs |-> IF J[k].status = "RUNNING" THEN J[k].by ELSE NoOne]
           do(J) == [k \in Jobs |-> {n \in Steps : J[k].steps[n] = "COMPLETED"}]
<1>1. st(jobs') = st(jobs) /\ ho(jobs') = ho(jobs) OBVIOUS
<1>2. do(jobs') = [do(jobs) EXCEPT ![j] = @ \cup {i}]
  <2>1. {n \in Steps : jobs'[j].steps[n] = "COMPLETED"}
        = {n \in Steps : jobs[j].steps[n] = "COMPLETED"} \cup {i}
    OBVIOUS
  <2>2. ASSUME NEW k \in Jobs \ {j}
        PROVE  {n \in Steps : jobs'[k].steps[n] = "COMPLETED"}
               = {n \in Steps : jobs[k].steps[n] = "COMPLETED"}
    OBVIOUS
  <2>3. \A k \in Jobs : do(jobs')[k] = IF k = j THEN do(jobs)[j] \cup {i} ELSE do(jobs)[k]
    BY <2>1, <2>2
  <2> QED BY <2>3
<1>3. st(jobs)[j] = "RUNNING" /\ i \notin do(jobs)[j] OBVIOUS
<1>4. Lifecycle!Progress(j, i)
  BY <1>1, <1>2, <1>3 DEF Lifecycle!Progress, Lifecycle!Held
<1> QED BY <1>4 DEF LifeStep, Lifecycle!Next

LEMMA GivesUp ==
  ASSUME NEW S \in SUBSET Jobs,
         \A j \in S : /\ jobs[j].status = "RUNNING"
                      /\ jobs'[j].status \in {"RETRYABLE", "FAILED"}
                      /\ SameDone(jobs[j], jobs'[j]),
         \A j \in Jobs \ S : jobs'[j] = jobs[j]
  PROVE  LifeStep
<1> DEFINE st(J) == [k \in Jobs |-> J[k].status]
           ho(J) == [k \in Jobs |-> IF J[k].status = "RUNNING" THEN J[k].by ELSE NoOne]
           do(J) == [k \in Jobs |-> {n \in Steps : J[k].steps[n] = "COMPLETED"}]
           to == [j \in S |-> jobs'[j].status]
<1>1. to \in [S -> {"RETRYABLE", "FAILED"}] OBVIOUS
<1>2. st(jobs') = [j \in Jobs |-> IF j \in S THEN to[j] ELSE st(jobs)[j]] OBVIOUS
<1>3. ho(jobs') = [j \in Jobs |-> IF j \in S THEN NoOne ELSE ho(jobs)[j]] OBVIOUS
<1>4. do(jobs') = do(jobs) BY DEF SameDone
<1>5. S \in SUBSET {j \in Jobs : st(jobs)[j] = "RUNNING"} OBVIOUS
<1> HIDE DEF to
<1>6. Lifecycle!GiveUp
  BY <1>1, <1>2, <1>3, <1>4, <1>5 DEF Lifecycle!GiveUp, Lifecycle!Held
<1> QED BY <1>6 DEF LifeStep, Lifecycle!Next

LEMMA Completes ==
  ASSUME NEW j \in Jobs, jobs[j].status = "RUNNING", jobs'[j].status = "COMPLETED",
         \A i \in Steps : jobs[j].steps[i] = "COMPLETED" /\ jobs'[j].steps[i] = "COMPLETED",
         \A k \in Jobs \ {j} : jobs'[k] = jobs[k]
  PROVE  LifeStep
<1> DEFINE st(J) == [k \in Jobs |-> J[k].status]
           ho(J) == [k \in Jobs |-> IF J[k].status = "RUNNING" THEN J[k].by ELSE NoOne]
           do(J) == [k \in Jobs |-> {n \in Steps : J[k].steps[n] = "COMPLETED"}]
<1>1. st(jobs') = [st(jobs) EXCEPT ![j] = "COMPLETED"] OBVIOUS
<1>2. ho(jobs') = [ho(jobs) EXCEPT ![j] = NoOne] OBVIOUS
<1>3. do(jobs') = do(jobs) OBVIOUS
<1>4. st(jobs)[j] = "RUNNING" /\ do(jobs)[j] = Steps OBVIOUS
<1>5. Lifecycle!Complete(j)
  BY <1>1, <1>2, <1>3, <1>4 DEF Lifecycle!Complete, Lifecycle!Held
<1> QED BY <1>5 DEF LifeStep, Lifecycle!Next

LEMMA Takes ==
  ASSUME NEW j \in Jobs, NEW w \in Workers, jobs[j].status \in {"QUEUED", "RETRYABLE"},
         jobs'[j].status = "RUNNING", jobs'[j].by = w, SameDone(jobs[j], jobs'[j]),
         \A k \in Jobs \ {j} : jobs'[k] = jobs[k]
  PROVE  LifeStep
<1> DEFINE st(J) == [k \in Jobs |-> J[k].status]
           ho(J) == [k \in Jobs |-> IF J[k].status = "RUNNING" THEN J[k].by ELSE NoOne]
           do(J) == [k \in Jobs |-> {n \in Steps : J[k].steps[n] = "COMPLETED"}]
<1>1. st(jobs') = [st(jobs) EXCEPT ![j] = "RUNNING"] OBVIOUS
<1>2. ho(jobs') = [ho(jobs) EXCEPT ![j] = w] OBVIOUS
<1>3. do(jobs') = do(jobs) BY DEF SameDone
<1>4. st(jobs)[j] \in {"QUEUED", "RETRYABLE"} OBVIOUS
<1>5. Lifecycle!Take(j, w)
  BY <1>1, <1>2, <1>3, <1>4 DEF Lifecycle!Take
<1> QED BY <1>5 DEF LifeStep, Lifecycle!Next

-----------------------------------------------------------------------------
(***************************************************************************)
(* One lemma per kind of step.                                             *)
(***************************************************************************)

\* A worker that neither starts nor finishes anything in the tables.
LEMMA KeepsExec ==
  ASSUME TypeOK, ExecInv, NEW w \in Workers, Apart(w), jobs' = jobs,
         \A j \in Jobs : Works(w, j)' => Works(w, j), ExecGood(w)', SweepGood(w)'
  PROVE  ExecInv' /\ LifeStep
<1>1. ExecInv'
  <2> DEFINE S == {}
  <2>1. S \in SUBSET Jobs OBVIOUS
  <2> QED BY <2>1, Others
<1>2. LifeStep BY Stutters DEF SameLife, SameDone
<1> QED BY <1>1, <1>2

LEMMA Quits ==
  ASSUME TypeOK, ExecInv, NEW w \in Workers, UNCHANGED jobs,
         NEW label \in {"poll", "ready", "raised", "down", "dead"}, EndWork(w, label)
  PROVE  ExecInv' /\ LifeStep
BY Ends, KeepsExec

\* An attempt fails, and the row is given up for it.
LEMMA Fails ==
  ASSUME TypeOK, ExecInv, NEW w \in Workers, pc[w] \in {"start", "settle"},
         NEW q \in Row, RowGood(task[w], q), SameDone(view[w][task[w]], q),
         \A i \in Steps : q.steps[i] # "RUNNING", NEW class \in Failures \cup {"binding"},
         Commit(w, task[w], Outcome(task[w], q, class)), EndWork(w, "poll")
  PROVE  ExecInv' /\ LifeStep
<1> DEFINE j == task[w]
           n == Outcome(j, q, class)
<1>1. /\ w \in Sessions /\ j \in Jobs /\ pc[w] \in Executing
      /\ jobs \in [Jobs -> Row] /\ view[w][j] \in Row
  BY DEF TypeOK, Sessions, Executing
<1>2. Alike(view[w][j], jobs[j]) /\ jobs[j].status = "RUNNING"
  BY <1>1 DEF ExecInv, ExecGood
<1>3. /\ n \in Row /\ RowGood(j, n) /\ n.status \in {"RETRYABLE", "FAILED"}
      /\ n.lock = "none" /\ n.steps = q.steps
  BY <1>1, OutcomeGood, OutcomeType
<1> HIDE DEF n
<1>4. Flush(jobs[j], view[w][j], n) = n BY <1>1, <1>2, <1>3, FlushAlike
<1>5. jobs' = [jobs EXCEPT ![j] = n] BY <1>4 DEF Commit, n
<1>6. jobs'[j] = n /\ \A k \in Jobs \ {j} : jobs'[k] = jobs[k] BY <1>1, <1>5
<1>7. ExecInv'
  <2>1. RowGood(j, jobs'[j]) BY <1>3, <1>6
  <2> QED BY <1>1, <1>6, <2>1, Ends, OwnRow
<1>8. LifeStep
  <2> DEFINE S == {j}
  <2>1. SameDone(jobs[j], n) BY <1>2, <1>3 DEF SameDone, Alike
  <2>2. /\ S \in SUBSET Jobs /\ \A k \in Jobs \ S : jobs'[k] = jobs[k]
        /\ \A k \in S : /\ jobs[k].status = "RUNNING"
                        /\ jobs'[k].status \in {"RETRYABLE", "FAILED"}
                        /\ SameDone(jobs[k], jobs'[k])
    BY <1>1, <1>2, <1>3, <1>6, <2>1
  <2> HIDE DEF S
  <2> QED BY <2>2, GivesUp
<1> QED BY <1>7, <1>8

\* w goes on with its job; its row stays or gets a step in another status.
LEMMA StaysAtWork ==
  ASSUME TypeOK, ExecInv, NEW w \in Workers, pc[w] \in Executing, pc'[w] \in Executing,
         Apart(w), task'[w] = task[w],
         \A k \in Jobs \ {task[w]} : jobs'[k] = jobs[k],
         RowGood(task[w], jobs'[task[w]]), ExecGood(w)'
  PROVE  ExecInv'
<1>1. SweepGood(w)' BY DEF SweepGood, Sweeping, Executing
<1>2. \A k \in Jobs : Works(w, k)' => Works(w, k) BY DEF Works
<1> QED BY <1>1, <1>2, OwnRow

\* A commit of a step of the row from a copy that is the row.
LEMMA CommitsStep ==
  ASSUME TypeOK, ExecInv, NEW w \in Workers, pc[w] \in {"mark", "settle"},
         NEW to \in {"RUNNING", "COMPLETED"},
         Commit(w, task[w], WithStep(view[w][task[w]], at[w], to))
  PROVE  LET j == task[w] IN
         /\ j \in Jobs /\ RowGood(j, jobs'[j]) /\ jobs'[j] \in Row
         /\ \A k \in Jobs \ {j} : jobs'[k] = jobs[k]
         /\ jobs'[j].status = "RUNNING" /\ jobs'[j].by = w
         /\ jobs'[j].lock = jobs[j].lock /\ jobs'[j].steps[at[w]] = to
         /\ \A i \in Steps \ {at[w]} : jobs'[j].steps[i] = jobs[j].steps[i]
<1> DEFINE j == task[w]
           q == view[w][j]
           n == WithStep(q, at[w], to)
<1>1. /\ w \in Sessions /\ j \in Jobs /\ pc[w] \in Executing /\ at[w] \in Steps
      /\ jobs \in [Jobs -> Row] /\ q \in Row /\ jobs[j] \in Row
  BY DEF TypeOK, Sessions, Executing
<1>2. /\ Alike(q, jobs[j]) /\ jobs[j].status = "RUNNING" /\ jobs[j].by = w
      /\ RowGood(j, jobs[j])
  BY <1>1 DEF ExecInv, ExecGood
<1>3. RowGood(j, q) /\ q.status = "RUNNING" BY <1>2, AlikeGood DEF Alike
<1>4. /\ n.status = q.status /\ n.by = q.by /\ n.lock = q.lock
      /\ n.steps[at[w]] = to /\ \A i \in Steps \ {at[w]} : n.steps[i] = q.steps[i]
  BY <1>1, WithStepFields
<1>5. RowGood(j, n) BY <1>1, <1>3, SteppedGood
<1>6. n \in Row BY <1>1, WithStepType DEF StepStatuses
<1> HIDE DEF n
<1>7. Flush(jobs[j], q, n) = [n EXCEPT !.lock = jobs[j].lock]
  BY <1>1, <1>2, <1>4, <1>6, FlushAlike
<1> DEFINE m == [n EXCEPT !.lock = jobs[j].lock]
<1>8. m \in Row /\ Alike(m, n) /\ m.lock = jobs[j].lock
  BY <1>1, <1>2, <1>4, <1>6 DEF Row, Alike
<1>9. jobs' = [jobs EXCEPT ![j] = m] BY <1>7 DEF Commit, n
<1> HIDE DEF m
<1>10. RowGood(j, m) BY <1>5, <1>8, AlikeGood
<1>11. /\ m.status = "RUNNING" /\ m.by = w /\ m.steps[at[w]] = to
       /\ \A i \in Steps \ {at[w]} : m.steps[i] = jobs[j].steps[i]
  BY <1>2, <1>4, <1>8 DEF Alike
<1>12. jobs'[j] = m /\ \A k \in Jobs \ {j} : jobs'[k] = jobs[k] BY <1>1, <1>9
<1> QED BY <1>1, <1>8, <1>10, <1>11, <1>12

\* After its step the worker is at the next one, or past the last.
LEMMA Advances ==
  ASSUME TypeOK, NEW w \in Workers, pc[w] \in Executing, NextStep(w),
         UNCHANGED task, NEW r, NEW q, r.steps[at[w]] = "COMPLETED",
         \A i \in Steps \ {at[w]} : /\ r.steps[i] = q.steps[i]
                                    /\ q.steps[i] \in {"PENDING", "COMPLETED"},
         \A i \in Steps : i < at[w] => q.steps[i] = "COMPLETED"
  PROVE  /\ Apart(w) /\ pc'[w] \in {"head", "finish"} /\ task'[w] = task[w]
         /\ at'[w] \in Steps
         /\ \A i \in Steps : i < at'[w] \/ pc'[w] = "finish" => r.steps[i] = "COMPLETED"
         /\ \A i \in Steps : r.steps[i] \in {"PENDING", "COMPLETED"}
<1>1. /\ w \in Sessions /\ at[w] \in Steps /\ NSteps \in Nat
      /\ at'[w] = IF at[w] = NSteps THEN at[w] ELSE at[w] + 1
      /\ pc'[w] = IF at[w] = NSteps THEN "finish" ELSE "head"
      /\ Apart(w)
  BY QueueAssumption DEF TypeOK, Sessions, NextStep, Goto, Forget, Apart
<1>2. \A i \in Steps : r.steps[i] \in {"PENDING", "COMPLETED"} OBVIOUS
<1>3. \A i \in Steps : i <= at[w] => r.steps[i] = "COMPLETED"
  BY <1>1 DEF Steps
<1>4. at'[w] \in Steps BY <1>1 DEF Steps
<1>5. ASSUME NEW i \in Steps, i < at'[w] \/ pc'[w] = "finish" PROVE i <= at[w]
  BY <1>1, <1>5 DEF Steps
<1> QED BY <1>1, <1>2, <1>3, <1>4, <1>5

\* What an executing worker may rely on.
LEMMA AtWork ==
  ASSUME TypeOK, ExecInv, NEW w \in Workers, pc[w] \in Executing
  PROVE  LET j == task[w] IN
         /\ w \in Sessions /\ j \in Jobs /\ at[w] \in Steps
         /\ jobs \in [Jobs -> Row] /\ view \in [Sessions -> [Jobs -> Row]]
         /\ jobs[j] \in Row /\ view[w][j] \in Row
         /\ pc[w] # "abort" /\ jobs[j].status = "RUNNING" /\ jobs[j].by = w
         /\ jobs[j].lock # "none" /\ (HeartbeatReliable => jobs[j].lock = "fresh")
         /\ Reached(w, jobs[j]) /\ RowGood(j, jobs[j])
         /\ pc[w] \in {"start", "mark", "settle", "complete"} => Alike(view[w][j], jobs[j])
<1>1. w \in Sessions /\ task[w] \in Jobs BY DEF TypeOK, Sessions
<1>2. ExecGood(w) /\ RowGood(task[w], jobs[task[w]]) BY <1>1 DEF ExecInv
<1>3. jobs[task[w]].lock # "none" BY <1>2 DEF ExecGood, RowGood
<1> QED BY <1>1, <1>2, <1>3 DEF ExecGood, TypeOK

LEMMA PreflightKeeps ==
  ASSUME TypeOK, ExecInv, NEW w \in Workers, Preflight(w) PROVE ExecInv' /\ LifeStep
<1> DEFINE j == task[w]
           r == view[w][j]
           open == {i \in Steps : r.steps[i] \in {"PENDING", "RUNNING"}}
           ss == [i \in Steps |-> IF i \in open /\ \A k \in open : i <= k
                                 THEN "FAILED" ELSE r.steps[i]]
           q == [r EXCEPT !.steps = ss]
<1>1. pc[w] = "start" /\ pc[w] \in Executing BY DEF Preflight, Executing
<1>2. /\ w \in Sessions /\ j \in Jobs /\ at[w] \in Steps /\ r \in Row
      /\ RowGood(j, jobs[j]) /\ Alike(r, jobs[j]) /\ Reached(w, jobs[j])
      /\ jobs[j].status = "RUNNING" /\ jobs[j].by = w
      /\ HeartbeatReliable => jobs[j].lock = "fresh"
  BY <1>1, AtWork
<1>3. CASE Goto(w, "head") /\ UNCHANGED <<jobs, task, at, view, result>>
  <2>1. pc'[w] = "head" /\ Apart(w) BY <1>2, <1>3 DEF Goto, Apart, TypeOK, Sessions
  <2>2. Reached(w, jobs[j]) => Reached(w, jobs[j])' BY <1>1, <1>3, <2>1 DEF Reached
  <2> HIDE DEF Reached
  <2>3. ExecGood(w)' BY <1>2, <1>3, <2>1, <2>2 DEF ExecGood, Executing
  <2>4. SweepGood(w)' BY <2>1 DEF SweepGood, Sweeping
  <2>5. \A k \in Jobs : Works(w, k)' => Works(w, k) BY <1>1, <1>3 DEF Works
  <2> QED BY <1>3, <2>1, <2>3, <2>4, <2>5, KeepsExec
<1>4. CASE Raise(w) BY <1>4, Quits DEF Raise
<1>5. ASSUME NEW class \in {"binding", "transient"}, Commit(w, j, Outcome(j, q, class)),
             EndWork(w, "poll")
      PROVE  ExecInv' /\ LifeStep
  <2>1. ss \in [Steps -> StepStatuses] BY <1>2 DEF Row, StepStatuses
  <2>2. \A i \in Steps : r.steps[i] \in {"PENDING", "COMPLETED"}
    BY <1>1, <1>2 DEF Reached, Alike
  <2>3. \A i \in Steps : ss[i] \in {r.steps[i], "FAILED"} /\ (ss[i] = "FAILED" => r.steps[i] = "PENDING")
    BY <2>2
  <2> HIDE DEF ss
  <2>4. /\ q \in Row /\ q.steps = ss /\ q.status = r.status /\ q.attempts = r.attempts
        /\ q.max = r.max /\ q.due = r.due /\ q.by = r.by /\ q.lock = r.lock
    BY <1>2, <2>1 DEF Row
  <2> HIDE DEF q
  <2>5. RowGood(j, r) BY <1>2, AlikeGood
  <2>6. Within(j, q, r.attempts) <=> Within(j, r, r.attempts) BY <2>4, SameWithin
  <2>7. r.status = "RUNNING" BY <1>2 DEF Alike
  <2>8. RowGood(j, q) BY <2>2, <2>3, <2>4, <2>5, <2>6, <2>7 DEF RowGood
  <2>9. SameDone(r, q) /\ \A i \in Steps : q.steps[i] # "RUNNING"
    BY <2>2, <2>3, <2>4 DEF SameDone
  <2> QED BY <1>1, <1>5, <2>4, <2>8, <2>9, Fails DEF Failures
<1> QED BY <1>3, <1>4, <1>5 DEF Preflight

\* The row is loaded again and the worker goes on.
LEMMA Reloads ==
  ASSUME TypeOK, ExecInv, NEW w \in Workers, pc[w] \in Executing \ {"run", "settle"},
         Load(w, {task[w]}), UNCHANGED <<jobs, task, at>>,
         NEW label \in {"mark", "complete"}, Goto(w, label),
         label = "complete" <=> pc[w] = "finish", pc[w] # "complete"
  PROVE  ExecInv' /\ LifeStep
<1> DEFINE j == task[w]
<1>1. /\ w \in Sessions /\ j \in Jobs /\ jobs[j].status = "RUNNING" /\ jobs[j].by = w
      /\ jobs[j].lock # "none" /\ (HeartbeatReliable => jobs[j].lock = "fresh")
      /\ Reached(w, jobs[j]) /\ view \in [Sessions -> [Jobs -> Row]]
  BY AtWork
<1>2. pc'[w] = label /\ Apart(w) /\ view'[w][j] = jobs[j]
  BY <1>1 DEF Goto, Load, Apart, TypeOK, Sessions
<1>3. Reached(w, jobs[j])' BY <1>1, <1>2 DEF Reached
<1>4. Alike(view'[w][j], jobs[j]) BY <1>1, <1>2 DEF Alike
<1>5. ExecGood(w)' BY <1>1, <1>2, <1>3, <1>4 DEF ExecGood, Executing
<1>6. SweepGood(w)' BY <1>2 DEF SweepGood, Sweeping
<1>7. \A k \in Jobs : Works(w, k)' => Works(w, k) BY DEF Works
<1> QED BY <1>2, <1>5, <1>6, <1>7, KeepsExec

LEMMA HeadKeeps ==
  ASSUME TypeOK, ExecInv, NEW w \in Workers, StepHead(w) \/ FinishRead(w)
  PROVE  ExecInv' /\ LifeStep
<1>1. pc[w] \in {"head", "finish"} /\ pc[w] \in Executing /\ UNCHANGED jobs
  BY DEF StepHead, FinishRead, Executing
<1>2. jobs[task[w]].status = "RUNNING" BY <1>1, AtWork
<1>3. CASE EndWork(w, "raised") BY <1>1, <1>3, Quits
<1>4. CASE StepHead(w) /\ ~EndWork(w, "raised")
  <2>1. pc[w] = "head" /\ Load(w, {task[w]}) /\ Goto(w, "mark") /\ UNCHANGED <<task, at>>
    BY <1>2, <1>4 DEF StepHead, Refresh
  <2> QED BY <1>1, <2>1, Reloads
<1>5. CASE FinishRead(w) /\ ~EndWork(w, "raised")
  <2>1. pc[w] = "finish" /\ Load(w, {task[w]}) /\ Goto(w, "complete") /\ UNCHANGED <<task, at>>
    BY <1>5 DEF FinishRead
  <2> QED BY <1>1, <2>1, Reloads
<1> QED BY <1>3, <1>4, <1>5

\* After NextStep, when the step the worker was at is done.
LEMMA NextKeeps ==
  ASSUME TypeOK, ExecInv, NEW w \in Workers, pc[w] \in {"mark", "settle"},
         NextStep(w), UNCHANGED task,
         \A k \in Jobs \ {task[w]} : jobs'[k] = jobs[k],
         RowGood(task[w], jobs'[task[w]]),
         jobs'[task[w]].status = "RUNNING", jobs'[task[w]].by = w,
         jobs'[task[w]].lock = jobs[task[w]].lock,
         jobs'[task[w]].steps[at[w]] = "COMPLETED",
         \A i \in Steps \ {at[w]} : jobs'[task[w]].steps[i] = jobs[task[w]].steps[i]
  PROVE  ExecInv'
<1> DEFINE j == task[w]
           r == jobs'[j]
           q == jobs[j]
<1>1. /\ pc[w] \in Executing /\ j \in Jobs /\ Reached(w, q)
      /\ HeartbeatReliable => q.lock = "fresh"
  BY AtWork DEF Executing
<1>2. /\ \A i \in Steps : i < at[w] => q.steps[i] = "COMPLETED"
      /\ \A i \in Steps \ {at[w]} : q.steps[i] \in {"PENDING", "COMPLETED"}
  BY <1>1 DEF Reached
<1> HIDE DEF r, q
<1>3. /\ Apart(w) /\ pc'[w] \in {"head", "finish"} /\ at'[w] \in Steps
      /\ \A i \in Steps : i < at'[w] \/ pc'[w] = "finish" => r.steps[i] = "COMPLETED"
      /\ \A i \in Steps : r.steps[i] \in {"PENDING", "COMPLETED"}
  BY <1>1, <1>2, Advances DEF r, q
<1>4. Reached(w, jobs[task[w]])' BY <1>3 DEF Reached, r
<1>5. ExecGood(w)' BY <1>1, <1>3, <1>4 DEF ExecGood, Executing, q
<1> QED BY <1>1, <1>3, <1>5, StaysAtWork DEF Executing

LEMMA StepStartKeeps ==
  ASSUME TypeOK, ExecInv, NEW w \in Workers, StepStart(w) PROVE ExecInv' /\ LifeStep
<1> DEFINE j == task[w]
           r == view[w][j]
           i == at[w]
<1>1. pc[w] = "mark" /\ pc[w] \in Executing BY DEF StepStart, Executing
<1>2. /\ w \in Sessions /\ j \in Jobs /\ i \in Steps /\ Alike(r, jobs[j])
      /\ jobs[j].status = "RUNNING" /\ jobs[j].by = w /\ jobs[j] \in Row
      /\ HeartbeatReliable => jobs[j].lock = "fresh"
      /\ Reached(w, jobs[j]) /\ RowGood(j, jobs[j])
      /\ view \in [Sessions -> [Jobs -> Row]]
  BY <1>1, AtWork
<1>3. r.steps[i] \in {"PENDING", "COMPLETED"} /\ r.steps = jobs[j].steps
  BY <1>1, <1>2 DEF Reached, Alike
<1>4. CASE NextStep(w) /\ UNCHANGED <<jobs, task, result>> /\ r.steps[i] = "COMPLETED"
  <2>1. ExecInv' BY <1>1, <1>2, <1>3, <1>4, NextKeeps
  <2>2. LifeStep BY <1>4, Stutters DEF SameLife, SameDone
  <2> QED BY <2>1, <2>2
<1>5. CASE Raise(w) BY <1>5, Quits DEF Raise
<1>6. CASE /\ r.steps[i] = "PENDING" /\ Commit(w, j, WithStep(r, i, "RUNNING"))
           /\ view' = [view EXCEPT ![w][j] = jobs'[j]]
           /\ Goto(w, "run") /\ UNCHANGED <<task, at, result>>
  <2>1. /\ RowGood(j, jobs'[j]) /\ \A k \in Jobs \ {j} : jobs'[k] = jobs[k]
        /\ jobs'[j].status = "RUNNING" /\ jobs'[j].by = w
        /\ jobs'[j].lock = jobs[j].lock /\ jobs'[j].steps[i] = "RUNNING"
        /\ \A k \in Steps \ {i} : jobs'[j].steps[k] = jobs[j].steps[k]
    BY <1>1, <1>6, CommitsStep
  <2>2. pc'[w] = "run" /\ Apart(w)
    BY <1>2, <1>6 DEF Goto, Apart, TypeOK, Sessions
  <2>3. Reached(w, jobs[j])' BY <1>1, <1>2, <1>6, <2>1, <2>2 DEF Reached, Steps
  <2>4. ExecGood(w)' BY <1>2, <1>6, <2>1, <2>2, <2>3 DEF ExecGood, Executing
  <2>5. ExecInv' BY <1>1, <1>6, <2>1, <2>2, <2>4, StaysAtWork DEF Executing
  <2>6. \A k \in Jobs : SameLife(jobs[k], jobs'[k])
    <3>1. SameDone(jobs[j], jobs'[j]) BY <1>3, <1>6, <2>1 DEF SameDone
    <3>2. SameLife(jobs[j], jobs'[j]) BY <1>2, <2>1, <3>1 DEF SameLife
    <3> QED BY <2>1, <3>2 DEF SameLife, SameDone
  <2> QED BY <2>5, <2>6, Stutters
<1> QED BY <1>3, <1>4, <1>5, <1>6 DEF StepStart

LEMMA HandlerKeeps ==
  ASSUME Regime, TypeOK, ExecInv, NEW w \in Workers, HandlerReturns(w)
  PROVE  ExecInv' /\ LifeStep
<1> DEFINE j == task[w]
           i == at[w]
<1>1. pc[w] = "run" /\ pc[w] \in Executing BY DEF HandlerReturns, Executing
<1>2. /\ w \in Sessions /\ j \in Jobs /\ i \in Steps
      /\ jobs[j].status = "RUNNING" /\ jobs[j].by = w /\ jobs[j].lock # "none"
      /\ HeartbeatReliable => jobs[j].lock = "fresh"
      /\ Reached(w, jobs[j]) /\ jobs[j] \in Row
      /\ view \in [Sessions -> [Jobs -> Row]]
  BY <1>1, AtWork
<1>3. jobs[j].steps[i] = "RUNNING" BY <1>1, <1>2 DEF Reached
<1>4. PICK seen \in {"RUNNING", jobs[j].steps[i]} :
        /\ view' = [view EXCEPT ![w] = [NoView EXCEPT ![j] = WithStep(jobs[j], i, seen)]]
        /\ Goto(w, "settle") /\ UNCHANGED <<jobs, task, at>>
  BY <1>2 DEF HandlerReturns, Regime
<1>5. pc'[w] = "settle" /\ Apart(w) BY <1>2, <1>4 DEF Goto, Apart, TypeOK, Sessions
<1>6. WithStep(jobs[j], i, "RUNNING") = jobs[j] BY <1>2, <1>3 DEF WithStep, Row
<1>7. view'[w][j] = jobs[j]
  <2>1. NoView \in [Jobs -> Row] BY NewRowType
  <2> QED BY <1>2, <1>3, <1>4, <1>6, <2>1
<1>8. Reached(w, jobs[j])' BY <1>1, <1>2, <1>4, <1>5 DEF Reached
<1>9. Alike(view'[w][j], jobs[j]) BY <1>2, <1>7 DEF Alike
<1>10. ExecGood(w)' BY <1>2, <1>4, <1>5, <1>8, <1>9 DEF ExecGood, Executing
<1>11. SweepGood(w)' BY <1>5 DEF SweepGood, Sweeping
<1>12. \A k \in Jobs : Works(w, k)' => Works(w, k) BY <1>1, <1>4 DEF Works
<1> QED BY <1>4, <1>5, <1>10, <1>11, <1>12, KeepsExec

LEMMA SettleKeeps ==
  ASSUME TypeOK, NoReview, ExecInv, NEW w \in Workers, SettleStep(w)
  PROVE  ExecInv' /\ LifeStep
<1> DEFINE j == task[w]
           r == view[w][j]
           i == at[w]
<1>1. pc[w] = "settle" /\ pc[w] \in Executing BY DEF SettleStep, Executing
<1>2. /\ w \in Sessions /\ j \in Jobs /\ i \in Steps /\ Alike(r, jobs[j])
      /\ jobs[j].status = "RUNNING" /\ jobs[j].by = w /\ jobs[j] \in Row
      /\ Reached(w, jobs[j]) /\ RowGood(j, jobs[j]) /\ r \in Row
      /\ result[w] \in Results \ {"input"}
  BY <1>1, AtWork DEF TypeOK, NoReview
<1>3. /\ jobs[j].steps[i] = "RUNNING" /\ r.steps = jobs[j].steps /\ r.status = "RUNNING"
      /\ \A k \in Steps \ {i} : r.steps[k] \in {"PENDING", "COMPLETED"}
  BY <1>1, <1>2 DEF Reached, Alike
<1>4. CASE Raise(w) BY <1>4, Quits DEF Raise
<1>5. CASE /\ Commit(w, j, WithStep(r, i, "COMPLETED"))
           /\ NextStep(w) /\ UNCHANGED <<task, result>>
  <2>1. /\ RowGood(j, jobs'[j]) /\ \A k \in Jobs \ {j} : jobs'[k] = jobs[k]
        /\ jobs'[j].status = "RUNNING" /\ jobs'[j].by = w
        /\ jobs'[j].lock = jobs[j].lock /\ jobs'[j].steps[i] = "COMPLETED"
        /\ \A k \in Steps \ {i} : jobs'[j].steps[k] = jobs[j].steps[k]
    BY <1>1, <1>5, CommitsStep
  <2>2. ExecInv' BY <1>1, <1>5, <2>1, NextKeeps
  <2>3. LifeStep BY <1>2, <1>3, <2>1, Progresses
  <2> QED BY <2>2, <2>3
<1>6. CASE /\ result[w] \in Failures
           /\ Commit(w, j, Outcome(j, WithStep(r, i, "FAILED"), result[w]))
           /\ EndWork(w, "poll")
  <2> DEFINE q == WithStep(r, i, "FAILED")
  <2>1. q \in Row BY <1>2, WithStepType DEF StepStatuses
  <2>2. RowGood(j, r) BY <1>2, AlikeGood
  <2>3. RowGood(j, q) BY <1>2, <1>3, <2>2, SteppedGood
  <2>4. q.steps[i] = "FAILED" /\ \A k \in Steps \ {i} : q.steps[k] = r.steps[k]
    BY <1>2, WithStepFields
  <2> HIDE DEF q
  <2>5. SameDone(r, q) /\ \A k \in Steps : q.steps[k] # "RUNNING"
    BY <1>3, <2>4 DEF SameDone
  <2> QED BY <1>1, <1>6, <2>1, <2>3, <2>5, Fails DEF q
<1>7. CASE result[w] = "ok"
  BY <1>4, <1>5, <1>7 DEF SettleStep, SettleWith, Stepped
<1>8. CASE result[w] \in Failures
  BY <1>4, <1>6, <1>8 DEF SettleStep, SettleWith, Stepped, Failures
<1> QED BY <1>2, <1>7, <1>8 DEF Results

LEMMA LastKeeps ==
  ASSUME TypeOK, ExecInv, NEW w \in Workers, CompleteJob(w) \/ AbortCancelled(w)
  PROVE  ExecInv' /\ LifeStep
<1> DEFINE j == task[w]
           r == view[w][j]
           n == [Unlocked(r) EXCEPT !.status = "COMPLETED"]
<1>1. pc[w] \in {"complete", "abort"} /\ pc[w] \in Executing
  BY DEF CompleteJob, AbortCancelled, Executing
<1>2. /\ pc[w] = "complete" /\ j \in Jobs /\ Alike(r, jobs[j]) /\ RowGood(j, jobs[j])
      /\ jobs[j].status = "RUNNING" /\ jobs[j] \in Row /\ r \in Row
      /\ jobs \in [Jobs -> Row] /\ Reached(w, jobs[j])
  BY <1>1, AtWork
<1>3. \A i \in Steps : jobs[j].steps[i] = "COMPLETED" BY <1>2 DEF Reached
<1>4. CASE Raise(w) BY <1>4, Quits DEF Raise
<1>5. CASE Commit(w, j, n) /\ EndWork(w, "poll")
  <2>1. /\ n \in Row /\ n.status = "COMPLETED" /\ n.lock = "none" /\ n.steps = r.steps
        /\ n.attempts = r.attempts /\ n.max = r.max
    BY <1>2 DEF Unlocked, Row, JobStatuses
  <2>2. RowGood(j, r) BY <1>2, AlikeGood
  <2> HIDE DEF n
  <2>3. Within(j, n, r.attempts) <=> Within(j, r, r.attempts) BY <2>1, SameWithin
  <2>4. r.steps = jobs[j].steps BY <1>2 DEF Alike
  <2>5. RowGood(j, n) BY <1>3, <2>1, <2>2, <2>3, <2>4 DEF RowGood
  <2>6. Flush(jobs[j], r, n) = n BY <1>2, <2>1, FlushAlike
  <2>7. jobs' = [jobs EXCEPT ![j] = n] BY <1>5, <2>6 DEF Commit
  <2>8. jobs'[j] = n /\ \A k \in Jobs \ {j} : jobs'[k] = jobs[k] BY <1>2, <2>7
  <2>9. RowGood(j, jobs'[j]) BY <2>5, <2>8
  <2>10. ExecInv' BY <1>1, <1>5, <2>8, <2>9, Ends, OwnRow
  <2>11. \A i \in Steps : jobs[j].steps[i] = "COMPLETED" /\ jobs'[j].steps[i] = "COMPLETED"
    BY <1>3, <2>1, <2>4, <2>8
  <2>12. LifeStep BY <1>2, <2>1, <2>8, <2>11, Completes
  <2> QED BY <2>10, <2>12
<1> QED BY <1>2, <1>4, <1>5 DEF CompleteJob, AbortCancelled

\* What a worker looks for nobody executes: the rows that name it when it has
\* just started, and the stale ones.
LEMMA LookKeeps ==
  ASSUME Regime, TypeOK, ExecInv, NEW w \in Workers, RecoverRead(w) \/ StaleRead(w)
  PROVE  ExecInv' /\ LifeStep
<1> DEFINE S == IF RecoverRead(w) THEN LockedBy(w) ELSE StaleRows
<1>1. /\ pc[w] \notin Executing /\ w \in Sessions /\ UNCHANGED <<jobs, task, at>>
      /\ pc'[w] \in {"poll", "recover", "ready", "sweep"} /\ Apart(w) /\ Load(w, S)
  BY DEF RecoverRead, StaleRead, Executing, Goto, Load, TypeOK, Sessions, Apart
<1>2. view'[w] = [k \in Jobs |-> IF k \in S THEN jobs[k] ELSE GoneRow]
  BY <1>1 DEF Load, TypeOK
<1>3. \A v \in Workers, k \in Jobs : Works(v, k)' => Works(v, k) /\ v # w
  BY <1>1 DEF Works, Apart, Executing
<1>4. ExecGood(w)' BY <1>1 DEF ExecInv, ExecGood, Executing
<1>5. ASSUME NEW k \in Jobs, k \in S, NEW v \in Workers, v # w PROVE ~Works(v, k)
  <2>1. CASE RecoverRead(w) BY <1>5, <2>1 DEF LockedBy, ExecInv, ExecGood, Works
  <2>2. CASE ~RecoverRead(w)
    <3>1. jobs[k].lock = "stale" BY <1>5, <2>2 DEF StaleRows
    <3> QED BY <1>5, <3>1 DEF Regime, OneWorker, ExecInv, ExecGood, Works
  <2> QED BY <2>1, <2>2
<1>6. \A k \in Jobs : k \in S => jobs[k].status = "RUNNING" /\ Alike(jobs[k], jobs[k])
  BY DEF LockedBy, StaleRows, ExecInv, RowGood, Alike
<1>7. GoneRow.status = "GONE" BY DEF GoneRow, NewRow
<1> HIDE DEF S
<1>8. ASSUME NEW k \in Jobs, Sweeping(w, k)'
      PROVE  /\ jobs'[k].status = "RUNNING" /\ Alike(view'[w][k], jobs'[k])
             /\ \A v \in Workers : ~Works(v, k)'
  <2>1. k \in S /\ view'[w][k] = jobs[k] BY <1>2, <1>7, <1>8 DEF Sweeping
  <2>2. \A v \in Workers : ~Works(v, k)' BY <1>3, <1>5, <2>1
  <2> QED BY <1>1, <1>6, <2>1, <2>2
<1>9. SweepGood(w)' BY <1>8 DEF SweepGood
<1> QED BY <1>1, <1>3, <1>4, <1>9, KeepsExec

LEMMA IdleKeeps ==
  ASSUME TypeOK, ExecInv, NEW w \in Workers, ClaimNothing(w) \/ Start(w) \/ Crash(w) \/ Error(w)
  PROVE  ExecInv' /\ LifeStep
<1>1. CASE Crash(w) \/ Error(w) BY <1>1, Quits, ErrorLabel DEF Crash, Error
<1>2. CASE ClaimNothing(w) \/ Start(w)
  <2>1. /\ pc[w] \notin Executing /\ pc'[w] \in {"poll", "boot"} /\ Apart(w)
        /\ UNCHANGED <<jobs, at>>
    BY <1>2 DEF ClaimNothing, Start, Executing, Goto, TypeOK, Sessions, Apart
  <2>2. ExecGood(w)' /\ SweepGood(w)' /\ \A k \in Jobs : ~Works(w, k)'
    BY <2>1 DEF ExecInv, ExecGood, SweepGood, Sweeping, Works, Executing
  <2> QED BY <2>1, <2>2, KeepsExec
<1> QED BY <1>1, <1>2

\* A sweep gives up the rows it has loaded, all of them.
LEMMA SweepKeeps ==
  ASSUME TypeOK, ExecInv, SweepsApart, NEW w \in Workers, SweepCommit(w)
  PROVE  ExecInv' /\ LifeStep
<1> DEFINE S == {j \in Jobs : view[w][j].status # "GONE"}
<1>1. /\ w \in Sessions /\ jobs \in [Jobs -> Row] /\ view \in [Sessions -> [Jobs -> Row]]
      /\ pc[w] \in {"recover", "sweep"} /\ pc[w] \notin Executing
      /\ pc'[w] \in {"poll", "ready"} /\ Apart(w) /\ at' = at
  BY DEF SweepCommit, TypeOK, Sessions, Goto, Forget, Apart, Executing
<1>2. \A j \in S : Sweeping(w, j) BY <1>1 DEF Sweeping
<1>3. \A j \in S : /\ jobs[j].status = "RUNNING" /\ Alike(view[w][j], jobs[j])
                   /\ RowGood(j, jobs[j])
                   /\ \A v \in Workers : ~Works(v, j)
  BY <1>2 DEF ExecInv, SweepGood
<1>4. jobs' = [j \in Jobs |-> IF j \in S
                 THEN Flush(jobs[j], view[w][j], Recovered(j, view[w][j])) ELSE jobs[j]]
  BY <1>3 DEF SweepCommit
<1>5. ASSUME NEW j \in S
      PROVE  /\ RowGood(j, jobs'[j]) /\ jobs'[j].status \in {"RETRYABLE", "FAILED"}
             /\ SameDone(jobs[j], jobs'[j])
  <2> DEFINE q == view[w][j]
             n == Recovered(j, q)
  <2>1. /\ q \in Row /\ Alike(q, jobs[j]) /\ RowGood(j, jobs[j]) /\ jobs[j] \in Row
    BY <1>1, <1>3
  <2>2. RowGood(j, q) /\ q.status = "RUNNING" /\ q.steps = jobs[j].steps
    BY <1>3, <2>1, AlikeGood DEF Alike
  <2>3. /\ n.status \in {"RETRYABLE", "FAILED"} /\ n.lock = "none" /\ RowGood(j, n)
        /\ SameDone(q, n) /\ n \in Row
    BY <2>1, <2>2, RecoveredGood, RecoveredType DEF SameDone
  <2> HIDE DEF n
  <2>4. Flush(jobs[j], q, n) = n BY <2>1, <2>3, FlushAlike
  <2>5. jobs'[j] = n BY <1>4, <2>4 DEF n
  <2> QED BY <2>2, <2>3, <2>5 DEF SameDone
<1>6. \A j \in Jobs \ S : jobs'[j] = jobs[j] BY <1>4
<1>7. \A j \in S, v \in Workers \ {w} : ~Works(v, j) /\ ~Sweeping(v, j)
  BY <1>2, <1>3 DEF SweepsApart
<1>8. /\ ExecGood(w)' /\ SweepGood(w)' /\ \A j \in Jobs : ~Works(w, j)'
  BY <1>1 DEF ExecInv, ExecGood, SweepGood, Sweeping, Works, Executing
<1>9. S \in SUBSET Jobs OBVIOUS
<1> HIDE DEF S
<1>10. ExecInv' BY <1>1, <1>5, <1>6, <1>7, <1>8, <1>9, Others
<1>11. LifeStep BY <1>3, <1>5, <1>6, <1>9, GivesUp
<1> QED BY <1>10, <1>11

\* Nobody executes or sweeps a row that is free to be claimed.
LEMMA ClaimKeeps ==
  ASSUME Regime, TypeOK, ExecInv, NEW w \in Workers, Claim(w) PROVE ExecInv' /\ LifeStep
<1>1. PICK j \in Claimable : /\ jobs' = [jobs EXCEPT ![j] = Claimed(@, w)]
                             /\ task' = [task EXCEPT ![w] = j]
                             /\ view' = [view EXCEPT ![w] = [NoView EXCEPT ![j] = Claimed(jobs[j], w)]]
  BY DEF Claim
<1> DEFINE n == Claimed(jobs[j], w)
<1>2. /\ j \in Jobs /\ jobs[j].status \in {"QUEUED", "RETRYABLE"} /\ jobs[j] \in Row
      /\ w \in Sessions /\ jobs \in [Jobs -> Row] /\ RowGood(j, jobs[j])
      /\ view \in [Sessions -> [Jobs -> Row]] /\ NoView \in [Jobs -> Row]
  BY <1>1, NewRowType DEF Claimable, TypeOK, Sessions, ExecInv
<1>3. /\ n \in Row /\ RowGood(j, n) /\ n.status = "RUNNING" /\ n.by = w /\ n.lock = "fresh"
      /\ \A i \in Steps : n.steps[i] \in {"PENDING", "COMPLETED"}
      /\ SameDone(jobs[j], n)
  BY <1>2, ClaimedGood DEF SameDone
<1>4. /\ pc[w] = "ready" /\ pc'[w] = "start" /\ task'[w] = j /\ at' = at /\ Apart(w)
  BY <1>1, <1>2 DEF Claim, Goto, TypeOK, Apart, Sessions
<1> HIDE DEF n
<1>5. /\ jobs'[j] = n /\ view'[w][j] = n /\ \A k \in Jobs \ {j} : jobs'[k] = jobs[k]
  BY <1>1, <1>2 DEF n
<1>6. \A v \in Workers : ~Works(v, j) /\ ~Sweeping(v, j)
  BY <1>2 DEF ExecInv, ExecGood, SweepGood, Works
<1>7. at'[w] = 1 BY <1>4 DEF ExecInv, ExecGood, Executing
<1>8. Reached(w, jobs[task[w]])' BY <1>3, <1>4, <1>5, <1>7 DEF Reached, Steps
<1>9. Alike(n, n) BY <1>3 DEF Alike
<1>10. ExecGood(w)' BY <1>3, <1>4, <1>5, <1>8, <1>9 DEF ExecGood, Executing
<1>11. SweepGood(w)' BY <1>4 DEF SweepGood, Sweeping
<1>12. \A k \in Jobs : Works(w, k)' => k = j BY <1>4 DEF Works
<1>13. ExecInv'
  <2> DEFINE S == {j}
  <2>1. /\ S \in SUBSET Jobs /\ \A k \in Jobs \ S : jobs'[k] = jobs[k]
        /\ \A k \in S : RowGood(k, jobs'[k])
        /\ \A k \in S, v \in Workers \ {w} : ~Works(v, k) /\ ~Sweeping(v, k)
    BY <1>2, <1>3, <1>5, <1>6
  <2> HIDE DEF S
  <2> QED BY <1>4, <1>6, <1>10, <1>11, <1>12, <2>1, Others
<1>14. LifeStep BY <1>2, <1>3, <1>5, Takes
<1> QED BY <1>13, <1>14

\* Time passes: a lock ages or is refreshed, a postponed job becomes due.
LEMMA ClockKeeps ==
  ASSUME TypeOK, ExecInv,
         \/ \E w \in Workers : Heartbeat(w)
         \/ \E k \in Jobs : LockAges(k) \/ BecomesDue(k)
  PROVE  ExecInv' /\ LifeStep
<1>1. UNCHANGED <<pc, task, at, view>> /\ jobs \in [Jobs -> Row]
  BY DEF Heartbeat, LockAges, BecomesDue, TypeOK
<1>2. ASSUME NEW k \in Jobs
      PROVE  /\ jobs'[k].status = jobs[k].status /\ jobs'[k].steps = jobs[k].steps
             /\ jobs'[k].attempts = jobs[k].attempts /\ jobs'[k].max = jobs[k].max
             /\ jobs'[k].by = jobs[k].by
             /\ jobs[k].status = "RUNNING" =>
                  jobs'[k].due = jobs[k].due /\ jobs'[k].lock # "none"
             /\ /\ HeartbeatReliable /\ jobs[k].lock = "fresh"
                /\ \E v \in Workers : Works(v, k) /\ jobs[k].by = v
                => jobs'[k].lock = "fresh"
  <2>1. /\ jobs[k] \in Row
        /\ jobs[k].status = "RUNNING" => jobs[k].due /\ jobs[k].lock # "none"
    BY <1>1 DEF ExecInv, RowGood
  <2>2. CASE jobs'[k] = jobs[k] BY <2>1, <2>2
  <2>3. CASE jobs' = [jobs EXCEPT ![k].lock = "fresh"] /\ jobs[k].status = "RUNNING"
    BY <1>1, <2>1, <2>3 DEF Row
  <2>4. CASE LockAges(k) BY <1>1, <2>1, <2>4 DEF Row, LockAges
  <2>5. CASE BecomesDue(k) BY <1>1, <2>1, <2>5 DEF Row, BecomesDue
  <2> QED BY <1>1, <2>2, <2>3, <2>4, <2>5, ZenonT(60) DEF Heartbeat, LockAges, BecomesDue, TypeOK
<1>3. ASSUME NEW k \in Jobs PROVE RowGood(k, jobs'[k]) /\ SameLife(jobs[k], jobs'[k])
  <2>1. /\ Within(k, jobs'[k], jobs[k].attempts) <=> Within(k, jobs[k], jobs[k].attempts)
        /\ Within(k, jobs'[k], jobs[k].attempts + 1) <=> Within(k, jobs[k], jobs[k].attempts + 1)
    BY <1>2, SameWithin
  <2>2. RowGood(k, jobs[k]) BY DEF ExecInv
  <2> HIDE DEF Within
  <2>3. RowGood(k, jobs'[k]) BY <1>2, <2>1, <2>2 DEF RowGood
  <2>4. SameLife(jobs[k], jobs'[k]) BY <1>2 DEF SameLife, SameDone
  <2> QED BY <2>3, <2>4
<1>4. ASSUME NEW k \in Jobs, NEW q, jobs[k].status = "RUNNING", Alike(q, jobs[k])
      PROVE  Alike(q, jobs'[k])
  BY <1>1, <1>2, <1>4 DEF Alike, ExecInv, RowGood, TypeOK, Row
<1>5. ASSUME NEW v \in Workers PROVE ExecGood(v)'
  <2>1. CASE pc[v] \in Executing
    <3> DEFINE j == task[v]
    <3>1. /\ j \in Jobs /\ pc[v] # "abort" /\ jobs[j].status = "RUNNING" /\ jobs[j].by = v
          /\ HeartbeatReliable => jobs[j].lock = "fresh"
          /\ Reached(v, jobs[j])
          /\ pc[v] \in {"start", "mark", "settle", "complete"} => Alike(view[v][j], jobs[j])
      BY <2>1, AtWork
    <3>2. Reached(v, jobs[j])' BY <1>1, <1>2, <3>1 DEF Reached
    <3>3. HeartbeatReliable => jobs'[j].lock = "fresh" BY <1>2, <2>1, <3>1 DEF Works
    <3>4. pc[v] \in {"start", "mark", "settle", "complete"} => Alike(view[v][j], jobs'[j])
      BY <1>4, <3>1
    <3>5. jobs'[j].status = "RUNNING" /\ jobs'[j].by = v BY <1>2, <3>1
    <3> HIDE DEF Reached, Alike
    <3> QED BY <1>1, <2>1, <3>1, <3>2, <3>3, <3>4, <3>5 DEF ExecGood
  <2>2. CASE pc[v] \notin Executing BY <1>1, <2>2 DEF ExecInv, ExecGood
  <2> QED BY <2>1, <2>2
<1>6. ASSUME NEW v \in Workers PROVE SweepGood(v)'
  <2>1. \A k \in Jobs, u \in Workers : /\ Sweeping(v, k)' <=> Sweeping(v, k)
                                       /\ Works(u, k)' <=> Works(u, k)
    BY <1>1 DEF Sweeping, Works
  <2>2. SweepGood(v) BY DEF ExecInv
  <2>3. ASSUME NEW k \in Jobs, Sweeping(v, k)
        PROVE  /\ jobs'[k].status = "RUNNING" /\ Alike(view[v][k], jobs'[k])
               /\ \A u \in Workers : ~Works(u, k)
    BY <1>2, <1>4, <2>2, <2>3 DEF SweepGood
  <2> QED BY <1>1, <2>1, <2>3 DEF SweepGood
<1>7. LifeStep BY <1>3, Stutters
<1>8. \A k \in Jobs : RowGood(k, jobs[k])' BY <1>3 DEF RowGood
<1> QED BY <1>5, <1>6, <1>7, <1>8 DEF ExecInv

-----------------------------------------------------------------------------
(***************************************************************************)
(* When no two sweeps load one row.                                        *)
(***************************************************************************)
LEMMA ExecInit == Regime /\ Init => ExecInv /\ Lifecycle!Init
<1> SUFFICES ASSUME Regime, Init PROVE ExecInv /\ Lifecycle!Init OBVIOUS
<1>1. /\ \A j \in Jobs : jobs[j] = NewRow
      /\ \A w \in Workers : pc[w] = "down" /\ at[w] = 1
  BY DEF Init, Sessions
<1>2. /\ NewRow.status = "QUEUED" /\ NewRow.attempts = 0 /\ NewRow.max = MaxAttempts
      /\ \A i \in Steps : NewRow.steps[i] = "PENDING"
  BY DEF NewRow
<1>3. ASSUME NEW j \in Jobs PROVE RowGood(j, NewRow)
  <2>1. 0 <= RetryCap(j, NewRow, "transient")
    BY CapNat, NewRowType
  <2>2. Within(j, NewRow, 0) BY <2>1 DEF Within, Failures
  <2> HIDE DEF Within
  <2> QED BY <1>2, <2>2 DEF RowGood
<1>4. \A j \in Jobs : RowGood(j, jobs[j]) BY <1>1, <1>3
<1>5. \A w \in Workers : ExecGood(w) /\ SweepGood(w)
  BY <1>1 DEF ExecGood, SweepGood, Sweeping, Executing
<1>6. Lifecycle!Init BY <1>1, <1>2 DEF Lifecycle!Init
<1> QED BY <1>4, <1>5, <1>6 DEF ExecInv

LEMMA ExecStep ==
  ASSUME Regime, TypeOK, SlotInv, SweepsApart, ExecInv, [Next]_vars
  PROVE  ExecInv' /\ LifeStep
<1>1. CASE UNCHANGED vars
  <2>1. ExecInv'
    BY <1>1 DEF vars, ExecInv, ExecGood, SweepGood, Sweeping, Works, Reached, RowGood
  <2>2. LifeStep BY <1>1, Stutters DEF vars, SameLife, SameDone
  <2> QED BY <2>1, <2>2
<1>2. ASSUME NEW w \in Workers, WorkerStep(w) PROVE ExecInv' /\ LifeStep
  BY <1>2, LookKeeps, SweepKeeps, ClaimKeeps, IdleKeeps, PreflightKeeps, HeadKeeps,
     StepStartKeeps, HandlerKeeps, SettleKeeps, LastKeeps DEF WorkerStep, SlotInv
<1>3. ASSUME NEW w \in Workers, Start(w) \/ Crash(w) \/ Error(w) PROVE ExecInv' /\ LifeStep
  BY <1>3, IdleKeeps
<1>4. CASE \/ \E w \in Workers : Heartbeat(w)
           \/ \E k \in Jobs : LockAges(k) \/ BecomesDue(k)
  BY <1>4, ClockKeeps
<1>5. ~\E o \in Operators : Respond(o) \/ \E op \in Ops, k \in Jobs : Request(o, op, k)
  BY DEF Regime, TypeOK, Respond
<1> QED BY <1>1, <1>2, <1>3, <1>4, <1>5 DEF Next

LEMMA Inductive ==
  ASSUME Regime PROVE Spec /\ []SweepsApart => [](TypeOK /\ SlotInv /\ ExecInv)
<1>1. Init => SlotInv /\ ExecInv BY SlotInit, ExecInit
<1>2. TypeOK /\ SlotInv /\ ExecInv /\ SweepsApart /\ [Next]_vars => SlotInv' /\ ExecInv'
  BY SlotStep, ExecStep DEF Regime
<1> QED BY <1>1, <1>2, TypeCorrect, PTL DEF Spec

\* Under these conditions the invariant gives all five properties.
Promises ==
  /\ [](ExclusiveExecution /\ GpuMachineBudget)
  /\ [](AttemptsWithinBudget /\ CompletedIsDone)
  /\ ImplementsLifecycle

LEMMA GpuCounted == ASSUME TypeOK, SlotInv, ExecInv PROVE GpuMachineBudget
<1> DEFINE R == {w \in Workers : pc[w] = "run" /\ TypeOf[task[w]] \in GpuTypes}
           f == [w \in R |-> task[w]]
           T == RunningOnGpu
<1>1. \A w \in R : Works(w, task[w]) /\ task[w] \in T
  BY DEF RunningOnGpu, TypeOK, ExecInv, ExecGood, Executing, Works
<1>2. \A v, w \in R : task[v] = task[w] => v = w
  BY <1>1, Exclusive DEF Works
<1> HIDE DEF R, T
<1>3. f \in Injection(R, T) BY <1>1, <1>2 DEF Injection, IsInjective
<1>4. IsFiniteSet(T) BY QueueAssumption, FS_Subset DEF T, RunningOnGpu
<1> HIDE DEF f
<1>5. IsFiniteSet(R) /\ Cardinality(R) <= Cardinality(T) BY <1>3, <1>4, FS_Injection
<1>6. Cardinality(R) \in Nat /\ Cardinality(T) \in Nat BY <1>4, <1>5, FS_CardinalityType
<1>7. Cardinality(T) <= GpuLimit BY DEF T, SlotInv, SlotBudget
<1> QED BY <1>5, <1>6, <1>7, QueueAssumption DEF GpuMachineBudget, R

LEMMA Promised == ASSUME Regime PROVE Spec /\ []SweepsApart => Promises
<1>1. ExecInv => ExclusiveExecution BY Exclusive DEF ExclusiveExecution
<1>2. TypeOK /\ SlotInv /\ ExecInv => GpuMachineBudget BY GpuCounted
<1>3. ExecInv => AttemptsWithinBudget BY DEF ExecInv, RowGood, Within, AttemptsWithinBudget
<1>4. ExecInv => CompletedIsDone BY DEF ExecInv, RowGood, CompletedIsDone
<1>5. Init => Lifecycle!Init BY ExecInit
<1>6. TypeOK /\ SlotInv /\ ExecInv /\ SweepsApart /\ [Next]_vars
        => [Lifecycle!Next]_(Lifecycle!lifecycle)
  BY ExecStep DEF LifeStep
<1> QED
  BY <1>1, <1>2, <1>3, <1>4, <1>5, <1>6, Inductive, PTL
  DEF Spec, Promises, ImplementsLifecycle, Lifecycle!Spec

-----------------------------------------------------------------------------
(***************************************************************************)
(* Two workers and a crash.                                                *)
(*                                                                         *)
(* Until the first crash every RUNNING row is executed by the worker it    *)
(* names, so no sweep finds anything; a worker without an identity of its  *)
(* own does not come back, so from then on one of two workers sweeps.      *)
(***************************************************************************)
Survivor ==
  /\ HeartbeatReliable /\ StableIds = {} /\ "error" \notin Faults
  /\ FaultBound = 0 \/ \A u, v, w \in Workers : u = v \/ v = w \/ u = w

Attended ==
  /\ \A j \in Jobs : jobs[j].status = "RUNNING" => \E w \in Workers : Works(w, j)
  /\ \A w \in Workers : pc[w] \notin {"raised", "recover", "sweep"}

CalmInv == IF faults = 0 THEN Attended ELSE \E u \in Workers : pc[u] = "dead"

LEMMA CalmApart == ASSUME Survivor, TypeOK, CalmInv PROVE SweepsApart
<1>1. CASE faults = 0 BY <1>1 DEF CalmInv, Attended, SweepsApart, Sweeping
<1>2. CASE faults # 0
  <2>1. PICK u \in Workers : pc[u] = "dead" BY <1>2 DEF CalmInv
  <2>2. \A w \in Workers, j \in Jobs : Sweeping(w, j) => w # u BY <2>1 DEF Sweeping
  <2>3. FaultBound # 0 BY <1>2, QueueAssumption DEF TypeOK
  <2> QED BY <2>2, <2>3 DEF Survivor, SweepsApart
<1> QED BY <1>1, <1>2

LEMMA OutcomeSteps ==
  ASSUME NEW r \in Row, NEW j, NEW class PROVE Outcome(j, r, class).steps = r.steps
BY DEF Outcome, Unlocked, Row

\* A worker goes on with its job, or goes back to polling having settled it.
GoesOn(w) ==
  \/ pc'[w] \in Executing /\ task'[w] = task[w]
  \/ pc'[w] = "poll" /\ jobs'[task[w]].status # "RUNNING"

LEMMA SettledRow ==
  ASSUME TypeOK, ExecInv, NEW w \in Workers, pc[w] \in {"start", "settle", "complete"},
         NEW new, new.status # "RUNNING", Commit(w, task[w], new), EndWork(w, "poll")
  PROVE  GoesOn(w)
<1> DEFINE j == task[w]
<1>1. /\ j \in Jobs /\ jobs \in [Jobs -> Row] /\ view[w][j] \in Row
      /\ view[w][j].status = "RUNNING"
  BY AtWork DEF Executing, Alike
<1>2. jobs'[j] = Flush(jobs[j], view[w][j], new) BY <1>1, CommitRow
<1>3. jobs'[j].status = new.status BY <1>1, <1>2, FlushFields
<1> QED BY <1>3, EndsWork DEF GoesOn

LEMMA AtWorkGoesOn ==
  ASSUME Regime, TypeOK, NoReview, ExecInv, NEW w \in Workers, WorkerStep(w),
         pc[w] \in Executing
  PROVE  GoesOn(w)
<1> DEFINE j == task[w]
           r == view[w][j]
           i == at[w]
<1>1. /\ w \in Sessions /\ j \in Jobs /\ i \in Steps /\ r \in Row
      /\ pc[w] # "abort" /\ jobs[j].status = "RUNNING" /\ Reached(w, jobs[j])
      /\ pc[w] \in {"start", "mark", "settle", "complete"} => Alike(r, jobs[j])
      /\ pc \in [Sessions -> Executing \cup Between \cup Ops \cup {"idle"}]
  BY AtWork DEF TypeOK
<1>2. /\ JobMayMove("RUNNING", "COMPLETED") /\ JobMayMove("RUNNING", "RETRYABLE")
      /\ JobMayMove("RUNNING", "FAILED") /\ JobMayMove("RUNNING", "RUNNING")
      /\ StepMayMove("RUNNING", "COMPLETED") /\ StepMayMove("RUNNING", "FAILED")
  BY DEF JobMayMove, JobTransitions, StepMayMove, StepTransitions
<1>3. ASSUME NEW label \in Executing, Goto(w, label), UNCHANGED task PROVE GoesOn(w)
  BY <1>1, <1>3 DEF Goto, GoesOn
<1>4. ASSUME NextStep(w), UNCHANGED task PROVE GoesOn(w)
  BY <1>1, <1>4 DEF NextStep, Goto, GoesOn, Executing
<1>5. CASE Preflight(w)
  <2> DEFINE open == {n \in Steps : r.steps[n] \in {"PENDING", "RUNNING"}}
             q == [r EXCEPT !.steps = [k \in Steps |-> IF k \in open /\ \A n \in open : k <= n
                                                      THEN "FAILED" ELSE r.steps[k]]]
  <2>1. pc[w] = "start" BY <1>5 DEF Preflight
  <2>2. \/ Goto(w, "head") /\ UNCHANGED task
        \/ \E class \in {"binding", "transient"} :
             Commit(w, j, Outcome(j, q, class)) /\ EndWork(w, "poll")
    BY <1>1, <1>5 DEF Preflight
  <2>3. \A class : Outcome(j, q, class).status \in {"RETRYABLE", "FAILED"}
    <3>1. q \in Row BY <1>1 DEF Row, StepStatuses
    <3> HIDE DEF q
    <3> QED BY <3>1, CallStatus
  <2> HIDE DEF q
  <2>4. ASSUME NEW class, Commit(w, j, Outcome(j, q, class)), EndWork(w, "poll")
        PROVE  GoesOn(w)
    <3> DEFINE n == Outcome(j, q, class)
    <3>1. n.status # "RUNNING" BY <2>3
    <3>2. Commit(w, j, n) BY <2>4
    <3> HIDE DEF n
    <3> QED BY <2>1, <2>4, <3>1, <3>2, SettledRow
  <2>5. CASE Goto(w, "head") /\ UNCHANGED task BY <1>3, <2>5 DEF Executing
  <2> QED BY <2>2, <2>4, <2>5
<1>6. CASE StepHead(w)
  BY <1>1, <1>3, <1>6 DEF StepHead, Refresh, Executing
<1>7. CASE StepStart(w)
  BY <1>1, <1>3, <1>4, <1>7 DEF StepStart, Executing
<1>8. CASE HandlerReturns(w)
  BY <1>1, <1>3, <1>8 DEF HandlerReturns, Regime, Executing
<1>9. CASE SettleStep(w)
  <2>1. /\ pc[w] = "settle" /\ result[w] \in Results \ {"input"}
        /\ r.status = "RUNNING" /\ r.steps[i] = "RUNNING"
    BY <1>1, <1>9 DEF SettleStep, TypeOK, NoReview, Reached, Alike
  <2>2. \A st \in StepStatuses : /\ Stepped(w, st) \in Row /\ Stepped(w, st).steps[i] = st
                                 /\ Stepped(w, st).status = "RUNNING"
    BY <1>1, <2>1, WithStepType, WithStepRow DEF Stepped
  <2>3. CASE result[w] = "ok"
    <3>1. SettleWith(w, Stepped(w, "COMPLETED"), "step") BY <1>9, <2>3 DEF SettleStep
    <3> QED BY <1>1, <1>2, <1>4, <2>1, <2>2, <3>1 DEF SettleWith, StepStatuses
  <2>4. CASE result[w] # "ok"
    <3> DEFINE n == Outcome(j, Stepped(w, "FAILED"), result[w])
    <3>1. SettleWith(w, n, "poll") BY <1>9, <2>1, <2>4 DEF SettleStep
    <3>2. n.status \in {"RETRYABLE", "FAILED"} /\ n.steps[i] = "FAILED"
      BY <2>2, CallStatus, OutcomeSteps DEF StepStatuses
    <3> HIDE DEF n
    <3>3. Commit(w, j, n) /\ EndWork(w, "poll")
      BY <1>1, <1>2, <2>1, <3>1, <3>2 DEF SettleWith
    <3> QED BY <2>1, <3>2, <3>3, SettledRow
  <2> QED BY <2>3, <2>4
<1>10. CASE FinishRead(w)
  BY <1>1, <1>2, <1>3, <1>10 DEF FinishRead, Executing
<1>11. CASE CompleteJob(w)
  <2>1. Commit(w, j, [Unlocked(r) EXCEPT !.status = "COMPLETED"]) /\ EndWork(w, "poll")
    BY <1>1, <1>11 DEF CompleteJob
  <2>2. [Unlocked(r) EXCEPT !.status = "COMPLETED"].status # "RUNNING"
    BY <1>1 DEF Unlocked, Row
  <2> QED BY <1>11, <2>1, <2>2, SettledRow DEF CompleteJob
<1> QED
  BY <1>1, <1>5, <1>6, <1>7, <1>8, <1>9, <1>10, <1>11
  DEF WorkerStep, RecoverRead, StaleRead, SweepCommit, Claim, ClaimNothing, AbortCancelled,
      Executing

LEMMA CalmStep ==
  ASSUME Regime, Survivor, TypeOK, TypeOK', SlotInv, ExecInv, CalmInv, [Next]_vars
  PROVE  CalmInv'
<1>1. CASE UNCHANGED vars BY <1>1 DEF vars, CalmInv, Attended, Works
<1>2. ASSUME NEW w \in Workers, WorkerStep(w) PROVE CalmInv'
  <2>1. faults' = faults /\ pc[w] # "dead"
    BY <1>2 DEF WorkerStep, RecoverRead, StaleRead, SweepCommit, Claim, ClaimNothing,
       Preflight, StepHead, StepStart, HandlerReturns, SettleStep, FinishRead,
       CompleteJob, AbortCancelled
  <2>2. OnlyMoves(w) /\ (~Claim(w) => NothingStarts)
    <3>1. CASE Claim(w)
      BY <3>1, QueueAssumption DEF Claim, Claimable, Goto, OnlyMoves, TypeOK, Sessions
    <3>2. CASE ~Claim(w) BY <1>2, <3>2, WorkerStepStarts DEF Regime, SlotInv
    <3> QED BY <3>1, <3>2
  <2>3. CASE faults # 0
    BY <2>1, <2>2, <2>3 DEF CalmInv, OnlyMoves, Sessions
  <2>4. CASE faults = 0
    <3>1. Attended BY <2>4 DEF CalmInv
    <3>2. \A v \in Workers, j \in Jobs : v # w => (Works(v, j)' <=> Works(v, j))
      BY <2>2 DEF OnlyMoves, Sessions, Works
    <3>3. \A v \in Workers : v # w => pc'[v] \notin {"raised", "recover", "sweep"}
      BY <2>2, <3>1 DEF OnlyMoves, Sessions, Attended
    <3>4. /\ pc'[w] \notin {"raised", "recover", "sweep"}
          /\ \A j \in Jobs : jobs'[j].status = "RUNNING" /\ (Works(w, j) \/ (Claim(w) /\ jobs[j].status # "RUNNING"))
                => Works(w, j)'
      <4>1. CASE pc[w] \in Executing
        <5>1. GoesOn(w) BY <1>2, <4>1, AtWorkGoesOn DEF SlotInv
        <5>2. ~Claim(w) BY <4>1 DEF Claim, Executing
        <5> QED BY <4>1, <5>1, <5>2 DEF GoesOn, Works, Executing
      <4>2. CASE Claim(w)
        BY <4>2 DEF Claim, Claimable, Works, Goto, TypeOK, Sessions, Executing
      <4>3. CASE pc[w] \notin Executing /\ ~Claim(w)
        <5>1. RecoverRead(w) \/ StaleRead(w) \/ ClaimNothing(w)
          BY <1>2, <3>1, <4>3 DEF WorkerStep, SweepCommit, Preflight, StepHead, StepStart,
             HandlerReturns, SettleStep, FinishRead, CompleteJob, AbortCancelled, Executing,
             Attended
        <5>2. LockedBy(w) = {}
          BY <3>1, <4>3 DEF LockedBy, Attended, Works, ExecInv, ExecGood
        <5>3. StaleRows = {}
          BY <3>1 DEF StaleRows, Attended, Works, ExecInv, ExecGood, Survivor
        <5>4. pc'[w] \in {"poll", "ready"}
          BY <5>1, <5>2, <5>3 DEF RecoverRead, StaleRead, ClaimNothing, Goto, TypeOK, Sessions
        <5> QED BY <4>3, <5>4 DEF Works
      <4> QED BY <4>1, <4>2, <4>3
    <3>5. ASSUME NEW j \in Jobs, jobs'[j].status = "RUNNING"
          PROVE  \E v \in Workers : Works(v, j)'
      <4>1. CASE jobs[j].status = "RUNNING"
        <5>1. PICK v \in Workers : Works(v, j) BY <3>1, <4>1 DEF Attended
        <5> QED BY <3>2, <3>4, <3>5, <5>1
      <4>2. CASE jobs[j].status # "RUNNING"
        <5>1. Claim(w) BY <2>2, <3>5, <4>2 DEF NothingStarts
        <5> QED BY <3>4, <3>5, <4>2, <5>1
      <4> QED BY <4>1, <4>2
    <3> QED BY <2>1, <2>4, <3>3, <3>4, <3>5 DEF CalmInv, Attended
  <2> QED BY <2>3, <2>4
<1>3. ASSUME NEW w \in Workers, Start(w) PROVE CalmInv'
  <2>1. /\ UNCHANGED <<jobs, task, faults>> /\ pc[w] = "down"
        /\ pc' = [pc EXCEPT ![w] = "boot"]
    BY <1>3 DEF Start, Goto
  <2>2. \A v \in Workers, j \in Jobs : Works(v, j) => Works(v, j)'
    BY <2>1 DEF Works, Executing, TypeOK, Sessions
  <2>3. \A v \in Workers : pc'[v] \in {pc[v], "boot"} /\ (pc[v] = "dead" => pc'[v] = "dead")
    BY <2>1 DEF TypeOK, Sessions
  <2> QED BY <2>1, <2>2, <2>3 DEF CalmInv, Attended
<1>4. ASSUME NEW w \in Workers, Crash(w) PROVE CalmInv'
  <2>1. pc'[w] = "dead" BY <1>4, EndsWork DEF Crash, Survivor
  <2>2. faults' # 0 BY <1>4, QueueAssumption DEF Crash, Strikes, TypeOK
  <2> QED BY <2>1, <2>2 DEF CalmInv
<1>5. ~\E w \in Workers : Error(w) BY DEF Error, Strikes, Survivor
<1>6. CASE \/ \E w \in Workers : Heartbeat(w)
           \/ \E k \in Jobs : LockAges(k) \/ BecomesDue(k)
  <2>1. UNCHANGED <<pc, task, faults>> BY <1>6 DEF Heartbeat, LockAges, BecomesDue
  <2>2. \A j \in Jobs : jobs'[j].status = jobs[j].status
    <3>1. jobs \in [Jobs -> Row] /\ \A w \in Workers : pc[w] \in Executing => task[w] \in Jobs
      BY DEF TypeOK
    <3>2. PICK k \in Jobs : \/ \E l : jobs' = [jobs EXCEPT ![k].lock = l]
                           \/ jobs' = [jobs EXCEPT ![k].due = TRUE]
      BY <1>6, <3>1 DEF Heartbeat, LockAges, BecomesDue
    <3>3. jobs[k] \in Row BY <3>1
    <3>4. jobs'[k].status = jobs[k].status BY <3>1, <3>2, <3>3 DEF Row
    <3>5. \A j \in Jobs : j # k => jobs'[j] = jobs[j] BY <3>1, <3>2
    <3> QED BY <3>4, <3>5
  <2> QED BY <2>1, <2>2 DEF CalmInv, Attended, Works
<1>7. ~\E o \in Operators : Respond(o) \/ \E op \in Ops, k \in Jobs : Request(o, op, k)
  BY DEF Regime, TypeOK, Respond
<1> QED BY <1>1, <1>2, <1>3, <1>4, <1>5, <1>6, <1>7 DEF Next

-----------------------------------------------------------------------------
(***************************************************************************)
(* The theorems.                                                           *)
(***************************************************************************)

\* Two workers of which one may crash at any point, or any number of workers
\* that do not crash, raise no error and beat in time: a job is executed by its
\* claimer alone, the GPU is not overcommitted, no job is claimed more often
\* than its policy allows, a completed one is done, and the rows, copies, locks
\* and sweeps implement JobLifecycle.
THEOREM TwoWorkersSuffice ==
  ASSUME Regime, Survivor
  PROVE  Spec => /\ [](ExclusiveExecution /\ GpuMachineBudget)
                 /\ [](AttemptsWithinBudget /\ CompletedIsDone)
                 /\ ImplementsLifecycle
<1>1. Init => SlotInv /\ ExecInv BY SlotInit, ExecInit
<1>2. Init => CalmInv
  BY QueueAssumption DEF Init, CalmInv, Attended, NewRow, Sessions
<1>3. TypeOK /\ TypeOK' /\ SlotInv /\ ExecInv /\ CalmInv /\ [Next]_vars
        => SlotInv' /\ ExecInv' /\ CalmInv'
  BY SlotStep, ExecStep, CalmStep, CalmApart DEF Regime
<1>4. TypeOK /\ CalmInv => SweepsApart BY CalmApart
<1> QED BY <1>1, <1>2, <1>3, <1>4, TypeCorrect, Promised, PTL DEF Spec, Promises

\* The deployment starts one worker process (docker-compose.yml): two sweeps are
\* then never at work at once, and the same holds of the code as it is, however
\* often the worker dies and is restarted, whatever errors its transactions and
\* its recoveries run into, and even if its heartbeats starve.
THEOREM OneWorkerSuffices ==
  ASSUME Regime, OneWorker
  PROVE  Spec => /\ [](ExclusiveExecution /\ GpuMachineBudget)
                 /\ [](AttemptsWithinBudget /\ CompletedIsDone)
                 /\ ImplementsLifecycle
<1>1. SweepsApart BY DEF OneWorker, SweepsApart
<1> QED BY <1>1, Promised, PTL DEF Promises
=============================================================================
