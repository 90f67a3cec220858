--------------------------- MODULE JobQueueProofs ---------------------------
(***************************************************************************)
(* Theorems of JobQueue for every value of its constants.                  *)
(***************************************************************************)
EXTENDS JobQueue, TLAPS, FiniteSetTheorems

-----------------------------------------------------------------------------
(***************************************************************************)
(* What the service calls return, on rows.                                 *)
(***************************************************************************)

\* A field-wise way to see that something is a row.
LEMMA RowFields ==
  ASSUME NEW st \in JobStatuses \cup {"GONE"}, NEW ss \in [Steps -> StepStatuses],
         NEW a \in Nat, NEW m \in Nat, NEW d \in BOOLEAN,
         NEW b \in Workers \cup {NoOne}, NEW l \in {"none", "fresh", "stale"}
  PROVE  [status |-> st, steps |-> ss, attempts |-> a, max |-> m,
          due |-> d, by |-> b, lock |-> l] \in Row
BY DEF Row

\* A commit merges two rows into a row.
LEMMA FlushType ==
  ASSUME NEW db \in Row, NEW old \in Row, NEW new \in Row
  PROVE  Flush(db, old, new) \in Row
BY DEF Flush, Row

\* The rows a session starts from are rows.
LEMMA NewRowType == NewRow \in Row /\ GoneRow \in Row /\ NoView \in [Jobs -> Row]
BY QueueAssumption DEF NewRow, GoneRow, NoView, Row, JobStatuses, StepStatuses, Steps

\* Every service call turns a row into a row.
LEMMA RestepType ==
  ASSUME NEW r \in Row, NEW From, NEW to \in StepStatuses
  PROVE  Restep(r, From, to) \in [Steps -> StepStatuses]
BY DEF Restep, Row

LEMMA WithStepType ==
  ASSUME NEW r \in Row, NEW i \in Steps, NEW to \in StepStatuses
  PROVE  WithStep(r, i, to) \in Row
<1>1. [r.steps EXCEPT ![i] = to] \in [Steps -> StepStatuses] BY DEF Row
<1> QED BY <1>1 DEF WithStep, Row

LEMMA UnlockedType == ASSUME NEW r \in Row PROVE Unlocked(r) \in Row
BY DEF Unlocked, Row

LEMMA OutcomeType ==
  ASSUME NEW j \in Jobs, NEW r \in Row, NEW class
  PROVE  Outcome(j, r, class) \in Row
BY UnlockedType, ZenonT(60) DEF Outcome, Row, JobStatuses

LEMMA ClaimedType ==
  ASSUME NEW r \in Row, NEW w \in Workers PROVE Claimed(r, w) \in Row
<1> DEFINE ss == Restep(r, {"FAILED"}, "PENDING")
<1>1. ss \in [Steps -> StepStatuses]
  BY RestepType DEF StepStatuses
<1>2. r.attempts + 1 \in Nat
  BY DEF Row
<1>3. [r EXCEPT !.attempts = @ + 1] \in Row
  BY <1>2 DEF Row
<1>4. Claimed(r, w) = [[r EXCEPT !.attempts = @ + 1] EXCEPT
                         !.status = "RUNNING", !.steps = ss, !.by = w,
                         !.lock = "fresh", !.due = TRUE]
  BY DEF Claimed, Row
<1> HIDE DEF ss
<1> QED BY <1>1, <1>3, <1>4, ZenonT(60) DEF Row, JobStatuses

LEMMA RecoveredType ==
  ASSUME NEW j \in Jobs, NEW r \in Row PROVE Recovered(j, r) \in Row
<1>1. Restep(r, {"RUNNING"}, "FAILED") \in [Steps -> StepStatuses]
  BY RestepType DEF StepStatuses
<1>2. [r EXCEPT !.steps = Restep(r, {"RUNNING"}, "FAILED")] \in Row
  BY <1>1 DEF Row
<1> QED BY <1>2, OutcomeType DEF Recovered

LEMMA RetriedType == ASSUME NEW r \in Row PROVE Retried(r) \in Row
<1>1. Restep(r, {"FAILED"}, "PENDING") \in [Steps -> StepStatuses]
  BY RestepType DEF StepStatuses
<1>2. (IF r.status = "FAILED" /\ r.attempts >= r.max THEN r.attempts + 1 ELSE r.max) \in Nat
  BY DEF Row
<1> QED BY <1>1, <1>2 DEF Retried, Row, JobStatuses

LEMMA CancelledType == ASSUME NEW r \in Row PROVE Cancelled(r) \in Row
<1>1. Restep(r, {"PENDING", "RUNNING", "WAITING_FOR_INPUT"}, "SKIPPED")
        \in [Steps -> StepStatuses]
  BY RestepType DEF StepStatuses
<1> QED BY <1>1 DEF Cancelled, Row, JobStatuses

LEMMA ResumedType == ASSUME NEW r \in Row PROVE Resumed(r) \in Row
<1> DEFINE ss == Resumed(r).steps
<1>1. ss \in [Steps -> StepStatuses]
  BY DEF Resumed, Row, StepStatuses
<1>2. Resumed(r) = [r EXCEPT !.status = Resumed(r).status, !.steps = ss]
  BY DEF Resumed, Row
<1> QED BY <1>1, <1>2 DEF Resumed, Row, JobStatuses

-----------------------------------------------------------------------------
(***************************************************************************)
(* Type correctness.                                                       *)
(***************************************************************************)

\* The part of the state that belongs to the sessions.
SessionsOK ==
  /\ view \in [Sessions -> [Jobs -> Row]]
  /\ task \in [Sessions -> Jobs \cup {0}]
  /\ at \in [Workers -> Steps]
  /\ result \in [Workers -> Results]
  /\ pc \in [Sessions -> Executing \cup Between \cup Ops \cup {"idle"}]
  /\ \A w \in Workers : /\ pc[w] \in Executing \cup Between
                        /\ pc[w] \in Executing => task[w] \in Jobs
  /\ \A o \in Operators : /\ pc[o] \in Ops \cup {"idle"}
                          /\ pc[o] # "idle" => task[o] \in Jobs

LEMMA TypeParts ==
  TypeOK <=> jobs \in [Jobs -> Row] /\ SessionsOK /\ faults \in 0..FaultBound
BY DEF TypeOK, SessionsOK

\* A worker moves to a label that suits the job it has in hand.
LEMMA WorkerMoves ==
  ASSUME SessionsOK, NEW w \in Workers, NEW label \in Executing \cup Between,
         Goto(w, label), label \in Executing => task'[w] \in Jobs,
         task' \in [Sessions -> Jobs \cup {0}],
         \A s \in Sessions \ {w} : task'[s] = task[s],
         view' \in [Sessions -> [Jobs -> Row]],
         at' \in [Workers -> Steps],
         result' \in [Workers -> Results]
  PROVE  SessionsOK'
<1>1. w \in Sessions /\ \A o \in Operators : o \in Sessions /\ o # w
  BY QueueAssumption DEF Sessions
<1>2. pc' \in [Sessions -> Executing \cup Between \cup Ops \cup {"idle"}]
  BY <1>1 DEF SessionsOK, Goto
<1>3. pc'[w] = label /\ \A s \in Sessions \ {w} : pc'[s] = pc[s]
  BY <1>1 DEF SessionsOK, Goto
<1>4. ASSUME NEW v \in Workers
      PROVE  pc'[v] \in Executing \cup Between /\ (pc'[v] \in Executing => task'[v] \in Jobs)
  <2>1. CASE v = w BY <2>1, <1>3
  <2>2. CASE v # w BY <2>2, <1>3 DEF SessionsOK, Sessions
  <2> QED BY <2>1, <2>2
<1>5. ASSUME NEW o \in Operators
      PROVE  pc'[o] \in Ops \cup {"idle"} /\ (pc'[o] # "idle" => task'[o] \in Jobs)
  BY <1>1, <1>3 DEF SessionsOK
<1> QED BY <1>2, <1>4, <1>5 DEF SessionsOK

\* Loading rows, or forgetting them, leaves rows in the session.
LEMMA ViewType ==
  ASSUME NEW s \in Sessions, NEW S, SessionsOK, jobs \in [Jobs -> Row]
  PROVE  /\ Load(s, S) => view' \in [Sessions -> [Jobs -> Row]]
         /\ Forget(s)  => view' \in [Sessions -> [Jobs -> Row]]
<1>1. [k \in Jobs |-> IF k \in S THEN jobs[k] ELSE GoneRow] \in [Jobs -> Row]
  BY NewRowType
<1> QED BY <1>1, NewRowType DEF Load, Forget, SessionsOK

\* A commit of a row leaves rows in the table.
LEMMA CommitType ==
  ASSUME NEW s \in Sessions, NEW j \in Jobs, NEW new \in Row,
         SessionsOK, jobs \in [Jobs -> Row], Commit(s, j, new)
  PROVE  jobs' \in [Jobs -> Row]
<1>1. Flush(jobs[j], view[s][j], new) \in Row
  BY FlushType DEF SessionsOK
<1> QED BY <1>1 DEF Commit

\* The session of a worker ends well formed.
LEMMA EndWorkType ==
  ASSUME SessionsOK, jobs \in [Jobs -> Row], NEW w \in Workers,
         NEW label \in Between, EndWork(w, label)
  PROVE  SessionsOK'
<1>1. label \notin Executing BY DEF Between, Executing
<1>2. w \in Sessions /\ 1 \in Steps BY QueueAssumption DEF Sessions, Steps
<1>3. view' \in [Sessions -> [Jobs -> Row]] BY <1>2, ViewType DEF EndWork
<1>4. /\ task' \in [Sessions -> Jobs \cup {0}]
      /\ \A s \in Sessions \ {w} : task'[s] = task[s]
      /\ at' \in [Workers -> Steps]
      /\ result' \in [Workers -> Results]
      /\ Goto(w, label)
  BY <1>2 DEF EndWork, SessionsOK, Results
<1> QED BY <1>1, <1>3, <1>4, WorkerMoves

\* A worker only moves to a label and loads or forgets rows.
LEMMA WorkerLooks ==
  ASSUME SessionsOK, jobs \in [Jobs -> Row], NEW w \in Workers,
         NEW label \in Executing \cup Between, Goto(w, label),
         label \in Executing => pc[w] \in Executing,
         view' = view \/ Forget(w) \/ \E S : Load(w, S),
         at' \in [Workers -> Steps], UNCHANGED <<task, result>>
  PROVE  SessionsOK'
<1>1. view' \in [Sessions -> [Jobs -> Row]]
  BY ViewType DEF Sessions, SessionsOK
<1>2. /\ label \in Executing => task'[w] \in Jobs
      /\ task' \in [Sessions -> Jobs \cup {0}]
      /\ result' \in [Workers -> Results]
  BY DEF SessionsOK
<1> QED BY <1>1, <1>2, WorkerMoves

LEMMA NextStepType ==
  ASSUME SessionsOK, jobs \in [Jobs -> Row], NEW w \in Workers,
         pc[w] \in Executing, NextStep(w), UNCHANGED <<task, result>>
  PROVE  SessionsOK'
<1>1. at' \in [Workers -> Steps]
  <2>1. \A i \in Steps : (IF i = NSteps THEN i ELSE i + 1) \in Steps
    BY QueueAssumption DEF Steps
  <2> QED BY <2>1 DEF NextStep, SessionsOK
<1>2. PICK label \in {"finish", "head"} : Goto(w, label) BY DEF NextStep
<1>3. label \in Executing BY DEF Executing
<1> QED BY <1>1, <1>2, <1>3, WorkerLooks DEF NextStep

\* The worker's own steps.
LEMMA WorkerStepType ==
  ASSUME jobs \in [Jobs -> Row], SessionsOK, NEW w \in Workers, WorkerStep(w)
  PROVE  jobs' \in [Jobs -> Row] /\ SessionsOK'
<1> DEFINE j == task[w]
<1>1. /\ w \in Sessions
      /\ pc[w] \in Executing => j \in Jobs /\ view[w][j] \in Row
      /\ at[w] \in Steps
  BY DEF SessionsOK, Sessions
<1>2. CASE RecoverRead(w)
  <2>1. PICK label \in Between : Goto(w, label) /\ label \notin Executing
    BY <1>2 DEF RecoverRead, Between, Executing
  <2> QED BY <1>1, <1>2, <2>1, WorkerLooks DEF RecoverRead, SessionsOK
<1>3. CASE StaleRead(w)
  <2>1. PICK label \in Between : Goto(w, label) /\ label \notin Executing
    BY <1>3 DEF StaleRead, Between, Executing
  <2> QED BY <1>1, <1>3, <2>1, WorkerLooks DEF StaleRead, SessionsOK
<1>4. CASE SweepCommit(w)
  <2>1. PICK label \in Between : Goto(w, label) /\ label \notin Executing
    BY <1>4 DEF SweepCommit, Between, Executing
  <2>2. SessionsOK'
    BY <1>1, <1>4, <2>1, WorkerLooks DEF SweepCommit, SessionsOK
  <2>3. \A k \in Jobs : Flush(jobs[k], view[w][k], Recovered(k, view[w][k])) \in Row
    BY <1>1, FlushType, RecoveredType DEF SessionsOK
  <2>4. jobs' \in [Jobs -> Row]
    BY <1>4, <2>3 DEF SweepCommit
  <2> QED BY <1>1, <2>2, <2>4
<1>5. CASE Claim(w)
  <2>1. PICK k \in Jobs : /\ jobs' = [jobs EXCEPT ![k] = Claimed(@, w)]
                          /\ task' = [task EXCEPT ![w] = k]
                          /\ view' = [view EXCEPT ![w] = [NoView EXCEPT ![k] = Claimed(jobs[k], w)]]
    BY <1>5 DEF Claim, Claimable
  <2>2. Claimed(jobs[k], w) \in Row BY ClaimedType
  <2>3. view' \in [Sessions -> [Jobs -> Row]]
    BY <2>1, <2>2, NewRowType DEF SessionsOK
  <2>4. SessionsOK'
    BY <1>1, <1>5, <2>1, <2>3, WorkerMoves DEF Claim, SessionsOK, Executing
  <2> QED BY <1>1, <2>1, <2>2, <2>4
<1>6. CASE ClaimNothing(w)
  BY <1>1, <1>6, WorkerLooks DEF ClaimNothing, SessionsOK, Between, Executing
<1>7. CASE Preflight(w)
  <2>1. CASE Goto(w, "head") /\ UNCHANGED <<jobs, task, at, view, result>>
    BY <1>1, <1>7, <2>1, WorkerLooks DEF Preflight, SessionsOK, Executing
  <2>2. CASE Raise(w)
    BY <1>1, <2>2, EndWorkType DEF Raise, Between
  <2>3. ASSUME NEW ss \in [Steps -> StepStatuses], NEW class, EndWork(w, "poll"),
               Commit(w, j, Outcome(j, [view[w][j] EXCEPT !.steps = ss], class)),
               j \in Jobs
        PROVE  jobs' \in [Jobs -> Row] /\ SessionsOK'
    <3>1. [view[w][j] EXCEPT !.steps = ss] \in Row
      <4>1. view[w][j] \in Row BY <1>1, <1>7 DEF Preflight, Executing
      <4> QED BY <2>3, <4>1 DEF Row
    <3>2. jobs' \in [Jobs -> Row]
      BY <1>1, <2>3, <3>1, OutcomeType, CommitType
    <3>3. SessionsOK' BY <2>3, EndWorkType DEF Between
    <3> QED BY <1>1, <3>2, <3>3
  <2>4. j \in Jobs BY <1>1, <1>7 DEF Preflight, Executing
  <2> DEFINE open == {i \in Steps : view[w][j].steps[i] \in {"PENDING", "RUNNING"}}
             ss == [i \in Steps |-> IF i \in open /\ \A k \in open : i <= k
                                   THEN "FAILED" ELSE view[w][j].steps[i]]
  <2>5. ss \in [Steps -> StepStatuses]
    BY <1>1, <2>4 DEF SessionsOK, Row, StepStatuses
  <2> QED BY <1>7, <2>1, <2>2, <2>3, <2>4, <2>5 DEF Preflight
<1>8. CASE StepHead(w)
  <2>1. CASE EndWork(w, "raised")
    BY <1>1, <1>8, <2>1, EndWorkType DEF StepHead, Between
  <2>2. CASE /\ Load(w, {j}) /\ UNCHANGED <<task, at, result>>
             /\ \E label \in {"abort", "mark"} : Goto(w, label)
    BY <1>1, <1>8, <2>2, WorkerLooks DEF StepHead, SessionsOK, Executing
  <2> QED BY <1>8, <2>1, <2>2 DEF StepHead, Refresh
<1>9. CASE StepStart(w)
  <2>1. j \in Jobs BY <1>1, <1>9 DEF StepStart, Executing
  <2>2. CASE NextStep(w) /\ UNCHANGED <<jobs, task, result>>
    BY <1>1, <1>9, <2>2, NextStepType DEF StepStart, Executing
  <2>3. CASE Raise(w)
    BY <1>1, <2>3, EndWorkType DEF Raise, Between
  <2>4. CASE /\ UNCHANGED <<jobs, view>> /\ Goto(w, "run") /\ UNCHANGED <<task, at, result>>
    BY <1>1, <1>9, <2>4, WorkerLooks DEF StepStart, SessionsOK, Executing
  <2>5. CASE /\ Commit(w, j, WithStep(view[w][j], at[w], "RUNNING"))
             /\ view' = [view EXCEPT ![w][j] = jobs'[j]]
             /\ Goto(w, "run") /\ UNCHANGED <<task, at, result>>
    <3>1. WithStep(view[w][j], at[w], "RUNNING") \in Row
      BY <1>1, <1>9, <2>1, WithStepType DEF StepStart, Executing, StepStatuses
    <3>2. jobs' \in [Jobs -> Row] BY <1>1, <2>1, <2>5, <3>1, CommitType
    <3>3. view' \in [Sessions -> [Jobs -> Row]]
      BY <1>1, <2>1, <2>5, <3>2 DEF SessionsOK
    <3>4. SessionsOK'
      BY <1>1, <2>1, <2>5, <3>3, WorkerMoves DEF SessionsOK, Executing
    <3> QED BY <1>1, <3>2, <3>4
  <2> QED BY <1>9, <2>2, <2>3, <2>4, <2>5 DEF StepStart
<1>10. CASE HandlerReturns(w)
  <2>1. j \in Jobs BY <1>1, <1>10 DEF HandlerReturns, Executing
  <2>2. CASE EndWork(w, "raised")
    BY <1>1, <1>10, <2>2, EndWorkType DEF HandlerReturns, Between
  <2>3. CASE /\ Load(w, {j}) /\ UNCHANGED <<task, at, result>>
             /\ \E label \in {"abort", "settle"} : Goto(w, label)
    BY <1>1, <1>10, <2>3, WorkerLooks DEF HandlerReturns, SessionsOK, Executing
  <2>4. ASSUME NEW res \in Results,
               result' = [result EXCEPT ![w] = res],
               view' \in [Sessions -> [Jobs -> Row]],
               Goto(w, "settle"), UNCHANGED <<task, at>>
        PROVE  jobs' \in [Jobs -> Row] /\ SessionsOK'
    <3>1. SessionsOK'
      BY <1>1, <2>1, <2>4, WorkerMoves DEF SessionsOK, Executing
    <3> QED BY <1>1, <1>10, <3>1 DEF HandlerReturns
  <2>5. ASSUME NEW seen \in StepStatuses
        PROVE  /\ WithStep(jobs[j], at[w], seen) \in Row
               /\ WithStep(view[w][j], at[w], seen) \in Row
    BY <1>1, <1>10, <2>1, WithStepType DEF HandlerReturns, Executing
  <2>6. ASSUME NEW res \in Results \ {"input"},
               NEW seen \in {"RUNNING", jobs[j].steps[at[w]]},
               view' = [view EXCEPT ![w] =
                     [NoView EXCEPT ![j] = WithStep(jobs[j], at[w], seen)]]
        PROVE  view' \in [Sessions -> [Jobs -> Row]]
    <3>1. seen \in StepStatuses BY <1>1, <2>1 DEF Row, StepStatuses
    <3> QED BY <1>1, <2>1, <2>5, <2>6, <3>1, NewRowType DEF SessionsOK
  <2>7. ASSUME view' = [view EXCEPT ![w][j] = WithStep(@, at[w], "RUNNING")]
        PROVE  view' \in [Sessions -> [Jobs -> Row]]
    <3>1. WithStep(view[w][j], at[w], "RUNNING") \in Row BY <2>5 DEF StepStatuses
    <3> QED BY <1>1, <2>1, <2>7, <3>1 DEF SessionsOK
  <2> QED
    BY <1>10, <2>2, <2>3, <2>4, <2>6, <2>7 DEF HandlerReturns, Refresh, Results
<1>11. CASE SettleStep(w)
  <2>1. j \in Jobs BY <1>1, <1>11 DEF SettleStep, Executing
  <2>2. ASSUME NEW new \in Row, NEW next \in {"step", "poll"}, SettleWith(w, new, next)
        PROVE  jobs' \in [Jobs -> Row] /\ SessionsOK'
    <3>1. CASE Raise(w) BY <1>1, <3>1, EndWorkType DEF Raise, Between
    <3>2. CASE Commit(w, j, new)
      <4>1. jobs' \in [Jobs -> Row] BY <1>1, <2>1, <3>2, CommitType
      <4>2. CASE NextStep(w) /\ UNCHANGED <<task, result>>
        BY <1>1, <1>11, <4>1, <4>2, NextStepType DEF SettleStep, Executing
      <4>3. CASE EndWork(w, "poll")
        BY <1>1, <4>1, <4>3, EndWorkType DEF Between
      <4> QED BY <2>2, <3>1, <4>2, <4>3 DEF SettleWith
    <3> QED BY <2>2, <3>1, <3>2 DEF SettleWith
  <2>3. \A st \in StepStatuses : Stepped(w, st) \in Row
    BY <1>1, <1>11, <2>1, WithStepType DEF Stepped, SettleStep, Executing
  <2>4. [Stepped(w, "WAITING_FOR_INPUT") EXCEPT !.status = "WAITING_FOR_REVIEW"] \in Row
    BY <2>3 DEF Row, JobStatuses, StepStatuses
  <2>5. Outcome(j, Stepped(w, "FAILED"), result[w]) \in Row
    BY <2>1, <2>3, OutcomeType DEF StepStatuses
  <2>6. Stepped(w, "COMPLETED") \in Row BY <2>3 DEF StepStatuses
  <2> QED BY <1>11, <2>2, <2>4, <2>5, <2>6 DEF SettleStep
<1>12. CASE FinishRead(w)
  <2>1. CASE Load(w, {j}) /\ Goto(w, "complete") /\ UNCHANGED <<task, at, result>>
    BY <1>1, <1>12, <2>1, WorkerLooks DEF FinishRead, SessionsOK, Executing
  <2>2. CASE EndWork(w, "raised")
    BY <1>1, <1>12, <2>2, EndWorkType DEF FinishRead, Between
  <2> QED BY <1>12, <2>1, <2>2 DEF FinishRead
<1>13. CASE CompleteJob(w)
  <2>1. j \in Jobs BY <1>1, <1>13 DEF CompleteJob, Executing
  <2>2. [Unlocked(view[w][j]) EXCEPT !.status = "COMPLETED"] \in Row
    <3>1. Unlocked(view[w][j]) \in Row
      BY <1>1, <1>13, UnlockedType DEF CompleteJob, Executing
    <3> QED BY <3>1 DEF Row, JobStatuses
  <2>3. CASE Raise(w) BY <1>1, <2>3, EndWorkType DEF Raise, Between
  <2>4. CASE /\ Commit(w, j, [Unlocked(view[w][j]) EXCEPT !.status = "COMPLETED"])
             /\ EndWork(w, "poll")
    BY <1>1, <2>1, <2>2, <2>4, CommitType, EndWorkType DEF Between
  <2> QED BY <1>13, <2>3, <2>4 DEF CompleteJob
<1>14. CASE AbortCancelled(w)
  <2>1. j \in Jobs BY <1>1, <1>14 DEF AbortCancelled, Executing
  <2>2. Unlocked(view[w][j]) \in Row
    BY <1>1, <2>1, UnlockedType DEF SessionsOK
  <2>3. CASE Raise(w) BY <1>1, <2>3, EndWorkType DEF Raise, Between
  <2>4. CASE Commit(w, j, Unlocked(view[w][j])) /\ EndWork(w, "poll")
    BY <1>1, <2>1, <2>2, <2>4, CommitType, EndWorkType DEF Between
  <2> QED BY <1>14, <2>3, <2>4 DEF AbortCancelled
<1> QED
  BY <1>2, <1>3, <1>4, <1>5, <1>6, <1>7, <1>8, <1>9, <1>10, <1>11, <1>12, <1>13, <1>14
     DEF WorkerStep

\* An operator request moves to a label that suits the job it has in hand.
LEMMA OperatorMoves ==
  ASSUME SessionsOK, NEW o \in Operators, NEW label \in Ops \cup {"idle"},
         NEW k \in Jobs \cup {0}, label # "idle" => k \in Jobs,
         Goto(o, label), task' = [task EXCEPT ![o] = k],
         view' \in [Sessions -> [Jobs -> Row]], UNCHANGED <<at, result>>
  PROVE  SessionsOK'
<1>1. o \in Sessions /\ \A w \in Workers : w \in Sessions /\ o # w
  BY QueueAssumption DEF Sessions
<1>2. /\ pc' \in [Sessions -> Executing \cup Between \cup Ops \cup {"idle"}]
      /\ task' \in [Sessions -> Jobs \cup {0}]
      /\ pc'[o] = label /\ task'[o] = k
      /\ \A s \in Sessions \ {o} : pc'[s] = pc[s] /\ task'[s] = task[s]
  BY <1>1 DEF SessionsOK, Goto
<1>3. ASSUME NEW w \in Workers
      PROVE  pc'[w] \in Executing \cup Between /\ (pc'[w] \in Executing => task'[w] \in Jobs)
  BY <1>1, <1>2 DEF SessionsOK
<1>4. ASSUME NEW p \in Operators
      PROVE  pc'[p] \in Ops \cup {"idle"} /\ (pc'[p] # "idle" => task'[p] \in Jobs)
  <2>1. CASE p = o BY <1>2, <2>1
  <2>2. CASE p # o BY <1>2, <2>2 DEF SessionsOK, Sessions
  <2> QED BY <2>1, <2>2
<1> QED BY <1>2, <1>3, <1>4 DEF SessionsOK

LEMMA ErrorLabel == ASSUME NEW l PROVE AfterError(l) \in {"poll", "ready", "raised"}
BY DEF AfterError

\* Processes, clocks and operators.
LEMMA OtherStepType ==
  ASSUME jobs \in [Jobs -> Row], SessionsOK,
         \/ \E w \in Workers : Start(w) \/ Crash(w) \/ Error(w) \/ Heartbeat(w)
         \/ \E k \in Jobs : LockAges(k) \/ BecomesDue(k)
         \/ \E o \in Operators : Respond(o) \/ \E op \in Ops, k \in Jobs : Request(o, op, k)
  PROVE  jobs' \in [Jobs -> Row] /\ SessionsOK'
<1>1. ASSUME NEW w \in Workers, Start(w)
      PROVE  jobs' \in [Jobs -> Row] /\ SessionsOK'
  BY <1>1, WorkerLooks DEF Start, SessionsOK, Between, Executing
<1>2. ASSUME NEW w \in Workers, Crash(w) \/ Error(w)
      PROVE  jobs' \in [Jobs -> Row] /\ SessionsOK'
  BY <1>2, EndWorkType, ErrorLabel DEF Crash, Error, Between
<1>3. \A r \in Row : /\ [r EXCEPT !.lock = "fresh"] \in Row
                    /\ [r EXCEPT !.lock = "stale"] \in Row
                    /\ [r EXCEPT !.due = TRUE] \in Row
  BY DEF Row
<1>4. ASSUME NEW w \in Workers, Heartbeat(w)
      PROVE  jobs' \in [Jobs -> Row] /\ SessionsOK'
  <2>1. task[w] \in Jobs BY <1>4 DEF Heartbeat, SessionsOK
  <2>2. jobs' = [jobs EXCEPT ![task[w]] = [@ EXCEPT !.lock = "fresh"]]
    BY <1>4 DEF Heartbeat
  <2>3. SessionsOK' BY <1>4 DEF Heartbeat, SessionsOK
  <2>4. [jobs[task[w]] EXCEPT !.lock = "fresh"] \in Row BY <1>3, <2>1
  <2> QED BY <2>1, <2>2, <2>3, <2>4
<1>5. ASSUME NEW k \in Jobs, LockAges(k) \/ BecomesDue(k)
      PROVE  jobs' \in [Jobs -> Row] /\ SessionsOK'
  <2>1. \/ jobs' = [jobs EXCEPT ![k] = [@ EXCEPT !.lock = "stale"]]
        \/ jobs' = [jobs EXCEPT ![k] = [@ EXCEPT !.due = TRUE]]
    BY <1>5 DEF LockAges, BecomesDue
  <2>2. SessionsOK' BY <1>5 DEF LockAges, BecomesDue, SessionsOK
  <2>3. /\ [jobs[k] EXCEPT !.lock = "stale"] \in Row
        /\ [jobs[k] EXCEPT !.due = TRUE] \in Row
    BY <1>3
  <2> QED BY <2>1, <2>2, <2>3
<1>6. ASSUME NEW o \in Operators, NEW op \in Ops, NEW k \in Jobs, Request(o, op, k)
      PROVE  jobs' \in [Jobs -> Row] /\ SessionsOK'
  <2>1. view' \in [Sessions -> [Jobs -> Row]]
    BY <1>6, ViewType DEF Request, Sessions
  <2> QED BY <1>6, <2>1, OperatorMoves DEF Request
<1>7. ASSUME NEW o \in Operators, Respond(o)
      PROVE  jobs' \in [Jobs -> Row] /\ SessionsOK'
  <2> DEFINE j == task[o]
             r == view[o][j]
  <2>1. o \in Sessions /\ pc[o] \in Ops /\ j \in Jobs
    BY <1>7 DEF Respond, SessionsOK, Sessions
  <2>2. r \in Row BY <2>1 DEF SessionsOK
  <2>3. /\ Retried(r) \in Row /\ Cancelled(r) \in Row /\ Resumed(r) \in Row
        /\ GoneRow \in Row
    BY <2>2, RetriedType, CancelledType, ResumedType, NewRowType
  <2>4. \/ jobs' = jobs \/ jobs' = [jobs EXCEPT ![j] = GoneRow]
        \/ Commit(o, j, Retried(r)) \/ Commit(o, j, Cancelled(r))
        \/ Commit(o, j, Resumed(r))
    BY <1>7, <2>1, QueueAssumption DEF Respond
  <2>5. jobs' \in [Jobs -> Row] BY <2>1, <2>3, <2>4, CommitType
  <2>6. view' \in [Sessions -> [Jobs -> Row]] BY <1>7, <2>1, ViewType DEF Respond
  <2> QED BY <1>7, <2>5, <2>6, OperatorMoves DEF Respond
<1> QED BY <1>1, <1>2, <1>4, <1>5, <1>6, <1>7

\* Every reachable state is well formed: rows stay rows through every merge of
\* a stale copy into the table, and no session acts on a job it does not hold.
THEOREM TypeCorrect == Spec => []TypeOK
<1>1. Init => TypeOK
  <2> SUFFICES ASSUME Init PROVE TypeOK OBVIOUS
  <2>1. jobs \in [Jobs -> Row] BY NewRowType DEF Init
  <2>2. 1 \in Steps /\ Workers \cap Operators = {} /\ faults \in 0..FaultBound
    BY QueueAssumption DEF Init, Steps
  <2> QED BY <2>1, <2>2, NewRowType DEF TypeOK, Init, Sessions, Executing, Between, Results
<1>2. TypeOK /\ [Next]_vars => TypeOK'
  <2> SUFFICES ASSUME TypeOK, [Next]_vars PROVE TypeOK' OBVIOUS
  <2>1. jobs \in [Jobs -> Row] /\ SessionsOK BY TypeParts
  <2>2. jobs' \in [Jobs -> Row] /\ SessionsOK'
    <3>1. CASE UNCHANGED vars BY <2>1, <3>1 DEF vars, SessionsOK
    <3>2. CASE \E w \in Workers : WorkerStep(w) BY <2>1, <3>2, WorkerStepType
    <3> QED BY <2>1, <3>1, <3>2, OtherStepType DEF Next
  <2>3. faults' \in 0..FaultBound
    <3>1. CASE \E w \in Workers : Crash(w) \/ Error(w)
      BY <3>1, QueueAssumption DEF Crash, Error, Strikes, TypeOK
    <3>2. CASE \E w \in Workers : WorkerStep(w)
      BY <3>2 DEF TypeOK, WorkerStep, RecoverRead, StaleRead, SweepCommit, Claim,
         ClaimNothing, Preflight, StepHead, StepStart, HandlerReturns, SettleStep,
         FinishRead, CompleteJob, AbortCancelled
    <3>3. CASE \/ \E w \in Workers : Start(w) \/ Heartbeat(w)
               \/ \E k \in Jobs : LockAges(k) \/ BecomesDue(k)
               \/ \E o \in Operators : Respond(o) \/ \E op \in Ops, k \in Jobs : Request(o, op, k)
      BY <3>3 DEF TypeOK, Start, Heartbeat, LockAges, BecomesDue, Respond, Request
    <3> QED BY <3>1, <3>2, <3>3 DEF Next, vars, TypeOK
  <2> QED BY <2>2, <2>3 DEF TypeOK, SessionsOK
<1> QED BY <1>1, <1>2, PTL DEF Spec

-----------------------------------------------------------------------------
(***************************************************************************)
(* The running caps hold in every interleaving: whatever stale copies are  *)
(* committed by sweeps, completions and operator requests, only a claim    *)
(* makes a row RUNNING, and a claim counts the RUNNING rows first.         *)
(*                                                                         *)
(* The theorem is for queues whose handlers never ask for operator input   *)
(* (InputJobs = {}), which is every handler registered in the repository:  *)
(* resume_job puts a WAITING_FOR_REVIEW job straight back to RUNNING.      *)
(***************************************************************************)

\* No row and no copy of a row waits for review.
NoReview ==
  /\ \A j \in Jobs : jobs[j].status # "WAITING_FOR_REVIEW"
  /\ \A s \in Sessions, j \in Jobs : view[s][j].status # "WAITING_FOR_REVIEW"
  /\ \A w \in Workers : result[w] # "input"

\* An accepted resume request holds a copy that resume_job requeues.
ResumesRetryable ==
  \A o \in Operators : pc[o] = "resume" => view[o][task[o]].status = "RETRYABLE"

SlotInv == NoReview /\ ResumesRetryable /\ SlotBudget

-----------------------------------------------------------------------------
(***************************************************************************)
(* What one step may do to statuses.                                       *)
(***************************************************************************)

\* No row becomes RUNNING or WAITING_FOR_REVIEW.
NothingStarts ==
  \A k \in Jobs : jobs'[k].status = jobs[k].status
                  \/ jobs'[k].status \notin {"RUNNING", "WAITING_FOR_REVIEW"}

\* Copies keep their status, are dropped, or follow the table.
ViewsFollow ==
  \A s \in Sessions, k \in Jobs :
    view'[s][k].status \in {view[s][k].status, jobs[k].status, jobs'[k].status, "GONE"}

\* Only session s moved.
OnlyMoves(s) ==
  \A t \in Sessions \ {s} : pc'[t] = pc[t] /\ task'[t] = task[t] /\ view'[t] = view[t]

\* A commit that keeps the status, or sets one that needs no slot, starts nothing.
LEMMA CommitStatus ==
  ASSUME jobs \in [Jobs -> Row], NEW s, NEW j \in Jobs, NEW new, Commit(s, j, new),
         new.status = view[s][j].status
           \/ new.status \notin {"RUNNING", "WAITING_FOR_REVIEW"}
  PROVE  NothingStarts
<1>1. Flush(jobs[j], view[s][j], new).status
        = IF view[s][j].status = new.status THEN jobs[j].status ELSE new.status
  BY DEF Flush
<1> QED BY <1>1 DEF Commit, NothingStarts

\* The status that each service call leaves in the row.
LEMMA CallStatus ==
  ASSUME NEW r \in Row, NEW j, NEW class, NEW i, NEW to
  PROVE  /\ Unlocked(r).status = r.status
         /\ WithStep(r, i, to).status = r.status
         /\ Outcome(j, r, class).status \in {"RETRYABLE", "FAILED"}
         /\ Recovered(j, r).status \in {"RETRYABLE", "FAILED"}
         /\ Retried(r).status = "QUEUED"
         /\ Cancelled(r).status = "CANCELLED"
         /\ r.status = "RETRYABLE" => Resumed(r).status = "QUEUED"
<1>1. /\ Unlocked(r).status = r.status
      /\ WithStep(r, i, to).status = r.status
      /\ Retried(r).status = "QUEUED"
      /\ Cancelled(r).status = "CANCELLED"
      /\ r.status = "RETRYABLE" => Resumed(r).status = "QUEUED"
  BY DEF Unlocked, WithStep, Retried, Cancelled, Resumed, Row
<1>2. ASSUME NEW q \in Row PROVE Outcome(j, q, class).status \in {"RETRYABLE", "FAILED"}
  BY DEF Outcome, Unlocked, Row
<1>3. Recovered(j, r).status \in {"RETRYABLE", "FAILED"}
  <2>1. ASSUME NEW q \in Row PROVE Outcome(j, q, "transient").status \in {"RETRYABLE", "FAILED"}
    BY DEF Outcome, Unlocked, Row
  <2>2. Restep(r, {"RUNNING"}, "FAILED") \in [Steps -> StepStatuses]
    BY RestepType DEF StepStatuses
  <2>3. [r EXCEPT !.steps = Restep(r, {"RUNNING"}, "FAILED")] \in Row
    BY <2>2 DEF Row
  <2> QED BY <2>1, <2>3 DEF Recovered
<1> QED BY <1>1, <1>2, <1>3

LEMMA WithStepStatus ==
  ASSUME NEW r \in Row, NEW i, NEW to PROVE WithStep(r, i, to).status = r.status
BY DEF WithStep, Row

\* Loading follows the table, forgetting drops the copies.
LEMMA LoadFollows ==
  ASSUME view \in [Sessions -> [Jobs -> Row]], NEW s \in Sessions,
         view' = view \/ Forget(s) \/ \E S : Load(s, S)
  PROVE  ViewsFollow /\ \A t \in Sessions \ {s} : view'[t] = view[t]
<1>1. GoneRow.status = "GONE" /\ \A k \in Jobs : NoView[k] = GoneRow
  BY NewRowType DEF GoneRow, NewRow, NoView
<1>2. CASE view' = view BY <1>2 DEF ViewsFollow
<1>3. CASE Forget(s)
  BY <1>1, <1>3 DEF Forget, ViewsFollow
<1>4. ASSUME NEW S, Load(s, S)
      PROVE  ViewsFollow /\ \A t \in Sessions \ {s} : view'[t] = view[t]
  BY <1>1, <1>4 DEF Load, ViewsFollow
<1> QED BY <1>2, <1>3, <1>4

LEMMA EndWorkLocal ==
  ASSUME TypeOK, NEW w \in Workers, NEW label, EndWork(w, label)
  PROVE  /\ ViewsFollow /\ OnlyMoves(w)
         /\ \A v \in Workers : result'[v] \in {result[v], "ok"}
<1>1. w \in Sessions BY DEF Sessions
<1>2. ViewsFollow /\ \A t \in Sessions \ {w} : view'[t] = view[t]
  BY <1>1, LoadFollows DEF EndWork, TypeOK
<1>3. /\ \A t \in Sessions \ {w} : pc'[t] = pc[t] /\ task'[t] = task[t]
      /\ \A v \in Workers : result'[v] \in {result[v], "ok"}
  BY <1>1 DEF EndWork, Goto, TypeOK
<1> QED BY <1>2, <1>3 DEF OnlyMoves

LEMMA LooksLocal ==
  ASSUME TypeOK, NEW w \in Workers, NEW label, Goto(w, label),
         view' = view \/ Forget(w) \/ \E S : Load(w, S), UNCHANGED <<task, result>>
  PROVE  /\ ViewsFollow /\ OnlyMoves(w)
         /\ \A v \in Workers : result'[v] \in {result[v], "ok"}
<1>1. w \in Sessions BY DEF Sessions
<1>2. ViewsFollow /\ \A t \in Sessions \ {w} : view'[t] = view[t]
  BY <1>1, LoadFollows DEF TypeOK
<1>3. \A t \in Sessions \ {w} : pc'[t] = pc[t] /\ task'[t] = task[t]
  BY <1>1 DEF Goto, TypeOK
<1> QED BY <1>2, <1>3 DEF OnlyMoves

\* A worker step other than a claim starts nothing and asks for no review.
LEMMA WorkerStepStarts ==
  ASSUME TypeOK, NoReview, InputJobs = {}, NEW w \in Workers, WorkerStep(w), ~Claim(w)
  PROVE  /\ NothingStarts /\ ViewsFollow /\ OnlyMoves(w)
         /\ \A v \in Workers : result'[v] # "input"
<1> DEFINE j == task[w]
           r == view[w][j]
<1>1. /\ w \in Sessions
      /\ pc[w] \in Executing => j \in Jobs /\ r \in Row
      /\ jobs \in [Jobs -> Row] /\ view \in [Sessions -> [Jobs -> Row]]
  BY DEF TypeOK, Sessions
<1>2. ASSUME \A v \in Workers : result'[v] \in {result[v], "ok"}
      PROVE  \A v \in Workers : result'[v] # "input"
  BY <1>2 DEF NoReview
<1>3. jobs' = jobs => NothingStarts BY DEF NothingStarts
<1>4. ASSUME Raise(w)
      PROVE  /\ NothingStarts /\ ViewsFollow /\ OnlyMoves(w)
             /\ \A v \in Workers : result'[v] # "input"
  BY <1>2, <1>3, <1>4, EndWorkLocal DEF Raise
<1>5. CASE RecoverRead(w) \/ StaleRead(w) \/ ClaimNothing(w)
  <2>1. \E label : Goto(w, label)
    BY <1>5 DEF RecoverRead, StaleRead, ClaimNothing
  <2>2. view' = view \/ Forget(w) \/ \E S : Load(w, S)
    BY <1>5 DEF RecoverRead, StaleRead, ClaimNothing
  <2>3. jobs' = jobs /\ UNCHANGED <<task, result>>
    BY <1>5 DEF RecoverRead, StaleRead, ClaimNothing
  <2> QED BY <1>2, <1>3, <2>1, <2>2, <2>3, LooksLocal
<1>6. CASE SweepCommit(w)
  <2>1. \E label : Goto(w, label) BY <1>6 DEF SweepCommit
  <2>2. /\ ViewsFollow /\ OnlyMoves(w)
        /\ \A v \in Workers : result'[v] \in {result[v], "ok"}
    BY <1>6, <2>1, LooksLocal DEF SweepCommit
  <2>3. ASSUME NEW k \in Jobs
        PROVE  Flush(jobs[k], view[w][k], Recovered(k, view[w][k])).status
                 \in {jobs[k].status, "RETRYABLE", "FAILED"}
    <3>1. Recovered(k, view[w][k]).status \in {"RETRYABLE", "FAILED"}
      BY <1>1, CallStatus, ZenonT(60)
    <3> QED BY <3>1 DEF Flush
  <2>4. \A k \in Jobs : jobs'[k] \in {jobs[k], Flush(jobs[k], view[w][k], Recovered(k, view[w][k]))}
    BY <1>6 DEF SweepCommit
  <2>5. NothingStarts BY <2>3, <2>4 DEF NothingStarts
  <2> QED BY <1>2, <2>2, <2>5
<1>7. CASE Preflight(w)
  <2>1. CASE Goto(w, "head") /\ UNCHANGED <<jobs, task, at, view, result>>
    BY <1>2, <1>3, <2>1, LooksLocal
  <2>2. ASSUME NEW ss, NEW class, EndWork(w, "poll"),
               Commit(w, j, Outcome(j, [r EXCEPT !.steps = ss], class)),
               ss \in [Steps -> StepStatuses]
        PROVE  /\ NothingStarts /\ ViewsFollow /\ OnlyMoves(w)
               /\ \A v \in Workers : result'[v] # "input"
    <3>1. j \in Jobs /\ r \in Row BY <1>1, <1>7 DEF Preflight, Executing
    <3>2. [r EXCEPT !.steps = ss] \in Row BY <2>2, <3>1 DEF Row
    <3>3. Outcome(j, [r EXCEPT !.steps = ss], class).status \in {"RETRYABLE", "FAILED"}
      BY <3>2, CallStatus
    <3>4. NothingStarts BY <1>1, <2>2, <3>1, <3>3, CommitStatus
    <3> QED BY <1>2, <2>2, <3>4, EndWorkLocal
  <2> DEFINE open == {i \in Steps : r.steps[i] \in {"PENDING", "RUNNING"}}
             ss == [i \in Steps |-> IF i \in open /\ \A k \in open : i <= k
                                   THEN "FAILED" ELSE r.steps[i]]
  <2>3. ss \in [Steps -> StepStatuses]
    <3>1. r \in Row BY <1>1, <1>7 DEF Preflight, Executing
    <3> QED BY <3>1 DEF Row, StepStatuses
  <2> QED BY <1>4, <1>7, <2>1, <2>2, <2>3 DEF Preflight
<1>8. CASE StepHead(w)
  <2>1. CASE EndWork(w, "raised") /\ UNCHANGED jobs
    BY <1>2, <1>3, <2>1, EndWorkLocal
  <2>2. CASE /\ Load(w, {j}) /\ UNCHANGED <<task, at, result, jobs>>
             /\ \E label : Goto(w, label)
    BY <1>2, <1>3, <2>2, LooksLocal
  <2> QED BY <1>8, <2>1, <2>2 DEF StepHead, Refresh
<1>9. CASE StepStart(w)
  <2>1. j \in Jobs /\ r \in Row BY <1>1, <1>9 DEF StepStart, Executing
  <2>2. CASE NextStep(w) /\ UNCHANGED <<jobs, task, result>>
    <3>1. Forget(w) /\ \E label : Goto(w, label) BY <2>2 DEF NextStep
    <3> QED BY <1>2, <1>3, <2>2, <3>1, LooksLocal
  <2>3. CASE UNCHANGED <<jobs, view>> /\ Goto(w, "run") /\ UNCHANGED <<task, at, result>>
    BY <1>2, <1>3, <2>3, LooksLocal
  <2>4. CASE /\ Commit(w, j, WithStep(r, at[w], "RUNNING"))
             /\ view' = [view EXCEPT ![w][j] = jobs'[j]]
             /\ Goto(w, "run") /\ UNCHANGED <<task, at, result>>
    <3>0. WithStep(r, at[w], "RUNNING").status = r.status BY <2>1, CallStatus
    <3>1. NothingStarts BY <1>1, <2>1, <2>4, <3>0, CommitStatus
    <3>2. ViewsFollow BY <1>1, <2>1, <2>4 DEF ViewsFollow
    <3>3. OnlyMoves(w) BY <1>1, <2>4 DEF OnlyMoves, Goto, TypeOK
    <3> QED BY <2>4, <3>1, <3>2, <3>3 DEF NoReview
  <2> QED BY <1>4, <1>9, <2>2, <2>3, <2>4 DEF StepStart
<1>10. CASE HandlerReturns(w)
  <2>1. j \in Jobs /\ r \in Row /\ jobs[j] \in Row
    BY <1>1, <1>10 DEF HandlerReturns, Executing
  <2>2. CASE EndWork(w, "raised") /\ UNCHANGED jobs
    BY <1>2, <1>3, <2>2, EndWorkLocal
  <2>3. CASE /\ Load(w, {j}) /\ UNCHANGED <<task, at, result, jobs>>
             /\ \E label : Goto(w, label)
    BY <1>2, <1>3, <2>3, LooksLocal
  <2>4. ASSUME NEW res \in Results \ {"input"}, NEW seen,
               result' = [result EXCEPT ![w] = res],
               view' = [view EXCEPT ![w] = [NoView EXCEPT ![j] = WithStep(jobs[j], at[w], seen)]],
               Goto(w, "settle"), UNCHANGED <<jobs, task, at>>
        PROVE  /\ NothingStarts /\ ViewsFollow /\ OnlyMoves(w)
               /\ \A v \in Workers : result'[v] # "input"
    <3>1. WithStep(jobs[j], at[w], seen).status = jobs[j].status
      BY <2>1, CallStatus
    <3>2. \A k \in Jobs : NoView[k].status = "GONE"
      BY DEF NoView, GoneRow, NewRow
    <3>3. NoView \in [Jobs -> Row] BY NewRowType
    <3>4. ViewsFollow BY <1>1, <2>1, <2>4, <3>1, <3>2, <3>3 DEF ViewsFollow
    <3>5. OnlyMoves(w) BY <1>1, <2>4 DEF OnlyMoves, Goto, TypeOK
    <3>6. \A v \in Workers : result'[v] # "input"
      BY <2>4 DEF NoReview, TypeOK
    <3> QED BY <1>3, <2>4, <3>4, <3>5, <3>6
  <2> QED BY <1>10, <2>2, <2>3, <2>4 DEF HandlerReturns, Refresh
<1>11. CASE SettleStep(w)
  <2>1. j \in Jobs /\ r \in Row /\ result[w] # "input"
    BY <1>1, <1>11 DEF SettleStep, Executing, NoReview
  <2>2. ASSUME NEW new, NEW next \in {"step", "poll"}, SettleWith(w, new, next),
               new.status \in {r.status, "RETRYABLE", "FAILED"}
        PROVE  /\ NothingStarts /\ ViewsFollow /\ OnlyMoves(w)
               /\ \A v \in Workers : result'[v] # "input"
    <3>1. CASE Raise(w) BY <1>4, <3>1
    <3>2. CASE /\ Commit(w, j, new)
               /\ \/ NextStep(w) /\ UNCHANGED <<task, result>>
                  \/ EndWork(w, next)
      <4>1. NothingStarts BY <1>1, <2>1, <2>2, <3>2, CommitStatus
      <4>2. CASE NextStep(w) /\ UNCHANGED <<task, result>>
        <5>1. Forget(w) /\ \E label : Goto(w, label) BY <4>2 DEF NextStep
        <5> QED BY <1>2, <4>1, <4>2, <5>1, LooksLocal
      <4>3. CASE EndWork(w, next) BY <1>2, <4>1, <4>3, EndWorkLocal
      <4> QED BY <3>2, <4>2, <4>3
    <3> QED BY <2>2, <3>1, <3>2 DEF SettleWith
  <2>3. \A st \in StepStatuses : Stepped(w, st) \in Row /\ Stepped(w, st).status = r.status
    <3>1. at[w] \in Steps BY DEF TypeOK
    <3>2. ASSUME NEW st \in StepStatuses
          PROVE  WithStep(r, at[w], st) \in Row /\ WithStep(r, at[w], st).status = r.status
      BY <2>1, <3>1, WithStepType, WithStepStatus
    <3> QED BY <3>2 DEF Stepped
  <2>4. Stepped(w, "COMPLETED").status = r.status /\ Stepped(w, "FAILED") \in Row
    BY <2>3 DEF StepStatuses
  <2>5. Outcome(j, Stepped(w, "FAILED"), result[w]).status \in {"RETRYABLE", "FAILED"}
    BY <2>4, CallStatus
  <2> QED BY <1>11, <2>1, <2>2, <2>4, <2>5 DEF SettleStep
<1>12. CASE FinishRead(w)
  <2>1. CASE Load(w, {j}) /\ Goto(w, "complete") /\ UNCHANGED <<task, at, result, jobs>>
    BY <1>2, <1>3, <2>1, LooksLocal
  <2>2. CASE EndWork(w, "raised") /\ UNCHANGED jobs
    BY <1>2, <1>3, <2>2, EndWorkLocal
  <2> QED BY <1>12, <2>1, <2>2 DEF FinishRead
<1>13. CASE CompleteJob(w)
  <2>1. j \in Jobs /\ r \in Row BY <1>1, <1>13 DEF CompleteJob, Executing
  <2>2. [Unlocked(r) EXCEPT !.status = "COMPLETED"].status = "COMPLETED"
    BY <2>1, UnlockedType DEF Row
  <2>3. CASE /\ Commit(w, j, [Unlocked(r) EXCEPT !.status = "COMPLETED"])
             /\ EndWork(w, "poll")
    BY <1>1, <1>2, <2>1, <2>2, <2>3, CommitStatus, EndWorkLocal
  <2> QED BY <1>4, <1>13, <2>3 DEF CompleteJob
<1>14. CASE AbortCancelled(w)
  <2>1. j \in Jobs /\ r \in Row BY <1>1, <1>14 DEF AbortCancelled, Executing
  <2>2. CASE Commit(w, j, Unlocked(r)) /\ EndWork(w, "poll")
    BY <1>1, <1>2, <2>1, <2>2, CallStatus, CommitStatus, EndWorkLocal
  <2> QED BY <1>4, <1>14, <2>2 DEF AbortCancelled
<1> QED
  BY <1>5, <1>6, <1>7, <1>8, <1>9, <1>10, <1>11, <1>12, <1>13, <1>14 DEF WorkerStep

-----------------------------------------------------------------------------
(***************************************************************************)
(* Counting.                                                               *)
(***************************************************************************)

\* If nothing starts, no running set grows.
LEMMA BudgetKept ==
  ASSUME TypeOK, SlotBudget, NothingStarts PROVE SlotBudget'
<1>1. ASSUME NEW t \in JobTypes
      PROVE  Cardinality(RunningOfType(t))' <= TypeLimit[t]
  <2>1. RunningOfType(t)' \subseteq RunningOfType(t)
    BY DEF RunningOfType, NothingStarts
  <2>2. IsFiniteSet(RunningOfType(t))
    BY QueueAssumption, FS_Subset DEF RunningOfType
  <2>3. /\ Cardinality(RunningOfType(t)') <= Cardinality(RunningOfType(t))
        /\ IsFiniteSet(RunningOfType(t)')
    BY <2>1, <2>2, FS_Subset
  <2>4. Cardinality(RunningOfType(t)) \in Nat /\ Cardinality(RunningOfType(t)') \in Nat
    BY <2>2, <2>3, FS_CardinalityType
  <2> QED BY <2>3, <2>4, QueueAssumption DEF SlotBudget
<1>2. Cardinality(RunningOnGpu)' <= GpuLimit
  <2>1. RunningOnGpu' \subseteq RunningOnGpu
    BY DEF RunningOnGpu, NothingStarts
  <2>2. IsFiniteSet(RunningOnGpu)
    BY QueueAssumption, FS_Subset DEF RunningOnGpu
  <2>3. Cardinality(RunningOnGpu') <= Cardinality(RunningOnGpu) /\ IsFiniteSet(RunningOnGpu')
    BY <2>1, <2>2, FS_Subset
  <2>4. Cardinality(RunningOnGpu) \in Nat /\ Cardinality(RunningOnGpu') \in Nat
    BY <2>2, <2>3, FS_CardinalityType
  <2> QED BY <2>3, <2>4, QueueAssumption DEF SlotBudget
<1> QED BY <1>1, <1>2 DEF SlotBudget

\* A claim takes a slot that the counts show free.
LEMMA BudgetClaimed ==
  ASSUME TypeOK, SlotBudget, NEW w \in Workers, Claim(w) PROVE SlotBudget'
<1>1. PICK j \in Claimable : jobs' = [jobs EXCEPT ![j] = Claimed(@, w)] BY DEF Claim
<1>2. j \in Jobs /\ TypeSlotFree(j) /\ GpuSlotFree(j) BY <1>1 DEF Claimable
<1>3. \A k \in Jobs : k # j => jobs'[k] = jobs[k] BY <1>1, <1>2 DEF TypeOK
<1>4. ASSUME NEW t \in JobTypes
      PROVE  Cardinality(RunningOfType(t))' <= TypeLimit[t]
  <2>1. RunningOfType(t)' \subseteq RunningOfType(t) \cup (IF TypeOf[j] = t THEN {j} ELSE {})
    BY <1>2, <1>3 DEF RunningOfType
  <2>2. IsFiniteSet(RunningOfType(t))
    BY QueueAssumption, FS_Subset DEF RunningOfType
  <2>3. Cardinality(RunningOfType(t)) \in Nat /\ TypeLimit[t] \in Nat
    BY <2>2, FS_CardinalityType, QueueAssumption
  <2>4. CASE TypeOf[j] = t
    <3>1. /\ IsFiniteSet(RunningOfType(t) \cup {j})
          /\ Cardinality(RunningOfType(t) \cup {j}) <= Cardinality(RunningOfType(t)) + 1
      <4> DEFINE R == RunningOfType(t)
      <4>1. IsFiniteSet(R) /\ Cardinality(R) \in Nat BY <2>2, <2>3
      <4> HIDE DEF R
      <4>2. /\ IsFiniteSet(R \cup {j})
            /\ Cardinality(R \cup {j}) <= Cardinality(R) + 1
        BY <4>1, FS_AddElement
      <4> QED BY <4>2 DEF R
    <3>2. Cardinality(RunningOfType(t)') <= Cardinality(RunningOfType(t) \cup {j})
      BY <2>1, <2>4, <3>1, FS_Subset
    <3>3. Cardinality(RunningOfType(t)) < TypeLimit[t] BY <1>2, <2>4 DEF TypeSlotFree
    <3>4. IsFiniteSet(RunningOfType(t)') BY <2>1, <2>4, <3>1, FS_Subset
    <3>5. /\ Cardinality(RunningOfType(t)') \in Nat
          /\ Cardinality(RunningOfType(t) \cup {j}) \in Nat
      BY <3>1, <3>4, FS_CardinalityType
    <3> QED BY <2>3, <3>1, <3>2, <3>3, <3>5
  <2>5. CASE TypeOf[j] # t
    <3>1. /\ Cardinality(RunningOfType(t)') <= Cardinality(RunningOfType(t))
          /\ IsFiniteSet(RunningOfType(t)')
      BY <2>1, <2>2, <2>5, FS_Subset
    <3>2. Cardinality(RunningOfType(t)') \in Nat BY <3>1, FS_CardinalityType
    <3> QED BY <2>3, <3>1, <3>2 DEF SlotBudget
  <2> QED BY <2>4, <2>5
<1>5. Cardinality(RunningOnGpu)' <= GpuLimit
  <2>1. RunningOnGpu' \subseteq RunningOnGpu \cup (IF TypeOf[j] \in GpuTypes THEN {j} ELSE {})
    BY <1>2, <1>3 DEF RunningOnGpu
  <2>2. IsFiniteSet(RunningOnGpu)
    BY QueueAssumption, FS_Subset DEF RunningOnGpu
  <2>3. Cardinality(RunningOnGpu) \in Nat /\ GpuLimit \in Nat
    BY <2>2, FS_CardinalityType, QueueAssumption
  <2>4. CASE TypeOf[j] \in GpuTypes
    <3>1. /\ IsFiniteSet(RunningOnGpu \cup {j})
          /\ Cardinality(RunningOnGpu \cup {j}) <= Cardinality(RunningOnGpu) + 1
      BY <2>2, <2>3, FS_AddElement
    <3>2. Cardinality(RunningOnGpu') <= Cardinality(RunningOnGpu \cup {j})
      BY <2>1, <2>4, <3>1, FS_Subset
    <3>3. Cardinality(RunningOnGpu) < GpuLimit BY <1>2, <2>4 DEF GpuSlotFree
    <3>4. IsFiniteSet(RunningOnGpu') BY <2>1, <2>4, <3>1, FS_Subset
    <3>5. /\ Cardinality(RunningOnGpu') \in Nat
          /\ Cardinality(RunningOnGpu \cup {j}) \in Nat
      BY <3>1, <3>4, FS_CardinalityType
    <3> QED BY <2>3, <3>1, <3>2, <3>3, <3>5
  <2>5. CASE TypeOf[j] \notin GpuTypes
    <3>1. Cardinality(RunningOnGpu') <= Cardinality(RunningOnGpu) /\ IsFiniteSet(RunningOnGpu')
      BY <2>1, <2>2, <2>5, FS_Subset
    <3>2. Cardinality(RunningOnGpu') \in Nat BY <3>1, FS_CardinalityType
    <3> QED BY <2>3, <3>1, <3>2 DEF SlotBudget
  <2> QED BY <2>4, <2>5
<1> QED BY <1>4, <1>5 DEF SlotBudget

-----------------------------------------------------------------------------
(***************************************************************************)
(* The theorem.                                                            *)
(***************************************************************************)

\* The two parts of the invariant besides the budget.
LEMMA ReviewKept ==
  ASSUME TypeOK, NoReview, ViewsFollow,
         \A k \in Jobs : jobs'[k].status # "WAITING_FOR_REVIEW",
         \A v \in Workers : result'[v] # "input"
  PROVE  NoReview'
BY DEF NoReview, ViewsFollow

LEMMA ResumeKept ==
  ASSUME TypeOK, ResumesRetryable, NEW w \in Workers, OnlyMoves(w) PROVE ResumesRetryable'
<1>1. \A o \in Operators : o \in Sessions \ {w} BY QueueAssumption DEF Sessions
<1> QED BY <1>1 DEF ResumesRetryable, OnlyMoves

LEMMA SlotStep ==
  ASSUME InputJobs = {}, TypeOK, SlotInv, [Next]_vars PROVE SlotInv'
<1> USE DEF SlotInv
<1>1. NothingStarts => \A k \in Jobs : jobs'[k].status # "WAITING_FOR_REVIEW"
  BY DEF NothingStarts, NoReview
<1>2. CASE UNCHANGED vars
  <2>1. NothingStarts BY <1>2 DEF NothingStarts, vars
  <2>2. SlotBudget' BY <2>1, BudgetKept
  <2> QED BY <1>2, <2>2 DEF vars, NoReview, ResumesRetryable
<1>3. ASSUME NEW w \in Workers, WorkerStep(w), ~Claim(w) PROVE SlotInv'
  <2>1. /\ NothingStarts /\ ViewsFollow /\ OnlyMoves(w)
        /\ \A v \in Workers : result'[v] # "input"
    BY <1>3, WorkerStepStarts
  <2> QED BY <1>1, <2>1, BudgetKept, ReviewKept, ResumeKept
<1>4. ASSUME NEW w \in Workers, Claim(w) PROVE SlotInv'
  <2>1. PICK j \in Jobs : /\ jobs' = [jobs EXCEPT ![j] = Claimed(@, w)]
                          /\ task' = [task EXCEPT ![w] = j]
                          /\ view' = [view EXCEPT ![w] = [NoView EXCEPT ![j] = Claimed(jobs[j], w)]]
    BY <1>4 DEF Claim, Claimable
  <2>2. w \in Sessions /\ jobs \in [Jobs -> Row] /\ view \in [Sessions -> [Jobs -> Row]]
    BY DEF TypeOK, Sessions
  <2>3. Claimed(jobs[j], w).status = "RUNNING"
    BY <2>2 DEF Claimed, Row
  <2>4. \A k \in Jobs : jobs'[k].status # "WAITING_FOR_REVIEW"
    BY <2>1, <2>2, <2>3 DEF NoReview
  <2>5. \A k \in Jobs : NoView[k].status = "GONE" BY DEF NoView, GoneRow, NewRow
  <2>6. NoView \in [Jobs -> Row] BY NewRowType
  <2>7. \A s \in Sessions, k \in Jobs : view'[s][k].status # "WAITING_FOR_REVIEW"
    BY <2>1, <2>2, <2>3, <2>5, <2>6 DEF NoReview
  <2>8. NoReview' BY <1>4, <2>4, <2>7 DEF NoReview, Claim
  <2>9. OnlyMoves(w) BY <1>4, <2>1, <2>2 DEF OnlyMoves, Claim, Goto, TypeOK
  <2> QED BY <1>4, <2>8, <2>9, BudgetClaimed, ResumeKept
<1>5. ASSUME NEW w \in Workers, Start(w) \/ Crash(w) \/ Error(w) PROVE SlotInv'
  <2>1. jobs' = jobs BY <1>5 DEF Start, Crash, Error, Strikes
  <2>2. NothingStarts BY <2>1 DEF NothingStarts
  <2>3. CASE Start(w)
    <3>1. ViewsFollow /\ OnlyMoves(w) /\ \A v \in Workers : result'[v] \in {result[v], "ok"}
      BY <2>3, LooksLocal DEF Start
    <3> QED BY <1>1, <2>2, <3>1, BudgetKept, ReviewKept, ResumeKept DEF NoReview
  <2>4. CASE Crash(w) \/ Error(w)
    <3>1. ViewsFollow /\ OnlyMoves(w) /\ \A v \in Workers : result'[v] \in {result[v], "ok"}
      BY <2>4, EndWorkLocal DEF Crash, Error, Strikes
    <3> QED BY <1>1, <2>2, <3>1, BudgetKept, ReviewKept, ResumeKept DEF NoReview
  <2> QED BY <1>5, <2>3, <2>4
<1>6. ASSUME \/ \E w \in Workers : Heartbeat(w)
             \/ \E k \in Jobs : LockAges(k) \/ BecomesDue(k)
      PROVE  SlotInv'
  <2>1. UNCHANGED <<pc, task, view, result>> BY <1>6 DEF Heartbeat, LockAges, BecomesDue
  <2>2. ASSUME NEW r \in Row
        PROVE  /\ [r EXCEPT !.lock = "fresh"].status = r.status
               /\ [r EXCEPT !.lock = "stale"].status = r.status
               /\ [r EXCEPT !.due = TRUE].status = r.status
    BY DEF Row
  <2>3. \E k : \E r \in {[jobs[k] EXCEPT !.lock = "fresh"], [jobs[k] EXCEPT !.lock = "stale"],
                       [jobs[k] EXCEPT !.due = TRUE]} : jobs' = [jobs EXCEPT ![k] = r]
    BY <1>6 DEF Heartbeat, LockAges, BecomesDue
  <2>4. NothingStarts
    <3>1. PICK k, r : /\ jobs' = [jobs EXCEPT ![k] = r]
                      /\ r \in {[jobs[k] EXCEPT !.lock = "fresh"], [jobs[k] EXCEPT !.lock = "stale"],
                                [jobs[k] EXCEPT !.due = TRUE]}
      BY <2>3
    <3>2. k \in Jobs => r.status = jobs[k].status BY <2>2, <3>1 DEF TypeOK
    <3>3. \A i \in Jobs : jobs'[i].status = jobs[i].status BY <3>1, <3>2 DEF TypeOK
    <3> QED BY <3>3 DEF NothingStarts
  <2>5. SlotBudget' BY <2>4, BudgetKept
  <2>6. NoReview' BY <1>1, <2>1, <2>4 DEF NoReview
  <2>7. ResumesRetryable' BY <2>1 DEF ResumesRetryable
  <2> QED BY <2>5, <2>6, <2>7
<1>7. ASSUME NEW o \in Operators, NEW op \in Ops, NEW k \in Jobs, Request(o, op, k)
      PROVE  SlotInv'
  <2>1. o \in Sessions /\ view \in [Sessions -> [Jobs -> Row]] BY DEF TypeOK, Sessions
  <2>2. /\ ViewsFollow
        /\ \A t \in Sessions \ {o} : view'[t] = view[t]
    BY <1>7, <2>1, LoadFollows DEF Request
  <2>3. NothingStarts BY <1>7 DEF Request, NothingStarts
  <2>4. NoReview' BY <1>1, <1>7, <2>2, <2>3, ReviewKept DEF Request, NoReview
  <2>5. op = "resume" => view'[o][k].status = "RETRYABLE"
    BY <1>7, <2>1 DEF Request, Load, Allowed, CanResumeJob, NoReview
  <2>6. /\ pc'[o] = op /\ task'[o] = k
        /\ \A t \in Sessions \ {o} : pc'[t] = pc[t] /\ task'[t] = task[t]
    BY <1>7, <2>1 DEF Request, Goto, TypeOK
  <2>7. ASSUME NEW p \in Operators, pc'[p] = "resume"
        PROVE  view'[p][task'[p]].status = "RETRYABLE"
    <3>1. CASE p = o BY <2>5, <2>6, <2>7, <3>1
    <3>2. CASE p # o BY <2>2, <2>6, <2>7, <3>2 DEF Sessions, ResumesRetryable
    <3> QED BY <3>1, <3>2
  <2> QED BY <2>3, <2>4, <2>7, BudgetKept DEF ResumesRetryable
<1>8. ASSUME NEW o \in Operators, Respond(o) PROVE SlotInv'
  <2> DEFINE j == task[o]
             r == view[o][j]
  <2>1. /\ o \in Sessions /\ pc[o] \in Ops /\ j \in Jobs /\ r \in Row
        /\ jobs \in [Jobs -> Row] /\ view \in [Sessions -> [Jobs -> Row]]
    BY <1>8 DEF Respond, TypeOK, Sessions
  <2>2. NothingStarts
    <3>1. CASE jobs' = jobs BY <3>1 DEF NothingStarts
    <3>2. CASE jobs' = [jobs EXCEPT ![j] = GoneRow]
      BY <2>1, <3>2 DEF NothingStarts, GoneRow, NewRow
    <3>3. CASE Commit(o, j, Retried(r))
      BY <2>1, <3>3, CallStatus, CommitStatus
    <3>4. CASE Commit(o, j, Cancelled(r))
      BY <2>1, <3>4, CallStatus, CommitStatus
    <3>5. CASE pc[o] = "resume" /\ Commit(o, j, Resumed(r))
      <4>1. r.status = "RETRYABLE" BY <3>5 DEF ResumesRetryable
      <4> QED BY <2>1, <3>5, <4>1, CallStatus, CommitStatus
    <3> QED BY <1>8, <2>1, <3>1, <3>2, <3>3, <3>4, <3>5, QueueAssumption DEF Respond
  <2>3. ViewsFollow /\ \A t \in Sessions \ {o} : view'[t] = view[t]
    BY <1>8, <2>1, LoadFollows DEF Respond
  <2>4. NoReview' BY <1>1, <1>8, <2>2, <2>3, ReviewKept DEF Respond, NoReview
  <2>5. /\ pc'[o] = "idle"
        /\ \A t \in Sessions \ {o} : pc'[t] = pc[t] /\ task'[t] = task[t]
    BY <1>8, <2>1 DEF Respond, Goto, TypeOK
  <2>6. ResumesRetryable' BY <2>3, <2>5 DEF ResumesRetryable, Sessions
  <2> QED BY <2>2, <2>4, <2>6, BudgetKept
<1> QED BY <1>2, <1>3, <1>4, <1>5, <1>6, <1>7, <1>8 DEF Next

\* No row runs at first.
LEMMA SlotInit == Init => SlotInv
<1> SUFFICES ASSUME Init PROVE SlotInv OBVIOUS
<1>1. /\ \A k \in Jobs : jobs[k].status = "QUEUED"
      /\ \A s \in Sessions, k \in Jobs : view[s][k].status = "GONE"
  BY DEF Init, NewRow, NoView, GoneRow
<1>2. NoReview BY <1>1 DEF Init, NoReview
<1>3. ResumesRetryable BY QueueAssumption DEF Init, ResumesRetryable, Sessions
<1>4. RunningOnGpu = {} /\ \A t \in JobTypes : RunningOfType(t) = {}
  BY <1>1 DEF RunningOnGpu, RunningOfType
<1>5. SlotBudget
  <2>1. Cardinality({}) = 0 BY FS_EmptySet
  <2>2. \A t \in JobTypes : TypeLimit[t] \in Nat BY QueueAssumption
  <2>3. \A t \in JobTypes : Cardinality(RunningOfType(t)) <= TypeLimit[t]
    BY <1>4, <2>1, <2>2
  <2> QED BY <1>4, <2>1, <2>3, QueueAssumption DEF SlotBudget
<1> QED BY <1>2, <1>3, <1>5 DEF SlotInv

\* claim_next_job's budgets hold in every reachable state, for any number of
\* jobs, workers and operators, any caps and any pattern of faults, late
\* heartbeats and stale commits.
THEOREM SlotsBounded == ASSUME InputJobs = {} PROVE Spec => []SlotBudget
<1>1. TypeOK /\ SlotInv /\ [Next]_vars => SlotInv'
  BY SlotStep
<1>2. SlotInv => SlotBudget BY DEF SlotInv
<1> QED BY <1>1, <1>2, SlotInit, TypeCorrect, PTL DEF Spec
=============================================================================
