----------------------------- MODULE JobStatus -----------------------------
(***************************************************************************)
(* The status vocabulary and the transition tables of jobs and job steps   *)
(* (services/job_state_machine.py).  GONE stands for a row that was        *)
(* deleted from the jobs table; it is not a status of the code.            *)
(***************************************************************************)
EXTENDS Naturals

JobStatuses == {"QUEUED", "RUNNING", "WAITING_FOR_REVIEW", "FAILED",
                "RETRYABLE", "CANCELLED", "COMPLETED"}

StepStatuses == {"PENDING", "RUNNING", "WAITING_FOR_INPUT", "FAILED",
                 "SKIPPED", "COMPLETED"}

JobTransitions ==
  {<<"QUEUED", "RUNNING">>, <<"QUEUED", "CANCELLED">>,
   <<"RUNNING", "WAITING_FOR_REVIEW">>, <<"RUNNING", "FAILED">>,
   <<"RUNNING", "RETRYABLE">>, <<"RUNNING", "CANCELLED">>,
   <<"RUNNING", "COMPLETED">>,
   <<"WAITING_FOR_REVIEW", "RUNNING">>, <<"WAITING_FOR_REVIEW", "CANCELLED">>,
   <<"FAILED", "RETRYABLE">>, <<"FAILED", "QUEUED">>,
   <<"RETRYABLE", "QUEUED">>, <<"RETRYABLE", "RUNNING">>,
   <<"RETRYABLE", "CANCELLED">>}

StepTransitions ==
  {<<"PENDING", "RUNNING">>, <<"PENDING", "SKIPPED">>,
   <<"RUNNING", "WAITING_FOR_INPUT">>, <<"RUNNING", "FAILED">>,
   <<"RUNNING", "SKIPPED">>, <<"RUNNING", "COMPLETED">>,
   <<"WAITING_FOR_INPUT", "RUNNING">>, <<"WAITING_FOR_INPUT", "SKIPPED">>,
   <<"FAILED", "PENDING">>, <<"FAILED", "RUNNING">>, <<"FAILED", "SKIPPED">>}

\* validate_job_transition / validate_step_transition: anything else raises.
JobMayMove(from, to)  == from = to \/ <<from, to>> \in JobTransitions
StepMayMove(from, to) == from = to \/ <<from, to>> \in StepTransitions

CanRetryJob(status, attempts, max) ==
  \/ status = "FAILED"
  \/ status = "RETRYABLE" /\ attempts < max

CanCancelJob(status) == status \notin {"CANCELLED", "COMPLETED"}
CanResumeJob(status) == status \in {"WAITING_FOR_REVIEW", "RETRYABLE"}
=============================================================================
