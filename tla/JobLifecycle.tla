---------------------------- MODULE JobLifecycle ----------------------------
(***************************************************************************)
(* What the job queue promises, without sessions, copies or locks: a job   *)
(* is executed by at most one holder at a time, its steps are done once    *)
(* and only while it is held, it completes when every step is done, and a  *)
(* terminal status is final.  docs/job-lifecycle.md and                    *)
(* docs/job-state-machine.md describe this contract.                       *)
(***************************************************************************)
EXTENDS JobStatus

CONSTANTS Jobs, Workers, Steps, NoOne

VARIABLES status, holder, done
lifecycle == <<status, holder, done>>

Held(j) == status[j] = "RUNNING"

Init ==
  /\ status = [j \in Jobs |-> "QUEUED"]
  /\ holder = [j \in Jobs |-> NoOne]
  /\ done = [j \in Jobs |-> {}]

Take(j, w) ==
  /\ status[j] \in {"QUEUED", "RETRYABLE"}
  /\ status' = [status EXCEPT ![j] = "RUNNING"]
  /\ holder' = [holder EXCEPT ![j] = w]
  /\ UNCHANGED done

Progress(j, i) ==
  /\ Held(j) /\ i \notin done[j]
  /\ done' = [done EXCEPT ![j] = @ \cup {i}]
  /\ UNCHANGED <<status, holder>>

\* Holders give jobs up or are found dead, several in one transaction of a
\* sweep; no work is undone.
GiveUp ==
  \E S \in SUBSET {j \in Jobs : Held(j)} :
    /\ \E to \in [S -> {"RETRYABLE", "FAILED"}] :
         status' = [j \in Jobs |-> IF j \in S THEN to[j] ELSE status[j]]
    /\ holder' = [j \in Jobs |-> IF j \in S THEN NoOne ELSE holder[j]]
    /\ UNCHANGED done

Complete(j) ==
  /\ Held(j) /\ done[j] = Steps
  /\ status' = [status EXCEPT ![j] = "COMPLETED"]
  /\ holder' = [holder EXCEPT ![j] = NoOne]
  /\ UNCHANGED done

Next == \/ \E j \in Jobs : \/ \E w \in Workers : Take(j, w)
                           \/ \E i \in Steps : Progress(j, i)
                           \/ Complete(j)
        \/ GiveUp

Spec == Init /\ [][Next]_lifecycle
=============================================================================
