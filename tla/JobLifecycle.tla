---------------------------- MODULE JobLifecycle ----------------------------
(***************************************************************************)
(* What the background-response queue promises its clients, with no lease, *)
(* worker or clock in it: a job waits and runs until exactly one decision  *)
(* (completed, failed or cancelled) is made about it, the decision is      *)
(* never revisited except by result expiry, the stored result is there     *)
(* exactly while the decision it belongs to is, and the decision is        *)
(* audited at most once, after it was made.  One step may move any number  *)
(* of jobs, because the recovery and expiry sweeps update in batches.      *)
(***************************************************************************)
EXTENDS Naturals

CONSTANT Jobs

VARIABLES status,   \* async_jobs.status, "absent" before the job is created
          result,   \* what async_job_results holds for the job
          audits    \* terminal audit records written for the job

jvars == <<status, result, audits>>

Status  == {"absent", "queued", "running", "completed", "failed",
            "cancelled", "expired"}
Decided == {"completed", "failed", "cancelled", "expired"}
Results == {"none", "response", "failure"}

Init ==
    /\ status = [j \in Jobs |-> "absent"]
    /\ result = [j \in Jobs |-> "none"]
    /\ audits = [j \in Jobs |-> 0]

(***************************************************************************)
(* The moves of one job, as <<from, to, result after>>.                    *)
(***************************************************************************)
Moves == {<<"absent",    "queued",    "none">>,
          <<"queued",    "running",   "none">>,
          <<"running",   "queued",    "none">>,
          <<"running",   "completed", "response">>,
          <<"running",   "failed",    "failure">>,
          <<"queued",    "cancelled", "none">>,
          <<"running",   "cancelled", "none">>,
          <<"completed", "expired",   "none">>,
          <<"failed",    "expired",   "none">>}

Move(j) ==
    \/ /\ status'[j] = status[j]
       /\ result'[j] = result[j]
    \/ <<status[j], status'[j], result'[j]>> \in Moves

Audit(j) ==
    \/ audits'[j] = audits[j]
    \/ /\ status[j] \in Decided
       /\ audits[j] = 0
       /\ audits'[j] = 1

Next ==
    /\ status' \in [Jobs -> Status]
    /\ result' \in [Jobs -> Results]
    /\ audits' \in [Jobs -> Nat]
    /\ \A j \in Jobs : Move(j) /\ Audit(j)

Spec == Init /\ [][Next]_jvars
=============================================================================
