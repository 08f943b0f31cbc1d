----------------------------- MODULE AsyncJobs -----------------------------
(***************************************************************************)
(* The durable background-job queue: the Postgres store of                 *)
(* internal/store/pg/async.go, the worker pool of                          *)
(* internal/async/worker.go in several gateway processes, and the cancel   *)
(* handler of internal/httpapi/async.go.  A store call is one step (one    *)
(* statement or one transaction decided by row locks), except Cancel,      *)
(* whose two conditional updates run under READ COMMITTED and are two.     *)
(* A worker takes one step per call it makes, so every other actor can act *)
(* between two calls.  Deadlines are countdowns moved by Tick; a countdown *)
(* of -1 is strictly past.                                                 *)
(***************************************************************************)
EXTENDS Integers, FiniteSets

CONSTANTS
    NumJobs,            \* jobs are created in the order 1..NumJobs
    Workers,            \* worker goroutines, over all processes
    Cancellers,         \* concurrent cancel requests
    Procs,              \* gateway processes: each has one lease identity
    ProcOf,             \* the process of each worker
    CProcOf,            \* the process serving each cancel request
    Lease,              \* PoolConfig.Lease, in ticks
    ResultTTL,          \* PoolConfig.ResultTTL, in ticks
    JobTimeout,         \* PoolConfig.JobTimeout, in ticks
    Backoff,            \* PoolConfig.PollInterval as a retry delay, in ticks
    MaxAttempts,        \* PoolConfig.MaxAttempts
    MaxFaults,          \* bound: crashes, failed store calls, lost answers
    MaxStops,           \* bound: graceful shutdowns
    AttemptCap,         \* bound: attempts the skipped-lock requeue may reach
    TimelyHeartbeats,   \* TRUE: no lease lapses under a live execution
    None

Jobs == 1 .. NumJobs

ASSUME NumJobsAssumption == NumJobs \in Nat \ {0}
ASSUME ProcOfAssumption  == ProcOf \in [Workers -> Procs]
ASSUME CProcOfAssumption == CProcOf \in [Cancellers -> Procs]
ASSUME TimeAssumption ==
    /\ Lease \in Nat \ {0}
    /\ ResultTTL \in Nat \ {0}
    /\ JobTimeout \in Nat \ {0}
    /\ Backoff \in Nat
ASSUME AttemptAssumption ==
    /\ MaxAttempts \in Nat \ {0}
    /\ AttemptCap \in Nat
ASSUME BoundAssumption ==
    /\ MaxFaults \in Nat
    /\ MaxStops \in Nat
ASSUME ModeAssumption == TimelyHeartbeats \in BOOLEAN
ASSUME NoneAssumption == None \notin Procs \cup Workers \cup Jobs

VARIABLES
    row,        \* the async_jobs row of each job, with its stored result
    ledger,     \* usage_ledger rows of the job: how many reserved, one settled
    audits,     \* terminal audit records written for the job
    claimant,   \* history: the worker whose claim of the job is the latest
    wk,         \* what each worker goroutine is doing
    registry,   \* CancelRegistry of each process: the registered execution
    proc,       \* "up", "draining", "aborting" or "down"
    sweeper,    \* the sweep goroutine of each process
    canceller,  \* the cancel requests
    faults,     \* faults so far
    stops       \* graceful shutdowns so far

storeVars == <<row, claimant>>
envVars   == <<faults, stops>>
vars == <<row, ledger, audits, claimant, wk, registry, proc, sweeper,
          canceller, faults, stops>>

Status   == {"absent", "queued", "running", "completed", "failed",
             "cancelled", "expired"}
Finished == {"completed", "failed"}
Decided  == {"completed", "failed", "cancelled", "expired"}
Results  == {"none", "response", "failure"}

Row == [status : Status, attempts : Nat, owner : Procs \cup {None},
        lease : -1 .. Lease, hidden : 0 .. Backoff,
        keep : -1 .. ResultTTL, result : Results]

NewRow == [status |-> "absent", attempts |-> 0, owner |-> None, lease |-> 0,
           hidden |-> 0, keep |-> 0, result |-> "none"]

(***************************************************************************)
(* A worker: where it is in run, the job and the attempt count it claimed, *)
(* the time its execution context has left and how that context ended, the *)
(* heartbeat goroutine, the outcome of the call (or the reason for handing *)
(* the job back), whether the outcome reported usage, and the store's      *)
(* answer to the terminal commit.                                          *)
(***************************************************************************)
WorkerAt  == {"idle", "admit", "reserved", "exec", "ended", "answered",
              "audit", "handback"}
Outcome   == {"none", "denied", "answer", "rejected", "retryable", "fatal",
              "free", "bump", "abort", "retry"}
Context   == {"live", "deadline", "canceled"}
Decision  == {"none", "won", "lost", "error"}

Worker == [at : WorkerAt, job : Jobs \cup {None}, seen : Nat,
           left : 0 .. JobTimeout, ctx : Context, beat : BOOLEAN,
           out : Outcome, known : BOOLEAN, dec : Decision]

Idle == [at |-> "idle", job |-> None, seen |-> 0, left |-> 0, ctx |-> "live",
         beat |-> FALSE, out |-> "none", known |-> FALSE, dec |-> "none"]

ProcState  == {"up", "draining", "aborting", "down"}
Sweeper    == [at : {"recover", "audit", "expire"}, failed : SUBSET Jobs]
Sweeps(at, jobs) == [at |-> at, failed |-> jobs]
Canceller  == [at : {"idle", "second", "won"}, job : Jobs \cup {None}]
Cancels(at, j) == [at |-> at, job |-> j]
NoCancel   == Cancels("idle", None)

Init ==
    /\ row = [j \in Jobs |-> NewRow]
    /\ ledger = [j \in Jobs |-> [reserved |-> 0, settled |-> FALSE]]
    /\ audits = [j \in Jobs |-> 0]
    /\ claimant = [j \in Jobs |-> None]
    /\ wk = [w \in Workers |-> Idle]
    /\ registry = [p \in Procs |-> [j \in Jobs |-> None]]
    /\ proc = [p \in Procs |-> "up"]
    /\ sweeper = [p \in Procs |-> Sweeps("recover", {})]
    /\ canceller = [c \in Cancellers |-> NoCancel]
    /\ faults = 0
    /\ stops = 0

Fault   == faults < MaxFaults /\ faults' = faults + 1 /\ UNCHANGED stops
NoFault == UNCHANGED envVars

-----------------------------------------------------------------------------
(* What the store's conditional updates do to a row.                       *)

Created(r) == [r EXCEPT !.status = "queued"]

(* Mutation: a claim grants more than the configured lease. *)
ClaimedTooLong(r, p) ==
    [r EXCEPT !.status = "running", !.owner = p, !.lease = Lease + 1]

Claimed(r, p) ==
    [r EXCEPT !.status = "running", !.owner = p, !.lease = Lease]

Renewed(r) == [r EXCEPT !.lease = Lease]

(* Mutation: the attempt is not counted. *)
RequeuedForFree(r, bump, delay) ==
    [r EXCEPT !.status = "queued", !.owner = None, !.lease = 0,
              !.hidden = delay]

Requeued(r, bump, delay) ==
    [r EXCEPT !.status = "queued", !.owner = None, !.lease = 0,
              !.attempts = @ + bump, !.hidden = delay]

Finish(r, s, ttl) ==
    [r EXCEPT !.status = s, !.owner = None, !.lease = 0,
              !.attempts = @ + 1, !.keep = ttl,
              !.result = IF s = "completed" THEN "response" ELSE "failure"]

Cancelled(r) ==
    [r EXCEPT !.status = "cancelled", !.owner = None, !.lease = 0]

Expired(r) == [r EXCEPT !.status = "expired", !.result = "none"]

Claimable(j) == row[j].status = "queued" /\ row[j].hidden = 0

(* Mutations: leases recovered a tick early; attempts compared off by one. *)
LapsedEarly(j)   == row[j].status = "running" /\ row[j].lease <= 0
ExhaustedLate(j) == row[j].attempts + 1 > MaxAttempts

Lapsed(j)    == row[j].status = "running" /\ row[j].lease = -1
Exhausted(j) == row[j].attempts + 1 >= MaxAttempts
Due(j)       == row[j].status \in Finished /\ row[j].keep = -1

(* Mutation: the lease owner is not compared. *)
OwnsAnyLease(w) ==
    /\ wk[w].job # None
    /\ row[wk[w].job].status = "running"

(***************************************************************************)
(* The WHERE clause of Heartbeat, CommitSuccess, CommitFailure and Requeue *)
(* when worker w makes the call: the row runs under the lease identity of  *)
(* w's process.  Neither the lease's expiry nor the claim is looked at.    *)
(***************************************************************************)
Owns(w) ==
    /\ wk[w].job # None
    /\ row[wk[w].job].status = "running"
    /\ row[wk[w].job].owner = ProcOf[w]

(* The usage_ledger updates: settling is refused by the unique index once  *)
(* a settled row exists, releasing takes the latest reserved row.          *)

Held(l) == [l EXCEPT !.reserved = @ + 1]

(* Mutation: the reservation is forgotten. *)
FreedNever(l) == l

Freed(l)   == [l EXCEPT !.reserved = IF @ > 0 THEN @ - 1 ELSE 0]
Charged(l) == IF l.reserved > 0 /\ ~l.settled
              THEN [l EXCEPT !.reserved = @ - 1, !.settled = TRUE] ELSE l

Reserve(j) == ledger' = [ledger EXCEPT ![j] = Held(@)]
Release(j) == ledger' = [ledger EXCEPT ![j] = Freed(@)]
Settle(j)  == ledger' = [ledger EXCEPT ![j] = Charged(@)]

-----------------------------------------------------------------------------
(* What the steps of run do to the worker that takes them.                 *)

Admits(j, n) == [Idle EXCEPT !.at = "admit", !.job = j, !.seen = n]

Goes(r, at, out) == [r EXCEPT !.at = at, !.out = out]

Starts(r, timeout) ==
    [r EXCEPT !.at = "exec", !.left = timeout, !.beat = TRUE]

Beats(r, on) == [r EXCEPT !.beat = on]

CancelContext(r) ==
    [r EXCEPT !.ctx = IF @ = "live" THEN "canceled" ELSE @]

Returned(r, out, known, flying) ==
    [r EXCEPT !.at = "ended", !.out = out, !.known = known, !.beat = flying]

Answered(r, dec) == [r EXCEPT !.at = "answered", !.dec = dec]

-----------------------------------------------------------------------------
(* Creation and claiming.                                                  *)

Create(j) ==
    /\ row[j].status = "absent"
    /\ \A k \in Jobs : k < j => row[k].status # "absent"
    /\ row' = [row EXCEPT ![j] = Created(@)]
    /\ UNCHANGED <<ledger, audits, claimant, wk, registry, proc, sweeper,
                   canceller, envVars>>

ClaimRow(w, j) ==
    /\ wk[w].at = "idle"
    /\ proc[ProcOf[w]] = "up"
    /\ Claimable(j)
    /\ \A k \in Jobs : Claimable(k) => j <= k
    /\ row' = [row EXCEPT ![j] = Claimed(@, ProcOf[w])]
    /\ claimant' = [claimant EXCEPT ![j] = w]
    /\ UNCHANGED <<ledger, audits, registry, proc, sweeper, canceller>>

Claim(w, j) ==
    /\ ClaimRow(w, j)
    /\ wk' = [wk EXCEPT ![w] = Admits(j, row[j].attempts)]
    /\ NoFault

(* The claim commits but its answer is lost: nobody executes the job.      *)
ClaimUnanswered(w, j) ==
    /\ ClaimRow(w, j)
    /\ Fault
    /\ UNCHANGED wk

-----------------------------------------------------------------------------
(* Admission of a claimed job: re-admission, limiter, quota, budgets.      *)

WorkerOnly == UNCHANGED <<storeVars, audits, registry, proc, sweeper,
                          canceller>>

(* A permanent refusal, or a transient one on the last attempt.            *)
AdmitDeny(w) ==
    /\ wk[w].at = "admit"
    /\ wk' = [wk EXCEPT ![w] = Goes(@, "ended", "denied")]
    /\ UNCHANGED ledger
    /\ NoFault
    /\ WorkerOnly

(* No route or over the rate limit: retry later, at the cost of an attempt.*)
AdmitRetry(w) ==
    /\ wk[w].at = "admit"
    /\ wk[w].seen + 1 < MaxAttempts
    /\ wk' = [wk EXCEPT ![w] = Goes(@, "handback", "bump")]
    /\ UNCHANGED ledger
    /\ NoFault
    /\ WorkerOnly

(* Limiter, policy, quota or accounting unavailable, as they all are once  *)
(* Stop has cancelled the pool context: hand back without an attempt.  The *)
(* ledger row may have been written before the answer was lost.            *)
AdmitOutage(w) ==
    /\ wk[w].at = "admit"
    /\ wk' = [wk EXCEPT ![w] = Goes(@, "handback", "free")]
    /\ \/ proc[ProcOf[w]] # "up" /\ NoFault /\ UNCHANGED ledger
       \/ Fault /\ (UNCHANGED ledger \/ Reserve(wk[w].job))
    /\ WorkerOnly

AdmitReserve(w) ==
    /\ wk[w].at = "admit"
    /\ proc[ProcOf[w]] = "up"
    /\ wk' = [wk EXCEPT ![w] = Goes(@, "reserved", "none")]
    /\ Reserve(wk[w].job)
    /\ NoFault
    /\ WorkerOnly

-----------------------------------------------------------------------------
(* The execution: detached context, registration, heartbeats, the call.    *)

(* Mutation: no job timeout. *)
StartExecUnbounded(w) ==
    /\ wk[w].at = "reserved"
    /\ wk' = [wk EXCEPT ![w] = Starts(@, 0)]
    /\ registry' = [registry EXCEPT ![ProcOf[w]][wk[w].job] = w]
    /\ NoFault
    /\ UNCHANGED <<storeVars, ledger, audits, proc, sweeper, canceller>>

StartExec(w) ==
    /\ wk[w].at = "reserved"
    /\ wk' = [wk EXCEPT ![w] = Starts(@, JobTimeout)]
    /\ registry' = [registry EXCEPT ![ProcOf[w]][wk[w].job] = w]
    /\ NoFault
    /\ UNCHANGED <<storeVars, ledger, audits, proc, sweeper, canceller>>

(***************************************************************************)
(* One heartbeat.  After the call returned, at most one that was already   *)
(* on its way is left (CallReturns).  A lost lease or a failed store call  *)
(* cancels the execution and ends the loop.                                *)
(***************************************************************************)
Beating(w) == wk[w].at \in {"exec", "ended", "answered"} /\ wk[w].beat

Heartbeat(w) ==
    /\ Beating(w)
    /\ Owns(w)
    /\ row' = [row EXCEPT ![wk[w].job] = Renewed(@)]
    /\ wk' = [wk EXCEPT ![w] = Beats(@, @.at = "exec")]
    /\ NoFault
    /\ UNCHANGED <<claimant, ledger, audits, registry, proc, sweeper,
                   canceller>>

HeartbeatFails(w) ==
    /\ Beating(w)
    /\ IF Owns(w) THEN Fault ELSE NoFault
    /\ wk' = [wk EXCEPT ![w] = Beats(CancelContext(@), FALSE)]
    /\ UNCHANGED ledger
    /\ WorkerOnly

(* Service.Complete returns a response (deliverable or not, with usage or  *)
(* without) or an error; an error after the context ended is a timeout.    *)
CallReturns(w, out, known) ==
    /\ wk[w].at = "exec"
    /\ known => out \in {"answer", "rejected"}
    /\ out = "fatal" => wk[w].ctx = "live"
    /\ \E flying \in BOOLEAN :
          /\ flying => wk[w].beat
          /\ wk' = [wk EXCEPT ![w] = Returned(@, out, known, flying)]
    /\ UNCHANGED ledger
    /\ NoFault
    /\ WorkerOnly

(* Once its context ended, the call does return: providers honour it.      *)
CallAborted(w) ==
    /\ wk[w].ctx # "live"
    /\ CallReturns(w, "retryable", FALSE)

-----------------------------------------------------------------------------
(* The end of an execution: hand back or commit, then settle or release.   *)

(* run's deferred unregister deletes whatever entry the job has.           *)
Leave(w) ==
    /\ wk' = [wk EXCEPT ![w] = Idle]
    /\ registry' = IF wk[w].out \in {"denied", "free", "bump"}
                   THEN registry
                   ELSE [registry EXCEPT ![ProcOf[w]][wk[w].job] = None]

(* runFailed on a cancelled context: release, then hand back for free.     *)
FailAbort(w) ==
    /\ wk[w].at = "ended"
    /\ wk[w].out \in {"retryable", "fatal"}
    /\ wk[w].ctx = "canceled"
    /\ wk' = [wk EXCEPT ![w] = Goes(@, "handback", "abort")]
    /\ \/ Release(wk[w].job) /\ NoFault
       \/ UNCHANGED ledger /\ Fault
    /\ WorkerOnly

(* runFailed with attempts left: release, then hand back for an attempt.   *)
FailRetry(w) ==
    /\ wk[w].at = "ended"
    /\ wk[w].out = "retryable"
    /\ wk[w].ctx # "canceled"
    /\ wk[w].seen + 1 < MaxAttempts
    /\ wk' = [wk EXCEPT ![w] = Goes(@, "handback", "retry")]
    /\ \/ Release(wk[w].job) /\ NoFault
       \/ UNCHANGED ledger /\ Fault
    /\ WorkerOnly

(* The context a terminal commit runs on: the pool's for an admission      *)
(* failure, the execution's otherwise.                                     *)
CommitContextLive(w) ==
    IF wk[w].out = "denied" THEN proc[ProcOf[w]] = "up"
                            ELSE wk[w].ctx = "live"

Committing(w) ==
    /\ wk[w].at = "ended"
    /\ \/ wk[w].out \in {"denied", "answer", "rejected", "fatal"}
       \/ wk[w].out = "retryable" /\ wk[w].seen + 1 >= MaxAttempts

CommitRow(w) ==
    row' = IF Owns(w)
           THEN [row EXCEPT ![wk[w].job] =
                   Finish(@, IF wk[w].out = "answer" THEN "completed"
                                                     ELSE "failed",
                          ResultTTL)]
           ELSE row

(* CommitSuccess / CommitFailure; the answer may be lost after it landed.  *)
Commit(w) ==
    /\ Committing(w)
    /\ CommitContextLive(w)
    /\ CommitRow(w)
    /\ \/ /\ wk' = [wk EXCEPT ![w] =
                       Answered(@, IF Owns(w) THEN "won" ELSE "lost")]
          /\ NoFault
       \/ wk' = [wk EXCEPT ![w] = Answered(@, "error")] /\ Fault
    /\ UNCHANGED <<claimant, ledger, audits, registry, proc, sweeper,
                   canceller>>

(* The commit does not land: its context ended, or the store failed.       *)
CommitFails(w) ==
    /\ Committing(w)
    /\ wk' = [wk EXCEPT ![w] = Answered(@, "error")]
    /\ IF CommitContextLive(w) THEN Fault ELSE NoFault
    /\ UNCHANGED ledger
    /\ WorkerOnly

Reserved(w) == wk[w].out # "denied"

(* Handing off an error, or an answer a cancelled context kept from        *)
(* arriving: release and leave the job to the lease sweep.                 *)
HandoffError(w) ==
    /\ wk[w].at = "answered"
    /\ wk[w].dec = "error" \/ ~CommitContextLive(w)
    /\ Leave(w)
    /\ IF Reserved(w)
       THEN \/ Release(wk[w].job) /\ NoFault
            \/ UNCHANGED ledger /\ Fault
       ELSE UNCHANGED ledger /\ NoFault
    /\ UNCHANGED <<storeVars, audits, proc, sweeper, canceller>>

(* Mutation: a lost commit with known usage settles whoever won. *)
HandoffLostSettles(w) ==
    /\ wk[w].at = "answered"
    /\ wk[w].dec = "lost"
    /\ Leave(w)
    /\ NoFault
    /\ IF ~Reserved(w) THEN UNCHANGED ledger
       ELSE IF wk[w].known THEN Settle(wk[w].job)
       ELSE Release(wk[w].job)
    /\ UNCHANGED <<storeVars, audits, proc, sweeper, canceller>>

(* A lost commit settles when the output is known and a cancel won, and    *)
(* releases otherwise; jobCancelled answers FALSE when its read fails.     *)
HandoffLost(w) ==
    /\ wk[w].at = "answered"
    /\ wk[w].dec = "lost"
    /\ Leave(w)
    /\ LET j == wk[w].job
           cancelled == row[j].status = "cancelled"
       IN  \/ /\ NoFault
              /\ IF ~Reserved(w) THEN UNCHANGED ledger
                 ELSE IF wk[w].known /\ cancelled THEN Settle(j)
                 ELSE Release(j)
           \/ /\ Fault
              /\ UNCHANGED ledger \/ (Reserved(w) /\ Release(j))
    /\ UNCHANGED <<storeVars, audits, proc, sweeper, canceller>>

(* The winner settles; a settlement that fails twice leaves the row.       *)
HandoffWon(w) ==
    /\ wk[w].at = "answered"
    /\ wk[w].dec = "won"
    /\ wk' = [wk EXCEPT ![w] = Goes(@, "audit", @.out)]
    /\ \/ /\ NoFault
          /\ IF Reserved(w) THEN Settle(wk[w].job) ELSE UNCHANGED ledger
       \/ Fault /\ UNCHANGED ledger
    /\ WorkerOnly

AuditWon(w) ==
    /\ wk[w].at = "audit"
    /\ audits' = [audits EXCEPT ![wk[w].job] = @ + 1]
    /\ Leave(w)
    /\ NoFault
    /\ UNCHANGED <<storeVars, ledger, proc, sweeper, canceller>>

(* Store.Requeue under the recorded lease owner; a lost race is a no-op.   *)
Requeue(w) ==
    /\ wk[w].at = "handback"
    /\ row' = IF Owns(w)
              THEN [row EXCEPT ![wk[w].job] =
                      Requeued(@, IF wk[w].out \in {"bump", "retry"} THEN 1
                                                                     ELSE 0,
                               IF wk[w].out = "abort" THEN 0 ELSE Backoff)]
              ELSE row
    /\ Leave(w)
    /\ NoFault
    /\ UNCHANGED <<claimant, ledger, audits, proc, sweeper, canceller>>

RequeueFails(w) ==
    /\ wk[w].at = "handback"
    /\ Leave(w)
    /\ Fault
    /\ UNCHANGED <<storeVars, ledger, audits, proc, sweeper, canceller>>

-----------------------------------------------------------------------------
(* The sweep of each process.                                              *)

SweepOnly == UNCHANGED <<claimant, ledger, wk, registry, proc, canceller>>

(***************************************************************************)
(* RecoverExpiredLeases: lapsed jobs on their last attempt fail, the other *)
(* lapsed jobs return to the queue with the attempt counted.  The first    *)
(* statement skips rows another transaction has locked; a terminal commit  *)
(* rolled back because its context ended frees its row before the second   *)
(* statement, which does not look at the attempts.                         *)
(***************************************************************************)
Skippable(j) ==
    /\ row[j].attempts < AttemptCap
    /\ \E w \in Workers :
          Committing(w) /\ wk[w].job = j /\ ~CommitContextLive(w)

Recover(p) ==
    /\ sweeper[p].at = "recover"
    /\ proc[p] = "up"
    /\ \E skipped \in SUBSET {j \in Jobs : Lapsed(j) /\ Exhausted(j)
                                           /\ Skippable(j)} :
          LET failing == {j \in Jobs : Lapsed(j) /\ Exhausted(j)} \ skipped
          IN  /\ row' = [j \in Jobs |->
                    IF j \in failing THEN Finish(row[j], "failed", 0)
                    ELSE IF Lapsed(j) THEN Requeued(row[j], 1, 0)
                    ELSE row[j]]
              /\ \/ /\ sweeper' = [sweeper EXCEPT ![p] =
                                     Sweeps("audit", failing)]
                    /\ NoFault
                 \/ /\ sweeper' = [sweeper EXCEPT ![p] = Sweeps("expire", {})]
                    /\ Fault
    /\ UNCHANGED audits
    /\ SweepOnly

(* auditLeaseLost, one job at a time; it needs no context.                 *)
SweepAudit(p) ==
    /\ sweeper[p].at = "audit"
    /\ IF sweeper[p].failed = {}
       THEN /\ sweeper' = [sweeper EXCEPT ![p] = Sweeps("expire", {})]
            /\ UNCHANGED audits
       ELSE \E j \in sweeper[p].failed :
               /\ audits' = [audits EXCEPT ![j] = @ + 1]
               /\ sweeper' = [sweeper EXCEPT ![p] =
                                 Sweeps("audit", @.failed \ {j})]
    /\ NoFault
    /\ UNCHANGED row
    /\ SweepOnly

ExpireDue(p) ==
    /\ sweeper[p].at = "expire"
    /\ proc[p] = "up"
    /\ row' = [j \in Jobs |-> IF Due(j) THEN Expired(row[j]) ELSE row[j]]
    /\ sweeper' = [sweeper EXCEPT ![p] = Sweeps("recover", {})]
    /\ NoFault
    /\ UNCHANGED audits
    /\ SweepOnly

(* A client's Get expires a due result lazily.                             *)
GetExpires(j) ==
    /\ Due(j)
    /\ row' = [row EXCEPT ![j] = Expired(@)]
    /\ UNCHANGED <<claimant, ledger, audits, wk, registry, proc, sweeper,
                   canceller, envVars>>

-----------------------------------------------------------------------------
(* Client cancellation.                                                    *)

CancelOnly == UNCHANGED <<claimant, ledger, proc, sweeper, envVars>>

(* Cancel's first statement: the job is still queued.                      *)
CancelQueued(c, j) ==
    /\ canceller[c].at = "idle"
    /\ proc[CProcOf[c]] = "up"
    /\ row[j].status = "queued"
    /\ row' = [row EXCEPT ![j] = Cancelled(@)]
    /\ canceller' = [canceller EXCEPT ![c] = Cancels("won", j)]
    /\ UNCHANGED <<audits, wk, registry>>
    /\ CancelOnly

(* It is not; an expired job was already refused by the handler.           *)
CancelMisses(c, j) ==
    /\ canceller[c].at = "idle"
    /\ proc[CProcOf[c]] = "up"
    /\ row[j].status \in {"running", "completed", "failed", "cancelled"}
    /\ canceller' = [canceller EXCEPT ![c] = Cancels("second", j)]
    /\ UNCHANGED <<row, audits, wk, registry>>
    /\ CancelOnly

(* Mutations: the status is not compared; the win is taken for a no-op. *)
CancelAnyStatus(c) ==
    /\ canceller[c].at = "second"
    /\ row' = [row EXCEPT ![canceller[c].job] = Cancelled(@)]
    /\ canceller' = [canceller EXCEPT ![c] = Cancels("won", @.job)]
    /\ UNCHANGED <<audits, wk, registry>>
    /\ CancelOnly

CancelRunningSilently(c) ==
    /\ canceller[c].at = "second"
    /\ row[canceller[c].job].status = "running"
    /\ row' = [row EXCEPT ![canceller[c].job] = Cancelled(@)]
    /\ canceller' = [canceller EXCEPT ![c] = NoCancel]
    /\ UNCHANGED <<audits, wk, registry>>
    /\ CancelOnly

(* The second statement: the job is running now.                           *)
CancelRunning(c) ==
    /\ canceller[c].at = "second"
    /\ row[canceller[c].job].status = "running"
    /\ row' = [row EXCEPT ![canceller[c].job] = Cancelled(@)]
    /\ canceller' = [canceller EXCEPT ![c] = Cancels("won", @.job)]
    /\ UNCHANGED <<audits, wk, registry>>
    /\ CancelOnly

(* Neither statement matched: CancelNoop, nothing is audited or signalled. *)
CancelNoop(c) ==
    /\ canceller[c].at = "second"
    /\ row[canceller[c].job].status # "running"
    /\ canceller' = [canceller EXCEPT ![c] = NoCancel]
    /\ UNCHANGED <<row, audits, wk, registry>>
    /\ CancelOnly

Signalled(p, jobs) ==
    [w \in Workers |->
        IF \E j \in jobs : registry[p][j] = w THEN CancelContext(wk[w])
                                              ELSE wk[w]]

(* The winner writes the audit record and signals a local execution.       *)
CancelFinish(c) ==
    /\ canceller[c].at = "won"
    /\ audits' = [audits EXCEPT ![canceller[c].job] = @ + 1]
    /\ wk' = Signalled(CProcOf[c], {canceller[c].job})
    /\ canceller' = [canceller EXCEPT ![c] = NoCancel]
    /\ UNCHANGED <<row, registry>>
    /\ CancelOnly

-----------------------------------------------------------------------------
(* Processes: graceful stop, crash, restart.                               *)

ProcOnly == UNCHANGED <<storeVars, ledger, audits>>

(* Stop, after the HTTP server has shut down: intake and the sweep end,    *)
(* admissions see a cancelled context.                                     *)
StopBegin(p) ==
    /\ proc[p] = "up"
    /\ \A c \in Cancellers : CProcOf[c] = p => canceller[c] = NoCancel
    /\ stops < MaxStops
    /\ stops' = stops + 1
    /\ proc' = [proc EXCEPT ![p] = "draining"]
    /\ UNCHANGED <<wk, registry, sweeper, canceller, faults>>
    /\ ProcOnly

(* The drain window elapsed: every registered execution is cancelled.      *)
DrainElapses(p) ==
    /\ proc[p] = "draining"
    /\ \E w \in Workers : ProcOf[w] = p /\ wk[w] # Idle
    /\ proc' = [proc EXCEPT ![p] = "aborting"]
    /\ wk' = Signalled(p, Jobs)
    /\ UNCHANGED <<registry, sweeper, canceller, envVars>>
    /\ ProcOnly

(* Every goroutine has returned.                                           *)
StopDone(p) ==
    /\ proc[p] \in {"draining", "aborting"}
    /\ \A w \in Workers : ProcOf[w] = p => wk[w] = Idle
    /\ sweeper[p].at # "audit"
    /\ proc' = [proc EXCEPT ![p] = "down"]
    /\ sweeper' = [sweeper EXCEPT ![p] = Sweeps("recover", {})]
    /\ UNCHANGED <<wk, registry, canceller, envVars>>
    /\ ProcOnly

Crash(p) ==
    /\ proc[p] # "down"
    /\ Fault
    /\ proc' = [proc EXCEPT ![p] = "down"]
    /\ wk' = [w \in Workers |-> IF ProcOf[w] = p THEN Idle ELSE wk[w]]
    /\ canceller' = [c \in Cancellers |->
                       IF CProcOf[c] = p THEN NoCancel ELSE canceller[c]]
    /\ registry' = [registry EXCEPT ![p] = [j \in Jobs |-> None]]
    /\ sweeper' = [sweeper EXCEPT ![p] = Sweeps("recover", {})]
    /\ ProcOnly

(* The new process has a new lease identity, which no row or execution     *)
(* carries; the old executions are gone, so the old name serves for it.    *)
Restart(p) ==
    /\ proc[p] = "down"
    /\ proc' = [proc EXCEPT ![p] = "up"]
    /\ UNCHANGED <<wk, registry, sweeper, canceller, envVars>>
    /\ ProcOnly

-----------------------------------------------------------------------------
(* Time.                                                                   *)

Down(n, least) == IF n > least THEN n - 1 ELSE n

Aged(r) ==
    [r EXCEPT !.lease  = IF r.status = "running" THEN Down(@, -1) ELSE @,
              !.hidden = Down(@, 0),
              !.keep   = IF r.status \in Finished THEN Down(@, -1) ELSE @]

Elapsed(r) ==
    [r EXCEPT !.left = Down(@, 0),
              !.ctx  = IF r.left = 1 /\ @ = "live" THEN "deadline" ELSE @]

(* One tick.  Under TimelyHeartbeats it waits for every execution whose    *)
(* lease it would let lapse, as a store that answers within Lease / 3 does.*)
Tick ==
    /\ TimelyHeartbeats => \A w \in Workers :
          Owns(w) => row[wk[w].job].lease > 0
    /\ row' = [j \in Jobs |-> Aged(row[j])]
    /\ wk' = [w \in Workers |-> Elapsed(wk[w])]
    /\ UNCHANGED <<claimant, ledger, audits, registry, proc, sweeper,
                   canceller, envVars>>

-----------------------------------------------------------------------------
Outcomes == {"answer", "rejected", "retryable", "fatal"}

(* The steps a worker takes without waiting for the provider.              *)
WorkerStep(w) ==
    \/ AdmitDeny(w) \/ AdmitRetry(w) \/ AdmitOutage(w) \/ AdmitReserve(w)
    \/ StartExec(w)
    \/ FailAbort(w) \/ FailRetry(w)
    \/ Commit(w) \/ CommitFails(w)
    \/ HandoffError(w) \/ HandoffLost(w) \/ HandoffWon(w) \/ AuditWon(w)
    \/ Requeue(w) \/ RequeueFails(w)

WorkerNext(w) ==
    \/ \E j \in Jobs : Claim(w, j) \/ ClaimUnanswered(w, j)
    \/ WorkerStep(w)
    \/ Heartbeat(w) \/ HeartbeatFails(w)
    \/ \E out \in Outcomes, known \in BOOLEAN : CallReturns(w, out, known)

SweepNext(p) == Recover(p) \/ SweepAudit(p) \/ ExpireDue(p)

CancelNext(c) ==
    \/ \E j \in Jobs : CancelQueued(c, j) \/ CancelMisses(c, j)
    \/ CancelRunning(c) \/ CancelNoop(c) \/ CancelFinish(c)

ProcNext(p) ==
    \/ StopBegin(p) \/ DrainElapses(p) \/ StopDone(p)
    \/ Crash(p) \/ Restart(p)

Next ==
    \/ \E j \in Jobs : Create(j) \/ GetExpires(j)
    \/ \E w \in Workers : WorkerNext(w)
    \/ \E p \in Procs : SweepNext(p) \/ ProcNext(p)
    \/ \E c \in Cancellers : CancelNext(c)
    \/ Tick

Spec == Init /\ [][Next]_vars

(***************************************************************************)
(* Goroutines are scheduled, time passes, a stopping process stops and is  *)
(* started again.  Nothing is assumed of the provider: a call is certain   *)
(* to return only once its context has ended.                              *)
(***************************************************************************)
Fairness ==
    /\ \A w \in Workers :
          /\ WF_vars(\E j \in Jobs : Claim(w, j))
          /\ WF_vars(WorkerStep(w))
          /\ WF_vars(Heartbeat(w))
          /\ WF_vars(CallAborted(w))
    /\ \A p \in Procs :
          /\ WF_vars(SweepNext(p))
          /\ WF_vars(StopDone(p))
          /\ WF_vars(DrainElapses(p))
          /\ WF_vars(Restart(p))
    /\ \A c \in Cancellers :
          WF_vars(CancelRunning(c) \/ CancelNoop(c) \/ CancelFinish(c))
    /\ WF_vars(Tick)

FairSpec == Spec /\ Fairness
-----------------------------------------------------------------------------
(* Properties.                                                             *)

(* Every variable holds a value of its kind, whatever is interleaved.      *)
TypeOK ==
    /\ row \in [Jobs -> Row]
    /\ ledger \in [Jobs -> [reserved : Nat, settled : BOOLEAN]]
    /\ audits \in [Jobs -> Nat]
    /\ claimant \in [Jobs -> Workers \cup {None}]
    /\ wk \in [Workers -> Worker]
    /\ registry \in [Procs -> [Jobs -> Workers \cup {None}]]
    /\ proc \in [Procs -> ProcState]
    /\ sweeper \in [Procs -> Sweeper]
    /\ canceller \in [Cancellers -> Canceller]
    /\ faults \in Nat
    /\ stops \in Nat

(* The queue keeps the promises of JobLifecycle: cancel, complete, fail,   *)
(* recovery and expiry races are decided once, results follow decisions,   *)
(* and no job is audited twice (package doc of internal/async/async.go).   *)
Lifecycle == INSTANCE JobLifecycle WITH
    status <- [j \in Jobs |-> row[j].status],
    result <- [j \in Jobs |-> row[j].result],
    audits <- audits

LifecycleSpec == Lifecycle!Spec

(* The store's WHERE clause (lease_owner = $2 AND status = 'running') lets *)
(* through only the execution that made the latest claim: an execution     *)
(* whose lease was recovered and handed on can no longer touch the job.    *)
LeaseNamesOneExecution ==
    \A w \in Workers : Owns(w) => claimant[wk[w].job] = w

(* While leases are renewed in time, no two executions of one job exist at *)
(* the same time, whatever fails, stops or crashes.                        *)
AtMostOneExecution ==
    \A v, w \in Workers :
        wk[v].job # None /\ wk[v].job = wk[w].job => v = w

(* A job's usage is settled only after the job was decided for good: no    *)
(* settled job can run, and be billed, again.                              *)
SettledOnlyIfDecided ==
    \A j \in Jobs : ledger[j].settled => row[j].status \in Decided

Holding(w) ==
    wk[w].at \in {"reserved", "exec", "ended", "answered"} /\ Reserved(w)

(* Without faults every reserved ledger row belongs to an execution that   *)
(* still has to settle or release it: nothing is left reserved.            *)
NoResidue ==
    faults = 0 =>
        \A j \in Jobs :
            ledger[j].reserved =
                Cardinality({w \in Workers : wk[w].job = j /\ Holding(w)})

(* A job that waits or runs has an attempt left to spend, so the retry and *)
(* recovery paths together never exceed MaxAttempts.                       *)
AttemptsBounded ==
    \A j \in Jobs :
        row[j].status \in {"queued", "running"} =>
            row[j].attempts < MaxAttempts

Settling(j) ==
    \/ \E w \in Workers : wk[w].job = j
    \/ \E p \in Procs : j \in sweeper[p].failed
    \/ \E c \in Cancellers : canceller[c].job = j

(* Without faults, once nobody works on a completed job any more, it was   *)
(* settled exactly if it was audited: one handoff did both or neither; and *)
(* a cancelled job is audited once its cancel returned.                    *)
OutcomesAudited ==
    faults = 0 =>
        \A j \in Jobs :
            /\ row[j].result = "response" /\ ~Settling(j) =>
                   (ledger[j].settled <=> audits[j] = 1)
            /\ row[j].status = "cancelled"
                 /\ (\A c \in Cancellers : canceller[c].job # j)
               => audits[j] = 1

(* Every job that is queued is eventually decided: retries, outages, lost  *)
(* leases and hand-backs cannot recycle or starve it forever.              *)
JobsAreDecided ==
    \A j \in Jobs :
        row[j].status = "queued" ~> row[j].status \in Decided

(* Stop returns: a draining process goes down, whatever its calls do.      *)
StopReturns == \A p \in Procs : proc[p] = "draining" ~> proc[p] = "down"

-----------------------------------------------------------------------------
(* What docs and comments say, checked against the code.                   *)

(* async.go:133: CancelNoop means the job was already terminal.            *)
NoopMeansTerminal ==
    [][\A c \in Cancellers :
          CancelNoop(c) => row[canceller[c].job].status \in Decided]_vars

(* async.go:168: Heartbeat reports ErrLeaseLost when the lease changed     *)
(* hands, so it never extends a lease that a later claim holds.            *)
HeartbeatNoticesHandover ==
    [][\A w \in Workers : Heartbeat(w) => claimant[wk[w].job] = w]_vars

(* worker.go:870: when a cancel wins after the provider reported usage,    *)
(* the losing worker records the settlement instead of dropping it.        *)
CancelAfterOutputSettles ==
    [][\A w \in Workers :
          LET j == wk[w].job
          IN  /\ wk[w].at = "answered" /\ wk[w].known
              /\ row[j].status = "cancelled"
              /\ wk'[w] = Idle /\ faults' = faults
              => ledger'[j].settled]_vars

=============================================================================
