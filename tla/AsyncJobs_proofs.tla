-------------------------- MODULE AsyncJobs_proofs --------------------------
(***************************************************************************)
(* The queue keeps its types, implements JobLifecycle, settles only        *)
(* decided jobs, and gives the lease to one execution: for any number of   *)
(* jobs, workers, processes and cancel requests, any bounds, and whether   *)
(* leases are renewed in time or not.                                      *)
(*                                                                         *)
(* When leases are renewed in time: one execution per job, and never more  *)
(* than MaxAttempts attempts, for workers several to a process or not and  *)
(* any faults.  And, as long as no fault occurs: nothing is left reserved, *)
(* and settlements and audit records agree.                                *)
(***************************************************************************)
EXTENDS AsyncJobs, TLAPS, FiniteSetTheorems

-----------------------------------------------------------------------------
(* Types: what the updates of a row, a ledger, a worker, a sweep and a     *)
(* cancel request return.                                                  *)

LEMMA RowUpdates ==
    /\ \A r \in Row : Created(r) \in Row
    /\ \A r \in Row, p \in Procs : Claimed(r, p) \in Row
    /\ \A r \in Row : Renewed(r) \in Row
    /\ \A r \in Row, b \in {0, 1}, d \in 0 .. Backoff :
          Requeued(r, b, d) \in Row
    /\ \A r \in Row, s \in Finished, t \in {0, ResultTTL} :
          Finish(r, s, t) \in Row
    /\ \A r \in Row : Cancelled(r) \in Row
    /\ \A r \in Row : Expired(r) \in Row
    /\ \A r \in Row : Aged(r) \in Row
  <1> USE DEF Row, Status, Finished, Results
  <1>1. /\ 0 \in -1 .. Lease /\ Lease \in -1 .. Lease
        /\ 0 \in -1 .. ResultTTL /\ ResultTTL \in -1 .. ResultTTL
    BY TimeAssumption DEF TimeAssumption
  <1>2. ASSUME NEW r \in Row, NEW p \in Procs
        PROVE  /\ Created(r) \in Row /\ Claimed(r, p) \in Row
               /\ Renewed(r) \in Row
    BY <1>1 DEF Claimed, Created, Renewed
  <1>3. ASSUME NEW r \in Row, NEW b \in {0, 1}, NEW d \in 0 .. Backoff
        PROVE  Requeued(r, b, d) \in Row
    <2>1. r.attempts + b \in Nat
      OBVIOUS
    <2>2. QED
      BY <1>1, <2>1 DEF Requeued
  <1>4. ASSUME NEW r \in Row, NEW s \in Finished, NEW t \in {0, ResultTTL}
        PROVE  Finish(r, s, t) \in Row
    <2>1. r.attempts + 1 \in Nat
      OBVIOUS
    <2>2. QED
      BY <1>1, <2>1 DEF Finish
  <1>5. ASSUME NEW r \in Row
        PROVE  Cancelled(r) \in Row /\ Expired(r) \in Row
    BY <1>1 DEF Cancelled, Expired
  <1>6. ASSUME NEW r \in Row
        PROVE  Aged(r) \in Row
    <2>1. /\ Down(r.lease, -1) \in -1 .. Lease
          /\ Down(r.hidden, 0) \in 0 .. Backoff
          /\ Down(r.keep, -1) \in -1 .. ResultTTL
      BY TimeAssumption DEF TimeAssumption, Down
    <2>2. QED
      BY <2>1 DEF Aged
  <1>7. \A r \in Row : Created(r) \in Row /\ Renewed(r) \in Row
    BY <1>1 DEF Created, Renewed
  <1>8. QED
    BY <1>2, <1>3, <1>4, <1>5, <1>6, <1>7

LEMMA WorkerUpdates ==
    /\ Idle \in Worker
    /\ \A j \in Jobs, n \in Nat : Admits(j, n) \in Worker
    /\ \A r \in Worker, at \in WorkerAt, out \in Outcome :
          Goes(r, at, out) \in Worker
    /\ \A r \in Worker : Starts(r, JobTimeout) \in Worker
    /\ \A r \in Worker, on \in BOOLEAN : Beats(r, on) \in Worker
    /\ \A r \in Worker : CancelContext(r) \in Worker
    /\ \A r \in Worker, out \in Outcome, known, flying \in BOOLEAN :
          Returned(r, out, known, flying) \in Worker
    /\ \A r \in Worker, dec \in Decision : Answered(r, dec) \in Worker
    /\ \A r \in Worker : Elapsed(r) \in Worker
  <1> USE DEF Worker, WorkerAt, Context, Outcome, Decision
  <1>1. 0 \in 0 .. JobTimeout /\ JobTimeout \in 0 .. JobTimeout
    BY TimeAssumption DEF TimeAssumption
  <1>2. Idle \in Worker
    BY <1>1 DEF Idle
  <1>3. ASSUME NEW j \in Jobs, NEW n \in Nat
        PROVE  Admits(j, n) \in Worker
    BY <1>1, <1>2 DEF Admits, Idle
  <1>4. ASSUME NEW r \in Worker, NEW at \in WorkerAt, NEW out \in Outcome
        PROVE  Goes(r, at, out) \in Worker
    BY DEF Goes
  <1>5. ASSUME NEW r \in Worker
        PROVE  Starts(r, JobTimeout) \in Worker
    BY <1>1 DEF Starts
  <1>6. ASSUME NEW r \in Worker, NEW on \in BOOLEAN
        PROVE  Beats(r, on) \in Worker
    BY DEF Beats
  <1>7. ASSUME NEW r \in Worker
        PROVE  CancelContext(r) \in Worker
    BY DEF CancelContext
  <1>8. ASSUME NEW r \in Worker, NEW out \in Outcome,
               NEW known \in BOOLEAN, NEW flying \in BOOLEAN
        PROVE  Returned(r, out, known, flying) \in Worker
    BY DEF Returned
  <1>9. ASSUME NEW r \in Worker, NEW dec \in Decision
        PROVE  Answered(r, dec) \in Worker
    BY DEF Answered
  <1>10. ASSUME NEW r \in Worker
         PROVE  Elapsed(r) \in Worker
    <2>1. Down(r.left, 0) \in 0 .. JobTimeout
      BY TimeAssumption DEF TimeAssumption, Down
    <2>2. QED
      BY <2>1 DEF Elapsed
  <1>11. QED
    BY <1>2, <1>3, <1>4, <1>5, <1>6, <1>7, <1>8, <1>9, <1>10

Ledger == [reserved : Nat, settled : BOOLEAN]

LEMMA LedgerUpdates ==
    \A l \in Ledger :
        Held(l) \in Ledger /\ Freed(l) \in Ledger /\ Charged(l) \in Ledger
  <1> SUFFICES ASSUME NEW l \in Ledger
               PROVE  /\ Held(l) \in Ledger
                      /\ Freed(l) \in Ledger
                      /\ Charged(l) \in Ledger
    OBVIOUS
  <1>1. l.reserved + 1 \in Nat /\ (l.reserved > 0 => l.reserved - 1 \in Nat)
    BY DEF Ledger
  <1>2. Held(l) \in Ledger
    BY <1>1 DEF Ledger, Held
  <1>3. Freed(l) \in Ledger
    BY <1>1 DEF Ledger, Freed
  <1>4. Charged(l) \in Ledger
    BY <1>1 DEF Ledger, Charged
  <1>5. QED
    BY <1>2, <1>3, <1>4

LEMMA SweepCancelUpdates ==
    /\ \A at \in {"recover", "audit", "expire"}, jobs \in SUBSET Jobs :
          Sweeps(at, jobs) \in Sweeper
    /\ \A at \in {"idle", "second", "won"}, j \in Jobs \cup {None} :
          Cancels(at, j) \in Canceller
    /\ NoCancel \in Canceller
  BY DEF Sweeps, Cancels, NoCancel, Sweeper, Canceller

LEMMA LedgerStep ==
    ASSUME TypeOK, NEW j,
           \/ Reserve(j) \/ Settle(j) \/ Release(j) \/ UNCHANGED ledger
    PROVE  ledger' \in [Jobs -> Ledger]
  BY LedgerUpdates DEF TypeOK, Ledger, Reserve, Settle, Release

LEMMA LeaveStep ==
    ASSUME TypeOK, NEW w \in Workers, Leave(w)
    PROVE  /\ wk' \in [Workers -> Worker]
           /\ registry' \in [Procs -> [Jobs -> Workers \cup {None}]]
  <1>1. wk' \in [Workers -> Worker]
    BY WorkerUpdates DEF TypeOK, Leave
  <1>2. CASE registry' = registry
    BY <1>1, <1>2 DEF TypeOK
  <1>3. CASE registry' = [registry EXCEPT ![ProcOf[w]][wk[w].job] = None]
    BY <1>1, <1>3 DEF TypeOK
  <1>4. QED
    BY <1>2, <1>3 DEF Leave

LEMMA FaultStep ==
    ASSUME TypeOK, Fault \/ NoFault
    PROVE  faults' \in Nat /\ stops' \in Nat
  BY DEF TypeOK, Fault, NoFault, envVars

LEMMA AuditStep ==
    ASSUME TypeOK, NEW j, audits' = [audits EXCEPT ![j] = @ + 1]
    PROVE  audits' \in [Jobs -> Nat]
  <1>1. \A k \in Jobs : audits[k] + 1 \in Nat
    BY DEF TypeOK
  <1>2. QED
    BY <1>1 DEF TypeOK

LEMMA InitTypeOK == Init => TypeOK
  <1>1. NewRow \in Row
    BY TimeAssumption DEF TimeAssumption, NewRow, Row, Status, Results
  <1>2. Idle \in Worker
    BY WorkerUpdates
  <1>3. Sweeps("recover", {}) \in Sweeper /\ NoCancel \in Canceller
    BY SweepCancelUpdates
  <1>4. QED
    BY <1>1, <1>2, <1>3 DEF Init, TypeOK, ProcState

(***************************************************************************)
(* Every step keeps the types.                                             *)
(***************************************************************************)
LEMMA NextTypeOK == TypeOK /\ [Next]_vars => TypeOK'
  <1> SUFFICES ASSUME TypeOK, [Next]_vars
               PROVE  TypeOK'
    OBVIOUS
  <1> USE DEF TypeOK
  <1>1. ASSUME NEW j \in Jobs, Create(j)
        PROVE  TypeOK'
    BY <1>1, RowUpdates DEF Create, envVars
  <1>2. ASSUME NEW j \in Jobs, GetExpires(j)
        PROVE  TypeOK'
    BY <1>2, RowUpdates DEF GetExpires, envVars
  <1>3. ASSUME NEW w \in Workers, NEW j \in Jobs, Claim(w, j)
        PROVE  TypeOK'
    BY <1>3, RowUpdates, WorkerUpdates, ProcOfAssumption DEF
      ProcOfAssumption, Claim, ClaimRow, Row, NoFault, envVars
  <1>4. ASSUME NEW w \in Workers, NEW j \in Jobs, ClaimUnanswered(w, j)
        PROVE  TypeOK'
    BY <1>4, RowUpdates, ProcOfAssumption DEF ProcOfAssumption,
      ClaimUnanswered, ClaimRow, Fault
  <1>5. ASSUME NEW w \in Workers, AdmitDeny(w)
        PROVE  TypeOK'
    BY <1>5, WorkerUpdates DEF AdmitDeny, WorkerOnly, NoFault, storeVars,
      envVars, WorkerAt, Outcome, Decision
  <1>6. ASSUME NEW w \in Workers, AdmitRetry(w)
        PROVE  TypeOK'
    BY <1>6, WorkerUpdates DEF AdmitRetry, WorkerOnly, NoFault, storeVars,
      envVars, WorkerAt, Outcome, Decision
  <1>7. ASSUME NEW w \in Workers, AdmitOutage(w)
        PROVE  TypeOK'
    <2>1. ledger' \in [Jobs -> Ledger]
      BY <1>7, LedgerStep DEF AdmitOutage
    <2>2. faults' \in Nat /\ stops' \in Nat
      BY <1>7, FaultStep DEF AdmitOutage
    <2>3. wk' \in [Workers -> Worker]
      BY <1>7, WorkerUpdates DEF AdmitOutage, WorkerAt, Outcome
    <2>4. QED
      BY <1>7, <2>1, <2>2, <2>3 DEF AdmitOutage, WorkerOnly, storeVars,
        Ledger
  <1>8. ASSUME NEW w \in Workers, AdmitReserve(w)
        PROVE  TypeOK'
    BY <1>8, WorkerUpdates, LedgerUpdates DEF AdmitReserve, WorkerOnly,
      NoFault, storeVars, envVars, WorkerAt, Outcome, Decision, Ledger,
      Reserve
  <1>9. ASSUME NEW w \in Workers, StartExec(w)
        PROVE  TypeOK'
    BY <1>9, WorkerUpdates DEF StartExec, NoFault, storeVars, envVars
  <1>10. ASSUME NEW w \in Workers, Heartbeat(w)
        PROVE  TypeOK'
    BY <1>10, RowUpdates, WorkerUpdates DEF Heartbeat, NoFault, envVars
  <1>11. ASSUME NEW w \in Workers, HeartbeatFails(w)
        PROVE  TypeOK'
    <2>1. wk' \in [Workers -> Worker]
      BY <1>11, WorkerUpdates DEF HeartbeatFails, TypeOK
    <2>2. faults' \in Nat /\ stops' \in Nat
      BY <1>11, FaultStep DEF HeartbeatFails
    <2>3. QED
      BY <1>11, <2>1, <2>2 DEF HeartbeatFails, WorkerOnly, storeVars
  <1>12. ASSUME NEW w \in Workers, NEW out \in Outcomes, NEW known \in BOOLEAN, CallReturns(w, out, known)
        PROVE  TypeOK'
    <2>1. PICK flying \in BOOLEAN :
           wk' = [wk EXCEPT ![w] = Returned(@, out, known, flying)]
      BY <1>12 DEF CallReturns
    <2>2. wk' \in [Workers -> Worker]
      BY <1>12, <2>1, WorkerUpdates DEF Outcomes, Outcome
    <2>3. faults' \in Nat /\ stops' \in Nat
      BY <1>12, FaultStep DEF CallReturns
    <2>4. QED
      BY <1>12, <2>1, <2>2, <2>3 DEF CallReturns, WorkerOnly, storeVars
  <1>13. ASSUME NEW w \in Workers, FailAbort(w)
        PROVE  TypeOK'
    <2>1. ledger' \in [Jobs -> Ledger]
      BY <1>13, LedgerStep DEF FailAbort
    <2>2. faults' \in Nat /\ stops' \in Nat
      BY <1>13, FaultStep DEF FailAbort
    <2>3. wk' \in [Workers -> Worker]
      BY <1>13, WorkerUpdates DEF FailAbort, WorkerAt, Outcome
    <2>4. QED
      BY <1>13, <2>1, <2>2, <2>3 DEF FailAbort, WorkerOnly, storeVars, Ledger
  <1>14. ASSUME NEW w \in Workers, FailRetry(w)
        PROVE  TypeOK'
    <2>1. ledger' \in [Jobs -> Ledger]
      BY <1>14, LedgerStep DEF FailRetry
    <2>2. faults' \in Nat /\ stops' \in Nat
      BY <1>14, FaultStep DEF FailRetry
    <2>3. wk' \in [Workers -> Worker]
      BY <1>14, WorkerUpdates DEF FailRetry, WorkerAt, Outcome
    <2>4. QED
      BY <1>14, <2>1, <2>2, <2>3 DEF FailRetry, WorkerOnly, storeVars, Ledger
  <1>15. ASSUME NEW w \in Workers, Commit(w)
        PROVE  TypeOK'
    <2>1. row' \in [Jobs -> Row]
      BY <1>15, RowUpdates DEF Commit, CommitRow, Finished
    <2>2. faults' \in Nat /\ stops' \in Nat
      BY <1>15, FaultStep DEF Commit
    <2>3. PICK dec \in Decision : wk' = [wk EXCEPT ![w] = Answered(@, dec)]
      BY <1>15 DEF Commit, Decision
    <2>4. wk' \in [Workers -> Worker]
      BY <1>15, <2>3, WorkerUpdates
    <2>5. QED
      BY <1>15, <2>1, <2>2, <2>3, <2>4 DEF Commit
  <1>16. ASSUME NEW w \in Workers, CommitFails(w)
        PROVE  TypeOK'
    BY <1>16, WorkerUpdates DEF CommitFails, Decision, WorkerOnly, NoFault,
      Fault, storeVars, envVars
  <1>17. ASSUME NEW w \in Workers, HandoffError(w)
        PROVE  TypeOK'
    <2>1. ledger' \in [Jobs -> Ledger]
      BY <1>17, LedgerStep DEF HandoffError
    <2>2. faults' \in Nat /\ stops' \in Nat
      BY <1>17, FaultStep DEF HandoffError
    <2>3. /\ wk' \in [Workers -> Worker]
          /\ registry' \in [Procs -> [Jobs -> Workers \cup {None}]]
      BY <1>17, LeaveStep DEF HandoffError
    <2>4. QED
      BY <1>17, <2>1, <2>2, <2>3 DEF HandoffError, storeVars, Ledger
  <1>18. ASSUME NEW w \in Workers, HandoffLost(w)
        PROVE  TypeOK'
    <2>1. ledger' \in [Jobs -> Ledger]
      BY <1>18, LedgerStep DEF HandoffLost
    <2>2. faults' \in Nat /\ stops' \in Nat
      BY <1>18, FaultStep DEF HandoffLost
    <2>3. /\ wk' \in [Workers -> Worker]
          /\ registry' \in [Procs -> [Jobs -> Workers \cup {None}]]
      BY <1>18, LeaveStep DEF HandoffLost
    <2>4. QED
      BY <1>18, <2>1, <2>2, <2>3 DEF HandoffLost, storeVars, Ledger
  <1>19. ASSUME NEW w \in Workers, HandoffWon(w)
        PROVE  TypeOK'
    <2>1. ledger' \in [Jobs -> Ledger]
      BY <1>19, LedgerStep DEF HandoffWon
    <2>2. faults' \in Nat /\ stops' \in Nat
      BY <1>19, FaultStep DEF HandoffWon
    <2>3. wk[w].out \in Outcome
      BY <1>19 DEF Worker
    <2>4. wk' \in [Workers -> Worker]
      BY <1>19, WorkerUpdates, <2>3 DEF HandoffWon, WorkerAt
    <2>5. QED
      BY <1>19, <2>1, <2>2, <2>3, <2>4 DEF HandoffWon, WorkerOnly, storeVars,
        Ledger
  <1>20. ASSUME NEW w \in Workers, AuditWon(w)
        PROVE  TypeOK'
    <2>1. /\ wk' \in [Workers -> Worker]
          /\ registry' \in [Procs -> [Jobs -> Workers \cup {None}]]
      BY <1>20, LeaveStep DEF AuditWon
    <2>2. audits' \in [Jobs -> Nat]
      BY <1>20, AuditStep DEF AuditWon
    <2>3. faults' \in Nat /\ stops' \in Nat
      BY <1>20, FaultStep DEF AuditWon
    <2>4. QED
      BY <1>20, <2>1, <2>2, <2>3 DEF AuditWon, storeVars
  <1>21. ASSUME NEW w \in Workers, Requeue(w)
        PROVE  TypeOK'
    <2>1. /\ wk' \in [Workers -> Worker]
          /\ registry' \in [Procs -> [Jobs -> Workers \cup {None}]]
      BY <1>21, LeaveStep DEF Requeue
    <2>2. 0 \in 0 .. Backoff /\ Backoff \in 0 .. Backoff
      BY <1>21, TimeAssumption DEF TimeAssumption
    <2>3. row' \in [Jobs -> Row]
      BY <1>21, RowUpdates, <2>2 DEF Requeue
    <2>4. faults' \in Nat /\ stops' \in Nat
      BY <1>21, FaultStep DEF Requeue
    <2>5. QED
      BY <1>21, <2>1, <2>2, <2>3, <2>4 DEF Requeue
  <1>22. ASSUME NEW w \in Workers, RequeueFails(w)
        PROVE  TypeOK'
    <2>1. /\ wk' \in [Workers -> Worker]
          /\ registry' \in [Procs -> [Jobs -> Workers \cup {None}]]
      BY <1>22, LeaveStep DEF RequeueFails
    <2>2. faults' \in Nat /\ stops' \in Nat
      BY <1>22, FaultStep DEF RequeueFails
    <2>3. QED
      BY <1>22, <2>1, <2>2 DEF RequeueFails, storeVars
  <1>23. ASSUME NEW p \in Procs, Recover(p)
        PROVE  TypeOK'
    <2>1. 0 \in 0 .. Backoff
      BY <1>23, TimeAssumption DEF TimeAssumption
    <2>2. row' \in [Jobs -> Row]
      BY <1>23, RowUpdates, <2>1 DEF Recover, Finished
    <2>3. faults' \in Nat /\ stops' \in Nat
      BY <1>23, FaultStep DEF Recover
    <2>4. PICK at \in {"recover", "audit", "expire"}, jobs \in SUBSET Jobs :
           sweeper' = [sweeper EXCEPT ![p] = Sweeps(at, jobs)]
      BY <1>23 DEF Recover
    <2>5. sweeper' \in [Procs -> Sweeper]
      BY <1>23, <2>4, SweepCancelUpdates
    <2>6. QED
      BY <1>23, <2>1, <2>2, <2>3, <2>4, <2>5 DEF Recover, SweepOnly
  <1>24. ASSUME NEW p \in Procs, SweepAudit(p)
        PROVE  TypeOK'
    <2>1. sweeper[p].failed \in SUBSET Jobs
      BY <1>24 DEF Sweeper
    <2>2. PICK at \in {"recover", "audit", "expire"}, jobs \in SUBSET Jobs :
           sweeper' = [sweeper EXCEPT ![p] = Sweeps(at, jobs)]
      BY <1>24, <2>1 DEF SweepAudit
    <2>3. sweeper' \in [Procs -> Sweeper]
      BY <1>24, <2>2, SweepCancelUpdates
    <2>4. audits' \in [Jobs -> Nat]
      BY <1>24, AuditStep DEF SweepAudit
    <2>5. faults' \in Nat /\ stops' \in Nat
      BY <1>24, FaultStep DEF SweepAudit
    <2>6. QED
      BY <1>24, <2>1, <2>2, <2>3, <2>4, <2>5 DEF SweepAudit, SweepOnly
  <1>25. ASSUME NEW p \in Procs, ExpireDue(p)
        PROVE  TypeOK'
    BY <1>25, RowUpdates, SweepCancelUpdates DEF ExpireDue, SweepOnly,
      NoFault, envVars
  <1>26. ASSUME NEW c \in Cancellers, NEW j \in Jobs, CancelQueued(c, j)
        PROVE  TypeOK'
    BY <1>26, RowUpdates, SweepCancelUpdates DEF CancelQueued, CancelOnly,
      envVars
  <1>27. ASSUME NEW c \in Cancellers, NEW j \in Jobs, CancelMisses(c, j)
        PROVE  TypeOK'
    BY <1>27, SweepCancelUpdates DEF CancelMisses, CancelOnly, envVars
  <1>28. ASSUME NEW c \in Cancellers, CancelRunning(c)
        PROVE  TypeOK'
    BY <1>28, RowUpdates, SweepCancelUpdates DEF CancelRunning, Canceller,
      CancelOnly, envVars
  <1>29. ASSUME NEW c \in Cancellers, CancelNoop(c)
        PROVE  TypeOK'
    BY <1>29, SweepCancelUpdates DEF CancelNoop, CancelOnly, envVars
  <1>30. ASSUME NEW c \in Cancellers, CancelFinish(c)
        PROVE  TypeOK'
    <2>1. wk' \in [Workers -> Worker]
      BY <1>30, WorkerUpdates DEF CancelFinish, Signalled
    <2>2. audits' \in [Jobs -> Nat]
      BY <1>30, AuditStep DEF CancelFinish
    <2>3. canceller' \in [Cancellers -> Canceller]
      BY <1>30, SweepCancelUpdates DEF CancelFinish
    <2>4. QED
      BY <1>30, <2>1, <2>2, <2>3 DEF CancelFinish, CancelOnly, envVars
  <1>31. ASSUME NEW p \in Procs, StopBegin(p)
        PROVE  TypeOK'
    BY <1>31 DEF StopBegin, ProcOnly, ProcState, storeVars
  <1>32. ASSUME NEW p \in Procs, DrainElapses(p)
        PROVE  TypeOK'
    BY <1>32, WorkerUpdates DEF DrainElapses, Signalled, ProcOnly, ProcState,
      storeVars, envVars
  <1>33. ASSUME NEW p \in Procs, StopDone(p)
        PROVE  TypeOK'
    BY <1>33, SweepCancelUpdates DEF StopDone, ProcOnly, ProcState,
      storeVars, envVars
  <1>34. ASSUME NEW p \in Procs, Crash(p)
        PROVE  TypeOK'
    BY <1>34, WorkerUpdates, SweepCancelUpdates DEF Crash, ProcOnly,
      ProcState, Fault, storeVars
  <1>35. ASSUME NEW p \in Procs, Restart(p)
        PROVE  TypeOK'
    BY <1>35 DEF Restart, ProcOnly, ProcState, storeVars, envVars
  <1>36. CASE Tick
    BY <1>36, RowUpdates, WorkerUpdates DEF Tick, envVars
  <1>37. CASE UNCHANGED vars
    BY <1>37 DEF vars
  <1>38. QED
    BY <1>1, <1>2, <1>3, <1>4, <1>5, <1>6, <1>7, <1>8, <1>9, <1>10, <1>11,
      <1>12, <1>13, <1>14, <1>15, <1>16, <1>17, <1>18, <1>19, <1>20, <1>21,
      <1>22, <1>23, <1>24, <1>25, <1>26, <1>27, <1>28, <1>29, <1>30, <1>31,
      <1>32, <1>33, <1>34, <1>35, <1>36, <1>37 DEF Next, WorkerNext,
      WorkerStep, SweepNext, CancelNext, ProcNext

(* Every variable keeps its type.                                          *)
THEOREM TypeCorrect == Spec => []TypeOK
  <1>1. Init => TypeOK
    BY InitTypeOK
  <1>2. TypeOK /\ [Next]_vars => TypeOK'
    BY NextTypeOK
  <1>3. QED
    BY <1>1, <1>2, PTL DEF Spec


-----------------------------------------------------------------------------
(* What a step does to one row, seen through status, owner and result.     *)

(* The stored result is the one the status calls for.                      *)
Matches(r) ==
    r.result = IF r.status = "completed" THEN "response"
               ELSE IF r.status = "failed" THEN "failure" ELSE "none"

Same(r, s) == /\ s.status = r.status
              /\ s.owner = r.owner
              /\ s.result = r.result

Moved(r, s) == <<r.status, s.status, s.result>> \in Lifecycle!Moves

LEMMA RowMoves ==
    ASSUME NEW r \in Row, Matches(r)
    PROVE  /\ r.status = "absent" => /\ Moved(r, Created(r))
                                     /\ Created(r).status # "running"
           /\ r.status = "queued" => \A p \in Procs :
                /\ Moved(r, Claimed(r, p))
                /\ Claimed(r, p).owner = p
           /\ Same(r, Renewed(r))
           /\ Same(r, Aged(r))
           /\ r.status = "running" => \A b \in {0, 1}, d \in 0 .. Backoff :
                /\ Moved(r, Requeued(r, b, d))
                /\ Requeued(r, b, d).status # "running"
           /\ r.status = "running" => \A s \in Finished, t \in {0, ResultTTL} :
                /\ Moved(r, Finish(r, s, t))
                /\ Finish(r, s, t).status # "running"
           /\ r.status \in {"queued", "running"} =>
                /\ Moved(r, Cancelled(r))
                /\ Cancelled(r).status # "running"
           /\ r.status \in Finished =>
                /\ Moved(r, Expired(r))
                /\ Expired(r).status # "running"
  <1> USE DEF Row, Matches, Same, Moved, Lifecycle!Moves
  <1>1. r.status = "absent" => /\ Moved(r, Created(r))
                               /\ Created(r).status # "running"
    BY DEF Created
  <1>2. r.status = "queued" => \A p \in Procs :
          Moved(r, Claimed(r, p)) /\ Claimed(r, p).owner = p
    BY DEF Claimed
  <1>3. Same(r, Renewed(r)) /\ Same(r, Aged(r))
    BY DEF Renewed, Aged
  <1>4. r.status = "running" => \A b \in {0, 1}, d \in 0 .. Backoff :
          /\ Moved(r, Requeued(r, b, d))
          /\ Requeued(r, b, d).status # "running"
    BY DEF Requeued
  <1>5. r.status = "running" => \A s \in Finished, t \in {0, ResultTTL} :
          Moved(r, Finish(r, s, t)) /\ Finish(r, s, t).status # "running"
    BY DEF Finish, Finished
  <1>6. r.status \in {"queued", "running"} =>
          Moved(r, Cancelled(r)) /\ Cancelled(r).status # "running"
    BY DEF Cancelled
  <1>7. r.status \in Finished =>
          Moved(r, Expired(r)) /\ Expired(r).status # "running"
    BY DEF Expired, Finished
  <1>8. QED
    BY <1>1, <1>2, <1>3, <1>4, <1>5, <1>6, <1>7

(* The steps that write rows.                                              *)
LEMMA RowWriters ==
    ASSUME [Next]_vars
    PROVE  \/ UNCHANGED storeVars
           \/ \E j \in Jobs : Create(j) \/ GetExpires(j)
           \/ \E w \in Workers, j \in Jobs : ClaimRow(w, j)
           \/ \E w \in Workers : Heartbeat(w) \/ Commit(w) \/ Requeue(w)
           \/ \E p \in Procs : Recover(p) \/ ExpireDue(p)
           \/ \E c \in Cancellers, j \in Jobs : CancelQueued(c, j)
           \/ \E c \in Cancellers : CancelRunning(c)
           \/ Tick
  <1>1. ASSUME NEW w \in Workers, WorkerNext(w)
        PROVE  \/ UNCHANGED storeVars
               \/ \E j \in Jobs : ClaimRow(w, j)
               \/ Heartbeat(w) \/ Commit(w) \/ Requeue(w)
    BY <1>1 DEF WorkerNext, WorkerStep, Claim, ClaimUnanswered, AdmitDeny,
      AdmitRetry, AdmitOutage, AdmitReserve, StartExec, HeartbeatFails,
      CallReturns, FailAbort, FailRetry, CommitFails, HandoffError,
      HandoffLost, HandoffWon, AuditWon, RequeueFails, WorkerOnly
  <1>2. ASSUME NEW p \in Procs, SweepNext(p) \/ ProcNext(p)
        PROVE  UNCHANGED storeVars \/ Recover(p) \/ ExpireDue(p)
    BY <1>2 DEF SweepNext, ProcNext, SweepAudit, SweepOnly, StopBegin,
      DrainElapses, StopDone, Crash, Restart, ProcOnly, storeVars
  <1>3. ASSUME NEW c \in Cancellers, CancelNext(c)
        PROVE  \/ UNCHANGED storeVars
               \/ \E j \in Jobs : CancelQueued(c, j)
               \/ CancelRunning(c)
    BY <1>3 DEF CancelNext, CancelMisses, CancelNoop, CancelFinish,
      CancelOnly, storeVars
  <1>4. CASE UNCHANGED vars
    BY <1>4 DEF vars, storeVars
  <1>5. QED
    BY <1>1, <1>2, <1>3, <1>4 DEF Next

RowStep(j) ==
    \/ Same(row[j], row'[j]) /\ claimant'[j] = claimant[j]
    \/ /\ Moved(row[j], row'[j])
       /\ row'[j].status = "running" =>
            \E w \in Workers : claimant'[j] = w /\ row'[j].owner = ProcOf[w]

ResultMatches == \A j \in Jobs : Matches(row[j])

LEMMA RowSteps ==
    ASSUME TypeOK, ResultMatches, [Next]_vars
    PROVE  \A j \in Jobs : RowStep(j)
  <1> SUFFICES ASSUME NEW j \in Jobs
               PROVE  RowStep(j)
    OBVIOUS
  <1> DEFINE r == row[j]
  <1>1. row[j] \in Row /\ Matches(row[j])
    BY DEF TypeOK, ResultMatches
  <1>2. Same(row[j], row[j])
    BY DEF Same
  <1>3. CASE UNCHANGED storeVars
    BY <1>2, <1>3 DEF storeVars, RowStep
  <1>4. ASSUME NEW k \in Jobs, Create(k) \/ GetExpires(k)
        PROVE  RowStep(j)
    BY <1>1, <1>2, <1>4, RowMoves DEF TypeOK, RowStep, Create, GetExpires,
      Due
  <1>5. ASSUME NEW w \in Workers, NEW k \in Jobs, ClaimRow(w, k)
        PROVE  RowStep(j)
    <2>1. CASE k = j
      <3>1. row'[j] = Claimed(row[j], ProcOf[w]) /\ claimant'[j] = w
        BY <1>5, <2>1 DEF ClaimRow, TypeOK
      <3>2. row[j].status = "queued" /\ ProcOf[w] \in Procs
        BY <1>5, <2>1, ProcOfAssumption
        DEF ProcOfAssumption, ClaimRow, Claimable
      <3>3. QED
        BY <1>1, <3>1, <3>2, RowMoves DEF RowStep
    <2>2. CASE k # j
      BY <1>2, <1>5, <2>2 DEF ClaimRow, TypeOK, RowStep
    <2>3. QED
      BY <2>1, <2>2
  <1>6. ASSUME NEW w \in Workers, Heartbeat(w)
        PROVE  RowStep(j)
    BY <1>1, <1>2, <1>6, RowMoves DEF TypeOK, RowStep, Heartbeat
  <1>7. ASSUME NEW w \in Workers, Commit(w)
        PROVE  RowStep(j)
    <2>1. CASE Owns(w) /\ wk[w].job = j
      <3>1. PICK s \in Finished : row'[j] = Finish(row[j], s, ResultTTL)
        BY <1>7, <2>1 DEF Commit, CommitRow, TypeOK, Finished
      <3>2. QED
        BY <1>1, <2>1, <3>1, RowMoves DEF RowStep, Owns
    <2>2. CASE ~(Owns(w) /\ wk[w].job = j)
      BY <1>2, <1>7, <2>2 DEF Commit, CommitRow, TypeOK, RowStep
    <2>3. QED
      BY <2>1, <2>2
  <1>8. ASSUME NEW w \in Workers, Requeue(w)
        PROVE  RowStep(j)
    <2>1. CASE Owns(w) /\ wk[w].job = j
      <3>1. 0 \in 0 .. Backoff /\ Backoff \in 0 .. Backoff
        BY TimeAssumption DEF TimeAssumption
      <3>2. PICK b \in {0, 1}, d \in 0 .. Backoff :
              row'[j] = Requeued(row[j], b, d)
        BY <1>8, <2>1, <3>1 DEF Requeue, TypeOK
      <3>3. QED
        BY <1>1, <2>1, <3>2, RowMoves DEF RowStep, Owns
    <2>2. CASE ~(Owns(w) /\ wk[w].job = j)
      BY <1>2, <1>8, <2>2 DEF Requeue, TypeOK, RowStep
    <2>3. QED
      BY <2>1, <2>2
  <1>9. ASSUME NEW p \in Procs, Recover(p)
        PROVE  RowStep(j)
    <2>1. 0 \in 0 .. Backoff /\ "failed" \in Finished
      BY TimeAssumption DEF TimeAssumption, Finished
    <2>2. /\ \/ row'[j] = row[j]
             \/ /\ Lapsed(j)
                /\ \/ row'[j] = Finish(row[j], "failed", 0)
                   \/ row'[j] = Requeued(row[j], 1, 0)
          /\ claimant' = claimant
      BY <1>9 DEF Recover, SweepOnly
    <2>3. QED
      BY <1>1, <1>2, <2>1, <2>2, RowMoves DEF RowStep, Lapsed
  <1>10. ASSUME NEW p \in Procs, ExpireDue(p)
         PROVE  RowStep(j)
    BY <1>1, <1>2, <1>10, RowMoves DEF RowStep, ExpireDue, SweepOnly, Due
  <1>11. ASSUME NEW c \in Cancellers, NEW k \in Jobs, CancelQueued(c, k)
         PROVE  RowStep(j)
    BY <1>1, <1>2, <1>11, RowMoves DEF TypeOK, RowStep, CancelQueued,
      CancelOnly
  <1>12. ASSUME NEW c \in Cancellers, CancelRunning(c)
         PROVE  RowStep(j)
    BY <1>1, <1>2, <1>12, RowMoves DEF TypeOK, RowStep, CancelRunning,
      CancelOnly
  <1>13. CASE Tick
    BY <1>1, <1>13, RowMoves DEF RowStep, Tick
  <1>14. QED
    BY <1>3, <1>4, <1>5, <1>6, <1>7, <1>8, <1>9, <1>10, <1>11, <1>12,
      <1>13, RowWriters

-----------------------------------------------------------------------------
(* The lease.                                                              *)

OwnerMatches ==
    \A j \in Jobs : row[j].status = "running" =>
        /\ claimant[j] \in Workers
        /\ row[j].owner = ProcOf[claimant[j]]

RowInv == TypeOK /\ ResultMatches /\ OwnerMatches

LEMMA RowInvStep == RowInv /\ [Next]_vars => RowInv'
  <1> SUFFICES ASSUME RowInv, [Next]_vars
               PROVE  RowInv'
    OBVIOUS
  <1>1. TypeOK'
    BY NextTypeOK DEF RowInv
  <1>2. \A j \in Jobs : RowStep(j)
    BY RowSteps DEF RowInv
  <1>3. ResultMatches'
    <2> SUFFICES ASSUME NEW j \in Jobs
                 PROVE  Matches(row'[j])
      BY DEF ResultMatches, Matches
    <2>1. CASE Same(row[j], row'[j])
      BY <2>1 DEF RowInv, ResultMatches, Matches, Same
    <2>2. CASE Moved(row[j], row'[j])
      BY <2>2 DEF Matches, Moved, Lifecycle!Moves
    <2>3. QED
      BY <1>2, <2>1, <2>2 DEF RowStep
  <1>4. OwnerMatches'
    <2> SUFFICES ASSUME NEW j \in Jobs, row'[j].status = "running"
                 PROVE  /\ claimant'[j] \in Workers
                        /\ row'[j].owner = ProcOf[claimant'[j]]
      BY DEF OwnerMatches
    <2>1. QED
      BY <1>2 DEF RowStep, Same, RowInv, OwnerMatches
  <1>5. QED
    BY <1>1, <1>3, <1>4 DEF RowInv

LEMMA InitRowInv == Init => RowInv
  BY InitTypeOK DEF Init, RowInv, NewRow, ResultMatches, Matches,
    OwnerMatches

(* When every process runs one worker, the WHERE clause of the store lets  *)
(* through only the execution that made the latest claim.                  *)
THEOREM LeaseCorrect ==
    ASSUME \A v, w \in Workers : ProcOf[v] = ProcOf[w] => v = w
    PROVE  Spec => []LeaseNamesOneExecution
  <1>1. Init => RowInv
    BY InitRowInv
  <1>2. RowInv /\ [Next]_vars => RowInv'
    BY RowInvStep
  <1>3. RowInv => LeaseNamesOneExecution
    <2> SUFFICES ASSUME RowInv, NEW w \in Workers, Owns(w)
                 PROVE  claimant[wk[w].job] = w
      BY DEF LeaseNamesOneExecution
    <2>1. wk[w].job \in Jobs
      BY NoneAssumption DEF Owns, RowInv, TypeOK, Worker
    <2>2. QED
      BY <2>1 DEF Owns, RowInv, OwnerMatches
  <1>4. QED
    BY <1>1, <1>2, <1>3, PTL DEF Spec

-----------------------------------------------------------------------------
(* Audits.  Writers(j): who has decided j and still has to audit it.       *)

Writers(j) ==
    {<<"worker", w>> : w \in {v \in Workers : wk[v].dec = "won"
                                              /\ wk[v].job = j}}
    \cup {<<"sweep", p>> : p \in {q \in Procs : j \in sweeper[q].failed}}
    \cup {<<"cancel", c>> : c \in {d \in Cancellers :
                                       canceller[d] = Cancels("won", j)}}

(* A step leaves j's writers alone or drops some, decides j and adds one,  *)
(* or lets one of them write its record and leave.                         *)
Quiet(j) == Writers(j)' \subseteq Writers(j) /\ audits'[j] = audits[j]

Decides(j) ==
    /\ row[j].status \notin Decided
    /\ row'[j].status \in Decided
    /\ audits'[j] = audits[j]
    /\ \E x : Writers(j)' \subseteq Writers(j) \cup {x}

Records(j) ==
    /\ audits'[j] = audits[j] + 1
    /\ \E x \in Writers(j) : Writers(j)' \subseteq Writers(j) \ {x}

AuditAfterWin == \A w \in Workers : wk[w].at = "audit" => wk[w].dec = "won"

(* A worker's step that does not win, nor audits without having won.       *)
KeepsWin(r, s) ==
    /\ s.dec = "won" => r.dec = "won" /\ s.job = r.job
    /\ s.at = "audit" => (r.at = "audit" /\ s.dec = r.dec) \/ s.dec = "won"

SameWins    == \A w \in Workers : KeepsWin(wk[w], wk'[w])
SameSweeps  == \A p \in Procs : sweeper'[p].failed \subseteq sweeper[p].failed
SameCancels == \A c \in Cancellers, j \in Jobs :
    canceller'[c] = Cancels("won", j) => canceller[c] = Cancels("won", j)

LEMMA WinKeepers ==
    ASSUME NEW r \in Worker
    PROVE  /\ KeepsWin(r, r)
           /\ KeepsWin(r, Idle)
           /\ \A j \in Jobs, n \in Nat : KeepsWin(r, Admits(j, n))
           /\ \A at \in WorkerAt, out \in Outcome :
                 at # "audit" \/ r.dec = "won" => KeepsWin(r, Goes(r, at, out))
           /\ KeepsWin(r, Starts(r, JobTimeout))
           /\ \A on \in BOOLEAN : KeepsWin(r, Beats(r, on))
           /\ KeepsWin(r, CancelContext(r))
           /\ KeepsWin(r, Beats(CancelContext(r), FALSE))
           /\ \A out \in Outcome, known, flying \in BOOLEAN :
                 KeepsWin(r, Returned(r, out, known, flying))
           /\ \A dec \in {"lost", "error"} : KeepsWin(r, Answered(r, dec))
           /\ KeepsWin(r, Elapsed(r))
  <1> USE DEF KeepsWin, Worker
  <1>1. KeepsWin(r, r)
    OBVIOUS
  <1>2. KeepsWin(r, Idle)
    BY DEF Idle
  <1>3. \A j \in Jobs, n \in Nat : KeepsWin(r, Admits(j, n))
    BY DEF Admits, Idle
  <1>4. \A at \in WorkerAt, out \in Outcome :
          at # "audit" \/ r.dec = "won" => KeepsWin(r, Goes(r, at, out))
    BY DEF Goes
  <1>5. KeepsWin(r, Starts(r, JobTimeout))
    BY DEF Starts
  <1>6. \A on \in BOOLEAN : KeepsWin(r, Beats(r, on))
    BY DEF Beats
  <1>7. KeepsWin(r, CancelContext(r))
    BY DEF CancelContext
  <1>8. KeepsWin(r, Beats(CancelContext(r), FALSE))
    BY DEF CancelContext, Beats
  <1>9. \A out \in Outcome, known, flying \in BOOLEAN :
          KeepsWin(r, Returned(r, out, known, flying))
    BY DEF Returned
  <1>10. \A dec \in {"lost", "error"} : KeepsWin(r, Answered(r, dec))
    BY DEF Answered
  <1>11. KeepsWin(r, Elapsed(r))
    BY DEF Elapsed
  <1>12. QED
    BY <1>1, <1>2, <1>3, <1>4, <1>5, <1>6, <1>7, <1>8, <1>9, <1>10, <1>11

LEMMA QuietSteps ==
    ASSUME SameWins, SameSweeps, SameCancels, UNCHANGED audits
    PROVE  \A j \in Jobs : Quiet(j)
  BY DEF SameWins, KeepsWin, SameSweeps, SameCancels, Quiet, Writers

(* A worker that leaves, or moves on, keeps the wins.                      *)
LEMMA OneWorkerKeepsWins ==
    ASSUME TypeOK, NEW w \in Workers, NEW s,
           wk' = [wk EXCEPT ![w] = s], KeepsWin(wk[w], s)
    PROVE  SameWins
  <1> SUFFICES ASSUME NEW v \in Workers
               PROVE  KeepsWin(wk[v], wk'[v])
    BY DEF SameWins
  <1>1. wk[v] \in Worker
    BY DEF TypeOK
  <1>2. QED
    BY <1>1, WinKeepers DEF TypeOK

LEMMA WorkerKeepsWins ==
    ASSUME TypeOK, NEW w \in Workers, WorkerNext(w), ~Commit(w)
    PROVE  SameWins
  <1>1. wk[w] \in Worker /\ wk[w].out \in Outcome
    BY DEF TypeOK, Worker
  <1>2. ASSUME NEW j \in Jobs, Claim(w, j) \/ ClaimUnanswered(w, j)
        PROVE  SameWins
    <2>1. row[j].attempts \in Nat
      BY DEF TypeOK, Row
    <2>2. \E s : wk' = [wk EXCEPT ![w] = s] /\ KeepsWin(wk[w], s)
      BY <1>1, <1>2, <2>1, WinKeepers DEF Claim, ClaimUnanswered, TypeOK
    <2>3. QED
      BY <2>2, OneWorkerKeepsWins
  <1>3. ASSUME AdmitDeny(w) \/ AdmitRetry(w) \/ AdmitOutage(w)
                 \/ AdmitReserve(w) \/ FailAbort(w) \/ FailRetry(w)
        PROVE  SameWins
    <2>1. PICK at \in WorkerAt \ {"audit"}, out \in Outcome :
            wk' = [wk EXCEPT ![w] = Goes(@, at, out)]
      BY <1>3 DEF AdmitDeny, AdmitRetry, AdmitOutage, AdmitReserve,
        FailAbort, FailRetry, WorkerAt, Outcome
    <2>2. KeepsWin(wk[w], Goes(wk[w], at, out))
      BY <1>1, WinKeepers
    <2>3. QED
      BY <2>1, <2>2, OneWorkerKeepsWins
  <1>4. CASE HandoffWon(w)
    <2>1. KeepsWin(wk[w], Goes(wk[w], "audit", wk[w].out))
      BY <1>1, <1>4, WinKeepers DEF HandoffWon, WorkerAt
    <2>2. QED
      BY <1>4, <2>1, OneWorkerKeepsWins DEF HandoffWon
  <1>5. CASE StartExec(w)
    <2>1. KeepsWin(wk[w], Starts(wk[w], JobTimeout))
      BY <1>1, WinKeepers
    <2>2. QED
      BY <1>5, <2>1, OneWorkerKeepsWins DEF StartExec
  <1>6. CASE Heartbeat(w)
    <2>1. KeepsWin(wk[w], Beats(wk[w], wk[w].at = "exec"))
      BY <1>1, WinKeepers
    <2>2. QED
      BY <1>6, <2>1, OneWorkerKeepsWins DEF Heartbeat
  <1>7. CASE HeartbeatFails(w)
    <2>1. KeepsWin(wk[w], Beats(CancelContext(wk[w]), FALSE))
      BY <1>1, WinKeepers
    <2>2. QED
      BY <1>7, <2>1, OneWorkerKeepsWins DEF HeartbeatFails
  <1>8. ASSUME NEW out \in Outcomes, NEW known \in BOOLEAN,
               CallReturns(w, out, known)
        PROVE  SameWins
    <2>1. PICK flying \in BOOLEAN :
            wk' = [wk EXCEPT ![w] = Returned(@, out, known, flying)]
      BY <1>8 DEF CallReturns
    <2>2. KeepsWin(wk[w], Returned(wk[w], out, known, flying))
      BY <1>1, WinKeepers DEF Outcomes, Outcome
    <2>3. QED
      BY <2>1, <2>2, OneWorkerKeepsWins
  <1>9. CASE CommitFails(w)
    <2>1. KeepsWin(wk[w], Answered(wk[w], "error"))
      BY <1>1, WinKeepers
    <2>2. QED
      BY <1>9, <2>1, OneWorkerKeepsWins DEF CommitFails
  <1>10. ASSUME Leave(w)
         PROVE  SameWins
    <2>1. KeepsWin(wk[w], Idle)
      BY <1>1, WinKeepers
    <2>2. QED
      BY <1>10, <2>1, OneWorkerKeepsWins DEF Leave
  <1>11. QED
    BY <1>2, <1>3, <1>4, <1>5, <1>6, <1>7, <1>8, <1>9, <1>10
    DEF WorkerNext, WorkerStep, HandoffError, HandoffLost, AuditWon, Requeue,
      RequeueFails

(* The steps of the other actors.                                          *)
LEMMA SignalKeepsWins ==
    ASSUME TypeOK, NEW p, NEW jobs, wk' = Signalled(p, jobs)
    PROVE  SameWins
  <1> SUFFICES ASSUME NEW w \in Workers
               PROVE  KeepsWin(wk[w], wk'[w])
    BY DEF SameWins
  <1>1. wk[w] \in Worker
    BY DEF TypeOK
  <1>2. QED
    BY <1>1, WinKeepers DEF Signalled

LEMMA Decisions ==
    ASSUME NEW r \in Row
    PROVE  /\ \A s \in Finished, t \in {0, ResultTTL} :
                 Finish(r, s, t).status = s
           /\ Cancelled(r).status = "cancelled"
  BY DEF Finish, Cancelled, Row

LEMMA OtherKeepsWins ==
    ASSUME TypeOK,
           \/ Tick \/ UNCHANGED vars
           \/ \E j \in Jobs : Create(j) \/ GetExpires(j)
           \/ \E p \in Procs : SweepNext(p) \/ ProcNext(p)
           \/ \E c \in Cancellers : CancelNext(c)
    PROVE  SameWins
  <1>1. \A w \in Workers : wk[w] \in Worker
    BY DEF TypeOK
  <1>2. CASE UNCHANGED wk
    BY <1>1, <1>2, WinKeepers DEF SameWins
  <1>3. ASSUME NEW c \in Cancellers, CancelNext(c)
        PROVE  SameWins
    BY <1>2, <1>3, SignalKeepsWins DEF CancelNext, CancelQueued,
      CancelMisses, CancelRunning, CancelNoop, CancelFinish
  <1>4. ASSUME NEW p \in Procs, SweepNext(p)
        PROVE  SameWins
    BY <1>2, <1>4 DEF SweepNext, Recover, SweepAudit, ExpireDue, SweepOnly
  <1>5. ASSUME NEW p \in Procs, Crash(p)
        PROVE  SameWins
    BY <1>1, <1>5, WinKeepers DEF SameWins, Crash
  <1>6. ASSUME NEW p \in Procs, ProcNext(p)
        PROVE  SameWins
    BY <1>2, <1>5, <1>6, SignalKeepsWins DEF ProcNext, StopBegin,
      DrainElapses, StopDone, Restart
  <1>7. CASE Tick
    BY <1>1, <1>7, WinKeepers DEF SameWins, Tick
  <1>8. ASSUME NEW j \in Jobs, Create(j) \/ GetExpires(j)
        PROVE  SameWins
    BY <1>2, <1>8 DEF Create, GetExpires
  <1>9. CASE UNCHANGED vars
    BY <1>2, <1>9 DEF vars
  <1>10. QED
    BY <1>3, <1>4, <1>6, <1>7, <1>8, <1>9

LEMMA AuditAfterWinStep == TypeOK /\ AuditAfterWin /\ [Next]_vars => AuditAfterWin'
  <1> SUFFICES ASSUME TypeOK, AuditAfterWin, [Next]_vars
               PROVE  AuditAfterWin'
    OBVIOUS
  <1>1. CASE SameWins
    BY <1>1 DEF SameWins, KeepsWin, AuditAfterWin
  <1>2. ASSUME NEW w \in Workers, Commit(w)
        PROVE  AuditAfterWin'
    <2>1. PICK dec \in Decision : wk' = [wk EXCEPT ![w] = Answered(@, dec)]
      BY <1>2 DEF Commit, Decision
    <2>2. Answered(wk[w], dec).at = "answered"
      BY DEF Answered, TypeOK, Worker
    <2>3. QED
      BY <2>1, <2>2 DEF AuditAfterWin, TypeOK
  <1>3. QED
    BY <1>1, <1>2, WorkerKeepsWins, OtherKeepsWins DEF Next

AuditStepOf(j) == Quiet(j) \/ Decides(j) \/ Records(j)

LEMMA AuditSteps ==
    ASSUME TypeOK, AuditAfterWin, [Next]_vars
    PROVE  \A j \in Jobs : AuditStepOf(j)
  <1> SUFFICES ASSUME NEW j \in Jobs
               PROVE  AuditStepOf(j)
    OBVIOUS
  <1> USE DEF AuditStepOf
  <1>1. CASE SameWins /\ SameSweeps /\ SameCancels /\ UNCHANGED audits
    BY <1>1, QuietSteps
  <1>2. UNCHANGED sweeper => SameSweeps
    BY DEF SameSweeps
  <1>3. UNCHANGED canceller => SameCancels
    BY DEF SameCancels
  <1>4. ASSUME NEW w \in Workers, Commit(w)
        PROVE  AuditStepOf(j)
    <2>1. PICK dec \in Decision :
            /\ wk' = [wk EXCEPT ![w] = Answered(@, dec)]
            /\ dec = "won" => Owns(w)
      BY <1>4 DEF Commit, Decision
    <2>2. /\ Answered(wk[w], dec).job = wk[w].job
          /\ Answered(wk[w], dec).dec = dec
      BY DEF Answered, TypeOK, Worker
    <2>3. UNCHANGED <<sweeper, canceller, audits>>
      BY <1>4 DEF Commit
    <2>4. CASE Owns(w) /\ wk[w].job = j
      <3>1. PICK s \in Finished : row'[j] = Finish(row[j], s, ResultTTL)
        BY <1>4, <2>4 DEF Commit, CommitRow, TypeOK, Finished
      <3>2. row[j].status \notin Decided /\ row'[j].status \in Decided
        BY <2>4, <3>1, Decisions DEF TypeOK, Owns, Decided, Finished
      <3>3. Writers(j)' \subseteq Writers(j) \cup {<<"worker", w>>}
        BY <2>1, <2>3 DEF Writers, TypeOK
      <3>4. QED
        BY <2>3, <3>2, <3>3 DEF Decides
    <2>5. CASE ~(Owns(w) /\ wk[w].job = j)
      <3>1. Writers(j)' \subseteq Writers(j)
        BY <2>1, <2>2, <2>3, <2>5 DEF Writers, TypeOK
      <3>2. QED
        BY <2>3, <3>1 DEF Quiet
    <2>6. QED
      BY <2>4, <2>5
  <1>5. ASSUME NEW w \in Workers, AuditWon(w)
        PROVE  AuditStepOf(j)
    <2>1. /\ wk' = [wk EXCEPT ![w] = Idle]
          /\ audits' = [audits EXCEPT ![wk[w].job] = @ + 1]
          /\ UNCHANGED <<sweeper, canceller>>
      BY <1>5 DEF AuditWon, Leave
    <2>2. Idle.dec = "none" /\ wk[w].dec = "won"
      BY <1>5 DEF AuditWon, AuditAfterWin, Idle
    <2>3. Writers(j)' \subseteq Writers(j) \ {<<"worker", w>>}
      BY <2>1, <2>2 DEF Writers, TypeOK
    <2>4. CASE wk[w].job = j
      BY <2>1, <2>2, <2>3, <2>4 DEF Records, Writers, TypeOK
    <2>5. CASE wk[w].job # j
      BY <2>1, <2>3, <2>5 DEF Quiet, TypeOK
    <2>6. QED
      BY <2>4, <2>5
  <1>6. ASSUME NEW w \in Workers, WorkerNext(w), ~Commit(w), ~AuditWon(w)
        PROVE  AuditStepOf(j)
    <2>1. UNCHANGED <<sweeper, canceller, audits>>
      BY <1>6 DEF WorkerNext, WorkerStep, Claim, ClaimUnanswered, ClaimRow,
        AdmitDeny, AdmitRetry, AdmitOutage, AdmitReserve, StartExec,
        Heartbeat, HeartbeatFails, CallReturns, FailAbort, FailRetry,
        CommitFails, HandoffError, HandoffLost, HandoffWon, Requeue,
        RequeueFails, WorkerOnly
    <2>2. QED
      BY <1>1, <1>2, <1>3, <1>6, <2>1, WorkerKeepsWins
  <1>7. ASSUME NEW p \in Procs, Recover(p)
        PROVE  AuditStepOf(j)
    <2>1. UNCHANGED <<wk, canceller, audits>>
      BY <1>7 DEF Recover, SweepOnly
    <2>2. PICK failing \in SUBSET Jobs :
            /\ \A k \in failing : /\ Lapsed(k)
                                   /\ row'[k] = Finish(row[k], "failed", 0)
            /\ \/ sweeper' = [sweeper EXCEPT ![p] = Sweeps("audit", failing)]
               \/ sweeper' = [sweeper EXCEPT ![p] = Sweeps("expire", {})]
      BY <1>7 DEF Recover
    <2>3. /\ Sweeps("audit", failing).failed = failing
          /\ Sweeps("expire", {}).failed = {}
      BY DEF Sweeps
    <2>4. CASE j \in failing
      <3>1. row[j].status \notin Decided /\ row'[j].status \in Decided
        BY <2>2, <2>4, Decisions DEF TypeOK, Lapsed, Decided, Finished
      <3>2. Writers(j)' \subseteq Writers(j) \cup {<<"sweep", p>>}
        BY <2>1, <2>2 DEF Writers, TypeOK
      <3>3. QED
        BY <2>1, <3>1, <3>2 DEF Decides
    <2>5. CASE j \notin failing
      <3>1. Writers(j)' \subseteq Writers(j)
        BY <2>1, <2>2, <2>3, <2>5 DEF Writers, TypeOK
      <3>2. QED
        BY <2>1, <3>1 DEF Quiet
    <2>6. QED
      BY <2>4, <2>5
  <1>8. ASSUME NEW p \in Procs, SweepAudit(p)
        PROVE  AuditStepOf(j)
    <2>1. UNCHANGED <<wk, canceller>>
      BY <1>8 DEF SweepAudit, SweepOnly
    <2>2. CASE sweeper[p].failed = {}
      <3>1. /\ sweeper' = [sweeper EXCEPT ![p] = Sweeps("expire", {})]
            /\ UNCHANGED audits
        BY <1>8, <2>2 DEF SweepAudit
      <3>2. SameSweeps
        BY <3>1 DEF SameSweeps, Sweeps, TypeOK
      <3>3. Writers(j)' \subseteq Writers(j)
        BY <2>1, <3>2 DEF SameSweeps, Writers
      <3>4. QED
        BY <3>1, <3>3 DEF Quiet
    <2>3. ASSUME NEW k \in sweeper[p].failed,
                 audits' = [audits EXCEPT ![k] = @ + 1],
                 sweeper' = [sweeper EXCEPT ![p] =
                               Sweeps("audit", @.failed \ {k})]
          PROVE  AuditStepOf(j)
      <3>1. Sweeps("audit", sweeper[p].failed \ {k}).failed
              = sweeper[p].failed \ {k}
        BY DEF Sweeps
      <3>2. CASE k = j
        <4>1. /\ Writers(j)' \subseteq Writers(j)
              /\ <<"sweep", p>> \notin Writers(j)'
          <5>1. SameSweeps /\ j \notin sweeper'[p].failed
            BY <2>3, <3>1, <3>2 DEF SameSweeps, TypeOK
          <5>2. Writers(j)' \subseteq Writers(j)
            BY <2>1, <5>1 DEF SameSweeps, Writers
          <5>3. <<"sweep", p>> \notin Writers(j)'
            BY <5>1 DEF Writers
          <5>4. QED
            BY <5>2, <5>3
        <4>2. <<"sweep", p>> \in Writers(j)
          BY <3>2 DEF Writers
        <4>3. QED
          BY <2>3, <3>2, <4>1, <4>2 DEF Records, TypeOK
      <3>3. CASE k # j
        <4>1. Writers(j)' \subseteq Writers(j)
          BY <2>1, <2>3, <3>1 DEF Writers, TypeOK
        <4>2. QED
          BY <2>3, <3>3, <4>1 DEF Quiet, TypeOK
      <3>4. QED
        BY <3>2, <3>3
    <2>4. QED
      BY <1>8, <2>2, <2>3 DEF SweepAudit
  <1>9. ASSUME NEW p \in Procs, ExpireDue(p) \/ ProcNext(p)
        PROVE  AuditStepOf(j)
    <2>1. SameWins
      BY <1>9, OtherKeepsWins DEF SweepNext
    <2>2. SameSweeps
      <3>1. Sweeps("recover", {}).failed = {}
        BY DEF Sweeps
      <3>2. \/ UNCHANGED sweeper
            \/ sweeper' = [sweeper EXCEPT ![p] = Sweeps("recover", {})]
        BY <1>9 DEF ExpireDue, ProcNext, StopBegin, DrainElapses, StopDone,
          Crash, Restart
      <3>3. QED
        BY <3>1, <3>2 DEF SameSweeps, TypeOK
    <2>3. SameCancels
      BY <1>9 DEF SameCancels, TypeOK, NoCancel, Cancels, ExpireDue,
        SweepOnly, ProcNext, StopBegin, DrainElapses, StopDone, Crash, Restart
    <2>4. UNCHANGED audits
      BY <1>9 DEF ExpireDue, SweepOnly, ProcNext, StopBegin, DrainElapses,
        StopDone, Crash, Restart, ProcOnly
    <2>5. QED
      BY <1>1, <2>1, <2>2, <2>3, <2>4
  <1>10. ASSUME NEW c \in Cancellers, CancelNext(c)
         PROVE  AuditStepOf(j)
    <2>1. SameWins /\ UNCHANGED sweeper
      BY <1>10, OtherKeepsWins DEF CancelNext, CancelQueued, CancelMisses,
        CancelRunning, CancelNoop, CancelFinish, CancelOnly
    <2>2. ASSUME UNCHANGED audits,
                 canceller' = [canceller EXCEPT ![c] = NoCancel]
                   \/ \E k : canceller' =
                               [canceller EXCEPT ![c] = Cancels("second", k)]
          PROVE  AuditStepOf(j)
      <3>1. SameCancels
        BY <2>2 DEF SameCancels, NoCancel, Cancels, TypeOK
      <3>2. QED
        BY <1>1, <1>2, <2>1, <2>2, <3>1
    <2>3. ASSUME NEW k \in Jobs \cup {None}, UNCHANGED audits,
                 row' = [row EXCEPT ![k] = Cancelled(@)],
                 row[k].status \in {"queued", "running"},
                 canceller' = [canceller EXCEPT ![c] = Cancels("won", k)]
          PROVE  AuditStepOf(j)
      <3>1. Writers(j)' \subseteq Writers(j) \cup
              (IF k = j THEN {<<"cancel", c>>} ELSE {})
        BY <2>1, <2>3 DEF SameWins, KeepsWin, Writers, TypeOK, Cancels
      <3>2. CASE k = j
        BY <2>3, <3>1, <3>2, Decisions DEF Decides, Decided, TypeOK
      <3>3. CASE k # j
        BY <2>3, <3>1, <3>3 DEF Quiet
      <3>4. QED
        BY <3>2, <3>3
    <2>4. CASE CancelFinish(c)
      <3>1. SameCancels
        BY <2>4 DEF CancelFinish, SameCancels, NoCancel, Cancels, TypeOK
      <3>2. Writers(j)' \subseteq Writers(j) \ {<<"cancel", c>>}
        <4>1. canceller'[c] # Cancels("won", j)
          BY <2>4 DEF CancelFinish, NoCancel, Cancels, TypeOK
        <4>2. <<"cancel", c>> \notin Writers(j)'
          BY <4>1 DEF Writers
        <4>3. Writers(j)' \subseteq Writers(j)
          BY <2>1, <3>1 DEF SameWins, KeepsWin, SameCancels, Writers
        <4>4. QED
          BY <4>2, <4>3
      <3>3. CASE canceller[c].job = j
        <4>1. canceller[c] = Cancels("won", j)
          BY <2>4, <3>3 DEF CancelFinish, Cancels, TypeOK, Canceller
        <4>2. QED
          BY <2>4, <3>2, <3>3, <4>1 DEF CancelFinish, Records, Writers,
            TypeOK
      <3>4. CASE canceller[c].job # j
        BY <2>4, <3>2, <3>4 DEF CancelFinish, Quiet, TypeOK
      <3>5. QED
        BY <3>3, <3>4
    <2>5. canceller[c].job \in Jobs \cup {None}
      BY DEF TypeOK, Canceller
    <2>6. QED
      BY <1>10, <2>2, <2>3, <2>4, <2>5 DEF CancelNext, CancelQueued,
        CancelMisses, CancelRunning, CancelNoop
  <1>11. CASE \/ Tick \/ UNCHANGED vars
              \/ \E k \in Jobs : Create(k) \/ GetExpires(k)
    <2>1. SameWins
      BY <1>11, OtherKeepsWins
    <2>2. UNCHANGED <<sweeper, canceller, audits>>
      BY <1>11 DEF Tick, vars, Create, GetExpires
    <2>3. QED
      BY <1>1, <1>2, <1>3, <2>1, <2>2
  <1>12. QED
    BY <1>4, <1>5, <1>6, <1>7, <1>8, <1>9, <1>10, <1>11
    DEF Next, SweepNext

-----------------------------------------------------------------------------
(* The inductive invariant: at most one writer is left for a decided job,  *)
(* and none once the record is written.                                    *)

AuditsMatch ==
    \A j \in Jobs :
        /\ audits[j] \in {0, 1}
        /\ audits[j] = 1 => row[j].status \in Decided /\ Writers(j) = {}
        /\ \A x \in Writers(j) :
              row[j].status \in Decided /\ Writers(j) = {x}

IInv == RowInv /\ AuditAfterWin /\ AuditsMatch

LEMMA DecidedForGood ==
    ASSUME NEW j \in Jobs, RowStep(j), row[j].status \in Decided
    PROVE  row'[j].status \in Decided
  BY DEF RowStep, Same, Moved, Lifecycle!Moves, Decided

LEMMA InitIInv == Init => IInv
  <1> SUFFICES ASSUME Init
               PROVE  IInv
    OBVIOUS
  <1>1. AuditAfterWin
    BY DEF Init, AuditAfterWin, Idle
  <1>2. \A j \in Jobs : Writers(j) = {}
    BY DEF Init, Writers, Idle, Sweeps, Cancels, NoCancel
  <1>3. AuditsMatch
    BY <1>2 DEF Init, AuditsMatch
  <1>4. QED
    BY <1>1, <1>3, InitRowInv DEF IInv

LEMMA IInvStep == IInv /\ [Next]_vars => IInv'
  <1> SUFFICES ASSUME IInv, [Next]_vars
               PROVE  IInv'
    OBVIOUS
  <1>1. RowInv' /\ AuditAfterWin'
    BY RowInvStep, AuditAfterWinStep DEF IInv, RowInv
  <1>2. AuditsMatch'
    <2> SUFFICES ASSUME NEW j \in Jobs
                 PROVE  /\ audits'[j] \in {0, 1}
                        /\ audits'[j] = 1 => /\ row'[j].status \in Decided
                                             /\ Writers(j)' = {}
                        /\ \A x \in Writers(j)' :
                              /\ row'[j].status \in Decided
                              /\ Writers(j)' = {x}
      BY DEF AuditsMatch
    <2>1. row[j].status \in Decided => row'[j].status \in Decided
      BY RowSteps, DecidedForGood DEF IInv, RowInv
    <2>2. Quiet(j) \/ Decides(j) \/ Records(j)
      BY AuditSteps DEF IInv, RowInv, AuditStepOf
    <2>3. /\ audits[j] \in {0, 1}
          /\ audits[j] = 1 => row[j].status \in Decided /\ Writers(j) = {}
          /\ \A x \in Writers(j) :
                row[j].status \in Decided /\ Writers(j) = {x}
      BY DEF IInv, AuditsMatch
    <2>4. CASE Quiet(j)
      BY <2>1, <2>3, <2>4 DEF Quiet
    <2>5. CASE Decides(j)
      <3>1. Writers(j) = {} /\ audits[j] = 0
        BY <2>3, <2>5 DEF Decides
      <3>2. QED
        BY <2>3, <2>5, <3>1 DEF Decides
    <2>6. CASE Records(j)
      <3>1. PICK x \in Writers(j) : Writers(j)' \subseteq Writers(j) \ {x}
        BY <2>6 DEF Records
      <3>2. Writers(j)' = {} /\ audits[j] = 0 /\ row[j].status \in Decided
        BY <2>3, <3>1
      <3>3. QED
        BY <2>1, <2>6, <3>2 DEF Records
    <2>7. QED
      BY <2>2, <2>4, <2>5, <2>6
  <1>3. QED
    BY <1>1, <1>2 DEF IInv

-----------------------------------------------------------------------------
(* Refinement.                                                             *)

LEMMA InitRefines == Init => Lifecycle!Init
  BY DEF Init, Lifecycle!Init, NewRow

LEMMA StepRefines == IInv /\ IInv' /\ [Next]_vars => Lifecycle!Next
  <1> SUFFICES ASSUME IInv, IInv', [Next]_vars
               PROVE  Lifecycle!Next
    OBVIOUS
  <1>1. /\ [j \in Jobs |-> row'[j].status] \in [Jobs -> Lifecycle!Status]
        /\ [j \in Jobs |-> row'[j].result] \in [Jobs -> Lifecycle!Results]
        /\ audits' \in [Jobs -> Nat]
    BY DEF IInv, RowInv, TypeOK, Row, Status, Results, Lifecycle!Status,
      Lifecycle!Results
  <1>2. ASSUME NEW j \in Jobs
        PROVE  Lifecycle!Move(j)
    <2>1. RowStep(j)
      BY RowSteps DEF IInv, RowInv
    <2>2. QED
      BY <2>1 DEF RowStep, Same, Moved, Lifecycle!Move
  <1>3. ASSUME NEW j \in Jobs
        PROVE  Lifecycle!Audit(j)
    <2>1. Quiet(j) \/ Decides(j) \/ Records(j)
      BY AuditSteps DEF IInv, RowInv, AuditStepOf
    <2>2. CASE Records(j)
      <3>1. audits[j] = 0 /\ row[j].status \in Decided
        BY <2>2 DEF Records, IInv, AuditsMatch
      <3>2. QED
        BY <2>2, <3>1 DEF Records, Lifecycle!Audit, Lifecycle!Decided,
          Decided
    <2>3. CASE Quiet(j) \/ Decides(j)
      BY <2>3 DEF Quiet, Decides, Lifecycle!Audit
    <2>4. QED
      BY <2>1, <2>2, <2>3
  <1>4. QED
    BY <1>1, <1>2, <1>3 DEF Lifecycle!Next

(* Every behaviour of the store, the pools, the sweeps and the cancel      *)
(* handlers is a behaviour of JobLifecycle: a job is decided once, its     *)
(* result follows the decision, and it is audited at most once.            *)
THEOREM Implements == Spec => LifecycleSpec
  <1>1. Init => IInv
    BY InitIInv
  <1>2. IInv /\ [Next]_vars => IInv'
    BY IInvStep
  <1>3. Init => Lifecycle!Init
    BY InitRefines
  <1>4. IInv /\ IInv' /\ [Next]_vars => [Lifecycle!Next]_(Lifecycle!jvars)
    BY StepRefines
  <1>5. QED
    BY <1>1, <1>2, <1>3, <1>4, PTL DEF Spec, LifecycleSpec, Lifecycle!Spec

-----------------------------------------------------------------------------
(* Settlement.                                                             *)

LEMMA LedgerFields ==
    \A l \in Ledger : /\ Held(l).settled = l.settled
                      /\ Freed(l).settled = l.settled
  BY DEF Ledger, Held, Freed

LEMMA SettleSteps ==
    ASSUME IInv, [Next]_vars, NEW j \in Jobs, ledger'[j].settled
    PROVE  ledger[j].settled \/ row[j].status \in Decided
  <1> USE DEF IInv, RowInv
  <1>1. ledger[j] \in Ledger
    BY DEF TypeOK, Ledger
  <1>2. CASE \/ UNCHANGED ledger
             \/ \E k : Reserve(k) \/ Release(k)
    BY <1>1, <1>2, LedgerFields DEF Reserve, Release, TypeOK
  <1>3. ASSUME NEW k, Settle(k), k # j
        PROVE  ledger[j].settled
    BY <1>3 DEF Settle, TypeOK
  <1>4. ASSUME NEW w \in Workers, HandoffWon(w)
        PROVE  ledger[j].settled \/ row[j].status \in Decided
    <2>1. CASE wk[w].job = j
      <3>1. <<"worker", w>> \in Writers(j)
        BY <1>4, <2>1 DEF HandoffWon, Writers
      <3>2. QED
        BY <3>1 DEF AuditsMatch
    <2>2. CASE wk[w].job # j
      BY <1>2, <1>3, <1>4, <2>2 DEF HandoffWon
    <2>3. QED
      BY <2>1, <2>2
  <1>5. ASSUME NEW w \in Workers, HandoffLost(w)
        PROVE  ledger[j].settled \/ row[j].status \in Decided
    <2>1. CASE Settle(wk[w].job) /\ row[wk[w].job].status = "cancelled"
      BY <1>3, <2>1 DEF Decided
    <2>2. CASE ~(Settle(wk[w].job) /\ row[wk[w].job].status = "cancelled")
      BY <1>2, <1>5, <2>2 DEF HandoffLost
    <2>3. QED
      BY <2>1, <2>2
  <1>6. ASSUME NEW w \in Workers, WorkerNext(w)
        PROVE  ledger[j].settled \/ row[j].status \in Decided
    BY <1>2, <1>4, <1>5, <1>6 DEF WorkerNext, WorkerStep, Claim,
      ClaimUnanswered, ClaimRow, AdmitDeny, AdmitRetry, AdmitOutage,
      AdmitReserve, StartExec, Heartbeat, HeartbeatFails, CallReturns,
      FailAbort, FailRetry, Commit, CommitFails, HandoffError, AuditWon,
      Requeue, RequeueFails
  <1>7. CASE \/ \E k \in Jobs : Create(k) \/ GetExpires(k)
             \/ \E p \in Procs : SweepNext(p) \/ ProcNext(p)
             \/ \E c \in Cancellers : CancelNext(c)
             \/ Tick
             \/ UNCHANGED vars
    <2>1. UNCHANGED ledger
      BY <1>7 DEF Create, GetExpires, SweepNext, Recover, SweepAudit,
        ExpireDue, SweepOnly, ProcNext, StopBegin, DrainElapses, StopDone,
        Crash, Restart, ProcOnly, CancelNext, CancelQueued, CancelMisses,
        CancelRunning, CancelNoop, CancelFinish, CancelOnly, Tick, vars
    <2>2. QED
      BY <1>2, <2>1
  <1>8. QED
    BY <1>6, <1>7 DEF Next

(* A settled job is decided for good: no job that may still run, and be    *)
(* billed again, has been settled, whoever lost which lease.               *)
THEOREM SettlementCorrect == Spec => []SettledOnlyIfDecided
  <1>1. Init => IInv /\ SettledOnlyIfDecided
    BY InitIInv DEF Init, SettledOnlyIfDecided
  <1>2. /\ IInv /\ SettledOnlyIfDecided /\ [Next]_vars
        => IInv' /\ SettledOnlyIfDecided'
    <2> SUFFICES ASSUME IInv, SettledOnlyIfDecided, [Next]_vars
                 PROVE  IInv' /\ SettledOnlyIfDecided'
      OBVIOUS
    <2>1. ASSUME NEW j \in Jobs, ledger'[j].settled
          PROVE  row'[j].status \in Decided
      <3>1. row[j].status \in Decided
        BY <2>1, SettleSteps DEF SettledOnlyIfDecided
      <3>2. QED
        BY <3>1, RowSteps, DecidedForGood DEF IInv, RowInv
    <2>2. QED
      BY <2>1, IInvStep DEF SettledOnlyIfDecided
  <1>3. QED
    BY <1>1, <1>2, PTL DEF Spec

-----------------------------------------------------------------------------
(* The invariant.                                                          *)

(* A worker that has a job owns its lease, in time, until it is decided.   *)
HolderOwns ==
    \A w \in Workers : wk[w].job # None =>
        LET r == row[wk[w].job]
        IN  \/ r.status \in Decided
            \/ /\ r.status = "running"
               /\ r.owner = ProcOf[w]
               /\ r.lease >= 0
               /\ r.attempts = wk[w].seen

OneHolder ==
    \A v, w \in Workers :
        wk[v].job # None /\ wk[v].job = wk[w].job => v = w

(* A hand-back that counts an attempt leaves one.                          *)
Bumps(r) == r.at = "handback" /\ r.out \in {"bump", "retry"}

BumpsInTime == \A w \in Workers : Bumps(wk[w]) => wk[w].seen + 1 < MaxAttempts

AttemptLeft(r) == r.status \notin Decided => r.attempts < MaxAttempts

AttemptsLeft == \A j \in Jobs : AttemptLeft(row[j])

LeaseInv == /\ RowInv
            /\ HolderOwns
            /\ OneHolder
            /\ BumpsInTime
            /\ AttemptsLeft

-----------------------------------------------------------------------------
(* Workers: only Claim takes a job, only the guarded hand-backs bump.      *)

KeepsJob(r, s) ==
    /\ s.job # None => s.job = r.job /\ s.seen = r.seen
    /\ Bumps(s) => \/ Bumps(r) /\ s.seen = r.seen
                   \/ s.seen + 1 < MaxAttempts

SameJobs == \A w \in Workers : KeepsJob(wk[w], wk'[w])

LEMMA JobKeepers ==
    ASSUME NEW r \in Worker
    PROVE  /\ KeepsJob(r, r)
           /\ KeepsJob(r, Idle)
           /\ \A at \in WorkerAt, out \in Outcome :
                 at # "handback" \/ out \notin {"bump", "retry"}
                   \/ r.seen + 1 < MaxAttempts => KeepsJob(r, Goes(r, at, out))
           /\ KeepsJob(r, Starts(r, JobTimeout))
           /\ \A on \in BOOLEAN : KeepsJob(r, Beats(r, on))
           /\ KeepsJob(r, CancelContext(r))
           /\ KeepsJob(r, Beats(CancelContext(r), FALSE))
           /\ \A out \in Outcome, known, flying \in BOOLEAN :
                 KeepsJob(r, Returned(r, out, known, flying))
           /\ \A dec \in Decision : KeepsJob(r, Answered(r, dec))
           /\ KeepsJob(r, Elapsed(r))
  <1> USE DEF KeepsJob, Bumps, Worker
  <1>1. KeepsJob(r, r)
    OBVIOUS
  <1>2. KeepsJob(r, Idle)
    BY DEF Idle
  <1>3. \A at \in WorkerAt, out \in Outcome :
          at # "handback" \/ out \notin {"bump", "retry"}
            \/ r.seen + 1 < MaxAttempts => KeepsJob(r, Goes(r, at, out))
    BY DEF Goes
  <1>4. KeepsJob(r, Starts(r, JobTimeout))
    BY DEF Starts
  <1>5. \A on \in BOOLEAN : KeepsJob(r, Beats(r, on))
    BY DEF Beats
  <1>6. KeepsJob(r, CancelContext(r))
    BY DEF CancelContext
  <1>7. KeepsJob(r, Beats(CancelContext(r), FALSE))
    BY DEF CancelContext, Beats
  <1>8. \A out \in Outcome, known, flying \in BOOLEAN :
          KeepsJob(r, Returned(r, out, known, flying))
    BY DEF Returned
  <1>9. \A dec \in Decision : KeepsJob(r, Answered(r, dec))
    BY DEF Answered
  <1>10. KeepsJob(r, Elapsed(r))
    BY DEF Elapsed
  <1>11. QED
    BY <1>1, <1>2, <1>3, <1>4, <1>5, <1>6, <1>7, <1>8, <1>9, <1>10

LEMMA OneWorkerKeepsJobs ==
    ASSUME TypeOK, NEW w \in Workers, NEW s,
           wk' = [wk EXCEPT ![w] = s], KeepsJob(wk[w], s)
    PROVE  SameJobs
  <1> SUFFICES ASSUME NEW v \in Workers
               PROVE  KeepsJob(wk[v], wk'[v])
    BY DEF SameJobs
  <1>1. wk[v] \in Worker
    BY DEF TypeOK
  <1>2. QED
    BY <1>1, JobKeepers DEF TypeOK

LEMMA WorkerKeepsJobs ==
    ASSUME TypeOK, NEW w \in Workers, WorkerNext(w),
           \A j \in Jobs : ~Claim(w, j)
    PROVE  SameJobs
  <1>1. wk[w] \in Worker /\ wk[w].out \in Outcome
    BY DEF TypeOK, Worker
  <1>2. ASSUME NEW j \in Jobs, ClaimUnanswered(w, j)
        PROVE  SameJobs
    <2>1. \A v \in Workers : wk[v] \in Worker
      BY DEF TypeOK
    <2>2. QED
      BY <1>2, <2>1, JobKeepers DEF ClaimUnanswered, SameJobs
  <1>3. ASSUME NEW at \in WorkerAt, NEW out \in Outcome,
               wk' = [wk EXCEPT ![w] = Goes(@, at, out)],
               at # "handback" \/ out \notin {"bump", "retry"}
                 \/ wk[w].seen + 1 < MaxAttempts
        PROVE  SameJobs
    <2>1. KeepsJob(wk[w], Goes(wk[w], at, out))
      BY <1>1, <1>3, JobKeepers
    <2>2. QED
      BY <1>3, <2>1, OneWorkerKeepsJobs
  <1>4. CASE AdmitDeny(w) \/ AdmitRetry(w) \/ AdmitOutage(w)
    BY <1>3, <1>4 DEF AdmitDeny, AdmitRetry, AdmitOutage, WorkerAt, Outcome
  <1>5. CASE AdmitReserve(w) \/ FailAbort(w) \/ FailRetry(w)
    BY <1>3, <1>5 DEF AdmitReserve, FailAbort, FailRetry, WorkerAt, Outcome
  <1>6. CASE HandoffWon(w)
    BY <1>1, <1>3, <1>6 DEF HandoffWon, WorkerAt
  <1>7. CASE StartExec(w)
    <2>1. KeepsJob(wk[w], Starts(wk[w], JobTimeout))
      BY <1>1, JobKeepers
    <2>2. QED
      BY <1>7, <2>1, OneWorkerKeepsJobs DEF StartExec
  <1>8. CASE Heartbeat(w)
    <2>1. KeepsJob(wk[w], Beats(wk[w], wk[w].at = "exec"))
      BY <1>1, JobKeepers
    <2>2. QED
      BY <1>8, <2>1, OneWorkerKeepsJobs DEF Heartbeat
  <1>9. CASE HeartbeatFails(w)
    <2>1. KeepsJob(wk[w], Beats(CancelContext(wk[w]), FALSE))
      BY <1>1, JobKeepers
    <2>2. QED
      BY <1>9, <2>1, OneWorkerKeepsJobs DEF HeartbeatFails
  <1>10. ASSUME NEW out \in Outcomes, NEW known \in BOOLEAN,
                CallReturns(w, out, known)
         PROVE  SameJobs
    <2>1. PICK flying \in BOOLEAN :
            wk' = [wk EXCEPT ![w] = Returned(@, out, known, flying)]
      BY <1>10 DEF CallReturns
    <2>2. KeepsJob(wk[w], Returned(wk[w], out, known, flying))
      BY <1>1, JobKeepers DEF Outcomes, Outcome
    <2>3. QED
      BY <2>1, <2>2, OneWorkerKeepsJobs
  <1>11. CASE Commit(w) \/ CommitFails(w)
    <2>1. PICK dec \in Decision : wk' = [wk EXCEPT ![w] = Answered(@, dec)]
      BY <1>11 DEF Commit, CommitFails, Decision
    <2>2. KeepsJob(wk[w], Answered(wk[w], dec))
      BY <1>1, JobKeepers
    <2>3. QED
      BY <2>1, <2>2, OneWorkerKeepsJobs
  <1>12. ASSUME Leave(w)
         PROVE  SameJobs
    <2>1. KeepsJob(wk[w], Idle)
      BY <1>1, JobKeepers
    <2>2. QED
      BY <1>12, <2>1, OneWorkerKeepsJobs DEF Leave
  <1>13. QED
    BY <1>2, <1>4, <1>5, <1>6, <1>7, <1>8, <1>9, <1>10, <1>11, <1>12
    DEF WorkerNext, WorkerStep, HandoffError, HandoffLost, AuditWon, Requeue,
      RequeueFails

LEMMA SignalKeepsJobs ==
    ASSUME TypeOK, NEW p, NEW jobs, wk' = Signalled(p, jobs)
    PROVE  SameJobs
  <1> SUFFICES ASSUME NEW w \in Workers
               PROVE  KeepsJob(wk[w], wk'[w])
    BY DEF SameJobs
  <1>1. wk[w] \in Worker
    BY DEF TypeOK
  <1>2. QED
    BY <1>1, JobKeepers DEF Signalled

(* Every step but a claim keeps the jobs where they are.                   *)
LEMMA OnlyClaimsTakeJobs ==
    ASSUME TypeOK, [Next]_vars,
           \A w \in Workers, j \in Jobs : ~Claim(w, j)
    PROVE  SameJobs
  <1>1. \A w \in Workers : wk[w] \in Worker
    BY DEF TypeOK
  <1>2. CASE UNCHANGED wk
    BY <1>1, <1>2, JobKeepers DEF SameJobs
  <1>3. ASSUME NEW c \in Cancellers, CancelNext(c)
        PROVE  SameJobs
    BY <1>2, <1>3, SignalKeepsJobs DEF CancelNext, CancelQueued,
      CancelMisses, CancelRunning, CancelNoop, CancelFinish
  <1>4. ASSUME NEW p \in Procs, SweepNext(p)
        PROVE  SameJobs
    BY <1>2, <1>4 DEF SweepNext, Recover, SweepAudit, ExpireDue, SweepOnly
  <1>5. ASSUME NEW p \in Procs, Crash(p)
        PROVE  SameJobs
    BY <1>1, <1>5, JobKeepers DEF SameJobs, Crash
  <1>6. ASSUME NEW p \in Procs, ProcNext(p)
        PROVE  SameJobs
    BY <1>2, <1>5, <1>6, SignalKeepsJobs DEF ProcNext, StopBegin,
      DrainElapses, StopDone, Restart
  <1>7. CASE Tick
    BY <1>1, <1>7, JobKeepers DEF SameJobs, Tick
  <1>8. ASSUME NEW j \in Jobs, Create(j) \/ GetExpires(j)
        PROVE  SameJobs
    BY <1>2, <1>8 DEF Create, GetExpires
  <1>9. CASE UNCHANGED vars
    BY <1>2, <1>9 DEF vars
  <1>10. QED
    BY <1>3, <1>4, <1>6, <1>7, <1>8, <1>9, WorkerKeepsJobs DEF Next

-----------------------------------------------------------------------------
(* Rows.                                                                   *)

(* The fields that leases and attempts depend on, after each update.       *)
LEMMA RowFields ==
    ASSUME NEW r \in Row
    PROVE  /\ Created(r).status = "queued"
           /\ Created(r).attempts = r.attempts
           /\ \A p \in Procs : /\ Claimed(r, p).status = "running"
                               /\ Claimed(r, p).owner = p
                               /\ Claimed(r, p).lease >= 0
                               /\ Claimed(r, p).attempts = r.attempts
           /\ \A b \in {0, 1}, d \in 0 .. Backoff :
                 /\ Requeued(r, b, d).status = "queued"
                 /\ Requeued(r, b, d).attempts = r.attempts + b
           /\ \A s \in Finished, t \in {0, ResultTTL} :
                 Finish(r, s, t).status \in Decided
           /\ Cancelled(r).status \in Decided
           /\ Expired(r).status \in Decided
           /\ Renewed(r).status = r.status /\ Renewed(r).owner = r.owner
           /\ Renewed(r).attempts = r.attempts /\ Renewed(r).lease >= 0
           /\ Aged(r).status = r.status /\ Aged(r).owner = r.owner
           /\ Aged(r).attempts = r.attempts
           /\ r.lease > 0 => Aged(r).lease >= 0
  <1> USE DEF Row, Finished, Decided
  <1>1. Lease >= 0
    BY TimeAssumption DEF TimeAssumption
  <1>2. Created(r).status = "queued" /\ Created(r).attempts = r.attempts
    BY DEF Created
  <1>3. \A p \in Procs : /\ Claimed(r, p).status = "running"
                        /\ Claimed(r, p).owner = p
                        /\ Claimed(r, p).lease >= 0
                        /\ Claimed(r, p).attempts = r.attempts
    BY <1>1 DEF Claimed
  <1>4. \A b \in {0, 1}, d \in 0 .. Backoff :
          /\ Requeued(r, b, d).status = "queued"
          /\ Requeued(r, b, d).attempts = r.attempts + b
    BY DEF Requeued
  <1>5. /\ \A s \in Finished, t \in {0, ResultTTL} :
             Finish(r, s, t).status \in Decided
        /\ Cancelled(r).status \in Decided
        /\ Expired(r).status \in Decided
    BY DEF Finish, Cancelled, Expired
  <1>6. /\ Renewed(r).status = r.status /\ Renewed(r).owner = r.owner
        /\ Renewed(r).attempts = r.attempts /\ Renewed(r).lease >= 0
    BY <1>1 DEF Renewed
  <1>7. /\ Aged(r).status = r.status /\ Aged(r).owner = r.owner
        /\ Aged(r).attempts = r.attempts
    BY DEF Aged
  <1>8. r.lease > 0 => Aged(r).lease >= 0
    BY <1>1 DEF Aged, Down
  <1>9. QED
    BY <1>2, <1>3, <1>4, <1>5, <1>6, <1>7, <1>8

(* A lease that a worker holds in time has not lapsed, so the sweep leaves *)
(* its job alone; a lapsed job it returns to the queue has an attempt left.*)
LEMMA RecoverSpares ==
    ASSUME LeaseInv, NEW p \in Procs, Recover(p), NEW j \in Jobs
    PROVE  /\ (\E w \in Workers : wk[w].job = j) /\ row[j].status \notin Decided
               => row'[j] = row[j]
           /\ \/ row'[j] = row[j]
              \/ row'[j] = Finish(row[j], "failed", 0)
              \/ /\ row'[j] = Requeued(row[j], 1, 0)
                 /\ row[j].attempts + 1 < MaxAttempts
  <1>1. j # None /\ row[j] \in Row
    BY NoneAssumption DEF LeaseInv, RowInv, TypeOK
  <1>2. (\E w \in Workers : wk[w].job = j) => ~Lapsed(j)
    BY <1>1 DEF LeaseInv, HolderOwns, Lapsed, Decided, Row
  <1>3. Lapsed(j) => ~Skippable(j)
    BY <1>2 DEF Skippable
  <1>4. ~Lapsed(j) => row'[j] = row[j]
    BY DEF Recover
  <1>5. ~Exhausted(j) => row[j].attempts + 1 < MaxAttempts
    BY <1>1, AttemptAssumption DEF AttemptAssumption, Exhausted, Row
  <1>6. \/ row'[j] = row[j]
        \/ row'[j] = Finish(row[j], "failed", 0)
        \/ row'[j] = Requeued(row[j], 1, 0) /\ ~Exhausted(j)
    BY <1>3 DEF Recover
  <1>7. QED
    BY <1>2, <1>4, <1>5, <1>6

(* While a worker has a job, its row stays under the worker's lease, in    *)
(* time, until it is decided.                                              *)
LEMMA LeaseSteps ==
    ASSUME LeaseInv, TimelyHeartbeats, [Next]_vars,
           NEW w \in Workers, NEW j \in Jobs,
           wk[w].job = j, wk'[w].job = j, row[j].status \notin Decided
    PROVE  \/ row'[j].status \in Decided
           \/ /\ row'[j].status = "running"
              /\ row'[j].owner = row[j].owner
              /\ row'[j].lease >= 0
              /\ row'[j].attempts = row[j].attempts
  <1> USE DEF LeaseInv, RowInv
  <1>1. row[j] \in Row /\ j # None
    BY NoneAssumption DEF TypeOK
  <1>2. /\ row[j].status = "running" /\ row[j].owner = ProcOf[w]
        /\ row[j].lease >= 0 /\ Owns(w)
    BY <1>1 DEF HolderOwns, Owns
  <1>3. CASE row'[j] = row[j]
    BY <1>2, <1>3
  <1>4. CASE UNCHANGED storeVars
    BY <1>3, <1>4 DEF storeVars
  <1>5. ASSUME NEW k \in Jobs, Create(k) \/ GetExpires(k)
        PROVE  row'[j] = row[j]
    BY <1>2, <1>5 DEF Create, GetExpires, Due, Finished, TypeOK
  <1>6. ASSUME NEW v \in Workers, NEW k \in Jobs, ClaimRow(v, k)
        PROVE  row'[j] = row[j]
    BY <1>2, <1>6 DEF ClaimRow, Claimable, TypeOK
  <1>7. ASSUME NEW v \in Workers, Heartbeat(v)
        PROVE  row'[j] = row[j] \/ row'[j] = Renewed(row[j])
    BY <1>7 DEF Heartbeat, TypeOK
  <1>8. ASSUME NEW v \in Workers, Commit(v)
        PROVE  \/ row'[j] = row[j]
               \/ \E s \in Finished : row'[j] = Finish(row[j], s, ResultTTL)
    BY <1>8 DEF Commit, CommitRow, Finished, TypeOK
  <1>9. ASSUME NEW v \in Workers, Requeue(v)
        PROVE  row'[j] = row[j]
    <2>1. wk'[v] = Idle /\ Idle.job = None
      BY <1>9 DEF Requeue, Leave, Idle, TypeOK
    <2>2. v # w
      BY <1>1, <2>1
    <2>3. wk[v].job # j
      BY <1>1, <2>2 DEF OneHolder
    <2>4. QED
      BY <1>9, <2>3 DEF Requeue, TypeOK
  <1>10. ASSUME NEW p \in Procs, Recover(p)
         PROVE  row'[j] = row[j]
    BY <1>10, RecoverSpares
  <1>11. ASSUME NEW p \in Procs, ExpireDue(p)
         PROVE  row'[j] = row[j]
    BY <1>2, <1>11 DEF ExpireDue, Due, Finished
  <1>12. ASSUME NEW c \in Cancellers, NEW k \in Jobs, CancelQueued(c, k)
         PROVE  row'[j] = row[j]
    BY <1>2, <1>12 DEF CancelQueued, TypeOK
  <1>13. ASSUME NEW c \in Cancellers, CancelRunning(c)
         PROVE  row'[j] = row[j] \/ row'[j] = Cancelled(row[j])
    BY <1>13 DEF CancelRunning, TypeOK
  <1>14. CASE Tick
    <2>1. row'[j] = Aged(row[j]) /\ row[j].lease > 0
      BY <1>2, <1>14 DEF Tick
    <2>2. QED
      BY <1>1, <1>2, <2>1, RowFields
  <1>15. /\ Renewed(row[j]).status = "running"
         /\ Renewed(row[j]).owner = row[j].owner
         /\ Renewed(row[j]).lease >= 0
         /\ Renewed(row[j]).attempts = row[j].attempts
         /\ \A s \in Finished : Finish(row[j], s, ResultTTL).status \in Decided
         /\ Cancelled(row[j]).status \in Decided
    BY <1>1, <1>2, RowFields
  <1>16. QED
    BY <1>3, <1>4, <1>5, <1>6, <1>7, <1>8, <1>9, <1>10, <1>11, <1>12,
      <1>13, <1>14, <1>15, RowWriters

(* No step leaves an undecided job without an attempt.                     *)
LEMMA AttemptSteps ==
    ASSUME LeaseInv, [Next]_vars, NEW j \in Jobs
    PROVE  AttemptLeft(row'[j])
  <1> USE DEF LeaseInv, RowInv
  <1>1. row[j] \in Row /\ AttemptLeft(row[j])
    BY DEF TypeOK, AttemptsLeft
  <1>2. ASSUME row'[j].status \in Decided
        PROVE  AttemptLeft(row'[j])
    BY <1>2 DEF AttemptLeft
  <1>3. ASSUME row[j].status \notin Decided,
               row'[j].attempts = row[j].attempts
        PROVE  AttemptLeft(row'[j])
    BY <1>1, <1>3 DEF AttemptLeft
  <1>4. CASE row'[j] = row[j]
    BY <1>1, <1>4
  <1>5. CASE UNCHANGED storeVars
    BY <1>4, <1>5 DEF storeVars
  <1>6. ASSUME NEW k \in Jobs, Create(k)
        PROVE  AttemptLeft(row'[j])
    BY <1>1, <1>3, <1>4, <1>6, RowFields DEF Create, Decided, TypeOK
  <1>7. ASSUME NEW k \in Jobs, GetExpires(k)
        PROVE  AttemptLeft(row'[j])
    BY <1>1, <1>2, <1>4, <1>7, RowFields DEF GetExpires, TypeOK
  <1>8. ASSUME NEW w \in Workers, NEW k \in Jobs, ClaimRow(w, k)
        PROVE  AttemptLeft(row'[j])
    BY <1>1, <1>3, <1>4, <1>8, RowFields, ProcOfAssumption
    DEF ProcOfAssumption, ClaimRow, Claimable, Decided, TypeOK
  <1>9. ASSUME NEW w \in Workers, Heartbeat(w)
        PROVE  AttemptLeft(row'[j])
    BY <1>1, <1>3, <1>4, <1>9, RowFields DEF Heartbeat, Owns, Decided, TypeOK
  <1>10. ASSUME NEW w \in Workers, Commit(w)
         PROVE  AttemptLeft(row'[j])
    <2>1. \/ row'[j] = row[j]
          \/ \E s \in Finished : row'[j] = Finish(row[j], s, ResultTTL)
      BY <1>10 DEF Commit, CommitRow, Finished, TypeOK
    <2>2. QED
      BY <1>1, <1>2, <1>4, <2>1, RowFields
  <1>11. ASSUME NEW w \in Workers, Requeue(w)
         PROVE  AttemptLeft(row'[j])
    <2>1. CASE Owns(w) /\ wk[w].job = j
      <3>1. 0 \in 0 .. Backoff /\ Backoff \in 0 .. Backoff
        BY TimeAssumption DEF TimeAssumption
      <3>2. wk[w].seen = row[j].attempts
        BY <2>1 DEF Owns, HolderOwns, Decided
      <3>3. PICK b \in {0, 1}, d \in 0 .. Backoff :
              /\ row'[j] = Requeued(row[j], b, d)
              /\ b = 1 => Bumps(wk[w])
        BY <1>11, <2>1, <3>1 DEF Requeue, TypeOK, Bumps
      <3>4. /\ row'[j].attempts = row[j].attempts + b
            /\ row[j].attempts < MaxAttempts
        BY <1>1, <2>1, <3>3, RowFields DEF Owns, Decided, AttemptLeft
      <3>5. row[j].attempts + b < MaxAttempts
        <4>1. CASE b = 0
          BY <1>1, <3>4, <4>1 DEF Row
        <4>2. CASE b = 1
          BY <3>2, <3>3, <4>2 DEF BumpsInTime
        <4>3. QED
          BY <4>1, <4>2
      <3>6. QED
        BY <3>4, <3>5 DEF AttemptLeft
    <2>2. CASE ~(Owns(w) /\ wk[w].job = j)
      BY <1>4, <1>11, <2>2 DEF Requeue, TypeOK
    <2>3. QED
      BY <2>1, <2>2
  <1>12. ASSUME NEW p \in Procs, Recover(p)
         PROVE  AttemptLeft(row'[j])
    <2>1. 0 \in 0 .. Backoff /\ "failed" \in Finished
      BY TimeAssumption DEF TimeAssumption, Finished
    <2>2. CASE row'[j] = Finish(row[j], "failed", 0)
      BY <1>1, <1>2, <2>1, <2>2, RowFields
    <2>3. CASE /\ row'[j] = Requeued(row[j], 1, 0)
               /\ row[j].attempts + 1 < MaxAttempts
      BY <1>1, <2>1, <2>3, RowFields DEF AttemptLeft
    <2>4. QED
      BY <1>4, <1>12, <2>2, <2>3, RecoverSpares
  <1>13. ASSUME NEW p \in Procs, ExpireDue(p)
         PROVE  AttemptLeft(row'[j])
    BY <1>1, <1>2, <1>4, <1>13, RowFields DEF ExpireDue
  <1>14. ASSUME NEW c \in Cancellers,
                CancelRunning(c) \/ \E k \in Jobs : CancelQueued(c, k)
         PROVE  AttemptLeft(row'[j])
    BY <1>1, <1>2, <1>4, <1>14, RowFields
    DEF CancelRunning, CancelQueued, TypeOK
  <1>15. CASE Tick
    BY <1>1, <1>15, RowFields DEF Tick, AttemptLeft
  <1>16. QED
    BY <1>5, <1>6, <1>7, <1>8, <1>9, <1>10, <1>11, <1>12, <1>13, <1>14,
      <1>15, RowWriters

-----------------------------------------------------------------------------
(* The invariant is inductive.                                             *)

LEMMA InitLeaseInv == Init => LeaseInv
  BY InitRowInv, AttemptAssumption DEF AttemptAssumption, Init, LeaseInv,
    HolderOwns, OneHolder, BumpsInTime, Bumps, AttemptsLeft, AttemptLeft,
    Idle, NewRow

LEMMA ClaimKeepsInv ==
    ASSUME LeaseInv, NEW w \in Workers, NEW j \in Jobs, Claim(w, j)
    PROVE  HolderOwns' /\ OneHolder' /\ BumpsInTime'
  <1> USE DEF LeaseInv, RowInv
  <1>1. /\ wk' = [wk EXCEPT ![w] = Admits(j, row[j].attempts)]
        /\ row' = [row EXCEPT ![j] = Claimed(@, ProcOf[w])]
        /\ row[j].status = "queued" /\ row[j] \in Row
        /\ ProcOf[w] \in Procs /\ j # None
    BY ProcOfAssumption, NoneAssumption DEF ProcOfAssumption, Claim,
      ClaimRow, Claimable, TypeOK
  <1>2. /\ Admits(j, row[j].attempts).job = j
        /\ Admits(j, row[j].attempts).seen = row[j].attempts
        /\ Admits(j, row[j].attempts).at = "admit"
    BY DEF Admits, Idle
  <1>3. \A v \in Workers : wk[v].job # j
    BY <1>1 DEF HolderOwns, Decided
  <1>4. /\ wk'[w] = Admits(j, row[j].attempts)
        /\ \A v \in Workers \ {w} : wk'[v] = wk[v]
        /\ row'[j] = Claimed(row[j], ProcOf[w])
        /\ \A k \in Jobs \ {j} : row'[k] = row[k]
    BY <1>1 DEF TypeOK
  <1>5. HolderOwns'
    <2> SUFFICES ASSUME NEW v \in Workers, wk'[v].job # None
                 PROVE  LET r == row'[wk'[v].job]
                        IN  \/ r.status \in Decided
                            \/ /\ r.status = "running"
                               /\ r.owner = ProcOf[v]
                               /\ r.lease >= 0
                               /\ r.attempts = wk'[v].seen
      BY DEF HolderOwns
    <2>1. CASE v = w
      BY <1>1, <1>2, <1>4, <2>1, RowFields
    <2>2. CASE v # w
      <3>1. wk'[v] = wk[v] /\ wk[v].job \in Jobs \ {j}
        BY <1>3, <1>4, <2>2 DEF TypeOK, Worker
      <3>2. QED
        BY <1>4, <3>1 DEF HolderOwns
    <2>3. QED
      BY <2>1, <2>2
  <1>6. OneHolder'
    BY <1>2, <1>3, <1>4 DEF OneHolder
  <1>7. BumpsInTime'
    BY <1>2, <1>4 DEF BumpsInTime, Bumps
  <1>8. QED
    BY <1>5, <1>6, <1>7

LEMMA LeaseInvStep ==
    TimelyHeartbeats /\ LeaseInv /\ [Next]_vars => LeaseInv'
  <1> SUFFICES ASSUME TimelyHeartbeats, LeaseInv, [Next]_vars
               PROVE  LeaseInv'
    OBVIOUS
  <1> USE DEF LeaseInv
  <1>1. RowInv'
    BY RowInvStep
  <1>2. AttemptsLeft'
    BY AttemptSteps DEF AttemptsLeft, AttemptLeft
  <1>3. ASSUME NEW w \in Workers, NEW j \in Jobs, Claim(w, j)
        PROVE  HolderOwns' /\ OneHolder' /\ BumpsInTime'
    BY <1>3, ClaimKeepsInv
  <1>4. CASE SameJobs
    <2>1. OneHolder'
      BY <1>4 DEF SameJobs, KeepsJob, OneHolder
    <2>2. BumpsInTime'
      BY <1>4 DEF SameJobs, KeepsJob, BumpsInTime
    <2>3. HolderOwns'
      <3> SUFFICES ASSUME NEW w \in Workers, wk'[w].job # None
                   PROVE  LET r == row'[wk'[w].job]
                          IN  \/ r.status \in Decided
                              \/ /\ r.status = "running"
                                 /\ r.owner = ProcOf[w]
                                 /\ r.lease >= 0
                                 /\ r.attempts = wk'[w].seen
        BY DEF HolderOwns
      <3> DEFINE j == wk[w].job
      <3>1. wk'[w].job = j /\ wk'[w].seen = wk[w].seen /\ j \in Jobs
        BY <1>4 DEF SameJobs, KeepsJob, RowInv, TypeOK, Worker
      <3>2. CASE row[j].status \in Decided
        BY <3>1, <3>2, RowSteps, DecidedForGood DEF RowInv
      <3>3. CASE row[j].status \notin Decided
        <4>1. row[j].owner = ProcOf[w] /\ row[j].attempts = wk[w].seen
          BY <3>1, <3>3 DEF HolderOwns
        <4>2. \/ row'[j].status \in Decided
              \/ /\ row'[j].status = "running"
                 /\ row'[j].owner = row[j].owner
                 /\ row'[j].lease >= 0
                 /\ row'[j].attempts = row[j].attempts
          BY <3>1, <3>3, LeaseSteps
        <4>3. QED
          BY <3>1, <4>1, <4>2
      <3>4. QED
        BY <3>2, <3>3
    <2>4. QED
      BY <1>1, <1>2, <2>1, <2>2, <2>3
  <1>5. QED
    BY <1>1, <1>2, <1>3, <1>4, OnlyClaimsTakeJobs DEF RowInv

(* With timely heartbeats a job never has two executions.                  *)
THEOREM OneExecution ==
    ASSUME TimelyHeartbeats
    PROVE  Spec => []AtMostOneExecution
  <1>1. LeaseInv /\ [Next]_vars => LeaseInv'
    BY LeaseInvStep
  <1>2. LeaseInv => AtMostOneExecution
    BY DEF LeaseInv, OneHolder, AtMostOneExecution
  <1>3. QED
    BY InitLeaseInv, <1>1, <1>2, PTL DEF Spec

(* With timely heartbeats a job that waits or runs has an attempt left,    *)
(* whatever mixture of retries, recoveries and hand-backs it went through. *)
THEOREM AttemptsCorrect ==
    ASSUME TimelyHeartbeats
    PROVE  Spec => []AttemptsBounded
  <1>1. LeaseInv /\ [Next]_vars => LeaseInv'
    BY LeaseInvStep
  <1>2. LeaseInv => AttemptsBounded
    BY DEF LeaseInv, AttemptsLeft, AttemptLeft, AttemptsBounded, Decided
  <1>3. QED
    BY InitLeaseInv, <1>1, <1>2, PTL DEF Spec

-----------------------------------------------------------------------------
(* What a faultless run leaves behind: a reserved ledger row for each      *)
(* execution that still has to settle or release it, and no other; and a   *)
(* settlement with the audit record of every completed job.                *)

Owes(r) == /\ r.at \in {"reserved", "exec", "ended", "answered"}
           /\ r.out # "denied"

(* Admission leaves no reason behind, and only a commit decides.           *)
WorkerOK(r) ==
    /\ r.at \in {"reserved", "exec"} => r.out = "none"
    /\ r.dec # "none" => r.at \in {"answered", "audit"}

WorkersOK == \A w \in Workers : WorkerOK(wk[w])

(* The same as far as ledger and audits are concerned.                     *)
Alike(r, s) ==
    /\ s.job = r.job
    /\ Owes(s) <=> Owes(r)
    /\ s.at = "audit" <=> r.at = "audit"
    /\ s.dec = "won" <=> r.dec = "won"
    /\ s.dec = "won" => s.out = r.out
    /\ WorkerOK(s)

Only(w, s) == wk'[w] = s /\ \A v \in Workers \ {w} : wk'[v] = wk[v]

NoneCompletes ==
    \A j \in Jobs : row'[j].status = "completed" => row[j].status = "completed"

(* The steps of a faultless run, by what they do to executions and ledger. *)
Rests == /\ \A w \in Workers : Alike(wk[w], wk'[w])
         /\ ledger' = ledger
         /\ NoneCompletes

Takes(w) == /\ \E j \in Jobs : Claim(w, j)
            /\ NoneCompletes

Books(w) == /\ wk[w].at = "admit"
            /\ Only(w, Goes(wk[w], "reserved", "none"))
            /\ Reserve(wk[w].job)
            /\ NoneCompletes

Wins(w) == /\ wk[w].at = "ended"
           /\ Owns(w)
           /\ Only(w, Answered(wk[w], "won"))
           /\ \A j \in Jobs \ {wk[w].job} : row'[j] = row[j]
           /\ row'[wk[w].job].status = "completed" => wk[w].out = "answer"
           /\ UNCHANGED <<ledger, audits, sweeper, canceller>>

Frees(w) == /\ Owes(wk[w])
            /\ \E out \in {"abort", "retry"} :
                  \/ wk[w].at = "ended" /\ Only(w, Goes(wk[w], "handback", out))
                  \/ wk[w].at = "answered" /\ Only(w, Idle)
            /\ Release(wk[w].job)
            /\ UNCHANGED <<row, audits>>

Pays(w) == /\ wk[w].at = "answered" /\ Owes(wk[w])
           /\ \/ wk[w].dec = "won" /\ Only(w, Goes(wk[w], "audit", wk[w].out))
              \/ /\ wk[w].dec = "lost" /\ Only(w, Idle)
                 /\ row[wk[w].job].status = "cancelled"
           /\ Settle(wk[w].job)
           /\ UNCHANGED <<row, audits>>

(* A denied execution never reserved anything.                             *)
Passes(w) == /\ wk[w].at = "answered" /\ wk[w].out = "denied"
             /\ wk[w].dec = "won" /\ Only(w, Goes(wk[w], "audit", wk[w].out))
             /\ UNCHANGED <<ledger, row, audits>>

Leaves(w) == /\ wk[w].at \in {"answered", "audit", "handback"} /\ ~Owes(wk[w])
             /\ Only(w, Idle)
             /\ IF wk[w].at = "audit"
                THEN audits' = [audits EXCEPT ![wk[w].job] = @ + 1]
                ELSE UNCHANGED audits
             /\ UNCHANGED ledger
             /\ NoneCompletes

Walks(w) == \/ Takes(w) \/ Books(w) \/ Wins(w) \/ Frees(w) \/ Pays(w)
            \/ Passes(w) \/ Leaves(w)

LEMMA OnlyOne ==
    ASSUME TypeOK, NEW w \in Workers, NEW s, wk' = [wk EXCEPT ![w] = s]
    PROVE  Only(w, s)
  BY DEF TypeOK, Only

LEMMA Alikes ==
    ASSUME NEW r \in Worker, WorkerOK(r)
    PROVE  /\ Alike(r, r)
           /\ \A out \in {"bump", "free"} :
                 r.at = "admit" => Alike(r, Goes(r, "handback", out))
           /\ r.at = "admit" => Alike(r, Goes(r, "ended", "denied"))
           /\ r.at = "reserved" => Alike(r, Starts(r, JobTimeout))
           /\ \A on \in BOOLEAN : Alike(r, Beats(r, on))
           /\ Alike(r, CancelContext(r))
           /\ Alike(r, Beats(CancelContext(r), FALSE))
           /\ \A out \in Outcomes, known, flying \in BOOLEAN :
                 r.at = "exec" => Alike(r, Returned(r, out, known, flying))
           /\ \A dec \in {"lost", "error"} :
                 r.at = "ended" => Alike(r, Answered(r, dec))
           /\ Alike(r, Elapsed(r))
  <1> USE DEF Alike, Owes, WorkerOK, Worker
  <1>1. Alike(r, r)
    OBVIOUS
  <1>2. \A out \in {"bump", "free"} :
          r.at = "admit" => Alike(r, Goes(r, "handback", out))
    BY DEF Goes
  <1>3. r.at = "admit" => Alike(r, Goes(r, "ended", "denied"))
    BY DEF Goes
  <1>4. r.at = "reserved" => Alike(r, Starts(r, JobTimeout))
    BY DEF Starts
  <1>5. \A on \in BOOLEAN : Alike(r, Beats(r, on))
    BY DEF Beats
  <1>6. Alike(r, CancelContext(r))
    BY DEF CancelContext
  <1>7. Alike(r, Beats(CancelContext(r), FALSE))
    BY DEF CancelContext, Beats
  <1>8. \A out \in Outcomes, known, flying \in BOOLEAN :
          r.at = "exec" => Alike(r, Returned(r, out, known, flying))
    BY DEF Returned, Outcomes
  <1>9. \A dec \in {"lost", "error"} :
          r.at = "ended" => Alike(r, Answered(r, dec))
    BY DEF Answered
  <1>10. Alike(r, Elapsed(r))
    BY DEF Elapsed
  <1>11. QED
    BY <1>1, <1>2, <1>3, <1>4, <1>5, <1>6, <1>7, <1>8, <1>9, <1>10

LEMMA AllAlike ==
    ASSUME TypeOK, WorkersOK, NEW w \in Workers, NEW s,
           wk' = [wk EXCEPT ![w] = s], Alike(wk[w], s)
    PROVE  \A v \in Workers : Alike(wk[v], wk'[v])
  <1> SUFFICES ASSUME NEW v \in Workers
               PROVE  Alike(wk[v], wk'[v])
    OBVIOUS
  <1>1. wk[v] \in Worker /\ WorkerOK(wk[v])
    BY DEF TypeOK, WorkersOK
  <1>2. QED
    BY <1>1, Alikes DEF TypeOK

(* Only a commit completes a job.                                          *)
LEMMA Completers ==
    ASSUME RowInv, [Next]_vars
    PROVE  NoneCompletes \/ \E w \in Workers : Commit(w)
  <1> SUFFICES ASSUME \A w \in Workers : ~Commit(w), NEW j \in Jobs,
                      row'[j].status = "completed"
               PROVE  row[j].status = "completed"
    BY DEF NoneCompletes
  <1> USE DEF RowInv
  <1>1. row[j] \in Row /\ row \in [Jobs -> Row]
    BY DEF TypeOK
  <1>2. CASE row'[j] = row[j] \/ UNCHANGED storeVars
    BY <1>2 DEF storeVars
  <1>3. ASSUME row'[j].status = row[j].status
        PROVE  row[j].status = "completed"
    BY <1>3
  <1>4. /\ Created(row[j]).status # "completed"
        /\ \A p : Claimed(row[j], p).status # "completed"
        /\ \A b, d : Requeued(row[j], b, d).status # "completed"
        /\ \A t : Finish(row[j], "failed", t).status # "completed"
        /\ Cancelled(row[j]).status # "completed"
        /\ Expired(row[j]).status # "completed"
        /\ Renewed(row[j]).status = row[j].status
        /\ Aged(row[j]).status = row[j].status
    BY <1>1 DEF Row, Created, Claimed, Requeued, Finish, Cancelled, Expired,
      Renewed, Aged
  <1>5. ASSUME NEW k \in Jobs, Create(k) \/ GetExpires(k)
        PROVE  row[j].status = "completed"
    BY <1>1, <1>2, <1>4, <1>5 DEF Create, GetExpires
  <1>6. ASSUME NEW w \in Workers, NEW k \in Jobs, ClaimRow(w, k)
        PROVE  row[j].status = "completed"
    BY <1>1, <1>2, <1>4, <1>6 DEF ClaimRow
  <1>7. ASSUME NEW w \in Workers, Heartbeat(w) \/ Requeue(w)
        PROVE  row[j].status = "completed"
    BY <1>1, <1>2, <1>4, <1>7 DEF Heartbeat, Requeue
  <1>8. ASSUME NEW p \in Procs, Recover(p) \/ ExpireDue(p)
        PROVE  row[j].status = "completed"
    <2>1. CASE Recover(p)
      <3>1. \/ row'[j] = row[j]
            \/ row'[j] = Finish(row[j], "failed", 0)
            \/ row'[j] = Requeued(row[j], 1, 0)
        BY <2>1 DEF Recover
      <3>2. QED
        BY <1>2, <1>4, <3>1
    <2>2. CASE ExpireDue(p)
      BY <1>2, <1>4, <2>2 DEF ExpireDue
    <2>3. QED
      BY <1>8, <2>1, <2>2
  <1>9. ASSUME NEW c \in Cancellers,
               CancelRunning(c) \/ \E k \in Jobs : CancelQueued(c, k)
        PROVE  row[j].status = "completed"
    BY <1>1, <1>2, <1>4, <1>9 DEF CancelRunning, CancelQueued
  <1>10. CASE Tick
    BY <1>1, <1>4, <1>10 DEF Tick
  <1>11. QED
    BY <1>2, <1>5, <1>6, <1>7, <1>8, <1>9, <1>10, RowWriters

LEMMA FaultCounts ==
    ASSUME TypeOK, [Next]_vars, faults' = 0
    PROVE  faults = 0 /\ ~Fault
  <1>1. faults \in Nat
    BY DEF TypeOK
  <1>2. Fault => faults' # 0
    BY <1>1 DEF Fault
  <1>3. faults' = faults \/ Fault
    <2>1. ASSUME NEW w \in Workers, WorkerNext(w)
          PROVE  faults' = faults \/ Fault
      BY <2>1 DEF WorkerNext, WorkerStep, Claim, ClaimUnanswered, AdmitDeny,
        AdmitRetry, AdmitOutage, AdmitReserve, StartExec, Heartbeat,
        HeartbeatFails, CallReturns, FailAbort, FailRetry, Commit,
        CommitFails, HandoffError, HandoffLost, HandoffWon, AuditWon,
        Requeue, RequeueFails, NoFault, envVars
    <2>2. ASSUME NEW p \in Procs, SweepNext(p) \/ ProcNext(p)
          PROVE  faults' = faults \/ Fault
      BY <2>2 DEF SweepNext, Recover, SweepAudit, ExpireDue, ProcNext,
        StopBegin, DrainElapses, StopDone, Crash, Restart, NoFault, envVars
    <2>3. ASSUME NEW c \in Cancellers, CancelNext(c)
          PROVE  faults' = faults
      BY <2>3 DEF CancelNext, CancelQueued, CancelMisses, CancelRunning,
        CancelNoop, CancelFinish, CancelOnly, envVars
    <2>4. CASE \/ \E j \in Jobs : Create(j) \/ GetExpires(j)
               \/ Tick
               \/ UNCHANGED vars
      BY <2>4 DEF Create, GetExpires, Tick, vars, envVars
    <2>5. QED
      BY <2>1, <2>2, <2>3, <2>4 DEF Next
  <1>4. QED
    BY <1>2, <1>3

LEMMA CalmWorkerSteps ==
    ASSUME RowInv, WorkersOK, NEW w \in Workers, WorkerNext(w), ~Fault,
           NoneCompletes \/ Commit(w)
    PROVE  Rests \/ Walks(w)
  <1> USE DEF RowInv
  <1>1. wk[w] \in Worker /\ WorkerOK(wk[w])
    BY DEF TypeOK, WorkersOK
  <1>2. ASSUME NEW s, wk' = [wk EXCEPT ![w] = s], Alike(wk[w], s),
               UNCHANGED ledger, NoneCompletes
        PROVE  Rests
    BY <1>2, AllAlike DEF Rests
  <1>3. ASSUME NEW j \in Jobs, Claim(w, j)
        PROVE  Walks(w)
    <2>1. ~Commit(w)
      BY <1>3 DEF Claim, ClaimRow, Commit, Committing
    <2>2. QED
      BY <1>3, <2>1 DEF Walks, Takes
  <1>4. CASE AdmitDeny(w)
    <2>1. NoneCompletes
      BY <1>4 DEF AdmitDeny, Commit, Committing
    <2>2. Alike(wk[w], Goes(wk[w], "ended", "denied"))
      BY <1>1, <1>4, Alikes DEF AdmitDeny
    <2>3. QED
      BY <1>2, <1>4, <2>1, <2>2 DEF AdmitDeny
  <1>5. CASE AdmitRetry(w) \/ AdmitOutage(w)
    <2>1. NoneCompletes
      BY <1>5 DEF AdmitRetry, AdmitOutage, Commit, Committing
    <2>2. PICK out \in {"bump", "free"} :
            wk' = [wk EXCEPT ![w] = Goes(@, "handback", out)]
      BY <1>5 DEF AdmitRetry, AdmitOutage
    <2>3. Alike(wk[w], Goes(wk[w], "handback", out))
      BY <1>1, <1>5, Alikes DEF AdmitRetry, AdmitOutage
    <2>4. UNCHANGED ledger
      BY <1>5 DEF AdmitRetry, AdmitOutage
    <2>5. QED
      BY <1>2, <2>1, <2>2, <2>3, <2>4
  <1>6. CASE AdmitReserve(w)
    <2>1. NoneCompletes
      BY <1>6 DEF AdmitReserve, Commit, Committing
    <2>2. Only(w, Goes(wk[w], "reserved", "none"))
      BY <1>6, OnlyOne DEF AdmitReserve
    <2>3. QED
      BY <1>6, <2>1, <2>2 DEF AdmitReserve, Walks, Books
  <1>7. CASE StartExec(w)
    <2>1. NoneCompletes
      BY <1>7 DEF StartExec, Commit, Committing
    <2>2. Alike(wk[w], Starts(wk[w], JobTimeout))
      BY <1>1, <1>7, Alikes DEF StartExec
    <2>3. QED
      BY <1>2, <1>7, <2>1, <2>2 DEF StartExec
  <1>8. CASE Heartbeat(w) /\ NoneCompletes
    <2>1. (wk[w].at = "exec") \in BOOLEAN
      OBVIOUS
    <2>2. Alike(wk[w], Beats(wk[w], wk[w].at = "exec"))
      BY <1>1, <2>1, Alikes
    <2>3. QED
      BY <1>2, <1>8, <2>2 DEF Heartbeat
  <1>9. CASE HeartbeatFails(w) /\ NoneCompletes
    <2>1. Alike(wk[w], Beats(CancelContext(wk[w]), FALSE))
      BY <1>1, Alikes
    <2>2. QED
      BY <1>2, <1>9, <2>1 DEF HeartbeatFails
  <1>10. ASSUME NEW out \in Outcomes, NEW known \in BOOLEAN,
                CallReturns(w, out, known)
         PROVE  Rests
    <2>1. NoneCompletes
      BY <1>10 DEF CallReturns, Commit, Committing
    <2>2. PICK flying \in BOOLEAN :
            wk' = [wk EXCEPT ![w] = Returned(@, out, known, flying)]
      BY <1>10 DEF CallReturns
    <2>3. Alike(wk[w], Returned(wk[w], out, known, flying))
      BY <1>1, <1>10, Alikes DEF CallReturns
    <2>4. QED
      BY <1>2, <1>10, <2>1, <2>2, <2>3 DEF CallReturns
  <1>11. CASE FailAbort(w) \/ FailRetry(w)
    <2>1. PICK out \in {"abort", "retry"} :
            wk' = [wk EXCEPT ![w] = Goes(@, "handback", out)]
      BY <1>11 DEF FailAbort, FailRetry
    <2>2. Only(w, Goes(wk[w], "handback", out))
      BY <2>1, OnlyOne
    <2>3. /\ wk[w].at = "ended" /\ Owes(wk[w])
          /\ Release(wk[w].job) /\ UNCHANGED <<row, audits>>
      BY <1>11 DEF FailAbort, FailRetry, WorkerOnly, storeVars, Owes
    <2>4. QED
      BY <2>2, <2>3 DEF Walks, Frees
  <1>12. CASE Commit(w)
    <2>1. /\ wk[w].at = "ended" /\ CommitRow(w)
          /\ UNCHANGED <<ledger, audits, sweeper, canceller>>
      BY <1>12 DEF Commit, Committing
    <2>2. CASE Owns(w)
      <3>1. wk' = [wk EXCEPT ![w] = Answered(@, "won")]
        BY <1>12, <2>2 DEF Commit
      <3>2. Only(w, Answered(wk[w], "won"))
        BY <3>1, OnlyOne
      <3>3. wk[w].job \in Jobs
        BY <1>1, <2>2 DEF Owns, Worker
      <3>4. row' = [row EXCEPT ![wk[w].job] =
                       Finish(@, IF wk[w].out = "answer" THEN "completed"
                                                         ELSE "failed",
                              ResultTTL)]
        BY <2>1, <2>2 DEF CommitRow
      <3>5. \A j \in Jobs \ {wk[w].job} : row'[j] = row[j]
        BY <3>4 DEF TypeOK
      <3>6. row'[wk[w].job].status = "completed" => wk[w].out = "answer"
        BY <3>3, <3>4 DEF TypeOK, Row, Finish
      <3>7. QED
        BY <2>1, <2>2, <3>2, <3>5, <3>6 DEF Walks, Wins
    <2>3. CASE ~Owns(w)
      <3>1. row' = row /\ wk' = [wk EXCEPT ![w] = Answered(@, "lost")]
        BY <1>12, <2>1, <2>3 DEF Commit, CommitRow
      <3>2. NoneCompletes
        BY <3>1 DEF NoneCompletes
      <3>3. Alike(wk[w], Answered(wk[w], "lost"))
        BY <1>1, <2>1, Alikes
      <3>4. QED
        BY <1>2, <2>1, <3>1, <3>2, <3>3
    <2>4. QED
      BY <2>2, <2>3
  <1>13. CASE CommitFails(w)
    <2>1. UNCHANGED <<row, ledger>> /\ wk[w].at = "ended"
          /\ wk' = [wk EXCEPT ![w] = Answered(@, "error")]
      BY <1>13 DEF CommitFails, WorkerOnly, storeVars, Committing
    <2>2. NoneCompletes
      BY <2>1 DEF NoneCompletes
    <2>3. Alike(wk[w], Answered(wk[w], "error"))
      BY <1>1, <2>1, Alikes
    <2>4. QED
      BY <1>2, <2>1, <2>2, <2>3
  <1>14. ASSUME Leave(w)
         PROVE  Only(w, Idle)
    BY <1>14, OnlyOne DEF Leave
  <1>15. UNCHANGED row => NoneCompletes
    BY DEF NoneCompletes
  <1>16. CASE HandoffError(w) \/ HandoffLost(w)
    <2>1. /\ wk[w].at = "answered" /\ Only(w, Idle)
          /\ UNCHANGED <<row, audits>> /\ NoneCompletes
      BY <1>14, <1>15, <1>16 DEF HandoffError, HandoffLost, storeVars
    <2>2. CASE ~Reserved(w)
      <3>1. UNCHANGED ledger /\ ~Owes(wk[w])
        BY <1>16, <2>2 DEF HandoffError, HandoffLost, Reserved, Owes
      <3>2. QED
        BY <2>1, <3>1 DEF Walks, Leaves
    <2>3. CASE Reserved(w)
      <3>1. Owes(wk[w])
        BY <2>1, <2>3 DEF Reserved, Owes
      <3>2. CASE Release(wk[w].job)
        BY <2>1, <3>1, <3>2 DEF Walks, Frees
      <3>3. CASE ~Release(wk[w].job)
        <4>1. /\ Settle(wk[w].job) /\ wk[w].dec = "lost"
              /\ row[wk[w].job].status = "cancelled"
          BY <1>16, <2>3, <3>3 DEF HandoffError, HandoffLost
        <4>2. QED
          BY <2>1, <3>1, <4>1 DEF Walks, Pays
      <3>4. QED
        BY <3>2, <3>3
    <2>4. QED
      BY <2>2, <2>3
  <1>17. CASE HandoffWon(w)
    <2>1. /\ wk[w].at = "answered" /\ wk[w].dec = "won"
          /\ wk' = [wk EXCEPT ![w] = Goes(@, "audit", @.out)]
          /\ UNCHANGED <<row, audits>>
          /\ IF Reserved(w) THEN Settle(wk[w].job) ELSE UNCHANGED ledger
      BY <1>17 DEF HandoffWon, WorkerOnly, storeVars
    <2>2. Only(w, Goes(wk[w], "audit", wk[w].out))
      BY <2>1, OnlyOne
    <2>3. QED
      BY <2>1, <2>2 DEF Reserved, Owes, Walks, Pays, Passes
  <1>18. CASE AuditWon(w)
    <2>1. /\ wk[w].at = "audit" /\ ~Owes(wk[w]) /\ Only(w, Idle)
          /\ audits' = [audits EXCEPT ![wk[w].job] = @ + 1]
          /\ UNCHANGED <<row, ledger>>
      BY <1>14, <1>18 DEF AuditWon, storeVars, Owes
    <2>2. QED
      BY <1>15, <2>1 DEF Walks, Leaves
  <1>19. CASE Requeue(w)
    <2>1. /\ wk[w].at = "handback" /\ ~Owes(wk[w]) /\ Only(w, Idle)
          /\ UNCHANGED <<audits, ledger>>
      BY <1>14, <1>19 DEF Requeue, Owes
    <2>2. NoneCompletes
      BY <2>1 DEF Commit, Committing
    <2>3. QED
      BY <2>1, <2>2 DEF Walks, Leaves
  <1>20. ~RequeueFails(w) /\ \A j \in Jobs : ~ClaimUnanswered(w, j)
    BY DEF RequeueFails, ClaimUnanswered
  <1>21. ASSUME Heartbeat(w) \/ HeartbeatFails(w), Commit(w)
         PROVE  Rests \/ Walks(w)
    BY <1>12, <1>21
  <1>22. QED
    BY <1>3, <1>4, <1>5, <1>6, <1>7, <1>8, <1>9, <1>10, <1>11, <1>12, <1>13,
      <1>16, <1>17, <1>18, <1>19, <1>20 DEF WorkerNext, WorkerStep

LEMMA CalmSteps ==
    ASSUME RowInv, WorkersOK, [Next]_vars, faults' = 0
    PROVE  Rests \/ \E w \in Workers : Walks(w)
  <1> USE DEF RowInv
  <1>1. ~Fault
    BY FaultCounts
  <1>2. \A w \in Workers : wk[w] \in Worker /\ WorkerOK(wk[w])
    BY DEF TypeOK, WorkersOK
  <1>3. CASE \E w \in Workers : Commit(w)
    <2>1. PICK w \in Workers : Commit(w)
      BY <1>3
    <2>2. WorkerNext(w)
      BY <2>1 DEF WorkerNext, WorkerStep
    <2>3. QED
      BY <1>1, <2>1, <2>2, CalmWorkerSteps
  <1>4. CASE NoneCompletes
    <2>1. ASSUME NEW w \in Workers, WorkerNext(w)
          PROVE  Rests \/ \E v \in Workers : Walks(v)
      BY <1>1, <1>4, <2>1, CalmWorkerSteps
    <2>2. ASSUME UNCHANGED <<wk, ledger>>
          PROVE  Rests
      BY <1>2, <1>4, <2>2, Alikes DEF Rests
    <2>3. ASSUME NEW p, NEW jobs, wk' = Signalled(p, jobs), UNCHANGED ledger
          PROVE  Rests
      <3>1. ASSUME NEW w \in Workers
            PROVE  Alike(wk[w], wk'[w])
        BY <1>2, <2>3, Alikes DEF Signalled
      <3>2. QED
        BY <1>4, <2>3, <3>1 DEF Rests
    <2>4. ASSUME NEW p \in Procs, SweepNext(p) \/ ProcNext(p)
          PROVE  Rests
      <3>1. ~Crash(p)
        BY <1>1 DEF Crash
      <3>2. CASE DrainElapses(p)
        BY <2>3, <3>2 DEF DrainElapses, ProcOnly
      <3>3. QED
        BY <2>2, <2>4, <3>1, <3>2 DEF SweepNext, Recover, SweepAudit,
          ExpireDue, SweepOnly, ProcNext, StopBegin, StopDone, Restart,
          ProcOnly
    <2>5. ASSUME NEW c \in Cancellers, CancelNext(c)
          PROVE  Rests
      <3>1. CASE CancelFinish(c)
        BY <2>3, <3>1 DEF CancelFinish, CancelOnly
      <3>2. QED
        BY <2>2, <2>5, <3>1 DEF CancelNext, CancelQueued, CancelMisses,
          CancelRunning, CancelNoop, CancelOnly
    <2>6. CASE Tick
      <3>1. ASSUME NEW w \in Workers
            PROVE  Alike(wk[w], wk'[w])
        BY <1>2, <2>6, Alikes DEF Tick
      <3>2. QED
        BY <1>4, <2>6, <3>1 DEF Rests, Tick
    <2>7. CASE (\E j \in Jobs : Create(j) \/ GetExpires(j)) \/ UNCHANGED vars
      BY <2>2, <2>7 DEF Create, GetExpires, vars
    <2>8. QED
      BY <2>1, <2>4, <2>5, <2>6, <2>7 DEF Next
  <1>5. QED
    BY <1>3, <1>4, Completers

-----------------------------------------------------------------------------
(* The ledger row, and the outcome, of one job.                            *)

Busy(j) == \E w \in Workers : wk[w].job = j /\ Owes(wk[w])

Balanced(j) ==
    /\ ledger[j].reserved = IF Busy(j) THEN 1 ELSE 0
    /\ ledger[j].settled =>
          \A w \in Workers : wk[w].job = j => wk[w].at = "audit"

Winner(w, j) == wk[w].job = j /\ wk[w].dec = "won"

(* A completed job waits for its winner, or its books are closed.          *)
Completion(j) ==
    row[j].status = "completed" =>
        /\ \A x \in Writers(j) : x[1] = "worker"
        /\ \A w \in Workers : Winner(w, j) =>
              /\ wk[w].out # "denied"
              /\ wk[w].at = "audit" => ledger[j].settled
        /\ (\A w \in Workers : ~Winner(w, j)) =>
              (ledger[j].settled <=> audits[j] = 1)

CancelOK(j) ==
    row[j].status = "cancelled" =>
        audits[j] = 1 \/ \E c \in Cancellers : canceller[c] = Cancels("won", j)

CalmInv ==
    faults = 0 => /\ WorkersOK
                  /\ \A j \in Jobs : Balanced(j) /\ Completion(j) /\ CancelOK(j)

LEMMA WorkerFields ==
    ASSUME NEW r \in Worker
    PROVE  /\ \A at, out : /\ Goes(r, at, out).at = at
                           /\ Goes(r, at, out).out = out
                           /\ Goes(r, at, out).job = r.job
                           /\ Goes(r, at, out).dec = r.dec
           /\ /\ Answered(r, "won").at = "answered"
              /\ Answered(r, "won").out = r.out
              /\ Answered(r, "won").job = r.job
              /\ Answered(r, "won").dec = "won"
           /\ \A j, n : /\ Admits(j, n).at = "admit"
                        /\ Admits(j, n).out = "none"
                        /\ Admits(j, n).job = j
                        /\ Admits(j, n).dec = "none"
           /\ /\ Idle.at = "idle"
              /\ Idle.out = "none"
              /\ Idle.job = None
              /\ Idle.dec = "none"
  BY DEF Worker, Goes, Answered, Admits, Idle

(* A worker that walks: where it was, and where it is.                     *)
LEMMA WalkersOK ==
    ASSUME TypeOK, WorkersOK, NEW w \in Workers, Walks(w)
    PROVE  /\ \A v \in Workers \ {w} : wk'[v] = wk[v]
           /\ WorkerOK(wk'[w])
  <1>1. wk[w] \in Worker /\ WorkerOK(wk[w])
    BY DEF TypeOK, WorkersOK
  <1>2. CASE Takes(w)
    <2>1. PICK j \in Jobs : wk' = [wk EXCEPT ![w] = Admits(j, row[j].attempts)]
      BY <1>2 DEF Takes, Claim
    <2>2. wk'[w] = Admits(j, row[j].attempts)
          /\ \A v \in Workers \ {w} : wk'[v] = wk[v]
      BY <2>1 DEF TypeOK
    <2>3. QED
      BY <1>1, <2>2, WorkerFields DEF WorkerOK
  <1>3. CASE Walks(w) /\ ~Takes(w)
    <2>1. PICK s \in {Goes(wk[w], "reserved", "none"), Answered(wk[w], "won"),
                      Goes(wk[w], "handback", "abort"),
                      Goes(wk[w], "handback", "retry"), Idle,
                      Goes(wk[w], "audit", wk[w].out)} :
            /\ Only(w, s)
            /\ s = Goes(wk[w], "reserved", "none") => wk[w].at = "admit"
            /\ s \in {Goes(wk[w], "handback", "abort"),
                      Goes(wk[w], "handback", "retry")} => wk[w].at = "ended"
      <3>1. CASE Books(w)
        BY <1>1, <3>1, WorkerFields DEF Books
      <3>2. CASE Wins(w) \/ Pays(w) \/ Passes(w) \/ Leaves(w)
        BY <1>1, <3>2, WorkerFields DEF Wins, Pays, Passes, Leaves
      <3>3. CASE Frees(w)
        BY <1>1, <3>3, WorkerFields DEF Frees
      <3>4. QED
        BY <1>3, <3>1, <3>2, <3>3 DEF Walks
    <2>2. WorkerOK(s)
      BY <1>1, <2>1, WorkerFields DEF WorkerOK
    <2>3. QED
      BY <2>1, <2>2 DEF Only
  <1>4. QED
    BY <1>2, <1>3

LEMMA ReservedFields ==
    ASSUME NEW l \in Ledger
    PROVE  /\ Held(l).reserved = l.reserved + 1
           /\ l.reserved = 1 => Freed(l).reserved = 0
           /\ l.reserved = 1 /\ ~l.settled => Charged(l).reserved = 0
  BY DEF Ledger, Held, Freed, Charged

LEMMA SettledFields ==
    ASSUME NEW l \in Ledger
    PROVE  /\ Held(l).settled = l.settled
           /\ Freed(l).settled = l.settled
           /\ l.reserved = 1 /\ ~l.settled => Charged(l).settled
  BY DEF Ledger, Held, Freed, Charged

(* Only the ledger row of the walker's job changes, and only a payment     *)
(* settles.                                                                *)
LEMMA LedgerWalks ==
    ASSUME TypeOK, NEW w \in Workers, Walks(w), NEW j \in Jobs
    PROVE  /\ wk[w].job # j => ledger'[j] = ledger[j]
           /\ ~Pays(w) => (ledger'[j].settled <=> ledger[j].settled)
  <1>1. ledger[j] \in Ledger
    BY DEF TypeOK, Ledger
  <1>2. CASE Takes(w) \/ Wins(w) \/ Passes(w) \/ Leaves(w)
    BY <1>2 DEF Takes, Claim, ClaimRow, Wins, Passes, Leaves
  <1>3. CASE Books(w)
    BY <1>1, <1>3 DEF Books, Reserve, Held, Ledger, TypeOK
  <1>4. CASE Frees(w)
    BY <1>1, <1>4 DEF Frees, Release, Freed, Ledger, TypeOK
  <1>5. CASE Pays(w)
    BY <1>5 DEF Pays, Settle, TypeOK
  <1>6. QED
    BY <1>2, <1>3, <1>4, <1>5 DEF Walks

LEMMA BalanceSteps ==
    ASSUME LeaseInv, SettledOnlyIfDecided, WorkersOK, NEW j \in Jobs,
           Balanced(j), Rests \/ \E w \in Workers : Walks(w)
    PROVE  Balanced(j)'
  <1> USE DEF LeaseInv, RowInv
  <1>1. ledger[j] \in Ledger /\ j # None
    BY NoneAssumption DEF TypeOK, Ledger
  <1>2. CASE Rests
    <2>1. \A w \in Workers : /\ wk'[w].job = wk[w].job
                             /\ Owes(wk'[w]) <=> Owes(wk[w])
                             /\ wk'[w].at = "audit" <=> wk[w].at = "audit"
      BY <1>2 DEF Rests, Alike
    <2>2. Busy(j)' <=> Busy(j)
      BY <2>1 DEF Busy
    <2>3. QED
      BY <1>2, <2>1, <2>2 DEF Balanced, Rests
  <1>3. ASSUME NEW w \in Workers, Walks(w)
        PROVE  Balanced(j)'
    <2>1. /\ \A v \in Workers \ {w} : wk'[v] = wk[v]
          /\ wk[w] \in Worker
      BY <1>3, WalkersOK DEF TypeOK
    <2>2. ASSUME wk'[w].job = j => wk[w].job = j,
                 wk'[w].job = j => (Owes(wk'[w]) <=> Owes(wk[w])),
                 wk[w].job = j /\ Owes(wk[w]) => wk'[w].job = j,
                 wk'[w].job = j => (wk[w].at = "audit" => wk'[w].at = "audit"),
                 ledger'[j] = ledger[j]
          PROVE  Balanced(j)'
      <3>1. Busy(j)' <=> Busy(j)
        BY <2>1, <2>2 DEF Busy
      <3>2. QED
        BY <2>1, <2>2, <3>1 DEF Balanced
    <2>3. CASE wk[w].job # j /\ ~Takes(w)
      <3>1. wk'[w].job # j
        BY <1>1, <1>3, <2>1, <2>3, WorkerFields
        DEF Walks, Books, Wins, Frees, Pays, Passes, Leaves, Only
      <3>2. ledger'[j] = ledger[j]
        BY <1>3, <2>3, LedgerWalks
      <3>3. QED
        BY <2>2, <2>3, <3>1, <3>2
    <2>4. CASE Takes(w)
      <3>1. PICK k \in Jobs : Claim(w, k)
        BY <2>4 DEF Takes
      <3>2. wk'[w] = Admits(k, row[k].attempts) /\ wk[w].at = "idle"
            /\ ledger' = ledger /\ row[k].status = "queued"
        BY <3>1 DEF Claim, ClaimRow, Claimable, TypeOK
      <3>3. ~Owes(wk'[w]) /\ ~Owes(wk[w]) /\ wk'[w].job = k
        BY <2>1, <3>2, WorkerFields DEF Owes
      <3>4. Busy(j)' <=> Busy(j)
        BY <2>1, <3>3 DEF Busy
      <3>5. ledger[j].settled => k # j
        BY <3>2 DEF SettledOnlyIfDecided, Decided
      <3>6. QED
        BY <2>1, <3>2, <3>3, <3>4, <3>5 DEF Balanced
    <2>5. CASE wk[w].job = j /\ ~Takes(w)
      <3>1. \A v \in Workers \ {w} : wk[v].job # j /\ wk'[v].job # j
        BY <1>1, <2>1, <2>5 DEF OneHolder
      <3>2. Busy(j) <=> Owes(wk[w])
        BY <2>5, <3>1 DEF Busy
      <3>3. Busy(j)' <=> wk'[w].job = j /\ Owes(wk'[w])
        BY <3>1 DEF Busy
      <3>4. CASE Books(w)
        <4>1. /\ wk'[w] = Goes(wk[w], "reserved", "none")
              /\ wk[w].at = "admit"
              /\ ledger'[j] = Held(ledger[j])
          BY <2>5, <3>4 DEF Books, Only, Reserve, TypeOK
        <4>2. /\ wk'[w].at = "reserved" /\ wk'[w].out = "none"
              /\ wk'[w].job = j
          BY <2>1, <2>5, <4>1, WorkerFields
        <4>3. ledger[j].reserved = 0 /\ ~ledger[j].settled
          BY <2>5, <3>2, <4>1 DEF Balanced, Owes
        <4>4. ledger'[j].reserved = 1 /\ ~ledger'[j].settled
          <5>1. ledger'[j].reserved = 1
            BY <1>1, <4>1, <4>3, ReservedFields
          <5>2. ~ledger'[j].settled
            BY <1>1, <4>1, <4>3, SettledFields
          <5>3. QED
            BY <5>1, <5>2
        <4>5. QED
          BY <3>3, <4>2, <4>4 DEF Balanced, Owes
      <3>5. CASE Wins(w)
        <4>1. wk'[w] = Answered(wk[w], "won") /\ wk[w].at = "ended"
              /\ ledger' = ledger
          BY <3>5 DEF Wins, Only
        <4>2. wk'[w].at = "answered" /\ wk'[w].out = wk[w].out
              /\ wk'[w].job = j
          BY <2>1, <2>5, <4>1, WorkerFields
        <4>3. QED
          BY <2>2, <2>5, <4>1, <4>2 DEF Owes
      <3>6. CASE Frees(w)
        <4>1. wk[w].at # "audit" /\ Owes(wk[w])
          BY <3>6 DEF Frees, Owes
        <4>2. ledger[j].reserved = 1 /\ ~ledger[j].settled
          BY <2>5, <3>2, <4>1 DEF Balanced
        <4>3. ledger'[j] = Freed(ledger[j])
          BY <2>5, <3>6 DEF Frees, Release, TypeOK
        <4>4. ledger'[j].reserved = 0 /\ ~ledger'[j].settled
          <5>1. ledger'[j].reserved = 0
            BY <1>1, <4>2, <4>3, ReservedFields
          <5>2. ~ledger'[j].settled
            BY <1>1, <4>2, <4>3, SettledFields
          <5>3. QED
            BY <5>1, <5>2
        <4>5. wk'[w].at \in {"handback", "idle"}
          BY <2>1, <3>6, WorkerFields DEF Frees, Only
        <4>6. QED
          BY <3>3, <4>4, <4>5 DEF Balanced, Owes
      <3>7. CASE Pays(w)
        <4>1. wk[w].at # "audit" /\ Owes(wk[w])
          BY <3>7 DEF Pays, Owes
        <4>2. ledger[j].reserved = 1 /\ ~ledger[j].settled
          BY <2>5, <3>2, <4>1 DEF Balanced
        <4>3. ledger'[j] = Charged(ledger[j])
          BY <2>5, <3>7 DEF Pays, Settle, TypeOK
        <4>4. ledger'[j].reserved = 0
          BY <1>1, <4>2, <4>3, ReservedFields
        <4>5. /\ wk'[w].at \in {"audit", "idle"}
              /\ wk'[w].job = j => wk'[w].at = "audit"
          BY <1>1, <2>1, <3>7, WorkerFields DEF Pays, Only
        <4>6. QED
          BY <3>1, <3>3, <4>4, <4>5 DEF Balanced, Owes
      <3>8. CASE Passes(w)
        <4>1. /\ wk'[w].at = "audit" /\ wk'[w].job = j
              /\ ledger' = ledger /\ ~Owes(wk[w])
          BY <2>1, <2>5, <3>8, WorkerFields DEF Passes, Only, Owes
        <4>2. QED
          BY <2>2, <2>5, <4>1 DEF Owes
      <3>9. CASE Leaves(w)
        <4>1. /\ wk'[w].job # j
              /\ ledger' = ledger /\ ~Owes(wk[w])
          BY <1>1, <2>1, <3>9, WorkerFields DEF Leaves, Only
        <4>2. QED
          BY <2>2, <4>1
      <3>10. QED
        BY <1>3, <2>5, <3>4, <3>5, <3>6, <3>7, <3>8, <3>9 DEF Walks
    <2>6. QED
      BY <2>3, <2>4, <2>5
  <1>4. QED
    BY <1>2, <1>3

(* A completed job that nobody has won any more keeps its closed books.    *)
LEMMA ClosedBooks ==
    ASSUME IInv, WorkersOK, NEW j \in Jobs, Completion(j),
           row[j].status = "completed", [Next]_vars,
           \A w \in Workers : ~Winner(w, j),
           Rests \/ \E w \in Workers : Walks(w)
    PROVE  /\ Writers(j)' = {}
           /\ ledger'[j].settled <=> audits'[j] = 1
  <1> USE DEF IInv, RowInv
  <1>1. Writers(j) = {}
    BY DEF Completion, Writers, Winner
  <1>2. Quiet(j)
    BY <1>1, AuditSteps DEF AuditStepOf, Decides, Records, Decided
  <1>3. Writers(j)' = {} /\ audits'[j] = audits[j]
    BY <1>1, <1>2 DEF Quiet
  <1>4. ledger[j].settled <=> audits[j] = 1
    BY DEF Completion
  <1>5. ledger'[j].settled <=> ledger[j].settled
    <2>1. CASE Rests
      BY <2>1 DEF Rests
    <2>2. ASSUME NEW w \in Workers, Walks(w)
          PROVE  ledger'[j].settled <=> ledger[j].settled
      <3>1. CASE Pays(w)
        <4>1. wk[w].job # j
          BY <3>1 DEF Pays, Winner
        <4>2. QED
          BY <2>2, <4>1, LedgerWalks
      <3>2. CASE ~Pays(w)
        BY <2>2, <3>2, LedgerWalks
      <3>3. QED
        BY <3>1, <3>2
    <2>3. QED
      BY <2>1, <2>2
  <1>6. QED
    BY <1>3, <1>4, <1>5

(* The winner of a completed job pays, then audits, and leaves.            *)
LEMMA OpenBooks ==
    ASSUME LeaseInv, IInv, WorkersOK, NEW j \in Jobs, Balanced(j),
           Completion(j), row[j].status = "completed", [Next]_vars,
           NEW w \in Workers, Winner(w, j), Walks(w)
    PROVE  \/ Winner(w, j)' /\ wk'[w].out # "denied"
              /\ (wk'[w].at = "audit" => ledger'[j].settled)
           \/ /\ wk'[w].job # j
              /\ ledger'[j].settled <=> audits'[j] = 1
  <1> USE DEF IInv, RowInv
  <1>1. /\ wk[w] \in Worker /\ wk[w].job = j /\ wk[w].dec = "won" /\ j # None
        /\ wk[w].at \in {"answered", "audit"}
        /\ wk[w].out # "denied"
        /\ ledger[j] \in Ledger
    BY NoneAssumption
    DEF TypeOK, WorkersOK, WorkerOK, Winner, Completion, Ledger
  <1>2. <<"worker", w>> \in Writers(j) /\ audits[j] = 0
    <2>1. <<"worker", w>> \in Writers(j)
      BY <1>1 DEF Writers
    <2>2. QED
      BY <2>1 DEF AuditsMatch
  <1>3. Busy(j) <=> wk[w].at = "answered"
    <2>1. \A v \in Workers : wk[v].job = j => v = w
      BY <1>1 DEF LeaseInv, OneHolder
    <2>2. QED
      BY <1>1, <2>1 DEF Busy, Owes
  <1>4. CASE wk[w].at = "answered"
    <2>1. ledger[j].reserved = 1 /\ ~ledger[j].settled /\ Owes(wk[w])
      BY <1>1, <1>3, <1>4 DEF Balanced, Owes
    <2>2. CASE Frees(w)
      <3>1. wk'[w] = Idle /\ audits' = audits
        BY <1>4, <2>2 DEF Frees, Only
      <3>2. wk'[w].job # j
        BY <1>1, <3>1, WorkerFields
      <3>3. ledger'[j] = Freed(ledger[j])
        BY <1>1, <2>2 DEF Frees, Release, TypeOK
      <3>4. ~ledger'[j].settled
        BY <1>1, <2>1, <3>3, SettledFields
      <3>5. QED
        BY <1>2, <3>1, <3>2, <3>4
    <2>3. CASE Pays(w)
      <3>1. /\ wk'[w] = Goes(wk[w], "audit", wk[w].out)
            /\ ledger'[j] = Charged(ledger[j])
        BY <1>1, <2>3 DEF Pays, Only, Settle, TypeOK
      <3>2. Winner(w, j)' /\ wk'[w].out # "denied"
        BY <1>1, <3>1, WorkerFields DEF Winner
      <3>3. ledger'[j].settled
        BY <1>1, <2>1, <3>1, SettledFields
      <3>4. QED
        BY <3>2, <3>3
    <2>4. QED
      BY <1>1, <1>4, <2>1, <2>2, <2>3
      DEF Walks, Takes, Claim, ClaimRow, Books, Wins, Passes, Leaves
  <1>5. CASE wk[w].at = "audit"
    <2>1. Leaves(w)
      BY <1>5 DEF Walks, Takes, Claim, ClaimRow, Books, Wins, Frees, Pays,
        Passes, Leaves
    <2>2. /\ wk'[w] = Idle /\ ledger' = ledger
          /\ audits' = [audits EXCEPT ![j] = @ + 1]
      BY <1>1, <1>5, <2>1 DEF Leaves, Only
    <2>3. wk'[w].job # j
      BY <1>1, <2>2, WorkerFields
    <2>4. ledger[j].settled
      BY <1>1, <1>5 DEF Completion, Winner
    <2>5. audits'[j] = 1
      BY <1>2, <2>2 DEF TypeOK
    <2>6. QED
      BY <2>2, <2>3, <2>4, <2>5
  <1>6. QED
    BY <1>1, <1>4, <1>5

LEMMA CompletionSteps ==
    ASSUME LeaseInv, IInv, WorkersOK, NEW j \in Jobs, Balanced(j),
           Completion(j), [Next]_vars,
           Rests \/ \E w \in Workers : Walks(w)
    PROVE  Completion(j)'
  <1> SUFFICES ASSUME row'[j].status = "completed"
               PROVE  Completion(j)'
    BY DEF Completion
  <1> USE DEF IInv, RowInv
  <1>1. j # None
    BY NoneAssumption
  <1>2. ASSUME NEW w \in Workers, Wins(w), wk[w].job = j
        PROVE  Completion(j)'
    <2>1. /\ \A v \in Workers \ {w} : wk'[v] = wk[v]
          /\ wk'[w] = Answered(wk[w], "won")
          /\ UNCHANGED <<sweeper, canceller>>
          /\ wk[w].out = "answer" /\ row[j].status = "running"
      BY <1>2 DEF Wins, Only, Owns
    <2>2. /\ wk'[w].job = j /\ wk'[w].dec = "won"
          /\ wk'[w].out = "answer" /\ wk'[w].at = "answered"
      BY <1>2, <2>1, WorkerFields DEF TypeOK
    <2>3. \A v \in Workers \ {w} : wk[v].job # j
      BY <1>1, <1>2 DEF LeaseInv, OneHolder
    <2>4. Writers(j) = {}
      BY <2>1 DEF AuditsMatch, Decided
    <2>5. \A x \in Writers(j)' : x[1] = "worker"
      BY <2>1, <2>3, <2>4 DEF Writers
    <2>6. QED
      BY <2>1, <2>2, <2>3, <2>5 DEF Completion, Winner
  <1>3. CASE row[j].status = "completed"
    <2>1. Writers(j)' \subseteq Writers(j)
      BY <1>3, AuditSteps DEF AuditStepOf, Quiet, Decides, Records, Decided
    <2>2. \A x \in Writers(j)' : x[1] = "worker"
      BY <1>3, <2>1 DEF Completion
    <2>3. \A v \in Workers : Winner(v, j)' => Winner(v, j)
      <3> SUFFICES ASSUME NEW v \in Workers, Winner(v, j)'
                   PROVE  Winner(v, j)
        OBVIOUS
      <3>1. <<"worker", v>> \in Writers(j)'
        BY DEF Writers, Winner
      <3>2. <<"worker", v>> \in Writers(j)
        BY <2>1, <3>1
      <3>3. "worker" # "sweep" /\ "worker" # "cancel"
        OBVIOUS
      <3>4. QED
        BY <3>2, <3>3 DEF Writers, Winner
    <2>4. CASE \A w \in Workers : ~Winner(w, j)
      BY <1>3, <2>2, <2>3, <2>4, ClosedBooks DEF Completion
    <2>5. ASSUME NEW w \in Workers, Winner(w, j)
          PROVE  Completion(j)'
      <3>1. \A v \in Workers : Winner(v, j) => v = w
        BY <1>1, <2>5 DEF Winner, LeaseInv, OneHolder
      <3>2. CASE Rests
        <4>1. Alike(wk[w], wk'[w]) /\ ledger' = ledger
          BY <3>2 DEF Rests
        <4>2. /\ Winner(w, j)' /\ wk'[w].out = wk[w].out
              /\ wk'[w].at = "audit" <=> wk[w].at = "audit"
          BY <2>5, <4>1 DEF Alike, Winner
        <4>3. QED
          BY <1>3, <2>2, <2>3, <2>5, <3>1, <4>1, <4>2 DEF Completion
      <3>3. CASE Walks(w)
        <4>1. \/ Winner(w, j)' /\ wk'[w].out # "denied"
                 /\ (wk'[w].at = "audit" => ledger'[j].settled)
              \/ /\ wk'[w].job # j
                 /\ ledger'[j].settled <=> audits'[j] = 1
          BY <1>3, <2>5, <3>3, OpenBooks
        <4>2. CASE Winner(w, j)' /\ wk'[w].out # "denied"
                   /\ (wk'[w].at = "audit" => ledger'[j].settled)
          BY <2>2, <2>3, <3>1, <4>2 DEF Completion
        <4>3. CASE /\ wk'[w].job # j
                   /\ ledger'[j].settled <=> audits'[j] = 1
          <5>1. \A v \in Workers : ~Winner(v, j)'
            BY <2>3, <3>1, <4>3 DEF Winner
          <5>2. QED
            BY <2>2, <4>3, <5>1 DEF Completion
        <4>4. QED
          BY <4>1, <4>2, <4>3
      <3>4. ASSUME NEW v \in Workers, v # w, Walks(v)
            PROVE  Completion(j)'
        <4>1. wk'[w] = wk[w]
          BY <3>4, WalkersOK
        <4>2. wk[v].job # j
          BY <1>1, <2>5, <3>4 DEF Winner, LeaseInv, OneHolder
        <4>3. ledger'[j] = ledger[j]
          BY <3>4, <4>2, LedgerWalks
        <4>4. Winner(w, j)'
          BY <2>5, <4>1 DEF Winner
        <4>5. QED
          BY <1>3, <2>2, <2>3, <2>5, <3>1, <4>1, <4>3, <4>4 DEF Completion
      <3>5. QED
        BY <3>2, <3>3, <3>4
    <2>6. QED
      BY <2>4, <2>5
  <1>4. \/ row[j].status = "completed"
        \/ \E w \in Workers : Wins(w) /\ wk[w].job = j
    BY DEF Rests, Walks, Takes, Books, Wins, Frees, Pays, Passes, Leaves,
      NoneCompletes
  <1>5. QED
    BY <1>2, <1>3, <1>4

(* Only a cancel cancels, and the one that did writes the audit record.    *)
LEMMA CancelMoves ==
    ASSUME RowInv, [Next]_vars, ~Fault, NEW j \in Jobs
    PROVE  /\ row'[j].status = "cancelled" =>
                \/ row[j].status = "cancelled"
                \/ \E c \in Cancellers : canceller'[c] = Cancels("won", j)
           /\ \A c \in Cancellers : canceller[c] = Cancels("won", j) =>
                \/ canceller'[c] = canceller[c]
                \/ audits'[j] = audits[j] + 1
  <1> USE DEF RowInv
  <1>1. row[j] \in Row /\ row \in [Jobs -> Row]
    BY DEF TypeOK
  <1>2. ASSUME row'[j].status = "cancelled", row[j].status # "cancelled"
        PROVE  \E c \in Cancellers : canceller'[c] = Cancels("won", j)
    <2>1. /\ Created(row[j]).status # "cancelled"
          /\ \A p : Claimed(row[j], p).status # "cancelled"
          /\ \A b, d : Requeued(row[j], b, d).status # "cancelled"
          /\ \A s, t : Finish(row[j], s, t).status = s
          /\ Expired(row[j]).status # "cancelled"
          /\ Renewed(row[j]).status = row[j].status
          /\ Aged(row[j]).status = row[j].status
      BY <1>1 DEF Row, Created, Claimed, Requeued, Finish, Expired, Renewed,
        Aged
    <2>2. row'[j] # row[j] /\ ~UNCHANGED storeVars
      BY <1>2 DEF storeVars
    <2>3. ASSUME NEW k \in Jobs, Create(k) \/ GetExpires(k)
          PROVE  FALSE
      BY <1>1, <1>2, <2>1, <2>2, <2>3 DEF Create, GetExpires
    <2>4. ASSUME NEW w \in Workers, NEW k \in Jobs, ClaimRow(w, k)
          PROVE  FALSE
      BY <1>1, <1>2, <2>1, <2>2, <2>4 DEF ClaimRow
    <2>5. ASSUME NEW w \in Workers, Heartbeat(w) \/ Requeue(w)
          PROVE  FALSE
      BY <1>1, <1>2, <2>1, <2>2, <2>5 DEF Heartbeat, Requeue
    <2>6. ASSUME NEW w \in Workers, Commit(w)
          PROVE  FALSE
      <3>1. \E s \in Finished : row'[j] = Finish(row[j], s, ResultTTL)
        BY <1>1, <2>2, <2>6 DEF Commit, CommitRow, Finished
      <3>2. QED
        BY <1>2, <2>1, <3>1 DEF Finished
    <2>7. ASSUME NEW p \in Procs, Recover(p)
          PROVE  FALSE
      <3>1. \/ row'[j] = row[j]
            \/ row'[j] = Finish(row[j], "failed", 0)
            \/ row'[j] = Requeued(row[j], 1, 0)
        BY <2>7 DEF Recover
      <3>2. QED
        BY <1>2, <2>1, <2>2, <3>1
    <2>8. ASSUME NEW p \in Procs, ExpireDue(p)
          PROVE  FALSE
      BY <1>2, <2>1, <2>2, <2>8 DEF ExpireDue
    <2>9. ~Tick
      BY <1>1, <1>2, <2>1 DEF Tick
    <2>10. ASSUME NEW c \in Cancellers, NEW k \in Jobs \cup {None},
                  row' = [row EXCEPT ![k] = Cancelled(@)],
                  canceller' = [canceller EXCEPT ![c] = Cancels("won", k)]
           PROVE  \E d \in Cancellers : canceller'[d] = Cancels("won", j)
      BY <1>1, <2>2, <2>10 DEF TypeOK
    <2>11. \A c \in Cancellers : canceller[c].job \in Jobs \cup {None}
      BY DEF TypeOK, Canceller
    <2>12. QED
      BY <2>2, <2>3, <2>4, <2>5, <2>6, <2>7, <2>8, <2>9, <2>10, <2>11,
        RowWriters DEF CancelQueued, CancelRunning
  <1>3. ASSUME NEW c \in Cancellers, canceller[c] = Cancels("won", j),
               canceller'[c] # canceller[c]
        PROVE  audits'[j] = audits[j] + 1
    <2>1. canceller[c].at = "won" /\ canceller[c].job = j
      BY <1>3 DEF Cancels
    <2>2. canceller' # canceller
      BY <1>3
    <2>3. ASSUME NEW d \in Cancellers, CancelNext(d)
          PROVE  audits'[j] = audits[j] + 1
      <3>1. d = c
        BY <1>3, <2>3 DEF CancelNext, CancelQueued, CancelMisses,
          CancelRunning, CancelNoop, CancelFinish, TypeOK
      <3>2. CancelFinish(c)
        BY <2>1, <2>3, <3>1 DEF CancelNext, CancelQueued, CancelMisses,
          CancelRunning, CancelNoop
      <3>3. QED
        BY <2>1, <3>2 DEF CancelFinish, TypeOK
    <2>4. ASSUME NEW w \in Workers, WorkerNext(w)
          PROVE  FALSE
      BY <2>2, <2>4 DEF WorkerNext, WorkerStep, Claim, ClaimUnanswered,
        ClaimRow, AdmitDeny, AdmitRetry, AdmitOutage, AdmitReserve,
        StartExec, Heartbeat, HeartbeatFails, CallReturns, FailAbort,
        FailRetry, Commit, CommitFails, HandoffError, HandoffLost,
        HandoffWon, AuditWon, Requeue, RequeueFails, WorkerOnly
    <2>5. ASSUME NEW p \in Procs, SweepNext(p) \/ ProcNext(p)
          PROVE  FALSE
      BY <2>2, <2>5 DEF SweepNext, Recover, SweepAudit, ExpireDue,
        SweepOnly, ProcNext, StopBegin, DrainElapses, StopDone, Crash,
        Restart
    <2>6. ~(Tick \/ UNCHANGED vars)
          /\ \A k \in Jobs : ~(Create(k) \/ GetExpires(k))
      BY <2>2 DEF Tick, vars, Create, GetExpires
    <2>7. QED
      BY <2>3, <2>4, <2>5, <2>6 DEF Next
  <1>4. QED
    BY <1>2, <1>3

LEMMA CancelSteps ==
    ASSUME IInv, NEW j \in Jobs, CancelOK(j), [Next]_vars, ~Fault
    PROVE  CancelOK(j)'
  <1> SUFFICES ASSUME row'[j].status = "cancelled",
                      \A c \in Cancellers : canceller'[c] # Cancels("won", j)
               PROVE  audits'[j] = 1
    BY DEF CancelOK
  <1> USE DEF IInv, RowInv
  <1>1. row[j].status = "cancelled"
    BY CancelMoves
  <1>2. CASE audits[j] = 1
    <2>1. Writers(j) = {} /\ row[j].status \in Decided
      BY <1>2 DEF AuditsMatch
    <2>2. Quiet(j)
      BY <2>1, AuditSteps DEF AuditStepOf, Decides, Records
    <2>3. QED
      BY <1>2, <2>2 DEF Quiet
  <1>3. ASSUME NEW c \in Cancellers, canceller[c] = Cancels("won", j),
               audits[j] # 1
        PROVE  audits'[j] = 1
    <2>1. audits[j] = 0
      BY <1>3 DEF AuditsMatch
    <2>2. audits'[j] = audits[j] + 1
      BY <1>3, CancelMoves
    <2>3. QED
      BY <2>1, <2>2
  <1>4. QED
    BY <1>1, <1>2, <1>3 DEF CancelOK

LEMMA InitCalmInv == Init => CalmInv
  <1> SUFFICES ASSUME Init
               PROVE  CalmInv
    OBVIOUS
  <1>1. \A w \in Workers : wk[w].at = "idle" /\ wk[w].job = None
                           /\ wk[w].dec = "none"
    BY DEF Init, Idle
  <1>2. WorkersOK
    BY <1>1 DEF WorkersOK, WorkerOK
  <1>3. ASSUME NEW j \in Jobs
        PROVE  Balanced(j) /\ Completion(j) /\ CancelOK(j)
    <2>1. /\ ledger[j].reserved = 0 /\ ~ledger[j].settled
          /\ row[j].status = "absent"
      BY DEF Init, NewRow
    <2>2. ~Busy(j)
      BY <1>1 DEF Busy, Owes
    <2>3. QED
      BY <2>1, <2>2 DEF Balanced, Completion, CancelOK
  <1>4. QED
    BY <1>2, <1>3 DEF CalmInv

LEMMA CalmInvStep ==
    LeaseInv /\ IInv /\ SettledOnlyIfDecided /\ CalmInv /\ [Next]_vars
        => CalmInv'
  <1> SUFFICES ASSUME LeaseInv, IInv, SettledOnlyIfDecided, CalmInv,
                      [Next]_vars, faults' = 0
               PROVE  /\ WorkersOK'
                      /\ \A j \in Jobs :
                            Balanced(j)' /\ Completion(j)' /\ CancelOK(j)'
    BY DEF CalmInv
  <1>1. TypeOK /\ RowInv
    BY DEF IInv, RowInv
  <1>2. faults = 0 /\ ~Fault
    BY <1>1, FaultCounts
  <1>3. WorkersOK /\ \A j \in Jobs : Balanced(j) /\ Completion(j) /\ CancelOK(j)
    BY <1>2 DEF CalmInv
  <1>4. Rests \/ \E w \in Workers : Walks(w)
    BY <1>1, <1>3, CalmSteps
  <1>5. WorkersOK'
    <2>1. ASSUME NEW w \in Workers, Walks(w)
          PROVE  WorkersOK'
      BY <1>1, <1>3, <2>1, WalkersOK DEF WorkersOK
    <2>2. QED
      BY <1>4, <2>1 DEF Rests, Alike, WorkersOK
  <1>6. ASSUME NEW j \in Jobs
        PROVE  Balanced(j)' /\ Completion(j)' /\ CancelOK(j)'
    BY <1>2, <1>3, <1>4, BalanceSteps, CompletionSteps, CancelSteps
  <1>7. QED
    BY <1>5, <1>6

LEMMA BooksKept ==
    ASSUME TimelyHeartbeats
    PROVE  Spec => [](LeaseInv /\ IInv /\ CalmInv)
  <1>1. LeaseInv /\ [Next]_vars => LeaseInv'
    BY LeaseInvStep
  <1>2. IInv /\ [Next]_vars => IInv'
    BY IInvStep
  <1>3. QED
    BY InitLeaseInv, InitIInv, InitCalmInv, SettlementCorrect, CalmInvStep,
      <1>1, <1>2, PTL DEF Spec

(* With timely heartbeats and without faults, the reserved ledger rows of  *)
(* a job are those of the execution that has yet to settle or release one. *)
THEOREM NothingLeftReserved ==
    ASSUME TimelyHeartbeats
    PROVE  Spec => []NoResidue
  <1>1. LeaseInv /\ IInv /\ CalmInv => NoResidue
    <2> SUFFICES ASSUME LeaseInv, CalmInv, faults = 0, NEW j \in Jobs
                 PROVE  ledger[j].reserved =
                          Cardinality({w \in Workers :
                                         wk[w].job = j /\ Holding(w)})
      BY DEF NoResidue
    <2> DEFINE H == {w \in Workers : wk[w].job = j /\ Holding(w)}
    <2>1. j # None
      BY NoneAssumption
    <2>2. \A w \in Workers : Holding(w) <=> Owes(wk[w])
      BY DEF Holding, Owes, Reserved
    <2>3. ledger[j].reserved = IF Busy(j) THEN 1 ELSE 0
      BY DEF CalmInv, Balanced
    <2>4. CASE Busy(j)
      <3>1. PICK w \in Workers : wk[w].job = j /\ Holding(w)
        BY <2>2, <2>4 DEF Busy
      <3>2. H = {w}
        BY <2>1, <3>1 DEF LeaseInv, OneHolder
      <3>3. Cardinality(H) = 1
        BY <3>2, FS_Singleton
      <3>4. QED
        BY <2>3, <2>4, <3>3
    <2>5. CASE ~Busy(j)
      <3>1. H = {}
        BY <2>2, <2>5 DEF Busy
      <3>2. Cardinality(H) = 0
        BY <3>1, FS_EmptySet
      <3>3. QED
        BY <2>3, <2>5, <3>2
    <2>6. QED
      BY <2>4, <2>5
  <1>2. QED
    BY BooksKept, <1>1, PTL

(* With timely heartbeats and without faults, a completed job nobody works *)
(* on was settled exactly if it was audited, and a cancelled job whose     *)
(* cancel returned was audited.                                            *)
THEOREM BooksClosed ==
    ASSUME TimelyHeartbeats
    PROVE  Spec => []OutcomesAudited
  <1>1. LeaseInv /\ IInv /\ CalmInv => OutcomesAudited
    <2> SUFFICES ASSUME IInv, CalmInv, faults = 0, NEW j \in Jobs
                 PROVE  /\ row[j].result = "response" /\ ~Settling(j) =>
                               (ledger[j].settled <=> audits[j] = 1)
                        /\ row[j].status = "cancelled"
                             /\ (\A c \in Cancellers : canceller[c].job # j)
                           => audits[j] = 1
      BY DEF OutcomesAudited
    <2>1. Completion(j) /\ CancelOK(j)
      BY DEF CalmInv
    <2>2. row[j].result = "response" => row[j].status = "completed"
      BY DEF IInv, RowInv, ResultMatches, Matches
    <2>3. ~Settling(j) => \A w \in Workers : ~Winner(w, j)
      BY DEF Settling, Winner
    <2>4. \A c \in Cancellers :
            canceller[c] = Cancels("won", j) => canceller[c].job = j
      BY DEF Cancels
    <2>5. row[j].result = "response" /\ ~Settling(j) =>
            (ledger[j].settled <=> audits[j] = 1)
      BY <2>1, <2>2, <2>3 DEF Completion
    <2>6. row[j].status = "cancelled"
            /\ (\A c \in Cancellers : canceller[c].job # j) => audits[j] = 1
      BY <2>1, <2>4 DEF CancelOK
    <2>7. QED
      BY <2>5, <2>6
  <1>2. QED
    BY BooksKept, <1>1, PTL
=============================================================================
