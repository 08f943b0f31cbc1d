# Verification of the knowledge-base gateway

The repository holds two programs.  The first is an LLM gateway in Go: one or more identical processes
(`cmd/gateway`) in front of a PostgreSQL database, a Redis server and a set of
model providers.  It authenticates a caller, admits the request through four
gates, routes it to a provider with retries and failover, settles what it used,
and offers the same as durable background jobs.  The second is the agent
tooling in Python (`.trellis/scripts` and the hooks under `.codex`, `.cursor`
and `.zcode`): several agent windows share one checkout, its task store, its
session journal and its git index through commands that take no lock.

This directory holds TLA+ specifications of the parts of both where several
processes, goroutines, windows, calls and clocks interact, the TLC runs that
check them on small instances, and TLAPS proofs of the most important results
for every instance.

Check a run with `tlc -config X.cfg M`, a proof module with `tlapm M.tla`.

## 1. Inventory of the system

| Component | State it keeps | Operations | Hard behaviour |
|---|---|---|---|
| Async job queue (`internal/store/pg/async.go`) | `async_jobs`, `async_job_results`, `async_job_requests` rows | Create, Get, Claim, Heartbeat, CommitSuccess, CommitFailure, Cancel, Requeue, RecoverExpiredLeases, ExpireDueResults | races decided by conditional updates and `SKIP LOCKED`; lease expiry by the database clock |
| Worker pool (`internal/async/worker.go`) | per process: goroutines, heartbeat goroutines, cancel registry, drain state | claim loop, sweep loop, run (admission, execution, commit, handoff), Stop | stale executions, cancel against commit, lost answers, drain and abort, crash |
| Background API (`internal/httpapi/async.go`) | none of its own | create, status, cancel | cancel decides in the store, then signals a local execution, settles or audits |
| Admission (`internal/httpapi/common.go`) | what a request holds: slot, token reservation, money reservation, ledger row | admit, settle, refund | four gates unwound by hand on each refusal path |
| Token quota (`internal/quota`) | Redis counters per subject and UTC day and month, finalize markers | Reserve, Settle, Release | concurrent reservations of all processes; period roll-over; lost answers |
| Money budgets and ledger (`internal/accounting`, `store/pg/ledger.go`) | Redis counters per subject and tenant, `usage_ledger` rows | Reserve, Settle, Release, price and budget lookup | two stores updated one after the other; retries; identity reuse |
| Limiter (`internal/limiter`) | Redis fixed window and lease set per subject | Allow, release | abandoned leases, lease expiry under long streams |
| Routing (`internal/gateway`, `internal/router`) | circuit breakers per route, catalog snapshot | Resolve, Complete, Embeddings, Stream | half-open probes, late results, retries before output only |
| Provider adapters (`internal/provider`) | one HTTP call | Complete, Stream, Embeddings, stall detection | silence timer racing output |
| Data lifecycle (`internal/lifecycle`, `store/pg/lifecycle.go`) | policies, archives, exports, cycle markers | sweep cycle, export, admin changes | several sweepers, failure between archive and delete |
| Admin credentials (`internal/adminauth`) | credentials, sessions, failure counters | issue, rotate, revoke, authenticate | rotation overlap, lock-out, last administrator |
| API keys (`internal/auth`) | keys with validity windows | authenticate, rotate | overlap of old and new key |
| Control plane (`internal/mgmt`, `store/pg/mgmt.go`, `admin.go`) | models, routes, prices, budgets, policies | upserts with audit | idempotency of admin operations |
| Validation, wire formats (`internal/model`, `httpapi/*wire.go`) | none | pure functions | numeric edges |
| Readiness, metrics, tracing, audit, configuration, tools | counters, process set-up | - | readiness depends on backlog of the above |
| Session journal (`.trellis/scripts/add_session.py`) | journal files, `index.md`, the git index and HEAD of each checkout | record a session, init a developer | resumed after a kill at any step; other windows, checkouts and merges |
| Task store (`task.py`, `common/task_store.py`, `task_utils.py`, `task_context.py`) | a directory with `task.json` and manifests per task, `archive/`, git | create, rename, archive, add- and remove-subtask, start, finish, set-*, add-context, list, validate | whole-file read-modify-write without a lock; commands of many writes, each of which can be the last |
| Session pointers and shell tickets (`common/active_task.py`, `inject-shell-session-context.py`) | a pointer file per window, ticket files | resolve, set, clear, repoint; write and expire a ticket | identity lost between hook and shell; fallback to the only session |
| Event hook (`hooks/linear_sync.py`) | none of its own | reads and rewrites `task.json` around a remote call | in-place write, killed at a timeout |
| Per-turn hook (`inject-workflow-state.py`) | none | tells a window its task and state | payload may be late |
| Sub-agent hook (`inject-subagent-context.py`) | the context under assembly | resolves a task, reads its files, cuts and budgets them | reads many files while commands move them; byte limits against characters |
| Session-start hook, adapters, session context, configuration | none | format text | - |

How they interact.  A synchronous request authenticates, runs `admit` (slot,
tokens, money, ledger row, in that order), calls `gateway.Service` and then
settles or refunds.  A background request runs the same `admit` as a probe,
gives everything back, and inserts a job row.  A worker of any process claims
the row under a lease, runs the same gates again, calls a second
`gateway.Service`, commits the outcome with a conditional update that the
lease guards, and then settles, audits and releases.  A sweep goroutine of each
process recovers lapsed leases and expires results.  The processes share
nothing but PostgreSQL and Redis, so every statement and every Redis script is
an atomic step, and everything between two of them interleaves.

The windows of the agent tooling share nothing but files.  A shell command of a
window learns who it is from its environment, or from a ticket that the
pre-shell hook of the window left for exactly this command.  It reads whole
files, computes, and writes whole files back; `start` and `create` point the
window at a task, `rename` and `archive` move the task and then or before that
the pointers of all windows; `archive` and `add_session.py` commit.  The hooks
of a window read the pointer and the task's files at any moment in between.

What makes each component correct.  The queue: a job is decided once, one
execution at a time, bounded attempts, usage settled exactly with its decision,
every job decided in the end.  Admission: no period oversold, counters and
ledger end up at what was used, faults err only against the caller.  Limiter:
never more leases than the limit, abandoned capacity comes back.  Routing:
retries bounded and never after output, a broken route probed by one call.
Lifecycle: nothing deleted that was not archived, nothing in flight swept.
Credentials: a revoked or expired credential never authenticates again, an
administrator always remains.  Journal: a session is recorded once however
often its command is cut off and run again, and what is acknowledged is in the
journal, the index and the commit.  Task store: parent and child agree, every
task is in one place and listed, except what two commands changed at once or
one left halfway.  Pointers: a window's command moves no other window's
pointer, and every hook tells a window of its own task.  Sub-agent hook: an
agent is given its own window's task, all of it, within the limits.

## 2. Modules

| Module | Models | Kind |
|---|---|---|
| `JobLifecycle` | what the queue promises a client, without leases, workers or clock | abstract specification |
| `AsyncJobs` | store, worker pools, sweeps, cancel handler, shutdown, crashes | detailed specification, implements `JobLifecycle` |
| `MCAsyncJobs` | concrete workers and processes for TLC | model checking |
| `AsyncJobs_proofs` | type correctness, lease identity, refinement of `JobLifecycle`, settlement after decision; under timely heartbeats: one execution, bounded attempts; without faults: nothing left reserved, settlements match audits | proofs |
| `Admission` | slot, quota, budget, ledger row of a request, and their fate | detailed specification |
| `MCAdmission` | two requests of one subject for TLC | model checking |
| `Admission_proofs` | every invariant of `Admission` | proofs |
| `Routing` | attempts of requests over the circuit breakers of a model's routes | detailed specification |
| `MCRouting` | a stream and plain requests for TLC | model checking |
| `Routing_proofs` | every invariant of `Routing` | proofs |
| `Journal` | session recording in the checkouts of a repository | detailed specification |
| `MCJournal` | three windows in two checkouts for TLC | model checking |
| `Journal_proofs` | every invariant and action property of `Journal` | proofs |
| `Sessions` | pointers, tickets and who a command or hook takes itself for | what the session layer promises |
| `Tasks` | the task store, its commands and their git steps | detailed specification, implements `Sessions` |
| `Injection` | how the context of one agent is assembled from files | detailed specification, environment left open |
| `Hooks` | `Tasks` composed with `Injection`: agents started while commands run | composition |
| `MCTasks` | two windows, three names and a menu of commands for TLC | model checking |
| `Tasks_proofs` | type correctness, isolation of pointers, refinement of `Sessions`, where tasks and pointers are, what the archive holds | proofs |
| `TaskLinks_proofs` | the links between tasks: no task drops out of the list, and the records of tasks at rest agree | proofs |
| `Injection_proofs` | what `truncate_utf8` does to every text, the budget | proofs |
| `Hooks_proofs` | the same for the composition, and whose task an agent is given | proofs |

### AsyncJobs

`row[j]` is the job's `async_jobs` row with the stored result; `ledger[j]`
counts its reserved `usage_ledger` rows and says whether one is settled;
`audits[j]` counts terminal audit records.  `wk[w]` is a worker goroutine
inside `run`: `at` names the next call it makes (`admit`, `reserved`, `exec`,
`ended`, `answered`, `audit`, `handback`), `seen` is the attempt count read at
the claim, `left` and `ctx` are the execution context (`live`, `deadline` or
`canceled`), `beat` says whether the heartbeat goroutine runs, `out`, `known`
and `dec` are the call's outcome, whether usage was reported, and the commit's
answer.  `registry[p]` is the cancel registry of a process, `proc[p]` its
life cycle under `Stop`, `sweeper[p]` the sweep goroutine (between the recovery
and the audit of what it failed), `canceller[c]` a cancel request (between its
two updates, or between the decision and its signal).  `claimant[j]` is a
history variable.

Each action is one call of the code with everything that follows it until the
next call: `Claim`, `AdmitDeny`, `AdmitRetry`, `AdmitOutage`, `AdmitReserve`
(the gates and their three kinds of refusal), `StartExec`, `Heartbeat`,
`CallReturns`, `FailAbort`, `FailRetry`, `Commit`, `HandoffWon`, `HandoffLost`,
`HandoffError`, `AuditWon`, `Requeue`, and so on; `PROJECT.json` maps each to
its lines.  Cancel runs two statements under READ COMMITTED and is two actions.
`Recover` locks rows with `SKIP LOCKED`: it may skip rows that another
statement holds.  Store failures are actions of their own (`CommitFails`,
`RequeueFails`, `ClaimUnanswered`, `HeartbeatFails`): the statement may or may
not have taken effect.  Time is a global `Tick`; leases, retry delays, result
retention and execution deadlines are countdowns, where -1 is strictly past,
because the code compares timestamps strictly.

Left out: the payloads, the request snapshot and its digest, the idempotency
key of `Create` (a constant job each), the trace context, metrics.

### Admission

`counter` holds the Redis counters that exist, keyed by scope, owner, period
kind and number; `marker` the finalize markers; `slots` the concurrency leases;
`ledger` the rows of an identity (job id, or the client's `X-Request-ID`);
`req[r]` where a request is, how its call ended, what is left to finalize and
on which day each gate charged it.  Each gate is three actions: it grants, it
refuses (`Ends` names what must then be given back), it does not answer.
`ChargeLost` is a reserve script whose answer is lost and which the Redis client
sends again: the first run stays charged and belongs to nobody.  The
call ends as `Answered`, `Failed` or `Truncated`, and the finalization is done
one call at a time (`FinishCounter`, `FinishLedger`, `FinishSlot`), each of
which may fail.  `Crash` ends a request anywhere and leaves what it holds.
`NextDay` and `Expire` are the calendar and the time to live of the counters.

Left out: the rate window and the expiry of leases (planned as `Limiter`), the
order in which period and scope are named in a refusal, price computation.

### Routing

One public model in one process.  `enabled` is its route table (routes are
numbered in priority order), `breaker[i]` the breaker of a route: its state,
the consecutive failures while closed and the cool-down left while open.
failsafe-go is outside the repository and modelled as `NewBreaker` configures
it: the half-open state has one permit, taken by the call that turns the open
breaker half-open, and an outcome goes to whatever state the breaker is in.
`req[r]` is a request inside `Complete`, `Embeddings` or `Stream`: the
candidates of its plan it has not given up (`left`), the tries left on the best
of them, the attempts made, whether its context is over, whether output was
emitted, whether its permit was a probe.  `heard[r]` is a history variable.

`Resolve` takes the plan; `Attempt` is `AdmitRoute` with the start of the call;
`Refused` is its refusal, which forfeits the remaining tries; `GiveUp` is a
back-off that the context ends; `Emit` a streamed event; `Return` the end of the
call with `Record` and the decision to retry, fail over or stop.  `ContextEnds`
is the total deadline or a client that leaves, `Tick` the cool-down's clock.  An
administrator's switch of the model changes the catalog (`Switch`) and then
replaces the table and its breakers (`SetRoutes`) or, on an error or without
bindings, leaves it (`KeepRoutes`); both interleave with calls in flight, which
keep their plan and record into the new breakers by name.

Left out: a candidate's own timeout (an eligible failure), the length of the
back-off, provider panics, a disabled breaker (threshold 0).

### Journal

`work[t]`, `head[t]` and `staged[t]` are a checkout's journal entries and
`index.md` on disk, at HEAD and in the git index; an entry carries its session
number, its marker (the fingerprint of record and context, and the generation),
its file and its place in the file; the entries of a checkout are a set, whose
order is that of file and place.  `win[w]` is the running `add_session.py` of a window: the step it
is at, the marker and number it settled on, the file and the rows it read.
`context[t]` stands for the branch and package that `main` adds to the
fingerprint.  `open`, `asked`, `lost` and `raced` are history variables: what was
asked for and not yet acknowledged, how often, which entries a retry cannot
find any more, and where two commands recorded at once.

One action per file operation or git call: `Preflight` resolves commits,
`ClassifyRecord` looks for an earlier attempt and chooses what to resume or the
number of a new session, `Rotate`, `ReadJournal`, `AppendEntry`, `ReadIndex`,
`UpdateIndex`, `Stage`, `CheckStaged`, `Commit`, `Verify`.  `Mishap` makes any of
them fail, `Kill` ends the command between any two.  `NextDay`, `ChangeContext`
and `Merge` (union for journals, either side for the index, `.gitattributes`) are
the environment.

Left out: the text of an entry and the line count behind `Cap`.  At first a
checkout has at most one entry pending under a v1 marker, and none where
`init_developer` has not run.  The properties are about checkouts in which no
two commands recorded at once (`raced`): nothing in the code keeps them apart,
and the later write drops the earlier entry.  A row may come from another
checkout, so that `RowsHaveEntries` asks for no such race in any of them.

### Sessions

`ptr[w]` is the session file of a window, `tickets` the fresh shell tickets,
`dirs` the task directories there are.  Native windows export an identity to
their shell commands; Hooked ones are given it in the payload of their hooks.
`ContextKey`, `HookKey` and `ResolveActive` are the resolution, with the ticket
that must be the only match and the fallback to the only session file.

### Tasks

`active[n]` and `archived[n]` are the records of `.trellis/tasks/<n>` and of its
archive, `Bare` for a directory whose record is missing or unreadable; `index`
and `head` are the names that have files in git, in either place.  `win[w]` is
the running command of a window: its step, the records it read, and the names
it still has to handle.  A command is one action per file it writes, and writes
what it read at its start.  `Stop` ends it between any two, `WriteFails` and the
`...Fails`, `...Blocked` and `...Torn` actions are its error paths.  `made`,
`crossed`, `broken`, `adrift` and `owed` are history variables: tasks created,
those two commands handled at once, those a command left halfway and which
command, pointers that a failed step left behind, and archive commits not made.
They are the excuses of the properties: the code has no lock and makes no
promise about two commands on one task, and one that was cut off says so.  What
counts as one task is wider for links: a link or a rename to a name in use ties
everything its command handles to the other command (`Shared`), and a task that
an interrupted rename left half handled stays so when another task is renamed to
the same name (`Stranded`).  When a hook cuts a record off, the tasks that name it
are left with a link that leads nowhere (`Namers`, `Astray`).  The first tasks are
in order: each has the name of its directory, is in the list of its parent and is
the parent of those in its own (`FirstLinks`).

`rename` reads its whole plan first (`RenamePlan`), writes record, manifest and
references, moves the directory last and then the pointers.  `archive` writes
the record, each child, the pointers, moves, stages, unstages, commits.
`HookRead` and `HookWrite` are the event hook.

Left out: package, scope and free fields of a task, the templates of its files,
and manifests that name files of several tasks.

### Injection and Hooks

`Injection` assembles one context: `todo` are the items still to be read, `used`
and `inlined` the budget, `blocks` what there is so far.  A file's content is a
sequence of byte classes (ASCII, NUL, the lead bytes of characters of two to
four bytes, continuation bytes), which is all that `truncate_utf8`, the check for
binary content and the size after decoding with replacement can tell apart.
What is read is left open: any content, or none.  `Hooks` closes it: `StartAgent`
resolves the task by `Sessions`, `ReadManifest`, `ReadItem` and `ReadArtifacts`
read from the task store as it is at that moment, between any steps of the
commands.  One hook at a time is enough, since a hook only reads.

## 3. Runs

| Run | Instance | What it shows |
|---|---|---|
| `queue_timely` | 2 workers in 2 processes, 1 job, 1 cancel, 1 fault, 1 stop; lease, timeout, backoff and retention of one tick; 2 attempts; 641,580 states | one execution at a time, no reserved residue, attempts bounded, settlement and audit together, cancelled jobs audited; `JobLifecycle` is implemented |
| `queue_late` | the same without cancel, fault and stop, but leases lapse under live executions; 1,448,706 states | the lease names one execution; usage is settled only after the decision |
| `queue_live` | 2 goroutines of 1 process, 1 fault, 1 stop, restart; weak fairness | every queued job is decided; `Stop` returns |
| `queue_cancel_after_output` | violation | see finding 1 |
| `queue_shared_identity` | violation | see finding 2 |
| `queue_cancel_noop` | violation | see finding 3 |
| `admission_gates` | 2 requests of 1 subject and tenant under 1 reused identity, 3 days, months of 2 days, 1 fault; 392,782 states | no counter oversold, counters, ledger rows and slots match the outcomes, faults never refund |
| `admission_truncated` | 2 requests, no fault | see finding 4 |
| `routing_failover` | 1 stream, 1 plain request, 2 routes, threshold 2, cool-down 1, 2 and 1 retries, 1 switch; weak fairness; 179,022 states | no probe orphaned, one voice, attempts within the plan, no early failure; requests and probes end |
| `routing_probe` | 3 requests, 1 retry, no switch | see finding 5 |
| `journal_record` | 3 windows in 2 checkouts, 2 records (one keyed, one pending under a v1 marker), 3 commands, 1 kill or failure, 1 merge, 1 change of day or context, 2 entries per file | a re-run never adds a second session, keyed records have one entry, numbers increase, every row has its entry, journals only grow, exit status 0 means recorded |
| `tasks_windows` | 2 windows (one exports its identity, one has hooks only), 3 names, parent and child at first, any 3 commands or agents of a menu of 22, 1 kill or failure; 847,050 states | links, names, places and pointers stay consistent, every task is listed, no half archive in a commit, contexts keep their limits and are the window's own, pointers isolated; `Sessions` is implemented |

Bounds and why they are enough.  One job: the only cross-job coupling is the
batch of a sweep and the choice of a claim; two workers, one canceller and two
sweepers already put every pair of actors on one row, which is where all
interleavings of this code are decided.  One tick for each duration makes every
order of expiries reachable, since each countdown can end before, with or after
any call.  Two attempts give one retry and one exhaustion.  One fault lets any
single call fail at any point; `AttemptCap` = 3 bounds the attempts that the
skipped-lock requeue may reach without a fault.  For admission two requests are
what an oversell or a cross-release needs; limits of 3 against estimates of 2
let one request through per day and two per month, so both periods and both
gates refuse; usage of 1 and 3 lies below and above the estimate; three days
with a grace of one let the first day's counters expire under a running request.
For routing two requests put a late outcome beside a probe, two routes
distinguish retry from failover, a threshold of two separates a failure that
counts from one that opens, and two retries let a refusal fall between tries.

For the journal, two windows in one checkout and a third in another are what a
swept commit, a race and a merge need; three commands let one be cut off, run
again, and meet another; files of two entries rotate within them.  For the task
store, three names are what a rename beside a parent and a child needs; three
commands let one be cut off, one interfere and one run again, and one failure
lets each be cut off at each step.  Simulation of the same model with six
commands, about seven million states each, found no violation; the proofs about
the links did find runs beyond this menu and these bounds that violated
`TasksListed` and `ReferencesAgree`.  In each the history variables had forgotten
an interference, and they remember it now: a record that a hook cuts off takes
with it the end of every link to it, also where a rename then carries the remains
to a new name (`Astray`).  One was the program's own: `rename` looks for references in every task but the one
it renames (`_plan_backrefs`, task_store.py:827), although it is documented to
rename "a task and every reference to it" (:1004).  A task that is its own parent,
as `add-subtask` allows, keeps its old name as its parent, in no list; the model
marks it as taken from its parent (`RenameMove`).  The files of
`MCTasks` are a few bytes long against caps of 3 and 4 bytes and a total of 10:
one is cut behind a lead byte, one in front of a character that does not fit, one
is replaced by a notice, one is binary, one is beyond the file limit of its
folder.

Deadlock checking is off where the system may stop: all requests of `Admission`
are done and the calendar has ended; all requests of `Routing` are done and
every cool-down has run out; the commands of `Journal` and `Tasks` are used up.
`AsyncJobs` is checked for deadlock.  No fairness is assumed of the agent
tooling: a command that was cut off need not be run again, and the properties
of both modules are safety.

Fairness.  Only weak fairness is used: of every goroutine's own next step (the
Go scheduler), of time, of the heartbeat ticker, of the drain timer, and of
`Restart`, which `docker-compose.yml:125` (`restart: unless-stopped`) justifies.
Nothing is assumed of a provider: a call is certain to return only after its
context has ended, which the HTTP client guarantees.  In `Routing` the context
itself ends because of the total deadlines (`RequestTimeout`, 60 s and not
configurable, and `GATEWAY_STREAM_TOTAL_TIMEOUT`, 10 min by
default); a deployment that sets the
latter to 0 loses `RequestsEnd` and `ProbesResolve` for streams.  No fairness is given to
faults, cancels, creation or the store's choice of rows in a skipped lock.

`TimelyHeartbeats` is the assumption that the store answers a heartbeat within
a lease.  It is a CONSTANT: the runs and theorems that need it say so, and
without it `AtMostOneExecution`, `NoResidue` and `AttemptsBounded` are false:
a lapsed lease lets a second execution start, and its late sibling leaves its
reserved row, or hands the job back once more, after the sweep counted.

## 4. Proofs

The proofs about the queue are for any number of jobs, workers, cancel requests
and processes, those about routing for any number of requests and routes, and
for any values of the time and attempt constants, from the named assumptions on
the constants.

* `TypeCorrect`: `Spec => []TypeOK`, by one step per action; the record
  operators (`Claimed`, `Requeued`, ...) are kept opaque and typed by lemmas.
* `LeaseCorrect`: `LeaseNamesOneExecution` is inductive only together with
  `TypeOK`; it needs every worker to have an identity of its own
  (`MCTogether`, two goroutines of a process, falsifies it).
* `Implements`: `Spec => LifecycleSpec`.  The inductive invariant `IInv` says
  that the stored result matches the status, that only running rows have an
  owner, that a worker about to audit has won its commit, and that the audit
  count plus the audits still owed (workers, sweepers and cancellers between
  decision and audit) is at most one, and none before the decision.  The last
  part is why it is needed: an audit is written some steps after the decision,
  by whoever decided, and nothing in the row says who owes it.
* `SettlementCorrect`: `SettledOnlyIfDecided`, from the same invariant.
* `OneExecution` and `AttemptsCorrect`: under `TimelyHeartbeats`, with `LeaseInv`:
  every worker that holds a job holds its unexpired lease or has left it, one
  worker at most holds a job, and a worker that will count an attempt has one
  to count.  They cover goroutines that share an identity.
* `NothingLeftReserved` and `BooksClosed`: `NoResidue` and `OutcomesAudited`, under
  `TimelyHeartbeats` and while no fault has occurred.  What a job's ledger row and
  audit count should be depends on how far its execution got, so `CalmInv` says it
  for each stage: one reserved row while the holder owes a settlement or a release
  and none otherwise, nothing settled before the handoff, a completed job either
  still in its winner's hands or with settlement and audit agreeing, a cancelled
  job audited or still in its canceller's hands.  It needs `LeaseInv` (a second
  holder would owe a second row) and `IInv` (a second writer would audit again).
  The steps are first grouped by what they do to executions and ledger (`Rests`,
  `Walks`), and the invariant is proved over the groups.  With a fault both can
  fail: a release or a settlement that does not reach the store leaves its row
  reserved.

* `Admission_proofs`: for any number of requests, subjects, tenants and
  identities, any limits and estimates, and any number of days and faults.  None
  of the counters' properties is inductive: what a counter holds depends on what
  each request did days before.  `IInv` therefore gives every request a share of
  each counter it was charged against (its estimate until it is finalized, then
  its usage or nothing, read off its marker and its outcome) and says that a
  counter is at least the total of the shares, equal to it without faults, and
  within its limit plus the overruns; that what is left to finalize is the end of
  the list its outcome gave it; and that a counter somebody holds a charge on
  exists until its time to live has passed.  `Total` counts amounts unit by
  unit, so that sums follow from the library's facts about cardinality.  A step
  of a request moves its own share only (`ChargeStep`, `AdjustStep`, `StillTallied`),
  and `AdmissionTypeCorrect`, `NeverOversoldHolds`, `FaultsNeverRefundHolds` and
  `CountersMatch` read their property off the invariant.  `SlotsFollow` and
  `ReservedRows` are about faultless runs only and use a summary of what a step
  does then (`StepMoves`); the rows of an identity are counted as the requests
  whose row is open plus the answers after the first.

* `Routing_proofs`: `TypeCorrect` carries that a request that goes on has a
  candidate (the best of a non-empty plan is one of it, by the well-ordering of
  the naturals).  `ProbeNeverOrphaned` splits a step in two lemmas: a probe in
  flight stays one until its own request returns (`ProbeStays`), and a breaker
  is half-open after a step only if it was and no call on its route returned,
  or because a probe was just admitted (`HalfOpens`).  `OneVoiceHolds` needs
  `VoiceInv`: what was heard comes from the latest attempt, and a request that
  heard something does not go on to another.  `AttemptsBounded` and
  `NoEarlyFailureHolds` need `WithinInv`: the attempts made plus those still
  possible (tries left, one per further candidate) stay within the plan, so the
  bound survives a refusal that forfeits tries.

* `Journal_proofs`: for any number of checkouts, windows and records, any set of
  keyed ones, any file capacity and any bounds; assumed is only that checkouts
  and windows are finitely many.  No property is inductive: whether a number or a
  marker is new depends on what the branches of *other* checkouts hold, and
  whether a retry finds its entry on what other windows committed.  `IInv` speaks
  of calm checkouts.  `Journals` relates them: HEAD is part of the journal and
  everything merged is in it (`Kept`); the first generation of a record is there
  once, each later one only when those before it are committed, none for a keyed
  record (`Generations`); what a checkout has of another one is a copy of a
  committed entry there (`Copies`), in the order of its numbers (`Ordered`) and
  with everything older (`Prefixes`).  `Prefixes` is why a merge keeps the order:
  what it appends is newer than what was there.  `FilesOK` makes rotation open an
  unused file; `IndexOK` says that a pending entry shares its number with no
  other entry and no row of another record, so that a row found by its number
  is its own; `AtWork` is what a running command relies on between its reads and
  its writes.  A step appends one entry, commits, merges, or leaves the entries
  of calm checkouts alone (`Effects`), and each part is proved over these
  four.  `NumbersGrow` and `KeysHold` are read off; `NothingErased` counts entries
  by their markers; `ReportsHold` needs that a command's session is in a file that
  its commit takes (`Held`); `RowsHold` carries the rows' entries along.
  `RetriesHold` needs `Budget`, an account of entries against requests and losses:
  every command that may still append has its entry paid for, except that one
  more may run while an entry waits to be resumed and nobody works on it; and an
  open request has an entry to resume, a command about to report it, or room for
  one more.

* `Tasks_proofs`: for any number of windows and names, any menu of well-formed
  commands and any bounds.  The inductive invariant says, for each step a command
  can be at, which records it must have read (`WindowOK`): a command writes back
  what it read some steps before, so that the type of what it writes is a fact
  about its past, not about the store.  `IsolationHolds` follows each change of a
  pointer to the one command that made it; `KeyIs` is its core: a ticket that
  matches alone is the window's own if the window has one.  `ImplementsSessions`
  maps each step to one of `Sessions`, or to one that changes only directories.
  `PointersHold` needs `PtrInv`: a pointer that is not adrift has a directory,
  or a rename that has moved it and not yet got to the pointers.

  `ArchivesWhole` and `TasksKeptHolds` say what survives an interference, so
  their invariants are about what has *not* been crossed: `Free` are the ids
  nothing is promised about.  `Whereabouts` follows creations: a command is on
  its course (`Flows`); a task two commands handle is crossed, what a window has
  read is still there and nothing else in its place, no task is twice or lost
  (`IdsOK`); HEAD has an archived task among the active ones only while its
  commit is owed (`GitIds`).  Each step is shown to be tame (it changes the id at
  a name only where that is excused) or to be one of the three that take a record
  somewhere, `CreateRecord`, `RenameMove` and `ArchiveMove`.  `Upkeep` adds the
  contents: what an archive has completed stays so until it is moved and
  committed (`ShelfOK`), the entries of a task lie in its directory unless a
  rename of it is under way or was cut off (`EntriesOK`), and only the same
  rename touches a task that one has left half done (`MarksOK`).  They rest on
  the assumptions `FirstIds` and `FirstEntries`: the store that TLC and the
  proofs start from numbers its tasks and is in order.
* `TaskLinks_proofs`: `ListingHolds`, under the same assumptions and `FirstLinks`.
  `TasksListed` is about paths of any length through the parents of tasks, and a
  step of a command changes one record; the invariant `LinksInv` is therefore
  about one link.  `Matched` says that a task is in its parent's list, unless an
  unlink is between its two writes or a rename of either is under way.  A rename
  makes it hard to keep: between its writes a parent lists the new name of a task
  that still has the old one (`ListedAnew`), a child names a parent that is not
  there yet (`NamesAnew`), and an attempt that was cut off leaves this behind for
  the next one.  So the invariant also says what a command is about to write
  back: it has the links the record has now (`LinksRead`); a rename has planned
  every task that names the old name (`Covered`) and what names the new one is in
  the list that will be its own (`Inherits`); no other command creates a task, or
  moves one, under a name that is awaited (`Awaited`, `Retried`).  `Tied` carries
  what two commands share, `ParentFirst` and `ParentThere` the order of a link's
  two writes.  `LinksGoOn` and `LinksEnter` keep it, one lemma per kind of step.
  `LinksShow` then goes up: what is listed and the lineage of a task are what
  grows from a set in as many steps as there are names, after which nothing is
  new (`Grown`, by the pigeonhole principle; `UpTo` is the induction it needs).
  If nothing excuses an unlisted task then its parent is active, lists it, and so
  is not listed either; of its lineage the member with the smallest lineage has a
  parent with the same one, which is a circle.

  `ReferencesHold` is about both directions.  That a child is in its parent's list
  is `Matched` read at rest; that what is listed names its parent is `Owned`: a
  task in a list names its lister unless a link is between its two writes
  (`Linking`), a rename of either is under way (`NamesAnew`, `ParentAnew`), or an
  archive is unlinking it or was cut off at it (`Shelving`).  For each of these
  `RefsInv` says how it ends.  A rename gives its new name only to the list of the
  task's own parent (`KidsInherit`); a link finds a child that is there and has no
  parent yet, and an unlink takes the child out of the list first (`LinkSteps`);
  an archive has planned every task that names the one it archives (`ArchCovered`),
  so that nobody names it when it is moved (`ParentsThere`); a listed task that is
  nowhere is awaited from a rename (`KidsAwaited`); and a name in a record that is
  not that of its directory is the new one of a rename under way (`NamesInv`).  A
  step is one of `Continue`, with one lemma per kind of step and part, or changes
  no record (`Outside`: a command is called, a ticket expires, an agent reads).
* `Injection_proofs`: `TruncateWhole` and `TruncateSplits` together say what
  `truncate_utf8` does to every text at every cap.  They rest on `LastStartIs`
  (there is a last character start, by well-founded induction on the distance)
  and on how a prefix cuts characters.  `BudgetKept` and `CutsCorrect` follow for
  the whole hook, with its environment left open.
* `Hooks_proofs`: the composition.  Each step of the hook is shown to be a step
  of `Injection` whatever the commands did to the files, so that the theorems
  about it carry over (`LimitsHold`), and the commands' steps keep the invariant
  of the store.  `OwnTaskHolds` is about the moment an agent starts.
  `TasksHandedOver` adds that the agent is told of every item of its task: what
  is accounted for so far and what is still to be read make up what is due
  (`Progress`), which a hook's step keeps, and so does every command that leaves
  the task and its manifest as the hook saw them (`SameView`); any other sets
  `raced`.  It rests on `Listings`: `_materialize_directory` lists the files of
  a folder, sorted, each once, and the artifacts are different files.  That no
  item is told twice needs `NamedOnce`: `add-context` refuses an item that the
  manifest has (task_context.py:103), but not a file of a folder that it has.
  `HooksIsolated`, `HooksTypeCorrect`, `HooksImplementSessions`,
  `HooksPointersHold`, `HooksArchivesWhole`, `HooksTasksKept`, `HooksTasksListed`
  and `HooksReferencesAgree` show that agents disturb nothing of what is proved
  about `Tasks`.

Only model-checked: the liveness properties and everything under fairness
(TLAPS does not prove ENABLED).

## 5. Findings

1. *Code.* A cancel that wins after the provider reported usage should be
   settled by the losing worker.  When the cancel handler's signal reaches the
   execution context before the commit, the commit fails with a context error
   instead of losing, and the usage is released (`queue_cancel_after_output`).
2. *Documentation.* `ErrLeaseLost` is promised when the lease changes hands; all
   goroutines of a process share one lease identity, so a stale execution
   extends its sibling's lease (`queue_shared_identity`).
3. *Documentation.* `CancelNoop` is documented to mean "already terminal"; a job
   handed back between Cancel's two statements gets it while queued
   (`queue_cancel_noop`).
4. *Documentation.* Reserved ledger rows are documented as in-flight or failed
   work; a stream that fails after output leaves one for good
   (`admission_truncated`).
5. *Documentation.* A half-open breaker is documented to be decided by its
   probe; the outcome of a slow call admitted before the breaker opened decides
   it as well, while the probe is in flight (`routing_probe`).

Met while modelling and not kept as runs: with a lost commit answer a decided
job is neither settled nor audited, although README.md:660 promises one audit
record per job; a result's expiry is not reset by the retention of its row; an
execution that ends by its own deadline during a drain is handed back without
counting an attempt; a local abort reaches only the execution that registered
last; `attempts()` (common.go:231) is documented as candidates plus retries on
the primary and returns the number of candidates.

In the agent tooling: `truncate_utf8` is documented to cut "without splitting a
UTF-8 multi-byte sequence" and keeps a lone lead byte whenever a character of
several bytes ends exactly at the cap (`TruncateSplits`); notices are added
without regard to the total, which the content alone respects; a record that
another window's commit took along is recorded a second time by its own retry,
although the checkpoint says it will not be; `remove-subtask` clears the parent
of a task that is a child of another one; `add-subtask` lets a task be its own
parent; `list --status` hides a matching child under a parent that does not
match; `finish` in a window without a task deletes the only pointer there is; an
archived task that was never committed stays staged, and a rename planned before
its new name was created, committed and archived lets a later record commit the
name in both places.

## 6. Plan

1. Done: the queue (`JobLifecycle`, `AsyncJobs`), `Admission` and `Routing` with
   their proofs; the agent tooling: `Journal`, and `Sessions`,
   `Tasks`, `Injection` and `Hooks` with their proofs.
2. Done: the proofs about `Admission`, and the bookkeeping of the queue
   (`NoResidue`, `OutcomesAudited`).
3. `Retention`: sweep cycles of several processes, archive before delete,
   exports, policy changes.
4. `Credentials`: administrator credentials, sessions, API keys and rotation.
5. `Limiter`: fixed window, lease set, expiry.

Not modelled and why.  `Retention`, `Credentials` and `Limiter` are within reach
and come next; the agent tooling went first, because its commands share more
state with less protection.  Price computation and budget folding are pure
functions that unit tests cover.  Provider adapters, wire formats and validation
are data conversions whose outcome is a nondeterministic choice of the models;
the in-memory stores have the contracts of the shared ones under one mutex; the
control plane is single transactions with their audit row; configuration,
metrics and tracing carry no protocol.  Of the agent tooling, the session-start
hook, the platform adapters and the session context only read files and format
text.
