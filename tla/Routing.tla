------------------------------ MODULE Routing ------------------------------
(***************************************************************************)
(* Routing of one public model inside a gateway process: the route table   *)
(* with its circuit breakers (internal/router) and the attempts of         *)
(* concurrent requests over it (Complete, Embeddings and Stream of         *)
(* internal/gateway/service.go).  A request asks for a permit immediately  *)
(* before each provider call and records the outcome immediately after, so *)
(* other requests, cool-downs and an administrator's switch of the model   *)
(* come in between.  The breaker itself is failsafe-go's, modelled as      *)
(* NewBreaker configures it; its probe permit belongs to the half-open     *)
(* state, and an outcome is applied to whatever state the breaker is in.   *)
(***************************************************************************)
EXTENDS Integers, FiniteSets

CONSTANTS
    Requests,
    Streams,            \* the requests served by Stream
    NumRoutes,          \* routes 1..NumRoutes, in priority order
    Threshold,          \* consecutive failures that open a breaker
    CoolDown,           \* in ticks
    MaxRetries,         \* Service.MaxRetries
    StreamMaxRetries,   \* Service.StreamMaxRetries
    MaxSwitches         \* bound: switches of the model by an administrator

Routes == 1 .. NumRoutes

ASSUME RequestAssumption == Streams \subseteq Requests
ASSUME RouteAssumption ==
    /\ NumRoutes \in Nat \ {0}
    /\ Threshold \in Nat \ {0}
    /\ CoolDown \in Nat
    /\ MaxRetries \in Nat
    /\ StreamMaxRetries \in Nat
    /\ MaxSwitches \in Nat

VARIABLES
    listed,     \* the catalog lists the model
    enabled,    \* the routes enabled in the table
    breaker,    \* the circuit breaker of each route
    req,        \* what each request is doing
    heard,      \* history: the attempts whose output reached the client
    loading,    \* the switches that have not loaded the table yet
    switches    \* switches so far

model == <<listed, enabled, loading, switches>>
vars == <<listed, enabled, loading, switches, breaker, req, heard>>

(* A breaker: its state, the consecutive failures while closed and what is *)
(* left of the cool-down while open.                                       *)
Breaker == [state : {"closed", "open", "half"}, fails : 0 .. Threshold,
            wait : 0 .. CoolDown]

Closed(n) == [state |-> "closed", fails |-> n, wait |-> 0]
Opened    == [state |-> "open", fails |-> 0, wait |-> CoolDown]
Half      == [state |-> "half", fails |-> 0, wait |-> 0]

(* A request: where it is, the candidates it has not given up yet (it is   *)
(* at the best of them), the tries left there, the attempts made, whether  *)
(* its context is over, whether output reached the client, whether its     *)
(* permit was a half-open probe, and how it ended.                         *)
Result  == {"none", "ok", "eligible", "fatal", "canceled"}
Request == [at : {"new", "next", "calling", "done"}, left : SUBSET Routes,
            tries : Nat, attempts : Nat, over : BOOLEAN, output : BOOLEAN,
            probe : BOOLEAN, out : Result]

New == [at |-> "new", left |-> {}, tries |-> 0, attempts |-> 0,
        over |-> FALSE, output |-> FALSE, probe |-> FALSE, out |-> "none"]

Init ==
    /\ listed = TRUE
    /\ enabled = Routes
    /\ loading = 0
    /\ switches = 0
    /\ breaker = [i \in Routes |-> Closed(0)]
    /\ req = [r \in Requests |-> New]
    /\ heard = [r \in Requests |-> {}]

Best(routes) == CHOOSE i \in routes : \A j \in routes : i <= j

Candidate(r) == Best(req[r].left)

Tries(r) == 1 + (IF r \in Streams THEN StreamMaxRetries ELSE MaxRetries)

-----------------------------------------------------------------------------
(* The breaker.                                                            *)

Grants(b) == b.state = "closed" \/ (b.state = "open" /\ b.wait = 0)

Granted(b) == IF b.state = "open" THEN Half ELSE b

Recorded(b, ok) ==
    IF b.state = "open" THEN b
    ELSE IF ok THEN Closed(0)
    ELSE IF b.state = "closed" /\ b.fails + 1 < Threshold
         THEN Closed(b.fails + 1) ELSE Opened

-----------------------------------------------------------------------------
(* What becomes of a request.                                              *)

Planned(q, plan, tries) ==
    [q EXCEPT !.at = IF plan = {} THEN "done" ELSE "next",
              !.left = plan, !.tries = tries]

Called(q, probe) ==
    [q EXCEPT !.at = "calling", !.attempts = @ + 1, !.probe = probe]

Stopped(q, out) == [q EXCEPT !.at = "done", !.probe = FALSE, !.out = out]

Retried(q, out) ==
    [q EXCEPT !.at = "next", !.tries = @ - 1, !.probe = FALSE, !.out = out]

(* The next candidate, or the end of the plan with the last error.         *)
FailedOver(q, out) ==
    LET left == q.left \ {Best(q.left)}
    IN  [q EXCEPT !.at = IF left = {} THEN "done" ELSE "next",
                  !.left = left, !.tries = 1, !.probe = FALSE, !.out = out]

(* Mutations: another try on the primary although output was sent; an off- *)
(* by-one in the tries.                                                    *)
FailedAfterOutput(q, out) ==
    IF q.over \/ out = "fatal"
    THEN Stopped(q, IF q.over THEN "canceled" ELSE out)
    ELSE IF q.tries > 1 THEN Retried(q, out) ELSE FailedOver(q, out)

FailedOnceMore(q, out) ==
    IF q.over \/ q.output \/ out = "fatal"
    THEN Stopped(q, IF q.over THEN "canceled" ELSE out)
    ELSE IF q.tries > 0 THEN Retried(q, out) ELSE FailedOver(q, out)

(* A failed attempt: no more attempts once the context is over, output was *)
(* sent or the class is not retryable.                                     *)
Failed(q, out) ==
    IF q.over \/ q.output \/ out = "fatal"
    THEN Stopped(q, IF q.over THEN "canceled" ELSE out)
    ELSE IF q.tries > 1 THEN Retried(q, out) ELSE FailedOver(q, out)

Returned(q, out) == IF out = "ok" THEN Stopped(q, out) ELSE Failed(q, out)

Expired(q) == [q EXCEPT !.over = TRUE]

Emitted(q) == [q EXCEPT !.output = TRUE]

-----------------------------------------------------------------------------
(* Attempts.                                                               *)

(* Service.Resolve: the plan is the enabled routes of this moment.         *)
Resolve(r) ==
    /\ req[r].at = "new"
    /\ req' = [req EXCEPT ![r] =
                 Planned(@, IF listed THEN enabled ELSE {}, Tries(r))]
    /\ UNCHANGED <<model, breaker, heard>>

Admits(i) == i \in enabled /\ Grants(breaker[i])

(* AdmitRoute grants a permit and the provider is called.                  *)
Attempt(r) ==
    LET i == Candidate(r)
    IN  /\ req[r].at = "next"
        /\ Admits(i)
        /\ breaker' = [breaker EXCEPT ![i] = Granted(@)]
        /\ req' = [req EXCEPT ![r] = Called(@, breaker[i].state = "open")]
        /\ UNCHANGED <<model, heard>>

(* Mutation: a refusal ends the request. *)
RefusedGivesUp(r) ==
    /\ req[r].at = "next"
    /\ ~Admits(Candidate(r))
    /\ req' = [req EXCEPT ![r] = Stopped(@, @.out)]
    /\ UNCHANGED <<model, breaker, heard>>

(* No permit: the rest of the tries on this route is forfeited.            *)
Refused(r) ==
    /\ req[r].at = "next"
    /\ ~Admits(Candidate(r))
    /\ req' = [req EXCEPT ![r] = FailedOver(@, @.out)]
    /\ UNCHANGED <<model, breaker, heard>>

(* waitBackoff ends with the request's context.                            *)
GiveUp(r) ==
    /\ req[r].at = "next"
    /\ req[r].attempts > 0
    /\ req[r].over
    /\ req' = [req EXCEPT ![r] = Stopped(@, "canceled")]
    /\ UNCHANGED <<model, breaker, heard>>

(* A streamed event reaches the client.                                    *)
Emit(r) ==
    /\ r \in Streams
    /\ req[r].at = "calling"
    /\ req' = [req EXCEPT ![r] = Emitted(@)]
    /\ heard' = [heard EXCEPT ![r] = @ \cup {req[r].attempts}]
    /\ UNCHANGED <<model, breaker>>

(* Mutation: an attempt whose context is over is not recorded. *)
RecordUnlessOver(r, ok) ==
    breaker' = [breaker EXCEPT ![Candidate(r)] =
                  IF req[r].over THEN @ ELSE Recorded(@, ok)]

(* Routes.Record finds the route by its name, in the table of this moment. *)
Record(r, ok) ==
    breaker' = [breaker EXCEPT ![Candidate(r)] = Recorded(@, ok)]

Return(r, out) ==
    /\ req[r].at = "calling"
    /\ Record(r, out = "ok")
    /\ req' = [req EXCEPT ![r] = Returned(@, out)]
    /\ UNCHANGED <<model, heard>>

-----------------------------------------------------------------------------
(* The environment.                                                        *)

(* Mutation: no total deadline for streams. *)
ContextEndsUnlessStream(r) ==
    /\ r \notin Streams
    /\ req[r].at \in {"next", "calling"}
    /\ ~req[r].over
    /\ req' = [req EXCEPT ![r] = Expired(@)]
    /\ UNCHANGED <<model, breaker, heard>>

(* The total deadline passes, or the client goes away.                     *)
ContextEnds(r) ==
    /\ req[r].at \in {"next", "calling"}
    /\ ~req[r].over
    /\ req' = [req EXCEPT ![r] = Expired(@)]
    /\ UNCHANGED <<model, breaker, heard>>

Tick ==
    /\ \E i \in Routes : breaker[i].wait > 0
    /\ breaker' = [i \in Routes |->
         [breaker[i] EXCEPT !.wait = IF @ > 0 THEN @ - 1 ELSE 0]]
    /\ UNCHANGED <<model, req, heard>>

(* An administrator switches the model: the catalog first, ...             *)
Switch ==
    /\ switches < MaxSwitches
    /\ listed' \in BOOLEAN
    /\ loading' = loading + 1
    /\ switches' = switches + 1
    /\ UNCHANGED <<enabled, breaker, req, heard>>

(* ... then the table, rebuilt from the persisted rows with new breakers,  *)
SetRoutes ==
    /\ loading > 0
    /\ enabled' \in SUBSET Routes
    /\ breaker' = [i \in Routes |-> Closed(0)]
    /\ loading' = loading - 1
    /\ UNCHANGED <<listed, switches, req, heard>>

(* ... or left alone: the rows cannot be read, or there are none.          *)
KeepRoutes ==
    /\ loading > 0
    /\ loading' = loading - 1
    /\ UNCHANGED <<listed, enabled, switches, breaker, req, heard>>

-----------------------------------------------------------------------------
Chooses(r) == Attempt(r) \/ Refused(r) \/ GiveUp(r)

Outcomes == {"ok", "eligible", "fatal"}

Returns(r) == \E out \in Outcomes : Return(r, out)

Next ==
    \/ \E r \in Requests :
          \/ Resolve(r) \/ Chooses(r) \/ Emit(r) \/ Returns(r)
          \/ ContextEnds(r)
    \/ Tick
    \/ Switch \/ SetRoutes \/ KeepRoutes

Spec == Init /\ [][Next]_vars

(* A handler goroutine goes on, the total deadline passes, and a provider  *)
(* call returns once its context is over.                                  *)
Fairness ==
    \A r \in Requests :
        /\ WF_vars(Chooses(r))
        /\ WF_vars(ContextEnds(r))
        /\ WF_vars(req[r].over /\ Returns(r))

FairSpec == Spec /\ Fairness

-----------------------------------------------------------------------------
(* Properties.                                                             *)

(* Every variable holds a value of its kind, and a request that goes on    *)
(* has a candidate to go on with.                                          *)
TypeOK ==
    /\ listed \in BOOLEAN
    /\ enabled \subseteq Routes
    /\ loading \in Nat
    /\ switches \in 0 .. MaxSwitches
    /\ breaker \in [Routes -> Breaker]
    /\ req \in [Requests -> Request]
    /\ \A r \in Requests : req[r].at \in {"next", "calling"} =>
                              req[r].left # {} /\ req[r].tries > 0
    /\ heard \in [Requests -> SUBSET Nat]

(* routes.go:64: a half-open probe is never orphaned: the probe that holds *)
(* a half-open breaker's only permit is a call in flight that will record  *)
(* its outcome, through cancels, late outcomes and new route tables.       *)
ProbeInFlight ==
    \A i \in Routes :
        breaker[i].state = "half" =>
            \E r \in Requests : /\ req[r].at = "calling"
                                /\ req[r].probe
                                /\ Candidate(r) = i

(* service.go:361: a client never sees the output of two attempts.         *)
OneVoice == \A r \in Requests : Cardinality(heard[r]) <= 1

(* Retries on the primary and one try on each other route bound the        *)
(* attempts, whatever is refused on the way.                               *)
AttemptsWithinPlan ==
    \A r \in Requests : req[r].attempts <= Tries(r) + NumRoutes - 1

(* A request gives up while its context lasts only when it may not retry   *)
(* (output, a fatal class) or every candidate was tried or refused.        *)
NoEarlyFailure ==
    \A r \in Requests :
        req[r].at = "done" /\ req[r].out \in {"none", "eligible"} =>
            req[r].left = {} \/ req[r].output

(* Every resolved request ends.                                            *)
RequestsEnd ==
    \A r \in Requests : req[r].at = "next" ~> req[r].at = "done"

(* A half-open breaker always closes or opens again.                       *)
ProbesResolve ==
    \A i \in Routes : breaker[i].state = "half" ~> breaker[i].state # "half"

-----------------------------------------------------------------------------
(* breaker.go:55: in the half-open state a successful probe closes the     *)
(* breaker and a failed probe opens it again; nothing else ends that state *)
(* (but a new table, which replaces the breaker).                          *)
ProbeDecides ==
    [][\A i \in Routes :
          breaker[i].state = "half" /\ breaker'[i].state # "half"
            /\ loading' = loading =>
              \E r \in Requests : /\ req[r].at = "calling"
                                  /\ req'[r].at # "calling"
                                  /\ req[r].probe
                                  /\ Candidate(r) = i]_vars

=============================================================================
