----------------------------- MODULE Admission -----------------------------
(***************************************************************************)
(* What one admitted request holds and what becomes of it: the concurrency *)
(* slot (internal/limiter/redis.go), the token counters                    *)
(* (internal/quota/redis.go), the money counters                           *)
(* (internal/accounting/redis.go) and the usage_ledger row                 *)
(* (internal/store/pg/ledger.go), taken in that order by admit             *)
(* (internal/httpapi/common.go) and by the worker's run, unwound on a      *)
(* refusal and settled or refunded after the provider call.  Every Redis   *)
(* script and every SQL statement is one step, so the requests of all      *)
(* gateway processes interleave between any two of them.  A request of     *)
(* this module is one synchronous request or one worker execution.         *)
(***************************************************************************)
EXTENDS Integers, Sequences, FiniteSets

CONSTANTS
    Requests,
    Subjects,
    Tenants,
    SubjectOf,      \* the subject of each request
    TenantOf,       \* the tenant of each subject
    Identities,
    IdentityOf,     \* X-Request-ID or job id of each request: may repeat
    Tries,          \* settlement attempts: 2 in settleObserved, else 1
    MaxConc,        \* concurrency limit of a subject
    Limit,          \* limit of each scope and period kind, 0 for uncapped
    Estimate,       \* what a request reserves, per gate
    Actual,         \* what a call may turn out to use
    DaysPerMonth,
    Grace,          \* keyGrace, in days
    MaxDay,         \* bound: the last day
    MaxFaults,      \* bound: failed or unanswered calls, crashes
    None

Gates  == {"quota", "budget"}
Kinds  == {"day", "month"}
Scopes == {"tokens", "subject", "tenant"}

ScopesOf(g) == IF g = "quota" THEN {"tokens"} ELSE {"subject", "tenant"}

ASSUME RequestAssumption ==
    /\ SubjectOf \in [Requests -> Subjects]
    /\ TenantOf \in [Subjects -> Tenants]
    /\ IdentityOf \in [Requests -> Identities]
    /\ Tries \in [Requests -> 1 .. 2]
    /\ IsFiniteSet(Requests)
ASSUME LimitAssumption ==
    /\ MaxConc \in Nat \ {0}
    /\ Limit \in [Scopes -> [Kinds -> Nat]]
    /\ Estimate \in [Gates -> Nat \ {0}]
    /\ Actual \subseteq Nat
    /\ None \notin Nat
ASSUME CalendarAssumption ==
    /\ DaysPerMonth \in Nat \ {0}
    /\ Grace \in Nat
    /\ MaxDay \in Nat
    /\ MaxFaults \in Nat

VARIABLES
    counter,    \* the Redis counters that exist: key -> amount
    marker,     \* finalize markers: <<gate, request>>
    slots,      \* concurrency leases held, by request
    ledger,     \* usage_ledger rows of an identity
    req,        \* what each request is doing
    day,        \* the current UTC day
    faults      \* faults so far

vars == <<counter, marker, slots, ledger, req, day, faults>>

(* A counter key: scope, its owner, period kind and period number.         *)
Key == Scopes \X (Subjects \cup Tenants) \X Kinds \X (0 .. MaxDay)

At   == {"new", "limited", "metered", "charged", "running", "finishing",
         "done"}
Out  == {"none", "refused", "failed", "truncated", "answered"}
Work == {"quota", "budget", "ledger", "slot"}

(* A request: where it is, how its call ended, what is left to finalize,   *)
(* the day each gate charged it on, what it used in each gate's unit (None *)
(* when unknown) and the settlement attempts left.                         *)
Fresh(r) == [at |-> "new", out |-> "none", todo |-> <<>>,
             day |-> [g \in Gates |-> 0], used |-> [g \in Gates |-> None],
             tries |-> Tries[r]]

Init ==
    /\ counter = <<>>
    /\ marker = {}
    /\ slots = {}
    /\ ledger = [i \in Identities |-> [reserved |-> 0, settled |-> FALSE]]
    /\ req = [r \in Requests |-> Fresh(r)]
    /\ day = 0
    /\ faults = 0

Fault   == faults < MaxFaults /\ faults' = faults + 1
NoFault == UNCHANGED faults

-----------------------------------------------------------------------------
(* Counters.                                                               *)

Period(kind, d) == IF kind = "day" THEN d ELSE d \div DaysPerMonth

Owner(scope, r) ==
    IF scope = "tenant" THEN TenantOf[SubjectOf[r]] ELSE SubjectOf[r]

(* Only positive limits are charged.                                       *)
Capped(g) == {x \in ScopesOf(g) \X Kinds : Limit[x[1]][x[2]] > 0}

(* The capped counters a gate charges for request r on day d.              *)
KeysOf(g, r, d) ==
    {<<x[1], Owner(x[1], r), x[2], Period(x[2], d)>> : x \in Capped(g)}

LimitOf(key) == Limit[key[1]][key[3]]
Amount(key)  == IF key \in DOMAIN counter THEN counter[key] ELSE 0

Plus(keys, n) ==
    [key \in DOMAIN counter \cup keys |->
        IF key \in keys THEN Amount(key) + n ELSE counter[key]]

(* Mutation: the estimate is not part of the check. *)
FitsAlready(g, r) == \A key \in KeysOf(g, r, day) : Amount(key) <= LimitOf(key)

(* The reserve scripts check every capped counter, then charge them all.   *)
Fits(g, r) ==
    \A key \in KeysOf(g, r, day) : Amount(key) + Estimate[g] <= LimitOf(key)

Charge(g, r) == counter' = Plus(KeysOf(g, r, day), Estimate[g])

(* Mutations: a missing counter is created; the marker is not looked at. *)
AdjustMissing(g, r, delta) ==
    IF <<g, r>> \in marker THEN UNCHANGED <<counter, marker>>
    ELSE /\ marker' = marker \cup {<<g, r>>}
         /\ counter' = Plus(KeysOf(g, r, req[r].day[g]), delta)

AdjustAgain(g, r, delta) ==
    /\ marker' = marker \cup {<<g, r>>}
    /\ counter' = Plus(KeysOf(g, r, req[r].day[g]) \cap DOMAIN counter, delta)

(* The finalize scripts: once per reservation, and only on counters that   *)
(* still exist.                                                            *)
Adjust(g, r, delta) ==
    IF <<g, r>> \in marker THEN UNCHANGED <<counter, marker>>
    ELSE /\ marker' = marker \cup {<<g, r>>}
         /\ counter' = Plus(KeysOf(g, r, req[r].day[g]) \cap DOMAIN counter,
                            delta)

-----------------------------------------------------------------------------
(* The ledger rows of one identity.                                        *)

Booked(l) == [l EXCEPT !.reserved = @ + 1]
Freed(l)  == [l EXCEPT !.reserved = IF @ > 0 THEN @ - 1 ELSE 0]

(* Mutation: a second settled row is allowed. *)
SettledAgain(l) ==
    IF l.reserved > 0 THEN [reserved |-> l.reserved - 1, settled |-> TRUE]
                      ELSE l

(* The unique index refuses a second settled row, which is no error.       *)
Settled(l) ==
    IF l.reserved > 0 /\ ~l.settled
    THEN [reserved |-> l.reserved - 1, settled |-> TRUE] ELSE l

Book(r)   == ledger' = [ledger EXCEPT ![IdentityOf[r]] = Booked(@)]
Free(r)   == ledger' = [ledger EXCEPT ![IdentityOf[r]] = Freed(@)]
Settle(r) == ledger' = [ledger EXCEPT ![IdentityOf[r]] = Settled(@)]

-----------------------------------------------------------------------------
(* Admission, gate by gate.                                                *)

Goes(r, at)    == req' = [req EXCEPT ![r].at = at]
Charges(r, at, g) ==
    req' = [req EXCEPT ![r].at = at, ![r].day[g] = day]
Ends(r, out, todo) ==
    req' = [req EXCEPT ![r].at = "finishing", ![r].out = out,
                       ![r].todo = todo]
Quits(r) == req' = [req EXCEPT ![r].at = "done", ![r].out = "refused"]

Occupied(s) == Cardinality({r \in slots : SubjectOf[r] = s})

(* Limiter.Allow grants a slot.                                            *)
Allow(r) ==
    /\ req[r].at = "new"
    /\ Occupied(SubjectOf[r]) < MaxConc
    /\ slots' = slots \cup {r}
    /\ Goes(r, "limited")
    /\ NoFault
    /\ UNCHANGED <<counter, marker, ledger, day>>

(* No slot free, or no request left in the rate window.                    *)
AllowDenied(r) ==
    /\ req[r].at = "new"
    /\ Quits(r)
    /\ NoFault
    /\ UNCHANGED <<counter, marker, slots, ledger, day>>

(* The limiter does not answer; the slot may have been taken all the same. *)
AllowFails(r) ==
    /\ req[r].at = "new"
    /\ slots' \in {slots, slots \cup {r}}
    /\ slots' # slots => Occupied(SubjectOf[r]) < MaxConc
    /\ Quits(r)
    /\ Fault
    /\ UNCHANGED <<counter, marker, ledger, day>>

(* Quota.Reserve (a subject without token limits charges nothing).         *)
Meter(r) ==
    /\ req[r].at = "limited"
    /\ Fits("quota", r)
    /\ Charge("quota", r)
    /\ Charges(r, "metered", "quota")
    /\ NoFault
    /\ UNCHANGED <<marker, slots, ledger, day>>

(* Mutation: the slot is not given back. *)
MeterDeniedKeepsSlot(r) ==
    /\ req[r].at = "limited"
    /\ ~Fits("quota", r)
    /\ Quits(r)
    /\ NoFault
    /\ UNCHANGED <<counter, marker, slots, ledger, day>>

MeterDenied(r) ==
    /\ req[r].at = "limited"
    /\ ~Fits("quota", r)
    /\ Ends(r, "refused", <<"slot">>)
    /\ NoFault
    /\ UNCHANGED <<counter, marker, slots, ledger, day>>

(* Policy or quota unavailable; the counters may have been charged.        *)
MeterFails(r) ==
    /\ req[r].at = "limited"
    /\ \/ UNCHANGED counter
       \/ Fits("quota", r) /\ Charge("quota", r)
    /\ Ends(r, "refused", <<"slot">>)
    /\ Fault
    /\ UNCHANGED <<marker, slots, ledger, day>>

(* Gate.Reserve charges the money counters (nothing without a budget).     *)
ChargeBudget(r) ==
    /\ req[r].at = "metered"
    /\ Fits("budget", r)
    /\ Charge("budget", r)
    /\ Charges(r, "charged", "budget")
    /\ NoFault
    /\ UNCHANGED <<marker, slots, ledger, day>>

(* Mutation: the token reservation is not returned. *)
ChargeDeniedKeepsQuota(r) ==
    /\ req[r].at = "metered"
    /\ KeysOf("budget", r, day) # {}
    /\ Ends(r, "refused", <<"slot">>)
    /\ NoFault
    /\ UNCHANGED <<counter, marker, slots, ledger, day>>

(* A budget is exhausted, or applies and cannot be priced.                 *)
ChargeDenied(r) ==
    /\ req[r].at = "metered"
    /\ KeysOf("budget", r, day) # {}
    /\ Ends(r, "refused", <<"quota", "slot">>)
    /\ NoFault
    /\ UNCHANGED <<counter, marker, slots, ledger, day>>

ChargeFails(r) ==
    /\ req[r].at = "metered"
    /\ \/ UNCHANGED counter
       \/ Fits("budget", r) /\ Charge("budget", r)
    /\ Ends(r, "refused", <<"quota", "slot">>)
    /\ Fault
    /\ UNCHANGED <<marker, slots, ledger, day>>

(* The answer of a reserve script is lost and the Redis client sends the   *)
(* script again.  It names no reservation: the first run stays charged     *)
(* with nobody to refund it, and the next step is the answer to another.   *)
ChargeLost(r, g) ==
    /\ req[r].at = IF g = "quota" THEN "limited" ELSE "metered"
    /\ Fits(g, r)
    /\ Charge(g, r)
    /\ Fault
    /\ UNCHANGED <<marker, slots, ledger, req, day>>

(* ReserveLedger, the last step before the provider call.                  *)
Admit(r) ==
    /\ req[r].at = "charged"
    /\ Book(r)
    /\ Goes(r, "running")
    /\ NoFault
    /\ UNCHANGED <<counter, marker, slots, day>>

(* It fails: Reserve refunds the money, admit the tokens and the slot; the *)
(* row may have been written.                                              *)
AdmitFails(r) ==
    /\ req[r].at = "charged"
    /\ UNCHANGED ledger \/ Book(r)
    /\ Ends(r, "refused", <<"budget", "quota", "slot">>)
    /\ Fault
    /\ UNCHANGED <<counter, marker, slots, day>>

-----------------------------------------------------------------------------
(* The provider call ends.                                                 *)

CallEnds(r, out, todo, used) ==
    /\ req[r].at = "running"
    /\ req' = [req EXCEPT ![r].at = "finishing", ![r].out = out,
                          ![r].todo = todo, ![r].used = used]
    /\ NoFault
    /\ UNCHANGED <<counter, marker, slots, ledger, day>>

Unknown == [g \in Gates |-> None]

(* A response, with or without reported usage; reported usage that no      *)
(* price covers has no cost.                                               *)
Answered(r) ==
    \E n \in Actual \cup {None}, priced \in BOOLEAN :
        CallEnds(r, "answered", <<"quota", "ledger", "budget", "slot">>,
                 [quota |-> n, budget |-> IF priced THEN n ELSE None])

(* No billable response (or a background request, whose admission was only *)
(* a probe): refund.                                                       *)
Failed(r) ==
    CallEnds(r, "failed", <<"quota", "budget", "ledger", "slot">>, Unknown)

(* A stream that fails after output: nothing is settled or refunded.       *)
Truncated(r) == CallEnds(r, "truncated", <<"slot">>, Unknown)

-----------------------------------------------------------------------------
(* Finalization, one call at a time.                                       *)

Next1(r) ==
    LET rest == Tail(req[r].todo)
    IN  req' = [req EXCEPT ![r].todo = rest,
                           ![r].at = IF rest = <<>> THEN "done" ELSE @]

Heads(r, work) == req[r].at = "finishing" /\ Head(req[r].todo) = work

(* Settle adjusts to what was used and does nothing when that is unknown;  *)
(* Release takes the estimate back.                                        *)
Finalize(g, r) ==
    IF req[r].out # "answered" THEN Adjust(g, r, -Estimate[g])
    ELSE IF req[r].used[g] = None THEN UNCHANGED <<counter, marker>>
    ELSE Adjust(g, r, req[r].used[g] - Estimate[g])

FinishCounter(r, g) ==
    /\ Heads(r, g)
    /\ \/ Finalize(g, r) /\ NoFault
       \/ UNCHANGED <<counter, marker>> /\ Fault
    /\ Next1(r)
    /\ UNCHANGED <<slots, ledger, day>>

FinishLedger(r) ==
    /\ Heads(r, "ledger")
    /\ IF req[r].out = "answered" THEN Settle(r) ELSE Free(r)
    /\ NoFault
    /\ Next1(r)
    /\ UNCHANGED <<counter, marker, slots, day>>

(* The ledger does not answer (or its price lookup fails).  A settlement   *)
(* with attempts left starts over; otherwise the money stays reserved.     *)
FinishLedgerFails(r) ==
    /\ Heads(r, "ledger")
    /\ \/ UNCHANGED ledger
       \/ IF req[r].out = "answered" THEN Settle(r) ELSE Free(r)
    /\ Fault
    /\ IF req[r].out = "answered" /\ req[r].tries > 1
       THEN req' = [req EXCEPT ![r].tries = @ - 1,
                               ![r].todo = <<"quota">> \o @]
       ELSE req' = [req EXCEPT ![r].todo = <<"slot">>]
    /\ UNCHANGED <<counter, marker, slots, day>>

FinishSlot(r) ==
    /\ Heads(r, "slot")
    /\ \/ slots' = slots \ {r} /\ NoFault
       \/ UNCHANGED slots /\ Fault
    /\ Next1(r)
    /\ UNCHANGED <<counter, marker, ledger, day>>

-----------------------------------------------------------------------------
(* Crashes and the calendar.                                               *)

(* The process dies: whatever the request held stays held.                 *)
Crash(r) ==
    /\ req[r].at \notin {"new", "done"}
    /\ req' = [req EXCEPT ![r].at = "done", ![r].todo = <<>>]
    /\ Fault
    /\ UNCHANGED <<counter, marker, slots, ledger, day>>

NextDay ==
    /\ day < MaxDay
    /\ day' = day + 1
    /\ UNCHANGED <<counter, marker, slots, ledger, req, faults>>

(* The first day on which a counter's time to live has passed.             *)
GoneOn(key) ==
    (IF key[3] = "day" THEN key[4] + 1 ELSE (key[4] + 1) * DaysPerMonth) + Grace

Expire(key) ==
    /\ key \in DOMAIN counter
    /\ day >= GoneOn(key)
    /\ counter' = [k \in DOMAIN counter \ {key} |-> counter[k]]
    /\ UNCHANGED <<marker, slots, ledger, req, day, faults>>

-----------------------------------------------------------------------------
AdmitNext(r) ==
    \/ Allow(r) \/ AllowDenied(r) \/ AllowFails(r)
    \/ Meter(r) \/ MeterDenied(r) \/ MeterFails(r)
    \/ ChargeBudget(r) \/ ChargeDenied(r) \/ ChargeFails(r)
    \/ ChargeLost(r, "quota") \/ ChargeLost(r, "budget")
    \/ Admit(r) \/ AdmitFails(r)

FinishNext(r) ==
    \/ FinishCounter(r, "quota") \/ FinishCounter(r, "budget")
    \/ FinishLedger(r) \/ FinishLedgerFails(r) \/ FinishSlot(r)

Next ==
    \/ \E r \in Requests :
          \/ AdmitNext(r)
          \/ Answered(r) \/ Failed(r) \/ Truncated(r)
          \/ FinishNext(r)
          \/ Crash(r)
    \/ NextDay
    \/ \E key \in Key : Expire(key)

Spec == Init /\ [][Next]_vars

-----------------------------------------------------------------------------
(* Properties.                                                             *)

Request(r) ==
    [at : At, out : Out, todo : Seq(Work), day : [Gates -> 0 .. MaxDay],
     used : [Gates -> Actual \cup {None}], tries : 1 .. Tries[r]]

(* Every variable holds a value of its kind; in particular no counter is   *)
(* ever negative, so no refund takes more than was charged.                *)
TypeOK ==
    /\ DOMAIN counter \subseteq Key
    /\ \A key \in DOMAIN counter : counter[key] \in Nat
    /\ marker \subseteq Gates \X Requests
    /\ slots \subseteq Requests
    /\ ledger \in [Identities -> [reserved : Nat, settled : BOOLEAN]]
    /\ \A r \in Requests : req[r] \in Request(r)
    /\ day \in 0 .. MaxDay
    /\ faults \in 0 .. MaxFaults

GateOf(key) == IF key[1] = "tokens" THEN "quota" ELSE "budget"

(* The sum of the amounts n[r], counted unit by unit.                      *)
Total(n) == Cardinality(UNION {{r} \X (1 .. n[r]) : r \in DOMAIN n})

(* The requests charged against a counter when they were admitted.         *)
Against(key) ==
    LET g == GateOf(key)
    IN  {r \in Requests : key \in KeysOf(g, r, req[r].day[g])}

Least(a, b) == IF a < b THEN a ELSE b

Overrun(key, r) ==
    LET g == GateOf(key)
        n == req[r].used[g]
    IN  IF <<g, r>> \in marker /\ n # None /\ n > Estimate[g]
        THEN n - Estimate[g] ELSE 0

(* No interleaving of reservations over all processes oversells a period:  *)
(* a counter passes its limit only by what answered calls used beyond      *)
(* their estimates.                                                        *)
NeverOversold ==
    \A key \in DOMAIN counter :
        counter[key] <= LimitOf(key)
            + Total([r \in Against(key) |-> Overrun(key, r)])

Quiet == \A r \in Requests : req[r].at \in {"new", "done"}

(* What a finished request should leave on a counter: its usage, or its    *)
(* estimate when the usage is unknown, or nothing.                         *)
Owed(g, r) ==
    IF req[r].out = "answered"
    THEN IF req[r].used[g] = None THEN Estimate[g] ELSE req[r].used[g]
    ELSE IF req[r].out = "truncated" THEN Estimate[g] ELSE 0

(* Without faults, the counters end up at exactly what the requests owe,   *)
(* however their admissions, refusals and settlements interleaved, and     *)
(* whatever days they straddled.                                           *)
CountersMatchOutcomes ==
    faults = 0 /\ Quiet =>
        \A key \in DOMAIN counter :
            counter[key] =
                Total([r \in Against(key) |-> Owed(GateOf(key), r)])

(* Whatever fails, is answered late, is retried or crashes, a counter      *)
(* keeps at least the smaller of estimate and usage of every call that     *)
(* produced output: faults never give budget back.                         *)
FaultsNeverRefund ==
    \A key \in DOMAIN counter :
        counter[key] >=
            Total([r \in Against(key) |->
                       Least(Estimate[GateOf(key)], Owed(GateOf(key), r))])

Ended(i, out) == Cardinality({r \in Requests : IdentityOf[r] = i
                                               /\ req[r].out = out})

(* Without faults, an identity is settled exactly if one of its requests   *)
(* was answered, and a row stays reserved only for a truncated stream or a *)
(* second answer under an identity that was already settled.               *)
ReservedRowsExplained ==
    faults = 0 /\ Quiet =>
        \A i \in Identities :
            LET answers == Ended(i, "answered")
            IN  /\ ledger[i].settled <=> answers > 0
                /\ ledger[i].reserved =
                       Ended(i, "truncated")
                         + (IF answers > 1 THEN answers - 1 ELSE 0)

(* Without faults, every refusal, failure and success gives its slot back  *)
(* and nothing runs without one.                                           *)
SlotsFollowRequests ==
    faults = 0 =>
        slots = {r \in Requests : req[r].at \notin {"new", "done"}}

(* docs/release-v1.4.md:147: the reserved backlog behind /readyz grows     *)
(* when workers are stuck or ledger writes fail.                           *)
OnlyFailuresLeaveReserved ==
    faults = 0 /\ Quiet => \A i \in Identities : ledger[i].reserved = 0

=============================================================================
