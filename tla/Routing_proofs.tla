--------------------------- MODULE Routing_proofs ---------------------------
(***************************************************************************)
(* No probe is orphaned, no client hears two attempts, attempts stay       *)
(* within the plan and no request gives up early: for any number of        *)
(* requests, routes, retries and switches of the model.                    *)
(***************************************************************************)
EXTENDS Routing, FiniteSetTheorems, WellFoundedInduction, TLAPS

-----------------------------------------------------------------------------
(* The best candidate of a plan is one of the plan.                        *)
LEMMA BestOf ==
    ASSUME NEW S \in SUBSET Routes, S # {}
    PROVE  Best(S) \in S
  <1> DEFINE Less == {ss \in Nat \X Nat : ss[1] < ss[2]}
  <1>1. S \subseteq Nat
    BY RouteAssumption DEF RouteAssumption, Routes
  <1>2. IsWellFoundedOn(Less, Nat)
    BY NatLessThanWellFounded DEF OpToRel
  <1>3. \E i \in S : \A j \in S : <<j, i>> \notin Less
    <2> HIDE DEF Less
    <2> QED
      BY <1>1, <1>2, WFMin
  <1>4. \A i, j \in Nat : <<j, i>> \notin Less => i <= j
    OBVIOUS
  <1>5. \E i \in S : \A j \in S : i <= j
    <2> HIDE DEF Less
    <2> QED
      BY <1>1, <1>3, <1>4
  <1>6. QED
    BY <1>5 DEF Best

(* A plan is finite, and giving up a candidate shortens it by one.         *)
LEMMA PlanFinite ==
    ASSUME NEW S \in SUBSET Routes
    PROVE  /\ Cardinality(S) \in Nat
           /\ Cardinality(S) <= NumRoutes
           /\ S # {} => /\ Cardinality(S) > 0
                        /\ Cardinality(S \ {Best(S)}) = Cardinality(S) - 1
  <1>1. /\ IsFiniteSet(Routes)
        /\ Cardinality(Routes) = NumRoutes
    BY RouteAssumption, FS_Interval DEF RouteAssumption, Routes
  <1>2. /\ IsFiniteSet(S)
        /\ Cardinality(S) <= NumRoutes
    BY <1>1, FS_Subset
  <1>3. Cardinality(S) \in Nat
    BY <1>2, FS_CardinalityType
  <1>4. S # {} => Cardinality(S) # 0
    BY <1>2, FS_EmptySet
  <1>5. S # {} => Cardinality(S \ {Best(S)}) = Cardinality(S) - 1
    BY <1>2, BestOf, FS_RemoveElement
  <1>6. QED
    BY <1>2, <1>3, <1>4, <1>5

-----------------------------------------------------------------------------
(* What becomes of one request.                                            *)

(* A request that goes on has a candidate and a try left.                  *)
GoesOn(q) == q.at \in {"next", "calling"} => q.left # {} /\ q.tries > 0

Good == {q \in Request : GoesOn(q)}

LEMMA RequestKinds ==
    ASSUME NEW q \in Request
    PROVE  /\ \A plan \in SUBSET Routes, n \in Nat :
                 Planned(q, plan, n) \in Request
           /\ \A p \in BOOLEAN : Called(q, p) \in Request
           /\ \A out \in Result : Stopped(q, out) \in Request
           /\ q.tries > 0 => \A out \in Result : Retried(q, out) \in Request
           /\ \A out \in Result : FailedOver(q, out) \in Request
           /\ Expired(q) \in Request
           /\ Emitted(q) \in Request
  <1>1. \A plan \in SUBSET Routes, n \in Nat : Planned(q, plan, n) \in Request
    BY DEF Request, Planned
  <1>2. \A p \in BOOLEAN : Called(q, p) \in Request
    <2>1. q.attempts + 1 \in Nat
      BY DEF Request
    <2>2. QED
      BY <2>1 DEF Request, Called
  <1>3. \A out \in Result : Stopped(q, out) \in Request
    BY DEF Request, Stopped
  <1>4. q.tries > 0 => \A out \in Result : Retried(q, out) \in Request
    <2>1. q.tries > 0 => q.tries - 1 \in Nat
      BY DEF Request
    <2>2. QED
      BY <2>1 DEF Request, Retried
  <1>5. \A out \in Result : FailedOver(q, out) \in Request
    <2>1. q.left \ {Best(q.left)} \in SUBSET Routes /\ 1 \in Nat
      BY DEF Request
    <2>2. QED
      BY <2>1 DEF Request, FailedOver
  <1>6. Expired(q) \in Request /\ Emitted(q) \in Request
    BY DEF Request, Expired, Emitted
  <1>7. QED
    BY <1>1, <1>2, <1>3, <1>4, <1>5, <1>6

LEMMA RequestMoves ==
    ASSUME NEW q \in Good
    PROVE  /\ \A plan \in SUBSET Routes, n \in Nat \ {0} :
                 Planned(q, plan, n) \in Good
           /\ q.at = "next" => \A p \in BOOLEAN : Called(q, p) \in Good
           /\ \A out \in Result : Stopped(q, out) \in Good
           /\ \A out \in Result : FailedOver(q, out) \in Good
           /\ q.at = "calling" =>
                \A out \in Outcomes : Returned(q, out) \in Good
           /\ Expired(q) \in Good
           /\ Emitted(q) \in Good
  <1>0. q \in Request /\ GoesOn(q)
    BY DEF Good
  <1>1. ASSUME NEW plan \in SUBSET Routes, NEW n \in Nat \ {0}
        PROVE  Planned(q, plan, n) \in Good
    <2>1. GoesOn(Planned(q, plan, n))
      BY <1>0 DEF GoesOn, Planned, Request
    <2>2. QED
      BY <2>1, <1>0, RequestKinds DEF Good
  <1>2. ASSUME q.at = "next", NEW p \in BOOLEAN
        PROVE  Called(q, p) \in Good
    <2>1. GoesOn(Called(q, p))
      BY <1>0, <1>2 DEF GoesOn, Called, Request
    <2>2. QED
      BY <2>1, <1>0, RequestKinds DEF Good
  <1>3. ASSUME NEW out \in Result PROVE Stopped(q, out) \in Good
    <2>1. GoesOn(Stopped(q, out))
      BY <1>0 DEF GoesOn, Stopped, Request
    <2>2. QED
      BY <2>1, <1>0, RequestKinds DEF Good
  <1>4. ASSUME NEW out \in Result PROVE FailedOver(q, out) \in Good
    <2>1. GoesOn(FailedOver(q, out))
      BY <1>0 DEF GoesOn, FailedOver, Request
    <2>2. QED
      BY <2>1, <1>0, RequestKinds DEF Good
  <1>5. ASSUME q.at = "calling", q.tries > 1, NEW out \in Result
        PROVE  Retried(q, out) \in Good
    <2>1. GoesOn(Retried(q, out)) /\ q.tries > 0
      BY <1>0, <1>5 DEF GoesOn, Retried, Request
    <2>2. QED
      BY <2>1, <1>0, RequestKinds DEF Good
  <1>6. Outcomes \subseteq Result /\ "canceled" \in Result
    BY DEF Outcomes, Result
  <1>7. q.at = "calling" => \A out \in Outcomes : Returned(q, out) \in Good
    BY <1>3, <1>4, <1>5, <1>6 DEF Returned, Failed
  <1>8. Expired(q) \in Good /\ Emitted(q) \in Good
    <2>1. GoesOn(Expired(q)) /\ GoesOn(Emitted(q))
      BY <1>0 DEF GoesOn, Expired, Emitted, Request
    <2>2. QED
      BY <2>1, <1>0, RequestKinds DEF Good
  <1>9. QED
    BY <1>1, <1>2, <1>3, <1>4, <1>7, <1>8

LEMMA BreakerMoves ==
    ASSUME NEW b \in Breaker
    PROVE  /\ Closed(0) \in Breaker
           /\ Granted(b) \in Breaker
           /\ \A ok \in BOOLEAN : /\ Recorded(b, ok) \in Breaker
                                  /\ Recorded(b, ok).state # "half"
  <1> USE RouteAssumption DEF RouteAssumption, Breaker
  <1>1. \A n \in 0 .. Threshold : Closed(n) \in Breaker
    BY DEF Closed
  <1>2. Opened \in Breaker /\ Half \in Breaker
    BY DEF Opened, Half
  <1>3. Granted(b) \in Breaker
    BY <1>2 DEF Granted
  <1>4. \A ok \in BOOLEAN : /\ Recorded(b, ok) \in Breaker
                            /\ Recorded(b, ok).state # "half"
    BY <1>1, <1>2 DEF Recorded, Closed, Opened
  <1>5. QED
    BY <1>1, <1>3, <1>4

-----------------------------------------------------------------------------
(* Types.                                                                  *)

TypeInv ==
    /\ listed \in BOOLEAN
    /\ enabled \subseteq Routes
    /\ loading \in Nat
    /\ switches \in 0 .. MaxSwitches
    /\ breaker \in [Routes -> Breaker]
    /\ req \in [Requests -> Good]
    /\ heard \in [Requests -> SUBSET Nat]

LEMMA TypeSplit == TypeInv => TypeOK
  BY DEF TypeInv, TypeOK, Good, GoesOn

LEMMA CandidateOf ==
    ASSUME TypeInv, NEW r \in Requests, req[r].at \in {"next", "calling"}
    PROVE  /\ Candidate(r) \in req[r].left
           /\ Candidate(r) \in Routes
  <1>1. req[r].left \in SUBSET Routes /\ req[r].left # {}
    BY DEF TypeInv, Good, GoesOn, Request
  <1>2. QED
    BY <1>1, BestOf DEF Candidate

LEMMA TriesType ==
    ASSUME NEW r \in Requests
    PROVE  Tries(r) \in Nat \ {0}
  BY RouteAssumption DEF RouteAssumption, Tries

LEMMA TypeInit == Init => TypeInv
  <1> SUFFICES ASSUME Init PROVE TypeInv
    OBVIOUS
  <1>1. New \in Request /\ New.at = "new"
    BY DEF New, Request, Result
  <1>2. New \in Good
    BY <1>1 DEF Good, GoesOn
  <1>3. Closed(0) \in Breaker
    BY RouteAssumption DEF RouteAssumption, Closed, Breaker
  <1>4. QED
    BY <1>2, <1>3, RouteAssumption DEF Init, TypeInv, RouteAssumption

LEMMA TypeNext == TypeInv /\ [Next]_vars => TypeInv'
  <1> SUFFICES ASSUME TypeInv, [Next]_vars PROVE TypeInv'
    OBVIOUS
  <1> USE DEF TypeInv, model
  <1>0. \A r \in Requests : /\ req[r] \in Good
                            /\ req[r].out \in Result
                            /\ req[r].attempts \in Nat
    BY DEF Good, Request
  <1>1. ASSUME NEW r \in Requests, Resolve(r) PROVE TypeInv'
    <2> DEFINE plan == IF listed THEN enabled ELSE {}
    <2>1. plan \in SUBSET Routes
      OBVIOUS
    <2>2. Planned(req[r], plan, Tries(r)) \in Good
      BY <1>0, <2>1, RequestMoves, TriesType
    <2>3. QED
      BY <1>1, <2>2 DEF Resolve
  <1>2. ASSUME NEW r \in Requests, Attempt(r) PROVE TypeInv'
    <2>1. \A p \in BOOLEAN : Called(req[r], p) \in Good
      BY <1>0, <1>2, RequestMoves DEF Attempt
    <2>2. Granted(breaker[Candidate(r)]) \in Breaker
      BY <1>2, CandidateOf, BreakerMoves DEF Attempt
    <2>3. QED
      BY <1>2, <2>1, <2>2 DEF Attempt
  <1>3. ASSUME NEW r \in Requests, Refused(r) PROVE TypeInv'
    <2>1. FailedOver(req[r], req[r].out) \in Good
      BY <1>0, RequestMoves
    <2>2. QED
      BY <1>3, <2>1 DEF Refused
  <1>4. ASSUME NEW r \in Requests, GiveUp(r) PROVE TypeInv'
    <2>1. Stopped(req[r], "canceled") \in Good
      BY <1>0, RequestMoves DEF Result
    <2>2. QED
      BY <1>4, <2>1 DEF GiveUp
  <1>5. ASSUME NEW r \in Requests, Emit(r) PROVE TypeInv'
    <2>1. Emitted(req[r]) \in Good
      BY <1>0, RequestMoves
    <2>2. QED
      BY <1>0, <1>5, <2>1 DEF Emit
  <1>6. ASSUME NEW r \in Requests, NEW out \in Outcomes, Return(r, out)
        PROVE  TypeInv'
    <2>1. Returned(req[r], out) \in Good
      BY <1>0, <1>6, RequestMoves DEF Return
    <2>2. Recorded(breaker[Candidate(r)], out = "ok") \in Breaker
      BY <1>6, CandidateOf, BreakerMoves DEF Return
    <2>3. QED
      BY <1>6, <2>1, <2>2 DEF Return, Record
  <1>7. ASSUME NEW r \in Requests, ContextEnds(r) PROVE TypeInv'
    <2>1. Expired(req[r]) \in Good
      BY <1>0, RequestMoves
    <2>2. QED
      BY <1>7, <2>1 DEF ContextEnds
  <1>8. ASSUME Tick PROVE TypeInv'
    <2>1. \A b \in Breaker :
             [b EXCEPT !.wait = IF @ > 0 THEN @ - 1 ELSE 0] \in Breaker
      <3>1. ASSUME NEW b \in Breaker
            PROVE  (IF b.wait > 0 THEN b.wait - 1 ELSE 0) \in 0 .. CoolDown
        BY RouteAssumption DEF RouteAssumption, Breaker
      <3>2. QED
        BY <3>1 DEF Breaker
    <2>2. QED
      BY <1>8, <2>1 DEF Tick
  <1>9. ASSUME Switch PROVE TypeInv'
    BY <1>9, RouteAssumption DEF Switch, RouteAssumption
  <1>10. ASSUME SetRoutes PROVE TypeInv'
    <2>1. Closed(0) \in Breaker
      BY RouteAssumption DEF RouteAssumption, Closed, Breaker
    <2>2. QED
      BY <1>10, <2>1 DEF SetRoutes
  <1>11. ASSUME KeepRoutes PROVE TypeInv'
    BY <1>11 DEF KeepRoutes
  <1>12. ASSUME UNCHANGED vars PROVE TypeInv'
    BY <1>12 DEF vars
  <1>13. QED
    BY <1>1, <1>2, <1>3, <1>4, <1>5, <1>6, <1>7, <1>8, <1>9, <1>10, <1>11, <1>12
    DEF Next, Chooses, Returns

(* The variables keep their kinds, and a request that goes on has a        *)
(* candidate and a try left.                                               *)
THEOREM TypeCorrect == Spec => []TypeOK
  <1>1. Spec => []TypeInv
    BY TypeInit, TypeNext, PTL DEF Spec
  <1>2. QED
    BY <1>1, TypeSplit, PTL

-----------------------------------------------------------------------------
(* Probes.                                                                 *)

LEMMA ProbeFields ==
    ASSUME NEW q \in Request
    PROVE  /\ \A p \in BOOLEAN : /\ Called(q, p).at = "calling"
                                 /\ Called(q, p).probe = p
                                 /\ Called(q, p).left = q.left
           /\ /\ Expired(q).at = q.at
              /\ Expired(q).probe = q.probe
              /\ Expired(q).left = q.left
           /\ /\ Emitted(q).at = q.at
              /\ Emitted(q).probe = q.probe
              /\ Emitted(q).left = q.left
  BY DEF Called, Expired, Emitted, Request

Probes(r, i) == req[r].at = "calling" /\ req[r].probe /\ Candidate(r) = i

(* A probe stays in flight until its request returns.                      *)
LEMMA ProbeStays ==
    ASSUME TypeInv, [Next]_vars, NEW r \in Requests, NEW i \in Routes,
           Probes(r, i)
    PROVE  Probes(r, i)' \/ \E out \in Outcomes : Return(r, out)
  <1> USE DEF Probes, Candidate, TypeInv
  <1>0. req[r] \in Request
    BY DEF Good
  <1>1. CASE req'[r] = req[r]
    BY <1>1
  <1>2. CASE req'[r] \in {Expired(req[r]), Emitted(req[r])}
    BY <1>0, <1>2, ProbeFields
  <1>3. CASE \E out \in Outcomes : Return(r, out)
    BY <1>3
  <1>4. ASSUME NEW s \in Requests,
               \/ Resolve(s) \/ Attempt(s) \/ Refused(s) \/ GiveUp(s)
        PROVE  req'[r] = req[r]
    <2>1. s # r
      BY <1>4 DEF Resolve, Attempt, Refused, GiveUp
    <2>2. QED
      BY <1>4, <2>1 DEF Resolve, Attempt, Refused, GiveUp
  <1>5. ASSUME NEW s \in Requests, Emit(s) \/ ContextEnds(s)
        PROVE  req'[r] \in {req[r], Expired(req[r]), Emitted(req[r])}
    BY <1>5 DEF Emit, ContextEnds
  <1>6. ASSUME NEW s \in Requests, NEW out \in Outcomes, Return(s, out), s # r
        PROVE  req'[r] = req[r]
    BY <1>6 DEF Return
  <1>7. ASSUME Tick \/ Switch \/ SetRoutes \/ KeepRoutes \/ UNCHANGED vars
        PROVE  req'[r] = req[r]
    BY <1>7 DEF Tick, Switch, SetRoutes, KeepRoutes, vars
  <1>8. QED
    BY <1>1, <1>2, <1>3, <1>4, <1>5, <1>6, <1>7 DEF Next, Chooses, Returns

(* A breaker becomes half-open only by admitting a probe, and is not       *)
(* half-open after an outcome.                                             *)
LEMMA HalfOpens ==
    ASSUME TypeInv, [Next]_vars, NEW i \in Routes,
           breaker'[i].state = "half"
    PROVE  \/ /\ breaker[i].state = "half"
              /\ \A r \in Requests, out \in Outcomes :
                    Return(r, out) => Candidate(r) # i
           \/ \E r \in Requests : Probes(r, i)'
  <1> USE DEF TypeInv
  <1>0. /\ breaker[i] \in Breaker
        /\ \A r \in Requests : req[r] \in Request
    BY DEF Good
  <1>1. ASSUME NEW r \in Requests, Attempt(r), Candidate(r) = i
        PROVE  Probes(r, i)'
    <2>1. breaker[i].state = "open"
      BY <1>0, <1>1 DEF Attempt, Admits, Grants, Granted
    <2>2. req'[r] = Called(req[r], TRUE)
      BY <1>1, <2>1 DEF Attempt
    <2>3. /\ req'[r].at = "calling"
          /\ req'[r].probe
          /\ req'[r].left = req[r].left
      <3>1. /\ Called(req[r], TRUE).at = "calling"
            /\ Called(req[r], TRUE).probe = TRUE
            /\ Called(req[r], TRUE).left = req[r].left
        BY <1>0, ProbeFields
      <3>2. QED
        BY <2>2, <3>1
    <2>4. QED
      BY <1>1, <2>3 DEF Probes, Candidate
  <1>2. ASSUME NEW r \in Requests, NEW out \in Outcomes, Return(r, out)
        PROVE  Candidate(r) # i /\ breaker'[i] = breaker[i]
    <2>1. Candidate(r) = i => breaker'[i] = Recorded(breaker[i], out = "ok")
      BY <1>2 DEF Return, Record
    <2>2. Candidate(r) # i
      BY <1>0, <2>1, BreakerMoves
    <2>3. QED
      BY <1>2, <2>2 DEF Return, Record
  <1>3. ASSUME Tick PROVE breaker'[i].state = breaker[i].state
    BY <1>0, <1>3 DEF Tick, Breaker
  <1>4. ASSUME SetRoutes PROVE FALSE
    BY <1>4 DEF SetRoutes, Closed
  <1>5. ASSUME NEW r \in Requests,
               \/ Resolve(r) \/ Refused(r) \/ GiveUp(r) \/ Emit(r)
               \/ ContextEnds(r) \/ (Attempt(r) /\ Candidate(r) # i)
        PROVE  breaker'[i] = breaker[i]
    BY <1>5 DEF Resolve, Refused, GiveUp, Emit, ContextEnds, Attempt
  <1>6. ASSUME Switch \/ KeepRoutes \/ UNCHANGED vars
        PROVE  breaker'[i] = breaker[i]
    BY <1>6 DEF Switch, KeepRoutes, vars
  <1>7. CASE \E r \in Requests, out \in Outcomes : Return(r, out)
    BY <1>2, <1>7
  <1>8. CASE \A r \in Requests, out \in Outcomes : ~Return(r, out)
    BY <1>1, <1>3, <1>4, <1>5, <1>6, <1>8 DEF Next, Chooses, Returns
  <1>9. QED
    BY <1>7, <1>8

ProbeInv == \A i \in Routes : breaker[i].state = "half" =>
                                 \E r \in Requests : Probes(r, i)

LEMMA ProbeNext == TypeInv /\ ProbeInv /\ [Next]_vars => ProbeInv'
  <1> SUFFICES ASSUME TypeInv, ProbeInv, [Next]_vars,
                      NEW i \in Routes, breaker'[i].state = "half"
               PROVE  \E r \in Requests : Probes(r, i)'
    BY DEF ProbeInv
  <1>1. CASE \E r \in Requests : Probes(r, i)'
    BY <1>1
  <1>2. CASE /\ breaker[i].state = "half"
             /\ \A r \in Requests, out \in Outcomes :
                   Return(r, out) => Candidate(r) # i
    <2>1. PICK r \in Requests : Probes(r, i)
      BY <1>2 DEF ProbeInv
    <2>2. Probes(r, i)'
      BY <1>2, <2>1, ProbeStays DEF Probes
    <2>3. QED
      BY <2>2
  <1>3. QED
    BY <1>1, <1>2, HalfOpens

(* A half-open breaker's probe is always a call in flight, which will      *)
(* record its outcome: through cancels, deadlines, late outcomes of other  *)
(* calls and new route tables (routes.go:64).                              *)
THEOREM ProbeNeverOrphaned == Spec => []ProbeInFlight
  <1>1. Init => ProbeInv
    BY DEF Init, ProbeInv, Closed
  <1>2. ProbeInv => ProbeInFlight
    BY DEF ProbeInv, ProbeInFlight, Probes
  <1>3. QED
    BY <1>1, <1>2, TypeInit, TypeNext, ProbeNext, PTL DEF Spec

-----------------------------------------------------------------------------
(* Output.                                                                 *)

(* Only the latest attempt was heard, and none is made after it.           *)
Voice(q, h) == /\ h \subseteq {q.attempts}
               /\ h # {} => q.output
               /\ q.at \in {"new", "next"} => ~q.output

VoiceInv == \A r \in Requests : Voice(req[r], heard[r])

LEMMA VoiceMoves ==
    ASSUME NEW q \in Good, NEW h, Voice(q, h)
    PROVE  /\ q.at = "new" => \A plan, n : Voice(Planned(q, plan, n), h)
           /\ q.at = "next" => \A p : Voice(Called(q, p), h)
           /\ \A out : Voice(Stopped(q, out), h)
           /\ q.at = "next" => \A out : Voice(FailedOver(q, out), h)
           /\ \A out : Voice(Returned(q, out), h)
           /\ Voice(Expired(q), h)
           /\ q.at = "calling" => Voice(Emitted(q), h \cup {q.attempts})
  <1>0. q \in Request
    BY DEF Good
  <1> USE DEF Voice, Request
  <1>1. q.at = "new" => \A plan, n : Voice(Planned(q, plan, n), h)
    BY <1>0 DEF Planned
  <1>2. q.at = "next" => \A p : Voice(Called(q, p), h)
    BY <1>0 DEF Called
  <1>3. \A out : Voice(Stopped(q, out), h)
    BY <1>0 DEF Stopped
  <1>4. ~q.output => \A out : Voice(FailedOver(q, out), h)
    BY <1>0 DEF FailedOver
  <1>5. ~q.output => \A out : Voice(Retried(q, out), h)
    BY <1>0 DEF Retried
  <1>6. \A out : Voice(Returned(q, out), h)
    BY <1>0, <1>3, <1>4, <1>5 DEF Returned, Failed
  <1>7. Voice(Expired(q), h)
    BY <1>0 DEF Expired
  <1>8. q.at = "calling" => Voice(Emitted(q), h \cup {q.attempts})
    BY <1>0 DEF Emitted
  <1>9. QED
    BY <1>1, <1>2, <1>3, <1>4, <1>6, <1>7, <1>8

(* A request changes only by its own steps.                                *)
LEMMA OwnSteps ==
    ASSUME TypeInv, [Next]_vars, NEW r \in Requests
    PROVE  \/ req'[r] = req[r] /\ heard'[r] = heard[r]
           \/ Resolve(r) \/ Attempt(r) \/ Refused(r) \/ GiveUp(r) \/ Emit(r)
           \/ \E out \in Outcomes : Return(r, out)
           \/ ContextEnds(r)
  <1> USE DEF TypeInv
  <1>1. ASSUME NEW s \in Requests, s # r,
               \/ Resolve(s) \/ Attempt(s) \/ Refused(s) \/ GiveUp(s)
               \/ Emit(s) \/ ContextEnds(s)
        PROVE  req'[r] = req[r] /\ heard'[r] = heard[r]
    BY <1>1 DEF Resolve, Attempt, Refused, GiveUp, Emit, ContextEnds
  <1>2. ASSUME NEW s \in Requests, NEW out \in Outcomes, Return(s, out), s # r
        PROVE  req'[r] = req[r] /\ heard'[r] = heard[r]
    BY <1>2 DEF Return
  <1>3. ASSUME Tick \/ Switch \/ SetRoutes \/ KeepRoutes \/ UNCHANGED vars
        PROVE  req'[r] = req[r] /\ heard'[r] = heard[r]
    BY <1>3 DEF Tick, Switch, SetRoutes, KeepRoutes, vars
  <1>4. QED
    BY <1>1, <1>2, <1>3 DEF Next, Chooses, Returns

LEMMA VoiceNext == TypeInv /\ VoiceInv /\ [Next]_vars => VoiceInv'
  <1> SUFFICES ASSUME TypeInv, VoiceInv, [Next]_vars, NEW r \in Requests
               PROVE  Voice(req'[r], heard'[r])
    BY DEF VoiceInv
  <1> USE DEF TypeInv
  <1>0. req[r] \in Good /\ Voice(req[r], heard[r])
    BY DEF VoiceInv
  <1>1. CASE Resolve(r)
    BY <1>0, <1>1, VoiceMoves DEF Resolve
  <1>2. CASE Attempt(r)
    BY <1>0, <1>2, VoiceMoves DEF Attempt
  <1>3. CASE Refused(r)
    BY <1>0, <1>3, VoiceMoves DEF Refused
  <1>4. CASE GiveUp(r)
    BY <1>0, <1>4, VoiceMoves DEF GiveUp
  <1>5. CASE Emit(r)
    <2>1. /\ req[r].at = "calling"
          /\ req'[r] = Emitted(req[r])
          /\ heard'[r] = heard[r] \cup {req[r].attempts}
      BY <1>5 DEF Emit
    <2>2. QED
      BY <1>0, <2>1, VoiceMoves
  <1>6. CASE \E out \in Outcomes : Return(r, out)
    <2>1. PICK out \in Outcomes : Return(r, out)
      BY <1>6
    <2>2. req'[r] = Returned(req[r], out) /\ heard'[r] = heard[r]
      BY <2>1 DEF Return
    <2>3. QED
      BY <1>0, <2>2, VoiceMoves
  <1>7. CASE ContextEnds(r)
    BY <1>0, <1>7, VoiceMoves DEF ContextEnds
  <1>8. QED
    BY <1>0, <1>1, <1>2, <1>3, <1>4, <1>5, <1>6, <1>7, OwnSteps

(* A client never sees the output of two attempts (service.go:361).        *)
THEOREM OneVoiceHolds == Spec => []OneVoice
  <1>1. Init => VoiceInv
    BY DEF Init, VoiceInv, Voice, New
  <1>2. VoiceInv => OneVoice
    <2> SUFFICES ASSUME VoiceInv, NEW r \in Requests
                 PROVE  Cardinality(heard[r]) <= 1
      BY DEF OneVoice
    <2>1. heard[r] = {} \/ heard[r] = {req[r].attempts}
      BY DEF VoiceInv, Voice
    <2>2. Cardinality({}) = 0 /\ Cardinality({req[r].attempts}) = 1
      BY FS_EmptySet, FS_Singleton
    <2>3. QED
      BY <2>1, <2>2
  <1>3. QED
    BY <1>1, <1>2, TypeInit, TypeNext, VoiceNext, PTL DEF Spec

-----------------------------------------------------------------------------
(* Attempts.                                                               *)

(* The attempts made and those still possible stay within the plan, and a  *)
(* request that ended early had a reason.                                  *)
Ahead(q) == CASE q.at = "next"    -> q.tries + Cardinality(q.left) - 1
              [] q.at = "calling" -> q.tries + Cardinality(q.left) - 2
              [] OTHER            -> 0

Within(q, n) ==
    /\ q.at = "new" => q.attempts = 0
    /\ q.attempts + Ahead(q) <= n + NumRoutes - 1
    /\ q.at = "done" /\ q.out \in {"none", "eligible"} => q.left = {} \/ q.output

LEMMA WithinMoves ==
    ASSUME NEW q \in Good, NEW n \in Nat \ {0}, Within(q, n)
    PROVE  /\ q.at = "new" => \A plan \in SUBSET Routes :
                                 Within(Planned(q, plan, n), n)
           /\ q.at = "next" => \A p \in BOOLEAN : Within(Called(q, p), n)
           /\ q.at = "next" => Within(Stopped(q, "canceled"), n)
           /\ q.at = "next" => Within(FailedOver(q, q.out), n)
           /\ q.at = "calling" =>
                \A out \in Outcomes : Within(Returned(q, out), n)
           /\ q.at \in {"next", "calling"} => Within(Expired(q), n)
           /\ q.at = "calling" => Within(Emitted(q), n)
  <1> DEFINE c == Cardinality(q.left)
             b == n + NumRoutes - 1
  <1>0. /\ q \in Request /\ q.tries \in Nat /\ q.attempts \in Nat
        /\ q.at \in {"new", "next", "calling", "done"}
        /\ q.left \in SUBSET Routes
    BY DEF Good, Request
  <1>1. /\ c \in Nat /\ b \in Nat
        /\ q.at \in {"next", "calling"} => q.tries > 0 /\ c > 0
        /\ q.at \in {"next", "calling"} =>
              Cardinality(q.left \ {Best(q.left)}) = c - 1
    BY <1>0, PlanFinite, RouteAssumption DEF Good, GoesOn, RouteAssumption
  <1>2. /\ q.at = "new" => q.attempts = 0
        /\ q.at = "next" => q.attempts + q.tries + c - 1 <= b
        /\ q.at = "calling" => q.attempts + q.tries + c - 2 <= b
    BY <1>0, <1>1 DEF Within, Ahead
  <1> HIDE DEF c, b
  <1>3. ASSUME q.at = "new", NEW plan \in SUBSET Routes
        PROVE  Within(Planned(q, plan, n), n)
    <2>1. /\ Planned(q, plan, n).attempts = 0
          /\ Planned(q, plan, n).tries = n
          /\ Planned(q, plan, n).left = plan
          /\ Planned(q, plan, n).at = IF plan = {} THEN "done" ELSE "next"
      BY <1>0, <1>2, <1>3 DEF Planned, Request
    <2>2. Cardinality(plan) \in Nat /\ Cardinality(plan) <= NumRoutes
      BY PlanFinite
    <2>3. QED
      BY <2>1, <2>2, RouteAssumption DEF Within, Ahead, RouteAssumption
  <1>4. ASSUME q.at = "next", NEW p \in BOOLEAN
        PROVE  Within(Called(q, p), n)
    <2>1. /\ Called(q, p).at = "calling"
          /\ Called(q, p).attempts = q.attempts + 1
          /\ Called(q, p).tries = q.tries
          /\ Called(q, p).left = q.left
      BY <1>0 DEF Called, Request
    <2>2. QED
      BY <1>0, <1>1, <1>2, <1>4, <2>1 DEF Within, Ahead, c, b
  <1>5. ASSUME q.at \in {"next", "calling"}, NEW out,
               out \in {"none", "eligible"} => q.output
        PROVE  Within(Stopped(q, out), n)
    <2>1. /\ Stopped(q, out).at = "done"
          /\ Stopped(q, out).attempts = q.attempts
          /\ Stopped(q, out).out = out
          /\ Stopped(q, out).output = q.output
      BY <1>0 DEF Stopped, Request
    <2>2. q.attempts <= b
      BY <1>0, <1>1, <1>2, <1>5
    <2>3. QED
      BY <1>0, <1>5, <2>1, <2>2 DEF Within, Ahead, b
  <1>6. ASSUME q.at \in {"next", "calling"}, NEW out
        PROVE  Within(FailedOver(q, out), n)
    <2> DEFINE left == q.left \ {Best(q.left)}
    <2>1. /\ FailedOver(q, out).at = IF left = {} THEN "done" ELSE "next"
          /\ FailedOver(q, out).attempts = q.attempts
          /\ FailedOver(q, out).tries = 1
          /\ FailedOver(q, out).left = left
      BY <1>0 DEF FailedOver, Request
    <2>2. /\ Cardinality(left) = c - 1
          /\ q.attempts + c - 1 <= b
      BY <1>0, <1>1, <1>2, <1>6
    <2> HIDE DEF left
    <2>3. QED
      BY <1>0, <1>1, <2>1, <2>2 DEF Within, Ahead, b
  <1>7. ASSUME q.at = "calling", q.tries > 1, NEW out
        PROVE  Within(Retried(q, out), n)
    <2>1. /\ Retried(q, out).at = "next"
          /\ Retried(q, out).attempts = q.attempts
          /\ Retried(q, out).tries = q.tries - 1
          /\ Retried(q, out).left = q.left
      BY <1>0 DEF Retried, Request
    <2>2. QED
      BY <1>0, <1>1, <1>2, <1>7, <2>1 DEF Within, Ahead, c, b
  <1>8. ASSUME q.at = "calling", NEW out \in Outcomes
        PROVE  Within(Returned(q, out), n)
    <2>1. q.over \in BOOLEAN /\ q.output \in BOOLEAN
      BY <1>0 DEF Request
    <2>2. out \in {"ok", "eligible", "fatal"}
      BY <1>8 DEF Outcomes
    <2>3. QED
      BY <1>5, <1>6, <1>7, <1>8, <2>1, <2>2 DEF Returned, Failed
  <1>9. /\ q.at \in {"next", "calling"} => Within(Expired(q), n)
        /\ q.at = "calling" => Within(Emitted(q), n)
    BY <1>0 DEF Within, Ahead, Expired, Emitted, Request
  <1>10. q.at = "next" => Within(Stopped(q, "canceled"), n)
    BY <1>5
  <1>11. QED
    BY <1>3, <1>4, <1>6, <1>8, <1>9, <1>10

WithinInv == \A r \in Requests : Within(req[r], Tries(r))

LEMMA WithinNext == TypeInv /\ WithinInv /\ [Next]_vars => WithinInv'
  <1> SUFFICES ASSUME TypeInv, WithinInv, [Next]_vars, NEW r \in Requests
               PROVE  Within(req'[r], Tries(r))
    BY DEF WithinInv, Tries
  <1> USE DEF TypeInv
  <1>0. /\ req[r] \in Good
        /\ Tries(r) \in Nat \ {0}
        /\ Within(req[r], Tries(r))
    BY TriesType DEF WithinInv
  <1>1. CASE Resolve(r)
    <2>1. (IF listed THEN enabled ELSE {}) \in SUBSET Routes
      OBVIOUS
    <2>2. QED
      BY <1>0, <1>1, <2>1, WithinMoves DEF Resolve
  <1>2. CASE Attempt(r)
    BY <1>0, <1>2, WithinMoves DEF Attempt
  <1>3. CASE Refused(r)
    BY <1>0, <1>3, WithinMoves DEF Refused
  <1>4. CASE GiveUp(r)
    BY <1>0, <1>4, WithinMoves DEF GiveUp
  <1>5. CASE Emit(r)
    BY <1>0, <1>5, WithinMoves DEF Emit
  <1>6. CASE \E out \in Outcomes : Return(r, out)
    BY <1>0, <1>6, WithinMoves DEF Return
  <1>7. CASE ContextEnds(r)
    BY <1>0, <1>7, WithinMoves DEF ContextEnds
  <1>8. QED
    BY <1>0, <1>1, <1>2, <1>3, <1>4, <1>5, <1>6, <1>7, OwnSteps

LEMMA WithinInit == Init => WithinInv
  <1> SUFFICES ASSUME Init, NEW r \in Requests
               PROVE  Within(New, Tries(r))
    BY DEF Init, WithinInv
  <1>1. QED
    BY TriesType, RouteAssumption DEF Within, Ahead, New, RouteAssumption

LEMMA WithinHolds == Spec => [](TypeInv /\ WithinInv)
  BY TypeInit, TypeNext, WithinInit, WithinNext, PTL DEF Spec

(* Retries and failover never add up to more attempts than the plan has:   *)
(* the tries on the primary and one on each other route.                   *)
THEOREM AttemptsBounded == Spec => []AttemptsWithinPlan
  <1>1. TypeInv /\ WithinInv => AttemptsWithinPlan
    <2> SUFFICES ASSUME TypeInv, WithinInv, NEW r \in Requests
                 PROVE  req[r].attempts <= Tries(r) + NumRoutes - 1
      BY DEF AttemptsWithinPlan
    <2>1. /\ req[r] \in Good
          /\ req[r].left \in SUBSET Routes
          /\ req[r].attempts \in Nat /\ req[r].tries \in Nat
      BY DEF TypeInv, Good, Request
    <2>2. /\ Cardinality(req[r].left) \in Nat
          /\ req[r].at \in {"next", "calling"} =>
                req[r].tries > 0 /\ Cardinality(req[r].left) > 0
      BY <2>1, PlanFinite DEF Good, GoesOn
    <2>3. Ahead(req[r]) \in Nat
      BY <2>1, <2>2 DEF Ahead
    <2>4. req[r].attempts + Ahead(req[r]) <= Tries(r) + NumRoutes - 1
      BY DEF WithinInv, Within
    <2>5. Tries(r) \in Nat /\ NumRoutes \in Nat
      BY TriesType, RouteAssumption DEF RouteAssumption
    <2>6. QED
      BY <2>1, <2>3, <2>4, <2>5
  <1>2. QED
    BY <1>1, WithinHolds, PTL

(* A request gives up while its context lasts only after output, on a      *)
(* fatal error or with every candidate tried or refused.                   *)
THEOREM NoEarlyFailureHolds == Spec => []NoEarlyFailure
  <1>1. WithinInv => NoEarlyFailure
    BY DEF WithinInv, Within, NoEarlyFailure
  <1>2. QED
    BY <1>1, WithinHolds, PTL

=============================================================================
