-------------------------- MODULE Admission_proofs --------------------------
(***************************************************************************)
(* Proofs about admission for any number of requests, subjects, limits,    *)
(* days and faults: counters, ledger rows and slots keep account of what   *)
(* the requests hold.  The inductive invariant IInv gives every request a  *)
(* share of each counter it was charged against (its estimate until it is  *)
(* finalized, then its usage or nothing) and says that a counter is the    *)
(* total of the shares; a step of a request moves its own share only.      *)
(***************************************************************************)
EXTENDS Admission, FiniteSetTheorems, SequenceTheorems, TLAPS

-----------------------------------------------------------------------------
(* Totals of amounts over a finite set.                                    *)

Units(n) == UNION {{r} \X (1 .. n[r]) : r \in DOMAIN n}

LEMMA TotalIs == \A n : Total(n) = Cardinality(Units(n))
  BY DEF Total, Units

LEMMA UnitsAre ==
    ASSUME NEW S, NEW n \in [S -> Nat]
    PROVE  \A u : u \in Units(n) <=> \E r \in S : u \in {r} \X (1 .. n[r])
  BY DEF Units

LEMMA UnitsFinite ==
    ASSUME NEW S, IsFiniteSet(S), NEW n \in [S -> Nat]
    PROVE  IsFiniteSet(Units(n))
  <1> DEFINE f == [r \in S |-> {r} \X (1 .. n[r])]
             T == {{r} \X (1 .. n[r]) : r \in S}
  <1>1. f \in Surjection(S, T)
    BY DEF Surjection
  <1>2. IsFiniteSet(T)
    BY <1>1, FS_Surjection
  <1>3. ASSUME NEW U \in T PROVE IsFiniteSet(U)
    <2>1. PICK r \in S : U = {r} \X (1 .. n[r])
      OBVIOUS
    <2>2. n[r] \in Int /\ IsFiniteSet(1 .. n[r])
      BY FS_Interval
    <2> QED BY <2>1, <2>2, FS_Singleton, FS_Product
  <1>4. Units(n) = UNION T
    BY DEF Units
  <1> HIDE DEF T
  <1> QED BY <1>2, <1>3, <1>4, FS_UNION

LEMMA TotalNat ==
    ASSUME NEW S, IsFiniteSet(S), NEW n \in [S -> Nat]
    PROVE  Total(n) \in Nat
  BY UnitsFinite, FS_CardinalityType, TotalIs

LEMMA TotalGrows ==
    ASSUME NEW S, IsFiniteSet(S), NEW a \in [S -> Nat], NEW b \in [S -> Nat],
           \A r \in S : a[r] <= b[r]
    PROVE  Total(a) <= Total(b)
  <1>1. Units(a) \subseteq Units(b)
    <2> SUFFICES ASSUME NEW r \in S PROVE {r} \X (1 .. a[r]) \subseteq {r} \X (1 .. b[r])
      BY UnitsAre
    <2> a[r] \in Nat /\ b[r] \in Nat /\ a[r] <= b[r]
      OBVIOUS
    <2> 1 .. a[r] \subseteq 1 .. b[r]
      OBVIOUS
    <2> QED OBVIOUS
  <1> QED BY <1>1, UnitsFinite, FS_Subset, TotalIs

LEMMA TotalSame ==
    ASSUME NEW S, IsFiniteSet(S), NEW a \in [S -> Nat], NEW b \in [S -> Nat],
           \A r \in S : a[r] = b[r]
    PROVE  Total(a) = Total(b)
  <1>1. a = b
    OBVIOUS
  <1> QED BY <1>1

LEMMA TotalSplit ==
    ASSUME NEW S, IsFiniteSet(S), NEW n \in [S -> Nat], NEW x \in S
    PROVE  Total(n) = Total([r \in S \ {x} |-> n[r]]) + n[x]
  <1> DEFINE m == [r \in S \ {x} |-> n[r]]
             B == {x} \X (1 .. n[x])
  <1>1. m \in [S \ {x} -> Nat] /\ IsFiniteSet(S \ {x}) /\ \A r \in S \ {x} : m[r] = n[r]
    BY FS_RemoveElement
  <1>2. IsFiniteSet(Units(m)) /\ IsFiniteSet(B) /\ Cardinality(B) = n[x]
    <2>1. n[x] \in Nat /\ IsFiniteSet(1 .. n[x]) /\ Cardinality(1 .. n[x]) = n[x]
      BY FS_Interval
    <2>2. IsFiniteSet({x}) /\ Cardinality({x}) = 1
      BY FS_Singleton
    <2>3. IsFiniteSet(B) /\ Cardinality(B) = Cardinality({x}) * Cardinality(1 .. n[x])
      BY <2>1, <2>2, FS_Product
    <2>4. IsFiniteSet(Units(m))
      BY <1>1, UnitsFinite
    <2>5. 1 * n[x] = n[x]
      BY <2>1
    <2> HIDE DEF B, m
    <2> QED BY <2>1, <2>2, <2>3, <2>4, <2>5
  <1>3. \A u : u \in Units(m) <=> \E r \in S \ {x} : u \in {r} \X (1 .. n[r])
    BY <1>1, UnitsAre
  <1> HIDE DEF m
  <1>4. Units(n) = Units(m) \cup B
    BY <1>3, UnitsAre
  <1>5. Units(m) \cap B = {}
    BY <1>3
  <1> HIDE DEF B
  <1>6. Cardinality(Units(n)) = Cardinality(Units(m)) + Cardinality(B) - Cardinality({})
    BY <1>2, <1>4, <1>5, FS_Union
  <1>7. Cardinality({}) = 0 /\ Cardinality(Units(m)) \in Nat /\ n[x] \in Nat
    BY <1>2, FS_EmptySet, FS_CardinalityType
  <1>8. Total(n) = Total(m) + n[x]
    BY <1>2, <1>6, <1>7, TotalIs
  <1> QED BY <1>8 DEF m

(* Only one amount changes.                                                *)
LEMMA TotalMoves ==
    ASSUME NEW S, IsFiniteSet(S), NEW a \in [S -> Nat], NEW b \in [S -> Nat],
           NEW x \in S, \A r \in S \ {x} : a[r] = b[r]
    PROVE  Total(b) = Total(a) - a[x] + b[x]
  <1> DEFINE am == [r \in S \ {x} |-> a[r]]
             bm == [r \in S \ {x} |-> b[r]]
  <1>1. am = bm
    OBVIOUS
  <1>2. Total(a) = Total(am) + a[x] /\ Total(b) = Total(bm) + b[x]
    BY TotalSplit
  <1>3. am \in [S \ {x} -> Nat] /\ IsFiniteSet(S \ {x})
    BY FS_RemoveElement
  <1>4. Total(am) \in Nat /\ a[x] \in Nat /\ b[x] \in Nat
    BY <1>3, TotalNat
  <1> HIDE DEF am, bm
  <1> QED BY <1>1, <1>2, <1>4

LEMMA TotalZero ==
    ASSUME NEW S, NEW n \in [S -> Nat], \A r \in S : n[r] = 0
    PROVE  Total(n) = 0
  <1>1. \A u : u \notin Units(n)
    BY UnitsAre
  <1>2. Units(n) = {}
    BY <1>1
  <1> QED BY <1>2, TotalIs, FS_EmptySet

(* Leaving out the requests of amount zero changes nothing.                *)
LEMMA TotalOver ==
    ASSUME NEW S, NEW T \in SUBSET S, NEW n \in [S -> Nat],
           \A r \in S \ T : n[r] = 0
    PROVE  Total([r \in T |-> n[r]]) = Total(n)
  <1> DEFINE m == [r \in T |-> n[r]]
  <1>1. m \in [T -> Nat] /\ \A r \in T : m[r] = n[r]
    OBVIOUS
  <1>2. \A u : u \in Units(m) <=> \E r \in T : u \in {r} \X (1 .. n[r])
    BY <1>1, UnitsAre
  <1> HIDE DEF m
  <1>3. Units(m) = Units(n)
    <2>1. \A r \in S \ T : 1 .. n[r] = {}
      OBVIOUS
    <2> QED BY <1>2, <2>1, UnitsAre
  <1>4. Total(m) = Total(n)
    BY <1>3, TotalIs
  <1> QED BY <1>4 DEF m

-----------------------------------------------------------------------------
(* What a request still has to finalize is the end of the list its outcome *)
(* gave it, or the slot alone.                                             *)

Answer4 == <<"quota", "ledger", "budget", "slot">>
Answer3 == <<"ledger", "budget", "slot">>
Answer2 == <<"budget", "slot">>
Fail4   == <<"quota", "budget", "ledger", "slot">>
Fail3   == <<"budget", "ledger", "slot">>
Fail2   == <<"ledger", "slot">>
Refuse3 == <<"budget", "quota", "slot">>
Refuse2 == <<"quota", "slot">>
Last    == <<"slot">>
Nil     == <<>>

AnswerTodos  == {Answer4, Answer3, Answer2, Last}
FailTodos    == {Fail4, Fail3, Fail2, Last}
RefusalTodos == {Refuse3, Refuse2, Last}
Todos == AnswerTodos \cup FailTodos \cup RefusalTodos

Awaiting(work) ==
    IF work = "quota" THEN {Answer4, Fail4, Refuse3, Refuse2}
    ELSE IF work = "budget" THEN {Answer4, Answer3, Answer2, Fail4, Fail3, Refuse3}
    ELSE {Answer4, Answer3, Fail4, Fail3, Fail2}

LEMMA TodoHeads ==
    /\ Head(Answer4) = "quota" /\ Head(Fail4) = "quota" /\ Head(Refuse2) = "quota"
    /\ Head(Refuse3) = "budget" /\ Head(Fail3) = "budget" /\ Head(Answer2) = "budget"
    /\ Head(Answer3) = "ledger" /\ Head(Fail2) = "ledger"
    /\ Head(Last) = "slot"
  BY DEF Answer4, Answer3, Fail4, Fail3, Fail2, Refuse3, Refuse2, Answer2, Last

LEMMA TodoTails ==
    /\ Tail(Answer4) = Answer3 /\ Tail(Answer3) = Answer2 /\ Tail(Answer2) = Last
    /\ Tail(Fail4) = Fail3 /\ Tail(Fail3) = Fail2 /\ Tail(Fail2) = Last
    /\ Tail(Refuse3) = Refuse2 /\ Tail(Refuse2) = Last
    /\ Tail(Last) = Nil
  <1>1. Tail(Answer4) = Answer3 /\ Tail(Answer3) = Answer2 /\ Tail(Answer2) = Last
    BY DEF Answer4, Answer3, Answer2, Last
  <1>2. Tail(Fail4) = Fail3 /\ Tail(Fail3) = Fail2 /\ Tail(Fail2) = Last
    BY DEF Fail4, Fail3, Fail2, Last
  <1>3. Tail(Refuse3) = Refuse2 /\ Tail(Refuse2) = Last /\ Tail(Last) = Nil
    BY DEF Refuse3, Refuse2, Last, Nil
  <1> QED BY <1>1, <1>2, <1>3

LEMMA TodoLengths ==
    /\ Len(Answer4) = 4 /\ Len(Fail4) = 4
    /\ Len(Answer3) = 3 /\ Len(Fail3) = 3 /\ Len(Refuse3) = 3
    /\ Len(Fail2) = 2 /\ Len(Answer2) = 2 /\ Len(Refuse2) = 2
    /\ Len(Last) = 1 /\ Len(Nil) = 0
  BY DEF Answer4, Answer3, Fail4, Fail3, Fail2, Refuse3, Refuse2, Answer2, Last, Nil

LEMMA TodoDistinct ==
    /\ Answer4 \notin {Fail4, Answer3, Fail3, Refuse3, Fail2, Refuse2, Answer2, Last, Nil}
    /\ Fail4 \notin {Answer3, Fail3, Refuse3, Fail2, Refuse2, Answer2, Last, Nil}
    /\ Answer3 \notin {Fail3, Refuse3, Fail2, Refuse2, Answer2, Last, Nil}
    /\ Fail3 \notin {Refuse3, Fail2, Refuse2, Answer2, Last, Nil}
    /\ Refuse3 \notin {Fail2, Refuse2, Answer2, Last, Nil}
    /\ Fail2 \notin {Refuse2, Answer2, Last, Nil}
    /\ Refuse2 \notin {Answer2, Last, Nil}
    /\ Answer2 \notin {Last, Nil}
    /\ Last # Nil
  <1>1. Answer4 # Fail4 /\ Fail3 # Refuse3
    BY DEF Answer4, Fail4, Fail3, Refuse3
  <1>2. /\ Answer4 \notin {Answer3, Fail3, Refuse3, Fail2, Refuse2, Answer2, Last, Nil}
        /\ Fail4 \notin {Answer3, Fail3, Refuse3, Fail2, Refuse2, Answer2, Last, Nil}
    BY TodoLengths
  <1>3. /\ Answer3 \notin {Fail2, Refuse2, Answer2, Last, Nil}
        /\ Fail3 \notin {Fail2, Refuse2, Answer2, Last, Nil}
        /\ Refuse3 \notin {Fail2, Refuse2, Answer2, Last, Nil}
    BY TodoLengths
  <1>4. {Fail2, Refuse2, Answer2} \cap {Last, Nil} = {} /\ Last # Nil
    BY TodoLengths
  <1>5. Answer3 \notin {Fail3, Refuse3}
    BY TodoHeads
  <1>6. Fail2 \notin {Refuse2, Answer2} /\ Refuse2 # Answer2
    BY TodoHeads
  <1> QED BY <1>1, <1>2, <1>3, <1>4, <1>5, <1>6

LEMMA TodoTypes ==
    /\ \A t \in Todos \cup {Nil} : t \in Seq(Work)
    /\ <<>> = Nil
  BY DEF Todos, AnswerTodos, FailTodos, RefusalTodos, Work,
         Answer4, Answer3, Answer2, Fail4, Fail3, Fail2, Refuse3, Refuse2, Last, Nil

(* A settlement that starts over.                                          *)
LEMMA TodoAgain == <<"quota">> \o Answer3 = Answer4
  <1> DEFINE c == <<"quota">> \o Answer3
  <1>1. Answer3 \in Seq(Work) /\ Answer4 \in Seq(Work) /\ <<"quota">> \in Seq(Work)
    BY DEF Answer4, Answer3, Work
  <1>2. /\ c \in Seq(Work)
        /\ Len(c) = Len(<<"quota">>) + Len(Answer3)
        /\ \A i \in 1 .. Len(<<"quota">>) + Len(Answer3) :
              c[i] = IF i <= Len(<<"quota">>) THEN <<"quota">>[i]
                     ELSE Answer3[i - Len(<<"quota">>)]
    BY <1>1, ConcatProperties
  <1>3. Len(<<"quota">>) = 1 /\ Len(Answer3) = 3 /\ Len(Answer4) = 4
    BY DEF Answer3, Answer4
  <1>4. c[1] = Answer4[1] /\ c[2] = Answer4[2] /\ c[3] = Answer4[3] /\ c[4] = Answer4[4]
    BY <1>2, <1>3 DEF Answer4, Answer3
  <1>5. Len(c) = 4
    BY <1>2, <1>3
  <1> HIDE DEF c
  <1>6. \A i \in 1 .. 4 : c[i] = Answer4[i]
    BY <1>4
  <1>7. c = Answer4
    BY <1>1, <1>2, <1>3, <1>5, <1>6, SeqEqual
  <1> QED BY <1>7 DEF c

-----------------------------------------------------------------------------
(* The inductive invariant: what each request holds.                       *)

Past(g) == IF g = "quota" THEN {"metered", "charged", "running"}
                          ELSE {"charged", "running"}

Rec == [at : At, out : Out, todo : Seq(Work), day : [Gates -> 0 .. MaxDay],
        used : [Gates -> Actual \cup {None}], tries : 1 .. 2]

(* Where a request is, how its call ended and what is left to finalize.    *)
Shape(q) ==
    /\ q.at # "finishing" => q.todo = Nil
    /\ q.at \notin {"finishing", "done"} => q.out = "none"
    /\ q.at = "finishing" =>
          \/ q.out = "answered" /\ q.todo \in AnswerTodos
          \/ q.out = "failed" /\ q.todo \in FailTodos
          \/ q.out = "refused" /\ q.todo \in RefusalTodos
          \/ q.out = "truncated" /\ q.todo = Last

(* The estimate of gate g that request q has not settled or given back.    *)
Holds(g, q) ==
    \/ q.out \in {"answered", "truncated"}
    \/ q.at \in Past(g)
    \/ q.todo \in Awaiting(g)

(* A finalized request knows its usage or has nothing left to give back.   *)
Final(g, q) ==
    /\ q.at \in {"finishing", "done"}
    /\ \/ q.out = "answered" /\ q.used[g] # None
       \/ q.out \in {"failed", "refused"} /\ q.todo \notin Awaiting(g)

(* A request q = req[r] under the finalize markers M, with f faults.       *)
RequestOK(r, q, M, f) ==
    /\ q \in Request(r)
    /\ Shape(q)
    /\ \A g \in Gates : <<g, r>> \in M => Final(g, q)
    /\ f = 0 /\ q.at = "done" => q.out # "none"
    /\ f = 0 /\ q.out = "answered" =>
          \A g \in Gates :
              q.used[g] # None => <<g, r>> \in M \/ q.todo \in Awaiting(g)

(* What request q = req[r] leaves on a counter key, and by how much it     *)
(* passes its estimate there.                                              *)
On(key, r, q) == key \in KeysOf(GateOf(key), r, q.day[GateOf(key)])

Share(key, r, q, M) ==
    LET g == GateOf(key)
    IN  IF On(key, r, q)
        THEN IF <<g, r>> \in M
             THEN IF q.out = "answered" THEN q.used[g] ELSE 0
             ELSE IF Holds(g, q) THEN Estimate[g] ELSE 0
        ELSE 0

Over(key, r, q, M) ==
    LET g == GateOf(key)
    IN  IF On(key, r, q) /\ <<g, r>> \in M /\ q.used[g] # None
                         /\ q.used[g] > Estimate[g]
        THEN q.used[g] - Estimate[g] ELSE 0

Shares(key) == [r \in Requests |-> Share(key, r, req[r], marker)]
Overs(key)  == [r \in Requests |-> Over(key, r, req[r], marker)]

(* A counter holds at least what the requests leave on it (exactly that    *)
(* without faults), and passes its limit only by their overruns.           *)
Tallied(key) ==
    /\ Amount(key) \in Int
    /\ Amount(key) >= Total(Shares(key))
    /\ faults = 0 => Amount(key) = Total(Shares(key))
    /\ Amount(key) <= LimitOf(key) + Total(Overs(key))

(* A counter someone holds a charge on exists until its time has passed.   *)
Kept(key, r) ==
    On(key, r, req[r]) /\ Holds(GateOf(key), req[r]) =>
        key \in DOMAIN counter \/ day >= GoneOn(key)

TypesOK ==
    /\ req \in [Requests -> Rec]
    /\ marker \subseteq Gates \X Requests
    /\ slots \subseteq Requests
    /\ ledger \in [Identities -> [reserved : Nat, settled : BOOLEAN]]
    /\ day \in 0 .. MaxDay
    /\ faults \in 0 .. MaxFaults
    /\ DOMAIN counter \subseteq Key
RequestsOK == \A r \in Requests : RequestOK(r, req[r], marker, faults)
CountersOK == \A key \in DOMAIN counter : Tallied(key)
KeysKept   == \A key \in Key, r \in Requests : Kept(key, r)

IInv == TypesOK /\ RequestsOK /\ CountersOK /\ KeysKept

-----------------------------------------------------------------------------
(* Lists.                                                                  *)

LEMMA TodoSteps ==
    ASSUME NEW t \in Todos
    PROVE  /\ t = Last <=> Head(t) = "slot"
           /\ t = Last <=> Tail(t) = Nil
           /\ t # Last =>
                 /\ t \in AnswerTodos => Tail(t) \in AnswerTodos
                 /\ t \in FailTodos => Tail(t) \in FailTodos
                 /\ t \in RefusalTodos => Tail(t) \in RefusalTodos
           /\ \A w \in {"quota", "budget", "ledger"} :
                 /\ Tail(t) \in Awaiting(w) <=> t \in Awaiting(w) /\ Head(t) # w
                 /\ Head(t) = w => t \in Awaiting(w)
           /\ t \in AnswerTodos /\ Head(t) = "ledger" => t = Answer3
  <1>1. /\ t = Last <=> Head(t) = "slot"
        /\ t \in AnswerTodos /\ Head(t) = "ledger" => t = Answer3
    BY TodoHeads DEF Todos, AnswerTodos, FailTodos, RefusalTodos
  <1>2. t = Last <=> Tail(t) = Nil
    BY TodoTails, TodoDistinct DEF Todos, AnswerTodos, FailTodos, RefusalTodos
  <1>3. ASSUME t # Last
        PROVE  /\ t \in AnswerTodos => Tail(t) \in AnswerTodos
               /\ t \in FailTodos => Tail(t) \in FailTodos
               /\ t \in RefusalTodos => Tail(t) \in RefusalTodos
    BY <1>3, TodoTails DEF AnswerTodos, FailTodos, RefusalTodos
  <1>4. ASSUME NEW w \in {"quota", "budget", "ledger"}
        PROVE  /\ Tail(t) \in Awaiting(w) <=> t \in Awaiting(w) /\ Head(t) # w
               /\ Head(t) = w => t \in Awaiting(w)
    <2> DEFINE B(u) == /\ Tail(u) \in Awaiting(w) <=> u \in Awaiting(w) /\ Head(u) # w
                       /\ Head(u) = w => u \in Awaiting(w)
    <2>1. CASE w = "quota"
      <3>1. Awaiting(w) = {Answer4, Fail4, Refuse3, Refuse2}
        BY <2>1 DEF Awaiting
      <3>2. B(Answer4) /\ B(Answer3) /\ B(Answer2)
        BY <2>1, <3>1, TodoTails, TodoHeads, TodoDistinct
      <3>3. B(Fail4) /\ B(Fail3) /\ B(Fail2)
        BY <2>1, <3>1, TodoTails, TodoHeads, TodoDistinct
      <3>4. B(Refuse3) /\ B(Refuse2) /\ B(Last)
        BY <2>1, <3>1, TodoTails, TodoHeads, TodoDistinct
      <3> HIDE DEF B
      <3>5. B(t)
        BY <3>2, <3>3, <3>4 DEF Todos, AnswerTodos, FailTodos, RefusalTodos
      <3> QED BY <3>5 DEF B
    <2>2. CASE w = "budget"
      <3>1. Awaiting(w) = {Answer4, Answer3, Answer2, Fail4, Fail3, Refuse3}
        BY <2>2 DEF Awaiting
      <3>2. B(Answer4) /\ B(Answer3) /\ B(Answer2)
        BY <2>2, <3>1, TodoTails, TodoHeads, TodoDistinct
      <3>3. B(Fail4) /\ B(Fail3) /\ B(Fail2)
        BY <2>2, <3>1, TodoTails, TodoHeads, TodoDistinct
      <3>4. B(Refuse3) /\ B(Refuse2) /\ B(Last)
        BY <2>2, <3>1, TodoTails, TodoHeads, TodoDistinct
      <3> HIDE DEF B
      <3>5. B(t)
        BY <3>2, <3>3, <3>4 DEF Todos, AnswerTodos, FailTodos, RefusalTodos
      <3> QED BY <3>5 DEF B
    <2>3. CASE w = "ledger"
      <3>1. Awaiting(w) = {Answer4, Answer3, Fail4, Fail3, Fail2}
        BY <2>3 DEF Awaiting
      <3>2. B(Answer4) /\ B(Answer3) /\ B(Answer2)
        BY <2>3, <3>1, TodoTails, TodoHeads, TodoDistinct
      <3>3. B(Fail4) /\ B(Fail3) /\ B(Fail2)
        BY <2>3, <3>1, TodoTails, TodoHeads, TodoDistinct
      <3>4. B(Refuse3) /\ B(Refuse2) /\ B(Last)
        BY <2>3, <3>1, TodoTails, TodoHeads, TodoDistinct
      <3> HIDE DEF B
      <3>5. B(t)
        BY <3>2, <3>3, <3>4 DEF Todos, AnswerTodos, FailTodos, RefusalTodos
      <3> QED BY <3>5 DEF B
    <2> QED BY <2>1, <2>2, <2>3
  <1> QED BY <1>1, <1>2, <1>3, <1>4

LEMMA NilAwaits == \A w : Nil \notin Awaiting(w) /\ Last \notin Awaiting(w)
  BY TodoDistinct DEF Awaiting

-----------------------------------------------------------------------------
(* Counter keys.                                                           *)

LEMMA GatesAre == "quota" \in Gates /\ "budget" \in Gates /\ \A key : GateOf(key) \in Gates
  BY DEF Gates, GateOf

LEMMA Division ==
    ASSUME NEW d \in Nat, NEW D \in Nat \ {0}
    PROVE  d \div D \in 0 .. d /\ d < (d \div D + 1) * D
  <1>1. d = D * (d \div D) + (d % D) /\ d % D \in 0 .. (D - 1) /\ d \div D \in Int
    OBVIOUS
  <1> QED BY <1>1

LEMMA PeriodType ==
    ASSUME NEW k, NEW d \in 0 .. MaxDay
    PROVE  Period(k, d) \in 0 .. MaxDay
  <1> d \in Nat /\ DaysPerMonth \in Nat \ {0} /\ MaxDay \in Nat
    BY CalendarAssumption DEF CalendarAssumption
  <1>1. d \div DaysPerMonth \in 0 .. d
    BY Division
  <1> QED BY <1>1 DEF Period

LEMMA KeyIs ==
    ASSUME NEW g \in Gates, NEW r \in Requests, NEW d \in 0 .. MaxDay,
           NEW key \in KeysOf(g, r, d)
    PROVE  key \in Key /\ GateOf(key) = g /\ key[3] \in Kinds
           /\ key[4] = Period(key[3], d) /\ LimitOf(key) \in Nat
  <1>1. PICK x \in Capped(g) : key = <<x[1], Owner(x[1], r), x[2], Period(x[2], d)>>
    BY DEF KeysOf
  <1>2. x[1] \in ScopesOf(g) /\ x[2] \in Kinds
    BY DEF Capped
  <1>3. Period(x[2], d) \in 0 .. MaxDay
    BY PeriodType
  <1>4. Owner(x[1], r) \in Subjects \cup Tenants
    BY RequestAssumption DEF RequestAssumption, Owner
  <1>5. x[1] \in Scopes
    BY <1>2 DEF ScopesOf, Scopes
  <1>6. key[1] = x[1] /\ key[3] = x[2] /\ key[4] = Period(x[2], d)
    BY <1>1
  <1>7. key \in Key
    BY <1>1, <1>2, <1>3, <1>4, <1>5 DEF Key
  <1>8. GateOf(key) = g
    BY <1>2, <1>6 DEF GateOf, ScopesOf, Gates
  <1>9. LimitOf(key) \in Nat
    BY <1>2, <1>5, <1>6, LimitAssumption DEF LimitAssumption, LimitOf
  <1> QED BY <1>2, <1>6, <1>7, <1>8, <1>9

LEMMA KeyLimit ==
    ASSUME NEW key \in Key
    PROVE  LimitOf(key) \in Nat
  <1>1. key[1] \in Scopes /\ key[3] \in Kinds
    BY DEF Key
  <1> QED BY <1>1, LimitAssumption DEF LimitAssumption, LimitOf

(* A counter charged today has not passed its time to live.                *)
LEMMA KeyLives ==
    ASSUME NEW g \in Gates, NEW r \in Requests, NEW d \in 0 .. MaxDay,
           NEW key \in KeysOf(g, r, d)
    PROVE  d < GoneOn(key)
  <1>1. key[3] \in Kinds /\ key[4] = Period(key[3], d)
    BY KeyIs
  <1>2. d \in Nat /\ DaysPerMonth \in Nat \ {0} /\ Grace \in Nat
    BY CalendarAssumption DEF CalendarAssumption
  <1>3. CASE key[3] = "day"
    BY <1>1, <1>2, <1>3 DEF GoneOn, Period
  <1>4. CASE key[3] # "day"
    <2>1. d \div DaysPerMonth \in 0 .. d /\ d < (d \div DaysPerMonth + 1) * DaysPerMonth
      BY <1>2, Division
    <2>2. key[4] = d \div DaysPerMonth
      BY <1>1, <1>4 DEF Period
    <2>3. GoneOn(key) = (key[4] + 1) * DaysPerMonth + Grace
      BY <1>4 DEF GoneOn
    <2> DEFINE y == (key[4] + 1) * DaysPerMonth
    <2>4. y \in Int /\ d < y
      BY <1>2, <2>1, <2>2
    <2> HIDE DEF y
    <2>5. d < y + Grace
      BY <1>2, <2>4
    <2> QED BY <2>3, <2>5 DEF y
  <1> QED BY <1>3, <1>4

-----------------------------------------------------------------------------
(* What requests leave on counters.                                        *)

LEMMA ShareType ==
    ASSUME NEW key, NEW r \in Requests, NEW q, NEW M, NEW f, RequestOK(r, q, M, f)
    PROVE  Share(key, r, q, M) \in Nat /\ Over(key, r, q, M) \in Nat
  <1> DEFINE g == GateOf(key)
  <1>1. g \in Gates
    BY GatesAre
  <1>2. Estimate[g] \in Nat \ {0} /\ Actual \subseteq Nat
    BY <1>1, LimitAssumption DEF LimitAssumption
  <1>3. q.used[g] \in Actual \cup {None}
    BY <1>1 DEF RequestOK, Request
  <1>4. <<g, r>> \in M /\ q.out = "answered" => q.used[g] # None
    BY <1>1 DEF RequestOK, Final
  <1>5. <<g, r>> \in M /\ q.out = "answered" => q.used[g] \in Nat
    BY <1>2, <1>3, <1>4
  <1>6. q.used[g] # None => q.used[g] \in Nat
    BY <1>2, <1>3
  <1>7. Share(key, r, q, M) \in Nat
    BY <1>2, <1>5 DEF Share
  <1>8. Over(key, r, q, M) \in Nat
    BY <1>2, <1>6 DEF Over
  <1> QED BY <1>7, <1>8

LEMMA SharesType ==
    ASSUME RequestsOK, NEW key
    PROVE  /\ Shares(key) \in [Requests -> Nat] /\ Overs(key) \in [Requests -> Nat]
           /\ IsFiniteSet(Requests)
           /\ Total(Shares(key)) \in Nat /\ Total(Overs(key)) \in Nat
  <1>1. \A r \in Requests : Share(key, r, req[r], marker) \in Nat
                            /\ Over(key, r, req[r], marker) \in Nat
    BY ShareType DEF RequestsOK
  <1>2. Shares(key) \in [Requests -> Nat] /\ Overs(key) \in [Requests -> Nat]
    BY <1>1 DEF Shares, Overs
  <1>3. IsFiniteSet(Requests)
    BY RequestAssumption DEF RequestAssumption
  <1> QED BY <1>2, <1>3, TotalNat

(* One request moves and a counter with it.                                *)
LEMMA CounterMoves ==
    ASSUME TypesOK, RequestsOK, RequestsOK',
           NEW key, Tallied(key), LimitOf(key) \in Nat,
           NEW r \in Requests, NEW delta \in Int,
           \A x \in Requests \ {r} :
              req'[x] = req[x] /\ (<<GateOf(key), x>> \in marker' <=> <<GateOf(key), x>> \in marker),
           Amount(key)' = Amount(key) + delta,
           Share(key, r, req'[r], marker') <= Share(key, r, req[r], marker) + delta,
           faults' = 0 =>
              /\ faults = 0
              /\ Share(key, r, req'[r], marker') = Share(key, r, req[r], marker) + delta,
           \/ Over(key, r, req'[r], marker') >= Over(key, r, req[r], marker) + delta
           \/ Amount(key)' <= LimitOf(key)
    PROVE  Tallied(key)'
  <1> DEFINE a == Shares(key)
             b == [x \in Requests |-> Share(key, x, req'[x], marker')]
             c == Overs(key)
             d == [x \in Requests |-> Over(key, x, req'[x], marker')]
  <1>1. b = Shares(key)' /\ d = Overs(key)'
    BY DEF Shares, Overs
  <1>2. a \in [Requests -> Nat] /\ c \in [Requests -> Nat] /\ IsFiniteSet(Requests)
        /\ Total(a) \in Nat /\ Total(c) \in Nat
    BY SharesType
  <1>3. \A x \in Requests : Share(key, x, req'[x], marker') \in Nat
                            /\ Over(key, x, req'[x], marker') \in Nat
    BY ShareType DEF RequestsOK
  <1>4. b \in [Requests -> Nat] /\ d \in [Requests -> Nat]
    BY <1>3
  <1>5. ASSUME NEW x \in Requests \ {r} PROVE a[x] = b[x] /\ c[x] = d[x]
    <2>1. req'[x] = req[x] /\ (<<GateOf(key), x>> \in marker' <=> <<GateOf(key), x>> \in marker)
      OBVIOUS
    <2>2. Share(key, x, req'[x], marker') = Share(key, x, req[x], marker)
      BY <2>1 DEF Share
    <2>3. Over(key, x, req'[x], marker') = Over(key, x, req[x], marker)
      BY <2>1 DEF Over
    <2> QED BY <2>2, <2>3 DEF Shares, Overs
  <1>6. /\ a[r] = Share(key, r, req[r], marker) /\ b[r] = Share(key, r, req'[r], marker')
        /\ c[r] = Over(key, r, req[r], marker) /\ d[r] = Over(key, r, req'[r], marker')
    BY DEF Shares, Overs
  <1> HIDE DEF a, b, c, d
  <1>7. Total(b) = Total(a) - a[r] + b[r] /\ Total(d) = Total(c) - c[r] + d[r]
    <2>1. \A x \in Requests \ {r} : a[x] = b[x]
      BY <1>5
    <2>2. \A x \in Requests \ {r} : c[x] = d[x]
      BY <1>5
    <2> QED BY <1>2, <1>4, <2>1, <2>2, TotalMoves
  <1>8. a[r] \in Nat /\ b[r] \in Nat /\ c[r] \in Nat /\ d[r] \in Nat /\ Total(d) \in Nat
    BY <1>2, <1>4, TotalNat
  <1>9. /\ Amount(key) \in Int /\ Amount(key) >= Total(a)
        /\ faults = 0 => Amount(key) = Total(a)
        /\ Amount(key) <= LimitOf(key) + Total(c)
    BY DEF Tallied, a, c
  <1>10. /\ Amount(key)' \in Int /\ Amount(key)' >= Total(b)
         /\ faults' = 0 => Amount(key)' = Total(b)
    BY <1>2, <1>6, <1>7, <1>8, <1>9
  <1>11. Amount(key)' <= LimitOf(key) + Total(d)
    BY <1>2, <1>6, <1>7, <1>8, <1>9, <1>10
  <1>12. LimitOf(key)' = LimitOf(key)
    BY DEF LimitOf
  <1> QED BY <1>1, <1>10, <1>11, <1>12 DEF Tallied

(* Nobody holds a charge on a counter that is charged today for the first  *)
(* time.                                                                   *)
LEMMA NewCounter ==
    ASSUME TypesOK, RequestsOK, KeysKept, NEW g \in Gates, NEW r \in Requests,
           NEW key \in KeysOf(g, r, day), key \notin DOMAIN counter
    PROVE  Tallied(key)
  <1>1. day \in 0 .. MaxDay
    BY DEF TypesOK
  <1>2. key \in Key /\ GateOf(key) = g /\ LimitOf(key) \in Nat /\ day < GoneOn(key)
    BY <1>1, KeyIs, KeyLives
  <1>3. day \in Int /\ GoneOn(key) \in Int
    <2> DaysPerMonth \in Nat /\ Grace \in Nat /\ MaxDay \in Nat
      BY CalendarAssumption DEF CalendarAssumption
    <2> key[4] \in 0 .. MaxDay
      BY <1>2 DEF Key
    <2>1. (key[4] + 1) * DaysPerMonth \in Int
      OBVIOUS
    <2> QED BY <1>1, <2>1 DEF GoneOn
  <1>4. ~(day >= GoneOn(key))
    BY <1>2, <1>3
  <1>5. ASSUME NEW x \in Requests PROVE Share(key, x, req[x], marker) = 0
    <2>1. ~(On(key, x, req[x]) /\ Holds(GateOf(key), req[x]))
      BY <1>2, <1>4 DEF KeysKept, Kept
    <2>2. On(key, x, req[x]) => req[x].out # "answered"
      BY <2>1 DEF Holds
    <2> QED BY <2>1, <2>2 DEF Share
  <1>6. Total(Shares(key)) = 0
    <2>1. Shares(key) \in [Requests -> Nat]
      BY SharesType
    <2>2. \A x \in Requests : Shares(key)[x] = 0
      BY <1>5 DEF Shares
    <2> QED BY <2>1, <2>2, TotalZero
  <1>7. Amount(key) = 0
    BY DEF Amount
  <1>8. Total(Overs(key)) \in Nat
    BY SharesType
  <1> QED BY <1>2, <1>6, <1>7, <1>8 DEF Tallied

(* Request r moves, no counter does, and at no gate does r hold a charge   *)
(* it did not hold before.                                                 *)
Still(r, h) ==
    /\ req'[r].day[h] = req[r].day[h]
    /\ Holds(h, req'[r]) => Holds(h, req[r])
    /\ <<h, r>> \in marker' <=> <<h, r>> \in marker
    /\ <<h, r>> \in marker => req'[r].out = req[r].out /\ req'[r].used[h] = req[r].used[h]
    /\ faults' = 0 =>
          faults = 0 /\ (<<h, r>> \in marker \/ (Holds(h, req[r]) => Holds(h, req'[r])))

Others(r) ==
    \A x \in Requests \ {r} :
        req'[x] = req[x] /\ \A h \in Gates : <<h, x>> \in marker' <=> <<h, x>> \in marker

LEMMA StillShares ==
    ASSUME RequestsOK, NEW r \in Requests, NEW key, Still(r, GateOf(key))
    PROVE  /\ Share(key, r, req'[r], marker') <= Share(key, r, req[r], marker)
           /\ faults' = 0 => /\ faults = 0
                             /\ Share(key, r, req'[r], marker') = Share(key, r, req[r], marker)
           /\ Over(key, r, req'[r], marker') = Over(key, r, req[r], marker)
           /\ On(key, r, req'[r]) <=> On(key, r, req[r])
  <1> DEFINE g == GateOf(key)
  <1>1. On(key, r, req'[r]) <=> On(key, r, req[r])
    BY DEF Still, On
  <1>2. Estimate[g] \in Nat
    BY GatesAre, LimitAssumption DEF LimitAssumption
  <1>3. Share(key, r, req[r], marker) \in Nat
    BY ShareType DEF RequestsOK
  <1>4. CASE <<g, r>> \in marker
    <2>1. Share(key, r, req'[r], marker') = Share(key, r, req[r], marker)
      BY <1>1, <1>4 DEF Still, Share
    <2>2. Over(key, r, req'[r], marker') = Over(key, r, req[r], marker)
      BY <1>1, <1>4 DEF Still, Over
    <2> QED BY <1>1, <1>3, <2>1, <2>2 DEF Still
  <1>5. CASE <<g, r>> \notin marker
    <2>1. Share(key, r, req[r], marker) =
              IF On(key, r, req[r]) /\ Holds(g, req[r]) THEN Estimate[g] ELSE 0
      BY <1>5 DEF Share
    <2>2. Share(key, r, req'[r], marker') =
              IF On(key, r, req'[r]) /\ Holds(g, req'[r]) THEN Estimate[g] ELSE 0
      BY <1>5 DEF Share, Still
    <2>3. Over(key, r, req'[r], marker') = 0 /\ Over(key, r, req[r], marker) = 0
      BY <1>5 DEF Over, Still
    <2>4. Holds(g, req'[r]) => Holds(g, req[r])
      BY DEF Still
    <2>5. faults' = 0 => faults = 0 /\ (Holds(g, req'[r]) <=> Holds(g, req[r]))
      BY <1>5 DEF Still
    <2>6. Share(key, r, req'[r], marker') <= Share(key, r, req[r], marker)
      BY <1>1, <1>2, <2>1, <2>2, <2>4
    <2>7. faults' = 0 => Share(key, r, req'[r], marker') = Share(key, r, req[r], marker)
      BY <1>1, <2>1, <2>2, <2>5
    <2> QED BY <1>1, <2>3, <2>5, <2>6, <2>7
  <1> QED BY <1>4, <1>5

LEMMA StillTallied ==
    ASSUME TypesOK, RequestsOK, RequestsOK', NEW key, Tallied(key), LimitOf(key) \in Nat,
           NEW r \in Requests, Others(r), Still(r, GateOf(key)), Amount(key)' = Amount(key)
    PROVE  Tallied(key)'
  <1>1. Amount(key) \in Int
    BY DEF Tallied
  <1>2. \A x \in Requests \ {r} :
            req'[x] = req[x] /\ (<<GateOf(key), x>> \in marker' <=> <<GateOf(key), x>> \in marker)
    BY GatesAre DEF Others
  <1>3. /\ Share(key, r, req[r], marker) \in Nat /\ Share(key, r, req'[r], marker') \in Nat
        /\ Over(key, r, req[r], marker) \in Nat /\ Over(key, r, req'[r], marker') \in Nat
    BY ShareType DEF RequestsOK
  <1>4. /\ Share(key, r, req'[r], marker') <= Share(key, r, req[r], marker)
        /\ faults' = 0 => /\ faults = 0
                          /\ Share(key, r, req'[r], marker') = Share(key, r, req[r], marker)
        /\ Over(key, r, req'[r], marker') = Over(key, r, req[r], marker)
    BY StillShares
  <1>5. Amount(key)' = Amount(key) + 0
    BY <1>1
  <1>6. Share(key, r, req'[r], marker') <= Share(key, r, req[r], marker) + 0
    BY <1>3, <1>4
  <1>7. faults' = 0 => /\ faults = 0
                       /\ Share(key, r, req'[r], marker') = Share(key, r, req[r], marker) + 0
    BY <1>3, <1>4
  <1>8. Over(key, r, req'[r], marker') >= Over(key, r, req[r], marker) + 0
    BY <1>3, <1>4
  <1>9. 0 \in Int
    OBVIOUS
  <1> QED BY <1>2, <1>5, <1>6, <1>7, <1>8, <1>9, CounterMoves

LEMMA StillKept ==
    ASSUME NEW r \in Requests, NEW key, Kept(key, r), Still(r, GateOf(key)),
           RequestsOK,
           key \in DOMAIN counter => key \in DOMAIN counter', day' = day
    PROVE  Kept(key, r)'
  <1>1. On(key, r, req'[r]) <=> On(key, r, req[r])
    BY StillShares
  <1>2. Holds(GateOf(key), req'[r]) => Holds(GateOf(key), req[r])
    BY DEF Still
  <1>3. On(key, r, req'[r]) /\ Holds(GateOf(key), req'[r]) =>
            key \in DOMAIN counter' \/ day' >= GoneOn(key)
    BY <1>1, <1>2 DEF Kept
  <1>4. GoneOn(key)' = GoneOn(key) /\ GateOf(key)' = GateOf(key)
        /\ On(key, r, req[r])' = On(key, r, req'[r])
        /\ Holds(GateOf(key), req[r])' = Holds(GateOf(key), req'[r])
    BY DEF GoneOn, GateOf, On, Holds, KeysOf, Capped, Owner, Period, ScopesOf, Past, Awaiting
  <1> QED BY <1>3, <1>4 DEF Kept

LEMMA OthersKept ==
    ASSUME NEW r \in Requests, NEW key \in Key, NEW x \in Requests \ {r}, Others(r), KeysKept,
           key \in DOMAIN counter => key \in DOMAIN counter', day' = day
    PROVE  Kept(key, x)'
  <1>1. req'[x] = req[x]
    BY DEF Others
  <1>2. Kept(key, x)
    BY DEF KeysKept
  <1> QED BY <1>1, <1>2 DEF Kept, GoneOn, GateOf, On, Holds, KeysOf, Capped, Owner, Period,
             ScopesOf, Past, Awaiting

LEMMA PlusAmount ==
    ASSUME NEW keys, NEW n, counter' = Plus(keys, n)
    PROVE  /\ DOMAIN counter' = DOMAIN counter \cup keys
           /\ \A key : Amount(key)' = IF key \in keys THEN Amount(key) + n ELSE Amount(key)
  <1>1. DOMAIN counter' = DOMAIN counter \cup keys
    BY DEF Plus
  <1>2. ASSUME NEW key PROVE Amount(key)' = IF key \in keys THEN Amount(key) + n ELSE Amount(key)
    <2>1. Amount(key)' = IF key \in DOMAIN counter' THEN counter'[key] ELSE 0
      BY DEF Amount
    <2>2. key \in DOMAIN counter' =>
              counter'[key] = IF key \in keys THEN Amount(key) + n ELSE counter[key]
      BY <1>1 DEF Plus
    <2>3. CASE key \in keys
      BY <1>1, <2>1, <2>2, <2>3
    <2>4. CASE key \notin keys
      BY <1>1, <2>1, <2>2, <2>4 DEF Amount
    <2> QED BY <2>3, <2>4
  <1> QED BY <1>1, <1>2

(* No counter changes.                                                     *)
LEMMA QuietStep ==
    ASSUME IInv, RequestsOK', NEW r \in Requests, Others(r),
           \A h \in Gates : Still(r, h), UNCHANGED <<counter, day>>
    PROVE  CountersOK' /\ KeysKept'
  <1>1. ASSUME NEW key \in DOMAIN counter' PROVE Tallied(key)'
    <2>1. key \in DOMAIN counter /\ Tallied(key) /\ Amount(key)' = Amount(key)
      BY DEF IInv, CountersOK, Amount
    <2>2. LimitOf(key) \in Nat
      BY <2>1, KeyLimit DEF IInv, TypesOK
    <2>3. Still(r, GateOf(key))
      BY GatesAre
    <2> QED BY <2>1, <2>2, <2>3, StillTallied DEF IInv
  <1>2. ASSUME NEW key \in Key, NEW x \in Requests PROVE Kept(key, x)'
    <2>1. CASE x = r
      <3>1. Kept(key, r) /\ Still(r, GateOf(key))
        BY GatesAre DEF IInv, KeysKept
      <3>2. Kept(key, r)'
        BY <3>1, StillKept DEF IInv
      <3> QED BY <2>1, <3>2
    <2>2. CASE x # r
      BY <2>2, OthersKept DEF IInv
    <2> QED BY <2>1, <2>2
  <1> QED BY <1>1, <1>2 DEF CountersOK, KeysKept

(* Gate g is charged for request r, and the other gates stay as they are.  *)
LEMMA ChargeStep ==
    ASSUME IInv, RequestsOK', NEW r \in Requests, NEW g \in Gates, Others(r),
           \A h \in Gates \ {g} : Still(r, h),
           Fits(g, r), Charge(g, r), day' = day,
           <<g, r>> \notin marker, <<g, r>> \notin marker', ~Holds(g, req[r]),
           Holds(g, req'[r]) => req'[r].day[g] = day,
           faults' = 0 => faults = 0 /\ Holds(g, req'[r])
    PROVE  CountersOK' /\ KeysKept'
  <1> DEFINE keys == KeysOf(g, r, day)
  <1>1. /\ DOMAIN counter' = DOMAIN counter \cup keys
        /\ \A key : Amount(key)' = IF key \in keys THEN Amount(key) + Estimate[g]
                                                   ELSE Amount(key)
    BY PlusAmount DEF Charge
  <1>2. Estimate[g] \in Nat /\ day \in 0 .. MaxDay
    BY LimitAssumption DEF LimitAssumption, IInv, TypesOK
  <1>3. \A key \in keys : key \in Key /\ GateOf(key) = g
    BY <1>2, KeyIs
  <1>4. ASSUME NEW key \in DOMAIN counter' PROVE Tallied(key)'
    <2>1. Tallied(key) /\ Amount(key) \in Int
      BY <1>1, NewCounter DEF IInv, CountersOK, Tallied
    <2>2. LimitOf(key) \in Nat
      BY <1>1, <1>3, KeyLimit DEF IInv, TypesOK
    <2>3. CASE GateOf(key) # g
      <3>1. Amount(key)' = Amount(key) /\ Still(r, GateOf(key))
        BY <1>1, <1>3, <2>3, GatesAre
      <3> QED BY <2>1, <2>2, <3>1, StillTallied DEF IInv
    <2>4. CASE GateOf(key) = g
      <3> DEFINE delta == IF key \in keys THEN Estimate[g] ELSE 0
      <3>1. delta \in Int /\ delta >= 0 /\ Amount(key)' = Amount(key) + delta
        BY <1>1, <1>2, <2>1
      <3>2. Share(key, r, req[r], marker) = 0 /\ Over(key, r, req[r], marker) = 0
        BY <2>4 DEF Share, Over
      <3>3. Over(key, r, req'[r], marker') = 0
        BY <2>4 DEF Over
      <3>4. Share(key, r, req'[r], marker') =
                IF On(key, r, req'[r]) /\ Holds(g, req'[r]) THEN Estimate[g] ELSE 0
        BY <2>4 DEF Share
      <3>5. Holds(g, req'[r]) => (On(key, r, req'[r]) <=> key \in keys)
        BY <2>4 DEF On
      <3>6. Share(key, r, req'[r], marker') <= 0 + delta
        BY <1>2, <3>4, <3>5
      <3>7. faults' = 0 => faults = 0 /\ Share(key, r, req'[r], marker') = 0 + delta
        BY <1>2, <3>4, <3>5
      <3>8. key \in keys => Amount(key)' <= LimitOf(key)
        BY <1>1 DEF Fits
      <3>9. key \notin keys => 0 >= 0 + delta
        OBVIOUS
      <3>10. \A x \in Requests \ {r} :
                 req'[x] = req[x]
                 /\ (<<GateOf(key), x>> \in marker' <=> <<GateOf(key), x>> \in marker)
        BY GatesAre DEF Others
      <3> HIDE DEF delta, keys
      <3>11. Share(key, r, req'[r], marker') <= Share(key, r, req[r], marker) + delta
        BY <3>2, <3>6
      <3>12. faults' = 0 => /\ faults = 0
                            /\ Share(key, r, req'[r], marker')
                                   = Share(key, r, req[r], marker) + delta
        BY <3>2, <3>7
      <3>13. \/ Over(key, r, req'[r], marker') >= Over(key, r, req[r], marker) + delta
             \/ Amount(key)' <= LimitOf(key)
        BY <3>2, <3>3, <3>8, <3>9
      <3> QED BY <2>1, <2>2, <3>1, <3>10, <3>11, <3>12, <3>13, CounterMoves DEF IInv
    <2> QED BY <2>3, <2>4
  <1>5. ASSUME NEW key \in Key, NEW x \in Requests PROVE Kept(key, x)'
    <2>1. CASE x # r
      BY <1>1, <2>1, OthersKept DEF IInv
    <2>2. CASE x = r /\ GateOf(key) # g
      <3>1. Kept(key, r) /\ Still(r, GateOf(key))
        BY <2>2, GatesAre DEF IInv, KeysKept
      <3>2. Kept(key, r)'
        BY <1>1, <3>1, StillKept DEF IInv
      <3> QED BY <2>2, <3>2
    <2>3. CASE x = r /\ GateOf(key) = g
      <3>1. Holds(g, req'[r]) /\ On(key, r, req'[r]) => key \in keys
        BY <2>3 DEF On
      <3>2. Kept(key, r)' <=> (On(key, r, req'[r]) /\ Holds(GateOf(key), req'[r]) =>
                                   key \in DOMAIN counter' \/ day' >= GoneOn(key))
        BY DEF Kept, GoneOn, GateOf, On, Holds, KeysOf, Capped, Owner, Period, ScopesOf,
               Past, Awaiting
      <3> QED BY <1>1, <2>3, <3>1, <3>2
    <2> QED BY <2>1, <2>2, <2>3
  <1> QED BY <1>4, <1>5 DEF CountersOK, KeysKept

(* Gate g of request r is finalized: what was held becomes what was used.  *)
LEMMA AdjustStep ==
    ASSUME IInv, RequestsOK', NEW r \in Requests, NEW g \in Gates, NEW delta, Others(r),
           \A h \in Gates \ {g} : Still(r, h),
           <<g, r>> \notin marker, <<g, r>> \in marker',
           counter' = Plus(KeysOf(g, r, req[r].day[g]) \cap DOMAIN counter, delta),
           day' = day, faults' = faults, Holds(g, req[r]),
           req'[r].day[g] = req[r].day[g], req'[r].out = req[r].out,
           req'[r].used[g] = req[r].used[g],
           IF req[r].out = "answered"
           THEN req[r].used[g] \in Nat /\ delta = req[r].used[g] - Estimate[g]
           ELSE delta = -Estimate[g]
    PROVE  CountersOK' /\ KeysKept'
  <1> DEFINE keys == KeysOf(g, r, req[r].day[g]) \cap DOMAIN counter
             kept == IF req[r].out = "answered" THEN req[r].used[g] ELSE 0
  <1>1. Estimate[g] \in Nat
    BY LimitAssumption DEF LimitAssumption
  <1>2. delta \in Int /\ kept \in Nat /\ kept = Estimate[g] + delta
    BY <1>1
  <1>3. /\ DOMAIN counter' = DOMAIN counter
        /\ \A key : Amount(key)' = IF key \in keys THEN Amount(key) + delta ELSE Amount(key)
    <2>1. counter' = Plus(keys, delta)
      OBVIOUS
    <2>2. keys \subseteq DOMAIN counter
      OBVIOUS
    <2> HIDE DEF keys
    <2> QED BY <2>1, <2>2, PlusAmount
  <1>4. req[r].day[g] \in 0 .. MaxDay
    BY DEF IInv, RequestsOK, RequestOK, Request
  <1>5. \A key \in keys : GateOf(key) = g
    BY <1>4, KeyIs
  <1>6. ASSUME NEW key \in DOMAIN counter' PROVE Tallied(key)'
    <2>1. Tallied(key) /\ Amount(key) \in Int
      BY <1>3 DEF IInv, CountersOK, Tallied
    <2>2. LimitOf(key) \in Nat
      BY <1>3, KeyLimit DEF IInv, TypesOK
    <2>3. CASE GateOf(key) # g
      <3>1. Amount(key)' = Amount(key) /\ Still(r, GateOf(key))
        BY <1>3, <1>5, <2>3, GatesAre
      <3> QED BY <2>1, <2>2, <3>1, StillTallied DEF IInv
    <2>4. CASE GateOf(key) = g
      <3> DEFINE d == IF key \in keys THEN delta ELSE 0
      <3>1. d \in Int /\ Amount(key)' = Amount(key) + d
        BY <1>2, <1>3, <2>1
      <3>2. (On(key, r, req[r]) <=> key \in keys) /\ (On(key, r, req'[r]) <=> key \in keys)
        BY <1>3, <2>4 DEF On
      <3>3. Share(key, r, req[r], marker) = IF key \in keys THEN Estimate[g] ELSE 0
        BY <2>4, <3>2 DEF Share
      <3>4. Share(key, r, req'[r], marker') = IF key \in keys THEN kept ELSE 0
        BY <2>4, <3>2 DEF Share
      <3>5. Over(key, r, req[r], marker) = 0
        BY <2>4 DEF Over
      <3>6. Over(key, r, req'[r], marker') \in Nat
        BY ShareType DEF RequestsOK
      <3>7. key \in keys /\ req[r].out = "answered" =>
                Over(key, r, req'[r], marker') >= delta
        <4> SUFFICES ASSUME key \in keys, req[r].out = "answered"
                     PROVE  Over(key, r, req'[r], marker') >= delta
          OBVIOUS
        <4>1. req[r].used[g] \in Nat /\ delta = req[r].used[g] - Estimate[g]
              /\ req[r].used[g] # None
          BY LimitAssumption DEF LimitAssumption
        <4>2. Over(key, r, req'[r], marker') =
                  IF req[r].used[g] > Estimate[g] THEN req[r].used[g] - Estimate[g] ELSE 0
          BY <2>4, <3>2, <4>1 DEF Over
        <4> QED BY <1>1, <4>1, <4>2
      <3>8. req[r].out # "answered" => delta <= 0
        BY <1>1
      <3>9. \A x \in Requests \ {r} :
                req'[x] = req[x]
                /\ (<<GateOf(key), x>> \in marker' <=> <<GateOf(key), x>> \in marker)
        BY GatesAre DEF Others
      <3> HIDE DEF keys, kept
      <3>10. Share(key, r, req'[r], marker') = Share(key, r, req[r], marker) + d
        BY <1>1, <1>2, <3>3, <3>4
      <3>11. Share(key, r, req'[r], marker') \in Nat
        BY <1>2, <3>4
      <3>12. Over(key, r, req'[r], marker') >= Over(key, r, req[r], marker) + d
        BY <1>2, <3>5, <3>6, <3>7, <3>8
      <3> HIDE DEF d
      <3>13. Share(key, r, req'[r], marker') <= Share(key, r, req[r], marker) + d
        BY <3>10, <3>11
      <3> QED BY <2>1, <2>2, <3>1, <3>9, <3>10, <3>12, <3>13, CounterMoves DEF IInv
    <2> QED BY <2>3, <2>4
  <1>7. ASSUME NEW key \in Key, NEW x \in Requests PROVE Kept(key, x)'
    <2>1. CASE x # r
      BY <1>3, <2>1, OthersKept DEF IInv
    <2>2. CASE x = r /\ GateOf(key) # g
      <3>1. Kept(key, r) /\ Still(r, GateOf(key))
        BY <2>2, GatesAre DEF IInv, KeysKept
      <3>2. Kept(key, r)'
        BY <1>3, <3>1, StillKept DEF IInv
      <3> QED BY <2>2, <3>2
    <2>3. CASE x = r /\ GateOf(key) = g
      <3>1. On(key, r, req'[r]) => On(key, r, req[r])
        BY <2>3 DEF On
      <3>2. Kept(key, r)
        BY DEF IInv, KeysKept
      <3>3. On(key, r, req[r]) => key \in DOMAIN counter \/ day >= GoneOn(key)
        BY <2>3, <3>2 DEF Kept
      <3>4. Kept(key, r)' <=> (On(key, r, req'[r]) /\ Holds(GateOf(key), req'[r]) =>
                                   key \in DOMAIN counter' \/ day' >= GoneOn(key))
        BY DEF Kept, GoneOn, GateOf, On, Holds, KeysOf, Capped, Owner, Period, ScopesOf,
               Past, Awaiting
      <3> QED BY <1>3, <2>3, <3>1, <3>3, <3>4
    <2> QED BY <2>1, <2>2, <2>3
  <1> QED BY <1>6, <1>7 DEF CountersOK, KeysKept

-----------------------------------------------------------------------------
(* What the actions do to a request.                                       *)

Becomes(r, at, out, todo, days, used, tries) ==
    /\ req' \in [Requests -> Rec]
    /\ \A x \in Requests \ {r} : req'[x] = req[x]
    /\ req'[r].at = at /\ req'[r].out = out /\ req'[r].todo = todo
    /\ req'[r].day = days /\ req'[r].used = used /\ req'[r].tries = tries

LEMMA RecIs ==
    ASSUME NEW q
    PROVE  q \in Rec <=>
               /\ q = [at |-> q.at, out |-> q.out, todo |-> q.todo, day |-> q.day,
                       used |-> q.used, tries |-> q.tries]
               /\ q.at \in At /\ q.out \in Out /\ q.todo \in Seq(Work)
               /\ q.day \in [Gates -> 0 .. MaxDay]
               /\ q.used \in [Gates -> Actual \cup {None}]
               /\ q.tries \in 1 .. 2
  BY DEF Rec

LEMMA RequestIs ==
    ASSUME NEW r \in Requests, NEW q \in Rec, q.tries \in 1 .. Tries[r]
    PROVE  q \in Request(r)
  BY DEF Rec, Request

LEMMA GoesIs ==
    ASSUME TypesOK, NEW r \in Requests, NEW at \in At, Goes(r, at)
    PROVE  Becomes(r, at, req[r].out, req[r].todo, req[r].day, req[r].used, req[r].tries)
  <1>1. req \in [Requests -> Rec] /\ req[r] \in Rec
    BY DEF TypesOK
  <1>2. [req[r] EXCEPT !.at = at] \in Rec
    BY <1>1 DEF Rec
  <1> QED BY <1>1, <1>2 DEF Goes, Becomes, Rec

LEMMA QuitsIs ==
    ASSUME TypesOK, NEW r \in Requests, Quits(r)
    PROVE  Becomes(r, "done", "refused", req[r].todo, req[r].day, req[r].used, req[r].tries)
  <1>1. req \in [Requests -> Rec] /\ req[r] \in Rec
    BY DEF TypesOK
  <1>2. "done" \in At /\ "refused" \in Out
    BY DEF At, Out
  <1> QED BY <1>1, <1>2 DEF Quits, Becomes, Rec

LEMMA ChargesIs ==
    ASSUME TypesOK, NEW r \in Requests, NEW at \in At, NEW g \in Gates, Charges(r, at, g)
    PROVE  Becomes(r, at, req[r].out, req[r].todo, [req[r].day EXCEPT ![g] = day],
                   req[r].used, req[r].tries)
  <1>1. req \in [Requests -> Rec] /\ req[r] \in Rec /\ day \in 0 .. MaxDay
    BY DEF TypesOK
  <1>2. [req[r].day EXCEPT ![g] = day] \in [Gates -> 0 .. MaxDay]
    BY <1>1 DEF Rec
  <1> DEFINE q == [req[r] EXCEPT !.at = at, !.day[g] = day]
  <1>3. q.day = [req[r].day EXCEPT ![g] = day] /\ q.at = at /\ q.out = req[r].out
        /\ q.todo = req[r].todo /\ q.used = req[r].used /\ q.tries = req[r].tries /\ q \in Rec
    BY <1>1, <1>2 DEF Rec
  <1>4. req' = [req EXCEPT ![r] = q]
    BY <1>1 DEF Charges
  <1> HIDE DEF q
  <1> QED BY <1>1, <1>3, <1>4 DEF Becomes

LEMMA EndsIs ==
    ASSUME TypesOK, NEW r \in Requests, NEW out \in Out, NEW todo \in Todos, Ends(r, out, todo)
    PROVE  Becomes(r, "finishing", out, todo, req[r].day, req[r].used, req[r].tries)
  <1>1. req \in [Requests -> Rec] /\ req[r] \in Rec
    BY DEF TypesOK
  <1>2. "finishing" \in At /\ todo \in Seq(Work)
    BY TodoTypes DEF At
  <1> QED BY <1>1, <1>2 DEF Ends, Becomes, Rec

LEMMA CallEndsIs ==
    ASSUME TypesOK, NEW r \in Requests, NEW out \in Out, NEW todo \in Todos,
           NEW used \in [Gates -> Actual \cup {None}], CallEnds(r, out, todo, used)
    PROVE  Becomes(r, "finishing", out, todo, req[r].day, used, req[r].tries)
  <1>1. req \in [Requests -> Rec] /\ req[r] \in Rec
    BY DEF TypesOK
  <1>2. "finishing" \in At /\ todo \in Seq(Work)
    BY TodoTypes DEF At
  <1> QED BY <1>1, <1>2 DEF CallEnds, Becomes, Rec

LEMMA Next1Is ==
    ASSUME TypesOK, NEW r \in Requests, req[r].todo \in Todos, Next1(r)
    PROVE  Becomes(r, IF Tail(req[r].todo) = Nil THEN "done" ELSE req[r].at, req[r].out,
                   Tail(req[r].todo), req[r].day, req[r].used, req[r].tries)
  <1>1. req \in [Requests -> Rec] /\ req[r] \in Rec
    BY DEF TypesOK
  <1>2. "done" \in At /\ <<>> = Nil
    BY TodoTypes DEF At
  <1> DEFINE rest == Tail(req[r].todo)
  <1>3. rest \in Seq(Work)
    <2>1. rest = Nil \/ rest \in Todos
      BY TodoSteps DEF Todos
    <2> QED BY <2>1, TodoTypes
  <1>4. req' = [req EXCEPT ![r].todo = rest,
                           ![r].at = IF rest = Nil THEN "done" ELSE @]
    BY <1>2 DEF Next1
  <1> HIDE DEF rest
  <1>5. CASE rest = Nil
    <2>1. req' = [req EXCEPT ![r].todo = rest, ![r].at = "done"]
      BY <1>4, <1>5
    <2>2. Becomes(r, "done", req[r].out, rest, req[r].day, req[r].used, req[r].tries)
      BY <1>1, <1>2, <1>3, <2>1 DEF Becomes, Rec
    <2> QED BY <1>5, <2>2 DEF rest
  <1>6. CASE rest # Nil
    <2>1. req' = [req EXCEPT ![r].todo = rest, ![r].at = @]
      BY <1>4, <1>6
    <2>2. Becomes(r, req[r].at, req[r].out, rest, req[r].day, req[r].used, req[r].tries)
      BY <1>1, <1>3, <2>1 DEF Becomes, Rec
    <2> QED BY <1>6, <2>2 DEF rest
  <1> QED BY <1>5, <1>6

(* The other requests are as they were.                                    *)
LEMMA RequestsStep ==
    ASSUME RequestsOK, NEW r \in Requests, Others(r), faults' = 0 => faults = 0,
           RequestOK(r, req'[r], marker', faults')
    PROVE  RequestsOK'
  <1>1. ASSUME NEW x \in Requests \ {r} PROVE RequestOK(x, req'[x], marker', faults')
    <2>1. RequestOK(x, req[x], marker, faults) /\ req'[x] = req[x]
          /\ \A h \in Gates : <<h, x>> \in marker' <=> <<h, x>> \in marker
      BY DEF RequestsOK, Others
    <2> QED BY <2>1 DEF RequestOK
  <1>2. \A x \in Requests : RequestOK(x, req'[x], marker', faults')
    BY <1>1
  <1> QED BY <1>2 DEF RequestsOK, RequestOK, Request, Shape, Final, Awaiting, AnswerTodos,
             FailTodos, RefusalTodos, At, Out, Work, Gates

LEMMA EarlyIs ==
    ASSUME RequestsOK, NEW r \in Requests, req[r].at \notin {"finishing", "done"}
    PROVE  /\ req[r].out = "none" /\ req[r].todo = Nil
           /\ \A g \in Gates : <<g, r>> \notin marker
           /\ \A g \in Gates : Holds(g, req[r]) <=> req[r].at \in Past(g)
  <1>1. RequestOK(r, req[r], marker, faults)
    BY DEF RequestsOK
  <1>2. req[r].out = "none" /\ req[r].todo = Nil
    BY <1>1 DEF RequestOK, Shape
  <1>3. \A g \in Gates : <<g, r>> \notin marker
    BY <1>1 DEF RequestOK, Final
  <1>4. \A g \in Gates : Holds(g, req[r]) <=> req[r].at \in Past(g)
    BY <1>2, NilAwaits DEF Holds
  <1> QED BY <1>2, <1>3, <1>4

(* A request moves on before its call has ended; no counter changes.       *)
LEMMA EarlyStep ==
    ASSUME IInv, NEW r \in Requests, req[r].at \notin {"finishing", "done"},
           NEW at, NEW out, NEW todo, NEW used,
           Becomes(r, at, out, todo, req[r].day, used, req[r].tries),
           UNCHANGED <<counter, marker, day>>, Shape(req'[r]),
           faults' = 0 => faults = 0 /\ (at = "done" => out # "none"),
           out = "answered" => todo = Answer4,
           \A g \in Gates :
              /\ Holds(g, req'[r]) => req[r].at \in Past(g)
              /\ faults' = 0 /\ req[r].at \in Past(g) => Holds(g, req'[r])
    PROVE  req' \in [Requests -> Rec] /\ RequestsOK' /\ CountersOK' /\ KeysKept'
  <1>1. Others(r)
    BY DEF Becomes, Others
  <1>2. /\ \A g \in Gates : <<g, r>> \notin marker
        /\ \A g \in Gates : Holds(g, req[r]) <=> req[r].at \in Past(g)
    BY EarlyIs DEF IInv
  <1>3. RequestOK(r, req'[r], marker', faults')
    <2>1. req'[r] \in Rec /\ req'[r].tries = req[r].tries
      BY DEF Becomes
    <2>2. req[r].tries \in 1 .. Tries[r]
      BY DEF IInv, RequestsOK, RequestOK, Request
    <2>3. req'[r] \in Request(r)
      BY <2>1, <2>2, RequestIs
    <2>4. req'[r].at = at /\ req'[r].out = out /\ req'[r].todo = todo
      BY DEF Becomes
    <2>5. \A g \in Gates : Answer4 \in Awaiting(g)
      BY DEF Awaiting, Gates
    <2> QED BY <1>2, <2>3, <2>4, <2>5 DEF RequestOK
  <1>4. RequestsOK'
    BY <1>1, <1>3, RequestsStep DEF IInv
  <1>5. ASSUME NEW h \in Gates PROVE Still(r, h)
    BY <1>2 DEF Still, Becomes
  <1> QED BY <1>1, <1>4, <1>5, QuietStep DEF Becomes

LEMMA LateIs ==
    ASSUME RequestsOK, NEW r \in Requests, req[r].at = "finishing"
    PROVE  /\ req[r].todo \in Todos
           /\ \/ req[r].out = "answered" /\ req[r].todo \in AnswerTodos
              \/ req[r].out = "failed" /\ req[r].todo \in FailTodos
              \/ req[r].out = "refused" /\ req[r].todo \in RefusalTodos
              \/ req[r].out = "truncated" /\ req[r].todo = Last
  <1>1. Shape(req[r])
    BY DEF RequestsOK, RequestOK
  <1> QED BY <1>1 DEF Shape, Todos, AnswerTodos

(* A finishing request moves on; no counter changes.                       *)
LEMMA LateStep ==
    ASSUME IInv, NEW r \in Requests, req[r].at = "finishing",
           NEW at \in {"finishing", "done"}, NEW todo, NEW tries \in 1 .. req[r].tries,
           Becomes(r, at, req[r].out, todo, req[r].day, req[r].used, tries),
           UNCHANGED <<counter, marker, day>>, Shape(req'[r]),
           \A g \in Gates :
              todo \in Awaiting(g) => req[r].todo \in Awaiting(g) \/ req[r].out = "answered",
           faults' = 0 =>
              /\ faults = 0
              /\ \A g \in Gates :
                    \/ <<g, r>> \in marker
                    \/ req[r].todo \in Awaiting(g) => todo \in Awaiting(g)
                    \/ req[r].out = "answered" /\ req[r].used[g] = None
    PROVE  req' \in [Requests -> Rec] /\ RequestsOK' /\ CountersOK' /\ KeysKept'
  <1>1. Others(r)
    BY DEF Becomes, Others
  <1>2. RequestOK(r, req[r], marker, faults)
    BY DEF IInv, RequestsOK
  <1>3. /\ req'[r] \in Rec /\ req'[r].at = at /\ req'[r].out = req[r].out
        /\ req'[r].todo = todo /\ req'[r].used = req[r].used /\ req'[r].tries = tries
        /\ req'[r].day = req[r].day
    BY DEF Becomes
  <1>4. RequestOK(r, req'[r], marker', faults')
    <2>1. req[r].tries \in 1 .. Tries[r] /\ Tries[r] \in 1 .. 2
      BY <1>2, RequestAssumption DEF RequestOK, Request, RequestAssumption
    <2>2. req'[r] \in Request(r)
      BY <1>3, <2>1, RequestIs
    <2>3. ASSUME NEW g \in Gates, <<g, r>> \in marker' PROVE Final(g, req'[r])
      BY <1>2, <1>3, <2>3 DEF RequestOK, Final
    <2>4. req[r].out # "none"
      BY <1>2 DEF RequestOK, Shape
    <2>5. ASSUME faults' = 0, req'[r].out = "answered", NEW g \in Gates, req'[r].used[g] # None
          PROVE  <<g, r>> \in marker' \/ req'[r].todo \in Awaiting(g)
      <3>1. <<g, r>> \in marker \/ req[r].todo \in Awaiting(g)
        BY <1>2, <1>3, <2>5 DEF RequestOK
      <3> QED BY <1>3, <2>5, <3>1
    <2> QED BY <1>3, <2>2, <2>3, <2>4, <2>5 DEF RequestOK
  <1>5. RequestsOK'
    BY <1>1, <1>4, RequestsStep DEF IInv
  <1>6. ASSUME NEW h \in Gates PROVE Still(r, h)
    <2>1. req[r].at \notin Past(h) /\ req'[r].at \notin Past(h)
      BY <1>3 DEF Past
    <2>2. Holds(h, req'[r]) => Holds(h, req[r])
      BY <1>3, <2>1 DEF Holds
    <2>3. faults' = 0 => <<h, r>> \in marker \/ (Holds(h, req[r]) => Holds(h, req'[r]))
      BY <1>3, <2>1 DEF Holds
    <2> QED BY <1>3, <2>2, <2>3 DEF Still
  <1> QED BY <1>1, <1>5, <1>6, QuietStep DEF Becomes

-----------------------------------------------------------------------------
(* Admission preserves the invariant.                                      *)

Core == req \in [Requests -> Rec] /\ RequestsOK /\ CountersOK /\ KeysKept

LEMMA EarlyGoes ==
    ASSUME IInv, NEW r \in Requests, NEW at \in At \ {"finishing", "done"}, Goes(r, at),
           req[r].at \notin {"finishing", "done"}, NoFault,
           UNCHANGED <<counter, marker, day>>,
           \A g \in Gates : at \in Past(g) <=> req[r].at \in Past(g)
    PROVE  Core'
  <1>1. Becomes(r, at, req[r].out, req[r].todo, req[r].day, req[r].used, req[r].tries)
    BY GoesIs DEF IInv
  <1>2. req[r].out = "none" /\ req[r].todo = Nil
    BY EarlyIs DEF IInv
  <1>3. req'[r].at = at /\ req'[r].out = "none" /\ req'[r].todo = Nil
    BY <1>1, <1>2 DEF Becomes
  <1>4. Shape(req'[r])
    BY <1>3 DEF Shape
  <1>5. \A g \in Gates : Holds(g, req'[r]) <=> at \in Past(g)
    BY <1>3, NilAwaits DEF Holds
  <1>6. faults' = faults
    BY DEF NoFault
  <1> QED BY <1>1, <1>2, <1>4, <1>5, <1>6, EarlyStep DEF Core

LEMMA AllowStep ==
    ASSUME IInv, NEW r \in Requests, Allow(r)
    PROVE  Core'
  <1>1. "limited" \in At \ {"finishing", "done"} /\ req[r].at = "new"
        /\ \A g \in Gates : "limited" \notin Past(g) /\ "new" \notin Past(g)
    BY DEF At, Past, Allow
  <1> QED BY <1>1, EarlyGoes DEF Allow

LEMMA AdmitStep ==
    ASSUME IInv, NEW r \in Requests, Admit(r)
    PROVE  Core'
  <1>1. "running" \in At \ {"finishing", "done"} /\ req[r].at = "charged"
        /\ \A g \in Gates : "running" \in Past(g) /\ "charged" \in Past(g)
    BY DEF At, Past, Admit
  <1> QED BY <1>1, EarlyGoes DEF Admit

LEMMA QuitsStep ==
    ASSUME IInv, NEW r \in Requests, AllowDenied(r) \/ AllowFails(r)
    PROVE  Core'
  <1>1. /\ req[r].at = "new" /\ Quits(r) /\ UNCHANGED <<counter, marker, day>>
        /\ NoFault \/ Fault
    BY DEF AllowDenied, AllowFails
  <1>2. Becomes(r, "done", "refused", req[r].todo, req[r].day, req[r].used, req[r].tries)
    BY <1>1, QuitsIs DEF IInv
  <1>3. req[r].todo = Nil /\ \A g \in Gates : "new" \notin Past(g) /\ "done" \notin Past(g)
    BY <1>1, EarlyIs DEF IInv, Past
  <1>4. req'[r].at = "done" /\ req'[r].out = "refused" /\ req'[r].todo = Nil
    BY <1>2, <1>3 DEF Becomes
  <1>5. Shape(req'[r])
    BY <1>4 DEF Shape
  <1>6. \A g \in Gates : ~Holds(g, req'[r])
    BY <1>3, <1>4, NilAwaits DEF Holds
  <1>7. faults' = 0 => faults = 0
    BY <1>1 DEF NoFault, Fault, IInv, TypesOK
  <1>8. req[r].at \notin {"finishing", "done"} /\ "refused" \notin {"none", "answered"}
    BY <1>1
  <1>9. \A g \in Gates : req[r].at \notin Past(g)
    BY <1>1, <1>3
  <1> QED BY <1>1, <1>2, <1>5, <1>6, <1>7, <1>8, <1>9, EarlyStep DEF Core

(* A refusal that charges nothing.                                         *)
LEMMA EarlyEnds ==
    ASSUME IInv, NEW r \in Requests, NEW todo \in RefusalTodos, Ends(r, "refused", todo),
           req[r].at \notin {"finishing", "done"}, faults' = 0 => faults = 0,
           UNCHANGED <<counter, marker, day>>,
           \A g \in Gates : todo \in Awaiting(g) <=> req[r].at \in Past(g)
    PROVE  Core'
  <1>1. todo \in Todos /\ "refused" \in Out
    BY DEF Todos, Out
  <1>2. Becomes(r, "finishing", "refused", todo, req[r].day, req[r].used, req[r].tries)
    BY <1>1, EndsIs DEF IInv
  <1>3. req'[r].at = "finishing" /\ req'[r].out = "refused" /\ req'[r].todo = todo
    BY <1>2 DEF Becomes
  <1>4. Shape(req'[r])
    BY <1>3 DEF Shape
  <1>5. \A g \in Gates : Holds(g, req'[r]) <=> todo \in Awaiting(g)
    BY <1>3 DEF Holds, Past
  <1>6. "finishing" # "done" /\ "refused" # "answered"
    OBVIOUS
  <1>7. \A g \in Gates : Holds(g, req'[r]) <=> req[r].at \in Past(g)
    BY <1>5
  <1>8. req' \in [Requests -> Rec] /\ RequestsOK' /\ CountersOK' /\ KeysKept'
    BY <1>2, <1>4, <1>6, <1>7, EarlyStep
  <1> QED BY <1>8 DEF Core

LEMMA RefusalAwaits ==
    /\ <<"slot">> = Last /\ <<"quota", "slot">> = Refuse2
    /\ <<"budget", "quota", "slot">> = Refuse3
    /\ \A g \in Gates :
          /\ Last \notin Awaiting(g)
          /\ Refuse2 \in Awaiting(g) <=> g = "quota"
          /\ Refuse3 \in Awaiting(g)
  <1>1. \A g \in Gates : Refuse2 \in Awaiting(g) <=> g = "quota"
    BY TodoDistinct DEF Awaiting, Gates
  <1>2. \A g \in Gates : Refuse3 \in Awaiting(g)
    BY DEF Awaiting, Gates
  <1>3. <<"slot">> = Last /\ <<"quota", "slot">> = Refuse2
        /\ <<"budget", "quota", "slot">> = Refuse3
    BY DEF Last, Refuse2, Refuse3
  <1> QED BY <1>1, <1>2, <1>3, NilAwaits

LEMMA RefusesLimited ==
    ASSUME IInv, NEW r \in Requests, req[r].at = "limited", Ends(r, "refused", <<"slot">>),
           faults' = 0 => faults = 0, UNCHANGED <<counter, marker, day>>
    PROVE  Core'
  <1>1. Last \in RefusalTodos /\ Ends(r, "refused", Last)
    BY RefusalAwaits DEF RefusalTodos
  <1>2. \A g \in Gates : Last \in Awaiting(g) <=> req[r].at \in Past(g)
    BY RefusalAwaits DEF Past
  <1> QED BY <1>1, <1>2, EarlyEnds

LEMMA RefusesMetered ==
    ASSUME IInv, NEW r \in Requests, req[r].at = "metered",
           Ends(r, "refused", <<"quota", "slot">>),
           faults' = 0 => faults = 0, UNCHANGED <<counter, marker, day>>
    PROVE  Core'
  <1>1. Refuse2 \in RefusalTodos /\ Ends(r, "refused", Refuse2)
    BY RefusalAwaits DEF RefusalTodos
  <1>2. \A g \in Gates : Refuse2 \in Awaiting(g) <=> req[r].at \in Past(g)
    BY RefusalAwaits DEF Past
  <1> QED BY <1>1, <1>2, EarlyEnds

LEMMA MeterDeniedStep ==
    ASSUME IInv, NEW r \in Requests, MeterDenied(r)
    PROVE  Core'
  <1>1. faults' = faults
    BY DEF MeterDenied, NoFault
  <1> QED BY <1>1, RefusesLimited DEF MeterDenied

LEMMA ChargeDeniedStep ==
    ASSUME IInv, NEW r \in Requests, ChargeDenied(r)
    PROVE  Core'
  <1>1. faults' = faults
    BY DEF ChargeDenied, NoFault
  <1> QED BY <1>1, RefusesMetered DEF ChargeDenied

LEMMA FaultIs ==
    ASSUME IInv, Fault
    PROVE  faults' # 0 /\ faults' \in 0 .. MaxFaults
  BY CalendarAssumption DEF CalendarAssumption, Fault, IInv, TypesOK

LEMMA AdmitFailsStep ==
    ASSUME IInv, NEW r \in Requests, AdmitFails(r)
    PROVE  Core'
  <1>1. Refuse3 \in RefusalTodos /\ Ends(r, "refused", Refuse3)
    BY RefusalAwaits DEF RefusalTodos, AdmitFails
  <1>2. req[r].at = "charged" /\ UNCHANGED <<counter, marker, day>> /\ faults' # 0
    BY FaultIs DEF AdmitFails
  <1>3. \A g \in Gates : Refuse3 \in Awaiting(g) <=> req[r].at \in Past(g)
    BY <1>2, RefusalAwaits DEF Past
  <1> QED BY <1>1, <1>2, <1>3, EarlyEnds

(* The reserve scripts.                                                    *)
LEMMA GateCharges ==
    ASSUME IInv, NEW r \in Requests, NEW g \in Gates, NEW at \in At \ {"finishing", "done"},
           req[r].at \notin {"finishing", "done"}, req[r].at \notin Past(g), at \in Past(g),
           \A h \in Gates \ {g} : at \in Past(h) <=> req[r].at \in Past(h),
           Fits(g, r), Charge(g, r), Charges(r, at, g), NoFault, UNCHANGED <<marker, day>>
    PROVE  Core'
  <1> DEFINE days == [req[r].day EXCEPT ![g] = day]
  <1>1. Becomes(r, at, req[r].out, req[r].todo, days, req[r].used, req[r].tries)
    BY ChargesIs DEF IInv
  <1>2. /\ req[r].out = "none" /\ req[r].todo = Nil
        /\ \A h \in Gates : <<h, r>> \notin marker
        /\ \A h \in Gates : Holds(h, req[r]) <=> req[r].at \in Past(h)
    BY EarlyIs DEF IInv
  <1>3. req[r].day \in [Gates -> 0 .. MaxDay]
    BY DEF IInv, TypesOK, Rec
  <1>4. days[g] = day /\ \A h \in Gates \ {g} : days[h] = req[r].day[h]
    BY <1>3
  <1> HIDE DEF days
  <1>5. req'[r].at = at /\ req'[r].out = "none" /\ req'[r].todo = Nil /\ req'[r].day = days
        /\ req'[r] \in Rec /\ req'[r].tries = req[r].tries
    BY <1>1, <1>2 DEF Becomes
  <1>6. \A h \in Gates : Holds(h, req'[r]) <=> at \in Past(h)
    BY <1>5, NilAwaits DEF Holds
  <1>7. Others(r) /\ faults' = faults
    BY <1>1 DEF Others, Becomes, NoFault
  <1>8. RequestOK(r, req'[r], marker', faults')
    <2>1. req[r].tries \in 1 .. Tries[r]
      BY DEF IInv, RequestsOK, RequestOK, Request
    <2>2. req'[r] \in Request(r)
      BY <1>5, <2>1, RequestIs
    <2>3. Shape(req'[r])
      BY <1>5 DEF Shape
    <2> QED BY <1>2, <1>5, <2>2, <2>3 DEF RequestOK
  <1>9. RequestsOK'
    BY <1>7, <1>8, RequestsStep DEF IInv
  <1>10. \A h \in Gates \ {g} : Still(r, h)
    BY <1>2, <1>4, <1>5, <1>6, <1>7 DEF Still
  <1>11. req'[r].day[g] = day /\ Holds(g, req'[r]) /\ ~Holds(g, req[r])
    BY <1>2, <1>4, <1>5, <1>6
  <1>12. <<g, r>> \notin marker /\ <<g, r>> \notin marker'
    BY <1>2
  <1> QED BY <1>1, <1>7, <1>9, <1>10, <1>11, <1>12, ChargeStep DEF Core, Becomes

LEMMA MeterStep ==
    ASSUME IInv, NEW r \in Requests, Meter(r)
    PROVE  Core'
  <1>1. req[r].at = "limited" /\ "metered" \in At \ {"finishing", "done"}
        /\ "metered" \in Past("quota") /\ "limited" \notin Past("quota")
        /\ \A h \in Gates \ {"quota"} : "metered" \notin Past(h) /\ "limited" \notin Past(h)
    BY DEF Meter, At, Past, Gates
  <1> QED BY <1>1, GatesAre, GateCharges DEF Meter

LEMMA ChargeBudgetStep ==
    ASSUME IInv, NEW r \in Requests, ChargeBudget(r)
    PROVE  Core'
  <1>1. req[r].at = "metered" /\ "charged" \in At \ {"finishing", "done"}
        /\ "charged" \in Past("budget") /\ "metered" \notin Past("budget")
        /\ \A h \in Gates \ {"budget"} : "charged" \in Past(h) /\ "metered" \in Past(h)
    BY DEF ChargeBudget, At, Past, Gates
  <1> QED BY <1>1, GatesAre, GateCharges DEF ChargeBudget

(* A reserve script whose answer is lost.                                  *)
LEMMA GateChargesLost ==
    ASSUME IInv, NEW r \in Requests, NEW g \in Gates, NEW todo \in RefusalTodos,
           req[r].at \notin {"finishing", "done"}, req[r].at \notin Past(g),
           \A h \in Gates : todo \in Awaiting(h) <=> req[r].at \in Past(h),
           Fits(g, r), Charge(g, r), Ends(r, "refused", todo), Fault, UNCHANGED <<marker, day>>
    PROVE  Core'
  <1>1. todo \in Todos /\ "refused" \in Out
    BY DEF Todos, Out
  <1>2. Becomes(r, "finishing", "refused", todo, req[r].day, req[r].used, req[r].tries)
    BY <1>1, EndsIs DEF IInv
  <1>3. /\ \A h \in Gates : <<h, r>> \notin marker
        /\ \A h \in Gates : Holds(h, req[r]) <=> req[r].at \in Past(h)
    BY EarlyIs DEF IInv
  <1>4. req'[r].at = "finishing" /\ req'[r].out = "refused" /\ req'[r].todo = todo
        /\ req'[r].day = req[r].day /\ req'[r] \in Rec /\ req'[r].tries = req[r].tries
    BY <1>2 DEF Becomes
  <1>5. \A h \in Gates : Holds(h, req'[r]) <=> req[r].at \in Past(h)
    BY <1>4 DEF Holds, Past
  <1>6. Others(r) /\ faults' # 0
    BY <1>2, FaultIs DEF Others, Becomes
  <1>7. RequestOK(r, req'[r], marker', faults')
    <2>1. req[r].tries \in 1 .. Tries[r]
      BY DEF IInv, RequestsOK, RequestOK, Request
    <2>2. req'[r] \in Request(r)
      BY <1>4, <2>1, RequestIs
    <2>3. Shape(req'[r])
      BY <1>4 DEF Shape
    <2> QED BY <1>3, <1>6, <2>2, <2>3 DEF RequestOK
  <1>8. RequestsOK'
    BY <1>6, <1>7, RequestsStep DEF IInv
  <1>9. \A h \in Gates : Still(r, h)
    BY <1>3, <1>4, <1>5, <1>6 DEF Still
  <1>10. <<g, r>> \notin marker /\ <<g, r>> \notin marker' /\ ~Holds(g, req[r])
         /\ ~Holds(g, req'[r])
    BY <1>3, <1>5
  <1> QED BY <1>2, <1>6, <1>8, <1>9, <1>10, ChargeStep DEF Core, Becomes

LEMMA MeterFailsStep ==
    ASSUME IInv, NEW r \in Requests, MeterFails(r)
    PROVE  Core'
  <1>1. req[r].at = "limited" /\ faults' # 0 /\ UNCHANGED <<marker, day>>
        /\ Ends(r, "refused", <<"slot">>) /\ Fault
    BY FaultIs DEF MeterFails
  <1>2. CASE UNCHANGED counter
    BY <1>1, <1>2, RefusesLimited
  <1>3. CASE Fits("quota", r) /\ Charge("quota", r)
    <2>1. Last \in RefusalTodos /\ Ends(r, "refused", Last)
      BY <1>1, RefusalAwaits DEF RefusalTodos
    <2>2. \A h \in Gates : (Last \in Awaiting(h) <=> req[r].at \in Past(h))
      BY <1>1, RefusalAwaits DEF Past
    <2>3. req[r].at \notin Past("quota")
      BY <1>1 DEF Past
    <2> QED BY <1>1, <1>3, <2>1, <2>2, <2>3, GatesAre, GateChargesLost
  <1> QED BY <1>2, <1>3 DEF MeterFails

LEMMA ChargeFailsStep ==
    ASSUME IInv, NEW r \in Requests, ChargeFails(r)
    PROVE  Core'
  <1>1. req[r].at = "metered" /\ faults' # 0 /\ UNCHANGED <<marker, day>>
        /\ Ends(r, "refused", <<"quota", "slot">>) /\ Fault
    BY FaultIs DEF ChargeFails
  <1>2. CASE UNCHANGED counter
    BY <1>1, <1>2, RefusesMetered
  <1>3. CASE Fits("budget", r) /\ Charge("budget", r)
    <2>1. Refuse2 \in RefusalTodos /\ Ends(r, "refused", Refuse2)
      BY <1>1, RefusalAwaits DEF RefusalTodos
    <2>2. \A h \in Gates : (Refuse2 \in Awaiting(h) <=> req[r].at \in Past(h))
      BY <1>1, RefusalAwaits DEF Past
    <2>3. req[r].at \notin Past("budget")
      BY <1>1 DEF Past
    <2> QED BY <1>1, <1>3, <2>1, <2>2, <2>3, GatesAre, GateChargesLost
  <1> QED BY <1>2, <1>3 DEF ChargeFails

(* A reserve script that is sent again.                                    *)
LEMMA ChargeLostStep ==
    ASSUME IInv, NEW r \in Requests, NEW g \in Gates, ChargeLost(r, g)
    PROVE  Core'
  <1>1. /\ UNCHANGED <<req, marker, day>> /\ faults' # 0
        /\ Fits(g, r) /\ Charge(g, r)
        /\ req[r].at \notin {"finishing", "done"} /\ req[r].at \notin Past(g)
    BY FaultIs DEF ChargeLost, Past, Gates
  <1>2. <<g, r>> \notin marker /\ <<g, r>> \notin marker' /\ ~Holds(g, req[r])
    BY <1>1, EarlyIs DEF IInv
  <1>3. RequestOK(r, req'[r], marker', faults')
    BY <1>1 DEF IInv, RequestsOK, RequestOK
  <1>4. Others(r) /\ \A h \in Gates : Still(r, h)
    BY <1>1 DEF Others, Still
  <1>5. RequestsOK'
    BY <1>1, <1>3, <1>4, RequestsStep DEF IInv
  <1>6. ~Holds(g, req'[r])
    BY <1>1, <1>2
  <1>7. CountersOK' /\ KeysKept'
    BY <1>1, <1>2, <1>4, <1>5, <1>6, ChargeStep
  <1>8. req' \in [Requests -> Rec]
    BY <1>1 DEF IInv, TypesOK
  <1> QED BY <1>5, <1>7, <1>8 DEF Core

-----------------------------------------------------------------------------
(* Ends of calls, finalization and crashes preserve the invariant.         *)

LEMMA CallEndsStep ==
    ASSUME IInv, NEW r \in Requests, NEW out \in Out, NEW todo \in Todos,
           NEW used \in [Gates -> Actual \cup {None}], CallEnds(r, out, todo, used),
           \/ out = "answered" /\ todo = Answer4
           \/ out = "failed" /\ todo = Fail4
           \/ out = "truncated" /\ todo = Last
    PROVE  Core'
  <1>1. Becomes(r, "finishing", out, todo, req[r].day, used, req[r].tries)
    BY CallEndsIs DEF IInv
  <1>2. req[r].at = "running" /\ UNCHANGED <<counter, marker, day>> /\ faults' = faults
    BY DEF CallEnds, NoFault
  <1>3. req'[r].at = "finishing" /\ req'[r].out = out /\ req'[r].todo = todo
    BY <1>1 DEF Becomes
  <1>4. Shape(req'[r])
    BY <1>3 DEF Shape, AnswerTodos, FailTodos
  <1>5. \A g \in Gates : req[r].at \in Past(g) /\ Holds(g, req'[r])
    <2>1. \A g \in Gates : req[r].at \in Past(g)
      BY <1>2 DEF Past
    <2>2. \A g \in Gates : Fail4 \in Awaiting(g)
      BY DEF Awaiting, Gates
    <2> QED BY <1>3, <2>1, <2>2 DEF Holds
  <1>6. req[r].at \notin {"finishing", "done"} /\ "finishing" # "done"
    BY <1>2
  <1>7. out = "answered" => todo = Answer4
    OBVIOUS
  <1> QED BY <1>1, <1>2, <1>4, <1>5, <1>6, <1>7, EarlyStep DEF Core

LEMMA AnsweredStep ==
    ASSUME IInv, NEW r \in Requests, Answered(r)
    PROVE  Core'
  <1>1. PICK n \in Actual \cup {None}, priced \in BOOLEAN :
            CallEnds(r, "answered", <<"quota", "ledger", "budget", "slot">>,
                     [quota |-> n, budget |-> IF priced THEN n ELSE None])
    BY DEF Answered
  <1> DEFINE cost == IF priced THEN n ELSE None
             used == [quota |-> n, budget |-> cost]
  <1>2. cost \in Actual \cup {None}
    OBVIOUS
  <1> HIDE DEF cost
  <1>3. used \in [Gates -> Actual \cup {None}]
    BY <1>2 DEF Gates
  <1>4. Answer4 \in Todos /\ "answered" \in Out /\ CallEnds(r, "answered", Answer4, used)
    BY <1>1 DEF Todos, AnswerTodos, Out, Answer4, cost
  <1> HIDE DEF used
  <1> QED BY <1>3, <1>4, CallEndsStep

LEMMA UnknownType == Unknown \in [Gates -> Actual \cup {None}]
  BY DEF Unknown

LEMMA FailedStep ==
    ASSUME IInv, NEW r \in Requests, Failed(r)
    PROVE  Core'
  <1>1. Fail4 \in Todos /\ "failed" \in Out /\ CallEnds(r, "failed", Fail4, Unknown)
    BY DEF Failed, Todos, FailTodos, Out, Fail4
  <1> QED BY <1>1, UnknownType, CallEndsStep

LEMMA TruncatedStep ==
    ASSUME IInv, NEW r \in Requests, Truncated(r)
    PROVE  Core'
  <1>1. Last \in Todos /\ "truncated" \in Out /\ CallEnds(r, "truncated", Last, Unknown)
    BY DEF Truncated, Todos, FailTodos, Out, Last
  <1> QED BY <1>1, UnknownType, CallEndsStep

(* One entry of the list is done.                                          *)
LEMMA Next1Shape ==
    ASSUME IInv, NEW r \in Requests, req[r].at = "finishing", Next1(r)
    PROVE  /\ req[r].todo \in Todos
           /\ Becomes(r, req'[r].at, req[r].out, Tail(req[r].todo), req[r].day,
                      req[r].used, req[r].tries)
           /\ Shape(req'[r])
           /\ req'[r].at \in {"finishing", "done"}
           /\ req'[r].at = "done" <=> req[r].todo = Last
  <1> DEFINE t == req[r].todo
  <1>1. /\ t \in Todos
        /\ \/ req[r].out = "answered" /\ t \in AnswerTodos
           \/ req[r].out = "failed" /\ t \in FailTodos
           \/ req[r].out = "refused" /\ t \in RefusalTodos
           \/ req[r].out = "truncated" /\ t = Last
    BY LateIs DEF IInv
  <1>2. Becomes(r, IF Tail(t) = Nil THEN "done" ELSE req[r].at, req[r].out, Tail(t),
                req[r].day, req[r].used, req[r].tries)
    BY <1>1, Next1Is DEF IInv
  <1>3. req'[r].at = (IF Tail(t) = Nil THEN "done" ELSE "finishing")
        /\ req'[r].out = req[r].out /\ req'[r].todo = Tail(t)
    BY <1>2 DEF Becomes
  <1>4. Becomes(r, req'[r].at, req[r].out, Tail(t), req[r].day, req[r].used, req[r].tries)
    BY <1>2 DEF Becomes
  <1>5. t = Last <=> Tail(t) = Nil
    BY <1>1, TodoSteps
  <1>6. t # Last => /\ t \in AnswerTodos => Tail(t) \in AnswerTodos
                    /\ t \in FailTodos => Tail(t) \in FailTodos
                    /\ t \in RefusalTodos => Tail(t) \in RefusalTodos
    BY <1>1, TodoSteps
  <1> HIDE DEF t
  <1>7. CASE Tail(t) = Nil
    <2>1. req'[r].at = "done" /\ req'[r].todo = Nil /\ t = Last
      BY <1>3, <1>5, <1>7
    <2> QED BY <1>1, <1>4, <2>1 DEF Shape, t
  <1>8. CASE Tail(t) # Nil
    <2>1. req'[r].at = "finishing" /\ req'[r].todo = Tail(t) /\ req'[r].out = req[r].out
          /\ t # Last
      BY <1>3, <1>5, <1>8
    <2>2. Shape(req'[r])
      BY <1>1, <1>6, <2>1 DEF Shape
    <2> QED BY <1>1, <1>4, <2>1, <2>2 DEF t
  <1> QED BY <1>7, <1>8

LEMMA Next1Awaits ==
    ASSUME NEW t \in Todos, NEW g \in Gates
    PROVE  /\ Tail(t) \in Awaiting(g) <=> t \in Awaiting(g) /\ Head(t) # g
           /\ Head(t) = g => t \in Awaiting(g)
  BY TodoSteps DEF Gates

(* Finalization that moves no counter.                                     *)
LEMMA Next1Step ==
    ASSUME IInv, NEW r \in Requests, req[r].at = "finishing", Next1(r),
           UNCHANGED <<counter, marker, day>>,
           faults' = 0 =>
              /\ faults = 0
              /\ \A g \in Gates : Head(req[r].todo) = g =>
                    <<g, r>> \in marker \/ (req[r].out = "answered" /\ req[r].used[g] = None)
    PROVE  Core'
  <1>1. /\ req[r].todo \in Todos
        /\ Becomes(r, req'[r].at, req[r].out, Tail(req[r].todo), req[r].day,
                   req[r].used, req[r].tries)
        /\ Shape(req'[r])
        /\ req'[r].at \in {"finishing", "done"}
    BY Next1Shape
  <1>2. \A g \in Gates : /\ Tail(req[r].todo) \in Awaiting(g) =>
                                 req[r].todo \in Awaiting(g) \/ req[r].out = "answered"
                         /\ req[r].todo \in Awaiting(g) =>
                                Tail(req[r].todo) \in Awaiting(g) \/ Head(req[r].todo) = g
    BY <1>1, Next1Awaits
  <1>3. req[r].tries \in 1 .. req[r].tries
    BY RequestAssumption DEF IInv, RequestsOK, RequestOK, Request, RequestAssumption
  <1> QED BY <1>1, <1>2, <1>3, LateStep DEF Core

LEMMA FinishSlotStep ==
    ASSUME IInv, NEW r \in Requests, FinishSlot(r)
    PROVE  Core'
  <1>1. /\ req[r].at = "finishing" /\ Head(req[r].todo) = "slot" /\ Next1(r)
        /\ UNCHANGED <<counter, marker, day>>
        /\ NoFault \/ Fault
    BY DEF FinishSlot, Heads
  <1>2. faults' = 0 => faults = 0
    BY <1>1, FaultIs DEF NoFault
  <1>3. \A g \in Gates : Head(req[r].todo) # g
    BY <1>1 DEF Gates
  <1> QED BY <1>1, <1>2, <1>3, Next1Step

LEMMA FinishLedgerStep ==
    ASSUME IInv, NEW r \in Requests, FinishLedger(r)
    PROVE  Core'
  <1>1. /\ req[r].at = "finishing" /\ Head(req[r].todo) = "ledger" /\ Next1(r)
        /\ UNCHANGED <<counter, marker, day>> /\ NoFault
    BY DEF FinishLedger, Heads
  <1>2. faults' = 0 => faults = 0
    BY <1>1 DEF NoFault
  <1>3. \A g \in Gates : Head(req[r].todo) # g
    BY <1>1 DEF Gates
  <1> QED BY <1>1, <1>2, <1>3, Next1Step

LEMMA FinishLedgerFailsStep ==
    ASSUME IInv, NEW r \in Requests, FinishLedgerFails(r)
    PROVE  Core'
  <1>1. /\ req[r].at = "finishing" /\ Head(req[r].todo) = "ledger"
        /\ UNCHANGED <<counter, marker, day>> /\ faults' # 0
    BY FaultIs DEF FinishLedgerFails, Heads
  <1>2. req \in [Requests -> Rec] /\ req[r] \in Rec
    BY DEF IInv, TypesOK
  <1>3. req[r].tries \in 1 .. 2
    BY <1>2 DEF Rec
  <1>4. /\ req[r].todo \in Todos
        /\ \/ req[r].out = "answered" /\ req[r].todo \in AnswerTodos
           \/ req[r].out = "failed" /\ req[r].todo \in FailTodos
           \/ req[r].out = "refused" /\ req[r].todo \in RefusalTodos
           \/ req[r].out = "truncated" /\ req[r].todo = Last
    BY <1>1, LateIs DEF IInv
  <1>5. CASE req[r].out = "answered" /\ req[r].tries > 1
    <2>1. req' = [req EXCEPT ![r].tries = @ - 1, ![r].todo = <<"quota">> \o @]
      BY <1>5 DEF FinishLedgerFails
    <2>2. req[r].todo = Answer3
      BY <1>1, <1>4, <1>5, TodoSteps
    <2>3. Answer4 \in Todos /\ Answer4 \in Seq(Work) /\ Answer4 \in AnswerTodos
      BY TodoTypes DEF Todos, AnswerTodos
    <2>4. req' = [req EXCEPT ![r] = [req[r] EXCEPT !.tries = req[r].tries - 1,
                                                   !.todo = Answer4]]
      <3>1. <<"quota">> \o req[r].todo = Answer4
        BY <2>2, TodoAgain
      <3> QED BY <1>2, <2>1, <3>1
    <2>5. req[r].tries - 1 \in 1 .. req[r].tries /\ req[r].tries - 1 \in 1 .. 2
      BY <1>3, <1>5
    <2>6. Becomes(r, "finishing", req[r].out, Answer4, req[r].day, req[r].used,
                  req[r].tries - 1)
      BY <1>1, <1>2, <2>3, <2>4, <2>5 DEF Becomes, Rec
    <2>7. Shape(req'[r])
      BY <1>5, <2>3, <2>6 DEF Becomes, Shape
    <2> QED BY <1>1, <1>5, <2>5, <2>6, <2>7, LateStep DEF Core
  <1>6. CASE ~(req[r].out = "answered" /\ req[r].tries > 1)
    <2>1. req' = [req EXCEPT ![r].todo = Last]
      BY <1>6 DEF FinishLedgerFails, Last
    <2>2. Last \in Todos /\ Last \in Seq(Work)
      BY TodoTypes DEF Todos, AnswerTodos
    <2>3. Becomes(r, "finishing", req[r].out, Last, req[r].day, req[r].used, req[r].tries)
      BY <1>1, <1>2, <2>1, <2>2 DEF Becomes, Rec
    <2>4. Shape(req'[r])
      BY <1>4, <2>3 DEF Becomes, Shape, AnswerTodos, FailTodos, RefusalTodos
    <2>5. \A g \in Gates : Last \notin Awaiting(g)
      BY NilAwaits
    <2>6. req[r].tries \in 1 .. req[r].tries
      BY <1>3
    <2> QED BY <1>1, <2>3, <2>4, <2>5, <2>6, LateStep DEF Core
  <1> QED BY <1>5, <1>6

(* The finalize scripts.                                                   *)
LEMMA FinishCounterStep ==
    ASSUME IInv, NEW r \in Requests, NEW g \in Gates, FinishCounter(r, g)
    PROVE  Core'
  <1>1. req[r].at = "finishing" /\ Head(req[r].todo) = g /\ Next1(r) /\ day' = day
    BY DEF FinishCounter, Heads
  <1>2. CASE UNCHANGED <<counter, marker>> /\ Fault
    <2>1. faults' # 0
      BY <1>2, FaultIs
    <2> QED BY <1>1, <1>2, <2>1, Next1Step
  <1>3. CASE Finalize(g, r) /\ NoFault
    <2>1. faults' = faults
      BY <1>3 DEF NoFault
    <2>2. CASE <<g, r>> \in marker
      <3>1. UNCHANGED <<counter, marker>>
        BY <1>3, <2>2 DEF Finalize, Adjust
      <3> QED BY <1>1, <2>1, <2>2, <3>1, Next1Step
    <2>3. CASE req[r].out = "answered" /\ req[r].used[g] = None
      <3>1. UNCHANGED <<counter, marker>>
        BY <1>3, <2>3 DEF Finalize
      <3> QED BY <1>1, <2>1, <2>3, <3>1, Next1Step
    <2>4. CASE <<g, r>> \notin marker /\ ~(req[r].out = "answered" /\ req[r].used[g] = None)
      <3> DEFINE delta == IF req[r].out = "answered" THEN req[r].used[g] - Estimate[g]
                                                     ELSE -Estimate[g]
                 keys == KeysOf(g, r, req[r].day[g]) \cap DOMAIN counter
      <3>1. marker' = marker \cup {<<g, r>>} /\ counter' = Plus(keys, delta)
        BY <1>3, <2>4 DEF Finalize, Adjust
      <3>2. /\ req[r].todo \in Todos
            /\ Becomes(r, req'[r].at, req[r].out, Tail(req[r].todo), req[r].day,
                       req[r].used, req[r].tries)
            /\ Shape(req'[r])
            /\ req'[r].at \in {"finishing", "done"}
        BY <1>1, Next1Shape
      <3>3. /\ req'[r] \in Rec /\ req'[r].out = req[r].out /\ req'[r].tries = req[r].tries
            /\ req'[r].todo = Tail(req[r].todo) /\ req'[r].used = req[r].used
            /\ req'[r].day = req[r].day
        BY <3>2 DEF Becomes
      <3>4. \A h \in Gates : /\ req'[r].todo \in Awaiting(h)
                                    <=> req[r].todo \in Awaiting(h) /\ h # g
                             /\ h = g => req[r].todo \in Awaiting(h)
        BY <1>1, <3>2, <3>3, Next1Awaits
      <3>5. RequestOK(r, req[r], marker, faults)
        BY DEF IInv, RequestsOK
      <3>6. req[r].out \in {"answered", "failed", "refused"}
        <4>1. Last \notin Awaiting(g) /\ req[r].todo \in Awaiting(g)
          BY <3>4, NilAwaits
        <4> QED BY <1>1, <4>1, LateIs DEF IInv
      <3>7. \A h \in Gates : <<h, r>> \in marker' <=> <<h, r>> \in marker \/ h = g
        BY <3>1
      <3>8. Others(r)
        BY <3>1, <3>2 DEF Others, Becomes
      <3>9. RequestOK(r, req'[r], marker', faults')
        <4>1. req'[r] \in Request(r)
          BY <3>3, <3>5, RequestIs DEF RequestOK, Request
        <4>2. ASSUME NEW h \in Gates, <<h, r>> \in marker' PROVE Final(h, req'[r])
          <5>1. CASE h = g
            BY <2>4, <3>2, <3>3, <3>4, <3>6, <5>1 DEF Final
          <5>2. CASE h # g
            BY <3>2, <3>3, <3>4, <3>5, <3>7, <4>2, <5>2 DEF Final, RequestOK
          <5> QED BY <5>1, <5>2
        <4>3. faults' = 0 /\ req'[r].out = "answered" =>
                  \A h \in Gates : req'[r].used[h] # None =>
                      <<h, r>> \in marker' \/ req'[r].todo \in Awaiting(h)
          BY <2>1, <3>3, <3>4, <3>5, <3>7 DEF RequestOK
        <4>4. req'[r].out # "none"
          BY <3>3, <3>6
        <4> QED BY <3>2, <4>1, <4>2, <4>3, <4>4 DEF RequestOK
      <3>10. RequestsOK'
        BY <2>1, <3>8, <3>9, RequestsStep DEF IInv
      <3>11. ASSUME NEW h \in Gates \ {g} PROVE Still(r, h)
        <4>1. req[r].at \notin Past(h) /\ req'[r].at \notin Past(h)
          BY <1>1, <3>2 DEF Past
        <4>2. Holds(h, req'[r]) <=> Holds(h, req[r])
          BY <3>3, <3>4, <4>1 DEF Holds
        <4> QED BY <2>1, <3>3, <3>7, <4>2 DEF Still
      <3>12. Holds(g, req[r])
        BY <3>4 DEF Holds
      <3>13. IF req[r].out = "answered"
             THEN req[r].used[g] \in Nat /\ delta = req[r].used[g] - Estimate[g]
             ELSE delta = -Estimate[g]
        <4>1. req[r].used[g] \in Actual \cup {None} /\ Actual \subseteq Nat
          BY <3>5, LimitAssumption DEF RequestOK, Request, LimitAssumption
        <4> QED BY <2>4, <4>1
      <3>14. <<g, r>> \in marker'
        BY <3>1
      <3> HIDE DEF delta
      <3> QED BY <1>1, <2>1, <2>4, <3>1, <3>2, <3>3, <3>8, <3>10, <3>11, <3>12, <3>13, <3>14,
                 AdjustStep DEF Core, Becomes
    <2> QED BY <2>2, <2>3, <2>4
  <1> QED BY <1>2, <1>3 DEF FinishCounter

LEMMA CrashStep ==
    ASSUME IInv, NEW r \in Requests, Crash(r)
    PROVE  Core'
  <1>1. /\ req[r].at \notin {"new", "done"}
        /\ UNCHANGED <<counter, marker, day>> /\ faults' # 0
        /\ req' = [req EXCEPT ![r].at = "done", ![r].todo = Nil]
    BY FaultIs, TodoTypes DEF Crash
  <1>2. req \in [Requests -> Rec] /\ req[r] \in Rec
    BY DEF IInv, TypesOK
  <1>3. "done" \in At /\ Nil \in Seq(Work)
    BY TodoTypes DEF At
  <1>4. Becomes(r, "done", req[r].out, Nil, req[r].day, req[r].used, req[r].tries)
    BY <1>1, <1>2, <1>3 DEF Becomes, Rec
  <1>5. req'[r].at = "done" /\ req'[r].todo = Nil /\ req'[r].out = req[r].out
    BY <1>4 DEF Becomes
  <1>6. Shape(req'[r])
    BY <1>5 DEF Shape
  <1>7. CASE req[r].at = "finishing"
    <2>1. \A g \in Gates : Nil \notin Awaiting(g)
      BY NilAwaits
    <2>2. req[r].tries \in 1 .. req[r].tries
      BY <1>2 DEF Rec
    <2> QED BY <1>1, <1>4, <1>6, <1>7, <2>1, <2>2, LateStep DEF Core
  <1>8. CASE req[r].at # "finishing"
    <2>1. req[r].at \notin {"finishing", "done"}
      BY <1>1, <1>8
    <2>2. req[r].out = "none" /\ "none" # "answered"
      BY <2>1, EarlyIs DEF IInv
    <2>3. \A g \in Gates : ~Holds(g, req'[r])
      BY <1>5, <2>2, NilAwaits DEF Holds, Past
    <2> QED BY <1>1, <1>4, <1>6, <2>1, <2>2, <2>3, EarlyStep DEF Core
  <1> QED BY <1>7, <1>8

-----------------------------------------------------------------------------
(* The calendar.                                                           *)

LEMMA NextDayStep ==
    ASSUME IInv, NextDay
    PROVE  Core'
  <1>1. day' = day + 1 /\ UNCHANGED <<counter, marker, slots, ledger, req, faults>>
        /\ day \in Nat
    BY DEF NextDay, IInv, TypesOK
  <1>2. req' \in [Requests -> Rec]
    BY <1>1 DEF IInv, TypesOK
  <1>3. RequestsOK'
    BY <1>1 DEF IInv, RequestsOK, RequestOK, Request, Shape, Final, Awaiting, AnswerTodos,
                FailTodos, RefusalTodos
  <1>4. CountersOK'
    <2> SUFFICES ASSUME NEW key \in DOMAIN counter' PROVE Tallied(key)'
      BY DEF CountersOK
    <2>1. Tallied(key)
      BY <1>1 DEF IInv, CountersOK
    <2>2. Shares(key)' = Shares(key) /\ Overs(key)' = Overs(key) /\ Amount(key)' = Amount(key)
          /\ LimitOf(key)' = LimitOf(key)
      BY <1>1 DEF Shares, Overs, Amount, LimitOf
    <2> QED BY <1>1, <2>1, <2>2 DEF Tallied
  <1>5. KeysKept'
    <2> SUFFICES ASSUME NEW key \in Key, NEW x \in Requests PROVE Kept(key, x)'
      BY DEF KeysKept
    <2>1. Kept(key, x)
      BY DEF IInv, KeysKept
    <2>2. GoneOn(key) \in Int
      <3> DaysPerMonth \in Nat /\ Grace \in Nat /\ MaxDay \in Nat
        BY CalendarAssumption DEF CalendarAssumption
      <3> key[4] \in 0 .. MaxDay
        BY DEF Key
      <3>1. (key[4] + 1) * DaysPerMonth \in Int
        OBVIOUS
      <3> QED BY <3>1 DEF GoneOn
    <2>3. day >= GoneOn(key) => day' >= GoneOn(key)
      BY <1>1, <2>2
    <2>4. GoneOn(key)' = GoneOn(key) /\ GateOf(key)' = GateOf(key)
          /\ On(key, x, req[x])' = On(key, x, req[x])
          /\ Holds(GateOf(key), req[x])' = Holds(GateOf(key), req[x])
      BY <1>1 DEF GoneOn, GateOf, On, Holds, KeysOf, Capped, Owner, Period, ScopesOf, Past,
                  Awaiting
    <2> QED BY <1>1, <2>1, <2>3, <2>4 DEF Kept
  <1> QED BY <1>2, <1>3, <1>4, <1>5 DEF Core

LEMMA ExpireStep ==
    ASSUME IInv, NEW gone \in Key, Expire(gone)
    PROVE  Core'
  <1>1. /\ day >= GoneOn(gone) /\ counter' = [k \in DOMAIN counter \ {gone} |-> counter[k]]
        /\ UNCHANGED <<marker, slots, ledger, req, day, faults>>
    BY DEF Expire
  <1>2. req' \in [Requests -> Rec]
    BY <1>1 DEF IInv, TypesOK
  <1>3. RequestsOK'
    BY <1>1 DEF IInv, RequestsOK, RequestOK, Request, Shape, Final, Awaiting, AnswerTodos,
                FailTodos, RefusalTodos
  <1>4. CountersOK'
    <2> SUFFICES ASSUME NEW key \in DOMAIN counter' PROVE Tallied(key)'
      BY DEF CountersOK
    <2>1. key \in DOMAIN counter /\ key \in DOMAIN counter' /\ counter'[key] = counter[key]
      BY <1>1
    <2>2. Tallied(key)
      BY <2>1 DEF IInv, CountersOK
    <2>3. Shares(key)' = Shares(key) /\ Overs(key)' = Overs(key)
          /\ LimitOf(key)' = LimitOf(key)
      BY <1>1 DEF Shares, Overs, LimitOf
    <2>4. Amount(key)' = Amount(key)
      BY <2>1 DEF Amount
    <2> QED BY <1>1, <2>2, <2>3, <2>4 DEF Tallied
  <1>5. KeysKept'
    <2> SUFFICES ASSUME NEW key \in Key, NEW x \in Requests PROVE Kept(key, x)'
      BY DEF KeysKept
    <2>1. Kept(key, x)
      BY DEF IInv, KeysKept
    <2>2. GoneOn(key)' = GoneOn(key) /\ GateOf(key)' = GateOf(key)
          /\ On(key, x, req[x])' = On(key, x, req[x])
          /\ Holds(GateOf(key), req[x])' = Holds(GateOf(key), req[x])
      BY <1>1 DEF GoneOn, GateOf, On, Holds, KeysOf, Capped, Owner, Period, ScopesOf, Past,
                  Awaiting
    <2>3. key \in DOMAIN counter => key \in DOMAIN counter' \/ key = gone
      BY <1>1
    <2> QED BY <1>1, <2>1, <2>2, <2>3 DEF Kept
  <1> QED BY <1>2, <1>3, <1>4, <1>5 DEF Core

-----------------------------------------------------------------------------
(* Types of the other variables.                                           *)

StateOK ==
    /\ marker \subseteq Gates \X Requests
    /\ slots \subseteq Requests
    /\ ledger \in [Identities -> [reserved : Nat, settled : BOOLEAN]]
    /\ day \in 0 .. MaxDay
    /\ faults \in 0 .. MaxFaults
    /\ DOMAIN counter \subseteq Key

LEMMA RowType ==
    ASSUME NEW l \in [reserved : Nat, settled : BOOLEAN]
    PROVE  /\ Booked(l) \in [reserved : Nat, settled : BOOLEAN]
           /\ Freed(l) \in [reserved : Nat, settled : BOOLEAN]
           /\ Settled(l) \in [reserved : Nat, settled : BOOLEAN]
  <1>1. Booked(l) \in [reserved : Nat, settled : BOOLEAN]
    BY DEF Booked
  <1>2. Freed(l) \in [reserved : Nat, settled : BOOLEAN]
    BY DEF Freed
  <1>3. Settled(l) \in [reserved : Nat, settled : BOOLEAN]
    BY DEF Settled
  <1> QED BY <1>1, <1>2, <1>3

LEMMA LedgerType ==
    ASSUME TypesOK, NEW r \in Requests, Book(r) \/ Free(r) \/ Settle(r) \/ UNCHANGED ledger
    PROVE  ledger' \in [Identities -> [reserved : Nat, settled : BOOLEAN]]
  <1> DEFINE Row == [reserved : Nat, settled : BOOLEAN]
  <1>1. ledger \in [Identities -> Row] /\ IdentityOf[r] \in Identities
    BY RequestAssumption DEF RequestAssumption, TypesOK
  <1>2. \A l \in Row : Booked(l) \in Row /\ Freed(l) \in Row /\ Settled(l) \in Row
    BY RowType
  <1> HIDE DEF Row
  <1>3. ledger' \in [Identities -> Row]
    BY <1>1, <1>2 DEF Book, Free, Settle
  <1> QED BY <1>3 DEF Row

LEMMA KeysType ==
    ASSUME TypesOK, NEW r \in Requests, NEW g \in Gates, Charge(g, r)
    PROVE  DOMAIN counter' \subseteq Key
  <1>1. day \in 0 .. MaxDay /\ DOMAIN counter \subseteq Key
    BY DEF TypesOK
  <1>2. KeysOf(g, r, day) \subseteq Key
    BY <1>1, KeyIs
  <1>3. DOMAIN counter' = DOMAIN counter \cup KeysOf(g, r, day)
    BY PlusAmount DEF Charge
  <1> QED BY <1>1, <1>2, <1>3

LEMMA FaultsType ==
    ASSUME IInv, NoFault \/ Fault
    PROVE  faults' \in 0 .. MaxFaults
  BY FaultIs DEF NoFault, IInv, TypesOK

LEMMA AdmitTypes ==
    ASSUME IInv, NEW r \in Requests, AdmitNext(r)
    PROVE  StateOK'
  <1>1. NoFault \/ Fault
    BY DEF AdmitNext, Allow, AllowDenied, AllowFails, Meter, MeterDenied, MeterFails,
           ChargeBudget, ChargeDenied, ChargeFails, ChargeLost, Admit,
           AdmitFails
  <1>2. UNCHANGED <<marker, day>> /\ slots' \subseteq slots \cup {r}
    BY DEF AdmitNext, Allow, AllowDenied, AllowFails, Meter, MeterDenied, MeterFails,
           ChargeBudget, ChargeDenied, ChargeFails, ChargeLost, Admit,
           AdmitFails
  <1>3. Book(r) \/ UNCHANGED ledger
    BY DEF AdmitNext, Allow, AllowDenied, AllowFails, Meter, MeterDenied, MeterFails,
           ChargeBudget, ChargeDenied, ChargeFails, ChargeLost, Admit,
           AdmitFails
  <1>4. Charge("quota", r) \/ Charge("budget", r) \/ UNCHANGED counter
    BY DEF AdmitNext, Allow, AllowDenied, AllowFails, Meter, MeterDenied, MeterFails,
           ChargeBudget, ChargeDenied, ChargeFails, ChargeLost, Admit,
           AdmitFails
  <1>5. DOMAIN counter' \subseteq Key
    BY <1>4, KeysType, GatesAre DEF IInv, TypesOK
  <1>6. ledger' \in [Identities -> [reserved : Nat, settled : BOOLEAN]]
    BY <1>3, LedgerType DEF IInv
  <1>7. faults' \in 0 .. MaxFaults
    BY <1>1, FaultsType
  <1> QED BY <1>2, <1>5, <1>6, <1>7 DEF StateOK, IInv, TypesOK

LEMMA CounterTypes ==
    ASSUME IInv, NEW r \in Requests, NEW g \in Gates, FinishCounter(r, g)
    PROVE  StateOK'
  <1>1. NoFault \/ Fault
    BY DEF FinishCounter
  <1>2. UNCHANGED <<slots, ledger, day>>
    BY DEF FinishCounter
  <1>3. marker' \subseteq marker \cup {<<g, r>>} /\ DOMAIN counter' \subseteq DOMAIN counter
    <2>1. CASE UNCHANGED <<counter, marker>>
      BY <2>1
    <2>2. CASE ~UNCHANGED <<counter, marker>>
      <3>1. PICK delta : Adjust(g, r, delta)
        BY <2>2 DEF FinishCounter, Finalize
      <3> DEFINE keys == KeysOf(g, r, req[r].day[g]) \cap DOMAIN counter
      <3>2. marker' = marker \cup {<<g, r>>} /\ counter' = Plus(keys, delta)
        BY <2>2, <3>1 DEF Adjust
      <3>3. keys \subseteq DOMAIN counter
        OBVIOUS
      <3> HIDE DEF keys
      <3> QED BY <3>2, <3>3, PlusAmount
    <2> QED BY <2>1, <2>2
  <1>4. faults' \in 0 .. MaxFaults
    BY <1>1, FaultsType
  <1> QED BY <1>2, <1>3, <1>4 DEF StateOK, IInv, TypesOK

LEMMA FinishTypes ==
    ASSUME IInv, NEW r \in Requests,
           \/ FinishLedger(r) \/ FinishLedgerFails(r) \/ FinishSlot(r)
           \/ Answered(r) \/ Failed(r) \/ Truncated(r) \/ Crash(r)
    PROVE  StateOK'
  <1>1. NoFault \/ Fault
    BY DEF FinishLedger, FinishLedgerFails, FinishSlot, Answered, Failed, Truncated, CallEnds,
           Crash
  <1>2. UNCHANGED <<counter, marker, day>> /\ slots' \subseteq slots
    BY DEF FinishLedger, FinishLedgerFails, FinishSlot, Answered, Failed, Truncated, CallEnds,
           Crash
  <1>3. Free(r) \/ Settle(r) \/ UNCHANGED ledger
    BY DEF FinishLedger, FinishLedgerFails, FinishSlot, Answered, Failed, Truncated, CallEnds,
           Crash
  <1>4. ledger' \in [Identities -> [reserved : Nat, settled : BOOLEAN]]
    BY <1>3, LedgerType DEF IInv
  <1>5. faults' \in 0 .. MaxFaults
    BY <1>1, FaultsType
  <1> QED BY <1>2, <1>4, <1>5 DEF StateOK, IInv, TypesOK

LEMMA CalendarTypes ==
    ASSUME IInv, NextDay \/ \E key \in Key : Expire(key)
    PROVE  StateOK'
  <1>1. CASE NextDay
    <2>1. day + 1 \in 0 .. MaxDay
      BY <1>1, CalendarAssumption DEF CalendarAssumption, NextDay, IInv, TypesOK
    <2> QED BY <1>1, <2>1 DEF NextDay, StateOK, IInv, TypesOK
  <1>2. CASE \E key \in Key : Expire(key)
    <2>1. DOMAIN counter' \subseteq DOMAIN counter
          /\ UNCHANGED <<marker, slots, ledger, day, faults>>
      BY <1>2 DEF Expire
    <2> QED BY <2>1 DEF StateOK, IInv, TypesOK
  <1> QED BY <1>1, <1>2

-----------------------------------------------------------------------------
(* The invariant is inductive.                                             *)

LEMMA InvInit ==
    ASSUME Init
    PROVE  IInv
  <1>1. \A r \in Requests : Fresh(r) \in Rec /\ RequestOK(r, Fresh(r), {}, 0)
    <2> SUFFICES ASSUME NEW r \in Requests
                 PROVE  Fresh(r) \in Rec /\ RequestOK(r, Fresh(r), {}, 0)
      OBVIOUS
    <2>1. Tries[r] \in 1 .. 2 /\ Tries[r] \in 1 .. Tries[r] /\ 0 \in 0 .. MaxDay
      BY RequestAssumption, CalendarAssumption DEF RequestAssumption, CalendarAssumption
    <2>2. <<>> = Nil /\ Nil \in Seq(Work)
      BY TodoTypes
    <2>3. Fresh(r) \in Rec
      BY <2>1, <2>2 DEF Fresh, Rec, At, Out
    <2>4. Fresh(r).at = "new" /\ Fresh(r).out = "none" /\ Fresh(r).todo = Nil
          /\ Fresh(r).tries = Tries[r]
      BY <2>2 DEF Fresh
    <2>5. Fresh(r) \in Request(r)
      BY <2>1, <2>3, <2>4, RequestIs
    <2>6. Shape(Fresh(r))
      BY <2>4 DEF Shape
    <2> QED BY <2>3, <2>4, <2>5, <2>6 DEF RequestOK
  <1>2. req \in [Requests -> Rec] /\ RequestsOK
    BY <1>1 DEF Init, RequestsOK
  <1>3. CountersOK
    BY DEF Init, CountersOK
  <1>4. KeysKept
    <2>1. ASSUME NEW key \in Key, NEW r \in Requests PROVE ~Holds(GateOf(key), req[r])
      <3>1. req[r].at = "new" /\ req[r].out = "none" /\ req[r].todo = Nil
        BY TodoTypes DEF Init, Fresh
      <3> QED BY <3>1, NilAwaits DEF Holds, Past
    <2> QED BY <2>1 DEF KeysKept, Kept
  <1>5. StateOK
    BY CalendarAssumption DEF CalendarAssumption, Init, StateOK
  <1> QED BY <1>2, <1>3, <1>4, <1>5 DEF IInv, TypesOK, Core, StateOK

LEMMA InvNext ==
    ASSUME IInv, [Next]_vars
    PROVE  IInv'
  <1>1. CASE UNCHANGED vars
    <2>1. Core'
      BY <1>1 DEF vars, IInv, TypesOK, Core, RequestsOK, CountersOK, KeysKept, Tallied, Shares,
                  Overs, Amount, Kept
    <2>2. StateOK'
      BY <1>1 DEF vars, IInv, TypesOK, StateOK
    <2> QED BY <2>1, <2>2 DEF IInv, TypesOK, Core, StateOK
  <1>2. ASSUME NEW r \in Requests, AdmitNext(r) PROVE Core' /\ StateOK'
    <2>1. Core'
      BY <1>2, AllowStep, QuitsStep, MeterStep, MeterDeniedStep, MeterFailsStep,
         ChargeBudgetStep, ChargeDeniedStep, ChargeFailsStep, ChargeLostStep, AdmitStep,
         AdmitFailsStep, GatesAre DEF AdmitNext
    <2> QED BY <1>2, <2>1, AdmitTypes
  <1>3. ASSUME NEW r \in Requests, NEW g \in Gates, FinishCounter(r, g) PROVE Core' /\ StateOK'
    BY <1>3, FinishCounterStep, CounterTypes
  <1>4. ASSUME NEW r \in Requests,
               \/ FinishLedger(r) \/ FinishLedgerFails(r) \/ FinishSlot(r)
               \/ Answered(r) \/ Failed(r) \/ Truncated(r) \/ Crash(r)
        PROVE  Core' /\ StateOK'
    <2>1. Core'
      BY <1>4, FinishLedgerStep, FinishLedgerFailsStep, FinishSlotStep, AnsweredStep,
         FailedStep, TruncatedStep, CrashStep
    <2>2. StateOK'
      BY <1>4, FinishTypes
    <2> QED BY <2>1, <2>2
  <1>5. ASSUME NextDay \/ \E key \in Key : Expire(key) PROVE Core' /\ StateOK'
    <2>1. Core'
      BY <1>5, NextDayStep, ExpireStep
    <2>2. StateOK'
      BY <1>5, CalendarTypes
    <2> QED BY <2>1, <2>2
  <1>6. CASE Next
    <2>1. Core' /\ StateOK'
      BY <1>2, <1>3, <1>4, <1>5, <1>6, GatesAre DEF Next, FinishNext
    <2> QED BY <2>1 DEF IInv, TypesOK, Core, StateOK
  <1> QED BY <1>1, <1>6

(* The inductive invariant holds: what every request holds of the gates    *)
(* admit took, and that every counter is the total of it.                  *)
THEOREM InvHolds == Spec => []IInv
  <1>1. Init => IInv
    BY InvInit
  <1>2. IInv /\ [Next]_vars => IInv'
    BY InvNext
  <1> QED BY <1>1, <1>2, PTL DEF Spec

-----------------------------------------------------------------------------
(* What the invariant says of the counters.                                *)

LEMMA CounterIs ==
    ASSUME IInv, NEW key \in DOMAIN counter
    PROVE  /\ counter[key] \in Nat
           /\ counter[key] >= Total(Shares(key))
           /\ faults = 0 => counter[key] = Total(Shares(key))
           /\ counter[key] <= LimitOf(key) + Total(Overs(key))
  <1>1. Tallied(key)
    BY DEF IInv, CountersOK
  <1>2. Total(Shares(key)) \in Nat
    BY SharesType DEF IInv
  <1> QED BY <1>1, <1>2 DEF Tallied, Amount

LEMMA AgainstIs ==
    ASSUME NEW key
    PROVE  Against(key) = {r \in Requests : On(key, r, req[r])}
  BY DEF Against, On

(* A total over the requests charged against a counter.                    *)
LEMMA TotalAgainst ==
    ASSUME NEW key, NEW n \in [Requests -> Nat], NEW m,
           \A r \in Requests \ Against(key) : n[r] = 0,
           m = [r \in Against(key) |-> n[r]]
    PROVE  Total(m) = Total(n)
  <1>1. Against(key) \in SUBSET Requests
    BY DEF Against
  <1> QED BY <1>1, TotalOver

(* Every variable holds a value of its kind, and no refund takes more from *)
(* a counter than was charged to it (the finalize scripts of quota and     *)
(* accounting).                                                            *)
THEOREM AdmissionTypeCorrect == Spec => []TypeOK
  <1>1. IInv => TypeOK
    <2> SUFFICES ASSUME IInv PROVE TypeOK
      OBVIOUS
    <2>1. \A key \in DOMAIN counter : counter[key] \in Nat
      BY CounterIs
    <2>2. \A r \in Requests : req[r] \in Request(r)
      BY DEF IInv, RequestsOK, RequestOK
    <2> QED BY <2>1, <2>2 DEF TypeOK, IInv, TypesOK
  <1> QED BY <1>1, InvHolds, PTL

(* No interleaving of reservations oversells a period: the reserve scripts *)
(* check and charge all counters of a gate at once.                        *)
THEOREM NeverOversoldHolds == Spec => []NeverOversold
  <1>1. IInv => NeverOversold
    <2> SUFFICES ASSUME IInv, NEW key \in DOMAIN counter
                 PROVE  counter[key] <= LimitOf(key)
                            + Total([r \in Against(key) |-> Overrun(key, r)])
      BY DEF NeverOversold
    <2> DEFINE m == [r \in Against(key) |-> Overrun(key, r)]
    <2>1. Overs(key) \in [Requests -> Nat]
      BY SharesType DEF IInv
    <2>2. \A r \in Against(key) : Overrun(key, r) = Overs(key)[r]
      BY AgainstIs DEF Overrun, Overs, Over
    <2>3. \A r \in Requests \ Against(key) : Overs(key)[r] = 0
      BY AgainstIs DEF Overs, Over
    <2>4. m = [r \in Against(key) |-> Overs(key)[r]]
      BY <2>2
    <2> HIDE DEF m
    <2>5. Total(m) = Total(Overs(key))
      BY <2>1, <2>3, <2>4, TotalAgainst
    <2>6. counter[key] <= LimitOf(key) + Total(m)
      BY <2>5, CounterIs
    <2> QED BY <2>6 DEF m
  <1> QED BY <1>1, InvHolds, PTL

(* The share of a request is at least the smaller of its estimate and what *)
(* it owes.                                                                *)
LEMMA ShareCovers ==
    ASSUME IInv, NEW key, NEW r \in Against(key)
    PROVE  LET g == GateOf(key)
           IN  /\ Least(Estimate[g], Owed(g, r)) \in Nat
               /\ Least(Estimate[g], Owed(g, r)) <= Share(key, r, req[r], marker)
  <1> DEFINE g == GateOf(key)
             q == req[r]
  <1>1. g \in Gates /\ Estimate[g] \in Nat \ {0} /\ Actual \subseteq Nat
    BY GatesAre, LimitAssumption DEF LimitAssumption
  <1>2. r \in Requests /\ On(key, r, q)
    BY AgainstIs
  <1>3. RequestOK(r, q, marker, faults)
    BY <1>2 DEF IInv, RequestsOK
  <1>4. q.used[g] \in Actual \cup {None}
    BY <1>1, <1>3 DEF RequestOK, Request
  <1>5. <<g, r>> \in marker => Final(g, q)
    BY <1>1, <1>3 DEF RequestOK
  <1>6. Share(key, r, q, marker) =
            IF <<g, r>> \in marker THEN IF q.out = "answered" THEN q.used[g] ELSE 0
            ELSE IF Holds(g, q) THEN Estimate[g] ELSE 0
    BY <1>2 DEF Share
  <1>7. CASE q.out = "answered" /\ q.used[g] # None
    <2>1. q.used[g] \in Nat /\ Owed(g, r) = q.used[g]
      BY <1>1, <1>4, <1>7 DEF Owed
    <2>2. Share(key, r, q, marker) = q.used[g] \/ Share(key, r, q, marker) = Estimate[g]
      BY <1>6, <1>7 DEF Holds
    <2> HIDE DEF q, g
    <2> QED BY <1>1, <2>1, <2>2 DEF Least, g, q
  <1>8. CASE q.out = "truncated" \/ (q.out = "answered" /\ q.used[g] = None)
    <2>1. Owed(g, r) = Estimate[g]
      BY <1>8 DEF Owed
    <2>2. <<g, r>> \notin marker
      BY <1>5, <1>8 DEF Final
    <2>3. Share(key, r, q, marker) = Estimate[g]
      BY <1>6, <1>8, <2>2 DEF Holds
    <2> HIDE DEF q
    <2> QED BY <1>1, <2>1, <2>3 DEF Least, q
  <1>9. CASE q.out \notin {"answered", "truncated"}
    <2>1. Owed(g, r) = 0
      BY <1>9 DEF Owed
    <2>2. Share(key, r, q, marker) \in Nat
      BY <1>2, <1>3, ShareType
    <2>3. Least(Estimate[g], 0) = 0
      BY <1>1 DEF Least
    <2> HIDE DEF q
    <2> QED BY <1>1, <2>1, <2>2, <2>3 DEF q
  <1> QED BY <1>7, <1>8, <1>9

(* Faults never give budget back: whatever fails, is answered late or is   *)
(* retried (settleObserved), a counter keeps at least the smaller of       *)
(* estimate and usage of every call that produced output.                  *)
THEOREM FaultsNeverRefundHolds == Spec => []FaultsNeverRefund
  <1>1. IInv => FaultsNeverRefund
    <2> SUFFICES ASSUME IInv, NEW key \in DOMAIN counter
                 PROVE  counter[key] >=
                            Total([r \in Against(key) |->
                                       Least(Estimate[GateOf(key)], Owed(GateOf(key), r))])
      BY DEF FaultsNeverRefund
    <2> DEFINE a == [r \in Against(key) |-> Least(Estimate[GateOf(key)], Owed(GateOf(key), r))]
               b == [r \in Against(key) |-> Shares(key)[r]]
    <2>1. Shares(key) \in [Requests -> Nat] /\ IsFiniteSet(Requests)
          /\ Total(Shares(key)) \in Nat
      BY SharesType DEF IInv
    <2>2. Against(key) \in SUBSET Requests
      BY DEF Against
    <2>3. IsFiniteSet(Against(key))
      BY <2>1, <2>2, FS_Subset
    <2>4. \A r \in Against(key) : Shares(key)[r] = Share(key, r, req[r], marker)
      BY <2>2 DEF Shares
    <2>5. \A r \in Against(key) : a[r] \in Nat /\ a[r] <= Shares(key)[r]
      BY <2>4, ShareCovers
    <2>6. a \in [Against(key) -> Nat] /\ b \in [Against(key) -> Nat]
          /\ \A r \in Against(key) : a[r] <= b[r]
      BY <2>1, <2>2, <2>5
    <2>7. \A r \in Requests \ Against(key) : Shares(key)[r] = 0
      BY AgainstIs DEF Shares, Share
    <2>8. Total(b) = Total(Shares(key))
      BY <2>1, <2>7, TotalAgainst
    <2> HIDE DEF a, b
    <2>9. Total(a) <= Total(b) /\ Total(a) \in Nat /\ Total(b) \in Nat
      BY <2>3, <2>6, TotalGrows, TotalNat
    <2>10. counter[key] >= Total(a)
      BY <2>1, <2>8, <2>9, CounterIs
    <2> QED BY <2>10 DEF a
  <1> QED BY <1>1, InvHolds, PTL

(* When nothing runs and nothing failed, the share of a request is what it *)
(* owes.                                                                   *)
LEMMA ShareOwed ==
    ASSUME IInv, faults = 0, Quiet, NEW key, NEW r \in Against(key)
    PROVE  Share(key, r, req[r], marker) = Owed(GateOf(key), r)
  <1> DEFINE g == GateOf(key)
             q == req[r]
  <1>1. g \in Gates /\ Nil \notin Awaiting(g)
    BY GatesAre, NilAwaits
  <1>2. r \in Requests /\ On(key, r, q)
    BY AgainstIs
  <1>3. RequestOK(r, q, marker, faults) /\ q.at \in {"new", "done"}
    BY <1>2 DEF IInv, RequestsOK, Quiet
  <1>4. q.todo = Nil /\ q.at \notin Past(g)
    BY <1>3 DEF RequestOK, Shape, Past
  <1>5. <<g, r>> \in marker => Final(g, q)
    BY <1>1, <1>3 DEF RequestOK
  <1>6. Holds(g, q) <=> q.out \in {"answered", "truncated"}
    BY <1>1, <1>4 DEF Holds
  <1>7. q.out = "answered" /\ q.used[g] # None => <<g, r>> \in marker
    BY <1>1, <1>3, <1>4 DEF RequestOK
  <1>8. Share(key, r, q, marker) =
            IF <<g, r>> \in marker THEN IF q.out = "answered" THEN q.used[g] ELSE 0
            ELSE IF Holds(g, q) THEN Estimate[g] ELSE 0
    BY <1>2 DEF Share
  <1>9. Owed(g, r) = IF q.out = "answered"
                     THEN IF q.used[g] = None THEN Estimate[g] ELSE q.used[g]
                     ELSE IF q.out = "truncated" THEN Estimate[g] ELSE 0
    BY DEF Owed
  <1>10. <<g, r>> \in marker => \/ q.out = "answered" /\ q.used[g] # None
                                \/ q.out \in {"failed", "refused"}
    BY <1>5 DEF Final
  <1> HIDE DEF q, g
  <1>11. CASE q.out = "answered"
    BY <1>6, <1>7, <1>8, <1>9, <1>10, <1>11 DEF q, g
  <1>12. CASE q.out # "answered"
    BY <1>6, <1>8, <1>9, <1>10, <1>12 DEF q, g
  <1> QED BY <1>11, <1>12

(* Without faults the counters end up at exactly what the requests owe:    *)
(* admit, settle and refund cancel out on every path.                      *)
THEOREM CountersMatch == Spec => []CountersMatchOutcomes
  <1>1. IInv => CountersMatchOutcomes
    <2> SUFFICES ASSUME IInv, faults = 0, Quiet, NEW key \in DOMAIN counter
                 PROVE  counter[key] =
                            Total([r \in Against(key) |-> Owed(GateOf(key), r)])
      BY DEF CountersMatchOutcomes
    <2> DEFINE a == [r \in Against(key) |-> Owed(GateOf(key), r)]
    <2>1. Shares(key) \in [Requests -> Nat]
      BY SharesType DEF IInv
    <2>2. \A r \in Against(key) : Shares(key)[r] = Owed(GateOf(key), r)
      BY ShareOwed, AgainstIs DEF Shares
    <2>3. a = [r \in Against(key) |-> Shares(key)[r]]
      BY <2>2
    <2>4. \A r \in Requests \ Against(key) : Shares(key)[r] = 0
      BY AgainstIs DEF Shares, Share
    <2> HIDE DEF a
    <2>5. Total(a) = Total(Shares(key))
      BY <2>1, <2>3, <2>4, TotalAgainst
    <2>6. counter[key] = Total(a)
      BY <2>5, CounterIs
    <2> QED BY <2>6 DEF a
  <1> QED BY <1>1, InvHolds, PTL

-----------------------------------------------------------------------------
(* Slots and ledger rows: what the steps of a request do to them when      *)
(* nothing fails.                                                          *)

Waiting == {"limited", "metered", "charged"}

Takes(r)   == req[r].at = "new" /\ req'[r].at = "limited" /\ req'[r].out = req[r].out
              /\ req'[r].todo = req[r].todo /\ slots' = slots \cup {r} /\ ledger' = ledger
Leaves(r)  == req[r].at = "new" /\ req'[r].at = "done" /\ req'[r].out = "refused"
              /\ req'[r].todo = req[r].todo /\ UNCHANGED <<slots, ledger>>
Waits(r)   == req[r].at \in Waiting /\ req'[r].at \in Waiting /\ req'[r].out = req[r].out
              /\ req'[r].todo = req[r].todo /\ UNCHANGED <<slots, ledger>>
Refuses(r) == req[r].at \in Waiting /\ req'[r].at = "finishing" /\ req'[r].out = "refused"
              /\ req'[r].todo \in RefusalTodos /\ UNCHANGED <<slots, ledger>>
Starts(r)  == req[r].at = "charged" /\ req'[r].at = "running" /\ req'[r].out = req[r].out
              /\ req'[r].todo = req[r].todo /\ UNCHANGED slots /\ Book(r)
Returns(r) == req[r].at = "running" /\ req'[r].at = "finishing"
              /\ \/ req'[r].out = "answered" /\ req'[r].todo = Answer4
                 \/ req'[r].out = "failed" /\ req'[r].todo = Fail4
                 \/ req'[r].out = "truncated" /\ req'[r].todo = Last
              /\ UNCHANGED <<slots, ledger>>
Advances(r) ==
    /\ req[r].at = "finishing" /\ req'[r].out = req[r].out
    /\ req'[r].todo = Tail(req[r].todo)
    /\ \/ Head(req[r].todo) \in Gates /\ req'[r].at = "finishing" /\ UNCHANGED <<slots, ledger>>
       \/ /\ Head(req[r].todo) = "ledger" /\ req'[r].at = "finishing" /\ UNCHANGED slots
          /\ IF req[r].out = "answered" THEN Settle(r) ELSE Free(r)
       \/ Head(req[r].todo) = "slot" /\ req'[r].at = "done" /\ slots' = slots \ {r}
          /\ ledger' = ledger

Moves(r) ==
    /\ \A x \in Requests \ {r} : req'[x] = req[x]
    /\ \/ Takes(r) \/ Leaves(r) \/ Waits(r) \/ Refuses(r) \/ Starts(r) \/ Returns(r)
       \/ Advances(r)

LEMMA AdmitMoves ==
    ASSUME IInv, NEW r \in Requests, AdmitNext(r), faults' = 0
    PROVE  Moves(r)
  <1>1. CASE Allow(r)
    <2>1. "limited" \in At
      BY DEF At
    <2>2. Becomes(r, "limited", req[r].out, req[r].todo, req[r].day, req[r].used, req[r].tries)
      BY <1>1, <2>1, GoesIs DEF IInv, Allow
    <2> QED BY <1>1, <2>2 DEF Allow, Becomes, Moves, Takes
  <1>2. CASE AllowDenied(r)
    <2>1. Becomes(r, "done", "refused", req[r].todo, req[r].day, req[r].used, req[r].tries)
      BY <1>2, QuitsIs DEF IInv, AllowDenied
    <2> QED BY <1>2, <2>1 DEF AllowDenied, Becomes, Moves, Leaves
  <1>3. CASE Meter(r)
    <2>1. "metered" \in At /\ "quota" \in Gates
      BY GatesAre DEF At
    <2>2. Becomes(r, "metered", req[r].out, req[r].todo, [req[r].day EXCEPT !["quota"] = day],
                  req[r].used, req[r].tries)
      BY <1>3, <2>1, ChargesIs DEF IInv, Meter
    <2> QED BY <1>3, <2>2 DEF Meter, Becomes, Moves, Waits, Waiting
  <1>4. CASE ChargeBudget(r)
    <2>1. "charged" \in At /\ "budget" \in Gates
      BY GatesAre DEF At
    <2>2. Becomes(r, "charged", req[r].out, req[r].todo, [req[r].day EXCEPT !["budget"] = day],
                  req[r].used, req[r].tries)
      BY <1>4, <2>1, ChargesIs DEF IInv, ChargeBudget
    <2> QED BY <1>4, <2>2 DEF ChargeBudget, Becomes, Moves, Waits, Waiting
  <1>5. CASE MeterDenied(r)
    <2>1. Ends(r, "refused", Last) /\ Last \in Todos /\ Last \in RefusalTodos
          /\ "refused" \in Out
      BY <1>5, RefusalAwaits DEF MeterDenied, Todos, RefusalTodos, Out
    <2>2. Becomes(r, "finishing", "refused", Last, req[r].day, req[r].used, req[r].tries)
      BY <2>1, EndsIs DEF IInv
    <2> QED BY <1>5, <2>1, <2>2 DEF MeterDenied, Becomes, Moves, Refuses, Waiting
  <1>6. CASE ChargeDenied(r)
    <2>1. Ends(r, "refused", Refuse2) /\ Refuse2 \in Todos /\ Refuse2 \in RefusalTodos
          /\ "refused" \in Out
      BY <1>6, RefusalAwaits DEF ChargeDenied, Todos, RefusalTodos, Out
    <2>2. Becomes(r, "finishing", "refused", Refuse2, req[r].day, req[r].used, req[r].tries)
      BY <2>1, EndsIs DEF IInv
    <2> QED BY <1>6, <2>1, <2>2 DEF ChargeDenied, Becomes, Moves, Refuses, Waiting
  <1>7. CASE Admit(r)
    <2>1. "running" \in At
      BY DEF At
    <2>2. Becomes(r, "running", req[r].out, req[r].todo, req[r].day, req[r].used, req[r].tries)
      BY <1>7, <2>1, GoesIs DEF IInv, Admit
    <2> QED BY <1>7, <2>2 DEF Admit, Becomes, Moves, Starts
  <1>8. ~Fault
    BY FaultIs
  <1> QED BY <1>1, <1>2, <1>3, <1>4, <1>5, <1>6, <1>7, <1>8
          DEF AdmitNext, AllowFails, MeterFails, ChargeFails, ChargeLost, AdmitFails

LEMMA CallMoves ==
    ASSUME IInv, NEW r \in Requests, Answered(r) \/ Failed(r) \/ Truncated(r)
    PROVE  Moves(r)
  <1>1. PICK out \in Out, todo \in Todos, used \in [Gates -> Actual \cup {None}] :
            /\ CallEnds(r, out, todo, used)
            /\ \/ out = "answered" /\ todo = Answer4
               \/ out = "failed" /\ todo = Fail4
               \/ out = "truncated" /\ todo = Last
    <2>1. /\ "answered" \in Out /\ "failed" \in Out /\ "truncated" \in Out
          /\ Answer4 \in Todos /\ Fail4 \in Todos /\ Last \in Todos
      BY DEF Out, Todos, AnswerTodos, FailTodos
    <2>2. CASE Answered(r)
      <3>1. PICK n \in Actual \cup {None}, priced \in BOOLEAN :
                CallEnds(r, "answered", Answer4,
                         [quota |-> n, budget |-> IF priced THEN n ELSE None])
        BY <2>2 DEF Answered, Answer4
      <3> DEFINE cost == IF priced THEN n ELSE None
      <3>2. cost \in Actual \cup {None}
        OBVIOUS
      <3> HIDE DEF cost
      <3>3. [quota |-> n, budget |-> cost] \in [Gates -> Actual \cup {None}]
        BY <3>2 DEF Gates
      <3>4. CallEnds(r, "answered", Answer4, [quota |-> n, budget |-> cost])
        BY <3>1 DEF cost
      <3> QED BY <2>1, <3>3, <3>4
    <2>3. CASE Failed(r)
      <3>1. CallEnds(r, "failed", Fail4, Unknown)
        BY <2>3 DEF Failed, Fail4
      <3> QED BY <2>1, <3>1, UnknownType
    <2>4. CASE Truncated(r)
      <3>1. CallEnds(r, "truncated", Last, Unknown)
        BY <2>4 DEF Truncated, Last
      <3> QED BY <2>1, <3>1, UnknownType
    <2> QED BY <2>2, <2>3, <2>4
  <1>2. Becomes(r, "finishing", out, todo, req[r].day, used, req[r].tries)
    BY <1>1, CallEndsIs DEF IInv
  <1>3. req[r].at = "running" /\ UNCHANGED <<slots, ledger>>
    BY <1>1 DEF CallEnds
  <1> QED BY <1>1, <1>2, <1>3 DEF Becomes, Moves, Returns

LEMMA FinishMoves ==
    ASSUME IInv, NEW r \in Requests, FinishNext(r), faults' = 0
    PROVE  Moves(r)
  <1>1. ~Fault
    BY FaultIs
  <1>2. req[r].at = "finishing" /\ Next1(r)
    BY <1>1 DEF FinishNext, FinishCounter, FinishLedger, FinishLedgerFails, FinishSlot, Heads
  <1>3. /\ req[r].todo \in Todos /\ req'[r].out = req[r].out
        /\ req'[r].todo = Tail(req[r].todo)
        /\ req'[r].at \in {"finishing", "done"}
        /\ req'[r].at = "done" <=> req[r].todo = Last
        /\ \A x \in Requests \ {r} : req'[x] = req[x]
    BY <1>2, Next1Shape DEF Becomes
  <1>4. req[r].todo = Last <=> Head(req[r].todo) = "slot"
    BY <1>3, TodoSteps
  <1>5. CASE FinishCounter(r, "quota") \/ FinishCounter(r, "budget")
    <2>1. Head(req[r].todo) \in Gates /\ Head(req[r].todo) # "slot" /\ UNCHANGED <<slots, ledger>>
      BY <1>5, GatesAre DEF FinishCounter, Heads
    <2> QED BY <1>2, <1>3, <1>4, <2>1 DEF Moves, Advances
  <1>6. CASE FinishLedger(r)
    <2>1. Head(req[r].todo) = "ledger" /\ UNCHANGED slots
          /\ IF req[r].out = "answered" THEN Settle(r) ELSE Free(r)
      BY <1>6 DEF FinishLedger, Heads
    <2>2. req'[r].at = "finishing"
      BY <1>3, <1>4, <2>1
    <2> QED BY <1>2, <1>3, <2>1, <2>2 DEF Moves, Advances
  <1>7. CASE FinishSlot(r)
    <2>1. Head(req[r].todo) = "slot" /\ slots' = slots \ {r} /\ ledger' = ledger
      BY <1>1, <1>7 DEF FinishSlot, Heads
    <2> QED BY <1>2, <1>3, <1>4, <2>1 DEF Moves, Advances
  <1> QED BY <1>1, <1>5, <1>6, <1>7 DEF FinishNext, FinishLedgerFails

LEMMA StepMoves ==
    ASSUME IInv, Next, faults' = 0
    PROVE  (\E r \in Requests : Moves(r)) \/ UNCHANGED <<req, slots, ledger>>
  <1>1. \A r \in Requests : ~Crash(r)
    BY FaultIs DEF Crash
  <1>2. ASSUME NEW r \in Requests,
               AdmitNext(r) \/ Answered(r) \/ Failed(r) \/ Truncated(r) \/ FinishNext(r)
        PROVE  Moves(r)
    BY <1>2, AdmitMoves, CallMoves, FinishMoves
  <1>3. NextDay \/ (\E key \in Key : Expire(key)) => UNCHANGED <<req, slots, ledger>>
    BY DEF NextDay, Expire
  <1> QED BY <1>1, <1>2, <1>3 DEF Next

LEMMA FaultsStay ==
    ASSUME IInv, [Next]_vars, faults' = 0
    PROVE  faults = 0
  <1>1. faults' = faults \/ Fault
    BY DEF Next, vars, AdmitNext, FinishNext, NoFault, Allow, AllowDenied, AllowFails, Meter,
           MeterDenied, MeterFails, ChargeBudget, ChargeDenied, ChargeFails, ChargeLost, Admit,
           AdmitFails,
           FinishCounter, FinishLedger, FinishLedgerFails, FinishSlot, Answered, Failed,
           Truncated, CallEnds, Crash, NextDay, Expire
  <1> QED BY <1>1, FaultIs

-----------------------------------------------------------------------------
(* Slots.                                                                  *)

Idle == {"new", "done"}

LEMMA SlotsMove ==
    ASSUME IInv, NEW r \in Requests, Moves(r),
           slots = {x \in Requests : req[x].at \notin Idle}
    PROVE  slots' = {x \in Requests : req'[x].at \notin Idle}
  <1>1. \A x \in Requests \ {r} : x \in slots' <=> x \in slots
    BY DEF Moves, Takes, Leaves, Waits, Refuses, Starts, Returns, Advances
  <1>2. slots' \subseteq Requests
    BY DEF Moves, Takes, Leaves, Waits, Refuses, Starts, Returns, Advances
  <1>3. r \in slots' <=> req'[r].at \notin Idle
    BY DEF Moves, Takes, Leaves, Waits, Refuses, Starts, Returns, Advances, Idle, Waiting
  <1>4. \A x \in Requests \ {r} : req'[x] = req[x]
    BY DEF Moves
  <1> QED BY <1>1, <1>2, <1>3, <1>4

(* Without faults every refusal, failure and success gives its slot back   *)
(* and nothing runs without one (admit's refund paths, settle and refund). *)
THEOREM SlotsFollow == Spec => []SlotsFollowRequests
  <1>1. Init => SlotsFollowRequests
    BY DEF Init, Fresh, SlotsFollowRequests
  <1>2. IInv /\ SlotsFollowRequests /\ [Next]_vars => SlotsFollowRequests'
    <2> SUFFICES ASSUME IInv, SlotsFollowRequests, [Next]_vars, faults' = 0
                 PROVE  slots' = {x \in Requests : req'[x].at \notin Idle}
      BY DEF SlotsFollowRequests, Idle
    <2>1. slots = {x \in Requests : req[x].at \notin Idle}
      BY FaultsStay DEF SlotsFollowRequests, Idle
    <2>2. CASE UNCHANGED vars
      BY <2>1, <2>2 DEF vars
    <2>3. CASE Next
      <3>1. CASE UNCHANGED <<req, slots, ledger>>
        BY <2>1, <3>1
      <3>2. CASE \E r \in Requests : Moves(r)
        BY <2>1, <3>2, SlotsMove
      <3> QED BY <2>3, <3>1, <3>2, StepMoves
    <2> QED BY <2>2, <2>3
  <1> QED BY <1>1, <1>2, InvHolds, PTL DEF Spec

-----------------------------------------------------------------------------
(* Ledger rows: a request keeps a row of its identity reserved from Admit  *)
(* until its ledger step, or for good after a truncated stream; the first  *)
(* answer settles its row and every later one leaves its own reserved.     *)

Open(q) == q.at = "running" \/ q.todo \in Awaiting("ledger") \/ q.out = "truncated"
Paid(q) == q.out = "answered" /\ q.todo \notin Awaiting("ledger")

Opens(i)  == {r \in Requests : IdentityOf[r] = i /\ Open(req[r])}
Payers(i) == {r \in Requests : IdentityOf[r] = i /\ Paid(req[r])}

RowOK(l, o, p) == /\ l.reserved = o + (IF p > 1 THEN p - 1 ELSE 0)
                  /\ l.settled <=> p > 0

RowsOK == \A i \in Identities :
             RowOK(ledger[i], Cardinality(Opens(i)), Cardinality(Payers(i)))

LEMMA RowUpdates ==
    ASSUME NEW l \in [reserved : Nat, settled : BOOLEAN], NEW o \in Nat, NEW p \in Nat,
           RowOK(l, o, p)
    PROVE  /\ RowOK(Booked(l), o + 1, p)
           /\ o > 0 => RowOK(Freed(l), o - 1, p) /\ RowOK(Settled(l), o - 1, p + 1)
  <1>1. RowOK(Booked(l), o + 1, p)
    BY DEF RowOK, Booked
  <1>2. o > 0 => RowOK(Freed(l), o - 1, p)
    BY DEF RowOK, Freed
  <1>3. ASSUME o > 0 PROVE RowOK(Settled(l), o - 1, p + 1)
    <2>1. CASE l.settled
      BY <1>3, <2>1 DEF RowOK, Settled
    <2>2. CASE ~l.settled
      BY <1>3, <2>2 DEF RowOK, Settled
    <2> QED BY <2>1, <2>2
  <1> QED BY <1>1, <1>2, <1>3

(* What one step of a request does to its row.                             *)
RowSame(r)  == /\ Open(req'[r]) <=> Open(req[r])
               /\ Paid(req'[r]) <=> Paid(req[r])
               /\ ledger' = ledger
RowBooks(r) == ~Open(req[r]) /\ Open(req'[r]) /\ (Paid(req'[r]) <=> Paid(req[r])) /\ Book(r)
RowFrees(r) == Open(req[r]) /\ ~Open(req'[r]) /\ (Paid(req'[r]) <=> Paid(req[r])) /\ Free(r)
RowPays(r)  == Open(req[r]) /\ ~Open(req'[r]) /\ ~Paid(req[r]) /\ Paid(req'[r]) /\ Settle(r)

LEMMA EarlyRows ==
    ASSUME RequestsOK, NEW r \in Requests, req[r].at \notin {"finishing", "done"}
    PROVE  /\ Open(req[r]) <=> req[r].at = "running"
           /\ ~Paid(req[r])
           /\ req[r].out = "none" /\ req[r].todo \notin Awaiting("ledger")
  BY EarlyIs, NilAwaits DEF Open, Paid

LEMMA AdvanceRows ==
    ASSUME RequestsOK, NEW r \in Requests, Advances(r)
    PROVE  RowSame(r) \/ RowFrees(r) \/ RowPays(r)
  <1> DEFINE t == req[r].todo
  <1>1. t \in Todos /\ (req[r].out = "truncated" => t = Last)
    BY LateIs DEF Advances
  <1>2. /\ Tail(t) \in Awaiting("ledger") <=> t \in Awaiting("ledger") /\ Head(t) # "ledger"
        /\ Head(t) = "ledger" => t \in Awaiting("ledger")
    BY <1>1, TodoSteps
  <1>3. Head(t) = "ledger" => req[r].out # "truncated"
    BY <1>1, NilAwaits, <1>2
  <1>4. /\ req[r].at = "finishing" /\ req'[r].at \in {"finishing", "done"}
        /\ req'[r].out = req[r].out /\ req'[r].todo = Tail(t)
    BY DEF Advances
  <1>5. CASE Head(t) = "ledger"
    <2>1. IF req[r].out = "answered" THEN Settle(r) ELSE Free(r)
      BY <1>5, GatesAre DEF Advances, Gates
    <2> HIDE DEF t
    <2>2. t \in Awaiting("ledger") /\ Tail(t) \notin Awaiting("ledger")
      BY <1>2, <1>5
    <2>3. req[r].todo = t
      BY DEF t
    <2> QED BY <1>3, <1>4, <1>5, <2>1, <2>2, <2>3 DEF RowFrees, RowPays, Open, Paid
  <1>6. CASE Head(t) # "ledger"
    <2>1. ledger' = ledger
      BY <1>6 DEF Advances
    <2>2. req'[r].todo \in Awaiting("ledger") <=> req[r].todo \in Awaiting("ledger")
      BY <1>2, <1>4, <1>6
    <2> QED BY <1>4, <2>1, <2>2 DEF RowSame, Open, Paid
  <1> QED BY <1>5, <1>6

LEMMA RowMoves ==
    ASSUME RequestsOK, NEW r \in Requests, Moves(r)
    PROVE  RowSame(r) \/ RowBooks(r) \/ RowFrees(r) \/ RowPays(r)
  <1>1. CASE Advances(r)
    BY <1>1, AdvanceRows
  <1>2. /\ Answer4 \in Awaiting("ledger") /\ Fail4 \in Awaiting("ledger")
        /\ \A t \in RefusalTodos : t \notin Awaiting("ledger")
        /\ Last \notin Awaiting("ledger")
    BY TodoDistinct DEF Awaiting, RefusalTodos
  <1>3. /\ "answered" \notin {"none", "refused", "failed", "truncated"}
        /\ "truncated" \notin {"none", "refused", "failed"}
    OBVIOUS
  <1>4. ASSUME req[r].at \in {"new", "running"} \cup Waiting
        PROVE  /\ Open(req[r]) <=> req[r].at = "running"
               /\ ~Paid(req[r])
               /\ req[r].out = "none" /\ req[r].todo \notin Awaiting("ledger")
    BY <1>4, EarlyRows DEF Waiting
  <1>5. CASE Takes(r) \/ Leaves(r) \/ Waits(r) \/ Refuses(r)
    <2>1. /\ req[r].at \in {"new"} \cup Waiting
          /\ req'[r].at # "running" /\ req'[r].out \in {req[r].out, "refused"}
          /\ req'[r].todo \in {req[r].todo} \cup RefusalTodos
          /\ ledger' = ledger
      BY <1>5 DEF Takes, Leaves, Waits, Refuses, Waiting
    <2>2. /\ req'[r].todo \notin Awaiting("ledger")
          /\ req'[r].out \in {"none", "refused"}
          /\ ~Open(req[r]) /\ ~Paid(req[r])
      BY <1>2, <1>4, <2>1 DEF Waiting
    <2>3. ~Open(req'[r]) /\ ~Paid(req'[r])
      BY <1>3, <2>1, <2>2 DEF Open, Paid
    <2> QED BY <2>1, <2>2, <2>3 DEF RowSame
  <1>6. CASE Starts(r)
    <2>1. ~Open(req[r]) /\ ~Paid(req[r]) /\ req'[r].out = "none"
      BY <1>4, <1>6 DEF Starts, Waiting
    <2> QED BY <1>6, <2>1 DEF Starts, RowBooks, Open, Paid
  <1>7. CASE Returns(r)
    <2>1. Open(req[r]) /\ ~Paid(req[r]) /\ ledger' = ledger
      BY <1>4, <1>7 DEF Returns
    <2>2. Open(req'[r])
      BY <1>2, <1>7 DEF Returns, Open
    <2>3. ~Paid(req'[r])
      BY <1>2, <1>7 DEF Returns, Paid
    <2> QED BY <2>1, <2>2, <2>3 DEF RowSame
  <1> QED BY <1>1, <1>5, <1>6, <1>7 DEF Moves

LEMMA RowSets ==
    ASSUME NEW i
    PROVE  /\ IsFiniteSet(Opens(i)) /\ IsFiniteSet(Payers(i))
           /\ Cardinality(Opens(i)) \in Nat /\ Cardinality(Payers(i)) \in Nat
           /\ Cardinality(Opens(i)) > 0 <=> Opens(i) # {}
  <1>1. Opens(i) \in SUBSET Requests /\ Payers(i) \in SUBSET Requests
    BY DEF Opens, Payers
  <1>2. IsFiniteSet(Opens(i)) /\ IsFiniteSet(Payers(i))
    BY <1>1, FS_Subset, RequestAssumption DEF RequestAssumption
  <1>3. Cardinality(Opens(i)) \in Nat /\ Cardinality(Payers(i)) \in Nat
    BY <1>2, FS_CardinalityType
  <1> QED BY <1>2, <1>3, FS_EmptySet

LEMMA RowsStep ==
    ASSUME IInv, RowsOK, NEW r \in Requests, Moves(r)
    PROVE  RowsOK'
  <1> DEFINE j == IdentityOf[r]
  <1>1. j \in Identities
    BY RequestAssumption DEF RequestAssumption
  <1>2. ledger \in [Identities -> [reserved : Nat, settled : BOOLEAN]]
    BY DEF IInv, TypesOK
  <1>3. \A x \in Requests \ {r} : req'[x] = req[x]
    BY DEF Moves
  <1>4. ASSUME NEW i \in Identities, i # j
        PROVE  Opens(i)' = Opens(i) /\ Payers(i)' = Payers(i)
    BY <1>3, <1>4 DEF Opens, Payers
  <1>5. /\ Opens(j)' = IF Open(req'[r]) THEN Opens(j) \cup {r} ELSE Opens(j) \ {r}
        /\ Payers(j)' = IF Paid(req'[r]) THEN Payers(j) \cup {r} ELSE Payers(j) \ {r}
        /\ r \in Opens(j) <=> Open(req[r])
        /\ r \in Payers(j) <=> Paid(req[r])
    BY <1>3 DEF Opens, Payers
  <1>6. RowSame(r) \/ RowBooks(r) \/ RowFrees(r) \/ RowPays(r)
    BY RowMoves DEF IInv
  <1>7. \A i \in Identities \ {j} : ledger'[i] = ledger[i]
    BY <1>1, <1>2, <1>6 DEF RowSame, RowBooks, RowFrees, RowPays, Book, Free, Settle
  <1> DEFINE l == ledger[j]
             o == Cardinality(Opens(j))
             p == Cardinality(Payers(j))
  <1>8. l \in [reserved : Nat, settled : BOOLEAN] /\ o \in Nat /\ p \in Nat /\ RowOK(l, o, p)
    BY <1>1, <1>2, RowSets DEF RowsOK
  <1>9. /\ Cardinality(Opens(j) \cup {r}) = IF Open(req[r]) THEN o ELSE o + 1
        /\ Cardinality(Opens(j) \ {r}) = IF Open(req[r]) THEN o - 1 ELSE o
        /\ Cardinality(Payers(j) \cup {r}) = IF Paid(req[r]) THEN p ELSE p + 1
        /\ Cardinality(Payers(j) \ {r}) = IF Paid(req[r]) THEN p - 1 ELSE p
        /\ Open(req[r]) => o > 0
    <2>1. IsFiniteSet(Opens(j)) /\ IsFiniteSet(Payers(j))
      BY RowSets
    <2>2. Open(req[r]) => Opens(j) # {}
      BY <1>5
    <2>3. Open(req[r]) => o > 0
      BY <2>2, RowSets
    <2> QED BY <1>5, <2>1, <2>3, FS_AddElement, FS_RemoveElement
  <1>10. /\ Cardinality(Opens(j))' =
                IF Open(req'[r]) THEN IF Open(req[r]) THEN o ELSE o + 1
                ELSE IF Open(req[r]) THEN o - 1 ELSE o
         /\ Cardinality(Payers(j))' =
                IF Paid(req'[r]) THEN IF Paid(req[r]) THEN p ELSE p + 1
                ELSE IF Paid(req[r]) THEN p - 1 ELSE p
    BY <1>5, <1>9
  <1>11. RowOK(ledger'[j], Cardinality(Opens(j))', Cardinality(Payers(j))')
    <2>1. /\ RowOK(Booked(l), o + 1, p)
          /\ o > 0 => RowOK(Freed(l), o - 1, p) /\ RowOK(Settled(l), o - 1, p + 1)
      BY <1>8, RowUpdates
    <2>2. CASE RowSame(r)
      <3>1. ledger'[j] = l /\ Cardinality(Opens(j))' = o /\ Cardinality(Payers(j))' = p
        BY <1>10, <2>2 DEF RowSame
      <3> QED BY <1>8, <3>1
    <2>3. CASE RowBooks(r)
      <3>1. ledger'[j] = Booked(l) /\ Cardinality(Opens(j))' = o + 1
            /\ Cardinality(Payers(j))' = p
        BY <1>1, <1>2, <1>10, <2>3 DEF RowBooks, Book
      <3> QED BY <2>1, <3>1
    <2>4. CASE RowFrees(r)
      <3>1. ledger'[j] = Freed(l) /\ Cardinality(Opens(j))' = o - 1
            /\ Cardinality(Payers(j))' = p
        BY <1>1, <1>2, <1>10, <2>4 DEF RowFrees, Free
      <3>2. o > 0
        BY <1>9, <2>4 DEF RowFrees
      <3> QED BY <2>1, <3>1, <3>2
    <2>5. CASE RowPays(r)
      <3>1. ledger'[j] = Settled(l) /\ Cardinality(Opens(j))' = o - 1
            /\ Cardinality(Payers(j))' = p + 1
        BY <1>1, <1>2, <1>10, <2>5 DEF RowPays, Settle
      <3>2. o > 0
        BY <1>9, <2>5 DEF RowPays
      <3> QED BY <2>1, <3>1, <3>2
    <2> QED BY <1>6, <2>2, <2>3, <2>4, <2>5
  <1>12. ASSUME NEW i \in Identities, i # j
         PROVE  RowOK(ledger'[i], Cardinality(Opens(i))', Cardinality(Payers(i))')
    <2>1. Opens(i)' = Opens(i) /\ Payers(i)' = Payers(i)
      BY <1>4, <1>12
    <2>2. ledger'[i] = ledger[i]
      BY <1>7, <1>12
    <2>3. RowOK(ledger[i], Cardinality(Opens(i)), Cardinality(Payers(i)))
      BY DEF RowsOK
    <2> QED BY <2>1, <2>2, <2>3
  <1>13. \A i \in Identities :
             RowOK(ledger'[i], Cardinality(Opens(i))', Cardinality(Payers(i))')
    BY <1>11, <1>12
  <1> QED BY <1>13 DEF RowsOK

LEMMA RowsInit ==
    ASSUME Init
    PROVE  RowsOK
  <1>1. ASSUME NEW i \in Identities
        PROVE  RowOK(ledger[i], Cardinality(Opens(i)), Cardinality(Payers(i)))
    <2>1. \A r \in Requests : req[r].at = "new" /\ req[r].out = "none" /\ req[r].todo = Nil
      BY DEF Init, Fresh, Nil
    <2>2. Opens(i) = {} /\ Payers(i) = {}
      BY <2>1, NilAwaits DEF Opens, Payers, Open, Paid
    <2>3. Cardinality(Opens(i)) = 0 /\ Cardinality(Payers(i)) = 0
      BY <2>2, FS_EmptySet
    <2>4. ledger[i] = [reserved |-> 0, settled |-> FALSE]
      BY DEF Init
    <2> QED BY <2>3, <2>4 DEF RowOK
  <1> QED BY <1>1 DEF RowsOK

(* Without faults an identity is settled exactly if one of its requests    *)
(* was answered, and a row stays reserved only for a truncated stream or a *)
(* second answer under a settled identity (settleObserved, the ledger's    *)
(* unique index).                                                          *)
THEOREM ReservedRows == Spec => []ReservedRowsExplained
  <1> DEFINE LInv == faults = 0 => RowsOK
  <1>1. Init => LInv
    BY RowsInit
  <1>2. IInv /\ LInv /\ [Next]_vars => LInv'
    <2> SUFFICES ASSUME IInv, LInv, [Next]_vars, faults' = 0
                 PROVE  RowsOK'
      OBVIOUS
    <2>1. RowsOK
      BY FaultsStay
    <2>2. CASE UNCHANGED <<req, slots, ledger>>
      BY <2>1, <2>2 DEF RowsOK, Opens, Payers, RowOK, Open, Paid
    <2>3. CASE \E r \in Requests : Moves(r)
      BY <2>1, <2>3, RowsStep
    <2>4. CASE Next
      BY <2>2, <2>3, <2>4, StepMoves
    <2>5. CASE UNCHANGED vars
      BY <2>2, <2>5 DEF vars
    <2> QED BY <2>4, <2>5
  <1>3. IInv /\ LInv => ReservedRowsExplained
    <2> SUFFICES ASSUME IInv, RowsOK, Quiet, NEW i \in Identities
                 PROVE  LET answers == Ended(i, "answered")
                        IN  /\ ledger[i].settled <=> answers > 0
                            /\ ledger[i].reserved =
                                   Ended(i, "truncated")
                                     + (IF answers > 1 THEN answers - 1 ELSE 0)
      BY DEF ReservedRowsExplained
    <2>1. \A r \in Requests : req[r].at \in {"new", "done"} /\ req[r].todo = Nil
      BY DEF Quiet, IInv, RequestsOK, RequestOK, Shape
    <2>2. \A r \in Requests : /\ Open(req[r]) <=> req[r].out = "truncated"
                              /\ Paid(req[r]) <=> req[r].out = "answered"
      BY <2>1, NilAwaits DEF Open, Paid
    <2>3. /\ Opens(i) = {r \in Requests : IdentityOf[r] = i /\ req[r].out = "truncated"}
          /\ Payers(i) = {r \in Requests : IdentityOf[r] = i /\ req[r].out = "answered"}
      BY <2>2 DEF Opens, Payers
    <2>4. /\ Cardinality(Opens(i)) = Ended(i, "truncated")
          /\ Cardinality(Payers(i)) = Ended(i, "answered")
      BY <2>3 DEF Ended
    <2>5. RowOK(ledger[i], Ended(i, "truncated"), Ended(i, "answered"))
      BY <2>4 DEF RowsOK
    <2> QED BY <2>5 DEF RowOK
  <1> HIDE DEF LInv
  <1> QED BY <1>1, <1>2, <1>3, InvHolds, PTL DEF Spec

=============================================================================
