--------------------------- MODULE Journal_proofs ---------------------------
(***************************************************************************)
(* Proofs about session recording, for any number of checkouts, windows    *)
(* and records and any bounds: every property of Journal holds in a        *)
(* checkout until two of its commands have recorded at once.               *)
(*                                                                         *)
(* Typed gives types to steps.  Calm checkouts are related to each other   *)
(* by Journals, which a step can only disturb by appending an entry, by    *)
(* committing or by a merge (Effects); FilesOK and IndexOK are about one   *)
(* checkout, AtWork about what a running command relies on.  Budget counts *)
(* what requests and losses pay for and rests on all of these.             *)
(***************************************************************************)
EXTENDS Journal, FiniteSetTheorems, WellFoundedInduction, TLAPS

-----------------------------------------------------------------------------
(* The inductive invariant.  A checkout is calm until two of its commands  *)
(* have recorded at once, or it has merged one in which that happened.     *)

Calm == {t \in Trees : ~raced[t]}

Finite ==
    /\ \A t \in Trees : IsFiniteSet(work[t].entries) /\ IsFiniteSet(head[t].entries)
    /\ \A w \in Windows : IsFiniteSet(win[w].snap)

\* A command has something to record, and settles on a marker for it.
Bound(q) == /\ q.pc # "idle" => q.rec \in Records
            /\ q.pc \notin {"idle", "preflight", "classify"} => q.mark \in Markers
Named == \A w \in Windows : Bound(win[w])

\* No entry lies behind the last journal file.
FilesAt(t) == /\ \A e \in work[t].entries : e.file <= work[t].files
              /\ \A e \in head[t].entries : e.file <= head[t].files
FilesOK == \A t \in Calm : FilesAt(t)

\* Only one command of a calm checkout is recording.
Solo ==
    \A v, w \in Windows :
        /\ win[v].pc \in Recording /\ win[w].pc \in Recording
        /\ Home[v] = Home[w] /\ Home[w] \in Calm
        => v = w

\* HEAD has entries of the journal on disk, among them all that were merged,
\* and no marker is there twice.
Kept ==
    \A t \in Calm :
        /\ head[t].entries \subseteq work[t].entries
        /\ \A e \in work[t].entries : e.mark.tree # t => e \in head[t].entries
        /\ \A d, e \in work[t].entries : d.mark = e.mark => d = e

\* The generations of a record: one first entry, the others in order, each
\* when the one before is committed; a keyed record has none but the first.
First(t, r, c) ==
    {e \in work[t].entries :
        e.mark.tree = t /\ e.mark.rec = r /\ e.mark.ctx = c /\ e.mark.gen = 0}

Preceded(t, m) ==
    /\ \A k \in 1..(m.gen - 1) : Mark(t, m.rec, m.ctx, k, 0) \in Marks(head[t].entries)
    /\ \E e \in First(t, m.rec, m.ctx) : e \in head[t].entries

Generations ==
    \A t \in Calm :
        /\ \A e \in work[t].entries :
              /\ e.mark.tree = t /\ e.mark.gen > 0
              => e.mark.date = 0 /\ e.mark.rec \notin Keyed /\ Preceded(t, e.mark)
        /\ \A r \in Records, c \in Nat : \A d, e \in First(t, r, c) : d = e

\* What a checkout has of the sessions recorded in another one: copies, in
\* the same order, and with each one all that are older.
Copy(d, e) == d.mark = e.mark /\ d.num = e.num /\ d.file = e.file

Copies ==
    \A t, x \in Calm : \A e \in work[t].entries :
        e.mark.tree = x /\ x # t => \E d \in head[x].entries : Copy(d, e)

InOrder(d, e) == Before(d, e) /\ d.num < e.num

Ordered ==
    \A t, x \in Calm : \A d, e \in work[t].entries :
        d.mark.tree = x /\ e.mark.tree = x /\ d # e => InOrder(d, e) \/ InOrder(e, d)

\* The older sessions of a checkout come along with the later ones.
Prefixes ==
    \A t, x \in Calm : \A e \in head[t].entries, d \in work[x].entries :
        d.mark.tree = x /\ e.mark.tree = x /\ d.num < e.num
            => d.mark \in Marks(head[t].entries)

\* An entry that is not committed has a number of its own.
Pending(t) == {e \in work[t].entries : e.mark \notin Marks(head[t].entries)}

Rated(x) == /\ \A row \in x.rows : row.num <= x.total
            /\ x.made \/ x.rows = {}
IndexAt(t) ==
    /\ Rated(work[t].index) /\ Rated(head[t].index)
    /\ \A d \in Pending(t) :
          /\ \A e \in work[t].entries : e.num = d.num => e = d
          /\ \A row \in work[t].index.rows : row.num = d.num => row.rec = d.mark.rec
IndexOK == \A t \in Calm : IndexAt(t)

\* A pending entry that a command would resume.
Resumable(t, r) ==
    {e \in Pending(t) : e.mark.tree = t /\ e.mark.rec = r /\ e.mark.ctx = context[t]}

\* A command about to record a session.
Ready(w) ==
    LET t == Home[w]
        q == win[w]
    IN  /\ q.mark \notin Marks(work[t].entries)
        /\ q.mark.date = 0
        /\ q.mark.gen = 0 => First(t, q.rec, context[t]) = {}
        /\ q.mark.gen > 0 => q.rec \notin Keyed /\ Preceded(t, q.mark)
        /\ Resumable(t, q.rec) = {}
        /\ \A e \in work[t].entries : e.num < q.num
        /\ work[t].index.total < q.num
        /\ q.file = work[t].files /\ q.file > 0

\* A command whose session is in the journal, in a file it will commit.
Held(w) ==
    \E e \in work[Home[w]].entries :
        /\ e.mark = win[w].mark /\ e.num = win[w].num
        /\ win[w].pc \in {"staged", "commit"} => e.file <= win[w].file

Steady(w) ==
    LET t == Home[w]
        q == win[w]
    IN  /\ q.pc \notin {"idle", "preflight", "classify"} =>
              /\ q.mark.tree = t /\ q.mark.rec = q.rec /\ q.mark.ctx = context[t]
        /\ q.pc \in {"rotate", "read", "append"} => Ready(w)
        /\ q.pc = "append" => q.snap = InFile(work[t].entries, q.file)
        /\ q.pc \in {"index", "row", "recorded", "staged", "commit", "verify"} => Held(w)
        /\ q.pc \in {"index", "row"} => work[t].index.total <= q.num
        /\ q.pc = "row" => work[t].index.made /\ q.rows = work[t].index.rows
        /\ q.pc \in {"recorded", "staged", "commit", "verify"} =>
              Row(q.num, q.rec) \in work[t].index.rows
        /\ q.pc = "verify" => /\ q.mark \in Marks(head[t].entries)
                              /\ Row(q.num, q.rec) \in head[t].index.rows
AtWork == \A w \in Windows : Home[w] \in Calm => Steady(w)

\* The commands that may still add an entry for r, whether one holds the
\* entry a retry would resume, and whether one is about to report it.
Trying(t, r) ==
    {w \in Windows : /\ Home[w] = t /\ win[w].rec = r
                     /\ win[w].pc \in {"preflight", "classify", "rotate", "read", "append"}}
Holds(w, t, r) == /\ Home[w] = t /\ win[w].rec = r
                  /\ win[w].pc \in {"index", "row", "recorded", "staged", "commit"}
                  /\ win[w].mark \notin Marks(head[t].entries)
Taken(t, r) == \E w \in Windows : Holds(w, t, r)
Reporting(t, r) ==
    \E w \in Windows : Home[w] = t /\ win[w].rec = r /\ win[w].pc = "verify"

Allowed(t, r) == asked[t][r] + lost[t][r]
Count(t, r) == Cardinality(OwnEntries(t, r))

\* Every entry is paid for by a request or a loss, and so is every entry a
\* running command may add, unless it will resume one that nobody works on.
\* A request that is still open has an entry to resume, or room for one.
Within(t, r) ==
    /\ Count(t, r) <= Allowed(t, r)
    /\ \/ Count(t, r) + Cardinality(Trying(t, r)) <= Allowed(t, r)
       \/ /\ Resumable(t, r) # {} /\ ~Taken(t, r)
          /\ Count(t, r) + Cardinality(Trying(t, r)) <= Allowed(t, r) + 1
    /\ r \in open[t] => \/ Resumable(t, r) # {} \/ Reporting(t, r)
                        \/ Count(t, r) + 1 <= Allowed(t, r)
Budget == \A t \in Calm, r \in Records : Within(t, r)

-----------------------------------------------------------------------------
(* Sets.                                                                   *)

\* A finite set of numbers has a greatest one.
LEMMA Greatest ==
    ASSUME NEW S \in SUBSET Nat, IsFiniteSet(S), S # {}
    PROVE  \E n \in S : \A k \in S : k <= n
  <1> DEFINE Less == {ss \in Nat \X Nat : ss[1] < ss[2]}
             HasTop(T) == \E n \in T : \A k \in T : k <= n
             Bad == {n \in Nat : \E T \in SUBSET Nat : /\ IsFiniteSet(T) /\ T # {}
                                                     /\ Cardinality(T) = n /\ ~HasTop(T)}
  <1>1. IsWellFoundedOn(Less, Nat)
    BY NatLessThanWellFounded DEF OpToRel
  <1>2. SUFFICES ASSUME Bad # {}
                 PROVE  FALSE
    BY FS_CardinalityType
  <1>3. PICK n \in Bad : \A m \in Bad : <<m, n>> \notin Less
    <2> HIDE DEF Less
    <2>1. Bad \subseteq Nat
      OBVIOUS
    <2> HIDE DEF Bad
    <2> QED
      BY <1>1, <1>2, <2>1, WFMin
  <1>4. PICK T \in SUBSET Nat : /\ IsFiniteSet(T)
                               /\ T # {}
                               /\ Cardinality(T) = n
                               /\ ~HasTop(T)
    BY <1>3
  <1>5. PICK x \in T : TRUE
    BY <1>4
  <1> DEFINE R == T \ {x}
  <1>6. /\ IsFiniteSet(R)
        /\ Cardinality(R) = n - 1
        /\ Cardinality(R) \in Nat
    <2>1. /\ IsFiniteSet(R)
          /\ Cardinality(R) = n - 1
      BY <1>4, <1>5, FS_RemoveElement
    <2> QED
      BY <2>1, FS_CardinalityType
  <1>7. Cardinality(R) \notin Bad
    <2>1. n \in Nat /\ n - 1 < n
      BY <1>3
    <2>2. Cardinality(R) < n
      BY <1>6, <2>1
    <2>3. <<Cardinality(R), n>> \in Less
      BY <1>6, <2>1, <2>2
    <2> QED
      BY <1>3, <2>3
  <1>8. CASE R = {}
    BY <1>4, <1>5, <1>8
  <1>9. CASE R # {}
    <2>1. HasTop(R)
      BY <1>6, <1>7, <1>9
    <2>2. PICK b \in R : \A k \in R : k <= b
      BY <2>1
    <2>3. HasTop(T)
      <3>1. CASE x <= b
        BY <2>2, <3>1
      <3>2. CASE ~(x <= b)
        <4>1. \A k \in T : k <= x
          BY <2>2, <3>2, <1>5
        <4> QED
          BY <4>1, <1>5
      <3> QED
        BY <3>1, <3>2
    <2> QED
      BY <1>4, <2>3
  <1> QED
    BY <1>8, <1>9

LEMMA MaxOfIs ==
    ASSUME NEW S \in SUBSET Nat, IsFiniteSet(S)
    PROVE  MaxOf(S) \in S \cup {0} /\ \A k \in S : k <= MaxOf(S)
  <1>1. IsFiniteSet(S \cup {0})
    BY FS_AddElement
  <1>2. \E n \in S \cup {0} : \A k \in S \cup {0} : k <= n
    <2> DEFINE T == S \cup {0}
    <2>1. T \in SUBSET Nat /\ IsFiniteSet(T) /\ T # {}
      BY <1>1
    <2> HIDE DEF T
    <2>2. \E n \in T : \A k \in T : k <= n
      BY <2>1, Greatest
    <2> QED
      BY <2>2 DEF T
  <1> QED
    BY <1>2 DEF MaxOf

\* What a finite set is mapped to is finite.
LEMMA ImageOf ==
    ASSUME NEW S, IsFiniteSet(S), NEW f, DOMAIN f = S, f = [x \in S |-> f[x]],
           NEW T, T = {f[x] : x \in S}
    PROVE  IsFiniteSet(T) /\ Cardinality(T) <= Cardinality(S)
  <1>1. f \in Surjection(S, T)
    BY DEF Surjection
  <1> QED
    BY <1>1, FS_Surjection

LEMMA MarksFinite ==
    ASSUME NEW s, IsFiniteSet(s)
    PROVE  /\ IsFiniteSet(Marks(s)) /\ Cardinality(Marks(s)) <= Cardinality(s)
           /\ IsFiniteSet(Nums(s))
           /\ IsFiniteSet({e.at : e \in s})
  <1>1. IsFiniteSet(Marks(s)) /\ Cardinality(Marks(s)) <= Cardinality(s)
    <2> DEFINE f == [e \in s |-> e.mark]
    <2>1. Marks(s) = {f[x] : x \in s}
      BY DEF Marks
    <2> QED
      BY <2>1, ImageOf
  <1>2. IsFiniteSet(Nums(s))
    <2> DEFINE f == [e \in s |-> e.num]
    <2>1. Nums(s) = {f[x] : x \in s}
      BY DEF Nums
    <2>2. DOMAIN f = s /\ f = [x \in s |-> f[x]]
      OBVIOUS
    <2> HIDE DEF f
    <2>3. IsFiniteSet(Nums(s)) /\ Cardinality(Nums(s)) <= Cardinality(s)
      BY <2>1, <2>2, ImageOf
    <2> QED
      BY <2>3
  <1>3. IsFiniteSet({e.at : e \in s})
    <2> DEFINE f == [e \in s |-> e.at]
               T == {e.at : e \in s}
    <2>1. T = {f[x] : x \in s}
      OBVIOUS
    <2>2. DOMAIN f = s /\ f = [x \in s |-> f[x]]
      OBVIOUS
    <2> HIDE DEF f, T
    <2>3. IsFiniteSet(T)
      BY <2>1, <2>2, ImageOf
    <2> QED
      BY <2>3 DEF T
  <1> QED
    BY <1>1, <1>2, <1>3

-----------------------------------------------------------------------------
(* Types.                                                                  *)

Typed == TypeOK /\ Finite /\ Named

\* The state of a marker's record.
LEMMA ClassifyIs ==
    ASSUME NEW t, NEW m
    PROVE  LET hits == FindMarker(work[t].entries, m)
           IN  /\ hits = {} <=> Classify(t, m) = "absent"
               /\ Classify(t, m) = "committed" <=>
                     /\ hits # {} /\ ~(Cardinality(hits) > 1)
                     /\ m \in Marks(head[t].entries)
               /\ Classify(t, m) \in {"journal-recorded", "index-recorded"} =>
                     /\ hits # {} /\ ~(Cardinality(hits) > 1)
                     /\ m \notin Marks(head[t].entries)
               /\ Classify(t, m) \in {"absent", "error", "committed", "index-recorded",
                                     "journal-recorded"}
               /\ Classify(t, m) = "journal-recorded" =>
                     ~(work[t].index.total > (CHOOSE x \in hits : TRUE).num)
               /\ Classify(t, m) = "index-recorded" =>
                     IndexHasRow(work[t].index, (CHOOSE x \in hits : TRUE).num)
  <1> DEFINE hits == FindMarker(work[t].entries, m)
             e == CHOOSE x \in hits : TRUE
  <1>1. Classify(t, m) =
            IF hits = {} THEN "absent"
            ELSE IF Cardinality(hits) > 1 THEN "error"
            ELSE IF m \in Marks(head[t].entries) THEN "committed"
            ELSE IF IndexHasRow(work[t].index, e.num) THEN "index-recorded"
            ELSE IF work[t].index.total > e.num THEN "error"
            ELSE "journal-recorded"
    BY DEF Classify
  <1> HIDE DEF hits, e
  <1>2. /\ hits = {} <=> Classify(t, m) = "absent"
        /\ Classify(t, m) = "committed" <=>
              /\ hits # {} /\ ~(Cardinality(hits) > 1)
              /\ m \in Marks(head[t].entries)
        /\ Classify(t, m) \in {"journal-recorded", "index-recorded"} =>
              /\ hits # {} /\ ~(Cardinality(hits) > 1)
              /\ m \notin Marks(head[t].entries)
        /\ Classify(t, m) \in {"absent", "error", "committed", "index-recorded",
                              "journal-recorded"}
        /\ Classify(t, m) = "journal-recorded" => ~(work[t].index.total > e.num)
        /\ Classify(t, m) = "index-recorded" => IndexHasRow(work[t].index, e.num)
    BY <1>1
  <1> QED
    BY <1>2 DEF hits, e

LEMMA RecordTypes ==
    ASSUME Typed, NEW t \in Trees
    PROVE  /\ work[t] \in Contents /\ head[t] \in Contents /\ staged[t] \in Contents
           /\ work[t].entries \subseteq Entries /\ head[t].entries \subseteq Entries
           /\ IsFiniteSet(work[t].entries) /\ IsFiniteSet(head[t].entries)
           /\ \A e \in Entries : /\ e.num \in Nat /\ e.file \in Nat /\ e.mark \in Markers
                                 /\ e.at \in Nat /\ e.at >= 1
           /\ work[t].files \in Nat /\ head[t].files \in Nat
           /\ work[t].index.total \in Nat /\ head[t].index.total \in Nat
           /\ work[t].index.rows \subseteq Rows /\ head[t].index.rows \subseteq Rows
           /\ Marks(work[t].entries) \subseteq Markers
           /\ context[t] \in Nat
  <1>1. work[t] \in Contents /\ head[t] \in Contents /\ staged[t] \in Contents
    BY DEF Typed, TypeOK
  <1>2. IsFiniteSet(work[t].entries) /\ IsFiniteSet(head[t].entries)
    BY DEF Typed, Finite
  <1>3. work[t].entries \subseteq Entries /\ head[t].entries \subseteq Entries
    BY <1>1 DEF Contents
  <1>4. \A e \in Entries : /\ e.num \in Nat /\ e.file \in Nat /\ e.mark \in Markers
                           /\ e.at \in Nat /\ e.at >= 1
    BY DEF Entries
  <1>5. /\ work[t].files \in Nat /\ head[t].files \in Nat
        /\ work[t].index.total \in Nat /\ head[t].index.total \in Nat
        /\ work[t].index.rows \subseteq Rows /\ head[t].index.rows \subseteq Rows
    BY <1>1 DEF Contents
  <1>6. Marks(work[t].entries) \subseteq Markers
    BY <1>3, <1>4 DEF Marks
  <1>7. context[t] \in Nat
    BY DEF Typed, TypeOK
  <1> QED
    BY <1>1, <1>2, <1>3, <1>4, <1>5, <1>6, <1>7

LEMMA MarkersOf ==
    ASSUME Typed, NEW t \in Trees, NEW r \in Records
    PROVE  /\ \A g \in Nat : RecordMarker(t, r, g) \in Markers
           /\ EffectiveMarkers(t, r) \subseteq Markers
           /\ \A m0 \in EffectiveMarkers(t, r), g \in Nat : GenMarker(t, r, m0, g) \in Markers
  <1>1. \A g \in Nat : RecordMarker(t, r, g) \in Markers
    BY RecordTypes DEF RecordMarker, Mark, Markers
  <1>2. LegacyMatches(t, r) \subseteq Markers
    BY RecordTypes DEF LegacyMatches
  <1>3. EffectiveMarkers(t, r) \subseteq Markers
    BY <1>1, <1>2 DEF EffectiveMarkers
  <1> QED
    BY <1>1, <1>3 DEF GenMarker

\* There is a first generation that is not committed: each committed one has
\* an entry of its own.
LEMMA GenerationIs ==
    ASSUME Typed, NEW t \in Trees, NEW r \in Records, NEW m0
    PROVE  LET g == Generation(t, r, m0)
           IN  /\ g \in Nat
               /\ Classify(t, GenMarker(t, r, m0, g)) # "committed"
               /\ \A k \in 0..(g - 1) : Classify(t, GenMarker(t, r, m0, k)) = "committed"
  <1> DEFINE N == Cardinality(work[t].entries)
             Done(k) == Classify(t, GenMarker(t, r, m0, k)) = "committed"
             Left == {g \in Nat : ~Done(g)}
             M == Marks(work[t].entries)
             f == [k \in 1..(N + 1) |-> RecordMarker(t, r, k)]
  <1>1. N \in Nat /\ IsFiniteSet(M) /\ Cardinality(M) \in Nat /\ Cardinality(M) <= N
    BY RecordTypes, FS_CardinalityType, MarksFinite
  <1>2. \E k \in 1..(N + 1) : ~Done(k)
    <2>1. SUFFICES ASSUME \A k \in 1..(N + 1) : Done(k)
                   PROVE  FALSE
      OBVIOUS
    <2>2. \A k \in 1..(N + 1) : RecordMarker(t, r, k) \in M
      <3> SUFFICES ASSUME NEW k \in 1..(N + 1)
                   PROVE  RecordMarker(t, r, k) \in M
        OBVIOUS
      <3>1. GenMarker(t, r, m0, k) = RecordMarker(t, r, k)
        BY <1>1 DEF GenMarker
      <3>2. FindMarker(work[t].entries, RecordMarker(t, r, k)) # {}
        BY <2>1, <3>1, ClassifyIs
      <3> QED
        BY <3>2 DEF FindMarker, Marks
    <2>3. f \in [1..(N + 1) -> M]
      BY <2>2
    <2>4. IsFiniteSet(1..(N + 1)) /\ Cardinality(1..(N + 1)) = N + 1
      <3> HIDE DEF N
      <3>1. 1 \in Int /\ N + 1 \in Int /\ ~(1 > N + 1) /\ (N + 1) - 1 + 1 = N + 1
        BY <1>1
      <3> DEFINE b == N + 1
      <3>2. b \in Int /\ ~(1 > b) /\ b - 1 + 1 = b
        BY <3>1
      <3> HIDE DEF b
      <3>3. IsFiniteSet(1..b) /\ Cardinality(1..b) = b
        BY <3>2, FS_Interval
      <3> QED
        BY <3>3 DEF b
    <2>5. Cardinality(M) < Cardinality(1..(N + 1))
      BY <1>1, <2>4
    <2> DEFINE D == 1..(N + 1)
    <2>6. \A x, y \in D : f[x] = f[y] => x = y
      BY DEF RecordMarker, Mark
    <2> HIDE DEF f, M, N, D
    <2>7. \E x, y \in D : x # y /\ f[x] = f[y]
      BY <1>1, <2>3, <2>4, <2>5, FS_PigeonHole DEF D
    <2> QED
      BY <2>6, <2>7
  <1> DEFINE Less == {ss \in Nat \X Nat : ss[1] < ss[2]}
  <1>3. IsWellFoundedOn(Less, Nat)
    BY NatLessThanWellFounded DEF OpToRel
  <1>4. Left # {} /\ Left \subseteq Nat
    BY <1>1, <1>2
  <1>5. PICK g \in Left : \A k \in Left : <<k, g>> \notin Less
    <2> HIDE DEF Less, Left
    <2> QED
      BY <1>3, <1>4, WFMin
  <1>6. g \in Nat /\ ~Done(g) /\ \A k \in 0..(g - 1) : Done(k)
    <2>1. g \in Nat /\ ~Done(g)
      BY <1>5
    <2> SUFFICES ASSUME NEW k \in 0..(g - 1), ~Done(k)
                 PROVE  FALSE
      BY <2>1
    <2>2. k \in Nat /\ k < g
      BY <2>1
    <2>3. k \in Left /\ <<k, g>> \in Less
      BY <2>1, <2>2
    <2> QED
      BY <1>5, <2>3
  <1>7. g <= N + 1
    <2>1. PICK k \in 1..(N + 1) : ~Done(k)
      BY <1>2
    <2> HIDE DEF Done, N
    <2> QED
      BY <1>1, <1>6, <2>1
  <1>8. \E h \in 0..(N + 1) : ~Done(h) /\ \A k \in 0..(h - 1) : Done(k)
    <2> HIDE DEF Done, N
    <2> QED
      BY <1>1, <1>6, <1>7
  <1>9. LET h == Generation(t, r, m0)
        IN  h \in 0..(N + 1) /\ ~Done(h) /\ \A k \in 0..(h - 1) : Done(k)
    BY <1>8 DEF Generation
  <1> QED
    BY <1>1, <1>9

LEMMA NextSessionIs ==
    ASSUME Typed, NEW t \in Trees
    PROVE  /\ NextSession(t) \in Nat
           /\ \A e \in work[t].entries : e.num < NextSession(t)
           /\ work[t].index.total < NextSession(t)
  <1> DEFINE L == Nums(work[t].entries) \cup {work[t].index.total}
             R(u) == Nums(head[u].entries) \cup {head[u].index.total}
             A == UNION {R(u) : u \in Trees}
  <1>1. L \in SUBSET Nat /\ IsFiniteSet(L)
    <2>1. L \in SUBSET Nat
      BY RecordTypes DEF Nums
    <2> QED
      BY <2>1, RecordTypes, MarksFinite, FS_AddElement
  <1>2. A \in SUBSET Nat /\ IsFiniteSet(A)
    <2>1. \A u \in Trees : R(u) \in SUBSET Nat /\ IsFiniteSet(R(u))
      <3> SUFFICES ASSUME NEW u \in Trees
                   PROVE  R(u) \in SUBSET Nat /\ IsFiniteSet(R(u))
        OBVIOUS
      <3>1. R(u) \in SUBSET Nat
        BY RecordTypes DEF Nums
      <3> QED
        BY <3>1, RecordTypes, MarksFinite, FS_AddElement
    <2> DEFINE f == [u \in Trees |-> R(u)]
               T == {R(u) : u \in Trees}
    <2>2. T = {f[u] : u \in Trees} /\ DOMAIN f = Trees /\ f = [u \in Trees |-> f[u]]
      OBVIOUS
    <2>3. IsFiniteSet(T)
      <3> HIDE DEF f, T
      <3>1. IsFiniteSet(Trees)
        BY JournalAssumption DEF JournalAssumption
      <3> QED
        BY <2>2, <3>1, ImageOf
    <2>4. \A X \in T : IsFiniteSet(X) /\ X \in SUBSET Nat
      <3> HIDE DEF R
      <3> QED
        BY <2>1
    <2>5. IsFiniteSet(UNION T) /\ UNION T \in SUBSET Nat
      <3> HIDE DEF T
      <3> QED
        BY <2>3, <2>4, FS_UNION
    <2> QED
      BY <2>5
  <1>3. MaxLocal(t) = MaxOf(L) /\ MaxAcrossRefs = MaxOf(A)
    BY DEF MaxLocal, MaxAcrossRefs
  <1>4. /\ MaxOf(L) \in Nat /\ \A k \in L : k <= MaxOf(L)
        /\ MaxOf(A) \in Nat
    <2> HIDE DEF L, A
    <2>1. MaxOf(L) \in L \cup {0} /\ \A k \in L : k <= MaxOf(L)
      BY <1>1, MaxOfIs
    <2>2. MaxOf(A) \in A \cup {0}
      BY <1>2, MaxOfIs
    <2>3. L \subseteq Nat /\ A \subseteq Nat /\ 0 \in Nat
      BY <1>1, <1>2
    <2>4. MaxOf(L) \in Nat
      BY <2>1, <2>3
    <2>5. MaxOf(A) \in Nat
      BY <2>2, <2>3
    <2> QED
      BY <2>1, <2>4, <2>5
  <1> DEFINE P == {MaxOf(L), MaxOf(A)}
  <1>5. P \in SUBSET Nat /\ IsFiniteSet(P)
    <2> HIDE DEF L, A
    <2>1. P = {MaxOf(L)} \cup {MaxOf(A)}
      OBVIOUS
    <2>2. IsFiniteSet({MaxOf(L)})
      BY FS_Singleton
    <2>3. IsFiniteSet({MaxOf(L)} \cup {MaxOf(A)})
      BY <2>2, FS_AddElement
    <2> QED
      BY <1>4, <2>1, <2>3
  <1>6. MaxOf(P) \in Nat /\ MaxOf(L) <= MaxOf(P)
    <2> HIDE DEF L, A
    <2>1. MaxOf(P) \in P \cup {0} /\ \A k \in P : k <= MaxOf(P)
      <3> HIDE DEF P
      <3> QED
        BY <1>5, MaxOfIs
    <2> QED
      BY <1>4, <2>1
  <1>7. NextSession(t) = MaxOf(P) + 1
    <2> HIDE DEF L, A
    <2> QED
      BY <1>3 DEF NextSession
  <1>8. \A k \in L : k < NextSession(t)
    <2> HIDE DEF L, A, P
    <2> SUFFICES ASSUME NEW k \in L
                 PROVE  k < NextSession(t)
      OBVIOUS
    <2>1. k \in Nat /\ k <= MaxOf(L)
      BY <1>1, <1>4
    <2> QED
      BY <2>1, <1>4, <1>6, <1>7
  <1>9. NextSession(t) \in Nat
    BY <1>6, <1>7
  <1>10. work[t].index.total \in L /\ \A e \in work[t].entries : e.num \in L
    BY DEF Nums
  <1> HIDE DEF L
  <1> QED
    BY <1>8, <1>9, <1>10

LEMMA WindowTypes ==
    ASSUME Typed, NEW w \in Windows
    PROVE  /\ win[w] \in Commands /\ Home[w] \in Trees /\ IdleWin \in Commands
           /\ win[w].pc \in Phases /\ win[w].rec \in Records \cup {"none"}
           /\ win[w].mark \in Markers \cup {NoMark}
           /\ win[w].num \in Nat /\ win[w].file \in Nat
           /\ win[w].snap \subseteq Entries /\ win[w].rows \subseteq Rows
           /\ IsFiniteSet(win[w].snap)
           /\ win[w].pc # "idle" => win[w].rec \in Records
           /\ win[w].pc \notin {"idle", "preflight", "classify"} => win[w].mark \in Markers
  <1>1. win[w] \in Commands
    BY DEF Typed, TypeOK
  <1>2. IdleWin \in Commands
    BY DEF IdleWin, Commands, Phases
  <1>3. Home[w] \in Trees
    BY JournalAssumption DEF JournalAssumption
  <1>4. /\ IsFiniteSet(win[w].snap)
        /\ win[w].pc # "idle" => win[w].rec \in Records
        /\ win[w].pc \notin {"idle", "preflight", "classify"} => win[w].mark \in Markers
    BY DEF Typed, Finite, Named, Bound
  <1>5. /\ win[w].pc \in Phases /\ win[w].rec \in Records \cup {"none"}
        /\ win[w].mark \in Markers \cup {NoMark}
        /\ win[w].num \in Nat /\ win[w].file \in Nat
        /\ win[w].snap \subseteq Entries /\ win[w].rows \subseteq Rows
    BY <1>1 DEF Commands
  <1> QED
    BY <1>1, <1>2, <1>3, <1>4, <1>5

WinTypes == /\ win \in [Windows -> Commands]
            /\ \A v \in Windows : IsFiniteSet(win[v].snap)
            /\ \A v \in Windows : Bound(win[v])

\* A window goes on as q.
LEMMA WinTyped ==
    ASSUME Typed, NEW w \in Windows, NEW q \in Commands, IsFiniteSet(q.snap),
           Bound(q),
           win' = [win EXCEPT ![w] = q]
    PROVE  WinTypes'
  <1>1. WinTypes
    BY DEF Typed, TypeOK, Finite, Named, WinTypes
  <1> QED
    BY <1>1 DEF WinTypes

LEMMA PcTyped ==
    ASSUME Typed, NEW w \in Windows, NEW pc \in Phases
    PROVE  /\ [win[w] EXCEPT !.pc = pc] \in Commands
           /\ [win[w] EXCEPT !.pc = pc].snap = win[w].snap
           /\ [win[w] EXCEPT !.pc = pc].rec = win[w].rec
           /\ [win[w] EXCEPT !.pc = pc].mark = win[w].mark
           /\ [win[w] EXCEPT !.pc = pc].pc = pc
           /\ Goto(w, pc) => win' = [win EXCEPT ![w] = [win[w] EXCEPT !.pc = pc]]
  <1>1. win[w] \in Commands /\ win \in [Windows -> Commands]
    BY DEF Typed, TypeOK
  <1> QED
    BY <1>1 DEF Commands, Goto

LEMMA GotoTyped ==
    ASSUME Typed, NEW w \in Windows, NEW pc \in Phases, Goto(w, pc), win[w].pc # "idle",
           pc \in {"idle", "preflight", "classify"}
               \/ win[w].pc \notin {"idle", "preflight", "classify"}
    PROVE  WinTypes'
  <1>1. Bound([win[w] EXCEPT !.pc = pc])
    BY PcTyped, WindowTypes DEF Bound
  <1> QED
    BY <1>1, PcTyped, WinTyped, WindowTypes

LEMMA IdleTyped ==
    ASSUME Typed, NEW w \in Windows, win' = [win EXCEPT ![w] = IdleWin]
    PROVE  WinTypes'
  <1>1. IdleWin.snap = {} /\ IsFiniteSet({}) /\ Bound(IdleWin)
    BY FS_EmptySet DEF IdleWin, Bound
  <1> QED
    BY <1>1, WinTyped, WindowTypes

LEMMA FailTyped ==
    ASSUME Typed, NEW w \in Windows, Fail(w)
    PROVE  WinTypes'
  BY IdleTyped DEF Fail

FilesTyped == /\ {work, head, staged} \subseteq [Trees -> Contents]
          /\ \A t \in Trees : IsFiniteSet(work[t].entries) /\ IsFiniteSet(head[t].entries)
Clocks == today \in Nat /\ context \in [Trees -> Nat]
Budgets == spent \in [commands : Nat, mishaps : Nat, merges : Nat, drift : Nat]
Histories == /\ open \in [Trees -> SUBSET Records]
             /\ asked \in [Trees -> [Records -> Nat]]
             /\ lost \in [Trees -> [Records -> Nat]]
             /\ raced \in [Trees -> BOOLEAN]

LEMMA TypedIs == Typed <=> FilesTyped /\ WinTypes /\ Clocks /\ Budgets /\ Histories
  BY DEF Typed, TypeOK, Finite, Named, FilesTyped, WinTypes, Clocks, Budgets, Histories

LEMMA TypedNext == FilesTyped' /\ WinTypes' /\ Clocks' /\ Budgets' /\ Histories' => Typed'
  BY DEF Typed, TypeOK, Finite, Named, FilesTyped, WinTypes, Clocks, Budgets, Histories

LEMMA FilesSame == FilesTyped /\ UNCHANGED files => FilesTyped'
  BY DEF FilesTyped, files
LEMMA ClocksSame == Clocks /\ UNCHANGED drift => Clocks'
  BY DEF Clocks, drift
LEMMA BudgetsSame == Budgets /\ (UNCHANGED spent \/ Mishap) => Budgets'
  BY DEF Budgets, Mishap
LEMMA HistoriesSame == Histories /\ UNCHANGED <<asked, lost, raced>>
                          /\ (UNCHANGED open \/ \E w \in Windows : Succeed(w)) => Histories'
  BY JournalAssumption DEF JournalAssumption, Histories, Succeed

LEMMA SucceedTyped ==
    ASSUME Typed, NEW w \in Windows, Succeed(w)
    PROVE  WinTypes'
  BY IdleTyped DEF Succeed

LEMMA WorkTyped ==
    ASSUME Typed, NEW t \in Trees, NEW c \in Contents, IsFiniteSet(c.entries),
           work' = [work EXCEPT ![t] = c], UNCHANGED <<head, staged>>
    PROVE  FilesTyped'
  BY DEF Typed, TypeOK, Finite, FilesTyped

LEMMA InitDeveloperTyped ==
    ASSUME Typed, NEW t \in Trees, InitDeveloper(t)
    PROVE  Typed'
  <1>1. FilesTyped'
    <2>1. PICK c \in {[work[t] EXCEPT !.files = 1], [work[t] EXCEPT !.index = NewIndex]} :
             work' = [work EXCEPT ![t] = c]
      BY RecordTypes DEF InitDeveloper, Typed, TypeOK
    <2>2. c \in Contents /\ c.entries = work[t].entries
      <3>1. work[t] \in Contents
        BY RecordTypes
      <3>2. NewIndex \in [made : BOOLEAN, total : Nat, rows : SUBSET Rows]
        BY DEF NewIndex
      <3>3. CASE c = [work[t] EXCEPT !.files = 1]
        BY <3>1, <3>3 DEF Contents
      <3>4. CASE c = [work[t] EXCEPT !.index = NewIndex]
        BY <3>1, <3>2, <3>4 DEF Contents
      <3> QED
        BY <2>1, <3>3, <3>4
    <2> QED
      BY <2>1, <2>2, RecordTypes, WorkTyped DEF InitDeveloper
  <1>2. WinTypes' /\ Clocks' /\ Budgets' /\ Histories'
    BY TypedIs DEF InitDeveloper, WinTypes, Clocks, Budgets, Histories, drift, ghosts
  <1> QED
    BY <1>1, <1>2, TypedNext

LEMMA BeginTyped ==
    ASSUME Typed, NEW w \in Windows, NEW r \in Sessions[w], NEW auto \in BOOLEAN,
           Begin(w, r, auto)
    PROVE  Typed'
  <1>1. r \in Records /\ Home[w] \in Trees
    BY JournalAssumption DEF JournalAssumption
  <1>2. WinTypes'
    <2> DEFINE q == [IdleWin EXCEPT !.pc = "preflight", !.rec = r, !.auto = auto]
    <2>1. q \in Commands
      BY <1>1 DEF IdleWin, Commands, Phases
    <2>2. q.snap = {} /\ IsFiniteSet({}) /\ Bound(q)
      BY <1>1, FS_EmptySet DEF IdleWin, Bound
    <2>3. win' = [win EXCEPT ![w] = q]
      BY DEF Begin
    <2> HIDE DEF q
    <2> QED
      BY <2>1, <2>2, <2>3, WinTyped
  <1>3. FilesTyped' /\ Clocks'
    BY TypedIs, FilesSame, ClocksSame DEF Begin
  <1>4. Budgets'
    BY TypedIs DEF Begin, Budgets
  <1>5. Histories'
    BY <1>1, TypedIs DEF Begin, Histories
  <1> QED
    BY <1>2, <1>3, <1>4, <1>5, TypedNext

LEMMA PreflightTyped ==
    ASSUME Typed, NEW w \in Windows, Preflight(w)
    PROVE  Typed'
  <1>1. WinTypes'
    BY GotoTyped, FailTyped DEF Preflight, Phases, Recording
  <1>2. FilesTyped' /\ Clocks' /\ Budgets'
    BY TypedIs, FilesSame, ClocksSame, BudgetsSame DEF Preflight
  <1>3. Histories'
    <2>1. Home[w] \in Trees
      BY WindowTypes
    <2>2. raced' \in [Trees -> BOOLEAN]
      <3>1. raced \in [Trees -> BOOLEAN]
        BY DEF Typed, TypeOK
      <3>2. CASE UNCHANGED raced
        BY <3>1, <3>2
      <3>3. CASE raced' = [raced EXCEPT ![Home[w]] = \/ @
                \/ \E v \in Windows : Home[v] = Home[w] /\ win[v].pc \in Recording]
        BY <2>1, <3>1, <3>3
      <3> QED
        BY <3>2, <3>3 DEF Preflight
    <2> QED
      BY <2>2, TypedIs DEF Preflight, Histories
  <1> QED
    BY <1>1, <1>2, <1>3, TypedNext

\* What a command settles on.
Settles(w, m) ==
    LET t == Home[w]
        r == win[w].rec
        state == Classify(t, m)
    IN  /\ m \in Markers
        /\ state \in {"absent", "journal-recorded", "index-recorded"}
        /\ \E num \in Nat, pc \in {"index", "recorded", "rotate", "read"} :
              /\ state = "absent" => num = NextSession(t) /\ pc \in {"rotate", "read"}
                                     /\ work[t].files # 0
              /\ state # "absent" =>
                    /\ FindMarker(work[t].entries, m) # {}
                    /\ num = (CHOOSE e \in FindMarker(work[t].entries, m) : TRUE).num
                    /\ pc = IF state = "journal-recorded" THEN "index" ELSE "recorded"
              /\ win' = [win EXCEPT ![w] = [win[w] EXCEPT !.mark = m, !.num = num,
                                                !.file = work[t].files, !.pc = pc]]

LEMMA ClassifySteps ==
    ASSUME Typed, NEW w \in Windows, ClassifyRecord(w)
    PROVE  \/ Fail(w) /\ UNCHANGED open
           \/ Succeed(w)
           \/ /\ UNCHANGED open
              /\ \E m0 \in EffectiveMarkers(Home[w], win[w].rec) :
                    LET g == Generation(Home[w], win[w].rec, m0)
                    IN  /\ ~AlreadyDone(Home[w], win[w].rec, m0)
                        /\ Settles(w, GenMarker(Home[w], win[w].rec, m0, g))
  <1> DEFINE t == Home[w]
             r == win[w].rec
  <1>1. PICK m0 \in EffectiveMarkers(t, r) :
             LET m == GenMarker(t, r, m0, Generation(t, r, m0))
                 state == Classify(t, m)
             IN  \/ Fail(w) /\ UNCHANGED open
                 \/ Succeed(w)
                 \/ /\ ~Refused(t, r, m0) /\ ~AlreadyDone(t, r, m0)
                    /\ win' = [win EXCEPT ![w].mark = m,
                         ![w].num = IF state = "absent" THEN NextSession(t) ELSE
                            (CHOOSE e \in FindMarker(work[t].entries, m) : TRUE).num,
                         ![w].file = work[t].files,
                         ![w].pc =
                            IF state = "journal-recorded" THEN "index"
                            ELSE IF state = "index-recorded" THEN "recorded"
                            ELSE IF Cardinality(InFile(work[t].entries,
                                                       work[t].files)) >= Cap
                            THEN "rotate" ELSE "read"]
                    /\ UNCHANGED open
    BY DEF ClassifyRecord
  <1> DEFINE m == GenMarker(t, r, m0, Generation(t, r, m0))
             state == Classify(t, m)
             e == CHOOSE x \in FindMarker(work[t].entries, m) : TRUE
             num == IF state = "absent" THEN NextSession(t) ELSE e.num
             full == Cardinality(InFile(work[t].entries, work[t].files)) >= Cap
             pc == IF state = "journal-recorded" THEN "index"
                   ELSE IF state = "index-recorded" THEN "recorded"
                   ELSE IF full THEN "rotate" ELSE "read"
  <1>2. CASE (Fail(w) /\ UNCHANGED open) \/ Succeed(w)
    BY <1>2
  <1>3. CASE ~((Fail(w) /\ UNCHANGED open) \/ Succeed(w))
    <2>1. /\ ~Refused(t, r, m0) /\ ~AlreadyDone(t, r, m0) /\ UNCHANGED open
          /\ win' = [win EXCEPT ![w].mark = m, ![w].num = num, ![w].file = work[t].files,
                                ![w].pc = pc]
      BY <1>1, <1>3
    <2>2. t \in Trees /\ win \in [Windows -> Commands] /\ r \in Records
      BY WindowTypes DEF Typed, TypeOK, ClassifyRecord
    <2>3. m \in Markers
      BY <2>2, MarkersOf, GenerationIs
    <2>4. state \in {"absent", "error", "committed", "index-recorded", "journal-recorded"}
      BY ClassifyIs
    <2>5. state # "committed"
      BY <2>2, GenerationIs
    <2>6. state # "error" /\ (state = "absent" => work[t].files # 0)
      BY <2>1 DEF Refused
    <2>7. state # "absent" => FindMarker(work[t].entries, m) # {}
      BY ClassifyIs
    <2>8. num \in Nat
      <3>1. CASE state = "absent"
        BY <2>2, <3>1, NextSessionIs
      <3>2. CASE state # "absent"
        <4>1. e \in work[t].entries
          BY <2>7, <3>2 DEF FindMarker
        <4> HIDE DEF e
        <4> QED
          BY <2>2, <3>2, <4>1, RecordTypes
      <3> QED
        BY <3>1, <3>2
    <2>9. /\ pc \in {"index", "recorded", "rotate", "read"}
          /\ state = "absent" => pc \in {"rotate", "read"}
          /\ state # "absent" => pc = IF state = "journal-recorded" THEN "index" ELSE "recorded"
      <3> HIDE DEF full, state
      <3>1. CASE state = "absent"
        <4>1. pc = IF full THEN "rotate" ELSE "read"
          BY <3>1
        <4> HIDE DEF pc
        <4> QED
          BY <3>1, <4>1
      <3>2. CASE state = "journal-recorded"
        BY <3>2
      <3>3. CASE state = "index-recorded"
        BY <3>3
      <3> QED
        BY <2>4, <2>5, <2>6, <3>1, <3>2, <3>3
    <2>10. win' = [win EXCEPT ![w] = [win[w] EXCEPT !.mark = m, !.num = num,
                                           !.file = work[t].files, !.pc = pc]]
      <3> HIDE DEF m, num, pc
      <3> QED
        BY <2>1, <2>2 DEF Commands
    <2>11. Settles(w, m)
      <3>1. state \in {"absent", "journal-recorded", "index-recorded"}
        BY <2>4, <2>5, <2>6
      <3>2. state = "absent" => num = NextSession(t)
        OBVIOUS
      <3>3. state # "absent" => num = e.num
        OBVIOUS
      <3> HIDE DEF num, pc, state, m
      <3> QED
        BY <2>3, <2>6, <2>7, <2>8, <2>9, <2>10, <3>1, <3>2, <3>3 DEF Settles, state
    <2> QED
      BY <2>1, <2>11
  <1> QED
    BY <1>2, <1>3

LEMMA ClassifyTyped ==
    ASSUME Typed, NEW w \in Windows, ClassifyRecord(w)
    PROVE  Typed'
  <1>1. WinTypes' /\ (UNCHANGED open \/ Succeed(w))
    <2>1. CASE Fail(w) /\ UNCHANGED open
      BY <2>1, FailTyped
    <2>2. CASE Succeed(w)
      BY <2>2, SucceedTyped
    <2>3. ASSUME NEW m, Settles(w, m)
          PROVE  WinTypes'
      <3>1. PICK num \in Nat, pc \in {"index", "recorded", "rotate", "read"} :
                 win' = [win EXCEPT ![w] = [win[w] EXCEPT !.mark = m, !.num = num,
                                                !.file = work[Home[w]].files, !.pc = pc]]
        BY <2>3 DEF Settles
      <3> DEFINE q == [win[w] EXCEPT !.mark = m, !.num = num,
                                     !.file = work[Home[w]].files, !.pc = pc]
      <3>2. /\ q \in Commands /\ q.snap = win[w].snap /\ q.rec = win[w].rec
            /\ q.mark = m /\ m \in Markers
        <4>1. win[w] \in Commands /\ work[Home[w]].files \in Nat /\ m \in Markers
          BY <2>3, WindowTypes, RecordTypes DEF Settles
        <4>2. pc \in Phases
          BY DEF Phases, Recording
        <4> QED
          BY <4>1, <4>2 DEF Commands
      <3>3. win[w].rec \in Records /\ IsFiniteSet(win[w].snap)
        BY WindowTypes DEF ClassifyRecord
      <3>4. win' = [win EXCEPT ![w] = q]
        BY <3>1
      <3> HIDE DEF q
      <3>5. Bound(q)
        BY <3>2, <3>3 DEF Bound
      <3> QED
        BY <3>2, <3>3, <3>4, <3>5, WinTyped
    <2> QED
      BY <2>1, <2>2, <2>3, ClassifySteps
  <1>2. FilesTyped' /\ Clocks' /\ Budgets'
    BY TypedIs, FilesSame, ClocksSame, BudgetsSame DEF ClassifyRecord
  <1>3. Histories'
    BY <1>1, TypedIs, HistoriesSame DEF ClassifyRecord
  <1> QED
    BY <1>1, <1>2, <1>3, TypedNext

LEMMA QuietTyped ==
    ASSUME Typed, NEW w \in Windows, UNCHANGED <<drift, ghosts>>,
           UNCHANGED spent \/ Mishap, FilesTyped', WinTypes'
    PROVE  Typed'
  <1>1. Clocks' /\ Budgets' /\ Histories'
    BY TypedIs, ClocksSame, BudgetsSame, HistoriesSame DEF ghosts
  <1> QED
    BY <1>1, TypedNext

LEMMA RotateTyped ==
    ASSUME Typed, NEW w \in Windows, Rotate(w)
    PROVE  Typed'
  <1> DEFINE t == Home[w]
             f == win[w].file + 1
  <1>1. t \in Trees /\ win[w].rec \in Records /\ f \in Nat
    BY WindowTypes DEF Rotate
  <1>2. CASE /\ work' = [work EXCEPT ![t].files = IF @ > f THEN @ ELSE f,
                                     ![t].entries = OutOfFile(@, f)]
             /\ win' = [win EXCEPT ![w].pc = "read", ![w].file = f]
             /\ UNCHANGED spent
    <2>1. FilesTyped'
      <3> DEFINE c == [work[t] EXCEPT !.files = IF @ > f THEN @ ELSE f,
                                      !.entries = OutOfFile(@, f)]
      <3>1. OutOfFile(work[t].entries, f) \subseteq work[t].entries
        BY DEF OutOfFile
      <3>2. c \in Contents /\ c.entries = OutOfFile(work[t].entries, f)
        <4> HIDE DEF f
        <4> QED
          BY <1>1, <3>1, RecordTypes DEF Contents
      <3>3. IsFiniteSet(c.entries)
        BY <1>1, <3>1, <3>2, RecordTypes, FS_Subset
      <3>4. work' = [work EXCEPT ![t] = c]
        <4> HIDE DEF f
        <4>1. work \in [Trees -> Contents]
          BY DEF Typed, TypeOK
        <4> QED
          BY <1>1, <1>2, <4>1 DEF Contents
      <3>5. UNCHANGED <<head, staged>>
        BY DEF Rotate
      <3> HIDE DEF c
      <3> QED
        BY <1>1, <3>2, <3>3, <3>4, <3>5, WorkTyped
    <2>2. WinTypes'
      <3> DEFINE q == [win[w] EXCEPT !.pc = "read", !.file = f]
      <3>1. win[w] \in Commands /\ win \in [Windows -> Commands]
        BY WindowTypes DEF Typed, TypeOK
      <3>2. q \in Commands /\ q.snap = win[w].snap /\ q.rec = win[w].rec /\ q.mark = win[w].mark
        BY <1>1, <3>1 DEF Commands, Phases, Recording
      <3>3. win' = [win EXCEPT ![w] = q]
        BY <1>2, <3>1 DEF Commands
      <3> HIDE DEF q
      <3>4. Bound(q)
        BY <1>1, <3>2, WindowTypes DEF Bound, Rotate
      <3> QED
        BY <3>2, <3>3, <3>4, WinTyped, WindowTypes
    <2> QED
      BY <2>1, <2>2, <1>2, QuietTyped DEF Rotate
  <1>3. CASE Mishap /\ Fail(w) /\ UNCHANGED work
    <2>1. FilesTyped'
      BY <1>3, TypedIs, FilesSame DEF Rotate, files
    <2> QED
      BY <2>1, <1>3, FailTyped, QuietTyped DEF Rotate
  <1> QED
    BY <1>2, <1>3 DEF Rotate

LEMMA ReadJournalTyped ==
    ASSUME Typed, NEW w \in Windows, ReadJournal(w)
    PROVE  Typed'
  <1> DEFINE s == InFile(work[Home[w]].entries, win[w].file)
             q == [win[w] EXCEPT !.pc = "append", !.snap = s]
  <1>1. s \subseteq work[Home[w]].entries
    BY DEF InFile
  <1>2. s \subseteq Entries /\ IsFiniteSet(s)
    BY <1>1, WindowTypes, RecordTypes, FS_Subset
  <1>3. win[w] \in Commands /\ win \in [Windows -> Commands]
    BY WindowTypes DEF Typed, TypeOK
  <1>4. q \in Commands /\ q.snap = s /\ q.rec = win[w].rec /\ q.mark = win[w].mark
    <2> HIDE DEF s
    <2> QED
      BY <1>2, <1>3 DEF Commands, Phases, Recording
  <1>5. win' = [win EXCEPT ![w] = q]
    BY <1>3 DEF ReadJournal, Commands
  <1>6. WinTypes'
    <2> HIDE DEF q, s
    <2>1. Bound(q)
      BY <1>4, WindowTypes DEF ReadJournal, Bound
    <2> QED
      BY <1>2, <1>4, <1>5, <2>1, WinTyped
  <1>7. FilesTyped'
    BY TypedIs, FilesSame DEF ReadJournal
  <1> QED
    BY <1>6, <1>7, QuietTyped DEF ReadJournal

\* What an append leaves in the journal.
LEMMA AppendedIs ==
    ASSUME Typed, NEW w \in Windows, win[w].mark \in Markers
    PROVE  LET s == Appended(work[Home[w]].entries, win[w])
               b == Bottom(win[w].snap)
               e == Entry(win[w].num, win[w].mark, win[w].file, b + 1)
           IN  /\ s \subseteq Entries /\ IsFiniteSet(s)
               /\ b \in Nat /\ \A x \in win[w].snap : x.at <= b
               /\ e \in Entries
               /\ s = OutOfFile(work[Home[w]].entries, win[w].file) \cup win[w].snap \cup {e}
  <1> DEFINE q == win[w]
             b == Bottom(q.snap)
             A == {x.at : x \in q.snap}
             e == Entry(q.num, q.mark, q.file, b + 1)
             O == OutOfFile(work[Home[w]].entries, q.file)
  <1>1. A \subseteq Nat /\ IsFiniteSet(A)
    <2>1. A \subseteq Nat
      BY WindowTypes, RecordTypes
    <2> QED
      BY <2>1, WindowTypes, MarksFinite
  <1>2. b \in Nat /\ \A x \in q.snap : x.at <= b
    <2>1. b = MaxOf(A)
      BY DEF Bottom
    <2>2. \A x \in q.snap : x.at \in A
      OBVIOUS
    <2> HIDE DEF A, b
    <2>3. MaxOf(A) \in A \cup {0} /\ \A k \in A : k <= MaxOf(A)
      BY <1>1, MaxOfIs
    <2>4. 0 \in Nat
      OBVIOUS
    <2> QED
      BY <1>1, <2>1, <2>2, <2>3, <2>4
  <1>3. e \in Entries
    <2> HIDE DEF b
    <2>1. b + 1 \in Nat \ {0}
      BY <1>2
    <2> QED
      BY <2>1, WindowTypes DEF Entry, Entries
  <1>4. O \subseteq work[Home[w]].entries
    BY DEF OutOfFile
  <1>5. O \subseteq Entries /\ IsFiniteSet(O)
    BY <1>4, WindowTypes, RecordTypes, FS_Subset
  <1>6. Appended(work[Home[w]].entries, q) = O \cup q.snap \cup {e}
    BY DEF Appended
  <1>7. IsFiniteSet(O \cup q.snap \cup {e})
    <2> HIDE DEF O, e
    <2>1. IsFiniteSet(O \cup q.snap)
      BY <1>5, WindowTypes, FS_Union
    <2> QED
      BY <2>1, FS_AddElement
  <1> HIDE DEF O, e, b
  <1> QED
    BY <1>2, <1>3, <1>5, <1>6, <1>7, WindowTypes DEF e, b, O

\* A step with a new value of the window that keeps its record and marker.
LEMMA StepTyped ==
    ASSUME Typed, NEW w \in Windows, NEW q \in Commands, IsFiniteSet(q.snap),
           win[w].pc \notin {"idle", "preflight", "classify"},
           q.rec = win[w].rec, q.mark = win[w].mark,
           win' = [win EXCEPT ![w] = q]
    PROVE  WinTypes'
  <1>1. Bound(q)
    BY WindowTypes DEF Bound
  <1> QED
    BY <1>1, WinTyped

LEMMA AppendEntryTyped ==
    ASSUME Typed, NEW w \in Windows, AppendEntry(w)
    PROVE  Typed'
  <1> DEFINE t == Home[w]
             s == Appended(work[t].entries, win[w])
  <1>1. t \in Trees /\ win[w].mark \in Markers
    BY WindowTypes DEF AppendEntry
  <1>2. CASE /\ work' = [work EXCEPT ![t].entries = s]
             /\ win' = [win EXCEPT ![w].pc = "index", ![w].snap = {}]
             /\ UNCHANGED spent
    <2>1. FilesTyped'
      <3> DEFINE c == [work[t] EXCEPT !.entries = s]
      <3>1. s \subseteq Entries /\ IsFiniteSet(s)
        BY <1>1, AppendedIs
      <3> HIDE DEF s
      <3>2. c \in Contents /\ c.entries = s
        BY <1>1, <3>1, RecordTypes DEF Contents
      <3>3. work' = [work EXCEPT ![t] = c] /\ UNCHANGED <<head, staged>>
        BY <1>2 DEF AppendEntry
      <3> HIDE DEF c
      <3> QED
        BY <1>1, <3>1, <3>2, <3>3, WorkTyped
    <2>2. WinTypes'
      <3> DEFINE q == [win[w] EXCEPT !.pc = "index", !.snap = {}]
      <3>1. win[w] \in Commands /\ win \in [Windows -> Commands]
        BY WindowTypes DEF Typed, TypeOK
      <3>2. q \in Commands /\ q.snap = {} /\ q.rec = win[w].rec /\ q.mark = win[w].mark
        BY <3>1 DEF Commands, Phases, Recording
      <3>3. win' = [win EXCEPT ![w] = q]
        BY <1>2, <3>1 DEF Commands
      <3> HIDE DEF q
      <3> QED
        BY <3>2, <3>3, StepTyped, FS_EmptySet DEF AppendEntry
    <2> QED
      BY <2>1, <2>2, <1>2, QuietTyped DEF AppendEntry
  <1>3. CASE Mishap /\ Fail(w) /\ UNCHANGED work
    <2>1. FilesTyped'
      BY <1>3, TypedIs, FilesSame DEF AppendEntry, files
    <2> QED
      BY <2>1, <1>3, FailTyped, QuietTyped DEF AppendEntry
  <1> QED
    BY <1>2, <1>3 DEF AppendEntry

LEMMA ReadIndexTyped ==
    ASSUME Typed, NEW w \in Windows, ReadIndex(w)
    PROVE  Typed'
  <1> DEFINE x == work[Home[w]].index
             q == [win[w] EXCEPT !.pc = "row", !.rows = x.rows]
  <1>1. WinTypes'
    <2>1. CASE win' = [win EXCEPT ![w].pc = "row", ![w].rows = x.rows]
      <3>1. win[w] \in Commands /\ win \in [Windows -> Commands] /\ x.rows \subseteq Rows
        BY WindowTypes, RecordTypes DEF Typed, TypeOK
      <3>2. q \in Commands /\ q.snap = win[w].snap /\ q.rec = win[w].rec /\ q.mark = win[w].mark
        BY <3>1 DEF Commands, Phases, Recording
      <3>3. win' = [win EXCEPT ![w] = q]
        BY <2>1, <3>1 DEF Commands
      <3>4. IsFiniteSet(win[w].snap)
        BY WindowTypes
      <3> HIDE DEF q
      <3> QED
        BY <3>2, <3>3, <3>4, StepTyped DEF ReadIndex
    <2>2. CASE Fail(w)
      BY <2>2, FailTyped
    <2> QED
      BY <2>1, <2>2 DEF ReadIndex
  <1>2. FilesTyped'
    BY TypedIs, FilesSame DEF ReadIndex
  <1> QED
    BY <1>1, <1>2, QuietTyped DEF ReadIndex

LEMMA UpdateIndexTyped ==
    ASSUME Typed, NEW w \in Windows, UpdateIndex(w)
    PROVE  Typed'
  <1> DEFINE t == Home[w]
             x == UpdatedIndex(win[w])
  <1>1. t \in Trees /\ win[w].rec \in Records
    BY WindowTypes DEF UpdateIndex
  <1>2. CASE /\ work' = [work EXCEPT ![t].index = x]
             /\ win' = [win EXCEPT ![w].pc = "recorded", ![w].rows = {}]
             /\ UNCHANGED spent
    <2>1. FilesTyped'
      <3> DEFINE c == [work[t] EXCEPT !.index = x]
      <3>1. x \in [made : BOOLEAN, total : Nat, rows : SUBSET Rows]
        BY <1>1, WindowTypes DEF UpdatedIndex, Row, Rows
      <3> HIDE DEF x
      <3>2. c \in Contents /\ c.entries = work[t].entries
        BY <1>1, <3>1, RecordTypes DEF Contents
      <3>3. work' = [work EXCEPT ![t] = c] /\ UNCHANGED <<head, staged>>
        BY <1>2 DEF UpdateIndex
      <3> HIDE DEF c
      <3> QED
        BY <1>1, <3>1, <3>2, <3>3, WorkTyped, RecordTypes
    <2>2. WinTypes'
      <3> DEFINE q == [win[w] EXCEPT !.pc = "recorded", !.rows = {}]
      <3>1. win[w] \in Commands /\ win \in [Windows -> Commands]
        BY WindowTypes DEF Typed, TypeOK
      <3>2. q \in Commands /\ q.snap = win[w].snap /\ q.rec = win[w].rec /\ q.mark = win[w].mark
        BY <3>1 DEF Commands, Phases, Recording
      <3>3. win' = [win EXCEPT ![w] = q]
        BY <1>2, <3>1 DEF Commands
      <3>4. IsFiniteSet(win[w].snap)
        BY WindowTypes
      <3> HIDE DEF q
      <3> QED
        BY <3>2, <3>3, <3>4, StepTyped DEF UpdateIndex
    <2> QED
      BY <2>1, <2>2, <1>2, QuietTyped DEF UpdateIndex
  <1>3. CASE Mishap /\ Fail(w) /\ UNCHANGED work
    <2>1. FilesTyped'
      BY <1>3, TypedIs, FilesSame DEF UpdateIndex, files
    <2> QED
      BY <2>1, <1>3, FailTyped, QuietTyped DEF UpdateIndex
  <1> QED
    BY <1>2, <1>3 DEF UpdateIndex

Past(w) == win[w].pc \notin {"idle", "preflight", "classify"}

LEMMA EndTyped ==
    ASSUME Typed, NEW w \in Windows, UNCHANGED <<files, drift, spent, asked, lost, raced>>,
           Succeed(w) \/ ((Fail(w) \/ (Goto(w, "commit") /\ Past(w))) /\ UNCHANGED open)
    PROVE  Typed'
  <1>1. WinTypes'
    BY SucceedTyped, FailTyped, GotoTyped DEF Past, Phases
  <1>2. FilesTyped' /\ Clocks' /\ Budgets'
    BY TypedIs, FilesSame, ClocksSame, BudgetsSame
  <1>3. Histories'
    BY TypedIs, HistoriesSame
  <1> QED
    BY <1>1, <1>2, <1>3, TypedNext

LEMMA StageTyped ==
    ASSUME Typed, NEW w \in Windows, Stage(w)
    PROVE  Typed'
  <1> DEFINE t == Home[w]
  <1>1. t \in Trees
    BY WindowTypes
  <1>2. CASE /\ staged' = [staged EXCEPT ![t] = work[t]]
             /\ win' = [win EXCEPT ![w].pc = "staged", ![w].file = work[t].files]
             /\ UNCHANGED spent
    <2>1. FilesTyped'
      BY <1>1, <1>2 DEF Stage, Typed, TypeOK, Finite, FilesTyped
    <2>2. WinTypes'
      <3> DEFINE q == [win[w] EXCEPT !.pc = "staged", !.file = work[t].files]
      <3>1. /\ win[w] \in Commands /\ win \in [Windows -> Commands]
            /\ work[t].files \in Nat
        BY <1>1, WindowTypes, RecordTypes DEF Typed, TypeOK
      <3>2. q \in Commands /\ q.snap = win[w].snap /\ q.rec = win[w].rec /\ q.mark = win[w].mark
        BY <3>1 DEF Commands, Phases, Recording
      <3>3. win' = [win EXCEPT ![w] = q]
        BY <1>2, <3>1 DEF Commands
      <3>4. IsFiniteSet(win[w].snap)
        BY WindowTypes
      <3> HIDE DEF q
      <3> QED
        BY <3>2, <3>3, <3>4, StepTyped DEF Stage
    <2> QED
      BY <2>1, <2>2, <1>2, QuietTyped DEF Stage
  <1>3. CASE Mishap /\ Fail(w) /\ UNCHANGED staged
    <2>1. FilesTyped'
      BY <1>3, TypedIs, FilesSame DEF Stage, files
    <2> QED
      BY <2>1, <1>3, FailTyped, QuietTyped DEF Stage
  <1> QED
    BY <1>2, <1>3 DEF Stage

\* What a commit leaves at HEAD.
LEMMA CommittedIs ==
    ASSUME Typed, NEW w \in Windows
    PROVE  LET t == Home[w]
               c == win[w]
               h == Committed(t, c)
           IN  /\ h \in Contents /\ IsFiniteSet(h.entries)
               /\ h.entries = {e \in work[t].entries : e.file <= c.file}
                                  \cup {e \in head[t].entries : e.file > c.file}
               /\ h.index = work[t].index
               /\ h.files \in Nat /\ h.files >= head[t].files /\ h.files >= c.file
  <1> DEFINE t == Home[w]
             c == win[w]
             h == Committed(t, c)
             A == {e \in work[t].entries : e.file <= c.file}
             B == {e \in head[t].entries : e.file > c.file}
             f == IF head[t].files > c.file THEN head[t].files ELSE c.file
  <1>1. t \in Trees /\ c.file \in Nat
    BY WindowTypes
  <1>2. h = [entries |-> A \cup B, files |-> f, index |-> work[t].index]
    BY DEF Committed
  <1>3. A \cup B \subseteq Entries /\ IsFiniteSet(A \cup B)
    <2>1. A \subseteq work[t].entries /\ B \subseteq head[t].entries
      OBVIOUS
    <2> HIDE DEF A, B
    <2>2. IsFiniteSet(A) /\ IsFiniteSet(B)
      BY <1>1, <2>1, RecordTypes, FS_Subset
    <2> QED
      BY <1>1, <2>1, <2>2, RecordTypes, FS_Union
  <1>4. f \in Nat /\ f >= head[t].files /\ f >= c.file
    BY <1>1, RecordTypes
  <1>5. work[t].index \in [made : BOOLEAN, total : Nat, rows : SUBSET Rows]
    BY <1>1, RecordTypes DEF Contents
  <1>6. h \in Contents
    <2> HIDE DEF A, B, f, h
    <2> QED
      BY <1>2, <1>3, <1>4, <1>5 DEF Contents
  <1> HIDE DEF h
  <1> QED
    BY <1>2, <1>3, <1>4, <1>6 DEF h

Swept(w, h, r) == {m \in SweptBy(w, h) : m.rec = r}

LEMMA SweptFinite ==
    ASSUME Typed, NEW w \in Windows, NEW r
    PROVE  LET S == Swept(w, Committed(Home[w], win[w]), r)
           IN  IsFiniteSet(S) /\ Cardinality(S) \in Nat
  <1> DEFINE h == Committed(Home[w], win[w])
             S == Swept(w, h, r)
  <1>1. S \subseteq Marks(h.entries)
    BY DEF Swept, SweptBy
  <1>2. IsFiniteSet(h.entries)
    BY CommittedIs
  <1> HIDE DEF h
  <1>3. IsFiniteSet(Marks(h.entries))
    BY <1>2, MarksFinite
  <1>4. IsFiniteSet(S)
    <2> HIDE DEF S
    <2> QED
      BY <1>1, <1>3, FS_Subset
  <1>5. Cardinality(S) \in Nat
    <2> HIDE DEF S
    <2> QED
      BY <1>4, FS_CardinalityType
  <1> QED
    BY <1>4, <1>5 DEF h

LEMMA CommitTyped ==
    ASSUME Typed, NEW w \in Windows, Commit(w)
    PROVE  Typed'
  <1> DEFINE t == Home[w]
             h == Committed(t, win[w])
  <1>1. t \in Trees
    BY WindowTypes
  <1>2. CASE /\ h # head[t]
             /\ head' = [head EXCEPT ![t] = h]
             /\ staged' = [staged EXCEPT ![t] = h]
             /\ Goto(w, "verify")
             /\ lost' = [lost EXCEPT ![t] = [r \in Records |->
                   @[r] + Cardinality({m \in SweptBy(w, h) : m.rec = r})]]
             /\ UNCHANGED spent
    <2>1. FilesTyped'
      <3>1. h \in Contents /\ IsFiniteSet(h.entries)
        BY CommittedIs
      <3> HIDE DEF h
      <3> QED
        BY <1>1, <1>2, <3>1 DEF Commit, Typed, TypeOK, Finite, FilesTyped
    <2>2. WinTypes'
      BY <1>2, GotoTyped DEF Commit, Phases
    <2>3. Histories'
      <3>1. Histories
        BY TypedIs
      <3>2. \A r \in Records : Cardinality(Swept(w, h, r)) \in Nat
        BY SweptFinite
      <3> DEFINE n == [r \in Records |-> Cardinality(Swept(w, h, r))]
                 l == [r \in Records |-> lost[t][r] + n[r]]
      <3>3. lost' = [lost EXCEPT ![t] = l]
        BY <1>1, <1>2, <3>1 DEF Swept, Histories
      <3>4. n \in [Records -> Nat]
        BY <3>2
      <3>5. l \in [Records -> Nat]
        <4> HIDE DEF n
        <4> QED
          BY <1>1, <3>1, <3>4 DEF Histories
      <3> HIDE DEF l
      <3>6. lost' \in [Trees -> [Records -> Nat]]
        BY <1>1, <3>1, <3>3, <3>5 DEF Histories
      <3> QED
        BY <3>1, <3>6 DEF Commit, Histories
    <2>4. Clocks' /\ Budgets'
      BY <1>2, TypedIs, ClocksSame, BudgetsSame DEF Commit
    <2> QED
      BY <2>1, <2>2, <2>3, <2>4, TypedNext
  <1>3. CASE Fail(w) /\ UNCHANGED <<head, staged, lost>> /\ (UNCHANGED spent \/ Mishap)
    <2>1. FilesTyped'
      BY <1>3, TypedIs, FilesSame DEF Commit, files
    <2>2. UNCHANGED ghosts
      BY <1>3 DEF Commit, ghosts
    <2> QED
      BY <2>1, <2>2, <1>3, FailTyped, QuietTyped DEF Commit
  <1> QED
    BY <1>2, <1>3 DEF Commit

LEMMA KillTyped ==
    ASSUME Typed, NEW w \in Windows, Kill(w)
    PROVE  Typed'
  <1>1. WinTypes'
    BY FailTyped DEF Kill
  <1>2. FilesTyped' /\ Clocks' /\ Budgets'
    BY TypedIs, FilesSame, ClocksSame, BudgetsSame DEF Kill
  <1>3. Histories'
    <2>1. Histories /\ Home[w] \in Trees /\ win[w].rec \in Records
      BY TypedIs, WindowTypes DEF Kill
    <2>2. lost' \in [Trees -> [Records -> Nat]]
      BY <2>1 DEF Kill, Histories
    <2> QED
      BY <2>1, <2>2 DEF Kill, Histories
  <1> QED
    BY <1>1, <1>2, <1>3, TypedNext

LEMMA DriftTyped ==
    ASSUME Typed, NextDay \/ \E t \in Trees : ChangeContext(t)
    PROVE  Typed'
  <1>1. CASE NextDay
    <2>1. FilesTyped' /\ WinTypes' /\ Histories'
      BY <1>1, TypedIs DEF NextDay, FilesTyped, WinTypes, Histories, files, ghosts
    <2>2. Clocks' /\ Budgets'
      BY <1>1, TypedIs DEF NextDay, Clocks, Budgets, Drift
    <2> QED
      BY <2>1, <2>2, TypedNext
  <1>2. ASSUME NEW t \in Trees, ChangeContext(t)
        PROVE  Typed'
    <2>1. FilesTyped' /\ WinTypes'
      BY <1>2, TypedIs DEF ChangeContext, FilesTyped, WinTypes, files
    <2>2. Clocks' /\ Budgets'
      BY <1>2, TypedIs DEF ChangeContext, Clocks, Budgets, Drift
    <2>3. Histories'
      <3>1. Histories
        BY TypedIs
      <3>2. lost' \in [Trees -> [Records -> Nat]]
        BY <1>2, <3>1 DEF ChangeContext, Histories
      <3> QED
        BY <1>2, <3>1, <3>2 DEF ChangeContext, Histories
    <2> QED
      BY <2>1, <2>2, <2>3, TypedNext
  <1> QED
    BY <1>1, <1>2

\* What a merge leaves in a checkout.
LEMMA MergedIs ==
    ASSUME Typed, NEW t \in Trees, NEW u \in Trees
    PROVE  LET s == MergedEntries(head[t], head[u])
           IN  /\ s \subseteq Entries /\ IsFiniteSet(s)
               /\ \A f \in Nat : LET b == Bottom(InFile(head[t].entries, f))
                                 IN  /\ b \in Nat
                                     /\ \A e \in head[t].entries : e.file = f => e.at <= b
               /\ MaxOf({head[t].files, head[u].files}) \in Nat
               /\ MaxOf({head[t].files, head[u].files}) >= head[t].files
               /\ MaxOf({head[t].files, head[u].files}) >= head[u].files
  <1> DEFINE a == head[t].entries
             new == {x \in head[u].entries : x.mark \notin Marks(a)}
             Moved(e) == [e EXCEPT !.at = @ + Bottom(InFile(a, e.file))]
             s == MergedEntries(head[t], head[u])
  <1>1. \A f \in Nat : LET b == Bottom(InFile(a, f))
                       IN  b \in Nat /\ \A e \in a : e.file = f => e.at <= b
    <2> SUFFICES ASSUME NEW f \in Nat
                 PROVE  LET b == Bottom(InFile(a, f))
                        IN  b \in Nat /\ \A e \in a : e.file = f => e.at <= b
      OBVIOUS
    <2> DEFINE I == InFile(a, f)
               A == {e.at : e \in I}
               b == Bottom(I)
    <2>1. I \subseteq a
      BY DEF InFile
    <2>2. IsFiniteSet(I)
      <3> HIDE DEF I
      <3> QED
        BY <2>1, RecordTypes, FS_Subset
    <2>3. A \subseteq Nat /\ IsFiniteSet(A)
      <3> HIDE DEF I
      <3>1. A \subseteq Nat
        BY <2>1, RecordTypes
      <3> QED
        BY <2>2, <3>1, MarksFinite
    <2>4. b = MaxOf(A) /\ \A e \in a : e.file = f => e.at \in A
      BY DEF Bottom, InFile
    <2> HIDE DEF A, b
    <2>5. MaxOf(A) \in A \cup {0} /\ \A k \in A : k <= MaxOf(A)
      BY <2>3, MaxOfIs
    <2>6. 0 \in Nat
      OBVIOUS
    <2>7. b \in Nat
      BY <2>3, <2>4, <2>5, <2>6
    <2> QED
      BY <2>4, <2>5, <2>7 DEF b
  <1>2. \A e \in new : Moved(e) \in Entries
    <2> SUFFICES ASSUME NEW e \in new
                 PROVE  Moved(e) \in Entries
      OBVIOUS
    <2> DEFINE b == Bottom(InFile(a, e.file))
    <2>1. e \in Entries
      BY RecordTypes
    <2>2. b \in Nat
      BY <1>1, <2>1, RecordTypes
    <2> HIDE DEF b
    <2>3. e.at \in Nat /\ e.at >= 1
      BY <2>1, RecordTypes
    <2>4. e.at + b \in Nat \ {0}
      BY <2>2, <2>3
    <2>5. Moved(e) = [e EXCEPT !.at = e.at + b]
      BY <2>1 DEF b, Entries
    <2> HIDE DEF Moved
    <2> QED
      BY <2>1, <2>4, <2>5 DEF Entries
  <1>3. s = a \cup {Moved(e) : e \in new}
    BY DEF MergedEntries
  <1>4. IsFiniteSet({Moved(e) : e \in new})
    <2> DEFINE f == [e \in new |-> Moved(e)]
               T == {Moved(e) : e \in new}
    <2>1. T = {f[x] : x \in new} /\ DOMAIN f = new /\ f = [x \in new |-> f[x]]
      OBVIOUS
    <2>2. new \subseteq head[u].entries
      OBVIOUS
    <2> HIDE DEF f, T, new
    <2>3. IsFiniteSet(new)
      BY <2>2, RecordTypes, FS_Subset
    <2>4. IsFiniteSet(T)
      BY <2>1, <2>3, ImageOf
    <2> QED
      BY <2>4 DEF T
  <1>5. s \subseteq Entries /\ IsFiniteSet(s)
    <2> DEFINE M == {Moved(e) : e \in new}
    <2>1. M \subseteq Entries
      <3> HIDE DEF Moved, new
      <3> QED
        BY <1>2
    <2>2. IsFiniteSet(a \cup M)
      <3>1. IsFiniteSet(a)
        BY RecordTypes
      <3> HIDE DEF M
      <3> QED
        BY <1>4, <3>1, FS_Union DEF M
    <2>3. s = a \cup M
      BY <1>3
    <2> HIDE DEF s, M
    <2> QED
      BY <2>1, <2>2, <2>3, RecordTypes
  <1>6. LET P == {head[t].files, head[u].files}
        IN  MaxOf(P) \in Nat /\ \A k \in P : k <= MaxOf(P)
    <2> DEFINE P == {head[t].files, head[u].files}
    <2>1. P \subseteq Nat
      BY RecordTypes
    <2>2. IsFiniteSet(P)
      <3>1. P = {head[t].files} \cup {head[u].files}
        OBVIOUS
      <3> HIDE DEF P
      <3>2. IsFiniteSet({head[t].files})
        BY FS_Singleton
      <3> QED
        BY <3>1, <3>2, FS_AddElement
    <2> HIDE DEF P
    <2>3. MaxOf(P) \in P \cup {0} /\ \A k \in P : k <= MaxOf(P)
      BY <2>1, <2>2, MaxOfIs
    <2>4. 0 \in Nat
      OBVIOUS
    <2>5. MaxOf(P) \in Nat
      BY <2>1, <2>3, <2>4
    <2> QED
      BY <2>3, <2>5 DEF P
  <1>7. /\ MaxOf({head[t].files, head[u].files}) \in Nat
        /\ MaxOf({head[t].files, head[u].files}) >= head[t].files
        /\ MaxOf({head[t].files, head[u].files}) >= head[u].files
    BY <1>6, RecordTypes
  <1> HIDE DEF s
  <1> QED
    BY <1>1, <1>5, <1>7 DEF s

LEMMA MergeTyped ==
    ASSUME Typed, NEW t \in Trees, NEW u \in Trees, Merge(t, u)
    PROVE  Typed'
  <1> DEFINE s == IF Covers(head[u], head[t]) THEN head[u].entries
                  ELSE MergedEntries(head[t], head[u])
             f == MaxOf({head[t].files, head[u].files})
  <1>1. PICK x \in {head[t].index, head[u].index} :
             LET h == [entries |-> s, files |-> f, index |-> x]
             IN  /\ head' = [head EXCEPT ![t] = h]
                 /\ work' = [work EXCEPT ![t] = h]
                 /\ staged' = [staged EXCEPT ![t] = h]
    BY DEF Merge
  <1> DEFINE h == [entries |-> s, files |-> f, index |-> x]
  <1>2. s \subseteq Entries /\ IsFiniteSet(s) /\ f \in Nat
    <2>1. f \in Nat /\ IsFiniteSet(MergedEntries(head[t], head[u]))
          /\ MergedEntries(head[t], head[u]) \subseteq Entries
      BY MergedIs
    <2> HIDE DEF f
    <2> QED
      BY <2>1, RecordTypes
  <1>3. x \in [made : BOOLEAN, total : Nat, rows : SUBSET Rows]
    BY RecordTypes DEF Contents
  <1>4. h \in Contents /\ h.entries = s
    <2> HIDE DEF s, f
    <2> QED
      BY <1>2, <1>3 DEF Contents
  <1>5. FilesTyped'
    <2> HIDE DEF h, s
    <2> QED
      BY <1>1, <1>2, <1>4 DEF h, Typed, TypeOK, Finite, FilesTyped
  <1>6. WinTypes' /\ Clocks'
    BY TypedIs DEF Merge, WinTypes, Clocks, drift
  <1>7. Budgets' /\ Histories'
    <2>1. Budgets'
      BY TypedIs DEF Merge, Budgets
    <2>2. raced' \in [Trees -> BOOLEAN]
      <3>1. raced \in [Trees -> BOOLEAN]
        BY DEF Typed, TypeOK
      <3>2. raced' = [raced EXCEPT ![t] = raced[t] \/ raced[u]]
        BY <3>1 DEF Merge
      <3>3. (raced[t] \/ raced[u]) \in BOOLEAN
        OBVIOUS
      <3> QED
        BY <3>1, <3>2, <3>3
    <2>3. Histories'
      BY <2>2, TypedIs DEF Merge, Histories
    <2> QED
      BY <2>1, <2>3
  <1> QED
    BY <1>5, <1>6, <1>7, TypedNext

LEMMA InitTyped == Init => Typed
  <1> SUFFICES ASSUME Init
               PROVE  Typed
    OBVIOUS
  <1>1. NoFiles \in Contents /\ IsFiniteSet(NoFiles.entries)
    BY FS_EmptySet DEF NoFiles, NoIndex, Contents
  <1>2. [NoFiles EXCEPT !.files = 1, !.index = NewIndex] \in Contents
        /\ [NoFiles EXCEPT !.files = 1, !.index = NewIndex].entries = {}
    BY DEF NoFiles, NoIndex, NewIndex, Contents
  <1>3. head \in [Trees -> Contents] /\ \A t \in Trees : IsFiniteSet(head[t].entries)
    <2> DEFINE c == [NoFiles EXCEPT !.files = 1, !.index = NewIndex]
    <2>1. head = [t \in Trees |-> IF t \in Fresh THEN NoFiles ELSE c]
      BY DEF Init
    <2> HIDE DEF c
    <2> QED
      BY <1>1, <1>2, <2>1, FS_EmptySet DEF c
  <1>4. work \in [Trees -> Contents] /\ \A t \in Trees : IsFiniteSet(work[t].entries)
    <2> DEFINE Old(t) == {Entry(1, Mark(t, r, 1, 0, 1), 1, 1) :
                              r \in {q \in Records : <<t, q>> \in Legacy}}
               c(t) == [entries |-> Old(t), files |-> 1, index |-> NewIndex]
    <2>1. work = [t \in Trees |-> IF t \in Fresh THEN NoFiles ELSE c(t)]
      BY DEF Init
    <2>2. ASSUME NEW t \in Trees
          PROVE  Old(t) \subseteq Entries /\ IsFiniteSet(Old(t))
      <3>1. Old(t) \subseteq Entries
        <4> SUFFICES ASSUME NEW r \in Records
                     PROVE  Entry(1, Mark(t, r, 1, 0, 1), 1, 1) \in Entries
          OBVIOUS
        <4>1. Mark(t, r, 1, 0, 1) \in Markers
          BY DEF Mark, Markers
        <4> QED
          BY <4>1 DEF Entry, Entries
      <3>2. \A r, q \in Records : <<t, r>> \in Legacy /\ <<t, q>> \in Legacy => r = q
        BY JournalAssumption DEF JournalAssumption
      <3>3. \A d, e \in Old(t) : d = e
        BY <3>2
      <3>4. Old(t) = {} \/ \E e : Old(t) = {e}
        <4> HIDE DEF Old
        <4> QED
          BY <3>3
      <3>5. IsFiniteSet(Old(t))
        <4> HIDE DEF Old
        <4> QED
          BY <3>4, FS_EmptySet, FS_Singleton
      <3> QED
        BY <3>1, <3>5
    <2>3. ASSUME NEW t \in Trees
          PROVE  c(t) \in Contents /\ c(t).entries = Old(t)
      <3> HIDE DEF Old
      <3> QED
        BY <2>2 DEF Contents, NewIndex
    <2> HIDE DEF c, Old
    <2> QED
      BY <1>1, <2>1, <2>2, <2>3
  <1>5. FilesTyped
    BY <1>3, <1>4 DEF Init, FilesTyped
  <1>6. WinTypes
    <2>1. IdleWin \in Commands /\ IsFiniteSet(IdleWin.snap) /\ Bound(IdleWin)
      BY FS_EmptySet DEF IdleWin, Commands, Phases, Bound
    <2> QED
      BY <2>1 DEF Init, WinTypes
  <1>7. Clocks /\ Budgets
    BY DEF Init, Clocks, Budgets
  <1>8. Histories
    BY DEF Init, Histories
  <1> QED
    BY <1>5, <1>6, <1>7, <1>8, TypedIs

LEMMA StepsTyped ==
    ASSUME Typed, Next
    PROVE  Typed'
  <1>1. ASSUME NEW w \in Windows, Command(w) \/ Kill(w)
        PROVE  Typed'
    <2>1. ASSUME NEW r \in Sessions[w], NEW auto \in {TRUE} \cup {w \notin Manual},
                 Begin(w, r, auto)
          PROVE  Typed'
      BY <2>1, BeginTyped
    <2>2. CASE Preflight(w)
      BY <2>2, PreflightTyped
    <2>3. CASE ClassifyRecord(w)
      BY <2>3, ClassifyTyped
    <2>4. CASE Rotate(w) \/ ReadJournal(w) \/ AppendEntry(w)
      BY <2>4, RotateTyped, ReadJournalTyped, AppendEntryTyped
    <2>5. CASE ReadIndex(w) \/ UpdateIndex(w)
      BY <2>5, ReadIndexTyped, UpdateIndexTyped
    <2>6. CASE SkipCommit(w)
      BY <2>6, EndTyped DEF SkipCommit
    <2>7. CASE Stage(w)
      BY <2>7, StageTyped
    <2>8. CASE CheckStaged(w)
      BY <2>8, EndTyped DEF CheckStaged, Past
    <2>9. CASE Commit(w)
      BY <2>9, CommitTyped
    <2>10. CASE Verify(w)
      BY <2>10, EndTyped DEF Verify
    <2>11. CASE Kill(w)
      BY <2>11, KillTyped
    <2> QED
      BY <1>1, <2>1, <2>2, <2>3, <2>4, <2>5, <2>6, <2>7, <2>8, <2>9, <2>10, <2>11 DEF Command
  <1>2. ASSUME NEW t \in Trees, InitDeveloper(t) \/ ChangeContext(t)
        PROVE  Typed'
    BY <1>2, InitDeveloperTyped, DriftTyped
  <1>3. ASSUME NEW t \in Trees, NEW u \in Trees, Merge(t, u)
        PROVE  Typed'
    BY <1>3, MergeTyped
  <1>4. CASE NextDay
    BY <1>4, DriftTyped
  <1> QED
    BY <1>1, <1>2, <1>3, <1>4 DEF Next

LEMMA StutterTyped ==
    ASSUME Typed, UNCHANGED vars
    PROVE  Typed'
  BY DEF Typed, TypeOK, Finite, Named, vars

(* Journals, indexes, markers and the commands' notes keep their shape,    *)
(* whoever writes what over whatever.                                      *)
THEOREM TypeCorrect == Spec => []TypeOK
  <1>1. Typed /\ [Next]_vars => Typed'
    BY StepsTyped, StutterTyped
  <1>2. Typed => TypeOK
    BY DEF Typed
  <1> QED
    BY <1>1, <1>2, InitTyped, PTL DEF Spec

-----------------------------------------------------------------------------
(* The steps.                                                              *)

Journals == Kept /\ Generations /\ Copies /\ Ordered /\ Prefixes
IInv == Typed /\ FilesOK /\ Solo /\ Journals /\ IndexOK /\ AtWork

Rotated(w) == /\ Rotate(w)
              /\ work' = [work EXCEPT ![Home[w]].files =
                             IF @ > win[w].file + 1 THEN @ ELSE win[w].file + 1,
                          ![Home[w]].entries = OutOfFile(@, win[w].file + 1)]
              /\ win' = [win EXCEPT ![w].pc = "read", ![w].file = win[w].file + 1]
Adds(w) == /\ AppendEntry(w)
           /\ work' = [work EXCEPT ![Home[w]].entries = Appended(@, win[w])]
           /\ win' = [win EXCEPT ![w].pc = "index", ![w].snap = {}]
Indexes(w) == /\ UpdateIndex(w)
              /\ work' = [work EXCEPT ![Home[w]].index = UpdatedIndex(win[w])]
              /\ win' = [win EXCEPT ![w].pc = "recorded", ![w].rows = {}]
Commits(w) == /\ Commit(w)
              /\ head' = [head EXCEPT ![Home[w]] = Committed(Home[w], win[w])]
              /\ win' = [win EXCEPT ![w].pc = "verify"]
              /\ lost' = [lost EXCEPT ![Home[w]] = [r \in Records |->
                    @[r] + Cardinality({m \in SweptBy(w, Committed(Home[w], win[w])) :
                                            m.rec = r})]]

\* Every step leaves the files alone or is one of these.
LEMMA CommandFiles ==
    ASSUME Typed, NEW w \in Windows, Command(w) \/ Kill(w)
    PROVE  \/ UNCHANGED <<work, head>>
           \/ Rotated(w) \/ Adds(w) \/ Indexes(w) \/ Commits(w)
  <1>1. ASSUME NEW r \in Sessions[w], NEW auto \in {TRUE} \cup {w \notin Manual},
               Begin(w, r, auto)
        PROVE  UNCHANGED <<work, head>>
    BY <1>1 DEF Begin, files
  <1>2. CASE Preflight(w) \/ ClassifyRecord(w) \/ ReadJournal(w) \/ ReadIndex(w)
             \/ SkipCommit(w) \/ Stage(w) \/ CheckStaged(w) \/ Verify(w) \/ Kill(w)
    BY <1>2 DEF Preflight, ClassifyRecord, ReadJournal, ReadIndex, SkipCommit, Stage,
                CheckStaged, Verify, Kill, files
  <1>3. CASE Rotate(w)
    BY <1>3 DEF Rotate, Rotated
  <1>4. CASE AppendEntry(w)
    BY <1>4 DEF AppendEntry, Adds
  <1>5. CASE UpdateIndex(w)
    BY <1>5 DEF UpdateIndex, Indexes
  <1>6. CASE Commit(w)
    BY <1>6 DEF Commit, Commits, Goto
  <1> QED
    BY <1>1, <1>2, <1>3, <1>4, <1>5, <1>6 DEF Command

LEMMA FileSteps ==
    ASSUME Typed, Next
    PROVE  \/ UNCHANGED <<work, head>>
           \/ \E t \in Trees : InitDeveloper(t)
           \/ \E w \in Windows : Rotated(w) \/ Adds(w) \/ Indexes(w) \/ Commits(w)
           \/ \E t, u \in Trees : Merge(t, u)
  <1>1. ASSUME NEW w \in Windows, Command(w) \/ Kill(w)
        PROVE  \/ UNCHANGED <<work, head>>
               \/ Rotated(w) \/ Adds(w) \/ Indexes(w) \/ Commits(w)
    BY <1>1, CommandFiles
  <1>2. ASSUME NextDay \/ \E t \in Trees : ChangeContext(t)
        PROVE  UNCHANGED <<work, head>>
    BY <1>2 DEF NextDay, ChangeContext, files
  <1> QED
    BY <1>1, <1>2 DEF Next

\* The steps of a window.
Edges == {<<"rotate", "read">>, <<"read", "append">>, <<"append", "index">>,
          <<"index", "row">>, <<"row", "recorded">>, <<"recorded", "staged">>,
          <<"staged", "commit">>, <<"commit", "verify">>}

Same(w) == /\ win'[w].rec = win[w].rec /\ win'[w].mark = win[w].mark
           /\ win'[w].num = win[w].num

LEMMA WindowSteps ==
    ASSUME Typed, NEW w \in Windows, Command(w) \/ Kill(w)
    PROVE  /\ \A v \in Windows \ {w} : win'[v] = win[v]
           /\ \/ win'[w] = IdleWin
              \/ /\ win[w].pc = "idle" /\ win'[w].pc = "preflight"
                 /\ \E r \in Records, auto \in BOOLEAN : Begin(w, r, auto) /\ win'[w].rec = r
              \/ /\ win[w].pc = "preflight" /\ win'[w].pc = "classify"
                 /\ win'[w].rec = win[w].rec /\ Preflight(w)
              \/ ClassifyRecord(w) /\ win[w].pc = "classify"
              \/ <<win[w].pc, win'[w].pc>> \in Edges /\ Same(w)
  <1>1. win \in [Windows -> Commands] /\ win[w] \in Commands
    BY WindowTypes DEF Typed, TypeOK
  <1>2. ASSUME NEW r \in Sessions[w], NEW auto \in {TRUE} \cup {w \notin Manual},
               Begin(w, r, auto)
        PROVE  /\ \A v \in Windows \ {w} : win'[v] = win[v]
               /\ win[w].pc = "idle" /\ win'[w].pc = "preflight"
               /\ win'[w].rec = r /\ r \in Records /\ auto \in BOOLEAN
    BY <1>1, <1>2, JournalAssumption DEF JournalAssumption, Begin, IdleWin
  <1>3. CASE Preflight(w)
    BY <1>1, <1>3 DEF Preflight, Goto, Fail, Commands
  <1>4. CASE ClassifyRecord(w)
    <2>1. \A v \in Windows \ {w} : win'[v] = win[v]
      BY <1>1, <1>4 DEF ClassifyRecord, Fail, Succeed, Commands
    <2> QED
      BY <1>4, <2>1 DEF ClassifyRecord
  <1>5. CASE Rotate(w)
    BY <1>1, <1>5 DEF Rotate, Fail, Commands, Edges, Same
  <1>6. CASE ReadJournal(w)
    BY <1>1, <1>6 DEF ReadJournal, Commands, Edges, Same
  <1>7. CASE AppendEntry(w)
    BY <1>1, <1>7 DEF AppendEntry, Fail, Commands, Edges, Same
  <1>8. CASE ReadIndex(w)
    BY <1>1, <1>8 DEF ReadIndex, Fail, Commands, Edges, Same
  <1>9. CASE UpdateIndex(w)
    BY <1>1, <1>9 DEF UpdateIndex, Fail, Commands, Edges, Same
  <1>10. CASE SkipCommit(w)
    BY <1>1, <1>10 DEF SkipCommit, Succeed
  <1>11. CASE Stage(w)
    BY <1>1, <1>11 DEF Stage, Fail, Commands, Edges, Same
  <1>12. CASE CheckStaged(w)
    BY <1>1, <1>12 DEF CheckStaged, Succeed, Goto, Commands, Edges, Same
  <1>13. CASE Commit(w)
    BY <1>1, <1>13 DEF Commit, Fail, Goto, Commands, Edges, Same
  <1>14. CASE Verify(w) \/ Kill(w)
    BY <1>1, <1>14 DEF Verify, Kill, Fail, Succeed
  <1> QED
    BY <1>2, <1>3, <1>4, <1>5, <1>6, <1>7, <1>8, <1>9, <1>10, <1>11, <1>12, <1>13, <1>14
       DEF Command

\* The environment leaves the windows alone, and so do they the others.
LEMMA StepOf ==
    ASSUME Typed, Next
    PROVE  \/ win' = win /\ \/ \E t \in Trees : InitDeveloper(t) \/ ChangeContext(t)
                            \/ \E t, u \in Trees : Merge(t, u)
                            \/ NextDay
           \/ \E w \in Windows : Command(w) \/ Kill(w)
  BY DEF Next, InitDeveloper, ChangeContext, Merge, NextDay

\* What a command of window w leaves alone.
LEMMA CommandLeaves ==
    ASSUME Typed, NEW w \in Windows, Command(w) \/ Kill(w)
    PROVE  /\ UNCHANGED context
           /\ \A t \in Trees \ {Home[w]} :
                 /\ work'[t] = work[t] /\ head'[t] = head[t]
                 /\ open'[t] = open[t] /\ asked'[t] = asked[t] /\ lost'[t] = lost[t]
                 /\ raced'[t] = raced[t]
           /\ raced[Home[w]] => raced'[Home[w]]
           /\ ~Preflight(w) => raced' = raced
  <1>1. /\ Home[w] \in Trees /\ raced \in [Trees -> BOOLEAN] /\ lost \in [Trees -> [Records -> Nat]]
        /\ open \in [Trees -> SUBSET Records] /\ asked \in [Trees -> [Records -> Nat]]
        /\ work \in [Trees -> Contents] /\ head \in [Trees -> Contents]
    BY WindowTypes DEF Typed, TypeOK
  <1>2. ASSUME NEW r \in Sessions[w], NEW auto \in {TRUE} \cup {w \notin Manual},
               Begin(w, r, auto)
        PROVE  /\ UNCHANGED <<context, work, head, lost, raced>>
               /\ \A t \in Trees \ {Home[w]} : open'[t] = open[t] /\ asked'[t] = asked[t]
    BY <1>1, <1>2 DEF Begin, files, drift
  <1>3. CASE Preflight(w)
    <2>1. UNCHANGED <<context, work, head, open, asked, lost>>
      BY <1>3 DEF Preflight, files, drift
    <2>2. raced' = raced \/ \E b \in BOOLEAN : raced' = [raced EXCEPT ![Home[w]] = raced[Home[w]] \/ b]
      <3> DEFINE b == \E v \in Windows : Home[v] = Home[w] /\ win[v].pc \in Recording
      <3>1. raced' = raced \/ raced' = [raced EXCEPT ![Home[w]] = raced[Home[w]] \/ b]
        BY <1>1, <1>3 DEF Preflight
      <3>2. b \in BOOLEAN
        OBVIOUS
      <3> HIDE DEF b
      <3> QED
        BY <3>1, <3>2
    <2>3. /\ \A t \in Trees \ {Home[w]} : raced'[t] = raced[t]
          /\ raced[Home[w]] => raced'[Home[w]]
      BY <1>1, <2>2
    <2> QED
      BY <1>3, <2>1, <2>3
  <1>4. CASE ClassifyRecord(w) \/ SkipCommit(w) \/ CheckStaged(w) \/ Verify(w)
    <2>1. UNCHANGED <<context, work, head, asked, lost, raced>>
      BY <1>4 DEF ClassifyRecord, SkipCommit, CheckStaged, Verify, files, drift
    <2>2. \A t \in Trees \ {Home[w]} : open'[t] = open[t]
      BY <1>1, <1>4 DEF ClassifyRecord, SkipCommit, CheckStaged, Verify, Succeed, Fail
    <2> QED
      BY <2>1, <2>2
  <1>5. CASE Rotate(w) \/ AppendEntry(w) \/ UpdateIndex(w)
    <2>1. UNCHANGED <<context, head, ghosts>>
      BY <1>5 DEF Rotate, AppendEntry, UpdateIndex, drift
    <2>2. \A t \in Trees \ {Home[w]} : work'[t] = work[t]
      BY <1>1, <1>5 DEF Rotate, AppendEntry, UpdateIndex
    <2> QED
      BY <2>1, <2>2 DEF ghosts
  <1>6. CASE ReadJournal(w) \/ ReadIndex(w) \/ Stage(w)
    BY <1>6 DEF ReadJournal, ReadIndex, Stage, files, drift, ghosts
  <1>7. CASE Commit(w)
    <2>1. UNCHANGED <<context, work, open, asked, raced>>
      BY <1>7 DEF Commit, drift
    <2>2. \A t \in Trees \ {Home[w]} : head'[t] = head[t] /\ lost'[t] = lost[t]
      BY <1>1, <1>7 DEF Commit
    <2> QED
      BY <2>1, <2>2
  <1>8. CASE Kill(w)
    <2>1. UNCHANGED <<context, work, head, open, asked, raced>>
      BY <1>8 DEF Kill, files, drift
    <2>2. \A t \in Trees \ {Home[w]} : lost'[t] = lost[t]
      BY <1>1, <1>8 DEF Kill
    <2> QED
      BY <2>1, <2>2
  <1>9. ASSUME NEW r \in Sessions[w], NEW auto \in {TRUE} \cup {w \notin Manual}, Begin(w, r, auto)
        PROVE  \A t \in Trees \ {Home[w]} : raced'[t] = raced[t]
    BY <1>2, <1>9
  <1> QED
    BY <1>2, <1>3, <1>4, <1>5, <1>6, <1>7, <1>8 DEF Command, ghosts, Preflight, Begin

LEMMA CalmShrinks ==
    ASSUME Typed, Next
    PROVE  /\ Calm' \subseteq Calm
           /\ \A t, u \in Trees : Merge(t, u) /\ t \in Calm' => u \in Calm
  <1>1. ASSUME NEW w \in Windows, Command(w) \/ Kill(w), NEW t \in Trees, raced[t]
        PROVE  raced'[t]
    BY <1>1, CommandLeaves, WindowTypes
  <1>2. ASSUME NEW t \in Trees, NEW u \in Trees, Merge(t, u)
        PROVE  /\ \A x \in Trees : raced[x] => raced'[x]
               /\ raced[u] => raced'[t]
    <2>1. raced \in [Trees -> BOOLEAN]
      BY DEF Typed, TypeOK
    <2>2. raced' = [raced EXCEPT ![t] = raced[t] \/ raced[u]]
      BY <1>2, <2>1 DEF Merge
    <2> QED
      BY <2>1, <2>2
  <1>3. ASSUME NextDay \/ \E t \in Trees : InitDeveloper(t) \/ ChangeContext(t)
        PROVE  raced' = raced
    BY <1>3 DEF NextDay, InitDeveloper, ChangeContext, ghosts
  <1>4. \A t \in Trees : raced[t] => raced'[t]
    BY <1>1, <1>2, <1>3 DEF Next
  <1> QED
    BY <1>2, <1>4 DEF Calm

-----------------------------------------------------------------------------
(* What a step does to the journals of a calm checkout.                    *)

Still(t) == work'[t].entries = work[t].entries /\ head'[t].entries = head[t].entries

\* Rotation opens a file that nobody has written to.
LEMMA RotateKeeps ==
    ASSUME IInv, NEW w \in Windows, Rotated(w), Home[w] \in Calm
    PROVE  /\ work' = [work EXCEPT ![Home[w]] =
                          [work[Home[w]] EXCEPT !.files = work[Home[w]].files + 1]]
           /\ win[w].file = work[Home[w]].files /\ UNCHANGED head
  <1> DEFINE t == Home[w]
             f == win[w].file + 1
  <1>1. t \in Trees /\ work \in [Trees -> Contents] /\ work[t] \in Contents
    BY WindowTypes, RecordTypes DEF IInv, Typed, TypeOK
  <1>2. win[w].file = work[t].files /\ work[t].files \in Nat
    BY <1>1, RecordTypes DEF IInv, AtWork, Steady, Ready, Rotated, Rotate
  <1>3. OutOfFile(work[t].entries, f) = work[t].entries
    <2>1. \A e \in work[t].entries : e.file <= work[t].files /\ e.file \in Nat
      BY <1>1, RecordTypes DEF IInv, FilesOK, FilesAt
    <2> QED
      BY <1>2, <2>1 DEF OutOfFile
  <1>4. work' = [work EXCEPT ![t].files = IF @ > f THEN @ ELSE f,
                             ![t].entries = OutOfFile(@, f)]
    BY DEF Rotated
  <1>5. ~(work[t].files > f) /\ f = work[t].files + 1
    BY <1>2
  <1> HIDE DEF f
  <1>6. work' = [work EXCEPT ![t] = [work[t] EXCEPT !.files = f, !.entries = work[t].entries]]
    BY <1>1, <1>3, <1>4, <1>5
  <1>7. [work[t] EXCEPT !.files = f, !.entries = work[t].entries] = [work[t] EXCEPT !.files = f]
    BY <1>1 DEF Contents
  <1> QED
    BY <1>2, <1>5, <1>6, <1>7 DEF Rotated, Rotate

\* An entry is added behind all others, with a greater number.
LEMMA AppendAdds ==
    ASSUME IInv, NEW w \in Windows, Adds(w), Home[w] \in Calm
    PROVE  LET t == Home[w]
               q == win[w]
               e == Entry(q.num, q.mark, q.file, Bottom(q.snap) + 1)
           IN  /\ work'[t] = [work[t] EXCEPT !.entries = work[t].entries \cup {e}]
               /\ e \in Entries /\ e.mark = q.mark /\ e.num = q.num /\ e.file = work[t].files
               /\ UNCHANGED head
               /\ \A d \in work[t].entries : InOrder(d, e) /\ d.mark # e.mark
               /\ Ready(w) /\ q.pc = "append" /\ q.mark \in Markers
  <1> DEFINE t == Home[w]
             q == win[w]
             b == Bottom(q.snap)
             e == Entry(q.num, q.mark, q.file, b + 1)
  <1>1. /\ t \in Trees /\ t \in Calm /\ work \in [Trees -> Contents] /\ work[t] \in Contents
        /\ q.pc = "append" /\ q.mark \in Markers
    BY WindowTypes, RecordTypes DEF IInv, Typed, TypeOK, Adds, AppendEntry
  <1>2. Ready(w) /\ q.snap = InFile(work[t].entries, q.file) /\ q.file = work[t].files
    BY <1>1 DEF IInv, AtWork, Steady, Ready
  <1>3. /\ Appended(work[t].entries, q) = OutOfFile(work[t].entries, q.file) \cup q.snap \cup {e}
        /\ b \in Nat /\ (\A x \in q.snap : x.at <= b)
        /\ e \in Entries
    BY <1>1, AppendedIs DEF IInv
  <1>4. Appended(work[t].entries, q) = work[t].entries \cup {e}
    <2> HIDE DEF e
    <2> QED
      BY <1>2, <1>3 DEF InFile, OutOfFile
  <1>5. work'[t] = [work[t] EXCEPT !.entries = work[t].entries \cup {e}] /\ UNCHANGED head
    <2>1. work' = [work EXCEPT ![t].entries = Appended(@, win[w])] /\ UNCHANGED head
      BY DEF Adds, AppendEntry
    <2> HIDE DEF e
    <2> QED
      BY <1>1, <1>4, <2>1
  <1>6. e.mark = q.mark /\ e.num = q.num /\ e.file = q.file /\ e.at = b + 1
    BY DEF Entry
  <1>7. ASSUME NEW d \in work[t].entries
        PROVE  InOrder(d, e) /\ d.mark # e.mark
    <2>1. d.num < q.num /\ d.file <= q.file /\ d.file \in Nat /\ d.at \in Nat /\ d.mark # q.mark
      BY <1>1, <1>2, RecordTypes DEF IInv, FilesOK, FilesAt, Ready, Marks
    <2>2. d.file = q.file => d.at < b + 1
      BY <1>2, <1>3, <2>1 DEF InFile
    <2>3. q.file \in Nat
      BY <1>1, <1>2, RecordTypes DEF IInv
    <2> HIDE DEF e
    <2> QED
      BY <1>6, <2>1, <2>2, <2>3 DEF InOrder, Before
  <1> HIDE DEF e, b
  <1> QED
    BY <1>1, <1>2, <1>3, <1>5, <1>6, <1>7 DEF b, e

\* A commit takes pending entries of the journal, and drops nothing.
LEMMA CommitKeeps ==
    ASSUME IInv, NEW w \in Windows, Commits(w), Home[w] \in Calm
    PROVE  LET t == Home[w]
           IN  /\ UNCHANGED work
               /\ head'[t] = Committed(t, win[w])
               /\ head[t].entries \subseteq head'[t].entries
               /\ head'[t].entries \subseteq work[t].entries
               /\ \A e \in work[t].entries : e \in head'[t].entries <=>
                     e.file <= win[w].file \/ e \in head[t].entries
               /\ head'[t].index = work[t].index
  <1> DEFINE t == Home[w]
             h == Committed(t, win[w])
  <1>1. t \in Trees /\ head \in [Trees -> Contents] /\ win[w].file \in Nat
    BY WindowTypes DEF IInv, Typed, TypeOK
  <1>2. UNCHANGED work /\ head' = [head EXCEPT ![t] = h]
    BY DEF Commits, Commit
  <1>3. /\ h.entries = {e \in work[t].entries : e.file <= win[w].file}
                           \cup {e \in head[t].entries : e.file > win[w].file}
        /\ h.index = work[t].index
    BY CommittedIs DEF IInv
  <1>4. head[t].entries \subseteq work[t].entries
    BY DEF IInv, Journals, Kept
  <1>5. \A e \in work[t].entries : e.file \in Nat
    BY <1>1, RecordTypes DEF IInv
  <1> HIDE DEF h
  <1>6. head'[t] = h
    BY <1>1, <1>2
  <1>7. head[t].entries \subseteq h.entries /\ h.entries \subseteq work[t].entries
    BY <1>1, <1>3, <1>4, <1>5
  <1>8. \A e \in work[t].entries : e \in h.entries <=>
            e.file <= win[w].file \/ e \in head[t].entries
    BY <1>1, <1>3, <1>4, <1>5
  <1> QED
    BY <1>2, <1>3, <1>6, <1>7, <1>8 DEF h

\* A session recorded in a checkout has a copy there, wherever it is found.
LEMMA Original ==
    ASSUME IInv, NEW t \in Calm, NEW x \in Calm, NEW d \in work[t].entries, d.mark.tree = x
    PROVE  \E e \in work[x].entries : Copy(d, e) /\ (t # x => e \in head[x].entries)
  <1>1. CASE t = x
    BY <1>1 DEF Copy
  <1>2. CASE t # x
    <2>1. PICK e \in head[x].entries : Copy(e, d)
      BY <1>2 DEF IInv, Journals, Copies
    <2> QED
      BY <2>1 DEF IInv, Journals, Kept, Copy
  <1> QED
    BY <1>1, <1>2

LEMMA SameMark ==
    ASSUME IInv, NEW t \in Calm, NEW u \in Calm, NEW x \in Calm,
           NEW d \in work[t].entries, NEW e \in work[u].entries,
           d.mark = e.mark, d.mark.tree = x
    PROVE  Copy(d, e)
  <1>1. PICK d1 \in work[x].entries : Copy(d, d1)
    BY Original
  <1>2. PICK e1 \in work[x].entries : Copy(e, e1)
    <2>1. e.mark.tree = x
      OBVIOUS
    <2> QED
      BY <2>1, Original
  <1>3. d1 = e1
    <2>1. \A p, q \in work[x].entries : p.mark = q.mark => p = q
      BY DEF IInv, Journals, Kept
    <2>2. d1.mark = e1.mark
      BY <1>1, <1>2 DEF Copy
    <2> QED
      BY <2>1, <2>2
  <1> QED
    BY <1>1, <1>2, <1>3 DEF Copy

\* A merge in which only calm checkouts take part brings together what the
\* two branches have, each session once.
Joins(t, u) ==
    LET s == head'[t].entries
    IN  /\ work'[t] = head'[t] /\ work[t] = head[t]
        /\ Marks(s) = Marks(head[t].entries) \cup Marks(head[u].entries)
        /\ \A e \in s : \E d \in head[t].entries \cup head[u].entries : Copy(d, e)
        /\ \A d, e \in s : d.mark = e.mark => d = e
        /\ \A x \in Calm : \A d, e \in s :
              d.mark.tree = x /\ e.mark.tree = x /\ d # e => InOrder(d, e) \/ InOrder(e, d)
        /\ head'[t].index \in {head[t].index, head[u].index}
        /\ head'[t].files >= head[t].files /\ head'[t].files >= head[u].files

LEMMA MergedMarks ==
    ASSUME IInv, NEW t \in Calm, NEW u \in Calm
    PROVE  LET a == head[t].entries
               b == head[u].entries
               s == MergedEntries(head[t], head[u])
           IN  /\ Marks(s) = Marks(a) \cup Marks(b)
               /\ \A e \in s : \/ e \in a
                               \/ /\ e.mark \notin Marks(a)
                                  /\ \E d \in b, n \in Nat :
                                        /\ Copy(d, e) /\ e.at = d.at + n
                                        /\ n = Bottom(InFile(a, d.file))
                                        /\ \A c \in a : c.file = d.file => c.at <= n
               /\ \A d, e \in s : d.mark = e.mark => d = e
  <1> DEFINE a == head[t].entries
             b == head[u].entries
             new == {x \in b : x.mark \notin Marks(a)}
             Moved(e) == [e EXCEPT !.at = @ + Bottom(InFile(a, e.file))]
             s == MergedEntries(head[t], head[u])
  <1>1. /\ t \in Trees /\ u \in Trees /\ a \subseteq Entries /\ b \subseteq Entries
    BY RecordTypes DEF IInv, Calm
  <1>2. s = a \cup {Moved(e) : e \in new}
    BY DEF MergedEntries
  <1>3. \A f \in Nat : LET n == Bottom(InFile(a, f))
                       IN  n \in Nat /\ \A c \in a : c.file = f => c.at <= n
    BY <1>1, MergedIs DEF IInv
  <1>4. ASSUME NEW d \in b
        PROVE  /\ Copy(d, Moved(d)) /\ Moved(d).mark = d.mark
               /\ Moved(d).at = d.at + Bottom(InFile(a, d.file))
               /\ d.file \in Nat
    <2>1. d \in [num : Nat, mark : Markers, file : Nat, at : Nat \ {0}]
      BY <1>1 DEF Entries
    <2> QED
      BY <2>1 DEF Copy
  <1> HIDE DEF Moved, s
  <1>5. ASSUME NEW e \in s, e \notin a
        PROVE  \E d \in new : e = Moved(d) /\ e.mark = d.mark
    BY <1>2, <1>4, <1>5
  <1>6. Marks(s) = Marks(a) \cup Marks(b)
    <2>1. Marks(s) \subseteq Marks(a) \cup Marks(b)
      BY <1>5 DEF Marks
    <2>2. Marks(a) \subseteq Marks(s)
      BY <1>2 DEF Marks
    <2>3. ASSUME NEW m \in Marks(b), m \notin Marks(a)
          PROVE  m \in Marks(s)
      <3>1. PICK d \in b : d.mark = m
        BY DEF Marks
      <3>2. Moved(d) \in s /\ Moved(d).mark = m
        BY <1>2, <1>4, <2>3, <3>1
      <3> QED
        BY <3>2 DEF Marks
    <2> QED
      BY <2>1, <2>2, <2>3
  <1>7. ASSUME NEW e \in s, e \notin a
        PROVE  /\ e.mark \notin Marks(a)
               /\ \E d \in b, n \in Nat :
                     /\ Copy(d, e) /\ e.at = d.at + n
                     /\ n = Bottom(InFile(a, d.file))
                     /\ \A c \in a : c.file = d.file => c.at <= n
    <2>1. PICK d \in new : e = Moved(d) /\ e.mark = d.mark
      BY <1>5, <1>7
    <2> QED
      BY <1>3, <1>4, <2>1
  <1>8. ASSUME NEW d \in s, NEW e \in s, d.mark = e.mark
        PROVE  d = e
    <2>1. \A p, q \in work[t].entries : p.mark = q.mark => p = q
      BY DEF IInv, Journals, Kept
    <2>2. \A p, q \in work[u].entries : p.mark = q.mark => p = q
      BY DEF IInv, Journals, Kept
    <2>3. a \subseteq work[t].entries /\ b \subseteq work[u].entries
      BY DEF IInv, Journals, Kept
    <2>4. CASE d \in a /\ e \in a
      BY <1>8, <2>1, <2>3, <2>4
    <2>5. CASE d \notin a /\ e \notin a
      <3>1. PICK d1 \in new : d = Moved(d1) /\ d.mark = d1.mark
        BY <1>5, <2>5
      <3>2. PICK e1 \in new : e = Moved(e1) /\ e.mark = e1.mark
        BY <1>5, <2>5
      <3>3. d1 = e1
        BY <1>8, <2>2, <2>3, <3>1, <3>2
      <3> QED
        BY <3>1, <3>2, <3>3
    <2>6. CASE (d \in a /\ e \notin a) \/ (d \notin a /\ e \in a)
      BY <1>7, <1>8, <2>6 DEF Marks
    <2> QED
      BY <2>4, <2>5, <2>6
  <1> QED
    BY <1>6, <1>7, <1>8 DEF s

\* A merged journal keeps the sessions of each checkout in their order.
LEMMA MergedOrder ==
    ASSUME IInv, NEW t \in Calm, NEW u \in Calm, NEW x \in Calm,
           NEW d \in MergedEntries(head[t], head[u]), NEW e \in MergedEntries(head[t], head[u]),
           d.mark.tree = x, e.mark.tree = x, d # e
    PROVE  InOrder(d, e) \/ InOrder(e, d)
  <1> DEFINE a == head[t].entries
             b == head[u].entries
             s == MergedEntries(head[t], head[u])
             New(c) == /\ c.mark \notin Marks(a)
                       /\ \E o \in b, n \in Nat :
                             /\ Copy(o, c) /\ c.at = o.at + n
                             /\ n = Bottom(InFile(a, o.file))
                             /\ \A k \in a : k.file = o.file => k.at <= n
  <1>1. /\ t \in Trees /\ u \in Trees /\ x \in Trees /\ a \subseteq Entries /\ b \subseteq Entries
        /\ a \subseteq work[t].entries /\ b \subseteq work[u].entries
    BY RecordTypes DEF IInv, Calm, Journals, Kept
  <1>2. \A c \in s : c \in a \/ New(c)
    BY MergedMarks
  <1>3. \A k \in Entries : k.num \in Nat /\ k.file \in Nat /\ k.at \in Nat /\ k.at >= 1
    BY <1>1, RecordTypes DEF IInv
  <1> HIDE DEF New, s
  <1>4. CASE d \in a /\ e \in a
    BY <1>1, <1>4 DEF IInv, Journals, Ordered
  <1>5. CASE New(d) /\ New(e)
    <2>1. PICK p \in b, n \in Nat : Copy(p, d) /\ d.at = p.at + n /\ n = Bottom(InFile(a, p.file))
      BY <1>5 DEF New
    <2>2. PICK q \in b, m \in Nat : Copy(q, e) /\ e.at = q.at + m /\ m = Bottom(InFile(a, q.file))
      BY <1>5 DEF New
    <2>3. p # q
      <3>1. p = q => d.mark = e.mark
        BY <2>1, <2>2 DEF Copy
      <3>2. \A g, h \in s : g.mark = h.mark => g = h
        BY MergedMarks DEF s
      <3> QED
        BY <3>1, <3>2 DEF s
    <2>4. p.mark.tree = x /\ q.mark.tree = x
      BY <2>1, <2>2 DEF Copy
    <2>5. InOrder(p, q) \/ InOrder(q, p)
      BY <1>1, <2>3, <2>4 DEF IInv, Journals, Ordered
    <2>6. p.file = q.file => n = m
      BY <2>1, <2>2
    <2>7. d.num = p.num /\ d.file = p.file /\ e.num = q.num /\ e.file = q.file
      BY <2>1, <2>2 DEF Copy
    <2>8. /\ p.num \in Nat /\ p.file \in Nat /\ p.at \in Nat
          /\ q.num \in Nat /\ q.file \in Nat /\ q.at \in Nat
      BY <1>1, <1>3
    <2> QED
      BY <2>1, <2>2, <2>5, <2>6, <2>7, <2>8 DEF InOrder, Before
  <1>6. ASSUME NEW c \in a, NEW f, New(f), c.mark.tree = x, f.mark.tree = x
        PROVE  InOrder(c, f)
    <2>1. PICK p \in b, n \in Nat : /\ Copy(p, f)
                                    /\ f.at = p.at + n
                                    /\ \A k \in a : k.file = p.file => k.at <= n
      BY <1>6 DEF New
    <2>2. p.mark = f.mark /\ p.num = f.num /\ p.file = f.file /\ p.mark.tree = x
      BY <1>6, <2>1 DEF Copy
    <2>3. f.mark \notin Marks(a)
      BY <1>6 DEF New
    <2>4. PICK c1 \in work[x].entries : Copy(c, c1)
      BY <1>1, <1>6, Original
    <2>5. PICK p1 \in work[x].entries : Copy(p, p1) /\ (u # x => p1 \in head[x].entries)
      BY <1>1, <2>2, Original
    <2>6. t # x
      <3>1. SUFFICES ASSUME t = x
                     PROVE  f.mark \in Marks(a)
        BY <2>3
      <3>2. CASE u = x
        BY <2>2, <3>1, <3>2 DEF Marks
      <3>3. CASE u # x
        BY <2>2, <2>5, <3>1, <3>3 DEF Copy, Marks
      <3> QED
        BY <3>2, <3>3
    <2>7. /\ c1.mark = c.mark /\ c1.num = c.num /\ c1.file = c.file
          /\ p1.mark = f.mark /\ p1.num = f.num /\ p1.file = f.file
      BY <2>2, <2>4, <2>5 DEF Copy
    <2>8. c1 # p1
      BY <1>6, <2>3, <2>7 DEF Marks
    <2>9. InOrder(c1, p1) \/ InOrder(p1, c1)
      BY <1>6, <2>7, <2>8 DEF IInv, Journals, Ordered
    <2>10. ~(f.num < c.num)
      <3>1. f.num < c.num => p1.mark \in Marks(a)
        <4>1. p1.mark.tree = x /\ (f.num < c.num => p1.num < c.num)
          BY <1>6, <2>7
        <4>2. \A g \in a, h \in work[x].entries :
                 h.mark.tree = x /\ g.mark.tree = x /\ h.num < g.num => h.mark \in Marks(a)
          BY DEF IInv, Journals, Prefixes
        <4> QED
          BY <1>6, <4>1, <4>2
      <3> QED
        BY <2>3, <2>7, <3>1
    <2>11. c.num < f.num /\ (c.file < f.file \/ c.file = f.file)
      <3>1. ~InOrder(p1, c1)
        BY <2>7, <2>10 DEF InOrder
      <3>2. InOrder(c1, p1)
        BY <2>9, <3>1
      <3> QED
        BY <2>7, <3>2 DEF InOrder, Before
    <2>12. c.file = f.file => c.at < f.at
      <3>1. /\ c.at \in Nat /\ p.at \in Nat /\ p.at >= 1
        BY <1>1, <1>3, <1>6
      <3>2. c.file = f.file => c.at <= n
        BY <1>6, <2>1, <2>2
      <3> QED
        BY <2>1, <3>1, <3>2
    <2> QED
      BY <2>11, <2>12 DEF InOrder, Before
  <1> QED
    BY <1>2, <1>4, <1>5, <1>6 DEF s

LEMMA MergeJoins ==
    ASSUME IInv, NEW t \in Calm, NEW u \in Calm, Merge(t, u)
    PROVE  Joins(t, u)
  <1> DEFINE a == head[t].entries
             b == head[u].entries
             m == MergedEntries(head[t], head[u])
             s == IF Covers(head[u], head[t]) THEN b ELSE m
             f == MaxOf({head[t].files, head[u].files})
  <1>1. /\ t \in Trees /\ u \in Trees
        /\ head \in [Trees -> Contents] /\ work \in [Trees -> Contents]
        /\ a \subseteq work[t].entries /\ b \subseteq work[u].entries
    BY DEF IInv, Calm, Typed, TypeOK, Journals, Kept
  <1>2. /\ work[t] = head[t]
        /\ \E i \in {head[t].index, head[u].index} :
              LET h == [entries |-> s, files |-> f, index |-> i]
              IN  head' = [head EXCEPT ![t] = h] /\ work' = [work EXCEPT ![t] = h]
    BY DEF Merge
  <1>3. PICK i \in {head[t].index, head[u].index} :
             LET h == [entries |-> s, files |-> f, index |-> i]
             IN  head' = [head EXCEPT ![t] = h] /\ work' = [work EXCEPT ![t] = h]
    BY <1>2
  <1>4. f >= head[t].files /\ f >= head[u].files
    BY <1>1, MergedIs DEF IInv
  <1>5. /\ work'[t] = head'[t] /\ head'[t].entries = s
        /\ head'[t].files = f /\ head'[t].index = i
    <2> HIDE DEF s, f
    <2> QED
      BY <1>1, <1>3
  <1>6. CASE Covers(head[u], head[t])
    <2>1. s = b
      BY <1>6
    <2>2. Marks(b) = Marks(a) \cup Marks(b)
      BY <1>6 DEF Covers
    <2>3. \A e \in b : Copy(e, e)
      BY DEF Copy
    <2>4. \A d, e \in b : d.mark = e.mark => d = e
      <3>1. \A d, e \in work[u].entries : d.mark = e.mark => d = e
        BY DEF IInv, Journals, Kept
      <3> QED
        BY <1>1, <3>1
    <2>5. \A x \in Calm : \A d, e \in b :
              d.mark.tree = x /\ e.mark.tree = x /\ d # e => InOrder(d, e) \/ InOrder(e, d)
      BY <1>1 DEF IInv, Journals, Ordered
    <2> HIDE DEF s, f
    <2> QED
      BY <1>2, <1>4, <1>5, <2>1, <2>2, <2>3, <2>4, <2>5 DEF Joins
  <1>7. CASE ~Covers(head[u], head[t])
    <2>1. s = m
      BY <1>7
    <2>2. /\ Marks(m) = Marks(a) \cup Marks(b)
          /\ \A d, e \in m : d.mark = e.mark => d = e
      BY MergedMarks
    <2>3. \A e \in m : \E d \in a \cup b : Copy(d, e)
      <3> SUFFICES ASSUME NEW e \in m
                   PROVE  \E d \in a \cup b : Copy(d, e)
        OBVIOUS
      <3>1. CASE e \in a
        BY <3>1 DEF Copy
      <3>2. CASE e \notin a
        <4> HIDE DEF m
        <4> QED
          BY <3>2, MergedMarks DEF m
      <3> QED
        BY <3>1, <3>2
    <2>4. \A x \in Calm : \A d, e \in m :
              d.mark.tree = x /\ e.mark.tree = x /\ d # e => InOrder(d, e) \/ InOrder(e, d)
      BY MergedOrder
    <2> HIDE DEF s, f, m
    <2> QED
      BY <1>2, <1>4, <1>5, <2>1, <2>2, <2>3, <2>4 DEF Joins
  <1> QED
    BY <1>6, <1>7

StillBut(t) == \A x \in Calm' \ {t} : Still(x)

LEMMA Effects ==
    ASSUME IInv, Next
    PROVE  \/ \A t \in Calm' : Still(t)
           \/ \E w \in Windows : /\ Home[w] \in Calm' /\ StillBut(Home[w])
                                 /\ Adds(w) \/ Commits(w)
           \/ \E t, u \in Calm : t \in Calm' /\ Merge(t, u) /\ Joins(t, u) /\ StillBut(t)
  <1>1. /\ Typed /\ Calm' \subseteq Calm /\ Calm \subseteq Trees
        /\ work \in [Trees -> Contents] /\ head \in [Trees -> Contents]
        /\ \A t \in Trees : work[t] \in Contents
    BY CalmShrinks, RecordTypes DEF IInv, Calm, Typed, TypeOK
  <1>2. CASE UNCHANGED <<work, head>>
    BY <1>2 DEF Still
  <1>3. ASSUME NEW t \in Trees, InitDeveloper(t)
        PROVE  \A x \in Calm' : Still(x)
    BY <1>1, <1>3 DEF InitDeveloper, Still, Contents
  <1>4. ASSUME NEW w \in Windows, Rotated(w)
        PROVE  \A x \in Calm' : Still(x)
    <2>1. \A x \in Trees \ {Home[w]} : work'[x] = work[x] /\ head' = head
      BY <1>1, <1>4 DEF Rotated, Rotate
    <2>2. Home[w] \in Calm => Still(Home[w])
      <3>1. ASSUME Home[w] \in Calm
            PROVE  work'[Home[w]].entries = work[Home[w]].entries /\ head' = head
        <4>1. /\ work' = [work EXCEPT ![Home[w]] =
                              [work[Home[w]] EXCEPT !.files = work[Home[w]].files + 1]]
              /\ UNCHANGED head
          BY <1>4, <3>1, RotateKeeps
        <4>2. work[Home[w]] \in Contents /\ Home[w] \in Trees
          BY <1>1, <3>1
        <4> QED
          BY <1>1, <4>1, <4>2 DEF Contents
      <3> QED
        BY <3>1 DEF Still
    <2> QED
      BY <1>1, <2>1, <2>2 DEF Still
  <1>5. ASSUME NEW w \in Windows, Indexes(w)
        PROVE  \A x \in Calm' : Still(x)
    <2>1. work' = [work EXCEPT ![Home[w]].index = UpdatedIndex(win[w])] /\ head' = head
      BY <1>5 DEF Indexes, UpdateIndex
    <2> HIDE DEF UpdatedIndex
    <2> QED
      BY <1>1, <2>1 DEF Still, Contents
  <1>6. ASSUME NEW w \in Windows, Adds(w) \/ Commits(w)
        PROVE  StillBut(Home[w])
    <2>1. \A x \in Trees \ {Home[w]} : work'[x] = work[x] /\ head'[x] = head[x]
      BY <1>1, <1>6 DEF Adds, AppendEntry, Commits, Commit
    <2> QED
      BY <1>1, <2>1 DEF StillBut, Still
  <1>7. ASSUME NEW t \in Trees, NEW u \in Trees, Merge(t, u)
        PROVE  /\ StillBut(t)
               /\ t \in Calm' => t \in Calm /\ u \in Calm /\ Joins(t, u)
    <2>1. \A x \in Trees \ {t} : work'[x] = work[x] /\ head'[x] = head[x]
      BY <1>1, <1>7 DEF Merge
    <2>2. t \in Calm' => t \in Calm /\ u \in Calm
      BY <1>1, <1>7, CalmShrinks
    <2> QED
      BY <1>1, <1>7, <2>1, <2>2, MergeJoins DEF StillBut, Still
  <1>8. CASE \E w \in Windows : Adds(w) \/ Commits(w)
    <2>1. PICK w \in Windows : Adds(w) \/ Commits(w)
      BY <1>8
    <2>2. CASE Home[w] \in Calm'
      BY <1>6, <2>1, <2>2
    <2>3. CASE Home[w] \notin Calm'
      BY <1>6, <2>1, <2>3 DEF StillBut
    <2> QED
      BY <2>2, <2>3
  <1>9. CASE \E t, u \in Trees : Merge(t, u)
    <2>1. PICK t \in Trees, u \in Trees : Merge(t, u)
      BY <1>9
    <2>2. CASE t \in Calm'
      BY <1>7, <2>1, <2>2
    <2>3. CASE t \notin Calm'
      BY <1>7, <2>1, <2>3 DEF StillBut
    <2> QED
      BY <2>2, <2>3
  <1> QED
    BY <1>1, <1>2, <1>3, <1>4, <1>5, <1>8, <1>9, FileSteps

-----------------------------------------------------------------------------
(* The journals stay in order.                                             *)

LEMMA StillJournals ==
    ASSUME Journals, Calm' \subseteq Calm, \A t \in Calm' : Still(t)
    PROVE  Journals'
  <1>1. Kept'
    BY DEF Journals, Kept, Still
  <1>2. Generations'
    <2>1. \A t \in Calm' : \A r, c : First(t, r, c)' = First(t, r, c)
      BY DEF First, Still
    <2>2. \A t \in Calm' : \A m : Preceded(t, m) => Preceded(t, m)'
      BY <2>1 DEF Preceded, Still
    <2> QED
      BY <2>1, <2>2 DEF Journals, Generations, Still
  <1>3. Copies'
    BY DEF Journals, Copies, Still
  <1>4. Ordered'
    BY DEF Journals, Ordered, Still
  <1>5. Prefixes'
    BY DEF Journals, Prefixes, Still
  <1> QED
    BY <1>1, <1>2, <1>3, <1>4, <1>5 DEF Journals

LEMMA AddsJournals ==
    ASSUME IInv, Calm' \subseteq Calm,
           NEW w \in Windows, Adds(w), Home[w] \in Calm', StillBut(Home[w])
    PROVE  Journals'
  <1> DEFINE t == Home[w]
             q == win[w]
             e == Entry(q.num, q.mark, q.file, Bottom(q.snap) + 1)
  <1>1. /\ work'[t] = [work[t] EXCEPT !.entries = work[t].entries \cup {e}]
        /\ e \in Entries /\ e.mark = q.mark /\ e.num = q.num
        /\ UNCHANGED head
        /\ \A d \in work[t].entries : InOrder(d, e) /\ d.mark # e.mark
        /\ Ready(w) /\ q.pc = "append" /\ q.mark \in Markers
    BY AppendAdds DEF Calm
  <1>2. t \in Calm /\ t \in Trees /\ work[t] \in Contents /\ work[t].entries \subseteq Entries
    BY RecordTypes DEF IInv, Calm
  <1> HIDE DEF e
  <1>3. /\ work'[t].entries = work[t].entries \cup {e} /\ head' = head
        /\ \A x \in Calm' \ {t} : work'[x].entries = work[x].entries
    BY <1>1, <1>2 DEF Contents, StillBut, Still
  <1>4. e.mark.tree = t /\ e.mark.rec = q.rec /\ e.mark.ctx = context[t]
    BY <1>1, <1>2 DEF IInv, AtWork, Steady
  <1>5. Journals
    BY DEF IInv
  <1>6. head[t].entries \subseteq work[t].entries
    BY <1>2, <1>5 DEF Journals, Kept
  <1>7. Kept'
    <2> SUFFICES ASSUME NEW x \in Calm'
                 PROVE  /\ head'[x].entries \subseteq work'[x].entries
                        /\ \A d \in work'[x].entries : d.mark.tree # x => d \in head'[x].entries
                        /\ \A c, d \in work'[x].entries : c.mark = d.mark => c = d
      BY DEF Kept
    <2>1. /\ head[x].entries \subseteq work[x].entries
          /\ \A d \in work[x].entries : d.mark.tree # x => d \in head[x].entries
          /\ \A c, d \in work[x].entries : c.mark = d.mark => c = d
      BY <1>5 DEF Journals, Kept
    <2>2. CASE x # t
      BY <1>3, <2>1, <2>2
    <2>3. CASE x = t
      <3>1. /\ head'[x].entries = head[x].entries
            /\ work'[x].entries = work[x].entries \cup {e}
        BY <1>3, <2>3
      <3>2. e.mark.tree = x /\ \A d \in work[x].entries : d.mark # e.mark
        BY <1>1, <1>4, <2>3
      <3> QED
        BY <2>1, <3>1, <3>2
    <2> QED
      BY <2>2, <2>3
  <1>8. Generations'
    <2>1. ASSUME NEW x \in Calm', NEW m
          PROVE  Preceded(x, m) => Preceded(x, m)'
      BY <1>3 DEF Preceded, First
    <2>2. ASSUME NEW x \in Calm', NEW d \in work'[x].entries, d.mark.tree = x, d.mark.gen > 0
          PROVE  d.mark.date = 0 /\ d.mark.rec \notin Keyed /\ Preceded(x, d.mark)'
      <3>1. CASE d \in work[x].entries
        BY <1>5, <2>1, <2>2, <3>1 DEF Journals, Generations
      <3>2. CASE d \notin work[x].entries
        <4>1. x = t /\ d = e
          BY <1>3, <3>2
        <4>2. e.mark.gen > 0 => /\ e.mark.date = 0
                                /\ e.mark.rec \notin Keyed
                                /\ Preceded(t, e.mark)
          BY <1>1, <1>4 DEF Ready
        <4> QED
          BY <2>1, <2>2, <4>1, <4>2
      <3> QED
        BY <3>1, <3>2
    <2>3. ASSUME NEW x \in Calm', NEW r \in Records, NEW c \in Nat,
                 NEW d \in First(x, r, c)', NEW f \in First(x, r, c)'
          PROVE  d = f
      <3>1. \A g, h \in First(x, r, c) : g = h
        BY <1>5 DEF Journals, Generations
      <3>2. CASE x # t
        BY <1>3, <3>1, <3>2 DEF First
      <3>3. CASE x = t
        <4>1. \A g \in First(t, r, c)' : g \in First(t, r, c) \/ g = e
          BY <1>3 DEF First
        <4>2. e \in First(t, r, c)' => First(t, r, c) = {}
          <5>1. e \in First(t, r, c)' => r = q.rec /\ c = context[t] /\ q.mark.gen = 0
            BY <1>1, <1>4 DEF First
          <5>2. q.mark.gen = 0 => First(t, q.rec, context[t]) = {}
            BY <1>1 DEF Ready
          <5> QED
            BY <5>1, <5>2
        <4> QED
          BY <3>1, <3>3, <4>1, <4>2
      <3> QED
        BY <3>2, <3>3
    <2> QED
      BY <2>2, <2>3 DEF Generations
  <1>9. Copies'
    <2> SUFFICES ASSUME NEW x \in Calm', NEW y \in Calm', NEW d \in work'[x].entries,
                        d.mark.tree = y, y # x
                 PROVE  \E c \in head'[y].entries : Copy(c, d)
      BY DEF Copies
    <2>1. d \in work[x].entries
      BY <1>3, <1>4
    <2> QED
      BY <1>3, <1>5, <2>1 DEF Journals, Copies
  <1>10. Ordered'
    <2> SUFFICES ASSUME NEW x \in Calm', NEW y \in Calm', NEW c \in work'[x].entries,
                        NEW d \in work'[x].entries, c.mark.tree = y, d.mark.tree = y, c # d
                 PROVE  InOrder(c, d) \/ InOrder(d, c)
      BY DEF Ordered
    <2>1. CASE c \in work[x].entries /\ d \in work[x].entries
      BY <1>5, <2>1 DEF Journals, Ordered
    <2>2. CASE c \notin work[x].entries \/ d \notin work[x].entries
      <3>1. x = t /\ (c = e \/ d = e) /\ c \in work[t].entries \cup {e}
            /\ d \in work[t].entries \cup {e}
        BY <1>3, <2>2
      <3>2. \A k \in work[t].entries : InOrder(k, e)
        BY <1>1
      <3> QED
        BY <3>1, <3>2
    <2> QED
      BY <2>1, <2>2
  <1>11. Prefixes'
    <2> SUFFICES ASSUME NEW x \in Calm', NEW y \in Calm', NEW c \in head'[x].entries,
                        NEW d \in work'[y].entries, d.mark.tree = y, c.mark.tree = y,
                        d.num < c.num
                 PROVE  d.mark \in Marks(head'[x].entries)
      BY DEF Prefixes
    <2>1. CASE d \in work[y].entries
      BY <1>3, <1>5, <2>1 DEF Journals, Prefixes
    <2>2. CASE d \notin work[y].entries
      <3>1. y = t /\ d = e /\ c \in head[x].entries
        BY <1>3, <2>2
      <3>2. c \in work[x].entries
        BY <1>5, <3>1 DEF Journals, Kept
      <3>3. PICK k \in work[t].entries : Copy(c, k)
        BY <3>1, <3>2, Original
      <3>4. k.num < e.num /\ c.num = k.num
        BY <1>1, <3>3 DEF InOrder, Copy
      <3>5. k.num \in Nat /\ e.num \in Nat
        BY <1>1, <1>2, RecordTypes DEF IInv
      <3> QED
        BY <3>1, <3>4, <3>5
    <2> QED
      BY <2>1, <2>2
  <1> QED
    BY <1>7, <1>8, <1>9, <1>10, <1>11 DEF Journals

LEMMA CommitJournals ==
    ASSUME IInv, Calm' \subseteq Calm,
           NEW w \in Windows, Commits(w), Home[w] \in Calm', StillBut(Home[w])
    PROVE  Journals'
  <1> DEFINE t == Home[w]
             q == win[w]
  <1>1. /\ UNCHANGED work
        /\ head[t].entries \subseteq head'[t].entries
        /\ head'[t].entries \subseteq work[t].entries
        /\ \A e \in work[t].entries : e \in head'[t].entries <=>
                     e.file <= win[w].file \/ e \in head[t].entries
    BY CommitKeeps
  <1>2. t \in Calm /\ t \in Trees /\ work[t].entries \subseteq Entries /\ q.file \in Nat
    BY RecordTypes, WindowTypes DEF IInv, Calm
  <1>3. \A x \in Calm' \ {t} : head'[x].entries = head[x].entries
    BY DEF StillBut, Still
  <1>4. Journals
    BY DEF IInv
  <1>5. \A x \in Calm' : head[x].entries \subseteq head'[x].entries
    BY <1>1, <1>3
  <1>6. Kept'
    <2> SUFFICES ASSUME NEW x \in Calm'
                 PROVE  /\ head'[x].entries \subseteq work'[x].entries
                        /\ \A d \in work'[x].entries : d.mark.tree # x => d \in head'[x].entries
                        /\ \A c, d \in work'[x].entries : c.mark = d.mark => c = d
      BY DEF Kept
    <2>1. /\ head[x].entries \subseteq work[x].entries
          /\ \A d \in work[x].entries : d.mark.tree # x => d \in head[x].entries
          /\ \A c, d \in work[x].entries : c.mark = d.mark => c = d
      BY <1>4 DEF Journals, Kept
    <2>2. CASE x # t
      BY <1>1, <1>3, <2>1, <2>2
    <2>3. CASE x = t
      BY <1>1, <2>1, <2>3
    <2> QED
      BY <2>2, <2>3
  <1>7. Generations'
    <2>1. \A x, r, c : First(x, r, c)' = First(x, r, c)
      BY <1>1 DEF First
    <2>2. \A x \in Calm' : Marks(head[x].entries) \subseteq Marks(head'[x].entries)
      BY <1>5 DEF Marks
    <2>3. ASSUME NEW x \in Calm', NEW m
          PROVE  Preceded(x, m) => Preceded(x, m)'
      BY <1>5, <2>1, <2>2 DEF Preceded
    <2> QED
      BY <1>1, <1>4, <2>1, <2>3 DEF Journals, Generations
  <1>8. Copies'
    BY <1>1, <1>4, <1>5 DEF Journals, Copies
  <1>9. Ordered'
    BY <1>1, <1>4 DEF Journals, Ordered
  <1>10. Prefixes'
    <2> SUFFICES ASSUME NEW x \in Calm', NEW y \in Calm', NEW c \in head'[x].entries,
                        NEW d \in work'[y].entries, d.mark.tree = y, c.mark.tree = y,
                        d.num < c.num
                 PROVE  d.mark \in Marks(head'[x].entries)
      BY DEF Prefixes
    <2>1. CASE c \in head[x].entries
      <3>1. d.mark \in Marks(head[x].entries)
        BY <1>1, <1>4, <2>1 DEF Journals, Prefixes
      <3> QED
        BY <1>5, <3>1 DEF Marks
    <2>2. CASE c \notin head[x].entries
      <3>1. x = t /\ c \in work[t].entries /\ c.file <= q.file
        BY <1>1, <1>3, <2>2
      <3>2. y = t /\ d \in work[t].entries
        BY <1>1, <1>4, <2>2, <3>1 DEF Journals, Kept
      <3>3. InOrder(c, d) \/ InOrder(d, c)
        <4>1. d # c
          BY <1>2, <3>1, <3>2, RecordTypes DEF IInv
        <4> QED
          BY <1>4, <3>1, <3>2, <4>1 DEF Journals, Ordered
      <3>4. /\ c.num \in Nat /\ d.num \in Nat /\ c.file \in Nat /\ d.file \in Nat
        BY <1>2, <3>1, <3>2, RecordTypes DEF IInv
      <3>5. d.file <= q.file
        BY <1>2, <3>1, <3>3, <3>4 DEF InOrder, Before
      <3> QED
        BY <1>1, <3>1, <3>2, <3>5 DEF Marks
    <2> QED
      BY <2>1, <2>2
  <1> QED
    BY <1>6, <1>7, <1>8, <1>9, <1>10 DEF Journals

\* What was in a journal has a copy after a merge.
LEMMA JoinKeeps ==
    ASSUME IInv, NEW t \in Calm, NEW u \in Calm, Joins(t, u),
           NEW d \in head[t].entries, d.mark.tree \in Calm
    PROVE  \E e \in head'[t].entries : Copy(d, e)
  <1>1. PICK e \in head'[t].entries : e.mark = d.mark
    BY DEF Joins, Marks
  <1>2. PICK c \in head[t].entries \cup head[u].entries : Copy(c, e)
    BY DEF Joins
  <1>3. \A x \in Calm : head[x].entries \subseteq work[x].entries
    BY DEF IInv, Journals, Kept
  <1>4. c.mark = d.mark
    BY <1>1, <1>2 DEF Copy
  <1>5. Copy(d, c)
    <2>1. CASE c \in head[t].entries
      BY <1>3, <1>4, <2>1, SameMark
    <2>2. CASE c \in head[u].entries
      BY <1>3, <1>4, <2>2, SameMark
    <2> QED
      BY <2>1, <2>2
  <1> QED
    BY <1>2, <1>5 DEF Copy

\* What a checkout recorded itself, it does not get from a merge.
LEMMA JoinOwn ==
    ASSUME IInv, NEW t \in Calm, NEW u \in Calm, Joins(t, u),
           NEW e \in head'[t].entries, e.mark.tree = t
    PROVE  \E d \in head[t].entries : Copy(d, e)
  <1>1. PICK c \in head[t].entries \cup head[u].entries : Copy(c, e)
    BY DEF Joins
  <1>2. CASE c \in head[t].entries
    BY <1>1, <1>2
  <1>3. CASE c \notin head[t].entries /\ u # t
    <2>1. c \in work[u].entries /\ c.mark.tree = t
      BY <1>1, <1>3 DEF IInv, Journals, Kept, Copy
    <2>2. PICK d \in head[t].entries : Copy(d, c)
      BY <1>3, <2>1 DEF IInv, Journals, Copies
    <2> QED
      BY <1>1, <2>2 DEF Copy
  <1> QED
    BY <1>1, <1>2, <1>3

LEMMA JoinJournals ==
    ASSUME IInv, Calm' \subseteq Calm,
           NEW t \in Calm, NEW u \in Calm, t \in Calm', Joins(t, u), StillBut(t)
    PROVE  Journals'
  <1>1. Journals
    BY DEF IInv
  <1>2. /\ work'[t] = head'[t] /\ work[t] = head[t]
        /\ Marks(head'[t].entries) = Marks(head[t].entries) \cup Marks(head[u].entries)
        /\ \A e \in head'[t].entries : \E d \in head[t].entries \cup head[u].entries : Copy(d, e)
        /\ \A d, e \in head'[t].entries : d.mark = e.mark => d = e
        /\ \A x \in Calm : \A d, e \in head'[t].entries :
              d.mark.tree = x /\ e.mark.tree = x /\ d # e => InOrder(d, e) \/ InOrder(e, d)
    BY DEF Joins
  <1>3. \A x \in Calm' \ {t} : /\ work'[x].entries = work[x].entries
                               /\ head'[x].entries = head[x].entries
    BY DEF StillBut, Still
  <1>4. \A x \in Calm : head[x].entries \subseteq work[x].entries
    BY <1>1 DEF Journals, Kept
  <1>5. Kept'
    <2> SUFFICES ASSUME NEW x \in Calm'
                 PROVE  /\ head'[x].entries \subseteq work'[x].entries
                        /\ \A d \in work'[x].entries : d.mark.tree # x => d \in head'[x].entries
                        /\ \A c, d \in work'[x].entries : c.mark = d.mark => c = d
      BY DEF Kept
    <2>1. CASE x # t
      BY <1>1, <1>3, <2>1 DEF Journals, Kept
    <2>2. CASE x = t
      BY <1>2, <2>2
    <2> QED
      BY <2>1, <2>2
  <1>6. Generations'
    <2>1. ASSUME NEW r, NEW c
          PROVE  /\ \A e \in First(t, r, c)' : \E d \in First(t, r, c) : Copy(d, e)
                 /\ \A d \in First(t, r, c) : \E e \in First(t, r, c)' : Copy(d, e)
      <3>1. \A e \in First(t, r, c)' : \E d \in First(t, r, c) : Copy(d, e)
        <4> SUFFICES ASSUME NEW e \in First(t, r, c)'
                     PROVE  \E d \in First(t, r, c) : Copy(d, e)
          OBVIOUS
        <4>1. e \in head'[t].entries /\ e.mark.tree = t
          BY <1>2 DEF First
        <4>2. PICK d \in head[t].entries : Copy(d, e)
          BY <4>1, JoinOwn
        <4> QED
          BY <1>2, <4>2 DEF First, Copy
      <3>2. \A d \in First(t, r, c) : \E e \in First(t, r, c)' : Copy(d, e)
        <4> SUFFICES ASSUME NEW d \in First(t, r, c)
                     PROVE  \E e \in First(t, r, c)' : Copy(d, e)
          OBVIOUS
        <4>1. d \in head[t].entries /\ d.mark.tree \in Calm
          BY <1>2 DEF First
        <4>2. PICK e \in head'[t].entries : Copy(d, e)
          BY <4>1, JoinKeeps
        <4> QED
          BY <1>2, <4>2 DEF First, Copy
      <3> QED
        BY <3>1, <3>2
    <2>2. ASSUME NEW m, Preceded(t, m)
          PROVE  Preceded(t, m)'
      <3>1. \A k \in 1..(m.gen - 1) :
               Mark(t, m.rec, m.ctx, k, 0) \in Marks(head'[t].entries)
        BY <1>2, <2>2 DEF Preceded
      <3>2. \E e \in First(t, m.rec, m.ctx)' : TRUE
        BY <2>1, <2>2 DEF Preceded
      <3>3. \E e \in First(t, m.rec, m.ctx)' : e \in head'[t].entries
        BY <1>2, <3>2 DEF First
      <3> QED
        BY <3>1, <3>3 DEF Preceded
    <2>3. ASSUME NEW x \in Calm', x # t, NEW m, Preceded(x, m)
          PROVE  Preceded(x, m)'
      BY <1>3, <2>3 DEF Preceded, First
    <2>4. ASSUME NEW x \in Calm', NEW e \in work'[x].entries, e.mark.tree = x, e.mark.gen > 0
          PROVE  e.mark.date = 0 /\ e.mark.rec \notin Keyed /\ Preceded(x, e.mark)'
      <3>1. CASE x # t
        BY <1>1, <1>3, <2>3, <2>4, <3>1 DEF Journals, Generations
      <3>2. CASE x = t
        <4>1. PICK d \in head[t].entries : Copy(d, e)
          BY <1>2, <2>4, <3>2, JoinOwn
        <4>2. d.mark = e.mark
          BY <4>1 DEF Copy
        <4>3. d.mark.date = 0 /\ d.mark.rec \notin Keyed /\ Preceded(t, d.mark)
          BY <1>1, <1>2, <2>4, <3>2, <4>2 DEF Journals, Generations
        <4> QED
          BY <2>2, <3>2, <4>2, <4>3
      <3> QED
        BY <3>1, <3>2
    <2>5. ASSUME NEW x \in Calm', NEW r \in Records, NEW c \in Nat,
                 NEW d \in First(x, r, c)', NEW e \in First(x, r, c)'
          PROVE  d = e
      <3>1. CASE x # t
        <4>1. First(x, r, c)' = First(x, r, c)
          BY <1>3, <3>1 DEF First
        <4> QED
          BY <1>1, <4>1 DEF Journals, Generations
      <3>2. CASE x = t
        <4>1. PICK d1 \in First(t, r, c) : Copy(d1, d)
          BY <2>1, <3>2
        <4>2. PICK e1 \in First(t, r, c) : Copy(e1, e)
          BY <2>1, <3>2
        <4>3. d1 = e1
          BY <1>1 DEF Journals, Generations
        <4>4. d.mark = e.mark
          BY <4>1, <4>2, <4>3 DEF Copy
        <4> QED
          BY <1>2, <3>2, <4>4 DEF First
      <3> QED
        BY <3>1, <3>2
    <2> QED
      BY <2>4, <2>5 DEF Generations
  <1>7. ASSUME NEW y \in Calm', NEW d \in head[y].entries, d.mark.tree = y
        PROVE  \E e \in head'[y].entries : Copy(d, e)
    <2>1. CASE y # t
      BY <1>3, <2>1 DEF Copy
    <2>2. CASE y = t
      BY <1>7, <2>2, JoinKeeps
    <2> QED
      BY <2>1, <2>2
  <1>8. Copies'
    <2> SUFFICES ASSUME NEW x \in Calm', NEW y \in Calm', NEW d \in work'[x].entries,
                        d.mark.tree = y, y # x
                 PROVE  \E c \in head'[y].entries : Copy(c, d)
      BY DEF Copies
    <2>1. \E z \in Calm : \E k \in work[z].entries : Copy(k, d) /\ (z = y => k \in head[y].entries)
      <3>1. CASE x # t
        <4>1. d \in work[x].entries /\ Copy(d, d) /\ x \in Calm
          BY <1>3, <3>1 DEF Copy
        <4> QED
          BY <4>1
      <3>2. CASE x = t
        <4>1. PICK k \in head[t].entries \cup head[u].entries : Copy(k, d)
          BY <1>2, <3>2
        <4>2. CASE k \in head[t].entries
          BY <1>4, <3>2, <4>1, <4>2
        <4>3. CASE k \in head[u].entries
          BY <1>4, <4>1, <4>3
        <4> QED
          BY <4>1, <4>2, <4>3
      <3> QED
        BY <3>1, <3>2
    <2>0. PICK z \in Calm : \E k \in work[z].entries :
                               Copy(k, d) /\ (z = y => k \in head[y].entries)
      BY <2>1
    <2>2. PICK k \in work[z].entries : Copy(k, d) /\ (z = y => k \in head[y].entries)
      BY <2>0
    <2>3. k.mark.tree = y
      BY <2>2 DEF Copy
    <2>4. \E c \in head[y].entries : Copy(c, k)
      <3>1. CASE z = y
        BY <2>2, <3>1 DEF Copy
      <3>2. CASE z # y
        BY <1>1, <2>3, <3>2 DEF Journals, Copies
      <3> QED
        BY <3>1, <3>2
    <2>5. PICK c \in head[y].entries : Copy(c, k)
      BY <2>4
    <2>6. c.mark.tree = y
      BY <2>3, <2>5 DEF Copy
    <2>7. PICK b \in head'[y].entries : Copy(c, b)
      BY <1>7, <2>6
    <2> QED
      BY <2>2, <2>5, <2>7 DEF Copy
  <1>9. Ordered'
    <2> SUFFICES ASSUME NEW x \in Calm', NEW y \in Calm', NEW c \in work'[x].entries,
                        NEW d \in work'[x].entries, c.mark.tree = y, d.mark.tree = y, c # d
                 PROVE  InOrder(c, d) \/ InOrder(d, c)
      BY DEF Ordered
    <2>1. CASE x # t
      BY <1>1, <1>3, <2>1 DEF Journals, Ordered
    <2>2. CASE x = t
      BY <1>2, <2>2
    <2> QED
      BY <2>1, <2>2
  <1>10. Prefixes'
    <2> SUFFICES ASSUME NEW x \in Calm', NEW y \in Calm', NEW c \in head'[x].entries,
                        NEW d \in work'[y].entries, d.mark.tree = y, c.mark.tree = y,
                        d.num < c.num
                 PROVE  d.mark \in Marks(head'[x].entries)
      BY DEF Prefixes
    <2>1. \E k \in work[y].entries : Copy(k, d)
      <3>1. CASE y # t
        BY <1>3, <3>1 DEF Copy
      <3>2. CASE y = t
        BY <1>2, <3>2, JoinOwn
      <3> QED
        BY <3>1, <3>2
    <2>2. PICK k \in work[y].entries : Copy(k, d)
      BY <2>1
    <2>3. k.mark = d.mark /\ k.num = d.num
      BY <2>2 DEF Copy
    <2>4. ASSUME NEW z \in Calm, NEW a \in head[z].entries, Copy(a, c)
          PROVE  d.mark \in Marks(head[z].entries)
      <3>1. a.mark.tree = y /\ k.mark.tree = y /\ k.num < a.num
        BY <2>3, <2>4 DEF Copy
      <3> QED
        BY <1>1, <2>3, <3>1 DEF Journals, Prefixes
    <2>5. CASE x # t
      BY <1>3, <2>4, <2>5 DEF Copy
    <2>6. CASE x = t
      <3>1. PICK a \in head[t].entries \cup head[u].entries : Copy(a, c)
        BY <1>2, <2>6
      <3> QED
        BY <1>2, <2>4, <2>6, <3>1
    <2> QED
      BY <2>5, <2>6
  <1> QED
    BY <1>5, <1>6, <1>8, <1>9, <1>10 DEF Journals

LEMMA JournalsNext ==
    ASSUME IInv, Next
    PROVE  Journals'
  <1>1. Calm' \subseteq Calm
    BY CalmShrinks DEF IInv
  <1>2. CASE \A t \in Calm' : Still(t)
    BY <1>1, <1>2, StillJournals DEF IInv
  <1>3. ASSUME NEW w \in Windows, Home[w] \in Calm', StillBut(Home[w]), Adds(w) \/ Commits(w)
        PROVE  Journals'
    BY <1>1, <1>3, AddsJournals, CommitJournals
  <1>4. ASSUME NEW t \in Calm, NEW u \in Calm, t \in Calm', Joins(t, u), StillBut(t)
        PROVE  Journals'
    BY <1>1, <1>4, JoinJournals
  <1> QED
    BY <1>2, <1>3, <1>4, Effects

-----------------------------------------------------------------------------
(* Files and indexes.                                                      *)

LEMMA OnlyAt ==
    ASSUME Typed, NEW t \in Trees,
           \/ InitDeveloper(t)
           \/ \E w \in Windows : /\ Home[w] = t
                                 /\ Rotated(w) \/ Adds(w) \/ Indexes(w) \/ Commits(w)
           \/ \E u \in Trees : Merge(t, u)
    PROVE  \A x \in Trees \ {t} : work'[x] = work[x] /\ head'[x] = head[x]
  <1>1. work \in [Trees -> Contents] /\ head \in [Trees -> Contents]
    BY DEF Typed, TypeOK
  <1>2. CASE InitDeveloper(t)
    BY <1>1, <1>2 DEF InitDeveloper
  <1>3. ASSUME NEW w \in Windows, Home[w] = t, Rotated(w) \/ Adds(w) \/ Indexes(w) \/ Commits(w)
        PROVE  \A x \in Trees \ {t} : work'[x] = work[x] /\ head'[x] = head[x]
    BY <1>1, <1>3 DEF Rotated, Rotate, Adds, AppendEntry, Indexes, UpdateIndex, Commits, Commit
  <1>4. ASSUME NEW u \in Trees, Merge(t, u)
        PROVE  \A x \in Trees \ {t} : work'[x] = work[x] /\ head'[x] = head[x]
    BY <1>1, <1>4 DEF Merge
  <1> QED
    BY <1>2, <1>3, <1>4

Sound(t) == FilesAt(t) /\ IndexAt(t)

LEMMA SameSound ==
    ASSUME NEW x, Sound(x), work'[x] = work[x], head'[x] = head[x]
    PROVE  Sound(x)'
  <1>1. Pending(x)' = Pending(x)
    BY DEF Pending
  <1> QED
    BY <1>1 DEF Sound, FilesAt, IndexAt

LEMMA InitDeveloperSound ==
    ASSUME IInv, NEW t \in Calm, Sound(t), InitDeveloper(t)
    PROVE  Sound(t)'
  <1>1. t \in Trees /\ work \in [Trees -> Contents] /\ work[t] \in Contents
        /\ work[t].entries \subseteq Entries /\ head' = head
    BY RecordTypes DEF IInv, Calm, Typed, TypeOK, InitDeveloper
  <1>2. \/ work[t].files = 0 /\ work'[t] = [work[t] EXCEPT !.files = 1]
        \/ ~work[t].index.made /\ work'[t] = [work[t] EXCEPT !.index = NewIndex]
    BY <1>1 DEF InitDeveloper
  <1>3. work'[t].entries = work[t].entries
    BY <1>1, <1>2 DEF Contents
  <1>4. Pending(t)' = Pending(t)
    BY <1>1, <1>3 DEF Pending
  <1>5. FilesAt(t)'
    <2>1. CASE work[t].files = 0 /\ work'[t] = [work[t] EXCEPT !.files = 1]
      <3>1. \A e \in work[t].entries : e.file <= 1
        <4>1. \A e \in work[t].entries : e.file \in Nat /\ e.file <= 0
          BY <1>1, <2>1, RecordTypes DEF IInv, Sound, FilesAt
        <4> QED
          BY <4>1
      <3>2. work'[t].files = 1
        BY <1>1, <2>1 DEF Contents
      <3> QED
        BY <1>1, <1>3, <3>1, <3>2 DEF Sound, FilesAt
    <2>2. CASE work'[t] = [work[t] EXCEPT !.index = NewIndex]
      BY <1>1, <1>3, <2>2 DEF Sound, FilesAt, Contents
    <2> QED
      BY <1>2, <2>1, <2>2
  <1>6. IndexAt(t)'
    <2>1. work'[t].index = work[t].index \/ work'[t].index = NewIndex
      BY <1>1, <1>2 DEF Contents
    <2>2. Rated(NewIndex) /\ NewIndex.rows = {}
      BY DEF NewIndex, Rated
    <2> QED
      BY <1>1, <1>3, <1>4, <2>1, <2>2 DEF Sound, IndexAt
  <1> QED
    BY <1>5, <1>6 DEF Sound

LEMMA RotateSound ==
    ASSUME IInv, NEW t \in Calm, Sound(t), NEW w \in Windows, Home[w] = t, Rotated(w)
    PROVE  Sound(t)'
  <1>1. /\ work' = [work EXCEPT ![t] = [work[t] EXCEPT !.files = work[t].files + 1]]
        /\ head' = head
    BY RotateKeeps
  <1>2. t \in Trees /\ work \in [Trees -> Contents] /\ work[t] \in Contents
        /\ work[t].entries \subseteq Entries /\ work[t].files \in Nat
    BY RecordTypes DEF IInv, Calm, Typed, TypeOK
  <1>3. /\ work'[t].entries = work[t].entries /\ work'[t].files = work[t].files + 1
        /\ work'[t].index = work[t].index
    BY <1>1, <1>2 DEF Contents
  <1>4. Pending(t)' = Pending(t)
    BY <1>1, <1>3 DEF Pending
  <1>5. \A e \in work[t].entries : e.file \in Nat /\ e.file <= work[t].files
    BY <1>2, RecordTypes DEF IInv, Sound, FilesAt
  <1>6. FilesAt(t)'
    <2>1. \A e \in work[t].entries : e.file <= work[t].files + 1
      BY <1>2, <1>5
    <2> QED
      BY <1>1, <1>3, <2>1 DEF Sound, FilesAt
  <1> QED
    BY <1>1, <1>3, <1>4, <1>6 DEF Sound, IndexAt

LEMMA AddsSound ==
    ASSUME IInv, NEW t \in Calm, Sound(t), NEW w \in Windows, Home[w] = t, Adds(w)
    PROVE  Sound(t)'
  <1> DEFINE q == win[w]
             e == Entry(q.num, q.mark, q.file, Bottom(q.snap) + 1)
  <1>1. /\ work'[t] = [work[t] EXCEPT !.entries = work[t].entries \cup {e}]
        /\ e \in Entries /\ e.mark = q.mark /\ e.num = q.num /\ e.file = work[t].files
        /\ head' = head
        /\ \A d \in work[t].entries : InOrder(d, e) /\ d.mark # e.mark
        /\ Ready(w)
    BY AppendAdds
  <1>2. t \in Trees /\ work[t] \in Contents /\ work[t].entries \subseteq Entries
        /\ work[t].files \in Nat /\ work[t].index.rows \subseteq Rows
        /\ work[t].index.total \in Nat
    BY RecordTypes DEF IInv, Calm
  <1> HIDE DEF e
  <1>3. /\ work'[t].entries = work[t].entries \cup {e} /\ work'[t].files = work[t].files
        /\ work'[t].index = work[t].index
    BY <1>1, <1>2 DEF Contents
  <1>4. FilesAt(t)'
    BY <1>1, <1>2, <1>3 DEF Sound, FilesAt
  <1>5. \A d \in Pending(t)' : d = e \/ d \in Pending(t)
    BY <1>1, <1>3 DEF Pending
  <1>6. \A d \in work[t].entries : d.num < e.num /\ d.num \in Nat /\ e.num \in Nat
    BY <1>1, <1>2, RecordTypes DEF IInv, InOrder
  <1>7. \A row \in work[t].index.rows : row.num # e.num
    <2> SUFFICES ASSUME NEW row \in work[t].index.rows
                 PROVE  row.num # e.num
      OBVIOUS
    <2>1. row.num <= work[t].index.total /\ row.num \in Nat
      BY <1>2 DEF Sound, IndexAt, Rated, Rows
    <2>2. work[t].index.total < e.num /\ e.num \in Nat
      BY <1>1, <1>2, RecordTypes DEF IInv, Ready
    <2> QED
      BY <1>2, <2>1, <2>2
  <1>8. ASSUME NEW d \in Pending(t)'
        PROVE  /\ \A c \in work'[t].entries : c.num = d.num => c = d
               /\ \A row \in work'[t].index.rows : row.num = d.num => row.rec = d.mark.rec
    <2>1. CASE d = e
      BY <1>3, <1>6, <1>7, <2>1
    <2>2. CASE d \in Pending(t)
      <3>1. d \in work[t].entries
        BY <2>2 DEF Pending
      <3> QED
        BY <1>3, <1>6, <2>2, <3>1 DEF Sound, IndexAt
    <2> QED
      BY <1>5, <2>1, <2>2
  <1>9. IndexAt(t)'
    BY <1>1, <1>3, <1>8 DEF Sound, IndexAt
  <1> QED
    BY <1>4, <1>9 DEF Sound

LEMMA IndexesSound ==
    ASSUME IInv, NEW t \in Calm, Sound(t), NEW w \in Windows, Home[w] = t, Indexes(w)
    PROVE  Sound(t)'
  <1> DEFINE q == win[w]
             x == UpdatedIndex(q)
  <1>1. t \in Trees /\ work \in [Trees -> Contents] /\ work[t] \in Contents
        /\ work[t].entries \subseteq Entries /\ work[t].index.total \in Nat
        /\ work[t].index.rows \subseteq Rows
    BY RecordTypes DEF IInv, Calm, Typed, TypeOK
  <1>2. work' = [work EXCEPT ![t].index = x] /\ head' = head /\ q.pc = "row"
    BY DEF Indexes, UpdateIndex
  <1> HIDE DEF x
  <1>3. work'[t].entries = work[t].entries /\ work'[t].files = work[t].files
        /\ work'[t].index = x
    BY <1>1, <1>2 DEF Contents
  <1>4. /\ q.rows = work[t].index.rows /\ work[t].index.total <= q.num
        /\ q.mark.rec = q.rec /\ Held(w) /\ q.num \in Nat
    BY <1>2, WindowTypes DEF IInv, AtWork, Steady
  <1>5. x.made = TRUE /\ x.total = q.num /\ x.rows = q.rows \cup {Row(q.num, q.rec)}
    BY DEF x, UpdatedIndex
  <1>6. Row(q.num, q.rec).num = q.num /\ Row(q.num, q.rec).rec = q.rec
    BY DEF Row
  <1>7. Pending(t)' = Pending(t)
    BY <1>2, <1>3 DEF Pending
  <1>8. Rated(x)
    <2>1. \A row \in q.rows : row.num <= work[t].index.total /\ row.num \in Nat
      BY <1>1, <1>4 DEF Sound, IndexAt, Rated, Rows
    <2> QED
      BY <1>1, <1>4, <1>5, <1>6, <2>1 DEF Rated
  <1>9. PICK h \in work[t].entries : h.mark = q.mark /\ h.num = q.num
    BY <1>4 DEF Held
  <1>10. ASSUME NEW d \in Pending(t), d.num = q.num
         PROVE  d.mark.rec = q.rec
    <2>1. h = d
      BY <1>9, <1>10 DEF Sound, IndexAt
    <2> QED
      BY <1>4, <1>9, <2>1
  <1>11. IndexAt(t)'
    BY <1>2, <1>3, <1>4, <1>5, <1>6, <1>7, <1>8, <1>10 DEF Sound, IndexAt
  <1>12. FilesAt(t)'
    BY <1>2, <1>3 DEF Sound, FilesAt
  <1> QED
    BY <1>11, <1>12 DEF Sound

LEMMA CommitSound ==
    ASSUME IInv, NEW t \in Calm, Sound(t), NEW w \in Windows, Home[w] = t, Commits(w)
    PROVE  Sound(t)'
  <1> DEFINE h == Committed(t, win[w])
  <1>1. /\ work' = work /\ head'[t] = h
        /\ head[t].entries \subseteq head'[t].entries
        /\ head'[t].entries \subseteq work[t].entries
        /\ \A e \in work[t].entries : e \in head'[t].entries <=>
                     e.file <= win[w].file \/ e \in head[t].entries
        /\ head'[t].index = work[t].index
    BY CommitKeeps
  <1>2. /\ h.files \in Nat /\ h.files >= head[t].files /\ h.files >= win[w].file
        /\ t \in Trees /\ win[w].file \in Nat /\ head[t].files \in Nat
        /\ work[t].entries \subseteq Entries
    BY CommittedIs, RecordTypes, WindowTypes DEF IInv, Calm
  <1> HIDE DEF h
  <1>3. ASSUME NEW e \in head'[t].entries
        PROVE  e.file <= h.files
    <2>1. e \in work[t].entries /\ e.file \in Nat
      BY <1>1, <1>2, RecordTypes DEF IInv
    <2>2. e.file <= win[w].file \/ e.file <= head[t].files
      BY <1>1, <2>1 DEF Sound, FilesAt
    <2> QED
      BY <1>2, <2>1, <2>2
  <1>4. FilesAt(t)'
    BY <1>1, <1>3 DEF Sound, FilesAt
  <1>5. Pending(t)' \subseteq Pending(t)
    BY <1>1 DEF Pending, Marks
  <1>6. IndexAt(t)'
    BY <1>1, <1>5 DEF Sound, IndexAt
  <1> QED
    BY <1>4, <1>6 DEF Sound

LEMMA JoinSound ==
    ASSUME IInv, Typed', NEW t \in Calm, NEW u \in Calm, Sound(t), Sound(u), Joins(t, u)
    PROVE  Sound(t)'
  <1>1. /\ work'[t] = head'[t]
        /\ \A e \in head'[t].entries : \E d \in head[t].entries \cup head[u].entries : Copy(d, e)
        /\ head'[t].index \in {head[t].index, head[u].index}
        /\ head'[t].files >= head[t].files /\ head'[t].files >= head[u].files
    BY DEF Joins
  <1>2. head'[t].files \in Nat /\ head[t].files \in Nat /\ head[u].files \in Nat
    <2>1. head' \in [Trees -> Contents]
      BY DEF Typed, TypeOK
    <2> QED
      BY <2>1, RecordTypes DEF IInv, Calm, Contents
  <1>3. Pending(t)' = {}
    BY <1>1 DEF Pending, Marks
  <1>4. IndexAt(t)'
    BY <1>1, <1>3 DEF Sound, IndexAt
  <1>5. FilesAt(t)'
    <2> SUFFICES ASSUME NEW e \in head'[t].entries
                 PROVE  e.file <= head'[t].files
      BY <1>1 DEF FilesAt
    <2>1. PICK d \in head[t].entries \cup head[u].entries : Copy(d, e)
      BY <1>1
    <2>2. d.file \in Nat /\ (d.file <= head[t].files \/ d.file <= head[u].files)
      BY RecordTypes DEF IInv, Calm, Sound, FilesAt
    <2>3. d.file <= head'[t].files
      BY <1>1, <1>2, <2>2
    <2> QED
      BY <2>1, <2>3 DEF Copy
  <1> QED
    BY <1>4, <1>5 DEF Sound

LEMMA SoundNext ==
    ASSUME IInv, Typed', Next
    PROVE  FilesOK' /\ IndexOK'
  <1>1. Typed /\ Calm' \subseteq Calm /\ Calm \subseteq Trees
    BY CalmShrinks DEF IInv, Calm
  <1>2. \A x \in Calm : Sound(x)
    BY DEF IInv, FilesOK, IndexOK, Sound
  <1>3. SUFFICES ASSUME NEW t \in Calm'
                 PROVE  Sound(t)'
    BY DEF FilesOK, IndexOK, Sound
  <1>4. t \in Calm /\ t \in Trees /\ Sound(t)
    BY <1>1, <1>2
  <1>5. CASE UNCHANGED <<work, head>>
    BY <1>4, <1>5, SameSound
  <1>6. ASSUME NEW x \in Trees, InitDeveloper(x)
        PROVE  Sound(t)'
    <2>1. CASE x = t
      BY <1>4, <1>6, <2>1, InitDeveloperSound
    <2>2. CASE x # t
      BY <1>1, <1>4, <1>6, <2>2, OnlyAt, SameSound
    <2> QED
      BY <2>1, <2>2
  <1>7. ASSUME NEW w \in Windows, Rotated(w) \/ Adds(w) \/ Indexes(w) \/ Commits(w)
        PROVE  Sound(t)'
    <2>1. CASE Home[w] = t
      BY <1>4, <1>7, <2>1, RotateSound, AddsSound, IndexesSound, CommitSound
    <2>2. CASE Home[w] # t
      <3>1. Home[w] \in Trees
        BY <1>1, WindowTypes
      <3>2. work'[t] = work[t] /\ head'[t] = head[t]
        BY <1>1, <1>4, <1>7, <2>2, <3>1, OnlyAt
      <3> QED
        BY <1>4, <3>2, SameSound
    <2> QED
      BY <2>1, <2>2
  <1>8. ASSUME NEW x \in Trees, NEW u \in Trees, Merge(x, u)
        PROVE  Sound(t)'
    <2>1. CASE x = t
      <3>1. u \in Calm
        BY <1>1, <1>8, <2>1, CalmShrinks
      <3>2. Joins(t, u)
        BY <1>4, <1>8, <2>1, <3>1, MergeJoins
      <3> QED
        BY <1>2, <1>4, <3>1, <3>2, JoinSound
    <2>2. CASE x # t
      <3>1. work'[t] = work[t] /\ head'[t] = head[t]
        BY <1>1, <1>4, <1>8, <2>2, OnlyAt
      <3> QED
        BY <1>4, <3>1, SameSound
    <2> QED
      BY <2>1, <2>2
  <1> QED
    BY <1>1, <1>5, <1>6, <1>7, <1>8, FileSteps

\* Only one command of a calm checkout starts to record.
LEMMA SoloNext ==
    ASSUME IInv, Next
    PROVE  Solo'
  <1>1. Typed /\ Solo /\ Calm' \subseteq Calm
    BY CalmShrinks DEF IInv
  <1>2. SUFFICES ASSUME NEW v \in Windows, NEW w \in Windows,
                        win'[v].pc \in Recording, win'[w].pc \in Recording,
                        Home[v] = Home[w], Home[w] \in Calm'
                 PROVE  v = w
    BY DEF Solo
  <1>3. CASE win' = win
    BY <1>1, <1>2, <1>3 DEF Solo
  <1>4. ASSUME NEW a \in Windows, Command(a) \/ Kill(a)
        PROVE  v = w
    <2>1. \A b \in Windows \ {a} : win'[b] = win[b]
      BY <1>1, <1>4, WindowSteps
    <2>2. CASE win[a].pc \in Recording
      BY <1>1, <1>2, <2>1, <2>2 DEF Solo
    <2>3. CASE v # a /\ w # a
      BY <1>1, <1>2, <2>1, <2>3 DEF Solo
    <2>4. CASE win[a].pc \notin Recording /\ win'[a].pc \in Recording /\ Home[a] = Home[w]
      <3>1. Preflight(a) /\ win'[a].pc = "classify"
        BY <1>1, <1>4, <2>4, WindowSteps DEF Recording, Edges, IdleWin
      <3>2. Home[a] \in Trees /\ raced \in [Trees -> BOOLEAN]
        BY <1>1, WindowTypes DEF Typed, TypeOK
      <3>3. \A b \in Windows : Home[b] = Home[a] => win[b].pc \notin Recording
        <4>1. UNCHANGED win \/ win'[a] = IdleWin \/
              raced' = [raced EXCEPT ![Home[a]] = \/ @
                \/ \E b \in Windows : Home[b] = Home[a] /\ win[b].pc \in Recording]
          BY <3>1, <1>1 DEF Preflight, Fail, Typed, TypeOK
        <4>2. win'[a] # IdleWin
          BY <3>1 DEF IdleWin
        <4>3. win' # win
          BY <2>4
        <4> DEFINE p == \E b \in Windows : Home[b] = Home[a] /\ win[b].pc \in Recording
        <4>4. raced'[Home[a]] = (raced[Home[a]] \/ p)
          <5> HIDE DEF p
          <5>1. raced' = [raced EXCEPT ![Home[a]] = raced[Home[a]] \/ p]
            BY <4>1, <4>2, <4>3 DEF p
          <5> QED
            BY <3>2, <5>1
        <4>5. ~raced'[Home[a]]
          BY <1>2, <2>4 DEF Calm
        <4> QED
          BY <4>4, <4>5
      <3>4. \A b \in Windows \ {a} : Home[b] = Home[a] => win'[b].pc \notin Recording
        BY <2>1, <3>3
      <3> QED
        BY <1>2, <2>4, <3>4
    <2>5. CASE (v = a \/ w = a) /\ win[a].pc \notin Recording
      BY <1>2, <2>4, <2>5
    <2> QED
      BY <2>2, <2>3, <2>5
  <1> QED
    BY <1>1, <1>3, <1>4, StepOf

-----------------------------------------------------------------------------
(* What a command settles on.                                              *)

LEMMA ClassifyCommitted ==
    ASSUME IInv, NEW t \in Calm, NEW m
    PROVE  Classify(t, m) = "committed" <=> m \in Marks(head[t].entries)
  <1> DEFINE hits == FindMarker(work[t].entries, m)
  <1>1. Classify(t, m) = "committed" <=>
             hits # {} /\ ~(Cardinality(hits) > 1) /\ m \in Marks(head[t].entries)
    BY ClassifyIs
  <1>2. m \in Marks(head[t].entries) => hits # {}
    BY DEF IInv, Journals, Kept, Marks, FindMarker
  <1>3. \A d, e \in hits : d = e
    BY DEF IInv, Journals, Kept, FindMarker
  <1>4. ~(Cardinality(hits) > 1)
    <2> HIDE DEF hits
    <2>1. hits = {} \/ \E e : hits = {e}
      BY <1>3
    <2> QED
      BY <2>1, FS_EmptySet, FS_Singleton
  <1> QED
    BY <1>1, <1>2, <1>4

LEMMA MarkIs ==
    ASSUME Typed, NEW t \in Trees, NEW r, NEW m \in Markers,
           m.tree = t, m.rec = r, m.ctx = context[t], m.date = 0
    PROVE  m = RecordMarker(t, r, m.gen)
  BY DEF Markers, RecordMarker, Mark

LEMMA EffectiveIs ==
    ASSUME IInv, NEW t \in Calm, NEW r \in Records, NEW m0 \in EffectiveMarkers(t, r)
    PROVE  /\ m0.tree = t /\ m0.rec = r /\ m0.ctx = context[t] /\ m0.gen = 0
           /\ \A f \in First(t, r, context[t]) : f.mark = m0
           /\ m0 \notin Marks(work[t].entries) => m0 = RecordMarker(t, r, 0)
  <1> DEFINE v2 == RecordMarker(t, r, 0)
             M == Marks(work[t].entries)
             F == First(t, r, context[t])
  <1>1. /\ Typed /\ t \in Trees /\ context[t] \in Nat
        /\ work[t].entries \subseteq Entries /\ M \subseteq Markers
    BY RecordTypes DEF IInv, Calm
  <1>2. v2.tree = t /\ v2.rec = r /\ v2.ctx = context[t] /\ v2.gen = 0 /\ v2.date = 0
    BY DEF RecordMarker, Mark
  <1>3. \A m \in LegacyMatches(t, r) :
            /\ m \in M /\ m.tree = t /\ m.rec = r /\ m.ctx = context[t] /\ m.date # 0
            /\ m.gen = 0
    <2> SUFFICES ASSUME NEW m \in LegacyMatches(t, r)
                 PROVE  /\ m \in M /\ m.tree = t /\ m.rec = r
                        /\ m.ctx = context[t] /\ m.date # 0
                        /\ m.gen = 0
      OBVIOUS
    <2>1. m \in M /\ m.tree = t /\ m.rec = r /\ m.ctx = context[t] /\ m.date # 0
      BY DEF LegacyMatches
    <2>2. PICK e \in work[t].entries : e.mark = m
      BY <2>1 DEF Marks
    <2>3. m.gen \in Nat
      BY <1>1, <2>1 DEF Markers
    <2>4. ~(m.gen > 0)
      BY <2>1, <2>2 DEF IInv, Journals, Generations
    <2> QED
      BY <2>1, <2>3, <2>4
  <1>4. \A f \in F : f.mark = v2 \/ f.mark \in LegacyMatches(t, r)
    <2> SUFFICES ASSUME NEW f \in F, f.mark.date = 0
                 PROVE  f.mark = v2
      BY DEF First, LegacyMatches, Marks
    <2> QED
      BY <1>1, MarkIs DEF First, Marks
  <1>5. \A d, e \in F : d = e
    BY <1>1 DEF IInv, Journals, Generations
  <1>6. \A m \in {v2} \cup LegacyMatches(t, r) : m \in M => \E e \in F : e.mark = m
    BY <1>2, <1>3 DEF Marks, First
  <1> HIDE DEF v2, F, M
  <1>7. CASE m0 = v2 /\ (v2 \in M \/ LegacyMatches(t, r) = {})
    BY <1>2, <1>4, <1>5, <1>6, <1>7 DEF v2, F, M
  <1>8. CASE m0 \in LegacyMatches(t, r) /\ v2 \notin M
    <2>1. m0 \in M
      BY <1>3, <1>8
    <2>2. PICK e \in F : e.mark = m0
      BY <1>6, <1>8, <2>1
    <2>3. \A f \in F : f.mark = m0
      BY <1>5, <2>2
    <2> QED
      BY <1>3, <1>8, <2>1, <2>3 DEF F, M
  <1> QED
    BY <1>7, <1>8 DEF EffectiveMarkers, v2, M

\* The generation a command settles on when no entry has its marker.
LEMMA AbsentIs ==
    ASSUME IInv, NEW t \in Calm, NEW r \in Records, NEW m0 \in EffectiveMarkers(t, r),
           ~AlreadyDone(t, r, m0),
           NEW m, m = GenMarker(t, r, m0, Generation(t, r, m0)),
           Classify(t, m) = "absent"
    PROVE  /\ m \notin Marks(work[t].entries)
           /\ m.date = 0
           /\ m.gen = 0 => First(t, r, context[t]) = {}
           /\ m.gen > 0 => r \notin Keyed /\ Preceded(t, m)
           /\ Resumable(t, r) = {}
  <1> DEFINE g == Generation(t, r, m0)
             H == Marks(head[t].entries)
             M == Marks(work[t].entries)
             c == context[t]
  <1>1. /\ Typed /\ t \in Trees /\ c \in Nat
        /\ work[t].entries \subseteq Entries /\ M \subseteq Markers
    BY RecordTypes DEF IInv, Calm
  <1>2. m \notin M
    BY ClassifyIs DEF FindMarker, Marks
  <1>3. /\ g \in Nat
        /\ GenMarker(t, r, m0, g) \notin H
        /\ \A k \in 0..(g - 1) : GenMarker(t, r, m0, k) \in H
    BY <1>1, GenerationIs, ClassifyCommitted
  <1>4. GenMarker(t, r, m0, 0) = m0
        /\ \A k \in Nat : k > 0 => GenMarker(t, r, m0, k) = RecordMarker(t, r, k)
    BY DEF GenMarker
  <1>5. /\ m0.tree = t /\ m0.rec = r /\ m0.ctx = c /\ m0.gen = 0
        /\ \A f \in First(t, r, c) : f.mark = m0
        /\ m0 \notin M => m0 = RecordMarker(t, r, 0)
    BY EffectiveIs
  <1>6. \A k : RecordMarker(t, r, k) = Mark(t, r, c, k, 0)
               /\ Mark(t, r, c, k, 0).date = 0 /\ Mark(t, r, c, k, 0).gen = k
               /\ Mark(t, r, c, k, 0).rec = r /\ Mark(t, r, c, k, 0).ctx = c
    BY DEF RecordMarker, Mark
  <1>7. H \subseteq M
    BY DEF IInv, Journals, Kept, Marks
  <1> HIDE DEF g, H, M, c
  <1>8. m = GenMarker(t, r, m0, g)
    BY DEF g
  <1>9. CASE g = 0
    <2>1. m = m0 /\ m0 = RecordMarker(t, r, 0)
      BY <1>2, <1>4, <1>5, <1>8, <1>9
    <2>2. First(t, r, c) = {}
      <3> SUFFICES ASSUME NEW f \in First(t, r, c)
                   PROVE  FALSE
        OBVIOUS
      <3>1. f.mark = m0 /\ f.mark \in M
        BY <1>5 DEF First, M, Marks
      <3> QED
        BY <1>2, <2>1, <3>1
    <2>3. Resumable(t, r) = {}
      <3> SUFFICES ASSUME NEW p \in Resumable(t, r)
                   PROVE  FALSE
        OBVIOUS
      <3>1. /\ p \in work[t].entries /\ p.mark.tree = t /\ p.mark.rec = r /\ p.mark.ctx = c
            /\ p.mark.gen \in Nat
        BY <1>1, RecordTypes DEF Resumable, Pending, c, Markers
      <3>2. CASE p.mark.gen = 0
        BY <2>2, <3>1, <3>2 DEF First
      <3>3. CASE p.mark.gen > 0
        <4>1. \E e \in First(t, r, c) : e \in head[t].entries
          BY <3>1, <3>3 DEF IInv, Journals, Generations, Preceded
        <4> QED
          BY <2>2, <4>1
      <3> QED
        BY <3>1, <3>2, <3>3
    <2> QED
      BY <1>2, <1>6, <2>1, <2>2, <2>3 DEF c, M
  <1>10. CASE g > 0
    <2>1. m = RecordMarker(t, r, g) /\ m0 \in H
      <3>1. 0 \in 0..(g - 1)
        BY <1>3, <1>10
      <3> QED
        BY <1>3, <1>4, <1>8, <1>10, <3>1
    <2>2. r \notin Keyed
      BY <2>1, ClassifyCommitted DEF AlreadyDone, H
    <2>3. Preceded(t, m)
      <3>1. \A k \in 1..(g - 1) : Mark(t, r, c, k, 0) \in H
        <4> SUFFICES ASSUME NEW k \in 1..(g - 1)
                     PROVE  Mark(t, r, c, k, 0) \in H
          OBVIOUS
        <4>1. k \in 0..(g - 1) /\ k \in Nat /\ k > 0
          BY <1>3
        <4> QED
          BY <1>3, <1>4, <1>6, <4>1
      <3>2. \E e \in First(t, r, c) : e \in head[t].entries
        <4>1. PICK e \in head[t].entries : e.mark = m0
          BY <2>1 DEF H, Marks
        <4>2. e \in work[t].entries
          BY DEF IInv, Journals, Kept
        <4> QED
          BY <1>5, <4>1, <4>2 DEF First
      <3>3. m.gen = g /\ m.rec = r /\ m.ctx = c
        BY <1>6, <2>1
      <3> QED
        BY <3>1, <3>2, <3>3 DEF Preceded, H
    <2>4. Resumable(t, r) = {}
      <3> SUFFICES ASSUME NEW p \in Resumable(t, r)
                   PROVE  FALSE
        OBVIOUS
      <3>1. /\ p \in work[t].entries /\ p.mark.tree = t /\ p.mark.rec = r /\ p.mark.ctx = c
            /\ p.mark.gen \in Nat /\ p.mark \notin H /\ p.mark \in Markers /\ p.mark \in M
        BY <1>1, RecordTypes DEF Resumable, Pending, c, Markers, H, M, Marks
      <3>2. CASE p.mark.gen = 0
        <4>1. p.mark = m0
          BY <1>5, <3>1, <3>2 DEF First
        <4> QED
          BY <2>1, <3>1, <4>1
      <3>3. CASE p.mark.gen > 0
        <4>1. p.mark.date = 0 /\ \A k \in 1..(p.mark.gen - 1) : Mark(t, r, c, k, 0) \in H
          BY <3>1, <3>3 DEF IInv, Journals, Generations, Preceded, H
        <4>2. p.mark = RecordMarker(t, r, p.mark.gen)
          BY <1>1, <3>1, <4>1, MarkIs DEF c
        <4> DEFINE j == p.mark.gen
        <4>3. j \in Nat /\ j > 0 /\ p.mark = RecordMarker(t, r, j)
          BY <3>1, <3>3, <4>2
        <4> HIDE DEF j
        <4>4. ~(j < g)
          <5>1. SUFFICES ASSUME j < g
                         PROVE  FALSE
            OBVIOUS
          <5>2. j \in 0..(g - 1)
            BY <1>3, <4>3, <5>1
          <5> QED
            BY <1>3, <1>4, <3>1, <4>3, <5>2
        <4>5. ~(g < j)
          <5>1. SUFFICES ASSUME g < j
                         PROVE  FALSE
            OBVIOUS
          <5>2. g \in 1..(j - 1)
            BY <1>3, <1>10, <4>3, <5>1
          <5>3. RecordMarker(t, r, g) \in H
            BY <1>6, <4>1, <5>2 DEF j
          <5> QED
            BY <1>3, <1>8, <2>1, <5>3
        <4>6. g = j
          BY <1>3, <4>3, <4>4, <4>5
        <4> QED
          BY <1>2, <2>1, <3>1, <4>3, <4>6
      <3> QED
        BY <3>1, <3>2, <3>3
    <2> QED
      BY <1>2, <1>6, <1>10, <2>1, <2>2, <2>3, <2>4 DEF M
  <1> QED
    BY <1>3, <1>9, <1>10

LEMMA ClassifySteady ==
    ASSUME IInv, NEW w \in Windows, ClassifyRecord(w), Home[w] \in Calm
    PROVE  Steady(w)'
  <1> DEFINE t == Home[w]
             q == win[w]
             r == win[w].rec
  <1>1. /\ Typed /\ t \in Trees /\ t \in Calm /\ win \in [Windows -> Commands]
        /\ q \in Commands /\ r \in Records
        /\ work' = work /\ head' = head /\ context' = context
    BY WindowTypes DEF IInv, Typed, TypeOK, ClassifyRecord, files, drift
  <1>2. CASE Fail(w) \/ Succeed(w)
    <2>1. win'[w] = IdleWin
      BY <1>1, <1>2 DEF Fail, Succeed
    <2> QED
      BY <2>1 DEF Steady, IdleWin
  <1>3. ASSUME NEW m0 \in EffectiveMarkers(t, r),
               NEW m, m = GenMarker(t, r, m0, Generation(t, r, m0)),
               ~AlreadyDone(t, r, m0), Settles(w, m)
        PROVE  Steady(w)'
    <2> DEFINE state == Classify(t, m)
               hits == FindMarker(work[t].entries, m)
               e == CHOOSE x \in hits : TRUE
    <2>1. /\ m \in Markers
          /\ state \in {"absent", "journal-recorded", "index-recorded"}
      BY <1>3 DEF Settles
    <2>2. PICK num \in Nat, pc \in {"index", "recorded", "rotate", "read"} :
              /\ state = "absent" => num = NextSession(t) /\ pc \in {"rotate", "read"}
                                     /\ work[t].files # 0
              /\ state # "absent" =>
                    /\ hits # {}
                    /\ num = e.num
                    /\ pc = IF state = "journal-recorded" THEN "index" ELSE "recorded"
              /\ win' = [win EXCEPT ![w] = [win[w] EXCEPT !.mark = m, !.num = num,
                                                !.file = work[t].files, !.pc = pc]]
      BY <1>3 DEF Settles
    <2>3. /\ win'[w].mark = m /\ win'[w].num = num /\ win'[w].file = work[t].files
          /\ win'[w].pc = pc /\ win'[w].rec = r
      BY <1>1, <2>2 DEF Commands
    <2>4. m.tree = t /\ m.rec = r /\ m.ctx = context[t]
      <3>1. m = m0 \/ \E k \in Nat : m = RecordMarker(t, r, k)
        BY <1>1, <1>3, GenerationIs DEF GenMarker
      <3>2. m0.tree = t /\ m0.rec = r /\ m0.ctx = context[t]
        BY <1>1, <1>3, EffectiveIs
      <3> QED
        BY <3>1, <3>2 DEF RecordMarker, Mark
    <2>5. \A x, c : First(t, x, c)' = First(t, x, c)
      BY <1>1 DEF First
    <2>6. CASE state = "absent"
      <3>1. /\ m \notin Marks(work[t].entries)
            /\ m.date = 0
            /\ m.gen = 0 => First(t, r, context[t]) = {}
            /\ m.gen > 0 => r \notin Keyed /\ Preceded(t, m)
            /\ Resumable(t, r) = {}
        BY <1>1, <1>3, <2>6, AbsentIs
      <3>2. /\ \A k \in work[t].entries : k.num < num
            /\ work[t].index.total < num
        BY <1>1, <2>2, <2>6, NextSessionIs
      <3>3. work[t].files > 0
        BY <1>1, <2>2, <2>6, RecordTypes
      <3>4. Resumable(t, r)' = Resumable(t, r) /\ (Preceded(t, m) => Preceded(t, m)')
        <4>1. Resumable(t, r)' = Resumable(t, r)
          <5>1. Pending(t)' = Pending(t) /\ context'[t] = context[t]
            BY <1>1 DEF Pending
          <5> QED
            BY <2>3, <5>1 DEF Resumable
        <4>2. Preceded(t, m) => Preceded(t, m)'
          BY <1>1 DEF Preceded, First
        <4> QED
          BY <4>1, <4>2
      <3>5. Ready(w)'
        BY <1>1, <2>3, <2>5, <3>1, <3>2, <3>3, <3>4 DEF Ready
      <3>6. pc \in {"rotate", "read"}
        BY <2>2, <2>6
      <3> QED
        BY <1>1, <2>3, <2>4, <3>5, <3>6 DEF Steady
    <2>7. CASE state # "absent"
      <3>1. e \in work[t].entries /\ e.mark = m /\ e.num = num
        BY <2>2, <2>7 DEF FindMarker
      <3>2. Held(w)'
        <4> HIDE DEF e
        <4>1. pc \notin {"staged", "commit"}
          BY <2>2
        <4> QED
          BY <1>1, <2>3, <3>1, <4>1 DEF Held
      <3>3. CASE state = "journal-recorded"
        <4>1. pc = "index"
          BY <2>2, <3>3
        <4>2. work[t].index.total <= num
          <5>1. ~(work[t].index.total > e.num)
            BY <3>3, ClassifyIs
          <5>2. work[t].index.total \in Nat
            BY <1>1, RecordTypes
          <5> HIDE DEF e
          <5> QED
            BY <3>1, <5>1, <5>2
        <4> QED
          BY <1>1, <2>3, <2>4, <3>2, <4>1, <4>2 DEF Steady
      <3>4. CASE state = "index-recorded"
        <4>1. pc = "recorded"
          BY <2>2, <3>4
        <4>2. IndexHasRow(work[t].index, e.num) /\ m \notin Marks(head[t].entries)
          BY <3>4, ClassifyIs
        <4>3. e \in Pending(t)
          <5> HIDE DEF e
          <5> QED
            BY <3>1, <4>2 DEF Pending
        <4>4. PICK row \in work[t].index.rows : row.num = e.num
          BY <4>2 DEF IndexHasRow
        <4>5. row.rec = r
          <5> HIDE DEF e
          <5> QED
            BY <1>1, <2>4, <3>1, <4>3, <4>4 DEF IInv, IndexOK, IndexAt
        <4>6. row = Row(num, r)
          <5>1. row \in Rows
            BY <1>1, RecordTypes
          <5> HIDE DEF e
          <5> QED
            BY <3>1, <4>4, <4>5, <5>1 DEF Rows, Row
        <4> QED
          BY <1>1, <2>3, <2>4, <3>2, <4>1, <4>4, <4>6 DEF Steady
      <3> QED
        BY <2>1, <2>7, <3>3, <3>4
    <2> QED
      BY <2>6, <2>7
  <1> QED
    BY <1>1, <1>2, <1>3, ClassifySteps

-----------------------------------------------------------------------------
(* The commands keep up with the files.                                    *)

\* A command of another window, or of the environment, in the same checkout.
LEMMA SameSteady ==
    ASSUME NEW w \in Windows, Steady(w), win'[w] = win[w], work'[Home[w]] = work[Home[w]],
           head'[Home[w]] = head[Home[w]], context'[Home[w]] = context[Home[w]]
    PROVE  Steady(w)'
  <1>1. Held(w)' = Held(w)
    BY DEF Held
  <1>2. Ready(w) => Ready(w)'
    BY DEF Ready, First, Preceded, Resumable, Pending
  <1> QED
    BY <1>1, <1>2 DEF Steady

LEMMA IdleSteady ==
    ASSUME NEW w \in Windows, win'[w].pc \in {"idle", "preflight", "classify"}
    PROVE  Steady(w)'
  BY DEF Steady

\* The recording command of a calm checkout leaves what the others of the
\* checkout rely on.
LEMMA RecordingLeaves ==
    ASSUME IInv, NEW w \in Windows, NEW v \in Windows, v # w, Home[v] = Home[w],
           Home[w] \in Calm, Steady(w), win'[w] = win[w], context' = context,
           Rotated(v) \/ Adds(v) \/ Indexes(v)
    PROVE  Steady(w)'
  <1> DEFINE t == Home[w]
             q == win[w]
  <1>1. /\ Typed /\ t \in Trees /\ work \in [Trees -> Contents] /\ work[t] \in Contents
        /\ q.pc \in Phases
    BY RecordTypes, WindowTypes DEF IInv, Typed, TypeOK
  <1>2. win[v].pc \in Recording
    BY DEF Rotated, Rotate, Adds, AppendEntry, Indexes, UpdateIndex, Recording
  <1>3. q.pc \notin Recording
    BY <1>2 DEF IInv, Solo
  <1>4. q.pc \in {"idle", "preflight", "recorded", "staged", "commit", "verify"}
    BY <1>1, <1>3 DEF Phases
  <1>5. /\ head' = head /\ work[t].entries \subseteq work'[t].entries
        /\ work[t].index.rows \subseteq work'[t].index.rows
    <2>1. CASE Rotated(v)
      <3>1. /\ work' = [work EXCEPT ![t] = [work[t] EXCEPT !.files = work[t].files + 1]]
            /\ head' = head
        BY <2>1, RotateKeeps
      <3> QED
        BY <1>1, <3>1 DEF Contents
    <2>2. CASE Adds(v)
      <3> DEFINE e == Entry(win[v].num, win[v].mark, win[v].file, Bottom(win[v].snap) + 1)
      <3>1. work'[t] = [work[t] EXCEPT !.entries = work[t].entries \cup {e}] /\ head' = head
        BY <2>2, AppendAdds
      <3> HIDE DEF e
      <3> QED
        BY <1>1, <3>1 DEF Contents
    <2>3. CASE Indexes(v)
      <3> DEFINE x == UpdatedIndex(win[v])
      <3>1. work' = [work EXCEPT ![t].index = x] /\ head' = head
            /\ win[v].pc = "row"
        BY <2>3 DEF Indexes, UpdateIndex
      <3>2. win[v].rows = work[t].index.rows
        BY <3>1 DEF IInv, AtWork, Steady
      <3>3. work[t].index.rows \subseteq x.rows
        BY <3>2 DEF UpdatedIndex
      <3> HIDE DEF x
      <3> QED
        BY <1>1, <3>1, <3>3 DEF Contents
    <2> QED
      BY <2>1, <2>2, <2>3
  <1>6. Held(w) => Held(w)'
    BY <1>5 DEF Held
  <1> QED
    BY <1>4, <1>5, <1>6 DEF Steady

LEMMA CommitLeaves ==
    ASSUME IInv, NEW w \in Windows, NEW v \in Windows, v # w, Home[v] = Home[w],
           Home[w] \in Calm, Steady(w), win'[w] = win[w], context' = context, Commits(v)
    PROVE  Steady(w)'
  <1> DEFINE t == Home[w]
             q == win[w]
  <1>1. /\ work' = work /\ head[t].entries \subseteq head'[t].entries
        /\ head'[t].index = work[t].index
    BY CommitKeeps
  <1>2. Held(w) => Held(w)'
    BY <1>1 DEF Held
  <1>3. Marks(head[t].entries) \subseteq Marks(head'[t].entries)
    BY <1>1 DEF Marks
  <1>4. Ready(w) => Ready(w)'
    <2>1. Resumable(t, q.rec)' \subseteq Resumable(t, q.rec)
      BY <1>1, <1>3 DEF Resumable, Pending
    <2>2. Preceded(t, q.mark) => Preceded(t, q.mark)'
      BY <1>1, <1>3 DEF Preceded, First
    <2>3. First(t, q.rec, context[t])' = First(t, q.rec, context[t])
      BY <1>1 DEF First
    <2> QED
      BY <1>1, <2>1, <2>2, <2>3 DEF Ready
  <1> QED
    BY <1>1, <1>2, <1>3, <1>4 DEF Steady

LEMMA EnvironmentLeaves ==
    ASSUME IInv, win' = win, NEW w \in Windows, Home[w] \in Calm, Steady(w),
           \/ \E x \in Trees : InitDeveloper(x) \/ ChangeContext(x)
           \/ \E x, u \in Trees : Merge(x, u)
           \/ NextDay
    PROVE  Steady(w)'
  <1> DEFINE t == Home[w]
             q == win[w]
  <1>1. /\ Typed /\ t \in Trees /\ work \in [Trees -> Contents] /\ work[t] \in Contents
        /\ context \in [Trees -> Nat] /\ IndexAt(t)
    BY RecordTypes, WindowTypes DEF IInv, Typed, TypeOK, IndexOK
  <1>2. CASE q.pc = "idle"
    BY <1>2, IdleSteady
  <1>3. CASE q.pc # "idle"
    <2>1. CASE UNCHANGED <<work, head, context>>
      BY <2>1, SameSteady
    <2>2. ASSUME NEW x \in Trees, InitDeveloper(x)
          PROVE  Steady(w)'
      <3>1. head' = head /\ context' = context
        BY <2>2 DEF InitDeveloper, drift
      <3>2. CASE x # t
        BY <1>1, <2>2, <3>1, <3>2, SameSteady DEF InitDeveloper
      <3>3. CASE x = t
        <4>1. /\ work'[t].entries = work[t].entries
              /\ \/ work[t].files = 0 /\ work'[t].index = work[t].index
                 \/ /\ ~work[t].index.made /\ work'[t].index = NewIndex
                    /\ work'[t].files = work[t].files
          BY <1>1, <2>2, <3>3 DEF InitDeveloper, Contents
        <4>2. Held(w)' = Held(w)
          BY <4>1 DEF Held
        <4>3. Pending(t)' = Pending(t)
          BY <3>1, <4>1 DEF Pending
        <4>4. Resumable(t, q.rec)' = Resumable(t, q.rec)
          BY <3>1, <4>3 DEF Resumable
        <4>5. \A m : Preceded(t, m) => Preceded(t, m)'
          BY <3>1, <4>1 DEF Preceded, First
        <4>6. First(t, q.rec, context[t])' = First(t, q.rec, context[t])
          BY <3>1, <4>1 DEF First
        <4>7. /\ NewIndex.total = 0 /\ work[t].index.total \in Nat /\ q.num \in Nat
              /\ 0 <= q.num /\ 0 <= work[t].index.total
          BY <1>1, RecordTypes, WindowTypes DEF NewIndex
        <4>8. Ready(w) => Ready(w)'
          <5>1. SUFFICES ASSUME Ready(w)
                         PROVE  Ready(w)'
            OBVIOUS
          <5>2. work[t].files # 0
            BY <5>1 DEF Ready
          <5>3. work'[t].index = NewIndex /\ work'[t].files = work[t].files
            BY <4>1, <5>2
          <5>4. work'[t].index.total < q.num
            BY <4>7, <5>1, <5>3 DEF Ready
          <5> QED
            BY <3>1, <4>1, <4>4, <4>5, <4>6, <5>1, <5>3, <5>4 DEF Ready
        <4>9. \/ work'[t].index = work[t].index
              \/ /\ work[t].index.rows = {} /\ ~work[t].index.made
                 /\ work'[t].index.total <= q.num
          BY <1>1, <4>1, <4>7 DEF IndexAt, Rated
        <4> QED
          BY <3>1, <4>1, <4>2, <4>8, <4>9 DEF Steady
      <3> QED
        BY <3>2, <3>3
    <2>3. ASSUME NEW x \in Trees, ChangeContext(x)
          PROVE  Steady(w)'
      <3>1. x # t
        BY <1>3, <2>3 DEF ChangeContext
      <3> QED
        BY <1>1, <2>3, <3>1, SameSteady DEF ChangeContext, files
    <2>4. ASSUME NEW x \in Trees, NEW u \in Trees, Merge(x, u)
          PROVE  Steady(w)'
      <3>1. x # t
        BY <1>3, <2>4 DEF Merge
      <3>2. work'[t] = work[t] /\ head'[t] = head[t] /\ context' = context
        BY <1>1, <2>4, <3>1, OnlyAt DEF Merge, drift
      <3> QED
        BY <3>2, SameSteady
    <2> QED
      BY <2>1, <2>2, <2>3, <2>4 DEF NextDay, files
  <1> QED
    BY <1>2, <1>3

\* A step of the command itself.
LEMMA OwnSteady ==
    ASSUME IInv, NEW w \in Windows, Command(w) \/ Kill(w), Home[w] \in Calm, Steady(w)
    PROVE  Steady(w)'
  <1> DEFINE t == Home[w]
             q == win[w]
  <1>1. /\ Typed /\ t \in Trees /\ win \in [Windows -> Commands] /\ q \in Commands
        /\ work \in [Trees -> Contents] /\ work[t] \in Contents
        /\ t \in Calm
    BY RecordTypes, WindowTypes DEF IInv, Typed, TypeOK
  <1>2. CASE win'[w].pc \in {"idle", "preflight", "classify"}
    BY <1>2, IdleSteady
  <1>3. CASE ClassifyRecord(w)
    BY <1>1, <1>3, ClassifySteady
  <1>4. CASE Rotated(w)
    <2>1. /\ work' = [work EXCEPT ![t] = [work[t] EXCEPT !.files = work[t].files + 1]]
          /\ q.file = work[t].files /\ head' = head
      BY <1>1, <1>4, RotateKeeps
    <2>2. /\ work'[t].files = work[t].files + 1 /\ work'[t].entries = work[t].entries
          /\ work'[t].index = work[t].index
      BY <1>1, <2>1 DEF Contents
    <2>3. /\ win'[w].pc = "read" /\ win'[w].file = work'[t].files
          /\ win'[w].mark = q.mark /\ win'[w].rec = q.rec /\ win'[w].num = q.num
          /\ q.pc = "rotate" /\ context' = context
      BY <1>1, <1>4, <2>1, <2>2 DEF Rotated, Rotate, Commands, drift
    <2>4. Pending(t)' = Pending(t)
      BY <2>1, <2>2 DEF Pending
    <2>5. Resumable(t, q.rec)' = Resumable(t, q.rec)
      BY <2>3, <2>4 DEF Resumable
    <2>6. Preceded(t, q.mark) => Preceded(t, q.mark)'
      BY <2>1, <2>2, <2>3 DEF Preceded, First
    <2>7. First(t, q.rec, context[t])' = First(t, q.rec, context[t])
      BY <2>2, <2>3 DEF First
    <2>8. Ready(w) /\ work[t].files > 0 /\ work[t].files \in Nat
      BY <1>1, <2>1, <2>3, RecordTypes DEF Steady, Ready
    <2>9. Ready(w)'
      BY <2>2, <2>3, <2>5, <2>6, <2>7, <2>8 DEF Ready
    <2> QED
      BY <2>3, <2>9 DEF Steady
  <1>5. CASE ReadJournal(w)
    <2>1. /\ win'[w].pc = "append" /\ win'[w].snap = InFile(work[t].entries, q.file)
          /\ win'[w].file = q.file /\ win'[w].mark = q.mark /\ win'[w].rec = q.rec
          /\ win'[w].num = q.num
          /\ q.pc = "read" /\ context' = context /\ work' = work /\ head' = head
      BY <1>1, <1>5 DEF ReadJournal, Commands, drift, files
    <2>2. Ready(w)'
      <3>1. Pending(t)' = Pending(t)
        BY <2>1 DEF Pending
      <3>2. Resumable(t, q.rec)' = Resumable(t, q.rec)
        BY <2>1, <3>1 DEF Resumable
      <3>3. Preceded(t, q.mark) => Preceded(t, q.mark)'
        BY <2>1 DEF Preceded, First
      <3>4. First(t, q.rec, context[t])' = First(t, q.rec, context[t])
        BY <2>1 DEF First
      <3> QED
        BY <2>1, <3>2, <3>3, <3>4 DEF Ready, Steady
    <2> QED
      BY <2>1, <2>2 DEF Steady
  <1>6. CASE Adds(w)
    <2> DEFINE e == Entry(q.num, q.mark, q.file, Bottom(q.snap) + 1)
    <2>1. /\ work'[t] = [work[t] EXCEPT !.entries = work[t].entries \cup {e}]
          /\ e \in Entries /\ e.mark = q.mark /\ e.num = q.num /\ Ready(w)
          /\ q.pc = "append"
      BY <1>1, <1>6, AppendAdds
    <2> HIDE DEF e
    <2>2. e \in work'[t].entries /\ work'[t].index = work[t].index
      BY <1>1, <2>1 DEF Contents
    <2>3. /\ win'[w].pc = "index" /\ win'[w].mark = q.mark /\ win'[w].rec = q.rec
          /\ win'[w].num = q.num /\ context' = context
      BY <1>1, <1>6 DEF Adds, AppendEntry, Commands, drift
    <2>4. Held(w)'
      BY <2>1, <2>2, <2>3 DEF Held
    <2>5. work[t].index.total <= q.num
      BY <1>1, <2>1, RecordTypes, WindowTypes DEF Ready
    <2> QED
      BY <2>1, <2>2, <2>3, <2>4, <2>5 DEF Steady
  <1>7. CASE ReadIndex(w) /\ win'[w].pc # "idle"
    <2>1. /\ win'[w].pc = "row" /\ win'[w].rows = work[t].index.rows
          /\ win'[w].mark = q.mark /\ win'[w].rec = q.rec /\ win'[w].num = q.num
          /\ q.pc = "index" /\ context' = context /\ work' = work /\ head' = head
          /\ work[t].index.made
      BY <1>1, <1>7 DEF ReadIndex, Fail, IdleWin, Commands, drift, files
    <2>2. Held(w)'
      BY <2>1 DEF Steady, Held
    <2> QED
      BY <2>1, <2>2 DEF Steady
  <1>8. CASE Indexes(w)
    <2> DEFINE x == UpdatedIndex(q)
    <2>1. work' = [work EXCEPT ![t].index = x] /\ q.pc = "row" /\ context' = context
      BY <1>8 DEF Indexes, UpdateIndex, drift
    <2>2. Row(q.num, q.rec) \in x.rows
      BY DEF UpdatedIndex
    <2> HIDE DEF x
    <2>3. work'[t].entries = work[t].entries /\ work'[t].index = x
      BY <1>1, <2>1 DEF Contents
    <2>4. /\ win'[w].pc = "recorded" /\ win'[w].mark = q.mark /\ win'[w].rec = q.rec
          /\ win'[w].num = q.num
      BY <1>1, <1>8 DEF Indexes, Commands
    <2>5. Held(w)'
      BY <2>1, <2>3, <2>4 DEF Steady, Held
    <2> QED
      BY <2>1, <2>2, <2>3, <2>4, <2>5 DEF Steady
  <1>9. CASE Stage(w) /\ win'[w].pc # "idle"
    <2>1. /\ win'[w].pc = "staged" /\ win'[w].file = work[t].files
          /\ win'[w].mark = q.mark /\ win'[w].rec = q.rec /\ win'[w].num = q.num
          /\ q.pc = "recorded" /\ context' = context /\ work' = work /\ head' = head
      BY <1>1, <1>9 DEF Stage, Fail, IdleWin, Commands, drift
    <2>2. \A e \in work[t].entries : e.file <= work[t].files
      BY <1>1 DEF IInv, FilesOK, FilesAt
    <2>3. Held(w)'
      BY <2>1, <2>2 DEF Steady, Held
    <2> QED
      BY <2>1, <2>3 DEF Steady
  <1>10. CASE CheckStaged(w) /\ win'[w].pc # "idle"
    <2>1. /\ win'[w].pc = "commit" /\ win'[w].file = q.file
          /\ win'[w].mark = q.mark /\ win'[w].rec = q.rec /\ win'[w].num = q.num
          /\ q.pc = "staged" /\ context' = context /\ work' = work /\ head' = head
      BY <1>1, <1>10 DEF CheckStaged, Succeed, Goto, IdleWin, Commands, drift, files
    <2>2. Held(w)'
      BY <2>1 DEF Steady, Held
    <2> QED
      BY <2>1, <2>2 DEF Steady
  <1>11. CASE Commits(w)
    <2>1. /\ work' = work
          /\ \A e \in work[t].entries : e \in head'[t].entries <=>
                     e.file <= q.file \/ e \in head[t].entries
          /\ head'[t].index = work[t].index
      BY <1>1, <1>11, CommitKeeps
    <2>2. /\ win'[w].pc = "verify" /\ win'[w].mark = q.mark /\ win'[w].rec = q.rec
          /\ win'[w].num = q.num /\ q.pc = "commit" /\ context' = context
      BY <1>1, <1>11 DEF Commits, Commit, Commands, drift
    <2>3. PICK e \in work[t].entries : e.mark = q.mark /\ e.num = q.num /\ e.file <= q.file
      BY <2>2 DEF Steady, Held
    <2>4. Held(w)' /\ q.mark \in Marks(head'[t].entries)
      BY <2>1, <2>2, <2>3 DEF Held, Marks
    <2> QED
      BY <2>1, <2>2, <2>4 DEF Steady
  <1>12. CASE Preflight(w) \/ SkipCommit(w) \/ Verify(w) \/ Kill(w)
              \/ \E r \in Sessions[w], auto \in {TRUE} \cup {w \notin Manual} : Begin(w, r, auto)
    <2>1. win'[w].pc \in {"idle", "preflight", "classify"}
      <3>1. CASE Preflight(w)
        BY <1>1, <3>1 DEF Preflight, Goto, Fail, IdleWin, Commands
      <3>2. CASE SkipCommit(w) \/ Verify(w) \/ Kill(w)
        BY <1>1, <3>2 DEF SkipCommit, Verify, Kill, Fail, Succeed, IdleWin
      <3>3. ASSUME NEW r \in Sessions[w], NEW auto \in {TRUE} \cup {w \notin Manual},
                   Begin(w, r, auto)
            PROVE  win'[w].pc = "preflight"
        BY <1>1, <3>3 DEF Begin, IdleWin
      <3> QED
        BY <1>12, <3>1, <3>2, <3>3
    <2> QED
      BY <2>1, IdleSteady
  <1>13. ASSUME Rotate(w) \/ AppendEntry(w) \/ UpdateIndex(w) \/ Commit(w),
                win'[w].pc # "idle"
         PROVE  Rotated(w) \/ Adds(w) \/ Indexes(w) \/ Commits(w)
    <2>1. win'[w] # IdleWin
      BY <1>13 DEF IdleWin
    <2>2. ~Fail(w)
      BY <1>1, <2>1 DEF Fail
    <2> QED
      BY <1>13, <2>2 DEF Rotate, Rotated, AppendEntry, Adds, UpdateIndex, Indexes, Commit,
                         Commits, Goto
  <1> QED
    BY <1>2, <1>3, <1>4, <1>5, <1>6, <1>7, <1>8, <1>9, <1>10, <1>11, <1>12, <1>13 DEF Command

LEMMA AtWorkNext ==
    ASSUME IInv, Next
    PROVE  AtWork'
  <1>1. Typed /\ Calm' \subseteq Calm
    BY CalmShrinks DEF IInv
  <1>2. SUFFICES ASSUME NEW w \in Windows, Home[w] \in Calm'
                 PROVE  Steady(w)'
    BY DEF AtWork
  <1>3. Home[w] \in Calm /\ Steady(w)
    BY <1>1, <1>2 DEF IInv, AtWork
  <1>4. CASE /\ win' = win
             /\ \/ \E t \in Trees : InitDeveloper(t) \/ ChangeContext(t)
                \/ \E t, u \in Trees : Merge(t, u)
                \/ NextDay
    BY <1>3, <1>4, EnvironmentLeaves
  <1>5. ASSUME NEW v \in Windows, Command(v) \/ Kill(v)
        PROVE  Steady(w)'
    <2>1. CASE v = w
      BY <1>3, <1>5, <2>1, OwnSteady
    <2>2. CASE v # w
      <3>1. win'[w] = win[w] /\ context' = context
        BY <1>1, <1>5, <2>2, WindowSteps, CommandLeaves
      <3>2. Home[w] \in Trees
        BY <1>1, WindowTypes
      <3>3. CASE Home[v] # Home[w]
        <4>1. work'[Home[w]] = work[Home[w]] /\ head'[Home[w]] = head[Home[w]]
          BY <1>1, <1>5, <3>2, <3>3, CommandLeaves
        <4> QED
          BY <1>3, <3>1, <4>1, SameSteady
      <3>4. CASE Home[v] = Home[w]
        <4>1. \/ UNCHANGED <<work, head>>
              \/ Rotated(v) \/ Adds(v) \/ Indexes(v) \/ Commits(v)
          BY <1>1, <1>5, CommandFiles
        <4>2. CASE UNCHANGED <<work, head>>
          BY <1>3, <3>1, <4>2, SameSteady
        <4>3. CASE Rotated(v) \/ Adds(v) \/ Indexes(v)
          BY <1>3, <2>2, <3>1, <3>4, <4>3, RecordingLeaves
        <4>4. CASE Commits(v)
          BY <1>3, <2>2, <3>1, <3>4, <4>4, CommitLeaves
        <4> QED
          BY <4>1, <4>2, <4>3, <4>4
      <3> QED
        BY <3>3, <3>4
    <2> QED
      BY <2>1, <2>2
  <1> QED
    BY <1>1, <1>4, <1>5, StepOf

-----------------------------------------------------------------------------
(* The invariant.                                                          *)

LEMMA InitInvariant == Init => IInv
  <1> SUFFICES ASSUME Init
               PROVE  IInv
    OBVIOUS
  <1>1. Typed
    BY InitTyped
  <1>2. \A t \in Trees : /\ head[t].entries = {} /\ head[t].index \in {NoIndex, NewIndex}
                         /\ work[t].index \in {NoIndex, NewIndex}
                         /\ \/ work[t].entries = {}
                            \/ /\ work[t].files = 1
                               /\ work[t].entries = {Entry(1, Mark(t, r, 1, 0, 1), 1, 1) :
                                          r \in {q \in Records : <<t, q>> \in Legacy}}
    BY DEF Init, NoFiles
  <1>3. NoIndex.rows = {} /\ NewIndex.rows = {}
    BY DEF NoIndex, NewIndex
  <1>4. ASSUME NEW t \in Trees
        PROVE  /\ \A e \in work[t].entries : /\ e.file = 1 /\ e.mark.tree = t /\ e.mark.gen = 0
                                             /\ work[t].files = 1
               /\ \A d, e \in work[t].entries : d = e
    <2>1. \A e \in work[t].entries : \E r \in Records :
              /\ <<t, r>> \in Legacy
              /\ e = Entry(1, Mark(t, r, 1, 0, 1), 1, 1) /\ work[t].files = 1
      BY <1>2
    <2>2. \A r, q \in Records : <<t, r>> \in Legacy /\ <<t, q>> \in Legacy => r = q
      BY JournalAssumption DEF JournalAssumption
    <2>3. \A r : /\ Entry(1, Mark(t, r, 1, 0, 1), 1, 1).file = 1
                 /\ Entry(1, Mark(t, r, 1, 0, 1), 1, 1).mark.tree = t
                 /\ Entry(1, Mark(t, r, 1, 0, 1), 1, 1).mark.gen = 0
      BY DEF Entry, Mark
    <2> QED
      BY <2>1, <2>2, <2>3
  <1>5. FilesOK
    BY <1>2, <1>4 DEF FilesOK, FilesAt, Calm
  <1>6. Solo /\ AtWork
    <2>1. \A w \in Windows : win[w].pc = "idle"
      BY DEF Init, IdleWin
    <2> QED
      BY <2>1 DEF Solo, AtWork, Steady, Recording
  <1>7. IndexOK
    BY <1>2, <1>3, <1>4 DEF IndexOK, IndexAt, Rated, Pending, Calm
  <1>8. Kept
    BY <1>2, <1>4 DEF Kept, Calm
  <1>9. Generations
    <2>1. \A t \in Trees : \A e \in work[t].entries : ~(e.mark.gen > 0)
      BY <1>4
    <2> QED
      BY <1>4, <2>1 DEF Generations, First, Calm
  <1>10. Copies /\ Ordered /\ Prefixes
    BY <1>2, <1>4 DEF Copies, Ordered, Prefixes, Calm
  <1> QED
    BY <1>1, <1>5, <1>6, <1>7, <1>8, <1>9, <1>10 DEF IInv, Journals

LEMMA NextInvariant ==
    ASSUME IInv, Next
    PROVE  IInv'
  <1>1. Typed'
    BY StepsTyped DEF IInv
  <1>2. FilesOK' /\ IndexOK'
    BY <1>1, SoundNext
  <1> QED
    BY <1>1, <1>2, SoloNext, JournalsNext, AtWorkNext DEF IInv

LEMMA SameInvariant ==
    ASSUME IInv, UNCHANGED vars
    PROVE  IInv'
  <1>1. Typed'
    BY StutterTyped DEF IInv
  <1>2. Calm' = Calm
    BY DEF Calm, vars
  <1>3. \A t \in Trees : Still(t) /\ work'[t] = work[t] /\ head'[t] = head[t]
    BY DEF Still, vars
  <1>4. Journals'
    BY <1>2, <1>3, StillJournals DEF IInv, Calm
  <1>5. FilesOK' /\ IndexOK'
    <2>1. \A t \in Calm : Sound(t)'
      BY <1>3, SameSound DEF IInv, FilesOK, IndexOK, Sound, Calm
    <2> QED
      BY <1>2, <2>1 DEF FilesOK, IndexOK, Sound
  <1>6. Solo' /\ AtWork'
    <2>1. \A w \in Windows : Home[w] \in Calm => Steady(w)'
      BY SameSteady DEF IInv, AtWork, vars
    <2>2. win' = win
      BY DEF vars
    <2> QED
      BY <1>2, <2>1, <2>2 DEF IInv, Solo, AtWork
  <1> QED
    BY <1>1, <1>4, <1>5, <1>6 DEF IInv

(* The inductive invariant of session recording holds at every step.       *)
THEOREM Invariant == Spec => []IInv
  <1>1. IInv /\ [Next]_vars => IInv'
    BY NextInvariant, SameInvariant
  <1> QED
    BY <1>1, InitInvariant, PTL DEF Spec

-----------------------------------------------------------------------------
(* The properties.                                                         *)

(* The sessions a checkout records are numbered in the order of the        *)
(* journal, whatever the index says.                                       *)
THEOREM NumbersGrow == Spec => []NumbersIncrease
  <1>1. IInv => NumbersIncrease
    BY DEF IInv, Journals, Ordered, Calm, NumbersIncrease, InOrder
  <1> QED
    BY <1>1, Invariant, PTL

(* A keyed record has one entry in a context, however often it is sent.    *)
THEOREM KeysHold == Spec => []KeyedOnce
  <1>1. IInv => KeyedOnce
    <2> SUFFICES ASSUME IInv, NEW t \in Trees, NEW r \in Keyed, ~raced[t],
                        NEW d \in OwnEntries(t, r), NEW e \in OwnEntries(t, r),
                        d.mark.ctx = e.mark.ctx
                 PROVE  d = e
      BY DEF KeyedOnce
    <2>1. /\ t \in Calm /\ Typed /\ work[t].entries \subseteq Entries /\ r \in Records
      BY RecordTypes, JournalAssumption DEF JournalAssumption, IInv, Calm
    <2>2. /\ d \in work[t].entries /\ d.mark.tree = t /\ d.mark.rec = r
          /\ e \in work[t].entries /\ e.mark.tree = t /\ e.mark.rec = r
      BY DEF OwnEntries
    <2>3. /\ d.mark.gen \in Nat /\ e.mark.gen \in Nat /\ d.mark.ctx \in Nat
      BY <2>1, <2>2, RecordTypes DEF Markers
    <2>4. ~(d.mark.gen > 0) /\ ~(e.mark.gen > 0)
      BY <2>1, <2>2 DEF IInv, Journals, Generations
    <2>5. d \in First(t, r, d.mark.ctx) /\ e \in First(t, r, d.mark.ctx)
      BY <2>2, <2>3, <2>4 DEF First
    <2> QED
      BY <2>1, <2>3, <2>5 DEF IInv, Journals, Generations
  <1> QED
    BY <1>1, Invariant, PTL

\* Entries with markers of their own are as many as the markers.
LEMMA MarksCount ==
    ASSUME NEW s, IsFiniteSet(s), \A d, e \in s : d.mark = e.mark => d = e
    PROVE  IsFiniteSet(Marks(s)) /\ Cardinality(Marks(s)) = Cardinality(s)
  <1>1. IsFiniteSet(Marks(s)) /\ Cardinality(Marks(s)) <= Cardinality(s)
    BY MarksFinite
  <1> DEFINE f == [m \in Marks(s) |-> CHOOSE e \in s : e.mark = m]
  <1>2. s = {f[m] : m \in Marks(s)}
    <2>1. \A e \in s : e.mark \in Marks(s) /\ f[e.mark] = e
      BY DEF Marks
    <2>2. \A m \in Marks(s) : f[m] \in s
      BY DEF Marks
    <2> HIDE DEF f
    <2> QED
      BY <2>1, <2>2
  <1>3. DOMAIN f = Marks(s) /\ f = [m \in Marks(s) |-> f[m]]
    OBVIOUS
  <1> HIDE DEF f
  <1>4. Cardinality(s) <= Cardinality(Marks(s))
    BY <1>1, <1>2, <1>3, ImageOf
  <1>5. Cardinality(s) \in Nat /\ Cardinality(Marks(s)) \in Nat
    BY <1>1, FS_CardinalityType
  <1> QED
    BY <1>1, <1>4, <1>5

LEMMA OnlyGrowsNext ==
    ASSUME IInv, IInv', Next, NEW t \in Trees, ~raced'[t]
    PROVE  OnlyGrows(t)
  <1>1. /\ t \in Calm /\ t \in Calm' /\ Typed /\ Typed'
        /\ IsFiniteSet(work[t].entries) /\ IsFiniteSet(work'[t].entries)
    <2>1. Typed /\ Typed' /\ t \in Calm' /\ t \in Calm
      BY CalmShrinks DEF IInv, Calm
    <2> QED
      BY <2>1 DEF Typed, Finite
  <1>2. /\ Marks(work[t].entries) \subseteq Marks(work'[t].entries)
        /\ Marks(head[t].entries) \subseteq Marks(head'[t].entries)
    <2>1. CASE Still(t)
      BY <2>1 DEF Still
    <2>2. ASSUME NEW w \in Windows, Home[w] = t, Adds(w)
          PROVE  /\ Marks(work[t].entries) \subseteq Marks(work'[t].entries)
                 /\ Marks(head[t].entries) \subseteq Marks(head'[t].entries)
      <3> DEFINE e == Entry(win[w].num, win[w].mark, win[w].file, Bottom(win[w].snap) + 1)
      <3>1. work'[t] = [work[t] EXCEPT !.entries = work[t].entries \cup {e}] /\ head' = head
        BY <1>1, <2>2, AppendAdds
      <3>2. work[t] \in Contents
        BY <1>1, RecordTypes
      <3> HIDE DEF e
      <3> QED
        BY <3>1, <3>2 DEF Contents, Marks
    <2>3. ASSUME NEW w \in Windows, Home[w] = t, Commits(w)
          PROVE  /\ Marks(work[t].entries) \subseteq Marks(work'[t].entries)
                 /\ Marks(head[t].entries) \subseteq Marks(head'[t].entries)
      <3>1. work' = work /\ head[t].entries \subseteq head'[t].entries
        BY <1>1, <2>3, CommitKeeps
      <3> QED
        BY <3>1 DEF Marks
    <2>4. ASSUME NEW u \in Calm, Joins(t, u)
          PROVE  /\ Marks(work[t].entries) \subseteq Marks(work'[t].entries)
                 /\ Marks(head[t].entries) \subseteq Marks(head'[t].entries)
      BY <2>4 DEF Joins
    <2> QED
      BY <1>1, <2>1, <2>2, <2>3, <2>4, Effects DEF StillBut
  <1>3. /\ \A d, e \in work[t].entries : d.mark = e.mark => d = e
        /\ \A d, e \in work'[t].entries : d.mark = e.mark => d = e
    BY <1>1 DEF IInv, Journals, Kept
  <1> DEFINE M == Marks(work[t].entries)
             N == Marks(work'[t].entries)
  <1>4. /\ Cardinality(work[t].entries) = Cardinality(M)
        /\ Cardinality(work'[t].entries) = Cardinality(N)
        /\ IsFiniteSet(M) /\ IsFiniteSet(N) /\ M \subseteq N
    BY <1>1, <1>2, <1>3, MarksCount
  <1> HIDE DEF M, N
  <1>5. Cardinality(M) <= Cardinality(N)
    BY <1>4, FS_Subset
  <1> QED
    BY <1>2, <1>4, <1>5 DEF OnlyGrows

(* No step takes an entry out of a journal, on disk or at HEAD.            *)
THEOREM NothingErased == Spec => JournalOnlyGrows
  <1>1. IInv /\ IInv' /\ [Next]_vars
            => [\A t \in Trees : ~raced'[t] => OnlyGrows(t)]_vars
    BY OnlyGrowsNext
  <1> QED
    BY <1>1, Invariant, PTL DEF Spec, JournalOnlyGrows

LEMMA AcknowledgeNext ==
    ASSUME IInv, Next, NEW w \in Windows,
           Acknowledges(w), ~raced[Home[w]], win[w].pc # "classify"
    PROVE  IsRecorded(w)
  <1> DEFINE t == Home[w]
             q == win[w]
  <1>1. /\ Typed /\ t \in Calm /\ t \in Trees /\ Steady(w) /\ q.rec \in open[t]
        /\ q.rec \notin open'[t] /\ q.pc # "idle" /\ win'[w].pc = "idle"
        /\ open \in [Trees -> SUBSET Records] /\ win \in [Windows -> Commands]
    BY WindowTypes DEF IInv, AtWork, Calm, Acknowledges, Typed, TypeOK
  <1>2. win' # win
    BY <1>1
  <1>3. PICK v \in Windows : Command(v) \/ Kill(v)
    BY <1>1, <1>2, StepOf
  <1>4. v = w
    BY <1>1, <1>3, WindowSteps
  <1>5. q.pc \in {"recorded", "staged", "verify"}
    <2>1. ~(Preflight(w) \/ Rotate(w) \/ ReadJournal(w) \/ AppendEntry(w) \/ ReadIndex(w)
            \/ UpdateIndex(w) \/ Stage(w) \/ Commit(w) \/ Kill(w))
      BY <1>1 DEF Preflight, Rotate, ReadJournal, AppendEntry, ReadIndex, UpdateIndex, Stage,
                  Commit, Kill, ghosts
    <2>2. ASSUME NEW r \in Sessions[w], NEW auto \in {TRUE} \cup {w \notin Manual}
          PROVE  ~Begin(w, r, auto)
      BY <1>1 DEF Begin
    <2>3. ClassifyRecord(w) \/ SkipCommit(w) \/ CheckStaged(w) \/ Verify(w)
      BY <1>3, <1>4, <2>1, <2>2 DEF Command
    <2> QED
      BY <2>3 DEF ClassifyRecord, SkipCommit, CheckStaged, Verify, Acknowledges
  <1>6. PICK e \in work[t].entries : e.mark = q.mark /\ e.num = q.num
    BY <1>1, <1>5 DEF Steady, Held
  <1>7. HasRecord(work[t], q.rec, q.mark)
    <2>1. Row(q.num, q.rec) \in work[t].index.rows
      BY <1>1, <1>5 DEF Steady
    <2> QED
      BY <1>6, <2>1 DEF HasRecord
  <1>8. ASSUME q.pc = "verify"
        PROVE  HasRecord(head[t], q.rec, q.mark)
    <2>1. q.mark \in Marks(head[t].entries) /\ Row(q.num, q.rec) \in head[t].index.rows
      BY <1>1, <1>8 DEF Steady
    <2>2. PICK d \in head[t].entries : d.mark = q.mark
      BY <2>1 DEF Marks
    <2>3. d = e
      BY <1>1, <1>6, <2>2 DEF IInv, Journals, Kept
    <2> QED
      BY <1>6, <2>1, <2>2, <2>3 DEF HasRecord
  <1> QED
    BY <1>7, <1>8 DEF IsRecorded

(* What a command reports as done is in the journal and the index, and at  *)
(* HEAD when it committed it.                                              *)
THEOREM ReportsHold == Spec => AcknowledgedIsRecorded
  <1>1. IInv /\ [Next]_vars
            => [\A w \in Windows :
                    Acknowledges(w) /\ ~raced[Home[w]] /\ win[w].pc # "classify"
                        => IsRecorded(w)]_vars
    BY AcknowledgeNext
  <1> QED
    BY <1>1, Invariant, PTL DEF Spec, AcknowledgedIsRecorded

-----------------------------------------------------------------------------
(* The rows of the indexes.                                                *)

Backed(row) ==
    \E u \in Trees : \E e \in work[u].entries : e.num = row.num /\ e.mark.rec = row.rec

LEMMA BackedNext ==
    ASSUME IInv, Next, Calm = Trees, Calm' = Trees, NEW row, Backed(row)
    PROVE  Backed(row)'
  <1>1. PICK u \in Trees : \E e \in work[u].entries : e.num = row.num /\ e.mark.rec = row.rec
    BY DEF Backed
  <1>2. PICK e \in work[u].entries : e.num = row.num /\ e.mark.rec = row.rec
    BY <1>1
  <1>3. \E d \in work'[u].entries : Copy(e, d)
    <2>1. CASE Still(u)
      BY <2>1 DEF Still, Copy
    <2>2. ASSUME NEW w \in Windows, Home[w] = u, Adds(w)
          PROVE  \E d \in work'[u].entries : Copy(e, d)
      <3> DEFINE c == Entry(win[w].num, win[w].mark, win[w].file, Bottom(win[w].snap) + 1)
      <3>1. work'[u] = [work[u] EXCEPT !.entries = work[u].entries \cup {c}]
        BY <2>2, AppendAdds
      <3>2. work[u] \in Contents
        BY RecordTypes DEF IInv
      <3> HIDE DEF c
      <3>3. e \in work'[u].entries
        BY <3>1, <3>2 DEF Contents
      <3> QED
        BY <3>3 DEF Copy
    <2>3. ASSUME NEW w \in Windows, Home[w] = u, Commits(w)
          PROVE  \E d \in work'[u].entries : Copy(e, d)
      BY <2>3 DEF Commits, Commit, Copy
    <2>4. ASSUME NEW v \in Calm, Joins(u, v)
          PROVE  \E d \in work'[u].entries : Copy(e, d)
      <3>1. work'[u] = head'[u] /\ work[u] = head[u]
        BY <2>4 DEF Joins
      <3>2. e.mark.tree \in Trees
        BY RecordTypes DEF IInv, Markers
      <3> QED
        BY <2>4, <3>1, <3>2, JoinKeeps
    <2> QED
      BY <2>1, <2>2, <2>3, <2>4, Effects DEF StillBut
  <1> QED
    BY <1>2, <1>3 DEF Backed, Copy

\* Where the rows of an index come from.
LEMMA RowsFrom ==
    ASSUME IInv, Next, Calm = Trees, Calm' = Trees, NEW t \in Trees,
           NEW row, row \in work'[t].index.rows \cup head'[t].index.rows
    PROVE  \/ \E u \in Trees : row \in work[u].index.rows \cup head[u].index.rows
           \/ Backed(row)
  <1>1. /\ Typed /\ work \in [Trees -> Contents] /\ work[t] \in Contents
    BY RecordTypes DEF IInv, Typed, TypeOK
  <1>2. CASE work'[t] = work[t] /\ head'[t] = head[t]
    BY <1>2
  <1>3. CASE InitDeveloper(t)
    <2>1. head' = head /\ work'[t].index \in {work[t].index, NewIndex}
      BY <1>1, <1>3 DEF InitDeveloper, Contents
    <2>2. NewIndex.rows = {}
      BY DEF NewIndex
    <2> QED
      BY <2>1, <2>2
  <1>4. ASSUME NEW w \in Windows, Home[w] = t, Rotated(w) \/ Adds(w)
        PROVE  row \in work[t].index.rows \cup head[t].index.rows
    <2>1. head' = head
      BY <1>4 DEF Rotated, Rotate, Adds, AppendEntry
    <2>2. work'[t].index = work[t].index
      <3>1. CASE Adds(w)
        <4> DEFINE s == Appended(work[t].entries, win[w])
        <4>1. work' = [work EXCEPT ![t].entries = s]
          BY <1>1, <1>4, <3>1 DEF Adds
        <4> HIDE DEF s
        <4> QED
          BY <1>1, <4>1 DEF Contents
      <3>2. CASE Rotated(w)
        <4>1. work' = [work EXCEPT ![t] = [work[t] EXCEPT !.files = work[t].files + 1]]
          BY <1>4, <3>2, RotateKeeps
        <4> QED
          BY <1>1, <4>1 DEF Contents
      <3> QED
        BY <1>4, <3>1, <3>2
    <2> QED
      BY <2>1, <2>2
  <1>5. ASSUME NEW w \in Windows, Home[w] = t, Indexes(w)
        PROVE  row \in work[t].index.rows \cup head[t].index.rows \/ Backed(row)
    <2> DEFINE q == win[w]
               x == UpdatedIndex(q)
    <2>1. work' = [work EXCEPT ![t].index = x] /\ head' = head /\ q.pc = "row"
      BY <1>5 DEF Indexes, UpdateIndex
    <2>2. /\ q.rows = work[t].index.rows /\ q.mark.rec = q.rec /\ Held(w)
      BY <1>5, <2>1 DEF IInv, AtWork, Steady
    <2>3. x.rows = q.rows \cup {Row(q.num, q.rec)}
      BY DEF UpdatedIndex
    <2> HIDE DEF x
    <2>4. work'[t].index = x
      BY <1>1, <2>1 DEF Contents
    <2>5. Backed(Row(q.num, q.rec))
      BY <1>5, <2>2 DEF Held, Backed, Row
    <2> QED
      BY <2>1, <2>2, <2>3, <2>4, <2>5
  <1>6. ASSUME NEW w \in Windows, Home[w] = t, Commits(w)
        PROVE  row \in work[t].index.rows \cup head[t].index.rows
    <2>1. work' = work /\ head'[t].index = work[t].index
      BY <1>6, CommitKeeps
    <2> QED
      BY <2>1
  <1>7. ASSUME NEW u \in Trees, Merge(t, u)
        PROVE  row \in head[t].index.rows \cup head[u].index.rows
    <2>1. Joins(t, u)
      BY <1>7, MergeJoins
    <2> QED
      BY <2>1 DEF Joins
  <1>8. \/ InitDeveloper(t)
        \/ \E w \in Windows : Home[w] = t /\ (Rotated(w) \/ Adds(w) \/ Indexes(w) \/ Commits(w))
        \/ \E u \in Trees : Merge(t, u)
        \/ work'[t] = work[t] /\ head'[t] = head[t]
    <2>1. \A w \in Windows : Home[w] \in Trees
      BY <1>1, WindowTypes
    <2> QED
      BY <1>1, <2>1, FileSteps, OnlyAt
  <1> QED
    BY <1>2, <1>3, <1>4, <1>5, <1>6, <1>7, <1>8

LEMMA RowsNext ==
    ASSUME IInv, RowsHaveEntries, Next
    PROVE  RowsHaveEntries'
  <1>1. RowsHaveEntries <=>
            (Calm = Trees => \A t \in Trees : \A row \in work[t].index.rows \cup head[t].index.rows :
                                 Backed(row))
    BY DEF RowsHaveEntries, Calm, Backed
  <1>2. (Calm' = Trees => \A t \in Trees : \A row \in work'[t].index.rows \cup head'[t].index.rows :
                                 Backed(row)')
            => RowsHaveEntries'
    BY DEF RowsHaveEntries, Calm, Backed
  <1>3. SUFFICES ASSUME Calm' = Trees, NEW t \in Trees,
                        NEW row \in work'[t].index.rows \cup head'[t].index.rows
                 PROVE  Backed(row)'
    BY <1>2
  <1>4. Calm = Trees
    BY <1>3, CalmShrinks DEF IInv, Calm
  <1>5. Backed(row)
    BY <1>1, <1>3, <1>4, RowsFrom
  <1> QED
    BY <1>3, <1>4, <1>5, BackedNext

(* As long as no two commands recorded at once, every row of an index is   *)
(* the row of a session that is in a journal.                              *)
THEOREM RowsHold == Spec => []RowsHaveEntries
  <1>1. Init => RowsHaveEntries
    <2> SUFFICES ASSUME Init
                 PROVE  RowsHaveEntries
      OBVIOUS
    <2>1. \A t \in Trees : work[t].index.rows = {} /\ head[t].index.rows = {}
      BY DEF Init, NoFiles, NoIndex, NewIndex
    <2> QED
      BY <2>1 DEF RowsHaveEntries
  <1>2. IInv /\ RowsHaveEntries /\ [Next]_vars => RowsHaveEntries'
    <2>1. UNCHANGED vars /\ RowsHaveEntries => RowsHaveEntries'
      BY DEF vars, RowsHaveEntries
    <2> QED
      BY <2>1, RowsNext
  <1> QED
    BY <1>1, <1>2, Invariant, PTL DEF Spec

-----------------------------------------------------------------------------
(* What is paid for.                                                       *)

LEMMA BudgetTypes ==
    ASSUME Typed, NEW t \in Trees, NEW r \in Records
    PROVE  /\ Count(t, r) \in Nat /\ Allowed(t, r) \in Nat
           /\ IsFiniteSet(Trying(t, r)) /\ Cardinality(Trying(t, r)) \in Nat
           /\ IsFiniteSet(OwnEntries(t, r))
  <1>1. IsFiniteSet(OwnEntries(t, r)) /\ Count(t, r) \in Nat
    <2>1. OwnEntries(t, r) \subseteq work[t].entries /\ IsFiniteSet(work[t].entries)
      BY RecordTypes DEF OwnEntries
    <2> QED
      BY <2>1, FS_Subset, FS_CardinalityType DEF Count
  <1>2. IsFiniteSet(Trying(t, r)) /\ Cardinality(Trying(t, r)) \in Nat
    <2>1. Trying(t, r) \subseteq Windows /\ IsFiniteSet(Windows)
      BY JournalAssumption DEF JournalAssumption, Trying
    <2> QED
      BY <2>1, FS_Subset, FS_CardinalityType
  <1>3. Allowed(t, r) \in Nat
    BY DEF Typed, TypeOK, Allowed
  <1> QED
    BY <1>1, <1>2, <1>3

LEMMA BudgetTypesNext ==
    ASSUME Typed', NEW t \in Trees, NEW r \in Records
    PROVE  /\ Count(t, r)' \in Nat /\ Allowed(t, r)' \in Nat
           /\ IsFiniteSet(Trying(t, r)') /\ Cardinality(Trying(t, r)') \in Nat
           /\ IsFiniteSet(OwnEntries(t, r)')
  <1>1. IsFiniteSet(OwnEntries(t, r)') /\ Count(t, r)' \in Nat
    <2>1. OwnEntries(t, r)' \subseteq work'[t].entries /\ IsFiniteSet(work'[t].entries)
      BY DEF OwnEntries, Typed, Finite
    <2> QED
      BY <2>1, FS_Subset, FS_CardinalityType DEF Count
  <1>2. IsFiniteSet(Trying(t, r)') /\ Cardinality(Trying(t, r)') \in Nat
    <2>1. Trying(t, r)' \subseteq Windows /\ IsFiniteSet(Windows)
      BY JournalAssumption DEF JournalAssumption, Trying
    <2> QED
      BY <2>1, FS_Subset, FS_CardinalityType
  <1>3. Allowed(t, r)' \in Nat
    BY DEF Typed, TypeOK, Allowed
  <1> QED
    BY <1>1, <1>2, <1>3

\* A step that asks for nothing and gives nothing away.
LEMMA Easier ==
    ASSUME Typed, Typed', NEW t \in Trees, NEW r \in Records, Within(t, r),
           Count(t, r)' <= Count(t, r), Trying(t, r)' \subseteq Trying(t, r),
           Allowed(t, r) <= Allowed(t, r)',
           Resumable(t, r) # {} => Resumable(t, r)' # {},
           Taken(t, r)' => Taken(t, r),
           r \in open'[t] => r \in open[t] /\ (Reporting(t, r) => Reporting(t, r)')
    PROVE  Within(t, r)'
  <1> DEFINE c == Count(t, r)
             d == Count(t, r)'
             n == Cardinality(Trying(t, r))
             m == Cardinality(Trying(t, r)')
             a == Allowed(t, r)
             b == Allowed(t, r)'
  <1>1. /\ c \in Nat /\ d \in Nat /\ n \in Nat /\ m \in Nat /\ a \in Nat /\ b \in Nat
    BY BudgetTypes, BudgetTypesNext
  <1>2. m <= n
    BY BudgetTypes, FS_Subset
  <1>3. d <= c /\ a <= b
    OBVIOUS
  <1>4. /\ c <= a
        /\ c + n <= a \/ (Resumable(t, r) # {} /\ ~Taken(t, r) /\ c + n <= a + 1)
        /\ r \in open[t] => Resumable(t, r) # {} \/ Reporting(t, r) \/ c + 1 <= a
    BY DEF Within
  <1> HIDE DEF c, d, n, m, a, b
  <1>5. /\ d <= b
        /\ c + n <= a => d + m <= b
        /\ c + n <= a + 1 => d + m <= b + 1
        /\ c + 1 <= a => d + 1 <= b
    BY <1>1, <1>2, <1>3, <1>4
  <1>6. d + m <= b \/ (Resumable(t, r)' # {} /\ ~Taken(t, r)' /\ d + m <= b + 1)
    BY <1>4, <1>5
  <1>7. r \in open'[t] => Resumable(t, r)' # {} \/ Reporting(t, r)' \/ d + 1 <= b
    BY <1>4, <1>5
  <1> QED
    BY <1>5, <1>6, <1>7 DEF Within, b, d, m

\* The journals of a checkout as they were.
LEMMA StillCounts ==
    ASSUME NEW t, NEW r, Still(t), context'[t] = context[t]
    PROVE  /\ Count(t, r)' = Count(t, r) /\ Resumable(t, r)' = Resumable(t, r)
           /\ Marks(head'[t].entries) = Marks(head[t].entries)
  <1>1. OwnEntries(t, r)' = OwnEntries(t, r)
    BY DEF OwnEntries, Still
  <1>2. Pending(t)' = Pending(t)
    BY DEF Pending, Still
  <1> QED
    BY <1>1, <1>2 DEF Count, Resumable, Still

LEMMA SameBudget ==
    ASSUME Typed, Typed', NEW t \in Trees, NEW r \in Records, Within(t, r),
           Still(t), context'[t] = context[t],
           asked'[t] = asked[t], lost'[t] = lost[t], open'[t] = open[t],
           \A w \in Windows : Home[w] = t => win'[w] = win[w]
    PROVE  Within(t, r)'
  <1>1. Trying(t, r)' = Trying(t, r)
    BY DEF Trying
  <1>2. /\ Taken(t, r)' => Taken(t, r)
        /\ Reporting(t, r) => Reporting(t, r)'
    BY DEF Taken, Holds, Reporting, Still
  <1>3. Allowed(t, r)' = Allowed(t, r)
    BY DEF Allowed
  <1>4. /\ Count(t, r)' <= Count(t, r)
        /\ Allowed(t, r) <= Allowed(t, r)'
    BY <1>3, StillCounts, BudgetTypes
  <1> QED
    BY <1>1, <1>2, <1>4, StillCounts, Easier

\* The ways of a command that costs nothing.
Quiet == {<<"preflight", "classify">>, <<"classify", "rotate">>, <<"classify", "read">>,
          <<"rotate", "read">>, <<"read", "append">>, <<"index", "row">>,
          <<"row", "recorded">>, <<"recorded", "staged">>, <<"staged", "commit">>}

LEMMA QuietBudget ==
    ASSUME Typed, Typed', NEW t \in Trees, NEW r \in Records, Within(t, r),
           NEW w \in Windows, Home[w] = t, \A v \in Windows \ {w} : win'[v] = win[v],
           Still(t), context'[t] = context[t], asked'[t] = asked[t], lost'[t] = lost[t],
           open'[t] \subseteq open[t],
           \/ win'[w].pc = "idle"
           \/ /\ <<win[w].pc, win'[w].pc>> \in Quiet /\ win'[w].rec = win[w].rec
              /\ win[w].pc \in {"index", "row", "recorded", "staged"} =>
                    win'[w].mark = win[w].mark,
           win[w].pc = "verify" => win[w].rec \notin open'[t]
    PROVE  Within(t, r)'
  <1>1. Trying(t, r)' \subseteq Trying(t, r)
    BY DEF Trying, Quiet
  <1>2. Taken(t, r)' => Taken(t, r)
    <2> SUFFICES ASSUME NEW v \in Windows, Holds(v, t, r)'
                 PROVE  Holds(v, t, r)
      BY DEF Taken
    <2>1. Marks(head'[t].entries) = Marks(head[t].entries)
      BY DEF Still
    <2>2. CASE v # w
      BY <2>1, <2>2 DEF Holds
    <2>3. CASE v = w
      BY <2>1, <2>3 DEF Holds, Quiet
    <2> QED
      BY <2>2, <2>3
  <1>3. r \in open'[t] => r \in open[t] /\ (Reporting(t, r) => Reporting(t, r)')
    BY DEF Reporting
  <1>4. Allowed(t, r)' = Allowed(t, r)
    BY DEF Allowed
  <1>5. /\ Count(t, r)' <= Count(t, r)
        /\ Allowed(t, r) <= Allowed(t, r)'
    BY <1>4, StillCounts, BudgetTypes
  <1> QED
    BY <1>1, <1>2, <1>3, <1>5, StillCounts, Easier

LEMMA BeginBudget ==
    ASSUME Typed, Typed', NEW t \in Trees, NEW r \in Records, Within(t, r),
           NEW w \in Windows, Home[w] = t, NEW q \in Records, NEW auto, Begin(w, q, auto)
    PROVE  Within(t, r)'
  <1>1. /\ win[w].pc = "idle" /\ win'[w].pc = "preflight" /\ win'[w].rec = q
        /\ \A v \in Windows \ {w} : win'[v] = win[v]
        /\ asked' = [asked EXCEPT ![t][q] = IF Resumes(t, q) THEN @ ELSE @ + 1]
        /\ open' = [open EXCEPT ![t] = @ \cup {q}]
        /\ UNCHANGED <<files, drift, lost>>
    BY DEF Begin, IdleWin, Typed, TypeOK
  <1>2. /\ asked \in [Trees -> [Records -> Nat]] /\ open \in [Trees -> SUBSET Records]
    BY DEF Typed, TypeOK
  <1>3. Still(t) /\ context'[t] = context[t] /\ lost' = lost
    BY <1>1 DEF Still, files, drift
  <1>4. Taken(t, r)' => Taken(t, r)
    <2> SUFFICES ASSUME NEW v \in Windows, Holds(v, t, r)'
                 PROVE  Holds(v, t, r)
      BY DEF Taken
    <2>1. Marks(head'[t].entries) = Marks(head[t].entries)
      BY <1>3 DEF Still
    <2> QED
      BY <1>1, <2>1 DEF Holds
  <1>5. Reporting(t, r) => Reporting(t, r)'
    BY <1>1 DEF Reporting
  <1>6. Count(t, r)' = Count(t, r) /\ Resumable(t, r)' = Resumable(t, r)
    BY <1>3, StillCounts
  <1>7. CASE r # q
    <2>1. Trying(t, r)' \subseteq Trying(t, r)
      BY <1>1, <1>7 DEF Trying
    <2>2. Allowed(t, r)' = Allowed(t, r)
      BY <1>1, <1>2, <1>3, <1>7 DEF Allowed
    <2>3. Count(t, r)' <= Count(t, r) /\ Allowed(t, r) <= Allowed(t, r)'
      BY <1>6, <2>2, BudgetTypes
    <2>4. r \in open'[t] => r \in open[t]
      BY <1>1, <1>2, <1>7
    <2> QED
      BY <1>4, <1>5, <1>6, <2>1, <2>3, <2>4, Easier
  <1>8. CASE r = q
    <2> DEFINE c == Count(t, r)
               n == Cardinality(Trying(t, r))
               a == Allowed(t, r)
    <2>1. /\ c \in Nat /\ n \in Nat /\ a \in Nat /\ IsFiniteSet(Trying(t, r))
      BY BudgetTypes
    <2>2. Trying(t, r)' = Trying(t, r) \cup {w} /\ w \notin Trying(t, r)
      BY <1>1, <1>8 DEF Trying
    <2>3. Cardinality(Trying(t, r)') = n + 1
      BY <2>1, <2>2, FS_AddElement
    <2>4. /\ c <= a
          /\ c + n <= a \/ (Resumable(t, r) # {} /\ ~Taken(t, r) /\ c + n <= a + 1)
          /\ r \in open[t] => Resumable(t, r) # {} \/ Reporting(t, r) \/ c + 1 <= a
      BY DEF Within
    <2>5. CASE Resumes(t, q)
      <3>1. Allowed(t, r)' = a
        BY <1>1, <1>2, <1>3, <1>8, <2>5 DEF Allowed
      <3>2. r \in open[t] /\ \A v \in Windows : Home[v] = t => win[v].rec # r
        BY <1>8, <2>5 DEF Resumes
      <3>3. n = 0
        <4>1. Trying(t, r) = {}
          BY <3>2 DEF Trying
        <4> QED
          BY <4>1, FS_EmptySet
      <3>4. ~Reporting(t, r) /\ ~Taken(t, r)
        BY <3>2 DEF Reporting, Taken, Holds
      <3> HIDE DEF c, n, a
      <3>5. Resumable(t, r) # {} \/ c + 1 <= a
        BY <2>4, <3>2, <3>4
      <3>6. /\ c <= a
            /\ n + 1 = 1 /\ c + 1 <= a + 1
        BY <2>1, <2>4, <3>3
      <3>7. /\ c + (n + 1) <= a \/ (Resumable(t, r)' # {} /\ ~Taken(t, r)' /\ c + (n + 1) <= a + 1)
            /\ Resumable(t, r)' # {} \/ c + 1 <= a
        BY <1>4, <1>6, <3>4, <3>5, <3>6
      <3> QED
        BY <1>6, <2>3, <3>1, <3>6, <3>7 DEF Within, c
    <2>6. CASE ~Resumes(t, q)
      <3>1. Allowed(t, r)' = a + 1
        <4>1. asked'[t][r] = asked[t][r] + 1
          BY <1>1, <1>2, <1>8, <2>6
        <4>2. lost[t][r] \in Nat /\ asked[t][r] \in Nat
          BY DEF Typed, TypeOK
        <4> QED
          BY <1>3, <4>1, <4>2 DEF Allowed
      <3> HIDE DEF c, n, a
      <3>2. /\ c <= a + 1 /\ c + 1 <= a + 1
            /\ c + n <= a => c + (n + 1) <= a + 1
            /\ c + n <= a + 1 => c + (n + 1) <= (a + 1) + 1
        BY <2>1, <2>4
      <3>3. \/ c + (n + 1) <= a + 1
            \/ (Resumable(t, r)' # {} /\ ~Taken(t, r)' /\ c + (n + 1) <= (a + 1) + 1)
        BY <1>4, <1>6, <2>4, <3>2
      <3> QED
        BY <1>6, <2>3, <3>1, <3>2, <3>3 DEF Within, c
    <2> QED
      BY <2>5, <2>6
  <1> QED
    BY <1>7, <1>8

\* The command has found an entry to resume.
LEMMA PresentBudget ==
    ASSUME Typed, Typed', NEW t \in Trees, NEW r \in Records, Within(t, r),
           NEW w \in Windows, Home[w] = t, \A v \in Windows \ {w} : win'[v] = win[v],
           Still(t), context'[t] = context[t], asked'[t] = asked[t], lost'[t] = lost[t],
           open'[t] = open[t],
           win[w].pc = "classify", win'[w].pc \in {"index", "recorded"},
           win'[w].rec = win[w].rec
    PROVE  Within(t, r)'
  <1>1. Count(t, r)' = Count(t, r) /\ Resumable(t, r)' = Resumable(t, r)
        /\ Allowed(t, r)' = Allowed(t, r)
    BY StillCounts DEF Allowed
  <1>2. Reporting(t, r) => Reporting(t, r)'
    BY DEF Reporting
  <1>3. CASE r # win[w].rec
    <2>1. Trying(t, r)' \subseteq Trying(t, r)
      BY <1>3 DEF Trying
    <2>2. Taken(t, r)' => Taken(t, r)
      <3> SUFFICES ASSUME NEW v \in Windows, Holds(v, t, r)'
                   PROVE  Holds(v, t, r)
        BY DEF Taken
      <3>1. Marks(head'[t].entries) = Marks(head[t].entries)
        BY DEF Still
      <3> QED
        BY <1>3, <3>1 DEF Holds
    <2>3. Count(t, r)' <= Count(t, r) /\ Allowed(t, r) <= Allowed(t, r)'
      BY <1>1, BudgetTypes
    <2> QED
      BY <1>1, <1>2, <2>1, <2>2, <2>3, Easier
  <1>4. CASE r = win[w].rec
    <2> DEFINE c == Count(t, r)
               n == Cardinality(Trying(t, r))
               a == Allowed(t, r)
    <2>1. /\ c \in Nat /\ n \in Nat /\ a \in Nat /\ IsFiniteSet(Trying(t, r))
      BY BudgetTypes
    <2>2. Trying(t, r)' = Trying(t, r) \ {w} /\ w \in Trying(t, r)
      BY <1>4 DEF Trying
    <2>3. Cardinality(Trying(t, r)') = n - 1
      BY <2>1, <2>2, FS_RemoveElement
    <2>4. /\ c <= a /\ c + n <= a + 1
          /\ r \in open[t] => Resumable(t, r) # {} \/ Reporting(t, r) \/ c + 1 <= a
      <3>1. /\ c <= a
            /\ c + n <= a \/ (Resumable(t, r) # {} /\ ~Taken(t, r) /\ c + n <= a + 1)
            /\ r \in open[t] => Resumable(t, r) # {} \/ Reporting(t, r) \/ c + 1 <= a
        BY DEF Within
      <3> HIDE DEF c, n, a
      <3> QED
        BY <2>1, <3>1
    <2> HIDE DEF c, n, a
    <2>5. c + (n - 1) <= a
      BY <2>1, <2>4
    <2> QED
      BY <1>1, <1>2, <2>3, <2>4, <2>5 DEF Within, c, a
  <1> QED
    BY <1>3, <1>4

LEMMA AppendBudget ==
    ASSUME IInv, Typed', NEW t \in Calm, NEW r \in Records, Within(t, r),
           NEW w \in Windows, Home[w] = t, Adds(w)
    PROVE  Within(t, r)'
  <1> DEFINE q == win[w]
             e == Entry(q.num, q.mark, q.file, Bottom(q.snap) + 1)
  <1>1. /\ work'[t] = [work[t] EXCEPT !.entries = work[t].entries \cup {e}]
        /\ e.mark = q.mark /\ head' = head
        /\ \A d \in work[t].entries : d.mark # e.mark
        /\ Ready(w) /\ q.pc = "append"
    BY AppendAdds
  <1>2. /\ Typed /\ t \in Trees /\ work[t] \in Contents /\ win \in [Windows -> Commands]
        /\ q \in Commands /\ q.rec \in Records
    BY <1>1, RecordTypes, WindowTypes DEF IInv, Calm, Typed, TypeOK
  <1> HIDE DEF e
  <1>3. work'[t].entries = work[t].entries \cup {e} /\ e \notin work[t].entries
    BY <1>1, <1>2 DEF Contents
  <1>4. e.mark.tree = t /\ e.mark.rec = q.rec /\ e.mark.ctx = context[t]
    BY <1>1 DEF IInv, AtWork, Steady
  <1>5. /\ win'[w].pc = "index" /\ win'[w].rec = q.rec /\ win'[w].mark = q.mark
        /\ \A v \in Windows \ {w} : win'[v] = win[v]
        /\ asked' = asked /\ lost' = lost /\ open' = open /\ context' = context
    BY <1>2 DEF Adds, AppendEntry, Commands, ghosts, drift
  <1>6. q.mark \notin Marks(head[t].entries)
    BY <1>1 DEF IInv, Journals, Kept, Marks
  <1>7. e \in Pending(t)' /\ Pending(t) \subseteq Pending(t)'
    BY <1>1, <1>3, <1>6 DEF Pending
  <1>8. Allowed(t, r)' = Allowed(t, r) /\ (Reporting(t, r) => Reporting(t, r)')
    BY <1>1, <1>5 DEF Allowed, Reporting
  <1>9. CASE r # q.rec
    <2>1. OwnEntries(t, r)' = OwnEntries(t, r)
      BY <1>3, <1>4, <1>9 DEF OwnEntries
    <2>2. Trying(t, r)' \subseteq Trying(t, r)
      BY <1>5, <1>9 DEF Trying
    <2>3. Taken(t, r)' => Taken(t, r)
      <3> SUFFICES ASSUME NEW v \in Windows, Holds(v, t, r)'
                   PROVE  Holds(v, t, r)
        BY DEF Taken
      <3> QED
        BY <1>1, <1>5, <1>9 DEF Holds
    <2>4. Resumable(t, r) # {} => Resumable(t, r)' # {}
      BY <1>5, <1>7 DEF Resumable
    <2>5. Count(t, r)' <= Count(t, r) /\ Allowed(t, r) <= Allowed(t, r)'
      BY <1>2, <1>8, <2>1, BudgetTypes DEF Count
    <2> QED
      BY <1>2, <1>5, <1>8, <2>2, <2>3, <2>4, <2>5, Easier
  <1>10. CASE r = q.rec
    <2> DEFINE c == Count(t, r)
               n == Cardinality(Trying(t, r))
               a == Allowed(t, r)
    <2>1. /\ c \in Nat /\ n \in Nat /\ a \in Nat /\ IsFiniteSet(Trying(t, r))
          /\ IsFiniteSet(OwnEntries(t, r))
      BY <1>2, BudgetTypes
    <2>2. Trying(t, r)' = Trying(t, r) \ {w} /\ w \in Trying(t, r)
      BY <1>1, <1>5, <1>10 DEF Trying
    <2>3. Cardinality(Trying(t, r)') = n - 1
      BY <2>1, <2>2, FS_RemoveElement
    <2>4. Count(t, r)' = c + 1
      <3>1. OwnEntries(t, r)' = OwnEntries(t, r) \cup {e} /\ e \notin OwnEntries(t, r)
        BY <1>3, <1>4, <1>10 DEF OwnEntries
      <3> QED
        BY <2>1, <3>1, FS_AddElement DEF Count
    <2>5. Resumable(t, r) = {}
      BY <1>1, <1>10 DEF Ready
    <2>6. c + n <= a
      BY <2>5 DEF Within
    <2>7. Resumable(t, r)' # {}
      BY <1>4, <1>5, <1>7, <1>10 DEF Resumable
    <2>8. n # 0
      BY <2>1, <2>2, FS_EmptySet
    <2> HIDE DEF c, n, a
    <2>9. c + 1 <= a /\ (c + 1) + (n - 1) <= a
      BY <2>1, <2>6, <2>8
    <2> QED
      BY <1>8, <2>3, <2>4, <2>7, <2>9 DEF Within, a
  <1> QED
    BY <1>9, <1>10

\* A step that gives something away.
LEMMA Paid ==
    ASSUME Typed, Typed', NEW t \in Trees, NEW r \in Records, Within(t, r),
           Count(t, r)' <= Count(t, r), Trying(t, r)' \subseteq Trying(t, r),
           Allowed(t, r) + 1 <= Allowed(t, r)'
    PROVE  Within(t, r)'
  <1> DEFINE c == Count(t, r)
             d == Count(t, r)'
             n == Cardinality(Trying(t, r))
             m == Cardinality(Trying(t, r)')
             a == Allowed(t, r)
             b == Allowed(t, r)'
  <1>1. /\ c \in Nat /\ d \in Nat /\ n \in Nat /\ m \in Nat /\ a \in Nat /\ b \in Nat
    BY BudgetTypes, BudgetTypesNext
  <1>2. m <= n
    BY BudgetTypes, FS_Subset
  <1>3. /\ d <= c /\ a + 1 <= b
        /\ c <= a
        /\ c + n <= a \/ c + n <= a + 1
    BY DEF Within
  <1> HIDE DEF c, d, n, m, a, b
  <1>4. d <= b /\ d + m <= b /\ d + 1 <= b
    BY <1>1, <1>2, <1>3
  <1> QED
    BY <1>4 DEF Within, b, d, m

LEMMA CommitBudget ==
    ASSUME IInv, Typed', NEW t \in Calm, NEW r \in Records, Within(t, r),
           NEW w \in Windows, Home[w] = t, Commits(w)
    PROVE  Within(t, r)'
  <1> DEFINE q == win[w]
             h == Committed(t, q)
             s == Cardinality(Swept(w, h, r))
  <1>1. /\ Typed /\ t \in Trees /\ win \in [Windows -> Commands] /\ q \in Commands
        /\ lost \in [Trees -> [Records -> Nat]] /\ asked \in [Trees -> [Records -> Nat]]
    BY WindowTypes DEF IInv, Calm, Typed, TypeOK
  <1>2. /\ work' = work /\ head'[t] = h /\ head[t].entries \subseteq head'[t].entries
    BY CommitKeeps
  <1>3. /\ q.pc = "commit" /\ win'[w].pc = "verify" /\ win'[w].rec = q.rec
        /\ \A v \in Windows \ {w} : win'[v] = win[v]
        /\ asked' = asked /\ open' = open /\ context' = context
    BY <1>1 DEF Commits, Commit, Commands, drift
  <1>4. s \in Nat /\ IsFiniteSet(Swept(w, h, r))
    BY <1>1, SweptFinite
  <1>5. lost'[t][r] = lost[t][r] + s
    BY <1>1 DEF Commits, Swept
  <1> HIDE DEF h, s
  <1>6. Allowed(t, r)' = Allowed(t, r) + s
    BY <1>1, <1>3, <1>4, <1>5 DEF Allowed
  <1>7. Count(t, r)' = Count(t, r) /\ Trying(t, r)' = Trying(t, r)
    <2>1. OwnEntries(t, r)' = OwnEntries(t, r)
      BY <1>2 DEF OwnEntries
    <2> QED
      BY <1>3, <2>1 DEF Count, Trying
  <1>8. Taken(t, r)' => Taken(t, r)
    <2> SUFFICES ASSUME NEW v \in Windows, Holds(v, t, r)'
                 PROVE  Holds(v, t, r)
      BY DEF Taken
    <2>1. Marks(head[t].entries) \subseteq Marks(head'[t].entries)
      BY <1>2 DEF Marks
    <2> QED
      BY <1>3, <2>1 DEF Holds
  <1>9. (Reporting(t, r) => Reporting(t, r)') /\ (r = q.rec => Reporting(t, r)')
    BY <1>3 DEF Reporting
  <1>10. q.mark.rec = q.rec
    BY <1>3 DEF IInv, AtWork, Steady
  <1>11. Resumable(t, r) # {} /\ (r # q.rec \/ ~Taken(t, r))
             => Resumable(t, r)' # {} \/ Swept(w, h, r) # {}
    <2> SUFFICES ASSUME NEW e \in Resumable(t, r), r # q.rec \/ ~Taken(t, r),
                        Resumable(t, r)' = {}
                 PROVE  e.mark \in Swept(w, h, r)
      OBVIOUS
    <2>1. /\ e \in work[t].entries /\ e.mark \notin Marks(head[t].entries)
          /\ e.mark.tree = t /\ e.mark.rec = r /\ e.mark.ctx = context[t]
      BY DEF Resumable, Pending
    <2>2. e.mark \in Marks(h.entries)
      BY <1>2, <1>3, <2>1 DEF Resumable, Pending
    <2>3. e.mark # q.mark
      <3>1. CASE r # q.rec
        BY <1>10, <2>1, <3>1
      <3>2. CASE r = q.rec /\ ~Taken(t, r)
        BY <1>3, <2>1, <3>2 DEF Taken, Holds
      <3> QED
        BY <3>1, <3>2
    <2> QED
      BY <2>1, <2>2, <2>3 DEF Swept, SweptBy
  <1>12. CASE Swept(w, h, r) # {}
    <2>1. s # 0
      BY <1>4, <1>12, FS_EmptySet DEF s
    <2>2. /\ Count(t, r)' <= Count(t, r) /\ Allowed(t, r) + 1 <= Allowed(t, r)'
      BY <1>1, <1>4, <1>6, <1>7, <2>1, BudgetTypes
    <2> QED
      BY <1>1, <1>7, <2>2, Paid
  <1>13. CASE Swept(w, h, r) = {}
    <2>1. Allowed(t, r)' = Allowed(t, r)
      BY <1>1, <1>6, <1>13, FS_EmptySet, BudgetTypes DEF s
    <2> QED
      BY <1>3, <1>7, <1>8, <1>9, <1>11, <1>13, <2>1 DEF Within
  <1> QED
    BY <1>12, <1>13

LEMMA KillBudget ==
    ASSUME Typed, Typed', NEW t \in Trees, NEW r \in Records, Within(t, r),
           NEW w \in Windows, Home[w] = t, Kill(w)
    PROVE  Within(t, r)'
  <1>1. /\ win'[w].pc = "idle" /\ \A v \in Windows \ {w} : win'[v] = win[v]
        /\ work' = work /\ head' = head /\ context' = context
        /\ asked' = asked /\ open' = open
        /\ lost' = [lost EXCEPT ![t][win[w].rec] = IF win[w].pc = "verify" THEN @ + 1 ELSE @]
    BY DEF Kill, Fail, IdleWin, files, drift, Typed, TypeOK
  <1>2. lost \in [Trees -> [Records -> Nat]] /\ asked \in [Trees -> [Records -> Nat]]
    BY DEF Typed, TypeOK
  <1>3. Still(t)
    BY <1>1 DEF Still
  <1>4. CASE win[w].pc # "verify"
    <2>1. lost'[t] = lost[t]
      BY <1>1, <1>2, <1>4
    <2> QED
      BY <1>1, <1>3, <1>4, <2>1, QuietBudget
  <1>5. Trying(t, r)' \subseteq Trying(t, r)
    BY <1>1 DEF Trying
  <1>6. Count(t, r)' = Count(t, r) /\ Resumable(t, r)' = Resumable(t, r)
    BY <1>1, <1>3, StillCounts
  <1>7. CASE win[w].pc = "verify" /\ r = win[w].rec
    <2>1. lost'[t][r] = lost[t][r] + 1
      BY <1>1, <1>2, <1>7
    <2>2. Count(t, r)' <= Count(t, r) /\ Allowed(t, r) + 1 <= Allowed(t, r)'
      BY <1>1, <1>2, <1>6, <2>1, BudgetTypes DEF Allowed
    <2> QED
      BY <1>5, <2>2, Paid
  <1>8. CASE win[w].pc = "verify" /\ r # win[w].rec
    <2>1. lost'[t][r] = lost[t][r]
      BY <1>1, <1>2, <1>8
    <2>2. Count(t, r)' <= Count(t, r) /\ Allowed(t, r) <= Allowed(t, r)'
      BY <1>1, <1>2, <1>6, <2>1, BudgetTypes DEF Allowed
    <2>3. Taken(t, r)' => Taken(t, r)
      BY <1>1 DEF Taken, Holds
    <2>4. Reporting(t, r) => Reporting(t, r)'
      BY <1>1, <1>8 DEF Reporting
    <2> QED
      BY <1>1, <1>5, <1>6, <2>2, <2>3, <2>4, Easier
  <1> QED
    BY <1>4, <1>7, <1>8

\* With no command running in a checkout nothing is tried or reported.
LEMMA IdleBudget ==
    ASSUME NEW t \in Trees, NEW r \in Records, Within(t, r),
           \A w \in Windows : Home[w] = t => win[w].pc = "idle"
    PROVE  Trying(t, r) = {} /\ ~Taken(t, r) /\ ~Reporting(t, r)
  BY DEF Trying, Taken, Holds, Reporting

LEMMA ChangeContextBudget ==
    ASSUME Typed, Typed', NEW t \in Trees, NEW r \in Records, Within(t, r), ChangeContext(t)
    PROVE  Within(t, r)'
  <1> DEFINE given == r \in open[t] /\ \E m \in Marks(work[t].entries) :
                          m.tree = t /\ m.rec = r /\ m.ctx = context[t]
  <1>1. lost \in [Trees -> [Records -> Nat]] /\ asked \in [Trees -> [Records -> Nat]]
    BY DEF Typed, TypeOK
  <1>2. /\ win' = win /\ work' = work /\ head' = head /\ asked' = asked /\ open' = open
        /\ lost'[t][r] = IF given THEN lost[t][r] + 1 ELSE lost[t][r]
    BY <1>1 DEF ChangeContext, files
  <1>3. Trying(t, r) = {} /\ ~Taken(t, r) /\ ~Reporting(t, r)
    BY IdleBudget DEF ChangeContext
  <1>4. Trying(t, r)' = Trying(t, r) /\ ~Taken(t, r)' /\ Count(t, r)' = Count(t, r)
    <2>1. OwnEntries(t, r)' = OwnEntries(t, r)
      BY <1>2 DEF OwnEntries
    <2> QED
      BY <1>2, <1>3, <2>1 DEF Trying, Taken, Holds, Count
  <1>5. CASE given
    <2>1. lost'[t][r] = lost[t][r] + 1
      BY <1>2, <1>5
    <2>2. Count(t, r)' <= Count(t, r) /\ Allowed(t, r) + 1 <= Allowed(t, r)'
      BY <1>1, <1>2, <1>4, <2>1, BudgetTypes DEF Allowed
    <2> QED
      BY <1>4, <2>2, Paid
  <1>6. CASE ~given
    <2> DEFINE c == Count(t, r)
               a == Allowed(t, r)
    <2>1. Allowed(t, r)' = a /\ c \in Nat /\ a \in Nat
      BY <1>2, <1>6, BudgetTypes DEF Allowed
    <2>2. c <= a
      BY DEF Within
    <2>3. Cardinality(Trying(t, r)') = 0
      BY <1>3, <1>4, FS_EmptySet
    <2>4. r \in open[t] => c + 1 <= a
      <3>1. r \in open[t] => Resumable(t, r) = {}
        BY <1>6 DEF Resumable, Pending, Marks
      <3> QED
        BY <1>3, <3>1 DEF Within
    <2> HIDE DEF c, a, given
    <2>5. c + 0 <= a
      BY <2>1, <2>2
    <2> QED
      BY <1>2, <1>4, <2>1, <2>2, <2>3, <2>4, <2>5 DEF Within, c
  <1> QED
    BY <1>5, <1>6

LEMMA MergeBudget ==
    ASSUME IInv, Typed', NEW t \in Calm, NEW u \in Calm, NEW r \in Records, Within(t, r),
           Merge(t, u)
    PROVE  Within(t, r)'
  <1>1. /\ Typed /\ t \in Trees
        /\ IsFiniteSet(OwnEntries(t, r)) /\ IsFiniteSet(OwnEntries(t, r)')
    BY BudgetTypes, BudgetTypesNext DEF IInv, Calm
  <1>2. Joins(t, u)
    BY MergeJoins
  <1>3. /\ win' = win /\ asked' = asked /\ open' = open /\ lost' = lost
        /\ context' = context
    BY DEF Merge, drift
  <1>4. Trying(t, r) = {} /\ ~Taken(t, r) /\ ~Reporting(t, r)
    BY <1>1, IdleBudget DEF Merge
  <1>5. Trying(t, r)' = Trying(t, r) /\ ~Taken(t, r)'
    BY <1>1, <1>3 DEF Trying, Taken, Holds, Merge
  <1>6. Resumable(t, r) = {}
    BY <1>2 DEF Joins, Resumable, Pending, Marks
  <1>7. Cardinality(OwnEntries(t, r)') <= Cardinality(OwnEntries(t, r))
    <2> DEFINE A == OwnEntries(t, r)
               B == OwnEntries(t, r)'
    <2>1. A = {e \in head[t].entries : e.mark.tree = t /\ e.mark.rec = r}
      BY <1>2 DEF Joins, OwnEntries
    <2>2. B = {e \in head'[t].entries : e.mark.tree = t /\ e.mark.rec = r}
      BY <1>2 DEF Joins, OwnEntries
    <2>3. Marks(B) \subseteq Marks(A)
      <3> SUFFICES ASSUME NEW e \in B
                   PROVE  \E d \in A : d.mark = e.mark
        BY DEF Marks
      <3>1. e \in head'[t].entries /\ e.mark.tree = t /\ e.mark.rec = r
        BY <2>2
      <3>2. PICK d \in head[t].entries : Copy(d, e)
        BY <1>2, <3>1, JoinOwn
      <3> QED
        BY <2>1, <3>1, <3>2 DEF Copy
    <2>4. \A d, e \in B : d.mark = e.mark => d = e
      BY <1>2, <2>2 DEF Joins
    <2>5. IsFiniteSet(A) /\ IsFiniteSet(B)
      BY <1>1
    <2> HIDE DEF A, B
    <2>6. Cardinality(B) = Cardinality(Marks(B))
      BY <2>4, <2>5, MarksCount
    <2>7. IsFiniteSet(Marks(A)) /\ Cardinality(Marks(A)) <= Cardinality(A)
      BY <2>5, MarksFinite
    <2>8. Cardinality(Marks(B)) <= Cardinality(Marks(A)) /\ IsFiniteSet(Marks(B))
      BY <2>3, <2>7, FS_Subset
    <2>9. Cardinality(A) \in Nat /\ Cardinality(Marks(A)) \in Nat /\ Cardinality(Marks(B)) \in Nat
      BY <2>5, <2>7, <2>8, FS_CardinalityType
    <2>10. Cardinality(B) <= Cardinality(A)
      BY <2>6, <2>7, <2>8, <2>9
    <2> QED
      BY <2>10 DEF A, B
  <1>8. Count(t, r)' <= Count(t, r) /\ Allowed(t, r)' = Allowed(t, r)
    BY <1>3, <1>7 DEF Count, Allowed
  <1>9. Allowed(t, r) <= Allowed(t, r)'
    BY <1>1, <1>8, BudgetTypes
  <1> QED
    BY <1>1, <1>3, <1>4, <1>5, <1>6, <1>8, <1>9, Easier

LEMMA InitBudget ==
    ASSUME Init
    PROVE  Budget
  <1> SUFFICES ASSUME NEW t \in Trees, NEW r \in Records
               PROVE  Within(t, r)
    BY DEF Budget, Calm
  <1>1. /\ head[t].entries = {} /\ context[t] = 1 /\ lost[t][r] = 0
        /\ asked[t][r] = IF <<t, r>> \in Legacy THEN 1 ELSE 0
        /\ open[t] = {q \in Records : <<t, q>> \in Legacy}
        /\ \A w \in Windows : win[w].pc = "idle"
    BY DEF Init, NoFiles, IdleWin
  <1>2. Trying(t, r) = {} /\ ~Taken(t, r)
    BY <1>1 DEF Trying, Taken, Holds
  <1>3. Cardinality(Trying(t, r)) = 0
    BY <1>2, FS_EmptySet
  <1>4. work[t].entries = {Entry(1, Mark(t, q, 1, 0, 1), 1, 1) :
                               q \in {p \in Records : <<t, p>> \in Legacy}}
    <2>1. CASE t \in Fresh
      <3>1. \A q \in Records : <<t, q>> \notin Legacy
        BY <2>1, JournalAssumption DEF JournalAssumption
      <3> QED
        BY <2>1, <3>1 DEF Init, NoFiles
    <2>2. CASE t \notin Fresh
      BY <2>2 DEF Init
    <2> QED
      BY <2>1, <2>2
  <1> DEFINE e == Entry(1, Mark(t, r, 1, 0, 1), 1, 1)
  <1>5. /\ \A q : /\ Entry(1, Mark(t, q, 1, 0, 1), 1, 1).mark.rec = q
                  /\ Entry(1, Mark(t, q, 1, 0, 1), 1, 1).mark.tree = t
                  /\ Entry(1, Mark(t, q, 1, 0, 1), 1, 1).mark.ctx = 1
    BY DEF Entry, Mark
  <1> HIDE DEF e
  <1>6. CASE <<t, r>> \in Legacy
    <2>1. OwnEntries(t, r) = {e}
      <3>1. e \in OwnEntries(t, r)
        BY <1>4, <1>5, <1>6 DEF OwnEntries, e
      <3>2. \A d \in OwnEntries(t, r) : d = e
        BY <1>4, <1>5 DEF OwnEntries, e
      <3> QED
        BY <3>1, <3>2
    <2>2. Count(t, r) = 1 /\ Allowed(t, r) = 1
      <3>1. Cardinality({e}) = 1
        BY FS_Singleton
      <3> QED
        BY <1>1, <1>6, <2>1, <3>1 DEF Count, Allowed
    <2>3. e \in Resumable(t, r)
      BY <1>1, <1>4, <1>5, <1>6 DEF Resumable, Pending, Marks, e
    <2> QED
      BY <1>3, <2>2, <2>3 DEF Within
  <1>7. CASE <<t, r>> \notin Legacy
    <2>1. OwnEntries(t, r) = {}
      BY <1>4, <1>5, <1>7 DEF OwnEntries
    <2>2. Count(t, r) = 0 /\ Allowed(t, r) = 0
      BY <1>1, <1>7, <2>1, FS_EmptySet DEF Count, Allowed
    <2>3. r \notin open[t]
      BY <1>1, <1>7
    <2> QED
      BY <1>3, <2>2, <2>3 DEF Within
  <1> QED
    BY <1>6, <1>7

LEMMA ClassifyBudget ==
    ASSUME Typed, Typed', NEW t \in Trees, NEW r \in Records, Within(t, r),
           NEW w \in Windows, Home[w] = t, ClassifyRecord(w)
    PROVE  Within(t, r)'
  <1>1. /\ win \in [Windows -> Commands] /\ win[w] \in Commands
        /\ open \in [Trees -> SUBSET Records]
    BY WindowTypes DEF Typed, TypeOK
  <1>2. /\ win[w].pc = "classify" /\ \A v \in Windows \ {w} : win'[v] = win[v]
        /\ Still(t) /\ context' = context /\ asked' = asked /\ lost' = lost
    BY WindowSteps DEF ClassifyRecord, Command, Still, files, drift
  <1>3. CASE (Fail(w) /\ UNCHANGED open) \/ Succeed(w)
    <2>1. win'[w].pc = "idle" /\ open'[t] \subseteq open[t]
      BY <1>1, <1>3 DEF Fail, Succeed, IdleWin
    <2> QED
      BY <1>2, <2>1, QuietBudget
  <1>4. ASSUME UNCHANGED open, NEW m, Settles(w, m)
        PROVE  Within(t, r)'
    <2>1. PICK num \in Nat, pc \in {"index", "recorded", "rotate", "read"} :
              win' = [win EXCEPT ![w] = [win[w] EXCEPT !.mark = m, !.num = num,
                                             !.file = work[t].files, !.pc = pc]]
      BY <1>4 DEF Settles
    <2>2. win'[w].pc = pc /\ win'[w].rec = win[w].rec
      BY <1>1, <2>1 DEF Commands
    <2>3. CASE pc \in {"rotate", "read"}
      <3>1. <<win[w].pc, win'[w].pc>> \in Quiet /\ win[w].pc = "classify"
        BY <1>2, <2>2, <2>3 DEF Quiet
      <3> QED
        BY <1>2, <1>4, <2>2, <3>1, QuietBudget
    <2>4. CASE pc \in {"index", "recorded"}
      BY <1>2, <1>4, <2>2, <2>4, PresentBudget
    <2> QED
      BY <2>3, <2>4
  <1> QED
    BY <1>3, <1>4, ClassifySteps

\* A command of the checkout.
LEMMA OwnBudget ==
    ASSUME IInv, Typed', NEW t \in Calm, NEW r \in Records, Within(t, r),
           NEW w \in Windows, Home[w] = t, Command(w) \/ Kill(w)
    PROVE  Within(t, r)'
  <1>1. /\ Typed /\ t \in Trees /\ Steady(w) /\ win[w] \in Commands
        /\ win \in [Windows -> Commands] /\ open \in [Trees -> SUBSET Records]
        /\ work \in [Trees -> Contents] /\ work[t] \in Contents
        /\ context' = context
    BY RecordTypes, WindowTypes, CommandLeaves DEF IInv, AtWork, Calm, Typed, TypeOK
  <1>2. \A v \in Windows \ {w} : win'[v] = win[v]
    BY <1>1, WindowSteps
  <1>3. ASSUME NEW q \in Sessions[w], NEW auto \in {TRUE} \cup {w \notin Manual},
               Begin(w, q, auto)
        PROVE  Within(t, r)'
    <2>1. q \in Records
      BY JournalAssumption DEF JournalAssumption
    <2> QED
      BY <1>1, <1>3, <2>1, BeginBudget
  <1>4. CASE ClassifyRecord(w)
    BY <1>1, <1>4, ClassifyBudget
  <1>5. CASE Kill(w)
    BY <1>1, <1>5, KillBudget
  <1>6. CASE Adds(w)
    BY <1>6, AppendBudget
  <1>7. CASE Commits(w)
    BY <1>7, CommitBudget
  <1>8. CASE Preflight(w)
    <2>1. /\ Still(t) /\ asked' = asked /\ lost' = lost /\ open' = open
          /\ win[w].pc = "preflight"
          /\ \/ win'[w].pc = "idle"
             \/ win'[w].pc = "classify" /\ win'[w].rec = win[w].rec
      BY <1>1, <1>8 DEF Preflight, Goto, Fail, IdleWin, Commands, Still, files
    <2>2. win'[w].pc = "classify" => <<win[w].pc, win'[w].pc>> \in Quiet
      BY <2>1 DEF Quiet
    <2> QED
      BY <1>1, <1>2, <2>1, <2>2, QuietBudget
  <1>9. CASE Verify(w)
    <2>1. win[w].mark \in Marks(head[t].entries)
      BY <1>1, <1>9 DEF Verify, Steady
    <2>2. Succeed(w) /\ UNCHANGED <<files, asked, lost>>
      BY <1>9, <2>1 DEF Verify
    <2>3. /\ win'[w].pc = "idle" /\ open'[t] = open[t] \ {win[w].rec}
          /\ Still(t) /\ asked' = asked /\ lost' = lost
      BY <1>1, <2>2 DEF Succeed, IdleWin, Still, files
    <2> QED
      BY <1>1, <1>2, <2>3, QuietBudget
  <1>10. CASE SkipCommit(w) \/ CheckStaged(w)
    <2>1. /\ Still(t) /\ asked' = asked /\ lost' = lost /\ open'[t] \subseteq open[t]
          /\ win[w].pc \in {"recorded", "staged"}
          /\ \/ win'[w].pc = "idle"
             \/ /\ win[w].pc = "staged" /\ win'[w].pc = "commit"
                /\ win'[w].rec = win[w].rec /\ win'[w].mark = win[w].mark
      BY <1>1, <1>10 DEF SkipCommit, CheckStaged, Goto, Succeed, IdleWin, Commands, Still, files
    <2>2. win'[w].pc = "idle" \/ <<win[w].pc, win'[w].pc>> \in Quiet
      BY <2>1 DEF Quiet
    <2> QED
      BY <1>1, <1>2, <2>1, <2>2, QuietBudget
  <1>11. CASE /\ Rotate(w) \/ ReadJournal(w) \/ ReadIndex(w) \/ UpdateIndex(w) \/ Stage(w)
                 \/ AppendEntry(w) \/ Commit(w)
              /\ ~Adds(w) /\ ~Commits(w)
    <2>1. Still(t)
      <3>1. CASE UNCHANGED <<work, head>>
        BY <3>1 DEF Still
      <3>2. CASE Rotated(w)
        <4>1. work'[t] = [work[t] EXCEPT !.files = work[t].files + 1] /\ head' = head
          BY <1>1, <3>2, RotateKeeps
        <4> QED
          BY <1>1, <4>1 DEF Still, Contents
      <3>3. CASE Indexes(w)
        <4>1. work' = [work EXCEPT ![t].index = UpdatedIndex(win[w])] /\ head' = head
          BY <3>3 DEF Indexes, UpdateIndex
        <4> QED
          BY <1>1, <4>1 DEF Still, Contents
      <3> QED
        BY <1>1, <1>11, <3>1, <3>2, <3>3, CommandFiles
    <2>2. asked' = asked /\ lost' = lost /\ open' = open
      BY <1>11 DEF Rotate, ReadJournal, ReadIndex, UpdateIndex, Stage, AppendEntry, Commit,
                   Commits, Goto, ghosts
    <2>3. \/ win'[w].pc = "idle"
          \/ /\ <<win[w].pc, win'[w].pc>> \in Quiet
             /\ win'[w].rec = win[w].rec /\ win'[w].mark = win[w].mark
      <3>1. CASE Rotate(w) \/ ReadJournal(w) \/ ReadIndex(w)
        BY <1>1, <3>1 DEF Rotate, ReadJournal, ReadIndex, Fail, IdleWin, Commands, Quiet
      <3>2. CASE UpdateIndex(w) \/ Stage(w)
        BY <1>1, <3>2 DEF UpdateIndex, Stage, Fail, IdleWin, Commands, Quiet
      <3>3. CASE AppendEntry(w) \/ Commit(w)
        BY <1>1, <1>11, <3>3 DEF AppendEntry, Adds, Commit, Commits, Goto, Fail, IdleWin
      <3> QED
        BY <1>11, <3>1, <3>2, <3>3
    <2>4. win[w].pc # "verify"
      BY <1>11 DEF Rotate, ReadJournal, ReadIndex, UpdateIndex, Stage, AppendEntry, Commit
    <2> QED
      BY <1>1, <1>2, <2>1, <2>2, <2>3, <2>4, QuietBudget
  <1> QED
    BY <1>3, <1>4, <1>5, <1>6, <1>7, <1>8, <1>9, <1>10, <1>11 DEF Command

LEMMA BudgetNext ==
    ASSUME IInv, Typed', Budget, Next
    PROVE  Budget'
  <1>1. /\ Typed /\ Calm' \subseteq Calm /\ Calm \subseteq Trees
        /\ work \in [Trees -> Contents]
    BY CalmShrinks DEF IInv, Calm, Typed, TypeOK
  <1>2. SUFFICES ASSUME NEW t \in Calm', NEW r \in Records
                 PROVE  Within(t, r)'
    BY DEF Budget
  <1>3. t \in Calm /\ t \in Trees /\ Within(t, r)
    BY <1>1, <1>2 DEF Budget
  <1>4. ASSUME NEW w \in Windows, Command(w) \/ Kill(w)
        PROVE  Within(t, r)'
    <2>1. CASE Home[w] = t
      BY <1>1, <1>3, <1>4, <2>1, OwnBudget
    <2>2. CASE Home[w] # t
      <3>1. /\ context' = context /\ Still(t)
            /\ open'[t] = open[t] /\ asked'[t] = asked[t] /\ lost'[t] = lost[t]
        BY <1>1, <1>3, <1>4, <2>2, CommandLeaves DEF Still
      <3>2. \A v \in Windows : Home[v] = t => win'[v] = win[v]
        BY <1>1, <1>4, <2>2, WindowSteps
      <3> QED
        BY <1>1, <1>3, <3>1, <3>2, SameBudget
    <2> QED
      BY <2>1, <2>2
  <1>5. ASSUME NEW x \in Trees, InitDeveloper(x)
        PROVE  Within(t, r)'
    <2>1. /\ head' = head /\ win' = win /\ context' = context
          /\ asked' = asked /\ lost' = lost /\ open' = open
      BY <1>5 DEF InitDeveloper, drift, ghosts
    <2>2. Still(t)
      <3>1. work[t] \in Contents
        BY <1>1, <1>3
      <3>2. \/ work' = [work EXCEPT ![x] = [work[x] EXCEPT !.files = 1]]
            \/ work' = [work EXCEPT ![x] = [work[x] EXCEPT !.index = NewIndex]]
        BY <1>5 DEF InitDeveloper
      <3>3. CASE x = t
        <4>1. \/ work'[t] = [work[t] EXCEPT !.files = 1]
              \/ work'[t] = [work[t] EXCEPT !.index = NewIndex]
          BY <1>1, <1>3, <3>2, <3>3
        <4>2. work'[t].entries = work[t].entries
          BY <3>1, <4>1 DEF Contents
        <4> QED
          BY <2>1, <4>2 DEF Still
      <3>4. CASE x # t
        BY <1>1, <1>3, <2>1, <3>2, <3>4 DEF Still
      <3> QED
        BY <3>3, <3>4
    <2> QED
      BY <1>1, <1>3, <2>1, <2>2, SameBudget
  <1>6. ASSUME NEW x \in Trees, ChangeContext(x)
        PROVE  Within(t, r)'
    <2>1. CASE x = t
      BY <1>1, <1>3, <1>6, <2>1, ChangeContextBudget
    <2>2. CASE x # t
      <3>1. context \in [Trees -> Nat] /\ lost \in [Trees -> [Records -> Nat]]
        BY <1>1 DEF Typed, TypeOK
      <3>2. /\ Still(t) /\ win' = win /\ asked' = asked /\ open' = open
            /\ context'[t] = context[t] /\ lost'[t] = lost[t]
        BY <1>3, <1>6, <2>2, <3>1 DEF ChangeContext, Still, files
      <3> QED
        BY <1>1, <1>3, <3>2, SameBudget
    <2> QED
      BY <2>1, <2>2
  <1>7. ASSUME NEW x \in Trees, NEW u \in Trees, Merge(x, u)
        PROVE  Within(t, r)'
    <2>1. CASE x = t
      <3>1. u \in Calm
        BY <1>1, <1>2, <1>7, <2>1, CalmShrinks
      <3> QED
        BY <1>3, <1>7, <2>1, <3>1, MergeBudget
    <2>2. CASE x # t
      <3>1. work'[t] = work[t] /\ head'[t] = head[t]
        BY <1>1, <1>3, <1>7, <2>2, OnlyAt
      <3>2. /\ Still(t) /\ win' = win /\ asked' = asked /\ open' = open
            /\ context' = context /\ lost' = lost
        BY <1>7, <3>1 DEF Merge, Still, drift
      <3> QED
        BY <1>1, <1>3, <3>2, SameBudget
    <2> QED
      BY <2>1, <2>2
  <1>8. CASE NextDay
    <2>1. /\ Still(t) /\ win' = win /\ asked' = asked /\ open' = open
          /\ context' = context /\ lost' = lost
      BY <1>8 DEF NextDay, Still, files, ghosts
    <2> QED
      BY <1>1, <1>3, <2>1, SameBudget
  <1> QED
    BY <1>4, <1>5, <1>6, <1>7, <1>8 DEF Next

LEMMA BudgetStutter ==
    ASSUME Budget, UNCHANGED vars
    PROVE  Budget'
  <1>1. \A t : Still(t) /\ context'[t] = context[t]
    BY DEF vars, Still
  <1>2. \A t, r : Count(t, r)' = Count(t, r) /\ Resumable(t, r)' = Resumable(t, r)
    BY <1>1, StillCounts
  <1>3. \A t, r : /\ Trying(t, r)' = Trying(t, r) /\ Taken(t, r)' = Taken(t, r)
                  /\ Reporting(t, r)' = Reporting(t, r) /\ Allowed(t, r)' = Allowed(t, r)
    BY DEF vars, Trying, Taken, Holds, Reporting, Allowed
  <1>4. Calm' = Calm /\ open' = open
    BY DEF vars, Calm
  <1> QED
    BY <1>2, <1>3, <1>4 DEF Budget, Within

(* However often a command is killed or run again, a calm checkout has no  *)
(* more entries for a session than requests and losses account for.        *)
THEOREM RetriesHold == Spec => []RetriesConverge
  <1>1. IInv /\ IInv' /\ Budget /\ [Next]_vars => Budget'
    BY BudgetNext, BudgetStutter DEF IInv
  <1>2. Budget => RetriesConverge
    BY DEF Budget, Within, Calm, Count, Allowed, RetriesConverge
  <1> QED
    BY <1>1, <1>2, InitBudget, Invariant, PTL DEF Spec
=============================================================================
