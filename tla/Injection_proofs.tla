-------------------------- MODULE Injection_proofs --------------------------
(***************************************************************************)
(* Proofs about module Injection: what truncate_utf8 does to every text at *)
(* every cap, and that the context of an agent keeps its limits however    *)
(* its files change while it is assembled.                                 *)
(***************************************************************************)
EXTENDS Injection, FiniteSetTheorems, WellFoundedInduction, TLAPS

-----------------------------------------------------------------------------
(* Characters.                                                             *)

\* There is a last start up to n, and nothing but continuations behind it.
LEMMA LastStartIs ==
    ASSUME NEW data \in Seq(Byte), NEW n \in 0..Len(data)
    PROVE  /\ LastStart(data, n) \in 0..n
           /\ LastStart(data, n) = 0 \/ data[LastStart(data, n)] # "more"
           /\ \A k \in (LastStart(data, n) + 1)..n : data[k] = "more"
  <1> DEFINE Less == {ss \in Nat \X Nat : ss[1] < ss[2]}
             S == {d \in 0..n : n - d = 0 \/ data[n - d] # "more"}
  <1>1. IsWellFoundedOn(Less, Nat)
    BY NatLessThanWellFounded DEF OpToRel
  <1>2. S \subseteq Nat /\ n \in S
    OBVIOUS
  <1>3. PICK d \in S : \A e \in S : <<e, d>> \notin Less
    <2> HIDE DEF Less, S
    <2> QED
      BY <1>1, <1>2, WFMin
  <1>4. \A k \in ((n - d) + 1)..n : data[k] = "more"
    <2> SUFFICES ASSUME NEW k \in ((n - d) + 1)..n, data[k] # "more"
                 PROVE  FALSE
      OBVIOUS
    <2>1. n - k \in S /\ n - k < d /\ n - (n - k) = k
      OBVIOUS
    <2>2. <<n - k, d>> \in Less
      BY <2>1
    <2> QED
      BY <1>3, <2>1, <2>2
  <1>5. n - d \in 0..n /\ (n - d = 0 \/ data[n - d] # "more")
    OBVIOUS
  <1>6. \E i \in 0..n : /\ i = 0 \/ data[i] # "more"
                        /\ \A k \in (i + 1)..n : data[k] = "more"
    BY <1>4, <1>5
  <1> QED
    BY <1>6 DEF LastStart

\* No other position is like it.
LEMMA LastStartUnique ==
    ASSUME NEW data \in Seq(Byte), NEW n \in 0..Len(data), NEW i \in 0..n,
           i = 0 \/ data[i] # "more",
           \A k \in (i + 1)..n : data[k] = "more"
    PROVE  LastStart(data, n) = i
  <1> DEFINE j == LastStart(data, n)
  <1>1. j \in 0..n /\ (j = 0 \/ data[j] # "more")
        /\ \A k \in (j + 1)..n : data[k] = "more"
    BY LastStartIs
  <1>2. ~(j < i)
    BY <1>1
  <1>3. ~(i < j)
    BY <1>1
  <1> QED
    BY <1>1, <1>2, <1>3

\* A prefix is a sequence of bytes of its own.
LEMMA Prefix ==
    ASSUME NEW data \in Seq(Byte), NEW m \in 0..Len(data)
    PROVE  /\ SubSeq(data, 1, m) \in Seq(Byte)
           /\ Len(SubSeq(data, 1, m)) = m
           /\ \A k \in 1..m : SubSeq(data, 1, m)[k] = data[k]
  OBVIOUS

LEMMA LastStartOfPrefix ==
    ASSUME NEW data \in Seq(Byte), NEW m \in 0..Len(data), NEW n \in 0..m
    PROVE  LastStart(SubSeq(data, 1, m), n) = LastStart(data, n)
  <1> DEFINE sub == SubSeq(data, 1, m)
             i == LastStart(data, n)
  <1>1. /\ sub \in Seq(Byte) /\ Len(sub) = m
        /\ \A k \in 1..m : sub[k] = data[k]
    BY Prefix
  <1>2. /\ n \in 0..Len(data) /\ i \in 0..n
        /\ i = 0 \/ data[i] # "more"
        /\ \A k \in (i + 1)..n : data[k] = "more"
    BY LastStartIs
  <1>3. /\ n \in 0..Len(sub)
        /\ i = 0 \/ sub[i] # "more"
        /\ \A k \in (i + 1)..n : sub[k] = "more"
    BY <1>1, <1>2
  <1> HIDE DEF sub, i
  <1>4. LastStart(sub, n) = i
    BY <1>1, <1>2, <1>3, LastStartUnique
  <1> QED
    BY <1>4 DEF sub, i

LEMMA WidthType ==
    ASSUME NEW b \in Byte
    PROVE  Width(b) \in 1..4
  BY DEF Byte, Width

\* A character that is whole in a text is whole in every prefix it fits in.
LEMMA WholeInPrefix ==
    ASSUME NEW data \in Seq(Byte), NEW m \in 0..Len(data), NEW p \in 1..m,
           Whole(data, p),
           LastStart(data, p) + Width(data[LastStart(data, p)]) - 1 <= m
    PROVE  Whole(SubSeq(data, 1, m), p)
  <1> DEFINE sub == SubSeq(data, 1, m)
             i == LastStart(data, p)
             w == Width(data[i])
  <1>1. /\ sub \in Seq(Byte) /\ Len(sub) = m
        /\ \A k \in 1..m : sub[k] = data[k]
    BY Prefix
  <1>2. i \in 0..p /\ p \in 0..m /\ p \in 0..Len(data)
    BY LastStartIs
  <1>3. LastStart(sub, p) = i
    BY <1>2, LastStartOfPrefix
  <1>4. /\ i > 0 /\ p < i + w /\ i + w - 1 <= Len(data)
        /\ \A k \in (i + 1)..(i + w - 1) : data[k] = "more"
    BY DEF Whole, Reaches, Complete
  <1>5. data[i] \in Byte /\ w \in 1..4 /\ sub[i] = data[i]
    BY <1>1, <1>2, <1>4, WidthType
  <1>6. i + w - 1 <= m
    OBVIOUS
  <1>7. \A k \in (i + 1)..(i + w - 1) : sub[k] = "more"
    <2> HIDE DEF sub, i, w
    <2> QED
      BY <1>1, <1>2, <1>4, <1>5, <1>6
  <1>8. Complete(sub, i) /\ Reaches(sub, p)
    BY <1>1, <1>3, <1>4, <1>5, <1>6, <1>7 DEF Complete, Reaches
  <1> QED
    BY <1>3, <1>8 DEF Whole

\* What a text says about one of its positions.
LEMMA TextAt ==
    ASSUME NEW data \in Seq(Byte), IsText(data), NEW p \in 1..Len(data)
    PROVE  LET i == LastStart(data, p)
               w == Width(data[i])
           IN  /\ i \in 1..p /\ w \in 1..4 /\ data[i] # "more"
               /\ p < i + w /\ i + w - 1 <= Len(data)
               /\ \A k \in (i + 1)..p : data[k] = "more"
               /\ \A k \in (i + 1)..(i + w - 1) : data[k] = "more"
  <1> DEFINE i == LastStart(data, p)
  <1>1. i \in 0..p /\ (i = 0 \/ data[i] # "more")
        /\ \A k \in (i + 1)..p : data[k] = "more"
    BY LastStartIs
  <1>2. Whole(data, p)
    BY DEF IsText
  <1>3. i > 0 /\ p < i + Width(data[i]) /\ Complete(data, i)
    BY <1>2 DEF Whole, Reaches
  <1>4. Width(data[i]) \in 1..4
    BY <1>1, <1>3, WidthType
  <1> QED
    BY <1>1, <1>3, <1>4 DEF Complete

\* Behind a whole character another one starts.
LEMMA NoMoreBehind ==
    ASSUME NEW data \in Seq(Byte), IsText(data), NEW cap \in 1..(Len(data) - 1),
           LastStart(data, cap) + Width(data[LastStart(data, cap)]) - 1 = cap
    PROVE  data[cap + 1] # "more"
  <1> DEFINE i == LastStart(data, cap)
             j == LastStart(data, cap + 1)
  <1> SUFFICES ASSUME data[cap + 1] = "more"
               PROVE  FALSE
    OBVIOUS
  <1>1. /\ cap \in 1..Len(data)
        /\ i \in 1..cap /\ data[i] # "more"
        /\ \A k \in (i + 1)..cap : data[k] = "more"
    BY TextAt
  <1>2. \A k \in (i + 1)..(cap + 1) : data[k] = "more"
    <2> HIDE DEF i
    <2> QED
      BY <1>1
  <1>3. j = i
    <2>1. cap + 1 \in 0..Len(data) /\ i \in 0..(cap + 1)
      BY <1>1
    <2> QED
      BY <1>1, <1>2, <2>1, LastStartUnique
  <1>4. cap + 1 \in 1..Len(data)
    OBVIOUS
  <1>5. cap + 1 < j + Width(data[j]) /\ Width(data[j]) \in 1..4
    BY <1>4, TextAt
  <1> QED
    BY <1>1, <1>3, <1>5

\* No character reaches behind the start of a later one.
LEMMA EndsBefore ==
    ASSUME NEW data \in Seq(Byte), IsText(data), NEW m \in 0..Len(data),
           m = Len(data) \/ data[m + 1] # "more", NEW p \in 1..m
    PROVE  /\ Whole(data, p)
           /\ LastStart(data, p) + Width(data[LastStart(data, p)]) - 1 <= m
  <1> DEFINE i == LastStart(data, p)
             w == Width(data[i])
  <1>1. /\ p \in 1..Len(data)
        /\ i \in 1..p /\ w \in 1..4
        /\ i + w - 1 <= Len(data)
        /\ \A k \in (i + 1)..(i + w - 1) : data[k] = "more"
    BY TextAt
  <1>2. i + w - 1 <= m
    <2> HIDE DEF i, w
    <2> QED
      BY <1>1
  <1> QED
    BY <1>1, <1>2 DEF IsText

\* A text may be cut before any of its characters.
LEMMA CutBeforeStart ==
    ASSUME NEW data \in Seq(Byte), IsText(data), NEW m \in 0..Len(data),
           m = Len(data) \/ data[m + 1] # "more"
    PROVE  IsText(SubSeq(data, 1, m))
  <1> SUFFICES ASSUME NEW p \in 1..m
               PROVE  Whole(SubSeq(data, 1, m), p)
    BY Prefix DEF IsText
  <1> QED
    BY EndsBefore, WholeInPrefix

\* A text may not be cut within one of its characters.
LEMMA CutWithin ==
    ASSUME NEW data \in Seq(Byte), IsText(data), NEW i \in 1..Len(data),
           data[i] # "more", NEW m \in i..Len(data), m < i + Width(data[i]) - 1
    PROVE  ~IsText(SubSeq(data, 1, m))
  <1> DEFINE sub == SubSeq(data, 1, m)
  <1>1. /\ sub \in Seq(Byte) /\ Len(sub) = m
        /\ \A k \in 1..m : sub[k] = data[k]
    BY Prefix
  <1>2. LastStart(data, i) = i
    BY LastStartUnique
  <1>3. LastStart(sub, i) = i
    BY <1>2, LastStartOfPrefix
  <1>4. sub[i] = data[i]
    BY <1>1
  <1> HIDE DEF sub
  <1>5. Width(data[i]) \in 1..4
    BY WidthType
  <1>6. ~Complete(sub, i)
    BY <1>1, <1>4, <1>5 DEF Complete
  <1>7. ~Whole(sub, i)
    BY <1>3, <1>6 DEF Whole
  <1>8. i \in DOMAIN sub
    BY <1>1
  <1> QED
    BY <1>7, <1>8 DEF IsText, sub

-----------------------------------------------------------------------------
(* truncate_utf8.                                                          *)

(* What is kept is a prefix, and never longer than a cap that is set.      *)
THEOREM TruncateBounded ==
    ASSUME NEW data \in Seq(Byte), NEW cap \in Nat
    PROVE  /\ Cut(data, cap) \in 0..Len(data)
           /\ cap > 0 => Cut(data, cap) <= cap
           /\ Truncate(data, cap) \in Seq(Byte)
           /\ Len(Truncate(data, cap)) = Cut(data, cap)
  <1> DEFINE i == LastStart(data, cap)
  <1>1. Cut(data, cap) \in 0..Len(data) /\ (cap > 0 => Cut(data, cap) <= cap)
    <2>1. CASE cap = 0 \/ Len(data) <= cap
      BY <2>1 DEF Cut
    <2>2. CASE ~(cap = 0 \/ Len(data) <= cap)
      <3>1. cap \in 0..Len(data) /\ i \in 0..cap
        BY <2>2, LastStartIs
      <3>2. Cut(data, cap) \in {i, i - 1} /\ (Cut(data, cap) = i - 1 => i > 0)
        BY <2>2, <3>1 DEF Cut
      <3> HIDE DEF i
      <3> QED
        BY <3>1, <3>2
    <2> QED
      BY <2>1, <2>2
  <1> QED
    BY <1>1, Prefix DEF Truncate

(* A text longer than its cap is cut to whole characters, as many as fit,  *)
(* except where a character of several bytes ends exactly at the cap.      *)
THEOREM TruncateWhole ==
    ASSUME NEW data \in Seq(Byte), NEW cap \in Nat \ {0},
           cap < Len(data), IsText(data), ~EndsAt(data, cap)
    PROVE  /\ IsText(Truncate(data, cap))
           /\ \A m \in (Cut(data, cap) + 1)..cap : ~IsText(SubSeq(data, 1, m))
  <1> DEFINE i == LastStart(data, cap)
             w == Width(data[i])
  <1>1. /\ i \in 1..cap /\ w \in 1..4 /\ data[i] # "more"
        /\ cap < i + w /\ i + w - 1 <= Len(data)
        /\ \A k \in (i + 1)..cap : data[k] = "more"
    BY TextAt
  <1>2. CASE (i - 1) + w > cap
    <2>1. Cut(data, cap) = i - 1
      BY <1>1, <1>2 DEF Cut
    <2>2. IsText(SubSeq(data, 1, i - 1))
      <3>1. i - 1 \in 0..Len(data) /\ data[(i - 1) + 1] # "more"
        BY <1>1
      <3> QED
        BY <3>1, CutBeforeStart
    <2>3. ASSUME NEW m \in i..cap
          PROVE  ~IsText(SubSeq(data, 1, m))
      <3>1. i \in 1..Len(data) /\ m \in i..Len(data) /\ m < i + w - 1
        BY <1>1, <1>2
      <3> QED
        BY <1>1, <3>1, CutWithin
    <2>4. (i - 1) + 1 = i
      BY <1>1
    <2> QED
      BY <2>1, <2>2, <2>3, <2>4 DEF Truncate
  <1>3. CASE (i - 1) + w <= cap
    <2>1. Cut(data, cap) = i
      BY <1>1, <1>3 DEF Cut
    <2>2. cap = i + w - 1
      BY <1>1, <1>3
    <2>3. data[cap + 1] # "more"
      BY <1>1, <2>2, NoMoreBehind
    <2>4. i = cap
      BY <1>1, <2>3 DEF EndsAt
    <2>5. IsText(SubSeq(data, 1, cap))
      BY <2>3, CutBeforeStart
    <2> QED
      BY <2>1, <2>4, <2>5 DEF Truncate
  <1> QED
    BY <1>1, <1>2, <1>3

(* Where one does end at the cap, its lead byte is kept and the rest of it *)
(* is not: the documented "without splitting a UTF-8 multi-byte sequence"  *)
(* fails at every such text, and nowhere else.                             *)
THEOREM TruncateSplits ==
    ASSUME NEW data \in Seq(Byte), NEW cap \in Nat \ {0},
           cap < Len(data), IsText(data), EndsAt(data, cap)
    PROVE  /\ Cut(data, cap) = LastStart(data, cap)
           /\ LastStart(data, cap) \in 1..(cap - 1)
           /\ ~IsText(Truncate(data, cap))
  <1> DEFINE i == LastStart(data, cap)
             w == Width(data[i])
  <1>1. /\ i \in 1..cap /\ w \in 1..4 /\ data[i] # "more"
        /\ cap < i + w /\ i + w - 1 <= Len(data)
        /\ \A k \in (i + 1)..(i + w - 1) : data[k] = "more"
    BY TextAt
  <1>2. data[cap] = "more" /\ data[cap + 1] # "more"
    BY DEF EndsAt
  <1>3. i < cap
    BY <1>1, <1>2
  <1>4. i + w - 1 <= cap
    BY <1>1, <1>2
  <1>5. Cut(data, cap) = i
    BY <1>1, <1>4 DEF Cut
  <1>6. i \in 1..Len(data) /\ i \in i..Len(data) /\ i < i + w - 1
    BY <1>1, <1>3
  <1>7. ~IsText(SubSeq(data, 1, i))
    BY <1>1, <1>6, CutWithin
  <1> QED
    BY <1>1, <1>3, <1>5, <1>7 DEF Truncate

-----------------------------------------------------------------------------
(* What a block costs.                                                     *)

LEMMA DecodedIs ==
    ASSUME NEW data \in Seq(Byte)
    PROVE  DecodedBytes(data) \in Nat
  <1> DEFINE good == {i \in DOMAIN data : Whole(data, i)}
             bad == {i \in DOMAIN data \ good : data[i] # "more" \/ ~Reaches(data, i)}
  <1>1. IsFiniteSet(DOMAIN data)
    <2>1. DOMAIN data = 1..Len(data) /\ Len(data) \in Int
      OBVIOUS
    <2> QED
      BY <2>1, FS_Interval
  <1>2. good \subseteq DOMAIN data /\ bad \subseteq DOMAIN data
    OBVIOUS
  <1>3. DecodedBytes(data) = Cardinality(good) + 3 * Cardinality(bad)
    BY DEF DecodedBytes
  <1> HIDE DEF good, bad
  <1>4. Cardinality(good) \in Nat /\ Cardinality(bad) \in Nat
    BY <1>1, <1>2, FS_Subset, FS_CardinalityType
  <1> QED
    BY <1>3, <1>4

LEMMA SizeUpTo ==
    ASSUME NEW n \in Nat, NEW P \in SUBSET (1..n)
    PROVE  Cardinality(P) \in Nat /\ Cardinality(P) <= n
  <1>1. IsFiniteSet(1..n)
    BY FS_Interval
  <1>2. Cardinality(1..n) = n
    <2>1. Cardinality(1..n) = IF 1 > n THEN 0 ELSE n - 1 + 1
      BY FS_Interval
    <2> QED
      BY <2>1
  <1>3. IsFiniteSet(P) /\ Cardinality(P) <= Cardinality(1..n)
    BY <1>1, FS_Subset
  <1>4. Cardinality(P) \in Nat
    BY <1>3, FS_CardinalityType
  <1> QED
    BY <1>2, <1>3, <1>4

\* A text that is cut behind a lead byte decodes to one byte more than its
\* cap at most.
LEMMA SplitDecoded ==
    ASSUME NEW data \in Seq(Byte), NEW cap \in Nat \ {0},
           cap < Len(data), IsText(data), EndsAt(data, cap)
    PROVE  DecodedBytes(Truncate(data, cap)) <= cap + 1
  <1> DEFINE i == LastStart(data, cap)
             sub == SubSeq(data, 1, i)
             good == {k \in DOMAIN sub : Whole(sub, k)}
             bad == {k \in DOMAIN sub \ good : sub[k] # "more" \/ ~Reaches(sub, k)}
  <1>1. /\ i \in 1..(cap - 1) /\ data[i] # "more"
        /\ Truncate(data, cap) = sub
    <2>1. Cut(data, cap) = i /\ i \in 1..(cap - 1)
      BY TruncateSplits
    <2>2. cap \in 0..Len(data)
      OBVIOUS
    <2> QED
      BY <2>1, <2>2, LastStartIs DEF Truncate
  <1>2. sub \in Seq(Byte) /\ DOMAIN sub = 1..i
    <2>1. i \in 0..Len(data)
      BY <1>1
    <2> QED
      BY <2>1, Prefix
  <1>3. ASSUME NEW k \in 1..(i - 1)
        PROVE  k \in good
    <2>1. /\ i - 1 \in 0..Len(data) /\ data[(i - 1) + 1] # "more"
          /\ i \in 0..Len(data) /\ k \in 1..i
      BY <1>1
    <2>2. /\ Whole(data, k)
          /\ LastStart(data, k) + Width(data[LastStart(data, k)]) - 1 <= i - 1
      BY <2>1, EndsBefore
    <2>3. LastStart(data, k) \in Nat /\ Width(data[LastStart(data, k)]) \in Nat
      <3>1. k \in 1..Len(data)
        BY <2>1
      <3> QED
        BY <3>1, TextAt
    <2>4. LastStart(data, k) + Width(data[LastStart(data, k)]) - 1 <= i
      BY <1>1, <2>2, <2>3
    <2>5. Whole(sub, k)
      BY <2>1, <2>2, <2>4, WholeInPrefix
    <2> QED
      BY <1>2, <2>1, <2>5
  <1>4. DecodedBytes(sub) = Cardinality(good) + 3 * Cardinality(bad)
    BY DEF DecodedBytes
  <1>5. /\ good \subseteq 1..i /\ bad \subseteq {i} /\ good \cap bad = {}
    BY <1>1, <1>2, <1>3
  <1> HIDE DEF i, sub, good, bad
  <1>6. CASE bad = {}
    <2>1. Cardinality(good) \in Nat /\ Cardinality(good) <= i
      BY <1>1, <1>5, SizeUpTo
    <2>2. Cardinality(bad) = 0
      BY <1>6, FS_EmptySet
    <2> QED
      BY <1>1, <1>4, <2>1, <2>2
  <1>7. CASE bad = {i}
    <2>1. good \subseteq 1..(i - 1) /\ i - 1 \in Nat
      BY <1>1, <1>5, <1>7
    <2>2. Cardinality(good) \in Nat /\ Cardinality(good) <= i - 1
      BY <2>1, SizeUpTo
    <2>3. Cardinality(bad) = 1
      BY <1>7, FS_Singleton
    <2> QED
      BY <1>1, <1>4, <2>2, <2>3
  <1> QED
    BY <1>5, <1>6, <1>7

LEMMA GivenIs ==
    ASSUME InjectionAssumption, NEW item \in Item, NEW data \in Contents
    PROVE  /\ Cap(item) \in Nat
           /\ BlockBytes(item, data) \in Nat
  <1>1. data \in Seq(Byte) /\ Cap(item) \in Nat /\ HeaderBytes \in Nat
        /\ NoticeBytes \in Nat
    BY DEF InjectionAssumption, Cap
  <1>2. Given(item, data) \in Seq(Byte)
    BY <1>1, TruncateBounded DEF Given
  <1>3. DecodedBytes(Given(item, data)) \in Nat
    BY <1>2, DecodedIs
  <1> QED
    BY <1>1, <1>3 DEF BlockBytes

-----------------------------------------------------------------------------
(* The hook.                                                               *)

Blocks == [item : Item, how : {"binary", "full", "inlined"}, data : Contents]
              \cup {Uncurated}

\* A step about one file appends at most one block, and content only if
\* there is room for it.
LEMMA MaterializeIs ==
    ASSUME InjectionAssumption, TypeOK, todo # <<>>,
           NEW data \in Contents \cup {None}, Materialize(data)
    PROVE  /\ used' \in Nat /\ inlined' \in Nat /\ blocks' \in Seq(Blocks)
           /\ inlined <= used => inlined' <= used'
           /\ \/ inlined' = inlined
              \/ MaxTotalBytes > 0 => used' <= MaxTotalBytes
  <1> DEFINE item == Head(todo)
  <1>1. item \in Item /\ used \in Nat /\ inlined \in Nat /\ blocks \in Seq(Blocks)
        /\ MaxTotalBytes \in Nat /\ NoticeBytes \in Nat
    BY DEF TypeOK, Blocks, InjectionAssumption
  <1> HIDE DEF item
  <1>2. CASE UNCHANGED <<used, blocks, inlined>>
    BY <1>1, <1>2
  <1>3. ASSUME data \in Contents,
               Notice("binary", data) \/ Notice("full", data)
        PROVE  /\ used' = used + NoticeBytes /\ inlined' = inlined
               /\ blocks' \in Seq(Blocks)
    <2>1. PICK how \in {"binary", "full"} : Notice(how, data)
      BY <1>3
    <2>2. Block(item, how, data) \in Blocks
      BY <1>1, <1>3 DEF Block, Blocks
    <2>3. blocks' = Append(blocks, Block(item, how, data))
      BY <2>1 DEF Notice, item
    <2>4. blocks' \in Seq(Blocks)
      BY <1>1, <2>2, <2>3
    <2> QED
      BY <2>1, <2>4 DEF Notice
  <1>4. ASSUME data \in Contents, HasRoom(BlockBytes(item, data)), Inline(data)
        PROVE  /\ used' \in Nat /\ inlined' \in Nat /\ blocks' \in Seq(Blocks)
               /\ inlined <= used => inlined' <= used'
               /\ MaxTotalBytes > 0 => used' <= MaxTotalBytes
    <2> DEFINE size == BlockBytes(item, data)
    <2>1. size \in Nat
      BY <1>1, <1>4, GivenIs
    <2>2. Block(item, "inlined", data) \in Blocks
      BY <1>1, <1>4 DEF Block, Blocks
    <2>3. /\ used' = used + size /\ inlined' = inlined + size
          /\ blocks' = Append(blocks, Block(item, "inlined", data))
      BY <1>4 DEF Inline, item
    <2>4. blocks' \in Seq(Blocks)
      BY <1>1, <2>2, <2>3
    <2>5. MaxTotalBytes = 0 \/ used + size <= MaxTotalBytes
      BY <1>4 DEF HasRoom
    <2> HIDE DEF size
    <2> QED
      BY <1>1, <2>1, <2>3, <2>4, <2>5
  <1>5. \/ UNCHANGED <<used, blocks, inlined>>
        \/ data \in Contents /\ (Notice("binary", data) \/ Notice("full", data))
        \/ data \in Contents /\ HasRoom(BlockBytes(item, data)) /\ Inline(data)
    BY DEF Materialize, item
  <1> QED
    BY <1>1, <1>2, <1>3, <1>4, <1>5

IInv == TypeOK /\ WithinBudget

LEMMA SeqOfSubset ==
    ASSUME NEW S, NEW T, S \subseteq T, NEW s \in Seq(S)
    PROVE  s \in Seq(T)
  <1>1. Len(s) \in Nat /\ DOMAIN s = 1..Len(s) /\ s = [k \in 1..Len(s) |-> s[k]]
    OBVIOUS
  <1>2. \A k \in 1..Len(s) : s[k] \in T
    <2> TAKE k \in 1..Len(s)
    <2>1. s[k] \in S
      OBVIOUS
    <2> QED
      BY <2>1
  <1>3. s \in [1..Len(s) -> T]
    BY <1>1, <1>2, Zenon
  <1> QED
    BY <1>1, <1>3

LEMMA StepInv ==
    ASSUME InjectionAssumption, IInv, [Next]_injectionVars
    PROVE  IInv'
  <1>1. /\ phase \in {"idle", "entries", "artifacts"} /\ todo \in Seq(Item)
        /\ used \in Nat /\ inlined \in Nat /\ blocks \in Seq(Blocks)
        /\ inlined <= used /\ (MaxTotalBytes > 0 => inlined <= MaxTotalBytes)
        /\ MaxTotalBytes \in Nat /\ MaxFiles \in Nat
    BY DEF IInv, TypeOK, WithinBudget, Blocks, InjectionAssumption
  <1> SUFFICES /\ phase' \in {"idle", "entries", "artifacts"} /\ todo' \in Seq(Item)
               /\ used' \in Nat /\ inlined' \in Nat /\ blocks' \in Seq(Blocks)
               /\ inlined' <= used'
               /\ MaxTotalBytes > 0 => inlined' <= MaxTotalBytes
    BY DEF IInv, TypeOK, WithinBudget, Blocks
  <1>2. CASE todo' \in Seq(Item) /\ Begin(todo')
    BY <1>1, <1>2 DEF Begin
  <1>3. ASSUME NEW data \in Contents \cup {None}, TakeFile(data)
        PROVE  /\ phase' \in {"idle", "entries", "artifacts"} /\ todo' \in Seq(Item)
               /\ used' \in Nat /\ inlined' \in Nat /\ blocks' \in Seq(Blocks)
               /\ inlined' <= used'
               /\ MaxTotalBytes > 0 => inlined' <= MaxTotalBytes
    <2>1. todo # <<>> /\ Materialize(data) /\ todo' = Tail(todo) /\ phase' = phase
      BY <1>3 DEF TakeFile
    <2>2. /\ used' \in Nat /\ inlined' \in Nat /\ blocks' \in Seq(Blocks)
          /\ inlined' <= used'
          /\ \/ inlined' = inlined
             \/ MaxTotalBytes > 0 => used' <= MaxTotalBytes
      BY <1>1, <2>1, MaterializeIs DEF IInv
    <2>3. todo' \in Seq(Item)
      BY <1>1, <2>1
    <2> QED
      BY <1>1, <2>1, <2>2, <2>3
  <1>4. ASSUME NEW files \in Seq(File), TakeFolder(files)
        PROVE  /\ todo' \in Seq(Item)
               /\ UNCHANGED <<phase, used, blocks, inlined>>
    <2> DEFINE n == IF Len(files) < MaxFiles THEN Len(files) ELSE MaxFiles
    <2>1. /\ todo # <<>> /\ todo' = SubSeq(files, 1, n) \o Tail(todo)
          /\ UNCHANGED <<phase, used, blocks, inlined>>
      BY <1>4 DEF TakeFolder
    <2>2. files \in Seq(Item)
      <3>1. File \subseteq Item
        BY DEF File, Item
      <3> QED
        BY <3>1, SeqOfSubset, Zenon
    <2>3. n \in 0..Len(files)
      BY <1>1, <2>2
    <2>4. SubSeq(files, 1, n) \in Seq(Item)
      <3> HIDE DEF n
      <3> QED
        BY <2>2, <2>3
    <2>5. Tail(todo) \in Seq(Item)
      BY <1>1, <2>1
    <2> HIDE DEF n
    <2> QED
      BY <2>1, <2>4, <2>5
  <1>5. CASE todo' \in Seq(Item) /\ EndEntries(todo')
    <2>1. <<Uncurated>> \in Seq(Blocks)
      BY DEF Blocks
    <2> QED
      BY <1>1, <1>5, <2>1 DEF EndEntries
  <1>6. CASE Deliver
    BY <1>1, <1>6 DEF Deliver, Ready
  <1>7. CASE UNCHANGED injectionVars
    BY <1>1, <1>7 DEF injectionVars
  <1> QED
    BY <1>1, <1>2, <1>3, <1>4, <1>5, <1>6, <1>7 DEF Next

LEMMA InitInv ==
    ASSUME InjectionAssumption
    PROVE  Init => IInv
  BY DEF Init, IInv, TypeOK, WithinBudget, InjectionAssumption

(* What the hook keeps is well formed, and the content it inlines stays    *)
(* within the total limit, for all limits, manifests and contents, and     *)
(* whatever disappears while it reads.                                     *)
THEOREM BudgetKept ==
    ASSUME InjectionAssumption
    PROVE  Spec => [](TypeOK /\ WithinBudget)
  <1>1. Init => IInv
    BY InitInv
  <1>2. IInv /\ [Next]_injectionVars => IInv'
    BY StepInv
  <1>3. IInv => TypeOK /\ WithinBudget
    BY DEF IInv
  <1> QED
    BY <1>1, <1>2, <1>3, PTL DEF Spec

\* Where the cut is not special, it keeps the longest whole text.
LEMMA CutIsLongest ==
    ASSUME NEW data \in Seq(Byte), NEW cap \in Nat \ {0},
           cap < Len(data), IsText(data), ~EndsAt(data, cap)
    PROVE  Cut(data, cap) = LongestWhole(data, cap)
  <1> DEFINE n == Cut(data, cap)
             Longest(k) == /\ IsText(SubSeq(data, 1, k))
                           /\ \A m \in (k + 1)..cap : ~IsText(SubSeq(data, 1, m))
  <1>1. n \in 0..cap
    BY TruncateBounded
  <1>2. Longest(n)
    BY TruncateWhole DEF Truncate
  <1>3. ASSUME NEW k \in 0..cap, Longest(k)
        PROVE  k = n
    <2> HIDE DEF n
    <2>1. ~(k < n)
      BY <1>1, <1>2, <1>3
    <2>2. ~(n < k)
      BY <1>1, <1>2, <1>3
    <2> QED
      BY <1>1, <2>1, <2>2
  <1>4. LongestWhole(data, cap) = CHOOSE k \in 0..cap : Longest(k)
    BY DEF LongestWhole
  <1> HIDE DEF Longest
  <1>5. (CHOOSE k \in 0..cap : Longest(k)) = n
    BY <1>1, <1>2, <1>3
  <1> QED
    BY <1>4, <1>5

LEMMA TypedBlocksCutWell ==
    ASSUME InjectionAssumption, TypeOK
    PROVE  CutsWholeCharacters
  <1> SUFFICES ASSUME NEW n \in DOMAIN blocks, blocks[n].how = "inlined"
               PROVE  LET data == blocks[n].data
                          cap == Cap(blocks[n].item)
                      IN  cap > 0 /\ Len(data) > cap /\ IsText(data) =>
                              IF EndsAt(data, cap)
                              THEN Cut(data, cap) = LastStart(data, cap)
                                   /\ ~IsText(Truncate(data, cap))
                                   /\ DecodedBytes(Truncate(data, cap)) <= cap + 1
                              ELSE Cut(data, cap) = LongestWhole(data, cap)
    BY DEF CutsWholeCharacters
  <1> DEFINE data == blocks[n].data
             cap == Cap(blocks[n].item)
  <1>1. blocks[n] \in Blocks /\ blocks[n] # Uncurated
    BY DEF TypeOK, Blocks, Uncurated
  <1>2. data \in Contents
    BY <1>1 DEF Blocks, Uncurated
  <1>3. data \in Seq(Byte)
    BY <1>2 DEF InjectionAssumption
  <1>4. cap \in Nat
    BY DEF InjectionAssumption, Cap
  <1> HIDE DEF data, cap
  <1>5. ASSUME cap > 0, Len(data) > cap, IsText(data)
        PROVE  IF EndsAt(data, cap)
               THEN Cut(data, cap) = LastStart(data, cap)
                    /\ ~IsText(Truncate(data, cap))
                    /\ DecodedBytes(Truncate(data, cap)) <= cap + 1
               ELSE Cut(data, cap) = LongestWhole(data, cap)
    <2>1. cap \in Nat \ {0} /\ cap < Len(data)
      BY <1>3, <1>4, <1>5
    <2>2. CASE EndsAt(data, cap)
      BY <1>3, <1>5, <2>1, <2>2, TruncateSplits, SplitDecoded
    <2>3. CASE ~EndsAt(data, cap)
      BY <1>3, <1>5, <2>1, <2>3, CutIsLongest
    <2> QED
      BY <2>2, <2>3
  <1> QED
    BY <1>5 DEF data, cap

(* Every file that was cut keeps the longest run of whole characters that  *)
(* fits, or is split in the one way that CutsWholeCharacters names.        *)
THEOREM CutsCorrect ==
    ASSUME InjectionAssumption
    PROVE  Spec => []CutsWholeCharacters
  <1>1. TypeOK => CutsWholeCharacters
    BY TypedBlocksCutWell
  <1>2. Spec => [](TypeOK /\ WithinBudget)
    BY BudgetKept
  <1> QED
    BY <1>1, <1>2, PTL
=============================================================================
