--------------------------- MODULE EventLogProofs ---------------------------
(***************************************************************************)
(* The contract of the durability modes for every number of records, of    *)
(* kills, power losses, failed calls and damages: what a mode promises is  *)
(* in the prefix that recovery returns, from the file and from the disk.   *)
(***************************************************************************)
EXTENDS EventLog, SequenceTheorems, WellFoundedInduction, TLAPS

Unit == [rec : Nat, part : Nat]
Bytes == Seq(Unit)

-----------------------------------------------------------------------------
(* Frames in a file.                                                       *)

\* The first n frames of the file are valid.
Chain(b, n) == \A k \in 0 .. (n - 1) : Decodes(b, FrameUnits * k)

\* The frame of r is the n-th after the first of a valid prefix.
InsideAt(b, n, r) == Chain(b, n + 1) /\ DecodesAt(b, FrameUnits * n, r)

Inside(b, r) == \E n \in Nat : InsideAt(b, n, r)

\* The two files begin with the same m units.
Same(b, c, m) == m <= Len(b) /\ m <= Len(c) /\ \A i \in 1 .. m : b[i] = c[i]

\* The file is a sequence of whole frames.
AllValid(b) == \E n \in Nat : Len(b) = FrameUnits * n /\ Chain(b, n)

\* A frame encoded by append is four units.
LEMMA FrameType ==
  ASSUME NEW r \in Nat
  PROVE  /\ Frame(r) \in Bytes /\ Len(Frame(r)) = FrameUnits
         /\ \A i \in 1 .. FrameUnits : Frame(r)[i] = [rec |-> r, part |-> i]
  BY DEF Frame, Bytes, Unit, FrameUnits

\* A frame unit by unit.
LEMMA DecodesUnits ==
  ASSUME NEW b \in Bytes, NEW o \in Nat, NEW r \in Nat
  PROVE  DecodesAt(b, o, r) <=>
           /\ o + FrameUnits <= Len(b)
           /\ \A i \in 1 .. FrameUnits : b[o + i] = [rec |-> r, part |-> i]
<1>0. Len(b) \in Nat /\ FrameUnits = 4
  BY LenProperties DEF Bytes, FrameUnits
<1> SUFFICES ASSUME o + FrameUnits <= Len(b)
             PROVE  SubSeq(b, o + 1, o + FrameUnits) = Frame(r) <=>
                      \A i \in 1 .. FrameUnits : b[o + i] = [rec |-> r, part |-> i]
  BY DEF DecodesAt
<1> DEFINE s == SubSeq(b, o + 1, o + FrameUnits)
<1>1. \A i \in (o + 1) .. (o + FrameUnits) : b[i] \in Unit
  BY <1>0, ElementOfSeq DEF Bytes
<1>2. /\ s \in Bytes /\ Len(s) = FrameUnits
      /\ \A i \in 1 .. FrameUnits : s[i] = b[o + i]
  <2>1. /\ s \in Seq(Unit)
        /\ Len(s) = IF o + 1 <= o + FrameUnits THEN (o + FrameUnits) - (o + 1) + 1 ELSE 0
        /\ \A i \in 1 .. (o + FrameUnits) - (o + 1) + 1 : s[i] = b[o + 1 + i - 1]
    BY <1>0, <1>1, SubSeqProperties
  <2> QED  BY <1>0, <2>1 DEF Bytes
<1> HIDE DEF s
<1>3. /\ Frame(r) \in Bytes /\ Len(Frame(r)) = FrameUnits
      /\ \A i \in 1 .. FrameUnits : Frame(r)[i] = [rec |-> r, part |-> i]
  BY FrameType
<1>4. ASSUME \A i \in 1 .. FrameUnits : b[o + i] = [rec |-> r, part |-> i]
      PROVE  s = Frame(r)
  <2>1. \A i \in 1 .. Len(s) : s[i] = Frame(r)[i]
    BY <1>2, <1>3, <1>4
  <2> QED  BY Zenon, <1>2, <1>3, <2>1, SeqEqual DEF Bytes
<1>5. ASSUME s = Frame(r)
      PROVE  \A i \in 1 .. FrameUnits : b[o + i] = [rec |-> r, part |-> i]
  BY Zenon, <1>2, <1>3, <1>5
<1> QED  BY <1>4, <1>5 DEF s

\* A valid prefix that two files share is valid in both.
LEMMA SameDecodes ==
  ASSUME NEW b \in Bytes, NEW c \in Bytes, NEW m \in Nat, Same(b, c, m),
         NEW o \in Nat, o + FrameUnits <= m, NEW r \in Nat, DecodesAt(b, o, r)
  PROVE  DecodesAt(c, o, r)
<1>0. FrameUnits = 4 /\ Len(c) \in Nat /\ Len(b) \in Nat
  BY LenProperties DEF FrameUnits, Bytes
<1>1. \A i \in 1 .. FrameUnits : b[o + i] = [rec |-> r, part |-> i]
  BY DecodesUnits
<1>2. \A i \in 1 .. FrameUnits : c[o + i] = b[o + i]
  BY <1>0 DEF Same
<1>3. o + FrameUnits <= Len(c)
  BY <1>0 DEF Same
<1> QED  BY Zenon, <1>1, <1>2, <1>3, DecodesUnits

\* Valid frames depend on their own units only.
LEMMA SameChain ==
  ASSUME NEW b \in Bytes, NEW c \in Bytes, NEW n \in Nat,
         Same(b, c, FrameUnits * n), Chain(b, n)
  PROVE  Chain(c, n)
<1> SUFFICES ASSUME NEW k \in 0 .. (n - 1) PROVE Decodes(c, FrameUnits * k)
  BY DEF Chain
<1>1. PICK r \in 1 .. MaxRecords : DecodesAt(b, FrameUnits * k, r)
  BY DEF Chain, Decodes
<1>2. /\ FrameUnits * n \in Nat /\ FrameUnits * k \in Nat
      /\ FrameUnits * k + FrameUnits <= FrameUnits * n
  BY DEF FrameUnits
<1>3. DecodesAt(c, FrameUnits * k, r)
  BY <1>1, <1>2, SameDecodes, RecordsAssumption
<1> QED  BY <1>3 DEF Decodes

\* So does a record's place among them.
LEMMA SameInside ==
  ASSUME NEW b \in Bytes, NEW c \in Bytes, NEW n \in Nat, NEW r \in Nat,
         Same(b, c, FrameUnits * (n + 1)), InsideAt(b, n, r)
  PROVE  InsideAt(c, n, r)
<1>1. n + 1 \in Nat /\ FrameUnits * n \in Nat /\ FrameUnits * (n + 1) \in Nat
      /\ FrameUnits * n + FrameUnits <= FrameUnits * (n + 1)
  BY DEF FrameUnits
<1>2. Chain(c, n + 1)
  BY <1>1, SameChain DEF InsideAt
<1>3. DecodesAt(c, FrameUnits * n, r)
  BY <1>1, SameDecodes DEF InsideAt
<1> QED  BY <1>2, <1>3 DEF InsideAt

\* A valid prefix lies within the file.
LEMMA InsideFits ==
  ASSUME NEW b \in Bytes, NEW n \in Nat, NEW r \in Nat, InsideAt(b, n, r)
  PROVE  FrameUnits * (n + 1) <= Len(b)
<1>1. FrameUnits * n + FrameUnits <= Len(b)
  BY DEF InsideAt, DecodesAt
<1> QED  BY <1>1 DEF FrameUnits

\* What is appended to a file leaves what is in it.
LEMMA GrowsInside ==
  ASSUME NEW b \in Bytes, NEW c \in Bytes, NEW n \in Nat, NEW r \in Nat, InsideAt(b, n, r)
  PROVE  InsideAt(b \o c, n, r)
<1>1. FrameUnits * (n + 1) <= Len(b) /\ FrameUnits * (n + 1) \in Nat
  BY InsideFits DEF FrameUnits
<1>2. /\ b \o c \in Bytes /\ Len(b \o c) = Len(b) + Len(c)
      /\ \A i \in 1 .. Len(b) + Len(c) :
           (b \o c)[i] = IF i <= Len(b) THEN b[i] ELSE c[i - Len(b)]
  BY ConcatProperties DEF Bytes
<1>3. Len(b) \in Nat /\ Len(c) \in Nat
  BY LenProperties DEF Bytes
<1>4. Same(b, b \o c, FrameUnits * (n + 1))
  BY <1>1, <1>2, <1>3 DEF Same
<1> QED  BY <1>2, <1>4, SameInside

\* A cut of a file begins as the file does.
LEMMA CutSame ==
  ASSUME NEW b \in Bytes, NEW m \in 0 .. Len(b), NEW k \in 0 .. m
  PROVE  /\ SubSeq(b, 1, m) \in Bytes /\ Len(SubSeq(b, 1, m)) = m
         /\ Same(b, SubSeq(b, 1, m), k)
<1>1. Len(b) \in Nat /\ \A i \in 1 .. m : b[i] \in Unit
  BY LenProperties, ElementOfSeq DEF Bytes
<1>2. /\ SubSeq(b, 1, m) \in Seq(Unit)
      /\ Len(SubSeq(b, 1, m)) = IF 1 <= m THEN m - 1 + 1 ELSE 0
      /\ \A i \in 1 .. m - 1 + 1 : SubSeq(b, 1, m)[i] = b[1 + i - 1]
  BY <1>1, SubSeqProperties
<1>3. Len(SubSeq(b, 1, m)) = m /\ \A i \in 1 .. m : SubSeq(b, 1, m)[i] = b[i]
  BY <1>1, <1>2
<1> QED  BY <1>1, <1>2, <1>3 DEF Bytes, Same

-----------------------------------------------------------------------------
(* What recovery returns.                                                  *)

\* The scan stops at the first frame that does not decode.
LEMMA ValidCountIs ==
  ASSUME NEW b \in Bytes
  PROVE  /\ ValidCount(b) \in Nat /\ ValidUnits(b) \in 0 .. Len(b)
         /\ Chain(b, ValidCount(b))
         /\ ~Decodes(b, FrameUnits * ValidCount(b))
<1> DEFINE T == {n \in Nat : ~Decodes(b, FrameUnits * n)}
<1>0. Len(b) \in Nat
  BY LenProperties DEF Bytes
<1>1. \A n \in Nat : Decodes(b, FrameUnits * n) => FrameUnits * (n + 1) <= Len(b)
  <2> SUFFICES ASSUME NEW n \in Nat, Decodes(b, FrameUnits * n)
               PROVE  FrameUnits * (n + 1) <= Len(b)
    OBVIOUS
  <2>1. FrameUnits * n + FrameUnits <= Len(b)
    BY DEF Decodes, DecodesAt
  <2> QED  BY <2>1 DEF FrameUnits
<1>2. Len(b) \in T
  BY <1>0, <1>1 DEF FrameUnits
<1>3. PICK m \in T : \A y \in T : ~(<<y, m>> \in OpToRel(<, Nat))
  <2>1. T \subseteq Nat /\ T # {}
    BY <1>2
  <2> HIDE DEF T
  <2> QED  BY <2>1, WFMin, NatLessThanWellFounded, Zenon
<1>4. \A x, y \in Nat : ~(<<y, x>> \in OpToRel(<, Nat)) => ~(y < x)
  BY Zenon DEF OpToRel
<1>5. \A y \in T : m <= y
  <2> SUFFICES ASSUME NEW y \in T PROVE m <= y
    OBVIOUS
  <2>1. ~(y < m)
    BY Zenon, <1>3, <1>4
  <2> QED  BY <2>1
<1>6. m \in 0 .. Len(b) /\ \A k \in 0 .. (m - 1) : Decodes(b, FrameUnits * k)
  BY <1>0, <1>2, <1>5
<1> DEFINE P(n) == /\ \A k \in 0 .. (n - 1) : Decodes(b, FrameUnits * k)
                   /\ ~Decodes(b, FrameUnits * n)
<1>7. P(m)
  BY <1>6
<1>8. ValidCount(b) = CHOOSE n \in 0 .. Len(b) : P(n)
  BY DEF ValidCount
<1>9. ValidCount(b) \in 0 .. Len(b) /\ P(ValidCount(b))
  <2> HIDE DEF P
  <2> QED  BY <1>6, <1>7, <1>8
<1>10. ValidUnits(b) \in 0 .. Len(b)
  <2>1. CASE ValidCount(b) = 0
    BY <1>0, <2>1 DEF ValidUnits, FrameUnits
  <2>2. CASE ValidCount(b) # 0
    <3>1. FrameUnits * (ValidCount(b) - 1 + 1) <= Len(b)
      BY <1>0, <1>1, <1>9, <2>2
    <3> QED  BY <1>0, <1>9, <3>1 DEF ValidUnits, FrameUnits
  <2> QED  BY <2>1, <2>2
<1> QED  BY <1>0, <1>9, <1>10 DEF Chain

\* The scan of recover_log goes at least as far as there are valid frames.
LEMMA ChainCounted ==
  ASSUME NEW b \in Bytes, NEW n \in Nat, Chain(b, n)
  PROVE  n <= ValidCount(b)
  BY ValidCountIs DEF Chain

\* A record of the valid prefix is among those recovery returns.
LEMMA InsideRecovered ==
  ASSUME NEW b \in Bytes, NEW r \in Nat, Inside(b, r)
  PROVE  r \in Range(ValidRecords(b))
<1>1. PICK n \in Nat : InsideAt(b, n, r)
  BY DEF Inside
<1>2. n + 1 <= ValidCount(b) /\ ValidCount(b) \in Nat
  BY <1>1, ChainCounted, ValidCountIs DEF InsideAt
<1>3. b[FrameUnits * n + FrameUnits] = [rec |-> r, part |-> FrameUnits]
  <2>1. FrameUnits \in 1 .. FrameUnits /\ FrameUnits * n \in Nat
    BY DEF FrameUnits
  <2>2. \A i \in 1 .. FrameUnits : b[FrameUnits * n + i] = [rec |-> r, part |-> i]
    BY <1>1, <2>1, DecodesUnits DEF InsideAt
  <2> QED  BY <2>1, <2>2
<1>4. FrameUnits * n + FrameUnits = FrameUnits * (n + 1)
  BY DEF FrameUnits
<1>5. n + 1 \in 1 .. ValidCount(b)
  BY <1>2
<1>6. ValidRecords(b)[n + 1] = r
  BY <1>3, <1>4, <1>5 DEF ValidRecords
<1> QED  BY <1>5, <1>6 DEF Range, ValidRecords

\* The scan reaches the end of the file exactly when the file is whole
\* frames.
LEMMA AllValidUnits ==
  ASSUME NEW b \in Bytes
  PROVE  ValidUnits(b) = Len(b) <=> AllValid(b)
<1>1. ASSUME ValidUnits(b) = Len(b) PROVE AllValid(b)
  BY <1>1, ValidCountIs DEF AllValid, ValidUnits
<1>2. ASSUME AllValid(b) PROVE ValidUnits(b) = Len(b)
  <2>1. PICK n \in Nat : Len(b) = FrameUnits * n /\ Chain(b, n)
    BY <1>2 DEF AllValid
  <2>2. n <= ValidCount(b)
    BY <2>1, ChainCounted
  <2> QED  BY <2>1, <2>2, ValidCountIs DEF ValidUnits, FrameUnits
<1> QED  BY <1>1, <1>2

\* A frame appended to whole frames is recovered, and leaves whole frames.
LEMMA AppendFrame ==
  ASSUME NEW b \in Bytes, AllValid(b), NEW r \in 1 .. MaxRecords
  PROVE  Inside(b \o Frame(r), r) /\ AllValid(b \o Frame(r))
<1>0. r \in Nat
  BY RecordsAssumption
<1>1. PICK n \in Nat : Len(b) = FrameUnits * n /\ Chain(b, n)
  BY DEF AllValid
<1> DEFINE c == b \o Frame(r)
<1>2. /\ Frame(r) \in Bytes /\ Len(Frame(r)) = FrameUnits
      /\ \A i \in 1 .. FrameUnits : Frame(r)[i] = [rec |-> r, part |-> i]
  BY <1>0, FrameType
<1>3. /\ c \in Bytes /\ Len(c) = Len(b) + FrameUnits
      /\ \A i \in 1 .. Len(b) + FrameUnits :
           c[i] = IF i <= Len(b) THEN b[i] ELSE Frame(r)[i - Len(b)]
  BY Zenon, <1>2, ConcatProperties DEF Bytes
<1> HIDE DEF c
<1>4. Len(b) \in Nat /\ FrameUnits * n \in Nat /\ FrameUnits * (n + 1) = Len(b) + FrameUnits
  BY <1>1 DEF FrameUnits
<1>5. Same(b, c, FrameUnits * n)
  BY <1>1, <1>3, <1>4 DEF Same, FrameUnits
<1>6. Chain(c, n)
  BY <1>1, <1>3, <1>5, SameChain
<1>7. DecodesAt(c, FrameUnits * n, r)
  <2>1. \A i \in 1 .. FrameUnits : c[FrameUnits * n + i] = [rec |-> r, part |-> i]
    <3> TAKE i \in 1 .. FrameUnits
    <3>1. /\ Len(b) + i \in 1 .. Len(b) + FrameUnits
          /\ ~(Len(b) + i <= Len(b)) /\ Len(b) + i - Len(b) = i
      BY <1>4 DEF FrameUnits
    <3>2. c[Len(b) + i] = Frame(r)[i]
      BY <1>3, <3>1
    <3> QED  BY <1>1, <1>2, <3>2
  <2>2. FrameUnits * n + FrameUnits <= Len(c)
    BY SMTT(30), <1>1, <1>3, <1>4 DEF FrameUnits
  <2> QED  BY Zenon, <1>0, <1>3, <1>4, <2>1, <2>2, DecodesUnits
<1>8. Chain(c, n + 1)
  <2> SUFFICES ASSUME NEW k \in 0 .. (n + 1 - 1) PROVE Decodes(c, FrameUnits * k)
    BY DEF Chain
  <2>1. CASE k = n
    BY <1>7, <2>1 DEF Decodes
  <2>2. CASE k # n
    BY <1>6, <2>2 DEF Chain
  <2> QED  BY <2>1, <2>2
<1>9. Inside(c, r)
  BY <1>7, <1>8 DEF Inside, InsideAt
<1>10. AllValid(c)
  BY <1>3, <1>4, <1>8 DEF AllValid
<1> QED  BY <1>9, <1>10 DEF c

-----------------------------------------------------------------------------
(* Sets of records in a file, and on the disk under it.                    *)

Held(A, b) == \A r \in A : Inside(b, r)

\* The file and the disk agree up to the frames of these records.
OnBoth(A, b, d) ==
  \A r \in A : \E n \in Nat : InsideAt(b, n, r) /\ Same(b, d, FrameUnits * (n + 1))

\* What a file holds it still holds when more is written behind it.
LEMMA HeldGrows ==
  ASSUME NEW b \in Bytes, NEW c \in Bytes, NEW A \in SUBSET Nat, Held(A, b)
  PROVE  Held(A, b \o c)
  BY GrowsInside DEF Held, Inside

\* And so do the file and the disk together.
LEMMA OnBothGrows ==
  ASSUME NEW b \in Bytes, NEW c \in Bytes, NEW d \in Bytes, NEW A \in SUBSET Nat,
         OnBoth(A, b, d)
  PROVE  OnBoth(A, b \o c, d)
<1> SUFFICES ASSUME NEW r \in A
             PROVE  \E n \in Nat : /\ InsideAt(b \o c, n, r)
                                   /\ Same(b \o c, d, FrameUnits * (n + 1))
  BY DEF OnBoth
<1>1. PICK n \in Nat : InsideAt(b, n, r) /\ Same(b, d, FrameUnits * (n + 1))
  BY DEF OnBoth
<1>2. InsideAt(b \o c, n, r)
  BY <1>1, GrowsInside
<1>3. /\ b \o c \in Bytes /\ Len(b \o c) = Len(b) + Len(c)
      /\ \A i \in 1 .. Len(b) + Len(c) :
           (b \o c)[i] = IF i <= Len(b) THEN b[i] ELSE c[i - Len(b)]
  BY ConcatProperties DEF Bytes
<1>4. Len(b) \in Nat /\ Len(c) \in Nat /\ FrameUnits * (n + 1) \in Nat
  BY LenProperties DEF Bytes, FrameUnits
<1>5. Same(b \o c, d, FrameUnits * (n + 1))
  BY <1>1, <1>3, <1>4 DEF Same
<1> QED  BY <1>2, <1>5

\* What file and disk both hold, each holds.
LEMMA OnBothHeld ==
  ASSUME NEW b \in Bytes, NEW d \in Bytes, NEW A \in SUBSET Nat, OnBoth(A, b, d)
  PROVE  Held(A, b) /\ Held(A, d)
  BY SameInside DEF OnBoth, Held, Inside

\* After an fsync file and disk hold the same.
LEMMA HeldOnBoth ==
  ASSUME NEW b \in Bytes, NEW A \in SUBSET Nat, Held(A, b)
  PROVE  OnBoth(A, b, b)
  BY InsideFits DEF OnBoth, Held, Inside, Same

\* resize_file to the valid prefix takes nothing from it.
LEMMA CutKeeps ==
  ASSUME NEW b \in Bytes, NEW d \in Bytes, NEW A \in SUBSET Nat
  PROVE  /\ SubSeq(b, 1, ValidUnits(b)) \in Bytes
         /\ Held(A, b) => Held(A, SubSeq(b, 1, ValidUnits(b)))
         /\ OnBoth(A, b, d) => OnBoth(A, SubSeq(b, 1, ValidUnits(b)), d)
<1> DEFINE c == SubSeq(b, 1, ValidUnits(b))
<1>1. ValidUnits(b) \in 0 .. Len(b) /\ ValidCount(b) \in Nat /\ Len(b) \in Nat
  BY ValidCountIs, LenProperties DEF Bytes
<1>2. c \in Bytes /\ Len(c) = ValidUnits(b)
      /\ \A k \in 0 .. ValidUnits(b) : Same(b, c, k)
  BY <1>1, CutSame
<1> HIDE DEF c
<1>3. ASSUME NEW n \in Nat, NEW r \in Nat, InsideAt(b, n, r)
      PROVE  /\ FrameUnits * (n + 1) \in 0 .. ValidUnits(b)
             /\ InsideAt(c, n, r) /\ Same(b, c, FrameUnits * (n + 1))
  <2>1. n + 1 <= ValidCount(b)
    BY <1>3, ChainCounted DEF InsideAt
  <2>2. FrameUnits * (n + 1) \in 0 .. ValidUnits(b)
    BY <1>1, <2>1 DEF ValidUnits, FrameUnits
  <2>3. Same(b, c, FrameUnits * (n + 1))
    BY <1>2, <2>2
  <2> QED  BY SMTT(30), <1>2, <1>3, <2>2, <2>3, SameInside
<1>4. Held(A, b) => Held(A, c)
  BY <1>3 DEF Held, Inside
<1>5. OnBoth(A, b, d) => OnBoth(A, c, d)
  <2> SUFFICES ASSUME OnBoth(A, b, d), NEW r \in A
               PROVE  \E n \in Nat : InsideAt(c, n, r) /\ Same(c, d, FrameUnits * (n + 1))
    BY DEF OnBoth
  <2>1. PICK n \in Nat : InsideAt(b, n, r) /\ Same(b, d, FrameUnits * (n + 1))
    BY DEF OnBoth
  <2>2. InsideAt(c, n, r) /\ Same(b, c, FrameUnits * (n + 1))
    BY <1>3, <2>1
  <2> QED  BY <2>1, <2>2 DEF Same
<1> QED  BY <1>2, <1>4, <1>5 DEF c

\* What two files agree on is within their longest common prefix.
LEMMA AgreedPrefix ==
  ASSUME NEW b \in Bytes, NEW c \in Bytes, NEW m \in Nat, Same(b, c, m)
  PROVE  /\ Len(LongestCommonPrefix({b, c})) \in Nat
         /\ m <= Len(LongestCommonPrefix({b, c}))
<1> DEFINE CP == CommonPrefixes({b, c})
           p == SubSeq(b, 1, m)
           T == {n \in Nat : \E q \in CP : Len(q) = Len(b) - n}
<1>0. Len(b) \in Nat /\ Len(c) \in Nat /\ m \in 0 .. Len(b) /\ m \in 0 .. Len(c)
  BY LenProperties DEF Bytes, Same
<1>1. p \in Bytes /\ Len(p) = m /\ SubSeq(c, 1, m) \in Bytes /\ Len(SubSeq(c, 1, m)) = m
      /\ Same(b, p, m) /\ Same(c, SubSeq(c, 1, m), m)
  BY <1>0, CutSame
<1>2. p = SubSeq(c, 1, m)
  <2>1. \A i \in 1 .. Len(p) : p[i] = SubSeq(c, 1, m)[i]
    BY <1>1 DEF Same
  <2> HIDE DEF p
  <2> QED  BY SMTT(30), <1>1, <2>1, SeqEqual DEF Bytes
<1>3. p \in CP
  <2>1. SubSeq(p, 1, Len(p)) = p
    <3> HIDE DEF p
    <3> QED  BY <1>1, SubSeqFull DEF Bytes
  <2>2. IsPrefix(p, b) /\ IsPrefix(p, c)
    BY SMTT(30), <1>0, <1>1, <1>2, <2>1 DEF IsPrefix
  <2>3. p \in Prefixes(b)
    BY <1>0 DEF Prefixes
  <2> QED  BY <2>2, <2>3 DEF CommonPrefixes
<1>4. \A q \in CP : Len(q) \in Nat /\ Len(q) <= Len(b)
  <2> SUFFICES ASSUME NEW q \in CP PROVE Len(q) \in Nat /\ Len(q) <= Len(b)
    OBVIOUS
  <2>1. IsPrefix(q, b) /\ (q \in Prefixes(b) \/ q \in Prefixes(c))
    BY DEF CommonPrefixes
  <2>2. \E l \in Nat : \/ l \in 0 .. Len(b) /\ q = SubSeq(b, 1, l)
                       \/ l \in 0 .. Len(c) /\ q = SubSeq(c, 1, l)
    BY <1>0, <2>1 DEF Prefixes
  <2>3. Len(q) \in Nat
    BY <2>2, CutSame
  <2> QED  BY <2>1, <2>3 DEF IsPrefix
<1> HIDE DEF CP, p
<1>5. Len(b) - m \in T
  BY <1>0, <1>1, <1>3
<1>6. PICK k \in T : \A y \in T : ~(<<y, k>> \in OpToRel(<, Nat))
  <2>1. T \subseteq Nat /\ T # {}
    BY Zenon, <1>5
  <2> HIDE DEF T
  <2> QED  BY <2>1, WFMin, NatLessThanWellFounded, Zenon
<1>7. \A x, y \in Nat : ~(<<y, x>> \in OpToRel(<, Nat)) => ~(y < x)
  BY Zenon DEF OpToRel
<1>8. PICK q \in CP : Len(q) = Len(b) - k
  OBVIOUS
<1>9. \A o \in CP : Len(o) <= Len(q)
  <2> SUFFICES ASSUME NEW o \in CP PROVE Len(o) <= Len(q)
    OBVIOUS
  <2>1. Len(b) - Len(o) \in T /\ Len(b) - Len(o) \in Nat
    BY <1>0, <1>4
  <2>2. ~(Len(b) - Len(o) < k) /\ k \in Nat
    BY Zenon, <1>6, <1>7, <2>1
  <2> QED  BY SMTT(30), <1>0, <1>4, <1>8, <2>2
<1>10. LongestCommonPrefix({b, c}) \in CP
       /\ \A o \in CP : Len(o) <= Len(LongestCommonPrefix({b, c}))
  BY Zenon, <1>9 DEF LongestCommonPrefix, CP
<1> QED  BY Zenon, <1>1, <1>3, <1>4, <1>10

-----------------------------------------------------------------------------
(* The inductive invariant.                                                *)

\* The calls during which a writer has the file open.
Writing == {"ready", "appending", "syncing", "syncDir"}

\* What is not looked for in the file.
Lost == buried \cup vanished

TypeOK ==
  /\ cache \in Bytes /\ disk \in Bytes /\ user \in Bytes
  /\ next \in Nat
  /\ acked \in SUBSET Nat /\ kept \in SUBSET Nat /\ durable \in SUBSET Nat
  /\ buried \in SUBSET Nat /\ vanished \in SUBSET Nat
  /\ exists \in BOOLEAN /\ nameDurable \in BOOLEAN /\ dirPending \in BOOLEAN
  /\ careful \in BOOLEAN /\ rooted \in BOOLEAN

\* The stdio buffer dies with its writer; sync has written it before it syncs
\* the directory.
Buffer ==
  /\ pc \notin Writing => user = <<>>
  /\ pc = "syncDir" => user = <<>> /\ disk = cache

\* What was promised is where the promise says.
Promised ==
  /\ Held(acked \ Lost, cache \o user)
  /\ Held(kept \ Lost, cache)
  /\ OnBoth(durable \ Lost, cache, disk)

\* The record being appended is in the file or in the buffer.
InFlight ==
  pc = "appending" =>
    next \in 1 .. MaxRecords /\ (next \notin Lost => Inside(cache \o user, next))

\* The directory entry is on disk, or sync knows that it is not, while no writer
\* has found a log whose entry was not.
Named ==
  /\ nameDurable => exists
  /\ pc \in Writing \cup {"opening"} => exists
  /\ rooted =>
       /\ vanished = {} /\ (durable # {} => nameDurable)
       /\ pc \in Writing \cup {"opening"} => nameDurable \/ dirPending
       /\ pc \in Writing /\ mode = "fsync" => nameDurable

\* A careful caller appends behind whole frames.
Whole ==
  /\ ~exists => cache = <<>>
  /\ careful => buried = {}
  /\ careful /\ pc \in Writing \cup {"opening"} => AllValid(cache \o user)

IInv == TypeOK /\ Buffer /\ Promised /\ InFlight /\ Named /\ Whole /\ next # 0

\* A new log is whole frames, none of them.
LEMMA EmptyFile ==
  /\ <<>> \in Bytes /\ AllValid(<<>>)
  /\ \A b \in Bytes : b \o <<>> = b
<1>1. <<>> \in Bytes /\ Len(<<>>) = FrameUnits * 0
  BY DEF Bytes, FrameUnits
<1>2. Chain(<<>>, 0)
  BY DEF Chain
<1> QED  BY SMTT(30), <1>1, <1>2, ConcatEmptySeq DEF AllValid, Bytes

\* File, handed-over part and rest of the stdio buffer, in either grouping.
LEMMA Regroup ==
  ASSUME NEW b \in Bytes, NEW c \in Bytes, NEW d \in Bytes
  PROVE  (b \o c) \o d = b \o (c \o d)
  BY SMTT(30), ConcatAssociative DEF Bytes

\* Before the first writer nothing is promised.
LEMMA InitIInv == Init => IInv
<1> SUFFICES ASSUME Init PROVE IInv
  OBVIOUS
<1>0. <<>> \in Bytes
  BY EmptyFile
<1>1. TypeOK /\ next # 0
  <2>1. /\ exists \in BOOLEAN /\ nameDurable \in BOOLEAN /\ dirPending \in BOOLEAN
        /\ careful \in BOOLEAN /\ rooted \in BOOLEAN
    BY Zenon DEF Init
  <2>2. next = 1 /\ next \in Nat
    BY DEF Init
  <2> QED  BY <1>0, <2>1, <2>2 DEF Init, TypeOK
<1>2. Buffer /\ InFlight /\ Named /\ Whole
  BY DEF Init, Buffer, InFlight, Named, Whole, Writing
<1>3. Promised
  BY DEF Init, Promised, Held, OnBoth
<1> QED  BY <1>1, <1>2, <1>3 DEF IInv

-----------------------------------------------------------------------------
(* Opening a writer, and the calls that only move on.                      *)

\* The constructor writes nothing and syncs nothing.
LEMMA OpenKept ==
  ASSUME IInv, NEW m \in Modes, Open(m)
  PROVE  IInv'
<1>1. /\ cache' = cache /\ disk' = disk /\ user' = user /\ next' = next
      /\ acked' = acked /\ kept' = kept /\ durable' = durable /\ buried' = buried
      /\ vanished' = vanished /\ Lost' = Lost /\ nameDurable' = nameDurable
      /\ rooted' = (rooted /\ (exists => nameDurable))
      /\ pc = "none" /\ pc' \in {"opening", "ready"}
      /\ exists' = TRUE /\ dirPending' = ~exists
      /\ mode' = m /\ (m = "fsync" /\ ~exists => pc' = "opening")
      /\ careful' = (careful /\ (exists => classify_tail(cache) = {"CleanTail"}))
  BY DEF Open, Lost
<1>2. user = <<>> /\ cache \o user = cache
  BY Zenon, <1>1, EmptyFile DEF IInv, Buffer, TypeOK, Writing
<1>3. TypeOK' /\ next' # 0
  <2>1. /\ exists' \in BOOLEAN /\ dirPending' \in BOOLEAN /\ rooted' \in BOOLEAN
        /\ careful' \in BOOLEAN
    BY Zenon, <1>1
  <2> QED  BY <1>1, <2>1 DEF IInv, TypeOK
<1>4. Buffer' /\ InFlight' /\ Promised'
  BY <1>1, <1>2 DEF IInv, Buffer, InFlight, Promised
<1>5. Named'
  BY Zenon, <1>1 DEF IInv, TypeOK, Named, Writing
<1>6. careful' => AllValid(cache)
  <2>1. CASE exists
    <3> SUFFICES ASSUME classify_tail(cache) = {"CleanTail"} PROVE AllValid(cache)
      BY Zenon, <1>1, <2>1
    <3>1. Len(cache) \in Nat /\ ValidUnits(cache) \in 0 .. Len(cache)
      BY ValidCountIs, LenProperties DEF IInv, TypeOK, Bytes
    <3>2. Len(cache) - ValidUnits(cache) = 0
      BY Zenon DEF classify_tail
    <3> QED  BY <3>1, <3>2, AllValidUnits DEF IInv, TypeOK
  <2>2. CASE ~exists
    BY <2>2, EmptyFile DEF IInv, Whole
  <2> QED  BY <2>1, <2>2
<1>7. Whole'
  BY Zenon, <1>1, <1>2, <1>6 DEF IInv, Whole
<1> QED  BY SMTT(30), <1>3, <1>4, <1>5, <1>7 DEF IInv

\* A step that leaves file, buffer and promises.
LEMMA MovesOn ==
  ASSUME IInv, OpenSynced \/ OpenFailed \/ sync
  PROVE  IInv'
<1>1. /\ cache' = cache /\ disk' = disk /\ user' = user /\ next' = next /\ exists' = exists
      /\ acked' = acked /\ kept' = kept /\ durable' = durable /\ buried' = buried
      /\ rooted' = rooted /\ vanished' = vanished /\ Lost' = Lost
      /\ careful' = careful /\ mode' = mode
      /\ \/ pc = "opening" /\ pc' \in {"ready", "none"}
         \/ pc = "ready" /\ pc' = "syncing"
  BY DEF OpenSynced, OpenFailed, sync, history, callers, Lost
<1>2. Named' /\ nameDurable' \in BOOLEAN /\ dirPending' \in BOOLEAN
  <2>1. CASE OpenSynced
    <3>1. nameDurable' = TRUE /\ dirPending' = FALSE /\ pc = "opening"
      BY <2>1 DEF OpenSynced
    <3>2. exists = TRUE /\ (rooted => vanished = {})
      BY Zenon, <3>1 DEF IInv, TypeOK, Named
    <3> QED  BY Zenon, <1>1, <3>1, <3>2 DEF Named
  <2>2. CASE OpenFailed \/ sync
    <3>1. nameDurable' = nameDurable /\ dirPending' = dirPending
      BY SMTT(30), <2>2 DEF OpenFailed, sync
    <3>2. pc' = "none" \/ (pc = "ready" /\ pc' = "syncing")
      BY <2>2 DEF OpenFailed, sync
    <3> QED  BY SMTT(30), <1>1, <3>1, <3>2 DEF IInv, TypeOK, Named, Writing
  <2> QED  BY <2>1, <2>2
<1>3. TypeOK' /\ next' # 0
  BY <1>1, <1>2 DEF IInv, TypeOK
<1>4. Buffer' /\ InFlight' /\ Promised'
  BY <1>1 DEF IInv, Buffer, InFlight, Promised, Writing
<1>5. Whole'
  BY <1>1 DEF IInv, Whole, Writing
<1> QED  BY SMTT(30), <1>2, <1>3, <1>4, <1>5 DEF IInv

-----------------------------------------------------------------------------
(* append.                                                                 *)

\* fwrite puts a whole frame behind file and buffer.
LEMMA AppendKept ==
  ASSUME IInv, append
  PROVE  IInv'
<1> DEFINE b == cache \o user
           f == Frame(next)
<1>1. /\ cache' = cache /\ disk' = disk /\ user' = user \o f /\ next' = next
      /\ acked' = acked /\ kept' = kept /\ durable' = durable /\ exists' = exists
      /\ careful' = careful /\ mode' = mode /\ pc = "ready" /\ pc' = "appending"
      /\ nameDurable' = nameDurable /\ dirPending' = dirPending /\ next <= MaxRecords
      /\ buried' = (IF ValidUnits(b) = Len(b) THEN buried ELSE buried \cup {next})
      /\ rooted' = rooted /\ vanished' = vanished
      /\ Lost \subseteq Lost' /\ (ValidUnits(b) # Len(b) => next \in Lost')
  BY DEF append, Lost
<1>2. /\ f \in Bytes /\ b \in Bytes /\ user \o f \in Bytes
      /\ cache \in Bytes /\ user \in Bytes /\ next \in 1 .. MaxRecords
  BY SMTT(30), <1>1, FrameType, ConcatProperties, RecordsAssumption DEF IInv, TypeOK, Bytes
<1>3. cache' \o user' = b \o f
  BY SMTT(30), <1>1, <1>2, ConcatAssociative DEF Bytes
<1>4. TypeOK' /\ next' # 0
  BY <1>1, <1>2 DEF IInv, TypeOK
<1>5. Buffer' /\ Named'
  BY <1>1 DEF IInv, Buffer, Named, Writing
<1> HIDE DEF b, f
<1>6. Promised'
  <2>1. (acked \ Lost') \in SUBSET Nat /\ Held(acked \ Lost', b)
    BY Zenon, <1>1 DEF IInv, TypeOK, Promised, Held, b
  <2>2. Held(acked' \ Lost', cache' \o user')
    BY SMTT(30), <1>1, <1>2, <1>3, <2>1, HeldGrows
  <2>3. Held(kept' \ Lost', cache') /\ OnBoth(durable' \ Lost', cache', disk')
    BY <1>1 DEF IInv, Promised, Held, OnBoth
  <2> QED  BY <2>2, <2>3 DEF Promised
<1>7. ValidUnits(b) = Len(b) => Inside(b \o f, next) /\ AllValid(b \o f)
  BY SMTT(30), <1>2, AllValidUnits, AppendFrame DEF f
<1>8. InFlight'
  BY SMTT(30), <1>1, <1>2, <1>3, <1>7 DEF InFlight
<1>9. Whole'
  <2>1. careful => ValidUnits(b) = Len(b)
    BY Zenon, <1>1, <1>2, AllValidUnits DEF IInv, Whole, Writing, b
  <2> QED  BY SMTT(30), <1>1, <1>3, <1>7, <2>1 DEF IInv, Whole
<1> QED  BY SMTT(30), <1>4, <1>5, <1>6, <1>8, <1>9 DEF IInv

\* The frame moves from the buffer to the file; the two together stay.
LEMMA WriteOutKept ==
  ASSUME IInv, NEW n \in 1 .. Len(user), WriteOut(n)
  PROVE  IInv'
<1> DEFINE out == SubSeq(user, 1, n)
           left == SubSeq(user, n + 1, Len(user))
<1>1. /\ cache' = cache \o out /\ user' = left /\ disk' = disk /\ next' = next
      /\ acked' = acked /\ kept' = kept /\ durable' = durable /\ buried' = buried
      /\ rooted' = rooted /\ vanished' = vanished /\ Lost' = Lost
      /\ careful' = careful /\ mode' = mode /\ exists' = exists /\ pc' = pc
      /\ nameDurable' = nameDurable /\ dirPending' = dirPending
      /\ pc \in {"appending", "syncing"}
  BY DEF WriteOut, history, callers, Lost
<1>2. /\ cache \in Bytes /\ user \in Bytes /\ disk \in Bytes /\ Len(user) \in Nat
      /\ \A i \in 1 .. Len(user) : user[i] \in Unit
  BY LenProperties, ElementOfSeq DEF IInv, TypeOK, Bytes
<1>3. out \in Bytes /\ left \in Bytes
  <2>1. /\ \A i \in 1 .. n : user[i] \in Unit
        /\ \A i \in (n + 1) .. Len(user) : user[i] \in Unit
    BY <1>2
  <2> QED  BY <1>2, <2>1, SubSeqProperties DEF Bytes
<1>4. out \o left = user
  <2>1. SubSeq(user, 1, n) \o SubSeq(user, n + 1, Len(user)) = SubSeq(user, 1, Len(user))
    <3>1. 1 \in 1 .. Len(user) + 1 /\ n \in 1 - 1 .. Len(user) /\ Len(user) \in n .. Len(user)
      BY <1>2
    <3> QED  BY <1>2, <3>1, ConcatAdjacentSubSeq DEF Bytes
  <2> QED  BY <1>2, <2>1, SubSeqFull DEF Bytes
<1> HIDE DEF out, left
<1>5. cache' \o user' = cache \o user
  <2>1. (cache \o out) \o left = cache \o (out \o left)
    BY ZenonT(30), <1>2, <1>3, Regroup
  <2> QED  BY <1>1, <1>4, <2>1
<1>6. cache' \in Bytes
  BY <1>1, <1>2, <1>3, ConcatProperties DEF Bytes
<1>7. TypeOK' /\ next' # 0
  BY SMTT(30), <1>1, <1>3, <1>6 DEF IInv, TypeOK
<1>8. Buffer' /\ InFlight' /\ Named'
  BY <1>1, <1>5 DEF IInv, Buffer, InFlight, Named, Writing
<1>9. Promised'
  <2>1. kept \ Lost \in SUBSET Nat /\ durable \ Lost \in SUBSET Nat
    BY Zenon DEF IInv, TypeOK
  <2>2. Held(kept \ Lost, cache') /\ OnBoth(durable \ Lost, cache', disk)
    BY SMTT(30), <1>1, <1>2, <1>3, <2>1, HeldGrows, OnBothGrows DEF IInv, Promised
  <2> QED  BY <1>1, <1>5, <2>2 DEF IInv, Promised
<1>10. Whole'
  BY <1>1, <1>5 DEF IInv, Whole, Named, Writing
<1> QED  BY SMTT(30), <1>7, <1>8, <1>9, <1>10 DEF IInv

\* append returns true.
LEMMA AcknowledgeKept ==
  ASSUME IInv, AppendBuffered \/ AppendFlushed \/ AppendSynced
  PROVE  IInv'
<1>1. /\ cache' = cache /\ user' = user /\ next' = next + 1
      /\ acked' = acked \cup {next} /\ buried' = buried
      /\ rooted' = rooted /\ vanished' = vanished /\ Lost' = Lost
      /\ careful' = careful /\ mode' = mode /\ exists' = exists
      /\ pc = "appending" /\ pc' = "ready"
      /\ nameDurable' = nameDurable /\ dirPending' = dirPending
  BY DEF AppendBuffered, AppendFlushed, AppendSynced, Acknowledge, callers, Lost
<1>2. \/ disk' = disk /\ kept' = kept /\ durable' = durable
      \/ disk' = disk /\ kept' = kept \cup {next} /\ durable' = durable /\ user = <<>>
      \/ /\ disk' = cache /\ kept' = kept \cup {next} /\ durable' = durable \cup {next}
         /\ user = <<>> /\ mode = "fsync"
  BY DEF AppendBuffered, AppendFlushed, AppendSynced, Acknowledge
<1>3. /\ cache \in Bytes /\ disk \in Bytes /\ next \in Nat
      /\ kept \ Lost \in SUBSET Nat /\ durable \ Lost \in SUBSET Nat
      /\ (durable \cup {next}) \ Lost \in SUBSET Nat
  BY Zenon DEF IInv, TypeOK
<1>4. TypeOK' /\ next' # 0
  <2>1. next' \in Nat /\ next' # 0
    BY <1>1, <1>3
  <2>2. /\ acked' \in SUBSET Nat /\ kept' \in SUBSET Nat /\ durable' \in SUBSET Nat
        /\ disk' \in Bytes
    BY Zenon, <1>1, <1>2, <1>3 DEF IInv, TypeOK
  <2> QED  BY SMTT(30), <1>1, <2>1, <2>2 DEF IInv, TypeOK
<1>5. Buffer' /\ InFlight' /\ Whole'
  BY <1>1 DEF IInv, Buffer, InFlight, Whole, Writing
<1>6. Named'
  BY <1>1, <1>2 DEF IInv, Named, Writing
<1>7. Held(acked' \ Lost', cache' \o user')
  BY <1>1 DEF IInv, Promised, InFlight, Held
<1>8. user = <<>> => Held((kept \cup {next}) \ Lost, cache)
  BY <1>1, <1>3, EmptyFile DEF IInv, Promised, InFlight, Held
<1>9. user = <<>> => OnBoth((durable \cup {next}) \ Lost, cache, cache)
  <2> SUFFICES ASSUME user = <<>>
               PROVE  Held((durable \cup {next}) \ Lost, cache)
    BY <1>3, HeldOnBoth
  <2>1. Held(durable \ Lost, cache)
    BY <1>3, OnBothHeld DEF IInv, Promised
  <2> QED  BY <1>8, <2>1 DEF Held
<1>10. Promised'
  BY Zenon, <1>1, <1>2, <1>7, <1>8, <1>9 DEF IInv, Promised
<1> QED  BY SMTT(30), <1>4, <1>5, <1>6, <1>10 DEF IInv

-----------------------------------------------------------------------------
(* Failed calls, the destructor, a killed process.                         *)

\* The writer goes, part of its buffer written.
LEMMA WriterGone ==
  ASSUME IInv, NEW n \in 0 .. Len(user), cache' = cache \o SubSeq(user, 1, n),
         user' = <<>>, acked' = kept, pc' = "none", next' \in {next, next + 1},
         disk' = disk, kept' = kept, durable' = durable, buried' = buried,
         rooted' = rooted, vanished' = vanished, Lost' = Lost,
         careful' = careful, mode' = mode, exists' = exists,
         nameDurable' = nameDurable, dirPending' = dirPending,
         pc \in Writing \/ n = 0
  PROVE  IInv'
<1> DEFINE out == SubSeq(user, 1, n)
<1>1. cache \in Bytes /\ disk \in Bytes /\ user \in Bytes /\ out \in Bytes
  BY CutSame, LenProperties DEF IInv, TypeOK, Bytes
<1>2. n = 0 => out = <<>>
  BY SubSeqEmpty
<1> HIDE DEF out
<1>3. cache' \in Bytes /\ cache' \o user' = cache'
  BY <1>1, ConcatProperties, EmptyFile DEF Bytes, out
<1>4. TypeOK' /\ next' # 0
  <2>1. next' \in Nat /\ next' # 0
    BY DEF IInv, TypeOK
  <2> QED  BY <1>3, <2>1, EmptyFile DEF IInv, TypeOK
<1>5. Buffer' /\ InFlight' /\ Named'
  BY DEF IInv, Buffer, InFlight, Named, Writing
<1>6. Promised'
  <2>1. kept \ Lost \in SUBSET Nat /\ durable \ Lost \in SUBSET Nat
    BY Zenon DEF IInv, TypeOK
  <2>2. Held(kept \ Lost, cache') /\ OnBoth(durable \ Lost, cache', disk)
    BY SMTT(30), <1>1, <2>1, HeldGrows, OnBothGrows DEF IInv, Promised, out
  <2> QED  BY <1>3, <2>2 DEF Promised
<1>7. Whole'
  <2>1. ~exists => cache' = <<>>
    BY <1>1, <1>2, EmptyFile DEF IInv, Whole, Named, out
  <2> QED  BY <2>1 DEF IInv, Whole, Writing
<1> QED  BY SMTT(30), <1>4, <1>5, <1>6, <1>7 DEF IInv

\* A writer that ends leaves what was promised to outlive it.
LEMMA GoneKept ==
  ASSUME IInv, StopAfterFailure \/ Close \/ Kill
  PROVE  IInv'
<1>1. CASE StopAfterFailure \/ Close
  BY Zenon, <1>1, WriterGone DEF StopAfterFailure, Close, FlushedPart, callers, Writing, Lost
<1>2. CASE Kill
  <2>1. cache' = cache \o SubSeq(user, 1, 0) /\ 0 \in 0 .. Len(user)
    <3>1. SubSeq(user, 1, 0) = <<>> /\ Len(user) \in Nat /\ cache \in Bytes
      BY SubSeqEmpty, LenProperties DEF IInv, TypeOK, Bytes
    <3>2. cache \o <<>> = cache
      BY <3>1, EmptyFile
    <3>3. cache' = cache
      BY <1>2 DEF Kill
    <3>4. 0 \in 0 .. Len(user)
      BY <3>1
    <3> QED  BY <3>1, <3>2, <3>3, <3>4, Zenon
  <2> QED  BY <1>2, <2>1, WriterGone DEF Kill, AfterCrash, callers, Lost
<1> QED  BY SMTT(30), <1>1, <1>2

\* A caller that goes on after a failed call loses no earlier promise.
LEMMA GoOnKept ==
  ASSUME IInv, GoOnAfterFailure
  PROVE  IInv'
<1>1. /\ cache' = cache /\ disk' = disk /\ kept' = kept /\ durable' = durable
      /\ buried' = buried
      /\ rooted' = rooted /\ vanished' = vanished /\ Lost' = Lost
      /\ mode' = mode /\ exists' = exists /\ careful' = FALSE
      /\ nameDurable' = nameDurable /\ dirPending' = dirPending
      /\ pc \in Writing /\ pc' = "ready" /\ next' \in {next, next + 1}
      /\ \/ user' = user /\ acked' = acked
         \/ user' = <<>> /\ acked' = kept
  BY DEF GoOnAfterFailure, Writing, Lost
<1>2. TypeOK' /\ next' # 0
  <2>1. next' \in Nat /\ next' # 0
    BY <1>1 DEF IInv, TypeOK
  <2>2. careful' \in BOOLEAN
    BY <1>1, Zenon
  <2>3. user' \in Bytes /\ acked' \in SUBSET Nat
    BY Zenon, <1>1, EmptyFile DEF IInv, TypeOK
  <2> QED  BY SMTT(30), <1>1, <2>1, <2>2, <2>3 DEF IInv, TypeOK
<1>3. Buffer' /\ InFlight' /\ Named' /\ Whole'
  BY <1>1 DEF IInv, Buffer, InFlight, Named, Whole, Writing
<1>4. Promised'
  BY Zenon, <1>1, EmptyFile DEF IInv, Promised, TypeOK
<1> QED  BY <1>2, <1>3, <1>4 DEF IInv

-----------------------------------------------------------------------------
(* sync, and repair.                                                       *)

\* fsync makes the disk agree with the file.
LEMMA SyncKept ==
  ASSUME IInv, SyncData \/ RepairSync
  PROVE  IInv'
<1>1. /\ cache' = cache /\ user' = user /\ next' = next /\ acked' = acked /\ kept' = kept
      /\ durable' = durable /\ buried' = buried
      /\ rooted' = rooted /\ vanished' = vanished /\ Lost' = Lost
      /\ careful' = careful /\ mode' = mode
      /\ exists' = exists /\ nameDurable' = nameDurable /\ dirPending' = dirPending
      /\ disk' \in {disk, cache}
      /\ \/ pc = "syncing" /\ pc' = "syncDir" /\ user = <<>> /\ disk' = cache
         \/ pc = "repairing" /\ pc' = "none"
  BY DEF SyncData, RepairSync, history, callers, Lost
<1>2. TypeOK' /\ next' # 0
  BY <1>1 DEF IInv, TypeOK
<1>3. Buffer' /\ InFlight' /\ Named' /\ Whole'
  BY <1>1 DEF IInv, Buffer, InFlight, Named, Whole, Writing
<1>4. OnBoth(durable \ Lost, cache, cache)
  <2>1. durable \ Lost \in SUBSET Nat /\ cache \in Bytes /\ disk \in Bytes
    BY Zenon DEF IInv, TypeOK
  <2> QED  BY <2>1, OnBothHeld, HeldOnBoth DEF IInv, Promised
<1>5. Promised'
  BY <1>1, <1>4 DEF IInv, Promised
<1> QED  BY SMTT(30), <1>2, <1>3, <1>5 DEF IInv

\* sync returns true: every acknowledged record is in the file, which is the disk.
LEMMA SyncDoneKept ==
  ASSUME IInv, SyncDone
  PROVE  IInv'
<1>1. /\ cache' = cache /\ disk' = disk /\ user' = user /\ next' = next /\ acked' = acked
      /\ kept' = acked /\ durable' = acked /\ buried' = buried
      /\ rooted' = rooted /\ vanished' = vanished /\ Lost' = Lost
      /\ careful' = careful
      /\ mode' = mode /\ exists' = exists /\ pc = "syncDir" /\ pc' = "ready"
  BY DEF SyncDone, callers, Lost
<1>2. user = <<>> /\ disk = cache /\ cache \in Bytes /\ cache \o user = cache
  BY Zenon, <1>1, EmptyFile DEF IInv, TypeOK, Buffer
<1>3. /\ nameDurable' = (nameDurable \/ dirPending) /\ dirPending' = FALSE /\ exists = TRUE
      /\ rooted => vanished = {} /\ (nameDurable \/ dirPending)
  <2>1. nameDurable' = (nameDurable \/ dirPending) /\ dirPending' = FALSE
    BY DEF SyncDone
  <2>2. exists = TRUE /\ (rooted => vanished = {} /\ (nameDurable \/ dirPending))
    BY Zenon, <1>1 DEF IInv, TypeOK, Named, Writing
  <2> QED  BY Zenon, <2>1, <2>2
<1>4. TypeOK' /\ next' # 0
  <2>1. nameDurable' \in BOOLEAN /\ dirPending' \in BOOLEAN
    BY <1>3, Zenon
  <2> QED  BY <1>1, <2>1 DEF IInv, TypeOK
<1>5. Buffer' /\ InFlight' /\ Whole'
  BY <1>1 DEF IInv, Buffer, InFlight, Whole, Writing
<1>6. Named'
  BY Zenon, <1>1, <1>3 DEF Named
<1>7. Promised'
  <2>1. acked \ Lost \in SUBSET Nat /\ Held(acked \ Lost, cache)
    BY Zenon, <1>2 DEF IInv, TypeOK, Promised
  <2>2. OnBoth(acked \ Lost, cache, cache)
    BY SMTT(30), <1>2, <2>1, HeldOnBoth
  <2> QED  BY SMTT(30), <1>1, <1>2, <2>1, <2>2 DEF Promised
<1> QED  BY SMTT(30), <1>4, <1>5, <1>6, <1>7 DEF IInv

\* The repair of a torn tail cuts no record that was promised.
LEMMA RecoverKept ==
  ASSUME IInv, recover
  PROVE  IInv'
<1>1. /\ cache' = SubSeq(cache, 1, ValidUnits(cache)) /\ disk' = disk /\ user' = user
      /\ next' = next /\ acked' = acked /\ kept' = kept /\ durable' = durable
      /\ buried' = buried
      /\ rooted' = rooted /\ vanished' = vanished /\ Lost' = Lost
      /\ careful' = careful /\ mode' = mode /\ exists' = exists
      /\ nameDurable' = nameDurable /\ dirPending' = dirPending
      /\ pc = "none" /\ pc' = "repairing" /\ exists
  BY DEF recover, repair_log_file, history, callers, Lost
<1>2. /\ cache \in Bytes /\ disk \in Bytes
      /\ acked \ Lost \in SUBSET Nat /\ kept \ Lost \in SUBSET Nat
      /\ durable \ Lost \in SUBSET Nat
  BY Zenon DEF IInv, TypeOK
<1>3. user = <<>> /\ cache \o user = cache
  BY Zenon, <1>1, <1>2, EmptyFile DEF IInv, Buffer, Writing
<1>4. cache' \in Bytes
  BY <1>1, <1>2, CutKeeps
<1>5. cache' \o user' = cache'
  BY SMTT(30), <1>1, <1>3, <1>4, EmptyFile
<1>6. TypeOK' /\ next' # 0
  BY <1>1, <1>4 DEF IInv, TypeOK
<1>7. Buffer' /\ InFlight' /\ Named' /\ Whole'
  BY <1>1 DEF IInv, Buffer, InFlight, Named, Whole, Writing
<1>8. Held(acked \ Lost, cache')
  <2>1. Held(acked \ Lost, cache)
    BY Zenon, <1>3 DEF IInv, Promised
  <2> QED  BY Zenon, <1>1, <1>2, <2>1, CutKeeps
<1>9. Held(kept \ Lost, cache')
  BY Zenon, <1>1, <1>2, CutKeeps DEF IInv, Promised
<1>10. OnBoth(durable \ Lost, cache', disk)
  BY Zenon, <1>1, <1>2, CutKeeps DEF IInv, Promised
<1>11. Promised'
  BY Zenon, <1>1, <1>5, <1>8, <1>9, <1>10 DEF Promised
<1> QED  BY <1>6, <1>7, <1>11 DEF IInv

-----------------------------------------------------------------------------
(* Power losses and damage.                                                *)

\* Whatever a power loss leaves of the file, it leaves what file and disk agree on.
LEMMA SurvivorKeeps ==
  ASSUME cache \in Bytes, disk \in Bytes, NEW t \in Survivors,
         NEW A \in SUBSET Nat, OnBoth(A, cache, disk)
  PROVE  t \in Bytes /\ Held(A, t)
<1> DEFINE agreed == Len(LongestCommonPrefix({cache, disk}))
           cut == {SubSeq(cache, 1, n) : n \in agreed .. Len(cache)}
<1>0. Len(cache) \in Nat /\ Zero \in Unit
  BY LenProperties DEF Bytes, Zero, Unit
<1>1. agreed \in Nat
  <2>1. Same(cache, disk, 0)
    BY LenProperties DEF Same, Bytes
  <2> QED  BY <2>1, AgreedPrefix
<1>2. ASSUME NEW m \in Nat, Same(cache, disk, m) PROVE m <= agreed
  BY <1>2, AgreedPrefix
<1> HIDE DEF agreed
<1>3. CASE t = disk
  BY <1>3, OnBothHeld
<1>4. ASSUME t \in Bytes, \A m \in 0 .. agreed : Same(cache, t, m)
      PROVE  Held(A, t)
  <2> SUFFICES ASSUME NEW r \in A PROVE Inside(t, r)
    BY DEF Held
  <2>1. PICK n \in Nat : InsideAt(cache, n, r) /\ Same(cache, disk, FrameUnits * (n + 1))
    BY DEF OnBoth
  <2>2. FrameUnits * (n + 1) \in Nat
    BY DEF FrameUnits
  <2>3. FrameUnits * (n + 1) <= agreed
    BY <1>2, <2>1, <2>2
  <2>4. Same(cache, t, FrameUnits * (n + 1))
    BY SMTT(30), <1>1, <1>4, <2>2, <2>3
  <2>5. InsideAt(t, n, r)
    BY SMTT(30), <1>4, <2>1, <2>4, SameInside
  <2> QED  BY <2>5 DEF Inside
<1>5. ASSUME NEW s \in cut
      PROVE  s \in Bytes /\ Len(s) \in Nat /\ \A m \in 0 .. agreed : Same(cache, s, m)
  <2>1. PICK n \in agreed .. Len(cache) : s = SubSeq(cache, 1, n)
    BY <1>5
  <2>2. n \in 0 .. Len(cache) /\ \A m \in 0 .. agreed : m \in 0 .. n
    BY <1>0, <1>1
  <2> QED  BY <2>1, <2>2, CutSame
<1>6. CASE t \in cut
  BY SMTT(30), <1>4, <1>5, <1>6
<1>7. ASSUME NEW s \in cut, NEW i \in (agreed + 1) .. Len(s), t = [s EXCEPT ![i] = Zero]
      PROVE  t \in Bytes /\ Held(A, t)
  <2>1. s \in Bytes /\ Len(s) \in Nat /\ \A m \in 0 .. agreed : Same(cache, s, m)
    BY <1>5, <1>7
  <2>2. i \in 1 .. Len(s)
    BY <1>1, <2>1
  <2>3. /\ t \in Bytes /\ Len(t) = Len(s)
        /\ \A j \in 1 .. Len(s) : t[j] = IF j = i THEN Zero ELSE s[j]
    BY SMTT(30), <1>0, <1>7, <2>1, <2>2, ExceptSeq DEF Bytes
  <2>4. \A m \in 0 .. agreed : Same(cache, t, m)
    BY <1>1, <2>1, <2>2, <2>3 DEF Same
  <2> QED  BY SMTT(30), <1>4, <2>3, <2>4
<1>8. \/ t = disk \/ t \in cut
      \/ \E s \in cut : \E i \in (agreed + 1) .. Len(s) : t = [s EXCEPT ![i] = Zero]
  BY Zenon DEF Survivors, agreed
<1> QED  BY SMTT(30), <1>3, <1>6, <1>7, <1>8

\* A power loss leaves what was durable, or takes a file whose name was not.
LEMMA PowerLossKept ==
  ASSUME IInv, PowerLoss
  PROVE  IInv'
<1>1. /\ disk' = cache' /\ user' = <<>> /\ next' \in {next, next + 1} /\ acked' = durable
      /\ kept' = durable /\ durable' = durable /\ buried' = buried
      /\ rooted' = rooted /\ careful' = careful
      /\ mode' = mode /\ dirPending' = dirPending /\ pc' = "none" /\ nameDurable' = exists'
      /\ \/ cache' \in Survivors /\ exists' = TRUE /\ vanished' = vanished /\ Lost' = Lost
         \/ /\ ~nameDurable /\ cache' = <<>> /\ exists' = FALSE
            /\ vanished' = vanished \cup durable /\ Lost' = Lost \cup durable
  BY SMTT(30) DEF PowerLoss, AfterCrash, callers, Lost
<1>2. cache \in Bytes /\ disk \in Bytes /\ durable \ Lost \in SUBSET Nat
  BY Zenon DEF IInv, TypeOK
<1>3. cache' \in Bytes /\ durable \ Lost' \in SUBSET Nat /\ Held(durable \ Lost', cache')
  <2>1. CASE cache' \in Survivors /\ Lost' = Lost
    BY <1>2, <2>1, SurvivorKeeps DEF IInv, Promised
  <2>2. CASE cache' = <<>> /\ Lost' = Lost \cup durable
    BY <2>2, EmptyFile DEF Held
  <2> QED  BY <1>1, <2>1, <2>2
<1>4. TypeOK' /\ next' # 0
  <2>1. next' \in Nat /\ next' # 0
    BY <1>1 DEF IInv, TypeOK
  <2>2. exists' \in BOOLEAN
    BY <1>1, Zenon
  <2>3. vanished' \in SUBSET Nat /\ buried' \in SUBSET Nat /\ durable \in SUBSET Nat
    BY Zenon, <1>1 DEF IInv, TypeOK
  <2>4. rooted' \in BOOLEAN /\ careful' \in BOOLEAN /\ dirPending' \in BOOLEAN
    BY Zenon, <1>1 DEF IInv, TypeOK
  <2>5. <<>> \in Bytes
    BY EmptyFile
  <2> QED  BY Zenon, <1>1, <1>3, <2>1, <2>2, <2>3, <2>4, <2>5 DEF TypeOK
<1>5. Buffer' /\ InFlight' /\ Whole'
  BY <1>1 DEF IInv, Buffer, InFlight, Whole, Writing
<1>6. Named'
  BY <1>1 DEF IInv, Named, Writing
<1>7. OnBoth(durable \ Lost', cache', cache')
  BY SMTT(30), <1>3, HeldOnBoth
<1>8. cache' \o user' = cache'
  BY SMTT(30), <1>1, <1>3, EmptyFile
<1>9. Promised'
  BY SMTT(30), <1>1, <1>3, <1>7, <1>8 DEF Promised
<1> QED  BY <1>4, <1>5, <1>6, <1>9 DEF IInv

\* Nothing is promised of a damaged file.
LEMMA DamageKept ==
  ASSUME IInv, MediaDamage
  PROVE  IInv'
<1>1. /\ disk' = cache' /\ user' = user /\ next' = next
      /\ acked' = {} /\ kept' = {} /\ durable' = {} /\ buried' = buried
      /\ rooted' = rooted /\ vanished' = vanished /\ Lost' = Lost
      /\ careful' = careful /\ mode' = mode /\ exists' = exists /\ pc' = pc /\ pc = "none"
      /\ nameDurable' = nameDurable /\ dirPending' = dirPending
      /\ \E i \in DOMAIN cache, u \in {Zero, Garbled} : cache' = [cache EXCEPT ![i] = u]
  BY Zenon DEF MediaDamage, callers, Lost
<1>2. cache' \in Bytes
  <2>1. DOMAIN cache = 1 .. Len(cache) /\ cache \in Bytes
    BY LenProperties DEF IInv, TypeOK, Bytes
  <2>2. Zero \in Unit /\ Garbled \in Unit
    BY DEF Zero, Garbled, Unit
  <2> QED  BY SMTT(30), <1>1, <2>1, <2>2, ExceptSeq DEF Bytes
<1>3. TypeOK' /\ next' # 0
  BY <1>1, <1>2 DEF IInv, TypeOK
<1>4. Buffer' /\ InFlight' /\ Named'
  BY <1>1 DEF IInv, Buffer, InFlight, Named, Writing
<1>5. exists
  <2>1. cache # <<>>
    BY <1>1
  <2> QED  BY <2>1 DEF IInv, Whole
<1>6. Whole'
  BY <1>1, <1>5 DEF IInv, Whole, Writing
<1>7. Promised'
  BY <1>1 DEF Promised, Held, OnBoth
<1> QED  BY SMTT(30), <1>3, <1>4, <1>6, <1>7 DEF IInv

-----------------------------------------------------------------------------
\* Every step of writer, repair and failures keeps the invariant.
LEMMA NextIInv == IInv /\ [Next]_vars => IInv'
<1> SUFFICES ASSUME IInv, [Next]_vars PROVE IInv'
  OBVIOUS
<1>1. CASE Next
  BY SMTT(30), <1>1, OpenKept, MovesOn, AppendKept, WriteOutKept, AcknowledgeKept, GoneKept,
     GoOnKept, SyncKept, SyncDoneKept, RecoverKept, PowerLossKept, DamageKept DEF Next
<1>2. CASE UNCHANGED vars
  BY <1>2 DEF vars, IInv, TypeOK, Buffer, Promised, InFlight, Named, Whole, Lost
<1> QED  BY <1>1, <1>2

\* What an acknowledged append was promised, recover_log returns: after every kill,
\* power loss, failed call and repair, for every number of records, unless it was
\* appended behind an incomplete frame, which a careful caller never does, or its
\* file vanished.
THEOREM AcknowledgedRecoverable == Spec => []AckedRecoverable
<1>1. IInv => AckedRecoverable
  <2> SUFFICES ASSUME IInv PROVE AckedRecoverable
    OBVIOUS
  <2>1. \A r \in kept \ Lost : r \in Nat /\ Inside(cache, r)
    BY DEF IInv, TypeOK, Promised, Held
  <2>2. kept \ Lost \subseteq Range(ValidRecords(cache))
    BY Zenon, <2>1, InsideRecovered DEF IInv, TypeOK
  <2> QED  BY <2>2 DEF IInv, Whole, AckedRecoverable, Lost
<1> QED  BY InitIInv, NextIInv, <1>1, PTL DEF Spec

\* What FsyncOnAppend and sync() promise is in the valid prefix on disk at every step
\* from the acknowledgment on; and its file has a name on disk, so that none vanishes,
\* as long as no writer opens a log whose name was not.
THEOREM DurableIsOnDisk == Spec => []DurableOnDisk
<1>1. IInv => DurableOnDisk
  <2> SUFFICES ASSUME IInv PROVE DurableOnDisk
    OBVIOUS
  <2>1. durable \ Lost \in SUBSET Nat /\ cache \in Bytes /\ disk \in Bytes
    BY Zenon DEF IInv, TypeOK
  <2>2. Held(durable \ Lost, disk)
    BY <2>1, OnBothHeld DEF IInv, Promised
  <2>3. durable \ Lost \subseteq Range(ValidRecords(disk))
    BY <2>1, <2>2, InsideRecovered DEF Held
  <2> QED  BY <2>3 DEF IInv, Named, DurableOnDisk, Lost
<1> QED  BY InitIInv, NextIInv, <1>1, PTL DEF Spec
=============================================================================
