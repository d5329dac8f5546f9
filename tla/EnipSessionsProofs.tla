------------------------- MODULE EnipSessionsProofs -------------------------
(***************************************************************************)
(* The safety properties of EnipSessions, for any number of connections,   *)
(* frames and handles.  Each has an inductive invariant of its own on top  *)
(* of the types: which handles were granted, where in the stream frames    *)
(* begin, and that Assembly data fit a response.  Facts about sequences    *)
(* are kept out of the steps that do arithmetic, which the provers mix     *)
(* badly: lemmas name lengths and positions and hide what they stand for.  *)
(*                                                                         *)
(* The operators of CipRequests come first, with the induction they need.  *)
(* The induction theorems of the library take the statement as an          *)
(* operator, so induction is stated with sets: what holds of the numbers   *)
(* in S holds of n for S == {n \in Nat : ...}.                             *)
(***************************************************************************)
EXTENDS EnipSessions, FiniteSetTheorems, SequenceTheorems, WellFoundedInduction, TLAPS

-----------------------------------------------------------------------------
(* CIP requests *)

\* Every non-empty set of natural numbers has a least element: the intervals
\* from 0 to its elements are finite sets, and inclusion is well-founded there.
LEMMA LeastNatural ==
    ASSUME NEW S \in SUBSET Nat, S # {}
    PROVE  \E m \in S : \A n \in S : m <= n
<1> DEFINE Intervals == {0..n : n \in S}
<1>1. Intervals \subseteq FiniteSubsetsOf(Nat)
  <2> SUFFICES ASSUME NEW n \in S PROVE 0..n \in FiniteSubsetsOf(Nat)
    OBVIOUS
  <2> QED
    BY FS_Interval DEF FiniteSubsetsOf
<1>2. Intervals # {}
  OBVIOUS
<1>3. \E x \in Intervals : \A y \in Intervals : <<y, x>> \notin StrictSubsetOrdering(Nat)
  <2> HIDE DEF Intervals
  <2> QED
    BY <1>1, <1>2, FS_StrictSubsetOrderingWellFounded, WFMin
<1>4. PICK m \in S : \A n \in S : <<0..n, 0..m>> \notin StrictSubsetOrdering(Nat)
  BY <1>3
<1>5. ASSUME NEW n \in S PROVE m <= n
  <2>1. ~(0..n \subseteq 0..m /\ 0..n # 0..m)
    BY <1>4, 0..n \in SUBSET Nat, 0..m \in SUBSET Nat DEF StrictSubsetOrdering
  <2> QED
    BY <2>1
<1> QED
  BY <1>5

\* A set that has 0 and, with a number, the next one has every number.
LEMMA Induction ==
    ASSUME NEW S, 0 \in S, \A n \in Nat : n \in S => n + 1 \in S
    PROVE  \A n \in Nat : n \in S
<1> SUFFICES ASSUME Nat \ S # {} PROVE FALSE
  OBVIOUS
<1>1. PICK m \in Nat \ S : \A n \in Nat \ S : m <= n
  BY LeastNatural
<1>2. m # 0 /\ m - 1 \in Nat /\ m - 1 \notin Nat \ S
  BY <1>1
<1> QED
  BY <1>2

-----------------------------------------------------------------------------
\* The step of ParsePath at byte i, from what it makes of the bytes behind it.
Segment(path, from, i) ==
    IF i > Len(path) THEN <<>>
    ELSE IF path[i] = 0 THEN from[i + 1]
    ELSE IF path[i] \notin DOMAIN SegmentType \/ i + Width(path[i]) > Len(path)
    THEN [error |-> path[i]]
    ELSE Default(from[i + 1 + Width(path[i])], SegmentType[path[i]],
                 LittleEndian(SubSeq(path, i + 1, i + Width(path[i]))))
IsParse(path, from) == from = [i \in 1..Len(path) + 1 |-> Segment(path, from, i)]

\* A segment's value has 1, 2 or 4 bytes.
LEMMA WidthType == \A s : Width(s) \in {1, 2, 4}
BY DEF Width

\* The step looks only behind byte i.
LEMMA SegmentLooksAhead ==
    ASSUME NEW path \in Seq(Nat), NEW i \in 1..Len(path) + 1, NEW f, NEW g,
           \A j \in i + 1..Len(path) + 1 : f[j] = g[j]
    PROVE  Segment(path, f, i) = Segment(path, g, i)
<1>1. ASSUME i <= Len(path) PROVE i + 1 \in i + 1..Len(path) + 1
  BY <1>1
<1>2. ASSUME i + Width(path[i]) <= Len(path)
      PROVE  i + 1 + Width(path[i]) \in i + 1..Len(path) + 1
  <2> DEFINE w == Width(path[i])
  <2>1. w \in {1, 2, 4} /\ Len(path) \in Nat
    BY WidthType
  <2> HIDE DEF w
  <2>2. i + w <= Len(path)
    BY <1>2 DEF w
  <2>3. i + 1 + w \in i + 1..Len(path) + 1
    BY <2>1, <2>2
  <2> QED
    BY <2>3 DEF w
<1>3. i \in Nat /\ Len(path) \in Nat /\ Width(path[i]) \in {1, 2, 4}
  BY WidthType
<1>4. CASE i > Len(path)
  BY <1>4 DEF Segment
<1>5. CASE i <= Len(path) /\ path[i] = 0
  BY <1>1, <1>3, <1>5 DEF Segment
<1>6. CASE i <= Len(path) /\ path[i] # 0
  <2>1. CASE path[i] \notin DOMAIN SegmentType \/ i + Width(path[i]) > Len(path)
    BY <1>3, <1>6, <2>1 DEF Segment
  <2>2. CASE path[i] \in DOMAIN SegmentType /\ i + Width(path[i]) <= Len(path)
    <3>1. f[i + 1 + Width(path[i])] = g[i + 1 + Width(path[i])]
      BY <1>2, <2>2
    <3> QED
      BY <1>3, <1>6, <2>2, <3>1 DEF Segment
  <2> QED
    BY <1>3, <2>1, <2>2
<1> QED
  BY <1>3, <1>4, <1>5, <1>6

\* So ParsePath parses: its recursion has a solution, byte by byte from the end.
LEMMA ParseExists ==
    ASSUME NEW path \in Seq(Nat)
    PROVE  \E from : IsParse(path, from) /\ ParsePath(path) = from[1]
<1> DEFINE L == Len(path)
           Part(n, g) == g = [i \in L + 1 - n..L + 1 |-> Segment(path, g, i)]
           S == {n \in Nat : n <= L => \E g : Part(n, g)}
<1>1. L \in Nat
  OBVIOUS
<1>2. 0 \in S
  <2> DEFINE g == [i \in L + 1 - 0..L + 1 |-> <<>>]
  <2>1. \A i \in L + 1 - 0..L + 1 : Segment(path, g, i) = <<>>
    BY <1>1 DEF Segment
  <2>2. Part(0, g)
    BY <2>1
  <2> QED
    BY <2>2
<1>3. ASSUME NEW n \in Nat, n \in S PROVE n + 1 \in S
  <2> SUFFICES ASSUME n + 1 <= L PROVE \E h : Part(n + 1, h)
    OBVIOUS
  <2>1. PICK g : Part(n, g)
    BY <1>1, <1>3
  <2> DEFINE h == [i \in L + 1 - (n + 1)..L + 1 |-> Segment(path, g, i)]
  <2>2. \A j \in L + 1 - n..L + 1 : h[j] = g[j]
    <3>1. \A j \in L + 1 - n..L + 1 : g[j] = Segment(path, g, j)
      BY <2>1
    <3>2. \A j \in L + 1 - n..L + 1 : j \in L + 1 - (n + 1)..L + 1
      BY <1>1
    <3> QED
      BY <3>1, <3>2
  <2> HIDE DEF h
  <2>3. ASSUME NEW i \in L + 1 - (n + 1)..L + 1 PROVE Segment(path, h, i) = Segment(path, g, i)
    <3>1. /\ i \in 1..L + 1
          /\ \A j \in i + 1..L + 1 : j \in L + 1 - n..L + 1
      BY <1>1
    <3> QED
      BY <2>2, <3>1, SegmentLooksAhead
  <2>4. Part(n + 1, h)
    BY <2>3 DEF h
  <2> QED
    BY <2>4
<1> HIDE DEF S
<1>4. \A n \in Nat : n \in S
  BY <1>2, <1>3, Induction
<1>5. PICK g : Part(L, g)
  BY <1>1, <1>4 DEF S
<1>6. \E from : IsParse(path, from)
  <2>1. L + 1 - L = 1
    BY <1>1
  <2> QED
    BY <1>5, <2>1 DEF IsParse
<1>7. ParsePath(path) = (CHOOSE from : IsParse(path, from))[1]
  BY DEF ParsePath, IsParse, Segment
<1> QED
  BY <1>6, <1>7

-----------------------------------------------------------------------------
(* Reading paths from the middle *)

\* What is made of the bytes from k on does not depend on those before.
LEMMA ParseSuffix ==
    ASSUME NEW path \in Seq(Nat), NEW from, IsParse(path, from), NEW k \in 1..Len(path) + 1
    PROVE  from[k] = ParsePath(SubSeq(path, k, Len(path)))
<1> DEFINE L == Len(path)
           rest == SubSeq(path, k, L)
           R == Len(rest)
<1>1. L \in Nat /\ k \in Nat
  OBVIOUS
<1>2. rest \in Seq(Nat) /\ R = L + 1 - k /\ R \in Nat /\ \A j \in 1..R : rest[j] = path[k - 1 + j]
  <2>1. \A j \in k..L : path[j] \in Nat
    OBVIOUS
  <2>2. /\ rest \in Seq(Nat)
        /\ R = IF k <= L THEN L - k + 1 ELSE 0
        /\ \A j \in 1..L - k + 1 : rest[j] = path[k + j - 1]
    BY <1>1, <2>1, SubSeqProperties
  <2> HIDE DEF rest, R, L
  <2>3. R = L + 1 - k
    BY <1>1, <2>2 DEF L
  <2>4. \A j \in 1..R : rest[j] = path[k - 1 + j]
    <3> SUFFICES ASSUME NEW j \in 1..R PROVE rest[j] = path[k - 1 + j]
      OBVIOUS
    <3>1. j \in 1..L - k + 1 /\ k + j - 1 = k - 1 + j
      BY <1>1, <2>3
    <3> QED
      BY <2>2, <3>1
  <2> QED
    BY <1>1, <2>2, <2>3, <2>4 DEF L
<1>3. PICK g : IsParse(rest, g) /\ ParsePath(rest) = g[1]
  BY <1>2, ParseExists
<1> DEFINE Same(j) == g[j] = from[k - 1 + j]
<1>4. ASSUME NEW j \in 1..R + 1, \A m \in j + 1..R + 1 : Same(m) PROVE Same(j)
  <2> DEFINE i == k - 1 + j
             w == Width(path[i])
  <2>1. i \in 1..L + 1 /\ i \in Nat /\ j \in Nat
    BY <1>1, <1>2
  <2>2. from[i] = Segment(path, from, i)
    BY <2>1 DEF IsParse
  <2>3. g[j] = Segment(rest, g, j)
    BY <1>3 DEF IsParse
  <2>4. w \in {1, 2, 4}
    BY WidthType
  <2>5. CASE j > R
    <3>1. i > L
      BY <1>1, <1>2, <2>5
    <3>2. from[i] = <<>>
      BY <2>2, <3>1 DEF Segment
    <3>3. g[j] = <<>>
      BY <2>3, <2>5 DEF Segment
    <3> QED
      BY <3>2, <3>3
  <2>6. CASE j <= R
    <3>0. j \in 1..R /\ i <= L
      <4> HIDE DEF R, L
      <4> QED
        BY <1>1, <1>2, <2>1, <2>6
    <3>1. j \in 1..R /\ i <= L /\ rest[j] = path[i]
      BY <1>2, <3>0
    <3>2. ~(i > L) /\ ~(j > R)
      <4>1. ~(i > L)
        <5> HIDE DEF L, i
        <5> QED
          BY <1>1, <2>1, <3>0
      <4>2. ~(j > R)
        <5> HIDE DEF R
        <5> QED
          BY <1>2, <2>1, <2>6
      <4> QED
        BY <4>1, <4>2
    <3>3. CASE path[i] = 0
      <4>1. g[j] = g[j + 1]
        BY <2>3, <3>1, <3>2, <3>3 DEF Segment
      <4>2. from[i] = from[i + 1]
        BY <2>2, <3>2, <3>3 DEF Segment
      <4>3. j + 1 \in j + 1..R + 1 /\ k - 1 + (j + 1) = i + 1
        <5> HIDE DEF R, L
        <5> QED
          BY <1>1, <1>2, <2>1, <2>6
      <4> QED
        BY <1>4, <4>1, <4>2, <4>3
    <3>4. CASE path[i] # 0 /\ (path[i] \notin DOMAIN SegmentType \/ i + w > L)
      <4>1. i + w > L <=> j + w > R
        <5> HIDE DEF w, R, L
        <5> QED
          BY <1>1, <1>2, <2>1, <2>4
      <4>2. g[j] = [error |-> path[i]]
        BY <2>3, <3>1, <3>2, <3>4, <4>1 DEF Segment
      <4>3. from[i] = [error |-> path[i]]
        BY <2>2, <3>2, <3>4 DEF Segment
      <4> QED
        BY <4>2, <4>3
    <3>5. CASE path[i] # 0 /\ path[i] \in DOMAIN SegmentType /\ i + w <= L
      <4>1. j + w <= R /\ ~(i + w > L) /\ ~(j + w > R)
        <5> HIDE DEF w, R, L
        <5> QED
          BY <1>1, <1>2, <2>1, <2>4, <3>5
      <4>2. SubSeq(rest, j + 1, j + w) = SubSeq(path, i + 1, i + w)
        <5> HIDE DEF w, R, L
        <5>1. k \in 1..L /\ L \in 1..L /\ j + 1 \in 1..L - k + 1 /\ j + w \in 1..L - k + 1
          BY <1>1, <1>2, <2>1, <2>4, <4>1, <3>1
        <5>2. k + (j + 1) - 1 = i + 1 /\ k + (j + w) - 1 = i + w
          BY <1>1, <2>1, <2>4
        <5>3. SubSeq(SubSeq(path, k, L), j + 1, j + w) = SubSeq(path, k + (j + 1) - 1, k + (j + w) - 1)
          <6> DEFINE m == j + 1
                     n == j + w
          <6>1. L = Len(path)
            BY DEF L
          <6>2. m \in 1..L - k + 1 /\ n \in 1..L - k + 1
            BY <5>1
          <6> HIDE DEF i, m, n
          <6>3. SubSeq(SubSeq(path, k, L), m, n) = SubSeq(path, k + m - 1, k + n - 1)
            BY <5>1, <6>1, <6>2, SubSeqOfSubSeq
          <6> QED
            BY <6>3 DEF m, n
        <5> QED
          BY <5>2, <5>3
      <4>3. g[j] = Default(g[j + 1 + w], SegmentType[path[i]],
                           LittleEndian(SubSeq(rest, j + 1, j + w)))
        BY <2>3, <3>1, <3>2, <3>5, <4>1 DEF Segment
      <4>4. from[i] = Default(from[i + 1 + w], SegmentType[path[i]],
                              LittleEndian(SubSeq(path, i + 1, i + w)))
        BY <2>2, <3>2, <3>5, <4>1 DEF Segment
      <4>5. j + 1 + w \in j + 1..R + 1 /\ k - 1 + (j + 1 + w) = i + 1 + w
        <5> HIDE DEF w, R
        <5> QED
          BY <1>1, <1>2, <2>1, <2>4, <4>1
      <4>6. g[j + 1 + w] = from[i + 1 + w]
        <5> HIDE DEF w, i
        <5>1. Same(j + 1 + w)
          BY <1>4, <4>5
        <5> QED
          BY <4>5, <5>1
      <4> QED
        BY <4>2, <4>3, <4>4, <4>6
    <3>6. i + w > L \/ i + w <= L
      <4> HIDE DEF w
      <4> QED
        BY <1>1, <2>1, <2>4
    <3> QED
      BY <3>3, <3>4, <3>5, <3>6
  <2> QED
    BY <1>2, <2>1, <2>5, <2>6
<1> DEFINE S == {n \in Nat : \A j \in 1..R + 1 : R + 1 - j <= n => Same(j)}
<1> HIDE DEF Same
<1>5. 0 \in S
  <2>1. ASSUME NEW j \in 1..R + 1, R + 1 - j <= 0 PROVE Same(j)
    BY <1>2, <1>4, <2>1
  <2> QED
    BY <2>1
<1>6. ASSUME NEW n \in Nat, n \in S PROVE n + 1 \in S
  <2>1. ASSUME NEW j \in 1..R + 1, R + 1 - j <= n + 1 PROVE Same(j)
    <3>1. ASSUME NEW m \in j + 1..R + 1 PROVE Same(m)
      <4>1. m \in 1..R + 1 /\ R + 1 - m <= n
        <5> HIDE DEF R
        <5> QED
          BY <1>2, <2>1
      <4> QED
        BY <1>6, <4>1
    <3> QED
      BY <1>4, <3>1
  <2> QED
    BY <2>1
<1> HIDE DEF S
<1>7. R \in S
  BY <1>2, <1>5, <1>6, Induction
<1>8. Same(1)
  BY <1>2, <1>7 DEF S
<1>9. k - 1 + 1 = k
  BY <1>1
<1> QED
  BY <1>3, <1>8, <1>9 DEF Same

\* The path of no bytes names nothing.
LEMMA ParseEmpty == ParsePath(<<>>) = <<>>
<1>1. <<>> \in Seq(Nat) /\ Len(<<>>) = 0
  OBVIOUS
<1>2. PICK from : IsParse(<<>>, from) /\ ParsePath(<<>>) = from[1]
  BY <1>1, ParseExists
<1>3. from[1] = Segment(<<>>, from, 1)
  BY <1>1, <1>2 DEF IsParse
<1> QED
  BY <1>1, <1>2, <1>3 DEF Segment

\* What follows a sequence in a longer one.
LEMMA BehindPrefix ==
    ASSUME NEW s \in Seq(Nat), NEW t \in Seq(Nat)
    PROVE  /\ s \o t \in Seq(Nat)
           /\ Len(s \o t) = Len(s) + Len(t)
           /\ SubSeq(s \o t, Len(s) + 1, Len(s \o t)) = t
           /\ \A i \in 1..Len(s) : (s \o t)[i] = s[i]
<1> DEFINE st == s \o t
           S == Len(s)
           T == Len(t)
<1>1. S \in Nat /\ T \in Nat
  OBVIOUS
<1>2. st \in Seq(Nat) /\ Len(st) = S + T
  BY ConcatProperties
<1>3. \A i \in 1..S + T : st[i] = IF i <= S THEN s[i] ELSE t[i - S]
  BY ConcatProperties
<1> HIDE DEF st
<1>4. SubSeq(st, S + 1, S + T) = t
  <2>1. CASE T = 0
    <3>1. t = <<>>
      BY <2>1, EmptySeq
    <3>2. S + T < S + 1 /\ S + T \in Int /\ S + 1 \in Int
      BY <1>1, <2>1
    <3> HIDE DEF S, T
    <3>3. SubSeq(st, S + 1, S + T) = <<>>
      BY <3>2, SubSeqEmpty
    <3> QED
      BY <3>1, <3>3
  <2>2. CASE T # 0
    <3> HIDE DEF S, T
    <3>1. S + 1 \in S + 1..S + T /\ S + T \in S + 1..S + T
      BY <1>1, <2>2
    <3>2. SubSeq(st, S + 1, S + T) = SubSeq(t, S + 1 - S, S + T - S)
      BY <3>1, SubSeqOfConcat2 DEF S, T, st
    <3>3. S + 1 - S = 1 /\ S + T - S = T
      BY <1>1
    <3> QED
      BY <3>2, <3>3, SubSeqFull DEF T
  <2> QED
    BY <2>1, <2>2
<1>5. \A i \in 1..S : st[i] = s[i]
  <2> HIDE DEF S, T
  <2> QED
    BY <1>1, <1>3
<1> QED
  BY <1>2, <1>4, <1>5 DEF st

\* A zero byte ahead of a path is skipped.
LEMMA ParsePadding ==
    ASSUME NEW rest \in Seq(Nat)
    PROVE  ParsePath(<<0>> \o rest) = ParsePath(rest)
<1> DEFINE path == <<0>> \o rest
<1>1. <<0>> \in Seq(Nat) /\ Len(<<0>>) = 1 /\ <<0>>[1] = 0 /\ Len(rest) \in Nat
  OBVIOUS
<1>2. path \in Seq(Nat) /\ Len(path) = 1 + Len(rest) /\ path[1] = 0
  BY <1>1, BehindPrefix
<1>3. SubSeq(path, 2, Len(path)) = rest
  BY <1>1, BehindPrefix, 1 + 1 = 2
<1> HIDE DEF path
<1>4. PICK from : IsParse(path, from) /\ ParsePath(path) = from[1]
  BY <1>2, ParseExists
<1>5. 1 \in 1..Len(path) + 1 /\ 2 \in 1..Len(path) + 1 /\ ~(1 > Len(path))
  BY <1>1, <1>2
<1>6. from[1] = Segment(path, from, 1)
  BY <1>4, <1>5 DEF IsParse
<1>7. from[1] = from[2]
  BY <1>2, <1>5, <1>6 DEF Segment
<1> QED
  BY <1>2, <1>3, <1>4, <1>5, <1>7, ParseSuffix DEF path

\* A whole segment ahead of a path counts unless the path has one of its kind.
LEMMA ParseSegment ==
    ASSUME NEW code \in DOMAIN SegmentType, NEW bytes \in Seq(Nat),
           Len(bytes) = Width(code), NEW rest \in Seq(Nat)
    PROVE  ParsePath(<<code>> \o bytes \o rest) =
           Default(ParsePath(rest), SegmentType[code], LittleEndian(bytes))
<1> DEFINE path == <<code>> \o bytes \o rest
           head == <<code>> \o bytes
           w == Width(code)
<1>1. code \in Nat /\ code # 0
  BY DEF SegmentType
<1>2. w \in {1, 2, 4}
  BY WidthType
<1>3. <<code>> \in Seq(Nat) /\ Len(<<code>>) = 1 /\ <<code>>[1] = code
  BY <1>1
<1>4. head \in Seq(Nat) /\ Len(head) = 1 + w /\ head[1] = code
  BY <1>3, BehindPrefix
<1>5. SubSeq(head, 2, 1 + w) = bytes
  BY <1>3, <1>4, BehindPrefix, 1 + 1 = 2
<1>6. path = head \o rest
  BY <1>3, ConcatAssociative
<1> HIDE DEF head
<1>7. path \in Seq(Nat) /\ Len(path) = 1 + w + Len(rest) /\ Len(rest) \in Nat
  <2>1. path \in Seq(Nat) /\ Len(path) = Len(head) + Len(rest)
    BY <1>4, <1>6, BehindPrefix
  <2> QED
    BY <1>4, <2>1
<1>8. SubSeq(path, 1 + w + 1, Len(path)) = rest
  BY <1>4, <1>6, BehindPrefix
<1>9. path[1] = code
  <2>1. 1 \in 1..Len(head)
    BY <1>2, <1>4
  <2> QED
    BY <1>4, <1>6, <2>1, BehindPrefix
<1>10. SubSeq(path, 2, 1 + w) = bytes
  <2>1. 2 \in 1..Len(head) /\ 1 + w \in 1..Len(head)
    BY <1>2, <1>4
  <2> QED
    BY <1>4, <1>5, <1>6, <2>1, SubSeqOfConcat1
<1> HIDE DEF path, w
<1>11. PICK from : IsParse(path, from) /\ ParsePath(path) = from[1]
  BY <1>7, ParseExists
<1>12. 1 \in 1..Len(path) + 1 /\ ~(1 > Len(path)) /\ ~(1 + w > Len(path)) /\ 1 + w + 1 \in 1..Len(path) + 1
  BY <1>2, <1>7
<1>13. from[1] = Segment(path, from, 1)
  BY <1>11, <1>12 DEF IsParse
<1>14. from[1] = Default(from[1 + 1 + w], SegmentType[code],
                         LittleEndian(SubSeq(path, 1 + 1, 1 + w)))
  BY <1>1, <1>9, <1>12, <1>13 DEF Segment, w
<1>15. 1 + 1 + w = 1 + w + 1 /\ 1 + 1 = 2
  BY <1>2
<1>16. from[1 + w + 1] = ParsePath(rest)
  BY <1>7, <1>8, <1>11, <1>12, ParseSuffix
<1> QED
  BY <1>10, <1>11, <1>14, <1>15, <1>16 DEF path

\* A segment cut short is an error.
LEMMA ParseCut ==
    ASSUME NEW code \in DOMAIN SegmentType, NEW bytes \in Seq(Nat), Len(bytes) < Width(code)
    PROVE  ParsePath(<<code>> \o bytes) = [error |-> code]
<1> DEFINE path == <<code>> \o bytes
           w == Width(code)
<1>1. code \in Nat /\ code # 0
  BY DEF SegmentType
<1>2. w \in {1, 2, 4} /\ Len(bytes) \in Nat
  BY WidthType
<1>3. <<code>> \in Seq(Nat) /\ Len(<<code>>) = 1 /\ <<code>>[1] = code
  BY <1>1
<1>4. path \in Seq(Nat) /\ Len(path) = 1 + Len(bytes) /\ path[1] = code
  BY <1>3, BehindPrefix
<1> HIDE DEF path, w
<1>5. 1 \in 1..Len(path) + 1 /\ ~(1 > Len(path)) /\ 1 + w > Len(path)
  BY <1>2, <1>4 DEF w
<1>6. PICK from : IsParse(path, from) /\ ParsePath(path) = from[1]
  BY <1>4, ParseExists
<1>7. from[1] = Segment(path, from, 1)
  BY <1>5, <1>6 DEF IsParse
<1> QED
  BY <1>1, <1>4, <1>5, <1>6, <1>7 DEF Segment, w, path

\* So is a byte that is no segment's code.
LEMMA ParseUnknown ==
    ASSUME NEW code \in Nat, code # 0, code \notin DOMAIN SegmentType, NEW rest \in Seq(Nat)
    PROVE  ParsePath(<<code>> \o rest) = [error |-> code]
<1> DEFINE path == <<code>> \o rest
<1>1. <<code>> \in Seq(Nat) /\ Len(<<code>>) = 1 /\ <<code>>[1] = code /\ Len(rest) \in Nat
  OBVIOUS
<1>2. path \in Seq(Nat) /\ Len(path) = 1 + Len(rest) /\ path[1] = code
  BY <1>1, BehindPrefix
<1> HIDE DEF path
<1>3. 1 \in 1..Len(path) + 1 /\ ~(1 > Len(path))
  BY <1>1, <1>2
<1>4. PICK from : IsParse(path, from) /\ ParsePath(path) = from[1]
  BY <1>2, ParseExists
<1>5. from[1] = Segment(path, from, 1)
  BY <1>3, <1>4 DEF IsParse
<1> QED
  BY <1>2, <1>3, <1>4, <1>5 DEF Segment, path

-----------------------------------------------------------------------------
\* What FlattenSeq's recursion makes of the first n sequences.
IsFlat(es, f) == f = [i \in 1..Len(es) |-> IF i = 1 THEN es[i] ELSE f[i - 1] \o es[i]]

\* The recursion has a solution.
LEMMA FlattenExists ==
    ASSUME NEW S, NEW es \in Seq(S), Len(es) # 0
    PROVE  \E f : IsFlat(es, f) /\ FlattenSeq(es) = f[Len(es)]
<1> DEFINE Step(g, i) == IF i = 1 THEN es[i] ELSE g[i - 1] \o es[i]
           Part(n, g) == g = [i \in 1..n |-> Step(g, i)]
           N == {n \in Nat : \E g : Part(n, g)}
<1>1. 0 \in N
  <2> DEFINE g == [i \in 1..0 |-> 0]
  <2>1. Part(0, g)
    BY 1..0 = {}
  <2> QED
    BY <2>1
<1>2. ASSUME NEW n \in Nat, n \in N PROVE n + 1 \in N
  <2>1. PICK g : Part(n, g)
    BY <1>2
  <2> DEFINE h == [i \in 1..n + 1 |-> Step(g, i)]
  <2>2. \A i \in 1..n : h[i] = g[i]
    <3>1. \A i \in 1..n : g[i] = Step(g, i)
      BY <2>1
    <3>2. \A i \in 1..n : h[i] = Step(g, i)
      <4> HIDE DEF Step
      <4> QED
        BY 1..n \subseteq 1..n + 1
    <3> QED
      BY <3>1, <3>2
  <2>3. \A i \in 1..n + 1 : Step(g, i) = Step(h, i)
    <3> SUFFICES ASSUME NEW i \in 1..n + 1, i # 1 PROVE g[i - 1] = h[i - 1]
      OBVIOUS
    <3>1. i - 1 \in 1..n
      OBVIOUS
    <3> QED
      BY <2>2, <3>1
  <2>4. Part(n + 1, h)
    <3> HIDE DEF Step
    <3> QED
      BY <2>3
  <2> HIDE DEF h, Part
  <2>5. \E g2 : Part(n + 1, g2)
    BY <2>4
  <2> QED
    BY <2>5
<1> HIDE DEF N
<1>3. Len(es) \in N
  BY <1>1, <1>2, Induction
<1>4. \E f : IsFlat(es, f)
  BY <1>3 DEF N, IsFlat
<1>5. FlattenSeq(es) = (CHOOSE f : IsFlat(es, f))[Len(es)]
  BY DEF FlattenSeq, IsFlat
<1> QED
  BY <1>4, <1>5

\* No sequences make no sequence.
LEMMA FlattenEmpty == FlattenSeq(<<>>) = <<>>
BY DEF FlattenSeq

\* One more sequence is one more behind them.
LEMMA FlattenAppend ==
    ASSUME NEW S, NEW es \in Seq(Seq(S)), NEW e \in Seq(S)
    PROVE  /\ FlattenSeq(es) \in Seq(S)
           /\ FlattenSeq(Append(es, e)) = FlattenSeq(es) \o e
<1> DEFINE more == Append(es, e)
           L == Len(es)
<1>1. L \in Nat /\ more \in Seq(Seq(S)) /\ Len(more) = L + 1 /\ more[L + 1] = e
  BY AppendProperties
<1>2. \A i \in 1..L : more[i] = es[i] /\ es[i] \in Seq(S)
  BY AppendProperties, ElementOfSeq
<1> HIDE DEF more
<1>3. PICK h : IsFlat(more, h) /\ FlattenSeq(more) = h[L + 1]
  <2>1. Len(more) # 0 /\ Len(more) = L + 1
    <3> HIDE DEF L
    <3> QED
      BY <1>1
  <2> HIDE DEF L
  <2> QED
    BY <1>1, <2>1, FlattenExists
<1>4. \A i \in 1..L + 1 : h[i] = IF i = 1 THEN more[i] ELSE h[i - 1] \o more[i]
  <2>1. h = [i \in 1..L + 1 |-> IF i = 1 THEN more[i] ELSE h[i - 1] \o more[i]]
    BY <1>1, <1>3 DEF IsFlat
  <2> HIDE DEF L
  <2> QED
    BY <2>1
<1>5. CASE L = 0
  <2>1. es = <<>>
    BY <1>5, EmptySeq
  <2>2. FlattenSeq(es) = <<>> /\ FlattenSeq(more) = e
    BY <1>1, <1>3, <1>4, <1>5, <2>1, FlattenEmpty
  <2> QED
    BY <2>2, ConcatEmptySeq, EmptySeq DEF more
<1>6. CASE L # 0
  <2>1. PICK f : IsFlat(es, f) /\ FlattenSeq(es) = f[L]
    BY <1>6, FlattenExists
  <2>2. \A i \in 1..L : f[i] = IF i = 1 THEN es[i] ELSE f[i - 1] \o es[i]
    BY <2>1 DEF IsFlat
  <2> DEFINE N == {n \in Nat : n + 1 \in 1..L => h[n + 1] = f[n + 1] /\ f[n + 1] \in Seq(S)}
  <2> HIDE DEF L
  <2>3. 0 \in N
    <3>1. ASSUME 1 \in 1..L PROVE h[1] = f[1] /\ f[1] \in Seq(S)
      <4>1. h[1] = more[1]
        BY <1>1, <1>4, <3>1
      <4>2. f[1] = es[1]
        BY <2>2, <3>1
      <4> QED
        BY <1>2, <3>1, <4>1, <4>2
    <3> QED
      BY <3>1, 0 + 1 = 1
  <2>4. ASSUME NEW n \in Nat, n \in N PROVE n + 1 \in N
    <3> DEFINE i == n + 1 + 1
    <3>1. ASSUME i \in 1..L PROVE h[i] = f[i] /\ f[i] \in Seq(S)
      <4>1. n + 1 \in 1..L /\ i - 1 = n + 1 /\ i # 1 /\ i \in 1..L + 1
        BY <1>1, <3>1
      <4> HIDE DEF i
      <4>2. h[n + 1] = f[n + 1] /\ f[n + 1] \in Seq(S)
        BY <2>4, <4>1
      <4>3. h[i] = h[n + 1] \o more[i]
        BY <1>4, <4>1
      <4>4. f[i] = f[n + 1] \o es[i]
        BY <2>2, <3>1, <4>1
      <4>5. more[i] = es[i] /\ es[i] \in Seq(S)
        BY <1>2, <3>1
      <4> QED
        BY <4>2, <4>3, <4>4, <4>5, ConcatProperties
    <3> QED
      BY <3>1
  <2>5. L - 1 \in Nat
    BY <1>1, <1>6
  <2>6. L - 1 \in N
    <3> HIDE DEF N
    <3> QED
      BY <2>3, <2>4, <2>5, Induction
  <2>7. h[L] = f[L] /\ f[L] \in Seq(S)
    <3>1. L - 1 + 1 = L /\ L \in 1..L
      BY <1>1, <1>6
    <3> QED
      BY <2>6, <3>1
  <2>8. h[L + 1] = h[L] \o e
    <3>1. L + 1 \in 1..L + 1 /\ L + 1 # 1 /\ (L + 1) - 1 = L
      BY <1>1, <1>6
    <3>2. h[L + 1] = h[(L + 1) - 1] \o more[L + 1]
      BY <1>4, <3>1
    <3> QED
      BY <1>1, <3>1, <3>2
  <2> QED
    BY <1>3, <2>1, <2>7, <2>8 DEF more
<1> QED
  BY <1>5, <1>6

-----------------------------------------------------------------------------
(* Numbers in paths *)

\* The step of LittleEndian at byte i.
Digit(bytes, from, i) == IF i > Len(bytes) THEN 0 ELSE bytes[i] + 256 * from[i + 1]
IsNumber(bytes, from) == from = [i \in 1..Len(bytes) + 1 |-> Digit(bytes, from, i)]

\* The digits of four bytes.
LEMMA FourBytes ==
    ASSUME NEW a \in Nat, NEW b \in Nat, NEW c \in Nat, NEW d \in Nat
    PROVE  LittleEndian(<<a, b, c, d>>) = a + 256 * (b + 256 * (c + 256 * d))
<1> DEFINE bytes == <<a, b, c, d>>
           three == c + 256 * d
           two == b + 256 * three
           g == [i \in 1..5 |-> IF i = 1 THEN a + 256 * two ELSE IF i = 2 THEN two
                                ELSE IF i = 3 THEN three ELSE IF i = 4 THEN d ELSE 0]
<1>1. Len(bytes) = 4 /\ bytes[1] = a /\ bytes[2] = b /\ bytes[3] = c /\ bytes[4] = d
  OBVIOUS
<1>2. IsNumber(bytes, g)
  <2>1. ASSUME NEW i \in 1..5 PROVE g[i] = Digit(bytes, g, i)
    <3> HIDE DEF bytes, two, three
    <3>1. \/ i = 1 /\ g[i] = a + 256 * two /\ g[i + 1] = two
          \/ i = 2 /\ g[i] = two /\ g[i + 1] = three
          \/ i = 3 /\ g[i] = three /\ g[i + 1] = d
          \/ i = 4 /\ g[i] = d /\ g[i + 1] = 0
          \/ i = 5 /\ g[i] = 0
      OBVIOUS
    <3>2. two = b + 256 * three /\ three = c + 256 * d
      BY DEF two, three
    <3> HIDE DEF g
    <3> QED
      BY <1>1, <3>1, <3>2 DEF Digit
  <2> QED
    BY <1>1, <2>1 DEF IsNumber
<1> HIDE DEF g
<1>3. PICK f : f = (CHOOSE h : IsNumber(bytes, h)) /\ IsNumber(bytes, f)
  BY <1>2
<1>4. LittleEndian(bytes) = f[1]
  BY <1>3 DEF LittleEndian, IsNumber, Digit
<1>5. /\ f[1] = Digit(bytes, f, 1) /\ f[2] = Digit(bytes, f, 2) /\ f[3] = Digit(bytes, f, 3)
      /\ f[4] = Digit(bytes, f, 4) /\ f[5] = Digit(bytes, f, 5)
  BY <1>1, <1>3 DEF IsNumber
<1> HIDE DEF bytes
<1>6. /\ f[5] = 0 /\ f[4] = d + 256 * f[5] /\ f[3] = c + 256 * f[4]
      /\ f[2] = b + 256 * f[3] /\ f[1] = a + 256 * f[2]
  BY <1>1, <1>5 DEF Digit
<1>7. f[4] = d /\ f[3] = three /\ f[2] = two
  <2>1. f[4] = d
    BY <1>6
  <2>2. f[3] = three
    BY <1>6, <2>1
  <2> HIDE DEF three
  <2> QED
    BY <1>6, <2>1, <2>2
<1> QED
  BY <1>4, <1>6, <1>7 DEF bytes

\* A byte counts for itself, each behind it for 256 times the one before, so a
\* value is the same in each width that holds it.
THEOREM ValuesHaveEveryWidth ==
    ASSUME NEW a \in Nat, NEW b \in Nat
    PROVE  /\ LittleEndian(<<a>>) = a
           /\ LittleEndian(<<a, b>>) = a + 256 * b
           /\ LittleEndian(<<a, b, 0, 0>>) = LittleEndian(<<a, b>>)
           /\ LittleEndian(<<a, 0>>) = LittleEndian(<<a>>)
<1>1. LittleEndian(<<a>>) = a
  <2> DEFINE bytes == <<a>>
             g == [i \in 1..2 |-> IF i = 1 THEN a ELSE 0]
  <2>1. Len(bytes) = 1 /\ bytes[1] = a
    OBVIOUS
  <2>2. IsNumber(bytes, g)
    BY <2>1 DEF IsNumber, Digit
  <2>3. PICK f : f = (CHOOSE h : IsNumber(bytes, h)) /\ IsNumber(bytes, f)
    BY <2>2
  <2>4. LittleEndian(bytes) = f[1]
    BY <2>3 DEF LittleEndian, IsNumber, Digit
  <2>5. f[1] = Digit(bytes, f, 1) /\ f[2] = Digit(bytes, f, 2)
    BY <2>1, <2>3 DEF IsNumber
  <2>6. f[2] = 0
    BY <2>1, <2>5 DEF Digit
  <2> QED
    BY <2>1, <2>4, <2>5, <2>6 DEF Digit
<1>2. ASSUME NEW c \in Nat PROVE LittleEndian(<<a, c>>) = a + 256 * c
  <2> DEFINE bytes == <<a, c>>
             g == [i \in 1..3 |-> IF i = 1 THEN a + 256 * c ELSE IF i = 2 THEN c ELSE 0]
  <2>1. Len(bytes) = 2 /\ bytes[1] = a /\ bytes[2] = c
    OBVIOUS
  <2>2. IsNumber(bytes, g)
    BY <2>1 DEF IsNumber, Digit
  <2>3. PICK f : f = (CHOOSE h : IsNumber(bytes, h)) /\ IsNumber(bytes, f)
    BY <2>2
  <2>4. LittleEndian(bytes) = f[1]
    BY <2>3 DEF LittleEndian, IsNumber, Digit
  <2>5. f[1] = Digit(bytes, f, 1) /\ f[2] = Digit(bytes, f, 2) /\ f[3] = Digit(bytes, f, 3)
    BY <2>1, <2>3 DEF IsNumber
  <2>6. f[3] = 0
    BY <2>1, <2>5 DEF Digit
  <2>7. f[2] = c
    BY <2>1, <2>5, <2>6 DEF Digit
  <2> QED
    BY <2>1, <2>4, <2>5, <2>7 DEF Digit
<1>3. LittleEndian(<<a, b, 0, 0>>) = a + 256 * b
  BY 0 \in Nat, FourBytes
<1>4. LittleEndian(<<a, 0>>) = a + 256 * 0
  BY <1>2
<1> QED
  BY <1>1, <1>2, <1>3, <1>4

\* Two or four bytes are the tuple of them.
LEMMA BytesAreTuples ==
    ASSUME NEW bytes \in Seq(Nat)
    PROVE  /\ Len(bytes) = 2 =>
              bytes[1] \in Nat /\ bytes[2] \in Nat /\ bytes = <<bytes[1], bytes[2]>>
           /\ Len(bytes) = 4 =>
              /\ bytes[1] \in Nat /\ bytes[2] \in Nat /\ bytes[3] \in Nat /\ bytes[4] \in Nat
              /\ bytes = <<bytes[1], bytes[2], bytes[3], bytes[4]>>
<1>1. ASSUME Len(bytes) = 2
      PROVE  bytes[1] \in Nat /\ bytes[2] \in Nat /\ bytes = <<bytes[1], bytes[2]>>
  <2> DEFINE t == <<bytes[1], bytes[2]>>
  <2>1. bytes[1] \in Nat /\ bytes[2] \in Nat
    BY <1>1, 1 \in 1..2, 2 \in 1..2, ElementOfSeq
  <2>2. t \in Seq(Nat) /\ Len(t) = 2 /\ t[1] = bytes[1] /\ t[2] = bytes[2]
    BY <2>1
  <2>3. \A i \in 1..2 : i = 1 \/ i = 2
    OBVIOUS
  <2> HIDE DEF t
  <2>4. \A i \in 1..2 : bytes[i] = t[i]
    BY <2>2, <2>3
  <2>5. bytes = t
    BY <1>1, <2>2, <2>4, SeqEqual
  <2> QED
    BY <2>1, <2>5 DEF t
<1>2. ASSUME Len(bytes) = 4
      PROVE  /\ bytes[1] \in Nat /\ bytes[2] \in Nat /\ bytes[3] \in Nat /\ bytes[4] \in Nat
             /\ bytes = <<bytes[1], bytes[2], bytes[3], bytes[4]>>
  <2> DEFINE t == <<bytes[1], bytes[2], bytes[3], bytes[4]>>
  <2>1. bytes[1] \in Nat /\ bytes[2] \in Nat /\ bytes[3] \in Nat /\ bytes[4] \in Nat
    BY <1>2, 1 \in 1..4, 2 \in 1..4, 3 \in 1..4, 4 \in 1..4, ElementOfSeq
  <2>2. /\ t \in Seq(Nat) /\ Len(t) = 4 /\ t[1] = bytes[1] /\ t[2] = bytes[2]
        /\ t[3] = bytes[3] /\ t[4] = bytes[4]
    BY <2>1
  <2>3. \A i \in 1..4 : i = 1 \/ i = 2 \/ i = 3 \/ i = 4
    OBVIOUS
  <2> HIDE DEF t
  <2>4. \A i \in 1..4 : bytes[i] = t[i]
    BY <2>2, <2>3
  <2>5. bytes = t
    BY <1>2, <2>2, <2>4, SeqEqual
  <2> QED
    BY <2>1, <2>5 DEF t
<1> QED
  BY <1>1, <1>2

\* Values are numbers.
LEMMA LittleEndianType ==
    ASSUME NEW bytes \in Seq(Nat), Len(bytes) \in {1, 2, 4}
    PROVE  LittleEndian(bytes) \in Nat
<1>1. CASE Len(bytes) = 1
  <2>1. bytes[1] \in Nat /\ bytes = <<bytes[1]>>
    BY <1>1, ElementOfSeq
  <2> QED
    BY <2>1, ValuesHaveEveryWidth
<1>2. CASE Len(bytes) = 2
  <2> DEFINE a == bytes[1]
             b == bytes[2]
  <2>1. a \in Nat /\ b \in Nat /\ bytes = <<a, b>>
    BY <1>2, BytesAreTuples
  <2> HIDE DEF a, b
  <2>2. LittleEndian(<<a, b>>) = a + 256 * b
    BY <2>1, ValuesHaveEveryWidth, Zenon
  <2> QED
    BY <2>1, <2>2
<1>3. CASE Len(bytes) = 4
  <2> DEFINE a == bytes[1]
             b == bytes[2]
             c == bytes[3]
             d == bytes[4]
  <2>1. a \in Nat /\ b \in Nat /\ c \in Nat /\ d \in Nat /\ bytes = <<a, b, c, d>>
    BY <1>3, BytesAreTuples
  <2> HIDE DEF a, b, c, d
  <2>2. LittleEndian(<<a, b, c, d>>) = a + 256 * (b + 256 * (c + 256 * d))
    BY <2>1, FourBytes
  <2> QED
    BY <2>1, <2>2
<1> QED
  BY <1>1, <1>2, <1>3

-----------------------------------------------------------------------------
\* Concatenations may be regrouped.
LEMMA Regroup ==
    \A s, t, u \in Seq(Nat) : s \o t \o u = s \o (t \o u)
BY ConcatAssociative

\* Segments as they may be sent: any padding, any value of 1, 2 or 4 bytes, packed
\* or padded.  A padded one whose last byte is itself a segment's code is left out
\* below: the server reads on from there (PaddedIsMisread), to whatever it finds.
Sendable ==
    [code : {32, 36, 48}, bytes : {b \in Seq(Nat) : Len(b) \in {1, 2, 4}}, pad : Nat,
     padded : BOOLEAN]
Segments ==
    {s \in Sendable : s.padded => Len(s.bytes) # 1 /\ Last(s.bytes) \notin DOMAIN SegmentType}

\* Zero bytes ahead of a path are skipped.
LEMMA ParseZeros ==
    ASSUME NEW rest \in Seq(Nat), NEW n \in Nat
    PROVE  ParsePath(Zeros(n) \o rest) = ParsePath(rest)
<1> DEFINE zeros(m) == [k \in 1..m |-> 0]
           S == {m \in Nat : ParsePath(zeros(m) \o rest) = ParsePath(rest)}
<1>1. \A m \in Nat : zeros(m) \in Seq(Nat) /\ Len(zeros(m)) = m
  BY IsASeq
<1>2. 0 \in S
  <2>1. zeros(0) = <<>>
    BY <1>1, EmptySeq
  <2> HIDE DEF zeros
  <2> QED
    BY <2>1, ConcatEmptySeq
<1>3. ASSUME NEW m \in Nat, m \in S PROVE m + 1 \in S
  <2>0. <<0>> \in Seq(Nat)
    OBVIOUS
  <2>1. zeros(m + 1) = <<0>> \o zeros(m)
    <3> DEFINE s == <<0>> \o zeros(m)
    <3>1. s \in Seq(Nat) /\ Len(s) = 1 + m
      BY <1>1, <2>0, ConcatProperties
    <3>2. \A i \in 1..1 + m : s[i] = 0
      <4>1. \A i \in 1..1 + m : s[i] = IF i <= 1 THEN <<0>>[i] ELSE zeros(m)[i - 1]
        BY <1>1, <2>0, ConcatProperties
      <4>2. \A i \in 2..1 + m : i - 1 \in 1..m
        OBVIOUS
      <4> QED
        BY <4>1, <4>2
    <3>3. zeros(m + 1) \in Seq(Nat) /\ Len(zeros(m + 1)) = 1 + m
      BY <1>1
    <3>4. \A i \in 1..1 + m : zeros(m + 1)[i] = 0
      OBVIOUS
    <3> HIDE DEF s, zeros
    <3> QED
      BY <3>1, <3>2, <3>3, <3>4, SeqEqual DEF s
  <2> HIDE DEF zeros
  <2> DEFINE z == zeros(m)
             one == <<0>>
  <2>2. z \in Seq(Nat) /\ one \in Seq(Nat)
    BY <1>1, <2>0
  <2>3. zeros(m + 1) = one \o z
    BY <2>1
  <2> HIDE DEF z, one, S
  <2>4. zeros(m + 1) \o rest = one \o (z \o rest)
    <3>1. one \o z \o rest = one \o (z \o rest)
      BY <2>2, Regroup
    <3> QED
      BY <2>3, <3>1
  <2>5. z \o rest \in Seq(Nat)
    BY <2>2, ConcatProperties
  <2>6. ParsePath(z \o rest) = ParsePath(rest)
    BY <1>3 DEF S, z
  <2>7. ParsePath(one \o (z \o rest)) = ParsePath(z \o rest)
    BY <2>5, ParsePadding DEF one
  <2>8. ParsePath(zeros(m + 1) \o rest) = ParsePath(rest)
    BY <2>4, <2>6, <2>7
  <2> QED
    BY <2>8 DEF S
<1> HIDE DEF S
<1>4. n \in S
  BY <1>2, <1>3, Induction
<1> QED
  BY <1>4 DEF S, Zeros

\* The code a segment is sent with names its kind and its width.
LEMMA SegmentCode ==
    ASSUME NEW c \in {32, 36, 48}, NEW width \in {1, 2, 4}
    PROVE  LET code == c + (width \div 2) IN
           /\ code \in DOMAIN SegmentType /\ code \in Nat /\ c \in DOMAIN SegmentType
           /\ SegmentType[code] = SegmentType[c]
           /\ Width(code) = width
<1>1. c \in {32, 36, 48} /\ width \in {1, 2, 4}
  OBVIOUS
<1>2. 1 \div 2 = 0 /\ 2 \div 2 = 1 /\ 4 \div 2 = 2
  OBVIOUS
<1> DEFINE code == c + (width \div 2)
<1>3. \/ width = 1 /\ code \in {32, 36, 48} /\ code = c
      \/ width = 2 /\ code \in {33, 37, 49} /\ code = c + 1
      \/ width = 4 /\ code \in {34, 38, 50} /\ code = c + 2
  <2>1. CASE width = 1
    BY <1>1, <1>2, <2>1
  <2>2. CASE width = 2
    BY <1>1, <1>2, <2>2
  <2>3. CASE width = 4
    BY <1>1, <1>2, <2>3
  <2> QED
    BY <1>1, <2>1, <2>2, <2>3
<1> HIDE DEF code
<1>4. Width(code) = width
  <2>1. /\ 32 % 4 = 0 /\ 36 % 4 = 0 /\ 48 % 4 = 0 /\ 33 % 4 = 1 /\ 37 % 4 = 1 /\ 49 % 4 = 1
        /\ 34 % 4 = 2 /\ 38 % 4 = 2 /\ 50 % 4 = 2
    OBVIOUS
  <2>2. CASE width = 1
    BY <1>3, <2>1, <2>2 DEF Width
  <2>3. CASE width = 2
    BY <1>3, <2>1, <2>3 DEF Width
  <2>4. CASE width = 4
    BY <1>3, <2>1, <2>4 DEF Width
  <2> QED
    BY <1>1, <2>2, <2>3, <2>4
<1>5. code \in DOMAIN SegmentType /\ code \in Nat /\ c \in DOMAIN SegmentType
  BY <1>1, <1>3 DEF SegmentType
<1>6. SegmentType[code] = SegmentType[c]
  BY <1>1, <1>3 DEF SegmentType
<1> QED
  BY <1>4, <1>5, <1>6 DEF code

\* A packed segment: its code and its value behind some zero bytes.
SegmentCodes == {32, 36, 48}
ValueLengths == {1, 2, 4}
Packed(n, c, bytes) == Zeros(n) \o <<c + (Len(bytes) \div 2)>> \o bytes

\* Ahead of a path it counts unless the path has one of its kind.
LEMMA ParsePacked ==
    ASSUME NEW n \in Nat, NEW c \in SegmentCodes, NEW bytes \in Seq(Nat),
           Len(bytes) \in ValueLengths,
           NEW rest \in Seq(Nat)
    PROVE  /\ Packed(n, c, bytes) \in Seq(Nat)
           /\ ParsePath(Packed(n, c, bytes) \o rest) =
              Default(ParsePath(rest), SegmentType[c], LittleEndian(bytes))
<1> DEFINE code == c + (Len(bytes) \div 2)
           zeros == Zeros(n)
           value == <<code>> \o bytes
           all == Packed(n, c, bytes)
<1>1. /\ code \in DOMAIN SegmentType /\ code \in Nat
      /\ SegmentType[code] = SegmentType[c]
      /\ Width(code) = Len(bytes)
  BY SegmentCode, Zenon DEF SegmentCodes, ValueLengths
<1>2. zeros \in Seq(Nat)
  BY IsASeq DEF Zeros
<1> HIDE DEF code, zeros
<1>3. <<code>> \in Seq(Nat)
  BY <1>1
<1>4. value \in Seq(Nat) /\ value \o rest \in Seq(Nat)
  BY <1>3, ConcatProperties
<1>5. all = zeros \o value
  BY <1>2, <1>3, Regroup DEF Packed, code, zeros
<1> HIDE DEF value, all
<1>6. all \in Seq(Nat) /\ all \o rest = zeros \o (value \o rest)
  <2>1. zeros \o value \in Seq(Nat)
    BY <1>2, <1>4, ConcatProperties
  <2>2. zeros \o value \o rest = zeros \o (value \o rest)
    BY <1>2, <1>4, ConcatAssociative
  <2> QED
    BY <1>5, <2>1, <2>2
<1>7. ParsePath(zeros \o (value \o rest)) = ParsePath(value \o rest)
  BY <1>4, ParseZeros DEF zeros
<1>8. ParsePath(value \o rest) = Default(ParsePath(rest), SegmentType[code], LittleEndian(bytes))
  BY <1>1, ParseSegment DEF value
<1> QED
  BY <1>1, <1>6, <1>7, <1>8 DEF all

\* How segments are sent: packed, or packed with the value one byte on, behind a
\* zero, and its last byte left over.
LEMMA EncodedIs ==
    ASSUME NEW s \in Sendable
    PROVE  /\ s.bytes \in Seq(Nat) /\ Len(s.bytes) \in {1, 2, 4} /\ s.pad \in Nat
           /\ s.code \in {32, 36, 48}
           /\ ~s.padded => Encoded(s) = Packed(s.pad, s.code, s.bytes)
           /\ LET shifted == <<0>> \o Front(s.bytes) IN
              /\ shifted \in Seq(Nat) /\ Len(shifted) = Len(s.bytes) /\ shifted[1] = 0
              /\ \A i \in 2..Len(s.bytes) : shifted[i] = s.bytes[i - 1]
              /\ <<Last(s.bytes)>> \in Seq(Nat)
              /\ s.padded => Encoded(s) = Packed(s.pad, s.code, shifted) \o <<Last(s.bytes)>>
<1> DEFINE bytes == s.bytes
           L == Len(bytes)
           code == s.code + (L \div 2)
           zeros == Zeros(s.pad)
           front == Front(bytes)
           shifted == <<0>> \o front
           last == Last(bytes)
<1>1. bytes \in Seq(Nat) /\ L \in {1, 2, 4} /\ s.pad \in Nat /\ s.code \in {32, 36, 48}
  BY DEF Sendable
<1>2. code \in Nat
  BY <1>1, SegmentCode
<1>3. zeros \in Seq(Nat)
  BY <1>1, IsASeq DEF Zeros
<1>4. Zeros(0) = <<>> /\ Zeros(1) = <<0>> /\ <<0>> \in Seq(Nat) /\ Len(<<0>>) = 1 /\ <<0>>[1] = 0
  <2>1. Zeros(0) = <<>>
    <3>1. Zeros(0) \in Seq(Nat) /\ Len(Zeros(0)) = 0
      BY IsASeq DEF Zeros
    <3> QED
      BY <3>1, EmptySeq
  <2>2. Zeros(1) = <<0>>
    BY DEF Zeros
  <2> QED
    BY <2>1, <2>2
<1>5. last = bytes[L] /\ last \in Nat
  <2>1. L \in 1..L
    <3> HIDE DEF L
    <3> QED
      BY <1>1
  <2> QED
    BY <1>1, <2>1, ElementOfSeq DEF Last
<1>6. front \in Seq(Nat) /\ Len(front) = L - 1 /\ \A i \in 1..L - 1 : front[i] = bytes[i]
  <2>0. 1 \in Int /\ L - 1 \in Int /\ \A i \in 1..L - 1 : i \in 1..L
    BY <1>1
  <2>1. \A i \in 1..L - 1 : bytes[i] \in Nat
    BY <1>1, <2>0, ElementOfSeq
  <2>2. front = SubSeq(bytes, 1, L - 1)
    BY DEF Front
  <2> HIDE DEF bytes, L, front
  <2>3. /\ front \in Seq(Nat) /\ Len(front) = IF 1 <= L - 1 THEN L - 1 - 1 + 1 ELSE 0
        /\ \A i \in 1..L - 1 - 1 + 1 : front[i] = bytes[1 + i - 1]
    BY <2>0, <2>1, <2>2, SubSeqProperties
  <2>4. L - 1 - 1 + 1 = L - 1 /\ \A i \in 1..L - 1 : 1 + i - 1 = i
    BY <1>1
  <2> QED
    BY <1>1, <2>3, <2>4
<1>7. bytes = front \o <<last>> /\ <<last>> \in Seq(Nat)
  <2> HIDE DEF bytes, L, front, last
  <2>1. <<last>> \in Seq(Nat) /\ Len(<<last>>) = 1 /\ <<last>>[1] = last
    BY <1>5
  <2> DEFINE e == <<last>>
             r == front \o e
  <2> HIDE DEF e
  <2>2. r \in Seq(Nat) /\ Len(r) = Len(front) + Len(e)
    BY <1>6, <2>1, ConcatProperties DEF e
  <2>3. \A i \in 1..Len(front) + Len(e) : r[i] = IF i <= Len(front) THEN front[i] ELSE e[i - Len(front)]
    BY <1>6, <2>1, ConcatProperties DEF e
  <2>4. Len(r) = L /\ Len(front) + Len(e) = L
    BY <1>1, <1>6, <2>1, <2>2 DEF e
  <2> HIDE DEF r
  <2>5. ASSUME NEW i \in 1..L PROVE r[i] = bytes[i]
    <3>1. \/ i \in 1..L - 1 /\ i <= L - 1 /\ i \in 1..L
          \/ i = L /\ ~(i <= L - 1) /\ i - (L - 1) = 1 /\ i \in 1..L
      BY <1>1
    <3>2. r[i] = IF i <= L - 1 THEN front[i] ELSE e[i - (L - 1)]
      BY <1>6, <2>3, <2>4
    <3>3. CASE i \in 1..L - 1 /\ i <= L - 1
      BY <1>6, <3>2, <3>3
    <3>4. CASE i = L /\ ~(i <= L - 1) /\ i - (L - 1) = 1
      BY <1>5, <2>1, <3>2, <3>4 DEF e
    <3> QED
      BY <3>1, <3>3, <3>4
  <2>6. Len(bytes) = L
    BY DEF L
  <2> QED
    BY <1>1, <2>1, <2>2, <2>4, <2>5, <2>6, SeqEqual DEF r, e
<1>8. /\ shifted \in Seq(Nat) /\ Len(shifted) = L /\ shifted[1] = 0
      /\ \A i \in 2..L : shifted[i] = bytes[i - 1]
  <2> DEFINE one == <<0>>
  <2>1. one \in Seq(Nat) /\ Len(one) = 1 /\ one[1] = 0
    BY <1>4
  <2>2. shifted = one \o front
    OBVIOUS
  <2> HIDE DEF bytes, L, front, one, shifted
  <2>3. /\ shifted \in Seq(Nat) /\ Len(shifted) = Len(one) + Len(front)
        /\ \A i \in 1..Len(one) + Len(front) :
              shifted[i] = IF i <= Len(one) THEN one[i] ELSE front[i - Len(one)]
    BY <1>6, <2>1, <2>2, ConcatProperties
  <2>4. Len(one) + Len(front) = L
    BY <1>1, <1>6, <2>1
  <2>5. \A i \in 2..L : ~(i <= 1) /\ i - 1 \in 1..L - 1 /\ i \in 1..L
    BY <1>1
  <2>6. 1 \in 1..L /\ 1 <= 1
    BY <1>1
  <2>7. \A i \in 1..L : shifted[i] = IF i <= 1 THEN one[i] ELSE front[i - 1]
    BY <2>1, <2>3, <2>4
  <2>8. shifted[1] = 0
    BY <2>1, <2>6, <2>7
  <2>9. \A i \in 2..L : shifted[i] = bytes[i - 1]
    BY <1>6, <2>5, <2>7
  <2> QED
    BY <2>3, <2>4, <2>8, <2>9
<1>9. Encoded(s) = zeros \o <<code>> \o Zeros(IF s.padded THEN 1 ELSE 0) \o bytes
  BY DEF Encoded
<1> HIDE DEF zeros, code, front, last
<1> DEFINE one == <<code>>
<1>10. one \in Seq(Nat)
  BY <1>2
<1> HIDE DEF one
<1>11. zeros \o one \in Seq(Nat)
  BY <1>3, <1>10, ConcatProperties
<1>12. ASSUME ~s.padded PROVE Encoded(s) = Packed(s.pad, s.code, bytes)
  <2>1. zeros \o one \o <<>> = zeros \o one
    BY <1>11, ConcatEmptySeq
  <2> QED
    BY <1>4, <1>9, <1>12, <2>1 DEF one, Packed, code, zeros
<1>13. ASSUME s.padded PROVE Encoded(s) = Packed(s.pad, s.code, shifted) \o <<last>>
  <2> DEFINE z == <<0>>
             e == <<last>>
             head == zeros \o one
  <2>1. z \in Seq(Nat) /\ e \in Seq(Nat)
    BY <1>4, <1>7
  <2>2. Encoded(s) = head \o z \o (front \o e)
    BY <1>4, <1>7, <1>9, <1>13 DEF one
  <2>3. Packed(s.pad, s.code, shifted) = head \o (z \o front)
    BY <1>8 DEF Packed, code, zeros, one
  <2> HIDE DEF z, e, head, shifted
  <2>4. z \o front \in Seq(Nat) /\ head \o z \in Seq(Nat) /\ head \in Seq(Nat)
    BY <1>6, <1>11, <2>1, ConcatProperties DEF head
  <2>5. head \o z \o (front \o e) = head \o z \o front \o e
    <3> DEFINE u == head \o z
    <3>1. u \in Seq(Nat) /\ front \in Seq(Nat) /\ e \in Seq(Nat)
      BY <1>6, <2>1, <2>4
    <3> HIDE DEF u
    <3>2. u \o front \o e = u \o (front \o e)
      BY <3>1, Regroup
    <3> QED
      BY <3>2 DEF u
  <2>6. head \o z \o front = head \o (z \o front)
    BY <1>6, <2>1, <2>4, Regroup, Zenon
  <2> QED
    BY <2>2, <2>3, <2>5, <2>6 DEF e
<1> QED
  BY <1>1, <1>7, <1>8, <1>12, <1>13 DEF front, last

\* CIP's padded format is misread (_read_path_value): whatever its value and whatever
\* follows, the pad byte is taken for the value's first byte and the last byte for
\* the beginning of what follows; when that is zero, which is skipped, the value read
\* is 256 times the one sent.
THEOREM PaddedIsMisread ==
    ASSUME NEW s \in Sendable, s.padded, Len(s.bytes) # 1, NEW rest \in Seq(Nat)
    PROVE  /\ ParsePath(Encoded(s) \o rest) =
              Default(ParsePath(<<Last(s.bytes)>> \o rest), SegmentType[s.code],
                      LittleEndian(<<0>> \o Front(s.bytes)))
           /\ Last(s.bytes) = 0 =>
              ParsePath(Encoded(s) \o rest) =
              Default(ParsePath(rest), SegmentType[s.code], 256 * LittleEndian(s.bytes))
<1> DEFINE bytes == s.bytes
           shifted == <<0>> \o Front(bytes)
           packed == Packed(s.pad, s.code, shifted)
           last == <<Last(bytes)>>
<1>1. /\ bytes \in Seq(Nat) /\ Len(bytes) \in {2, 4} /\ s.pad \in Nat /\ s.code \in {32, 36, 48}
      /\ shifted \in Seq(Nat) /\ Len(shifted) = Len(bytes) /\ shifted[1] = 0
      /\ \A i \in 2..Len(bytes) : shifted[i] = bytes[i - 1]
      /\ last \in Seq(Nat)
      /\ Encoded(s) = packed \o last
  BY EncodedIs
<1>0. Len(shifted) \in {1, 2, 4}
  BY <1>1
<1> HIDE DEF last, shifted, packed
<1>2. ParsePath(Encoded(s) \o rest) =
      Default(ParsePath(last \o rest), SegmentType[s.code], LittleEndian(shifted))
  <2>1. last \o rest \in Seq(Nat)
    BY <1>1, ConcatProperties
  <2>2. packed \in Seq(Nat)
    <3>1. s.pad \in Nat /\ s.code \in SegmentCodes /\ Len(shifted) \in ValueLengths
      BY <1>0, <1>1 DEF SegmentCodes, ValueLengths
    <3> QED
      BY <1>1, <2>1, <3>1, ParsePacked, Zenon DEF packed
  <2>3. packed \o last \o rest = packed \o (last \o rest)
    <3>1. last \in Seq(Nat)
      BY <1>1
    <3> QED
      BY <2>2, <3>1, Regroup
  <2>4. ParsePath(packed \o (last \o rest)) =
        Default(ParsePath(last \o rest), SegmentType[s.code], LittleEndian(shifted))
    <3> DEFINE more == last \o rest
    <3>1. /\ more \in Seq(Nat) /\ s.pad \in Nat /\ s.code \in SegmentCodes
          /\ shifted \in Seq(Nat) /\ Len(shifted) \in ValueLengths
      BY <1>0, <1>1, <2>1 DEF SegmentCodes, ValueLengths
    <3> HIDE DEF more
    <3>2. ParsePath(packed \o more) =
          Default(ParsePath(more), SegmentType[s.code], LittleEndian(shifted))
      BY <3>1, ParsePacked, Zenon DEF packed
    <3> QED
      BY <3>2 DEF more
  <2> QED
    BY <1>1, <2>3, <2>4
<1>3. ASSUME Last(bytes) = 0
      PROVE  LittleEndian(shifted) = 256 * LittleEndian(bytes)
  <2>1. CASE Len(bytes) = 2
    <3> DEFINE a == bytes[1]
    <3>0. bytes[2] = 0
      BY <1>3, <2>1 DEF Last
    <3>1. a \in Nat /\ bytes[2] = 0 /\ bytes = <<a, bytes[2]>>
      BY <1>1, <2>1, <3>0, BytesAreTuples
    <3>2. shifted[2] = a
      BY <1>1, <2>1
    <3>3. bytes = <<a, 0>>
      BY <3>1
    <3>4. shifted = <<0, a>>
      BY <1>1, <2>1, <3>2, BytesAreTuples
    <3> HIDE DEF a, bytes
    <3>5. a \in Nat /\ 0 \in Nat
      BY <3>1
    <3>6. LittleEndian(<<0, a>>) = 0 + 256 * a /\ LittleEndian(<<a, 0>>) = a + 256 * 0
      BY <3>5, ValuesHaveEveryWidth, Zenon
    <3> QED
      BY <3>3, <3>4, <3>5, <3>6
  <2>2. CASE Len(bytes) = 4
    <3> DEFINE a == bytes[1]
               b == bytes[2]
               c == bytes[3]
    <3>0. bytes[4] = 0
      BY <1>3, <2>2 DEF Last
    <3>1. /\ a \in Nat /\ b \in Nat /\ c \in Nat /\ bytes[4] = 0
          /\ bytes = <<a, b, c, bytes[4]>>
      BY <1>1, <2>2, <3>0, BytesAreTuples
    <3>2. shifted[2] = a /\ shifted[3] = b /\ shifted[4] = c
      BY <1>1, <2>2
    <3>3. bytes = <<a, b, c, 0>>
      BY <3>1
    <3>4. shifted = <<0, a, b, c>>
      BY <1>1, <2>2, <3>2, BytesAreTuples
    <3> HIDE DEF a, b, c, bytes
    <3>5. /\ LittleEndian(<<0, a, b, c>>) = 0 + 256 * (a + 256 * (b + 256 * c))
          /\ LittleEndian(<<a, b, c, 0>>) = a + 256 * (b + 256 * (c + 256 * 0))
      BY <3>1, 0 \in Nat, FourBytes
    <3> QED
      BY <3>1, <3>3, <3>4, <3>5
  <2> QED
    BY <1>1, <2>1, <2>2
<1>4. ASSUME Last(bytes) = 0 PROVE ParsePath(last \o rest) = ParsePath(rest)
  BY <1>4, ParsePadding DEF last
<1> QED
  BY <1>2, <1>3, <1>4 DEF last, shifted

\* A segment ahead of a path counts, with the value the server reads, unless the path
\* has one of its kind; one that runs over into the path is an error.
LEMMA ParseEncoded ==
    ASSUME NEW s \in Segments, NEW rest \in Seq(Nat)
    PROVE  /\ Encoded(s) \in Seq(Nat)
           /\ ~Overruns(s) => ParsePath(Encoded(s) \o rest) =
                              Default(ParsePath(rest), SegmentType[s.code], ValueRead(s))
           /\ Overruns(s) => "error" \in DOMAIN ParsePath(Encoded(s) \o rest)
<1> DEFINE bytes == s.bytes
           shifted == <<0>> \o Front(bytes)
           last == Last(bytes)
<1>1. /\ s \in Sendable /\ s.padded \in BOOLEAN
      /\ s.padded => Len(bytes) # 1 /\ last \notin DOMAIN SegmentType
  BY DEF Segments, Sendable
<1>2. /\ bytes \in Seq(Nat) /\ Len(bytes) \in {1, 2, 4} /\ s.pad \in Nat /\ s.code \in {32, 36, 48}
      /\ shifted \in Seq(Nat) /\ Len(shifted) = Len(bytes) /\ <<last>> \in Seq(Nat)
      /\ ~s.padded => Encoded(s) = Packed(s.pad, s.code, bytes)
      /\ s.padded => Encoded(s) = Packed(s.pad, s.code, shifted) \o <<last>>
  BY <1>1, EncodedIs
<1> HIDE DEF shifted, bytes, last
<1>3. CASE ~s.padded
  <2>1. /\ Encoded(s) \in Seq(Nat)
        /\ ParsePath(Encoded(s) \o rest) =
           Default(ParsePath(rest), SegmentType[s.code], LittleEndian(bytes))
    <3> DEFINE packed == Packed(s.pad, s.code, bytes)
    <3>1. /\ s.pad \in Nat /\ s.code \in SegmentCodes
          /\ bytes \in Seq(Nat) /\ Len(bytes) \in ValueLengths
      BY <1>2 DEF SegmentCodes, ValueLengths
    <3>2. /\ packed \in Seq(Nat)
          /\ ParsePath(packed \o rest) =
             Default(ParsePath(rest), SegmentType[s.code], LittleEndian(bytes))
      BY <3>1, ParsePacked, Zenon
    <3>3. Encoded(s) = packed
      BY <1>2, <1>3
    <3> HIDE DEF packed
    <3> QED
      BY <3>2, <3>3
  <2>2. LittleEndian(bytes) \in Nat
    BY <1>2, LittleEndianType
  <2>3. ~Overruns(s) /\ ValueRead(s) = LittleEndian(bytes)
    BY <1>3, <2>2 DEF Overruns, ValueRead, bytes
  <2> QED
    BY <2>1, <2>3
<1>4. CASE s.padded
  <2>1. Encoded(s) \in Seq(Nat)
    <3> DEFINE packed == Packed(s.pad, s.code, shifted)
               e == <<last>>
    <3>0. /\ s.pad \in Nat /\ s.code \in SegmentCodes
          /\ shifted \in Seq(Nat) /\ Len(shifted) \in ValueLengths
      BY <1>2 DEF SegmentCodes, ValueLengths
    <3>1. packed \in Seq(Nat)
      BY <3>0, rest \in Seq(Nat), ParsePacked, Zenon
    <3>2. e \in Seq(Nat) /\ Encoded(s) = packed \o e
      BY <1>2, <1>4
    <3> HIDE DEF packed, e
    <3> QED
      BY <3>1, <3>2, ConcatProperties
  <2>2. ASSUME ~Overruns(s)
        PROVE  ParsePath(Encoded(s) \o rest) =
               Default(ParsePath(rest), SegmentType[s.code], ValueRead(s))
    <3>1. Last(s.bytes) = 0 /\ ValueRead(s) = 256 * LittleEndian(s.bytes)
      BY <1>4, <2>2 DEF Overruns, ValueRead
    <3> QED
      BY <1>1, <1>4, <3>1, PaddedIsMisread DEF bytes
  <2>3. ASSUME Overruns(s) PROVE "error" \in DOMAIN ParsePath(Encoded(s) \o rest)
    <3>1. last # 0 /\ last \notin DOMAIN SegmentType
      BY <1>1, <1>4, <2>3 DEF Overruns, last, bytes
    <3>2. ParsePath(<<last>> \o rest) = [error |-> last]
      <4>1. last \in Nat
        BY <1>1, <1>2, EncodedIs, ElementOfSeq DEF last, Last
      <4> QED
        BY <3>1, <4>1, ParseUnknown
    <3>3. ParsePath(Encoded(s) \o rest) =
          Default(ParsePath(<<last>> \o rest), SegmentType[s.code], LittleEndian(shifted))
      BY <1>1, <1>4, PaddedIsMisread DEF last, bytes, shifted
    <3> QED
      BY <3>2, <3>3 DEF Default
  <2> QED
    BY <2>1, <2>2, <2>3
<1> QED
  BY <1>1, <1>3, <1>4

\* Cutting fewer bytes than the second part has cuts them there.
LEMMA CutBehind ==
    ASSUME NEW s \in Seq(Nat), NEW t \in Seq(Nat), NEW n \in 0..Len(t)
    PROVE  /\ s \o t \in Seq(Nat) /\ n \in 0..Len(s \o t)
           /\ SubSeq(s \o t, 1, Len(s \o t) - n) = s \o SubSeq(t, 1, Len(t) - n)
<1> DEFINE st == s \o t
           S == Len(s)
           T == Len(t)
           m == T - n
           kept == SubSeq(t, 1, m)
           l == SubSeq(st, 1, S + m)
           r == s \o kept
<1>1. S \in Nat /\ T \in Nat /\ m \in 0..T /\ n \in 0..T
  OBVIOUS
<1>2. st \in Seq(Nat) /\ Len(st) = S + T
  BY ConcatProperties
<1>3. \A i \in 1..S + T : st[i] = IF i <= S THEN s[i] ELSE t[i - S]
  BY ConcatProperties
<1> HIDE DEF st, S, T, m
<1>4. Len(st) - n = S + m
  BY <1>1, <1>2 DEF m
<1>5. \A i \in 1..m : i \in 1..T
  BY <1>1
<1>6. \A i \in 1..m : t[i] \in Nat
  BY <1>5, ElementOfSeq DEF T
<1>7. kept \in Seq(Nat) /\ Len(kept) = IF 1 <= m THEN m - 1 + 1 ELSE 0
  BY <1>1, <1>6, SubSeqProperties
<1>8. \A i \in 1..m - 1 + 1 : kept[i] = t[1 + i - 1]
  BY <1>1, <1>6, SubSeqProperties
<1>9. \A i \in 1..S + m : i \in 1..S + T
  BY <1>1
<1>10. \A i \in 1..S + m : st[i] \in Nat
  <2> SUFFICES ASSUME NEW i \in 1..S + m PROVE st[i] \in Nat
    OBVIOUS
  <2>1. i \in 1..Len(st)
    BY <1>2, <1>9
  <2> QED
    BY <1>2, <2>1, ElementOfSeq
<1> DEFINE u == S + m
<1>11. u \in Int /\ 1 \in Int /\ \A i \in 1..u : st[i] \in Nat
  BY <1>1, <1>10
<1>12. l = SubSeq(st, 1, u)
  OBVIOUS
<1> HIDE DEF u, l
<1>13. /\ l \in Seq(Nat) /\ Len(l) = IF 1 <= u THEN u - 1 + 1 ELSE 0
       /\ \A i \in 1..u - 1 + 1 : l[i] = st[1 + i - 1]
  BY <1>11, <1>12, SubSeqProperties
<1> HIDE DEF kept
<1>14. Len(kept) = m /\ Len(l) = S + m
  BY <1>1, <1>7, <1>13 DEF u
<1>15. r \in Seq(Nat) /\ Len(r) = S + m
  BY <1>7, <1>14, ConcatProperties DEF S
<1>16. \A i \in 1..S + m : r[i] = IF i <= S THEN s[i] ELSE kept[i - S]
  BY <1>7, <1>14, ConcatProperties DEF S
<1> HIDE DEF r
<1>17. ASSUME NEW i \in 1..S + m PROVE l[i] = r[i]
  <2>1. i \in 1..u - 1 + 1 /\ 1 + i - 1 = i /\ i \in Nat
    BY <1>1 DEF u
  <2>2. l[i] = st[i] /\ i \in 1..S + T
    BY <1>9, <1>13, <2>1
  <2>3. CASE i <= S
    BY <1>3, <1>16, <2>2, <2>3
  <2>4. CASE i > S
    <3>1. ~(i <= S) /\ i - S \in 1..m - 1 + 1 /\ 1 + (i - S) - 1 = i - S
      BY <1>1, <2>1, <2>4
    <3>2. kept[i - S] = t[i - S]
      BY <1>8, <3>1
    <3> QED
      BY <1>3, <1>16, <2>2, <3>1, <3>2
  <2> QED
    BY <1>1, <2>1, <2>3, <2>4
<1>18. l = r
  BY <1>13, <1>14, <1>15, <1>17, SeqEqual
<1>19. n \in 0..Len(st)
  BY <1>1, <1>2
<1> QED
  BY <1>2, <1>4, <1>18, <1>19 DEF l, r, kept, m, st, T

\* The bytes the first n segments are sent as.
SentAs(segs, n) == FlattenSeq([i \in 1..n |-> Encoded(segs[i])])

\* They grow by one segment at a time.
LEMMA SentOneMore ==
    ASSUME NEW segs \in Seq(Segments), NEW n \in 0..Len(segs)
    PROVE  /\ SentAs(segs, 0) = <<>>
           /\ SentAs(segs, n) \in Seq(Nat)
           /\ n < Len(segs) => SentAs(segs, n + 1) = SentAs(segs, n) \o Encoded(segs[n + 1])
<1> DEFINE es(m) == [i \in 1..m |-> Encoded(segs[i])]
<1>1. \A i \in 1..Len(segs) : Encoded(segs[i]) \in Seq(Nat)
  <2> SUFFICES ASSUME NEW i \in 1..Len(segs) PROVE Encoded(segs[i]) \in Seq(Nat)
    OBVIOUS
  <2>1. segs[i] \in Segments /\ <<>> \in Seq(Nat)
    BY ElementOfSeq, EmptySeq
  <2> QED
    BY <2>1, ParseEncoded
<1>2. ASSUME NEW m \in 0..Len(segs)
      PROVE  es(m) \in Seq(Seq(Nat)) /\ Len(es(m)) = m
  <2>1. m \in Nat /\ \A i \in 1..m : Encoded(segs[i]) \in Seq(Nat)
    BY <1>1
  <2>2. es(m) \in Seq(Seq(Nat))
    BY <2>1, IsASeq
  <2> QED
    BY <2>1, <2>2
<1>3. SentAs(segs, 0) = <<>>
  <2>1. es(0) = <<>>
    BY <1>2, EmptySeq
  <2> QED
    BY <2>1, FlattenEmpty DEF SentAs
<1>4. SentAs(segs, n) = FlattenSeq(es(n)) /\ SentAs(segs, n + 1) = FlattenSeq(es(n + 1))
  BY DEF SentAs
<1>5. ASSUME n < Len(segs) PROVE es(n + 1) = Append(es(n), Encoded(segs[n + 1]))
  <2> DEFINE e == Encoded(segs[n + 1])
             less == es(n)
             more == es(n + 1)
  <2>1. n + 1 \in 0..Len(segs) /\ n + 1 \in 1..Len(segs) /\ n \in Nat
    BY <1>5
  <2>2. e \in Seq(Nat) /\ less \in Seq(Seq(Nat)) /\ Len(less) = n
    BY <1>1, <1>2, <2>1
  <2>3. more \in Seq(Seq(Nat)) /\ Len(more) = n + 1
    BY <1>2, <2>1
  <2>4. \A i \in 1..n + 1 : more[i] = Encoded(segs[i])
    OBVIOUS
  <2>5. \A i \in 1..n : less[i] = Encoded(segs[i])
    OBVIOUS
  <2> HIDE DEF less, more
  <2>6. /\ Append(less, e) \in Seq(Seq(Nat)) /\ Len(Append(less, e)) = n + 1
        /\ \A i \in 1..n : Append(less, e)[i] = less[i]
        /\ Append(less, e)[n + 1] = e
    <3> HIDE DEF e
    <3> QED
      BY <2>2, AppendProperties
  <2>7. ASSUME NEW i \in 1..n + 1 PROVE Append(less, e)[i] = more[i]
    <3>1. i \in 1..n \/ i = n + 1
      BY <2>1
    <3> QED
      BY <2>4, <2>5, <2>6, <3>1
  <2>8. more = Append(less, e)
    <3> HIDE DEF e
    <3> QED
      BY <2>3, <2>6, <2>7, SeqEqual
  <2> QED
    BY <2>8 DEF less, more
<1>6. es(n) \in Seq(Seq(Nat))
  BY <1>2
<1> HIDE DEF es
<1>7. SentAs(segs, n) \in Seq(Nat)
  BY <1>4, <1>6, EmptySeq, FlattenAppend
<1>8. ASSUME n < Len(segs) PROVE SentAs(segs, n + 1) = SentAs(segs, n) \o Encoded(segs[n + 1])
  <2>1. n + 1 \in 1..Len(segs)
    BY <1>8
  <2>2. Encoded(segs[n + 1]) \in Seq(Nat)
    BY <1>1, <2>1
  <2> QED
    BY <1>4, <1>5, <1>6, <1>8, <2>2, FlattenAppend
<1> QED
  BY <1>3, <1>7, <1>8

\* In front of a path, the first n segments add their kinds, do not touch what the
\* path says, and each counts unless the path or a later one of them has its kind.
Counted(segs, n, rest) ==
    LET p == ParsePath(SentAs(segs, n) \o rest)
        r == ParsePath(rest)
    IN  /\ DOMAIN p = DOMAIN r \cup {SegmentType[segs[i].code] : i \in 1..n}
        /\ \A k \in DOMAIN r : p[k] = r[k]
        /\ \A i \in 1..n :
              \/ SegmentType[segs[i].code] \in DOMAIN r
              \/ \E j \in i + 1..n : segs[j].code = segs[i].code
              \/ p[SegmentType[segs[i].code]] = ValueRead(segs[i])

\* Kinds of segment have one code each, widths apart.
LEMMA CodeOfType ==
    ASSUME NEW c \in {32, 36, 48}, NEW d \in {32, 36, 48}, SegmentType[c] = SegmentType[d]
    PROVE  c = d
BY DEF SegmentType

\* By induction on the number of segments.
LEMMA SegmentsCount ==
    ASSUME NEW segs \in Seq(Segments), NEW n \in 0..Len(segs), NEW rest \in Seq(Nat),
           \A i \in 1..n : ~Overruns(segs[i])
    PROVE  Counted(segs, n, rest)
<1> DEFINE S == {m \in Nat : m <= n => \A t \in Seq(Nat) : Counted(segs, m, t)}
<1>1. 0 \in S
  <2> SUFFICES ASSUME NEW t \in Seq(Nat) PROVE Counted(segs, 0, t)
    OBVIOUS
  <2>1. SentAs(segs, 0) \o t = t
    BY SentOneMore, ConcatEmptySeq
  <2>2. 1..0 = {}
    OBVIOUS
  <2> QED
    BY <2>1, <2>2 DEF Counted
<1>2. ASSUME NEW m \in Nat, m \in S PROVE m + 1 \in S
  <2> SUFFICES ASSUME m + 1 <= n, NEW t \in Seq(Nat) PROVE Counted(segs, m + 1, t)
    OBVIOUS
  <2> DEFINE s == segs[m + 1]
             more == Encoded(s) \o t
             type(i) == SegmentType[segs[i].code]
             p == ParsePath(SentAs(segs, m + 1) \o t)
             q == ParsePath(more)
             r == ParsePath(t)
  <2>1. m \in 0..Len(segs) /\ m + 1 \in 1..Len(segs) /\ m < Len(segs) /\ m <= n /\ m + 1 \in 1..n
    OBVIOUS
  <2>2. \A i \in 1..Len(segs) : segs[i] \in Segments
    BY ElementOfSeq
  <2>3. s \in Segments
    BY <2>1, <2>2
  <2>4. Encoded(s) \in Seq(Nat) /\ q = Default(r, SegmentType[s.code], ValueRead(s))
    <3>1. ~Overruns(s)
      BY <2>1
    <3> QED
      BY <2>3, <3>1, ParseEncoded
  <2>5. more \in Seq(Nat)
    BY <2>4, ConcatProperties
  <2>6. SentAs(segs, m + 1) \o t = SentAs(segs, m) \o more
    <3>1. /\ SentAs(segs, m) \in Seq(Nat)
          /\ SentAs(segs, m + 1) = SentAs(segs, m) \o Encoded(s)
      BY <2>1, SentOneMore
    <3> DEFINE a == SentAs(segs, m)
               e == Encoded(s)
    <3>2. a \in Seq(Nat) /\ e \in Seq(Nat) /\ SentAs(segs, m + 1) = a \o e
      BY <2>4, <3>1
    <3> HIDE DEF a, e
    <3>3. a \o e \o t = a \o (e \o t)
      BY <3>2, Regroup
    <3> QED
      BY <3>2, <3>3 DEF a, e
  <2>7. Counted(segs, m, more)
    BY <1>2, <2>1, <2>5
  <2> HIDE DEF more
  <2>8. /\ DOMAIN p = DOMAIN q \cup {type(i) : i \in 1..m}
        /\ \A k \in DOMAIN q : p[k] = q[k]
        /\ \A i \in 1..m :
              \/ type(i) \in DOMAIN q
              \/ \E j \in i + 1..m : segs[j].code = segs[i].code
              \/ p[type(i)] = ValueRead(segs[i])
    BY <2>6, <2>7 DEF Counted
  <2>9. /\ DOMAIN q = DOMAIN r \cup {type(m + 1)}
        /\ \A k \in DOMAIN r : q[k] = r[k]
        /\ type(m + 1) \in DOMAIN r \/ q[type(m + 1)] = ValueRead(segs[m + 1])
    <3> DEFINE kind == type(m + 1)
               v == ValueRead(segs[m + 1])
    <3>1. q = Default(r, kind, v)
      BY <2>4
    <3> HIDE DEF q, r, kind, v
    <3>2. /\ DOMAIN q = DOMAIN r \cup {kind}
          /\ \A k \in DOMAIN r \cup {kind} : q[k] = IF k \in DOMAIN r THEN r[k] ELSE v
      BY <3>1 DEF Default
    <3>3. /\ DOMAIN q = DOMAIN r \cup {kind}
          /\ \A k \in DOMAIN r : q[k] = r[k]
          /\ kind \in DOMAIN r \/ q[kind] = v
      BY <3>2
    <3> QED
      BY <3>3 DEF kind, v
  <2>10. \A i \in 1..m + 1 : segs[i].code \in {32, 36, 48}
    <3>1. \A i \in 1..m + 1 : i \in 1..Len(segs)
      BY <2>1
    <3> QED
      BY <2>2, <3>1 DEF Segments, Sendable
  <2>11. \A i \in 1..m + 1 : i \in 1..m \/ i = m + 1
    OBVIOUS
  <2>12. \A i \in 1..m : m + 1 \in i + 1..m + 1 /\ i \in 1..m + 1 /\ i + 1..m \subseteq i + 1..m + 1
    OBVIOUS
  <2>13. m + 1 \in 1..m + 1
    OBVIOUS
  <2> HIDE DEF p, q, r
  <2>14. DOMAIN p = DOMAIN r \cup {type(i) : i \in 1..m + 1}
    <3>1. {type(i) : i \in 1..m + 1} = {type(i) : i \in 1..m} \cup {type(m + 1)}
      <4> HIDE DEF type
      <4> QED
        BY <2>11, <2>12, <2>13
    <3> HIDE DEF type
    <3> QED
      BY <2>8, <2>9, <3>1
  <2>15. \A k \in DOMAIN r : p[k] = r[k]
    BY <2>8, <2>9
  <2>16. ASSUME NEW i \in 1..m + 1
         PROVE  \/ type(i) \in DOMAIN r
                \/ \E j \in i + 1..m + 1 : segs[j].code = segs[i].code
                \/ p[type(i)] = ValueRead(segs[i])
    <3>1. CASE i = m + 1
      <4>1. type(m + 1) \in DOMAIN q
        BY <2>9
      <4> QED
        BY <2>8, <2>9, <3>1, <4>1
    <3>2. CASE i \in 1..m /\ type(i) \in DOMAIN q
      <4>1. CASE type(i) \in DOMAIN r
        BY <4>1
      <4>2. CASE type(i) = type(m + 1)
        <5>1. segs[i].code = segs[m + 1].code
          BY <2>10, <2>13, <4>2, CodeOfType
        <5> QED
          BY <2>12, <3>2, <5>1
      <4> QED
        <5> HIDE DEF type
        <5> QED
          BY <2>9, <3>2, <4>1, <4>2
    <3>3. CASE i \in 1..m /\ type(i) \notin DOMAIN q
      BY <2>8, <2>12, <3>3
    <3> QED
      BY <2>11, <3>1, <3>2, <3>3
  <2> QED
    BY <2>14, <2>15, <2>16 DEF Counted, p, r
<1> HIDE DEF S
<1>3. n \in S
  <2>1. n \in Nat
    OBVIOUS
  <2> QED
    BY <1>1, <1>2, <2>1, Induction
<1>4. n <= n
  OBVIOUS
<1> QED
  BY <1>3, <1>4 DEF S

\* An error in a path is one in a longer path, and so is a segment that overruns.
LEMMA ErrorsStay ==
    ASSUME NEW segs \in Seq(Segments), NEW n \in 0..Len(segs), NEW rest \in Seq(Nat),
           "error" \in DOMAIN ParsePath(rest) \/ \E i \in 1..n : Overruns(segs[i])
    PROVE  "error" \in DOMAIN ParsePath(SentAs(segs, n) \o rest)
<1> DEFINE Wrong(m, t) == "error" \in DOMAIN ParsePath(t) \/ \E i \in 1..m : Overruns(segs[i])
           S == {m \in Nat : m <= n => \A t \in Seq(Nat) :
                    Wrong(m, t) => "error" \in DOMAIN ParsePath(SentAs(segs, m) \o t)}
<1>1. 0 \in S
  <2> SUFFICES ASSUME NEW t \in Seq(Nat), Wrong(0, t)
               PROVE  "error" \in DOMAIN ParsePath(SentAs(segs, 0) \o t)
    OBVIOUS
  <2>1. SentAs(segs, 0) \o t = t
    BY SentOneMore, ConcatEmptySeq
  <2>2. 1..0 = {}
    OBVIOUS
  <2> QED
    BY <2>1, <2>2
<1>2. ASSUME NEW m \in Nat, m \in S PROVE m + 1 \in S
  <2> SUFFICES ASSUME m + 1 <= n, NEW t \in Seq(Nat), Wrong(m + 1, t)
               PROVE  "error" \in DOMAIN ParsePath(SentAs(segs, m + 1) \o t)
    OBVIOUS
  <2> DEFINE s == segs[m + 1]
             more == Encoded(s) \o t
  <2>1. m \in 0..Len(segs) /\ m + 1 \in 1..Len(segs) /\ m < Len(segs) /\ m <= n
    OBVIOUS
  <2>2. s \in Segments
    BY <2>1, ElementOfSeq
  <2>3. /\ Encoded(s) \in Seq(Nat)
        /\ ~Overruns(s) => ParsePath(more) = Default(ParsePath(t), SegmentType[s.code], ValueRead(s))
        /\ Overruns(s) => "error" \in DOMAIN ParsePath(more)
    BY <2>2, ParseEncoded
  <2>4. SentAs(segs, m + 1) \o t = SentAs(segs, m) \o more
    <3> DEFINE a == SentAs(segs, m)
               e == Encoded(s)
    <3>1. a \in Seq(Nat) /\ e \in Seq(Nat) /\ SentAs(segs, m + 1) = a \o e
      BY <2>1, <2>3, SentOneMore
    <3> HIDE DEF a, e
    <3>2. a \o e \o t = a \o (e \o t)
      BY <3>1, Regroup
    <3> QED
      BY <3>1, <3>2 DEF a, e
  <2>5. more \in Seq(Nat)
    BY <2>3, ConcatProperties
  <2> HIDE DEF more
  <2>6. Wrong(m, more)
    <3>1. CASE Overruns(s)
      BY <2>3, <3>1
    <3>2. CASE ~Overruns(s) /\ "error" \in DOMAIN ParsePath(t)
      BY <2>3, <3>2 DEF Default
    <3>3. CASE ~Overruns(s) /\ \E i \in 1..m + 1 : Overruns(segs[i])
      <4>1. PICK i \in 1..m + 1 : Overruns(segs[i])
        BY <3>3
      <4>2. i \in 1..m
        BY <3>3, <4>1
      <4> QED
        BY <4>1, <4>2
    <3> QED
      BY <3>1, <3>2, <3>3
  <2> HIDE DEF Wrong
  <2>7. "error" \in DOMAIN ParsePath(SentAs(segs, m) \o more)
    BY <1>2, <2>1, <2>5, <2>6
  <2> QED
    BY <2>4, <2>7
<1>3. n \in Nat /\ n <= n /\ Wrong(n, rest)
  OBVIOUS
<1> HIDE DEF S, Wrong
<1>4. n \in S
  BY <1>1, <1>2, <1>3, Induction
<1> QED
  BY <1>3, <1>4 DEF S

\* A path means the last class, instance and attribute in it, whatever their widths,
\* values and padding, one in CIP's padded format 256 times too large; it is refused
\* when one overruns or when it is cut inside a segment's value: what
\* FormatsHaveMeaning checks on short paths holds of every path (_parse_cip_path).
\* Segments leaves out a padded segment whose last byte is itself a segment's code:
\* of that one PaddedIsMisread says that the value's high byte is read as a code.
THEOREM PathsMeanTheirSegments ==
    ASSUME NEW segs \in Seq(Segments), segs # <<>>
    PROVE  MeansItsSegments(segs)
<1> DEFINE L == Len(segs)
           path == SentAs(segs, L)
           last == segs[L]
           p == ParsePath(path)
<1>1. L \in Nat /\ L # 0 /\ DOMAIN segs = 1..L
  BY EmptySeq
<1>2. path = FlattenSeq([i \in DOMAIN segs |-> Encoded(segs[i])]) /\ Last(segs) = last
  BY <1>1 DEF SentAs, Last
<1>3. L \in 0..Len(segs) /\ L \in 1..Len(segs) /\ L - 1 \in 0..Len(segs) /\ L - 1 < Len(segs) /\ L - 1 + 1 = L
  BY <1>1
<1>4. path \in Seq(Nat)
  BY <1>3, SentOneMore
<1>5. path \o <<>> = path /\ <<>> \in Seq(Nat)
  BY <1>4, ConcatEmptySeq, EmptySeq
<1>6. ASSUME \E i \in 1..L : Overruns(segs[i]) PROVE ~WellFormed(p)
  <2>1. "error" \in DOMAIN ParsePath(SentAs(segs, L) \o <<>>)
    <3> HIDE DEF L, path
    <3> QED
      BY <1>3, <1>5, <1>6, ErrorsStay
  <2> QED
    BY <1>5, <2>1 DEF WellFormed
<1>7. ASSUME \A i \in 1..L : ~Overruns(segs[i])
      PROVE
      /\ DOMAIN p = {SegmentType[segs[i].code] : i \in 1..L}
      /\ \A i \in 1..L :
            \/ \E j \in i + 1..L : segs[j].code = segs[i].code
            \/ p[SegmentType[segs[i].code]] = ValueRead(segs[i])
  <2>0. Counted(segs, L, <<>>)
    <3> HIDE DEF L
    <3> QED
      BY <1>3, <1>5, <1>7, SegmentsCount
  <2>1. DOMAIN ParsePath(<<>>) = {}
    BY ParseEmpty
  <2> HIDE DEF path, L
  <2> QED
    BY <1>5, <2>0, <2>1 DEF Counted, path
<1>8. ASSUME ~last.padded, NEW n \in 1..Len(last.bytes)
      PROVE  ~WellFormed(ParsePath(SubSeq(path, 1, Len(path) - n)))
  <2> DEFINE before == SentAs(segs, L - 1)
             code == last.code + (Len(last.bytes) \div 2)
             zeros == Zeros(last.pad)
             B == Len(last.bytes)
             kept == SubSeq(last.bytes, 1, B - n)
             cut == zeros \o (<<code>> \o kept)
             whole == zeros \o (<<code>> \o last.bytes)
  <2>1. last \in Segments
    BY <1>3, ElementOfSeq
  <2>2. last.pad \in Nat /\ last.bytes \in Seq(Nat) /\ B \in Nat /\ B \in {1, 2, 4}
    BY <2>1 DEF Segments, Sendable
  <2>3. code \in DOMAIN SegmentType /\ code \in Nat /\ Width(code) = B
    <3>1. last.code \in SegmentCodes /\ B \in ValueLengths
      BY <2>1, <2>2 DEF Segments, Sendable, SegmentCodes, ValueLengths
    <3> DEFINE c == last.code
    <3>2. c \in SegmentCodes /\ B \in ValueLengths /\ code = c + (B \div 2)
      BY <3>1
    <3> HIDE DEF B, c, code
    <3>3. LET d == c + (B \div 2) IN d \in DOMAIN SegmentType /\ d \in Nat /\ Width(d) = B
      BY <3>2, SegmentCode DEF SegmentCodes, ValueLengths
    <3> QED
      BY <3>2, <3>3
  <2>4. before \in Seq(Nat) /\ path = before \o Encoded(last) /\ Encoded(last) \in Seq(Nat)
    <3>1. <<>> \in Seq(Nat)
      BY EmptySeq
    <3> HIDE DEF last
    <3>2. before \in Seq(Nat) /\ path = before \o Encoded(last)
      <4> HIDE DEF L
      <4> QED
        BY <1>3, SentOneMore DEF last
    <3> QED
      BY <2>1, <3>1, <3>2, ParseEncoded
  <2>5. zeros \in Seq(Nat)
    BY <2>2, IsASeq DEF Zeros
  <2> HIDE DEF zeros, code
  <2>6. <<code>> \in Seq(Nat) /\ Len(<<code>>) = 1
    BY <2>3
  <2>7. Encoded(last) = whole
    <3>1. Encoded(last) = zeros \o <<code>> \o last.bytes
      BY <1>8, <2>1, EncodedIs DEF Packed, zeros, code, Segments
    <3> HIDE DEF last
    <3> QED
      BY <2>2, <2>5, <2>6, <3>1, Regroup
  <2>8. kept \in Seq(Nat) /\ Len(kept) = B - n /\ Len(kept) < B /\ Len(kept) \in Nat
    <3>1. B - n \in Int /\ \A i \in 1..B - n : last.bytes[i] \in Nat
      <4> DEFINE bytes == last.bytes
      <4>1. bytes \in Seq(Nat) /\ B = Len(bytes) /\ B \in Nat /\ n \in 1..B
        BY <2>2
      <4> HIDE DEF bytes, B, last
      <4>2. \A i \in 1..B - n : i \in 1..B
        BY <4>1
      <4>3. \A i \in 1..B - n : bytes[i] \in Nat
        BY <4>1, <4>2, ElementOfSeq
      <4> QED
        BY <4>1, <4>3 DEF bytes
    <3>2. kept \in Seq(Nat) /\ Len(kept) = IF 1 <= B - n THEN B - n - 1 + 1 ELSE 0
      <4> HIDE DEF B
      <4>1. 1 \in Int
        OBVIOUS
      <4> QED
        BY <3>1, <4>1, SubSeqProperties
    <3> HIDE DEF kept
    <3>3. Len(kept) = B - n
      <4> HIDE DEF B
      <4> QED
        BY <2>2, <3>2 DEF B
    <3>4. n \in 1..B
      OBVIOUS
    <3>5. kept \in Seq(Nat)
      BY <3>2
    <3> HIDE DEF B
    <3> QED
      BY <2>2, <3>3, <3>4, <3>5
  <2>9. SubSeq(path, 1, Len(path) - n) = before \o cut
    <3> DEFINE bytes == last.bytes
               tail == <<code>> \o bytes
    <3>1. bytes \in Seq(Nat) /\ n \in 0..Len(bytes) /\ kept = SubSeq(bytes, 1, Len(bytes) - n)
      BY <2>2
    <3>2. path = before \o whole /\ whole = zeros \o tail
      BY <2>4, <2>7
    <3>3. whole \in Seq(Nat)
      BY <2>4, <2>7
    <3> HIDE DEF bytes, kept, path, before, whole
    <3>4. tail \in Seq(Nat) /\ n \in 0..Len(tail) /\ SubSeq(tail, 1, Len(tail) - n) = <<code>> \o kept
      BY <2>6, <3>1, CutBehind
    <3> HIDE DEF tail
    <3>5. n \in 0..Len(whole) /\ SubSeq(whole, 1, Len(whole) - n) = cut
      <4> DEFINE z == zeros
                 r == <<code>> \o kept
      <4>1. z \in Seq(Nat) /\ tail \in Seq(Nat) /\ n \in 0..Len(tail)
        BY <2>5, <3>4
      <4>2. SubSeq(tail, 1, Len(tail) - n) = r /\ whole = z \o tail /\ cut = z \o r
        BY <3>2, <3>4
      <4> HIDE DEF z, r, cut
      <4>3. /\ n \in 0..Len(z \o tail)
            /\ SubSeq(z \o tail, 1, Len(z \o tail) - n) = z \o SubSeq(tail, 1, Len(tail) - n)
        BY <4>1, CutBehind, Zenon
      <4> QED
        BY <4>2, <4>3
    <3> HIDE DEF cut
    <3>6. before \in Seq(Nat)
      BY <2>4
    <3>7. SubSeq(before \o whole, 1, Len(before \o whole) - n) = before \o cut
      BY <3>3, <3>5, <3>6, CutBehind
    <3> QED
      BY <3>2, <3>7
  <2> HIDE DEF last, kept
  <2>10. ParsePath(cut) = [error |-> code]
    <3>1. <<code>> \o kept \in Seq(Nat)
      BY <2>6, <2>8, ConcatProperties
    <3>2. ParsePath(<<code>> \o kept) = [error |-> code]
      BY <2>3, <2>8, ParseCut
    <3> QED
      BY <2>2, <3>1, <3>2, ParseZeros DEF zeros
  <2>11. cut \in Seq(Nat)
    <3>1. <<code>> \o kept \in Seq(Nat)
      BY <2>6, <2>8, ConcatProperties
    <3> QED
      BY <2>5, <3>1, ConcatProperties
  <2> HIDE DEF cut
  <2>12. "error" \in DOMAIN ParsePath(before \o cut)
    <3>1. "error" \in DOMAIN ParsePath(cut)
      BY <2>10
    <3> QED
      BY <1>3, <2>11, <3>1, ErrorsStay
  <2> HIDE DEF path
  <2> QED
    BY <2>9, <2>12 DEF WellFormed
<1>9. Last(segs).padded \/ \A n \in 1..Len(Last(segs).bytes) : ~WellFormed(ParsePath(SubSeq(path, 1, Len(path) - n)))
  BY <1>2, <1>8
<1>10. ASSUME \A i \in DOMAIN segs : ~Overruns(segs[i])
       PROVE
       /\ DOMAIN p = {SegmentType[segs[i].code] : i \in DOMAIN segs}
       /\ \A i \in DOMAIN segs :
             \/ \E j \in i + 1..Len(segs) : segs[j].code = segs[i].code
             \/ p[SegmentType[segs[i].code]] = ValueRead(segs[i])
  <2> HIDE DEF p
  <2> QED
    BY <1>1, <1>7, <1>10
<1> HIDE DEF path
<1>11. CASE \E i \in DOMAIN segs : Overruns(segs[i])
  BY <1>1, <1>2, <1>6, <1>11 DEF MeansItsSegments
<1>12. CASE \A i \in DOMAIN segs : ~Overruns(segs[i])
  BY <1>2, <1>9, <1>10, <1>12 DEF MeansItsSegments
<1> QED
  BY <1>11, <1>12

-----------------------------------------------------------------------------
\* Sequences of numbers one behind the other, in parts the provers take one by one.
LEMMA NatConcat == \A s, t \in Seq(Nat) : s \o t \in Seq(Nat)
BY ConcatProperties

\* Their lengths add up.
LEMMA NatLengths == \A s, t \in Seq(Nat) : Len(s \o t) = Len(s) + Len(t) 
BY ConcatProperties

\* Each keeps its elements, the second one's shifted.
LEMMA NatElements ==
    ASSUME NEW s \in Seq(Nat), NEW t \in Seq(Nat)
    PROVE  /\ \A i \in 1..Len(s) : (s \o t)[i] = s[i]
           /\ \A i \in 1..Len(t) : (s \o t)[Len(s) + i] = t[i]
<1> DEFINE st == s \o t
           S == Len(s)
           T == Len(t)
<1>1. S \in Nat /\ T \in Nat
  OBVIOUS
<1>2. \A i \in 1..S + T : st[i] = IF i <= S THEN s[i] ELSE t[i - S]
  BY ConcatProperties
<1> HIDE DEF st, S, T
<1>3. \A i \in 1..S : st[i] = s[i]
  BY <1>1, <1>2
<1>4. ASSUME NEW i \in 1..T PROVE st[S + i] = t[i]
  <2>1. S + i \in 1..S + T /\ ~(S + i <= S) /\ (S + i) - S = i
    BY <1>1
  <2> QED
    BY <1>2, <2>1
<1> QED
  BY <1>3, <1>4 DEF st, S, T

\* Two bytes one behind the other are the pair of them.
LEMMA Joined ==
    ASSUME NEW a \in Nat, NEW b \in Nat
    PROVE  <<a>> \o <<b>> = <<a, b>>
<1> DEFINE s == <<a>>
           t == <<b>>
           st == s \o t
           u == <<a, b>>
<1>1. s \in Seq(Nat) /\ t \in Seq(Nat) /\ Len(s) = 1 /\ Len(t) = 1 /\ s[1] = a /\ t[1] = b
  OBVIOUS
<1>2. u \in Seq(Nat) /\ Len(u) = 2 /\ u[1] = a /\ u[2] = b
  OBVIOUS
<1> HIDE DEF s, t, u
<1>3. st \in Seq(Nat)
  BY <1>1, NatConcat
<1>4. Len(st) = Len(s) + Len(t)
  BY <1>1, NatLengths
<1>5. \A i \in 1..Len(s) : st[i] = s[i]
  BY <1>1, NatElements
<1>6. \A i \in 1..Len(t) : st[Len(s) + i] = t[i]
  BY <1>1, NatElements
<1> HIDE DEF st
<1>7. st[1] = a
  BY <1>1, <1>5, 1 \in 1..1
<1>8. st[1 + 1] = b
  BY <1>1, <1>6, 1 \in 1..1
<1>9. Len(st) = 2 /\ 1 + 1 = 2
  BY <1>1, <1>4
<1>10. \A i \in 1..2 : st[i] = u[i]
  BY <1>2, <1>7, <1>8, <1>9
<1> QED
  BY <1>2, <1>3, <1>9, <1>10, SeqEqual DEF s, t, st, u

\* And two pairs of bytes.
LEMMA JoinedPairs ==
    ASSUME NEW a \in Nat, NEW b \in Nat, NEW c \in Nat, NEW d \in Nat
    PROVE  <<a, b>> \o <<c, d>> = <<a, b, c, d>>
<1> DEFINE s == <<a, b>>
           t == <<c, d>>
           st == s \o t
           u == <<a, b, c, d>>
<1>1. /\ s \in Seq(Nat) /\ t \in Seq(Nat) /\ Len(s) = 2 /\ Len(t) = 2
      /\ s[1] = a /\ s[2] = b /\ t[1] = c /\ t[2] = d
  OBVIOUS
<1>2. u \in Seq(Nat) /\ Len(u) = 4 /\ u[1] = a /\ u[2] = b /\ u[3] = c /\ u[4] = d
  OBVIOUS
<1> HIDE DEF s, t, u
<1>3. st \in Seq(Nat)
  BY <1>1, NatConcat
<1>4. Len(st) = Len(s) + Len(t)
  BY <1>1, NatLengths
<1>5. \A i \in 1..Len(s) : st[i] = s[i]
  BY <1>1, NatElements
<1>6. \A i \in 1..Len(t) : st[Len(s) + i] = t[i]
  BY <1>1, NatElements
<1> HIDE DEF st
<1>7. st[1] = a /\ st[2] = b
  BY <1>1, <1>5, 1 \in 1..2, 2 \in 1..2
<1>8. st[2 + 1] = c /\ st[2 + 2] = d
  BY <1>1, <1>6, 1 \in 1..2, 2 \in 1..2
<1>9. Len(st) = 4 /\ 2 + 1 = 3 /\ 2 + 2 = 4
  BY <1>1, <1>4
<1>10. \A i \in 1..4 : st[i] = u[i]
  BY <1>2, <1>7, <1>8, <1>9
<1> QED
  BY <1>2, <1>3, <1>9, <1>10, SeqEqual DEF s, t, st, u

\* A request as the server reads it: service, class, instance, attribute and data.
ReadAs(req, service, c, i, a, value) ==
    LET p == PathOf(req)
    IN  /\ Len(req) >= 2 /\ ~(Len(req) < PathEnd(req)) /\ req[1] = service
        /\ DataOf(req) = value
        /\ DOMAIN p = {"class", "instance"} \cup (IF a = 0 THEN {} ELSE {"attribute"})
        /\ p["class"] = c /\ p["instance"] = i /\ (a # 0 => p["attribute"] = a)

\* A request for class c, instance i and, unless it is 0, attribute a is read as
\* one for them, and its data as the value it carries.
LEMMA RequestMeans ==
    ASSUME NEW service \in Nat, NEW c \in Nat, NEW i \in Nat, NEW a \in Nat, NEW value \in Seq(Nat)
    PROVE  ReadAs(Request(service, c, i, a, value), service, c, i, a, value)
<1> DEFINE attr == IF a = 0 THEN <<>> ELSE <<48, a>>
           path == <<32, c, 36, i>> \o attr
           n == Len(path) \div 2
           head == <<service, n>>
           req == head \o path \o value
           p == PathOf(req)
<1>1. req = Request(service, c, i, a, value)
  BY DEF Request
<1>2. attr \in Seq(Nat) /\ Len(attr) \in {0, 2}
  OBVIOUS
<1>3. path \in Seq(Nat) /\ Len(path) = 2 * n /\ n \in {2, 3}
  <2>1. <<32, c, 36, i>> \in Seq(Nat) /\ Len(<<32, c, 36, i>>) = 4
    OBVIOUS
  <2> HIDE DEF attr
  <2>2. path \in Seq(Nat) /\ Len(path) = 4 + Len(attr)
    BY <1>2, <2>1, ConcatProperties
  <2> HIDE DEF path
  <2>3. Len(path) = 4 \/ Len(path) = 6
    <3>1. CASE Len(attr) = 0
      BY <2>2, <3>1
    <3>2. CASE Len(attr) = 2
      BY <2>2, <3>2
    <3> QED
      BY <1>2, <3>1, <3>2
  <2>4. 4 \div 2 = 2 /\ 6 \div 2 = 3
    OBVIOUS
  <2>5. Len(path) = 2 * n /\ n \in {2, 3}
    <3>1. CASE Len(path) = 4
      BY <2>4, <3>1
    <3>2. CASE Len(path) = 6
      BY <2>4, <3>2
    <3> QED
      BY <2>3, <3>1, <3>2
  <2> QED
    BY <2>2, <2>5
<1>4. ParsePath(path) = Default(Default(ParsePath(attr), "instance", i), "class", c)
  <2> DEFINE more == <<36, i>> \o attr
             one == <<32>>
             two == <<c>>
             three == <<36>>
             four == <<i>>
  <2>1. /\ one \in Seq(Nat) /\ two \in Seq(Nat) /\ three \in Seq(Nat) /\ four \in Seq(Nat)
        /\ Len(two) = 1 /\ Len(four) = 1
    OBVIOUS
  <2>2. LittleEndian(two) = c /\ LittleEndian(four) = i
    <3>1. \A x \in Nat : LittleEndian(<<x>>) = x
      BY ValuesHaveEveryWidth, 0 \in Nat
    <3> QED
      BY <3>1
  <2>3. /\ 32 \in DOMAIN SegmentType /\ 36 \in DOMAIN SegmentType
        /\ SegmentType[32] = "class" /\ SegmentType[36] = "instance"
        /\ Width(32) = 1 /\ Width(36) = 1
    BY DEF SegmentType, Width
  <2>4. three \o four = <<36, i>> /\ one \o two \o (three \o four) = <<32, c, 36, i>>
    <3>1. 32 \in Nat /\ 36 \in Nat
      OBVIOUS
    <3>2. one \o two = <<32, c>> /\ three \o four = <<36, i>>
      BY <3>1, Joined
    <3>3. <<32, c>> \o <<36, i>> = <<32, c, 36, i>>
      BY <3>1, JoinedPairs
    <3> HIDE DEF one, two, three, four
    <3> QED
      BY <3>2, <3>3
  <2>5. path = one \o two \o more
    <3> HIDE DEF attr, one, two, three, four
    <3>1. one \o two \in Seq(Nat) /\ three \o four \in Seq(Nat)
      BY <2>1, ConcatProperties
    <3>2. (one \o two) \o (three \o four) \o attr = (one \o two) \o ((three \o four) \o attr)
      BY <1>2, <3>1, Regroup
    <3> QED
      BY <2>4, <3>2
  <2>6. more = three \o four \o attr
    BY <2>4
  <2> HIDE DEF attr, path
  <2>7. more \in Seq(Nat)
    <3>1. <<36, i>> \in Seq(Nat)
      OBVIOUS
    <3> QED
      BY <1>2, <3>1, ConcatProperties
  <2> HIDE DEF more, two, four
  <2>8. ParsePath(more) = Default(ParsePath(attr), "instance", i)
    <3>1. ParsePath(<<36>> \o four \o attr) = Default(ParsePath(attr), SegmentType[36], LittleEndian(four))
      BY <1>2, <2>1, <2>3, ParseSegment
    <3> QED
      BY <2>2, <2>3, <2>6, <3>1
  <2>9. ParsePath(<<32>> \o two \o more) = Default(ParsePath(more), SegmentType[32], LittleEndian(two))
    BY <2>1, <2>3, <2>7, ParseSegment
  <2> QED
    BY <2>2, <2>3, <2>5, <2>8, <2>9
<1>5. ParsePath(attr) = [k \in IF a = 0 THEN {} ELSE {"attribute"} |-> a]
  <2>1. CASE a = 0
    <3>1. ParsePath(attr) = <<>>
      BY <2>1, ParseEmpty
    <3> QED
      BY <2>1, <3>1
  <2>2. CASE a # 0
    <3> DEFINE two == <<a>>
    <3>1. two \in Seq(Nat) /\ Len(two) = 1 /\ <<48>> \o two \o <<>> = <<48, a>> /\ <<>> \in Seq(Nat)
      <4>1. <<48, a>> \in Seq(Nat) /\ <<48>> \o two = <<48, a>>
        BY Joined
      <4>2. <<48, a>> \o <<>> = <<48, a>> /\ <<>> \in Seq(Nat)
        BY <4>1, ConcatEmptySeq, EmptySeq
      <4>3. two \in Seq(Nat) /\ Len(two) = 1
        OBVIOUS
      <4> QED
        BY <4>1, <4>2, <4>3
    <3>2. 48 \in DOMAIN SegmentType /\ SegmentType[48] = "attribute" /\ Width(48) = 1
      BY DEF SegmentType, Width
    <3>3. LittleEndian(two) = a
      BY ValuesHaveEveryWidth, 0 \in Nat
    <3> HIDE DEF two
    <3>4. ParsePath(<<48>> \o two \o <<>>) = Default(ParsePath(<<>>), SegmentType[48], LittleEndian(two))
      BY <3>1, <3>2, ParseSegment
    <3>5. ParsePath(attr) = Default(<<>>, "attribute", a)
      BY <2>2, <3>1, <3>2, <3>3, <3>4, ParseEmpty
    <3>6. Default(<<>>, "attribute", a) = [k \in {"attribute"} |-> a]
      BY DEF Default
    <3> QED
      BY <2>2, <3>5, <3>6
  <2> QED
    BY <2>1, <2>2
<1>6. /\ req \in Seq(Nat) /\ Len(req) = 2 + 2 * n + Len(value) /\ Len(value) \in Nat
      /\ req[1] = service /\ req[2] = n
      /\ SubSeq(req, 3, 2 + 2 * n) = path /\ SubSeq(req, 2 + 2 * n + 1, Len(req)) = value
  <2> HIDE DEF path
  <2>1. n \in Nat
    BY <1>3
  <2> HIDE DEF n
  <2>2. head \in Seq(Nat) /\ Len(head) = 2 /\ head[1] = service /\ head[2] = n
    BY <2>1
  <2> DEFINE all == head \o path
  <2> HIDE DEF head
  <2>3. /\ all \in Seq(Nat) /\ Len(all) = 2 + 2 * n /\ all[1] = service /\ all[2] = n
        /\ SubSeq(all, 3, 2 + 2 * n) = path
    <3>1. /\ all \in Seq(Nat) /\ Len(all) = Len(head) + Len(path)
          /\ SubSeq(all, Len(head) + 1, Len(all)) = path
          /\ \A k \in 1..Len(head) : all[k] = head[k]
      BY <1>3, <2>2, BehindPrefix
    <3> HIDE DEF all
    <3>2. 2 + 1 = 3 /\ Len(all) = 2 + 2 * n
      BY <1>3, <2>2, <3>1
    <3>3. 1 \in 1..Len(head) /\ 2 \in 1..Len(head)
      BY <2>2
    <3>4. all[1] = service /\ all[2] = n
      BY <2>2, <3>1, <3>3
    <3> QED
      BY <2>2, <3>1, <3>2, <3>4
  <2>4. req = all \o value
    OBVIOUS
  <2> HIDE DEF all, req
  <2>5. 1 \in 1..2 + 2 * n /\ 2 \in 1..2 + 2 * n /\ 3 \in 1..2 + 2 * n /\ 2 + 2 * n \in 1..2 + 2 * n
    BY <1>3
  <2>6. /\ req \in Seq(Nat) /\ Len(req) = Len(all) + Len(value)
        /\ SubSeq(req, Len(all) + 1, Len(req)) = value
        /\ \A k \in 1..Len(all) : req[k] = all[k]
    BY <2>3, <2>4, BehindPrefix
  <2>7. SubSeq(req, 3, 2 + 2 * n) = SubSeq(all, 3, 2 + 2 * n)
    <3> DEFINE m == 2 + 2 * n
    <3>1. 3 \in 1..Len(all) /\ m \in 1..Len(all)
      BY <2>3, <2>5
    <3> HIDE DEF m
    <3>2. SubSeq(all \o value, 3, m) = SubSeq(all, 3, m)
      BY <2>3, <3>1, SubSeqOfConcat1
    <3> QED
      BY <2>4, <3>2 DEF m
  <2>8. req[1] = service /\ req[2] = n
    BY <2>3, <2>5, <2>6
  <2>9. Len(value) \in Nat
    OBVIOUS
  <2> QED
    BY <2>3, <2>6, <2>7, <2>8, <2>9
<1> HIDE DEF req
<1>7. PathEnd(req) = 2 + 2 * n
  BY <1>6 DEF PathEnd
<1>8. p = ParsePath(path) /\ DataOf(req) = value
  BY <1>6, <1>7 DEF PathOf, DataOf
<1>9. Len(req) >= 2 /\ ~(Len(req) < PathEnd(req))
  <2>1. n \in {2, 3} /\ Len(req) = 2 + 2 * n + Len(value) /\ Len(value) \in Nat /\ PathEnd(req) = 2 + 2 * n
    BY <1>3, <1>6, <1>7
  <2> HIDE DEF n
  <2> QED
    BY <2>1
<1>10. /\ DOMAIN p = {"class", "instance"} \cup (IF a = 0 THEN {} ELSE {"attribute"})
       /\ p["class"] = c /\ p["instance"] = i /\ (a # 0 => p["attribute"] = a)
  <2> DEFINE r == [k \in IF a = 0 THEN {} ELSE {"attribute"} |-> a]
             q == Default(r, "instance", i)
  <2>1. p = Default(q, "class", c)
    BY <1>4, <1>5, <1>8
  <2>2. DOMAIN r = IF a = 0 THEN {} ELSE {"attribute"}
    OBVIOUS
  <2>3. /\ DOMAIN q = {"instance"} \cup (IF a = 0 THEN {} ELSE {"attribute"})
        /\ q["instance"] = i /\ (a # 0 => q["attribute"] = a)
    BY <2>2 DEF Default
  <2> HIDE DEF p, q
  <2> QED
    BY <2>1, <2>3 DEF Default
<1> HIDE DEF p
<1> QED
  BY <1>1, <1>6, <1>8, <1>9, <1>10 DEF ReadAs, p

\* What a Get of attribute b (none when it is 0) returns.
Gotten(c, i, b, t) ==
    IF b = 0 THEN Refusal(PathDestinationUnknown)
    ELSE IF c = IdentityClass /\ i = 1 /\ ~IdentityPacks THEN Raises
    ELSE IF c = IdentityClass /\ i = 1 /\ b \in 1..8 THEN Reply(Success, IdentityAttributes[b])
    ELSE IF ~((c = IdentityClass /\ i = 1) \/ c = AssemblyClass) THEN Refusal(PathDestinationUnknown)
    ELSE IF (c = IdentityClass /\ i = 1) \/ b # AssemblyData THEN Refusal(AttributeNotSupported)
    ELSE IF i \notin DOMAIN t THEN Refusal(PathDestinationUnknown)
    ELSE Reply(Success, t[i])

\* A Get is answered from the object and attribute its path names.
LEMMA GetReturns ==
    ASSUME NEW c \in Nat, NEW i \in Nat, NEW b \in Nat, NEW t
    PROVE  Answer(Request(GetAttributeSingle, c, i, b, <<>>), t) = Gotten(c, i, b, t)
<1> DEFINE req == Request(GetAttributeSingle, c, i, b, <<>>)
           p == PathOf(req)
<1>1. /\ Len(req) >= 2 /\ ~(Len(req) < PathEnd(req)) /\ req[1] = GetAttributeSingle
      /\ DOMAIN p = {"class", "instance"} \cup (IF b = 0 THEN {} ELSE {"attribute"})
      /\ p["class"] = c /\ p["instance"] = i /\ (b # 0 => p["attribute"] = b)
  <2> DEFINE service == GetAttributeSingle
             value == <<>>
             r == Request(service, c, i, b, value)
  <2>1. service \in Nat /\ value \in Seq(Nat)
    BY EmptySeq DEF GetAttributeSingle
  <2> HIDE DEF service, value
  <2>2. ReadAs(r, service, c, i, b, value)
    BY <2>1, RequestMeans
  <2>3. r = req /\ p = PathOf(r)
    BY DEF service, value
  <2> HIDE DEF r, req, p
  <2> QED
    BY <2>2, <2>3 DEF ReadAs, service, value
<1>2. GetAttributeSingle # GetAttributesAll /\ DOMAIN IdentityAttributes = 1..8
  BY DEF GetAttributeSingle, GetAttributesAll, IdentityAttributes
<1> HIDE DEF req
<1>3. WellFormed(p) /\ ("attribute" \in DOMAIN p <=> b # 0)
  BY <1>1 DEF WellFormed
<1>4. ~(Len(req) < 2)
  BY <1>1 DEF PathEnd
<1>5. Answer(req, t) = IF b = 0 THEN Refusal(PathDestinationUnknown) ELSE GetAttribute(p, p["attribute"], t)
  <2> HIDE DEF p
  <2> QED
    BY <1>1, <1>2, <1>3, <1>4 DEF Answer, p
<1> HIDE DEF p
<1>6. b # 0 => GetAttribute(p, p["attribute"], t) = Gotten(c, i, b, t)
  BY <1>1, <1>2 DEF GetAttribute, Gotten, IsIdentity, IsAssembly
<1> QED
  BY <1>5, <1>6 DEF Gotten, req

\* A Set succeeds on the data of an Assembly there is, and stores its own there.
LEMMA SetStores ==
    ASSUME NEW c \in Nat, NEW i \in Nat, NEW a \in Nat, NEW v \in Seq(Nat), NEW t
    PROVE  LET req == Request(SetAttributeSingle, c, i, a, v)
               done == c = AssemblyClass /\ a = AssemblyData /\ i \in DOMAIN t
           IN  /\ Answer(req, t).status = Success <=> done
               /\ AssembliesAfter(req, t) = IF done THEN Updated(t, i, v) ELSE t
<1> DEFINE req == Request(SetAttributeSingle, c, i, a, v)
           p == PathOf(req)
           done == c = AssemblyClass /\ a = AssemblyData /\ i \in DOMAIN t
<1>1. /\ Len(req) >= 2 /\ ~(Len(req) < PathEnd(req)) /\ req[1] = SetAttributeSingle
      /\ DataOf(req) = v
      /\ DOMAIN p = {"class", "instance"} \cup (IF a = 0 THEN {} ELSE {"attribute"})
      /\ p["class"] = c /\ p["instance"] = i /\ (a # 0 => p["attribute"] = a)
  <2> DEFINE service == SetAttributeSingle
             value == v
             r == Request(service, c, i, a, value)
  <2>1. service \in Nat /\ value \in Seq(Nat)
    BY EmptySeq DEF SetAttributeSingle
  <2> HIDE DEF service, value
  <2>2. ReadAs(r, service, c, i, a, value)
    BY <2>1, RequestMeans
  <2>3. r = req /\ p = PathOf(r)
    BY DEF service, value
  <2> HIDE DEF r, req, p
  <2> QED
    BY <2>2, <2>3 DEF ReadAs, service, value
<1>2. /\ SetAttributeSingle # GetAttributesAll /\ SetAttributeSingle # GetAttributeSingle
      /\ AssemblyData # 0 /\ AssemblyClass # IdentityClass
      /\ Success \notin {PathDestinationUnknown, AttributeNotSettable, AttributeNotSupported}
  BY DEF SetAttributeSingle, GetAttributesAll, GetAttributeSingle, AssemblyData, AssemblyClass,
         IdentityClass, Success, PathDestinationUnknown, AttributeNotSettable, AttributeNotSupported
<1> HIDE DEF req
<1>3. WellFormed(p) /\ ("attribute" \in DOMAIN p <=> a # 0)
  BY <1>1 DEF WellFormed
<1>4. ~(Len(req) < 2)
  BY <1>1 DEF PathEnd
<1>5. Answer(req, t) = IF a = 0 THEN Refusal(PathDestinationUnknown)
                       ELSE Refusal(SetStatus(p, p["attribute"], t))
  <2> HIDE DEF p
  <2> QED
    BY <1>1, <1>2, <1>3, <1>4 DEF Answer, p
<1> HIDE DEF p
<1>6. a # 0 => (SetStatus(p, p["attribute"], t) = Success <=> done)
  BY <1>1, <1>2 DEF SetStatus, IsIdentity, IsAssembly
<1>7. \A s : Refusal(s).status = s
  BY DEF Refusal, Reply
<1>8. Answer(req, t).status = Success <=> done
  BY <1>2, <1>5, <1>6, <1>7
<1>9. AssembliesAfter(req, t) = IF done THEN Updated(t, i, v) ELSE t
  BY <1>1, <1>8 DEF AssembliesAfter, p
<1> QED
  BY <1>8, <1>9 DEF req

\* GetAttributesAll reads the object its path names.
LEMMA GetAllReturns ==
    ASSUME NEW c \in Nat, NEW i \in Nat, NEW a \in Nat, NEW t
    PROVE  Answer(Request(GetAttributesAll, c, i, a, <<>>), t) =
           IF c = IdentityClass /\ i = 1 /\ ~IdentityPacks THEN Raises
           ELSE IF c = IdentityClass /\ i = 1
           THEN Reply(Success, FlattenSeq(SubSeq(IdentityAttributes, 1, 7)))
           ELSE IF c = AssemblyClass /\ i \in DOMAIN t THEN Reply(Success, t[i])
           ELSE Refusal(PathDestinationUnknown)
<1> DEFINE req == Request(GetAttributesAll, c, i, a, <<>>)
           p == PathOf(req)
<1>1. /\ Len(req) >= 2 /\ ~(Len(req) < PathEnd(req)) /\ req[1] = GetAttributesAll
      /\ DOMAIN p = {"class", "instance"} \cup (IF a = 0 THEN {} ELSE {"attribute"})
      /\ p["class"] = c /\ p["instance"] = i
  <2> DEFINE service == GetAttributesAll
             value == <<>>
             r == Request(service, c, i, a, value)
  <2>1. service \in Nat /\ value \in Seq(Nat)
    BY EmptySeq DEF GetAttributesAll
  <2> HIDE DEF service, value
  <2>2. ReadAs(r, service, c, i, a, value)
    BY <2>1, RequestMeans
  <2>3. r = req /\ p = PathOf(r)
    BY DEF service, value
  <2> HIDE DEF r, req, p
  <2> QED
    BY <2>2, <2>3 DEF ReadAs, service, value
<1>2. AssemblyClass # IdentityClass
  BY DEF AssemblyClass, IdentityClass
<1> HIDE DEF req
<1>3. WellFormed(p)
  BY <1>1 DEF WellFormed
<1>4. ~(Len(req) < 2)
  BY <1>1 DEF PathEnd
<1>5. Answer(req, t) = GetAll(p, t)
  <2> HIDE DEF p
  <2> QED
    BY <1>1, <1>3, <1>4 DEF Answer, p
<1> HIDE DEF p
<1>6. GetAll(p, t) =
      IF c = IdentityClass /\ i = 1 /\ ~IdentityPacks THEN Raises
      ELSE IF c = IdentityClass /\ i = 1
      THEN Reply(Success, FlattenSeq(SubSeq(IdentityAttributes, 1, 7)))
      ELSE IF c = AssemblyClass THEN GetAttribute(p, AssemblyData, t)
      ELSE Refusal(PathDestinationUnknown)
  BY <1>1 DEF GetAll, IsIdentity, IsAssembly
<1>7. c = AssemblyClass => GetAttribute(p, AssemblyData, t) =
        IF i \in DOMAIN t THEN Reply(Success, t[i]) ELSE Refusal(PathDestinationUnknown)
  BY <1>1, <1>2 DEF GetAttribute, IsIdentity, IsAssembly
<1> QED
  BY <1>2, <1>5, <1>6, <1>7 DEF req

\* Six empty sequences around one add nothing to it.
LEMMA OneOfSeven ==
    ASSUME NEW d \in Seq(Nat)
    PROVE  FlattenSeq([b \in 1..7 |-> IF b = 3 THEN d ELSE <<>>]) = d
<1> DEFINE parts(n) == [b \in 1..n |-> IF b = 3 THEN d ELSE <<>>]
<1>1. \A n \in Nat : parts(n) \in Seq(Seq(Nat)) /\ Len(parts(n)) = n
  <2>1. \A b \in Nat : (IF b = 3 THEN d ELSE <<>>) \in Seq(Nat)
    BY EmptySeq
  <2> SUFFICES ASSUME NEW n \in Nat PROVE parts(n) \in Seq(Seq(Nat))
    OBVIOUS
  <2> QED
    BY <2>1, IsASeq
<1>2. ASSUME NEW n \in Nat
      PROVE  parts(n + 1) = Append(parts(n), IF n + 1 = 3 THEN d ELSE <<>>)
  <2> DEFINE e == IF n + 1 = 3 THEN d ELSE <<>>
             less == parts(n)
             more == parts(n + 1)
  <2>1. /\ e \in Seq(Nat) /\ less \in Seq(Seq(Nat)) /\ Len(less) = n
        /\ more \in Seq(Seq(Nat)) /\ Len(more) = n + 1
    BY <1>1, EmptySeq
  <2>2. \A b \in 1..n : more[b] = less[b]
    OBVIOUS
  <2>3. more[n + 1] = e
    OBVIOUS
  <2> HIDE DEF e, less, more, parts
  <2>4. /\ Append(less, e) \in Seq(Seq(Nat)) /\ Len(Append(less, e)) = n + 1
        /\ \A b \in 1..n : Append(less, e)[b] = less[b]
        /\ Append(less, e)[n + 1] = e
    BY <2>1, AppendProperties
  <2>5. \A b \in 1..n + 1 : Append(less, e)[b] = more[b]
    BY <2>2, <2>3, <2>4
  <2>6. more = Append(less, e)
    BY <2>1, <2>4, <2>5, SeqEqual
  <2> QED
    BY <2>6 DEF e, less, more
<1>3. FlattenSeq(parts(0)) = <<>>
  <2>1. parts(0) = <<>>
    BY <1>1, EmptySeq
  <2> QED
    BY <2>1, FlattenEmpty
<1> HIDE DEF parts
<1>4. ASSUME NEW n \in Nat
      PROVE  /\ FlattenSeq(parts(n)) \in Seq(Nat)
             /\ FlattenSeq(parts(n + 1)) = FlattenSeq(parts(n)) \o (IF n + 1 = 3 THEN d ELSE <<>>)
  <2> DEFINE e == IF n + 1 = 3 THEN d ELSE <<>>
  <2>1. e \in Seq(Nat) /\ parts(n) \in Seq(Seq(Nat)) /\ parts(n + 1) = Append(parts(n), e)
    BY <1>1, <1>2, EmptySeq
  <2> HIDE DEF e
  <2>2. FlattenSeq(parts(n)) \in Seq(Nat) /\ FlattenSeq(Append(parts(n), e)) = FlattenSeq(parts(n)) \o e
    BY <2>1, FlattenAppend
  <2> QED
    BY <2>1, <2>2 DEF e
<1> DEFINE flat(n) == FlattenSeq(parts(n))
<1>5. ASSUME NEW n \in Nat, n + 1 # 3 PROVE flat(n + 1) = flat(n)
  <2>1. flat(n) \in Seq(Nat) /\ flat(n + 1) = flat(n) \o <<>>
    BY <1>4, <1>5
  <2> QED
    BY <2>1, ConcatEmptySeq
<1>6. flat(2 + 1) = flat(2) \o d
  BY <1>4, 2 + 1 = 3
<1>7. flat(0) = <<>>
  BY <1>3
<1> HIDE DEF flat
<1>8. flat(1) = flat(0) /\ flat(2) = flat(1) /\ flat(4) = flat(3) /\ flat(5) = flat(4)
      /\ flat(6) = flat(5) /\ flat(7) = flat(6)
  <2>1. flat(0 + 1) = flat(0) /\ flat(1 + 1) = flat(1) /\ flat(3 + 1) = flat(3)
        /\ flat(4 + 1) = flat(4) /\ flat(5 + 1) = flat(5) /\ flat(6 + 1) = flat(6)
    BY <1>5
  <2> QED
    BY <2>1, 0 + 1 = 1, 1 + 1 = 2, 3 + 1 = 4, 4 + 1 = 5, 5 + 1 = 6, 6 + 1 = 7
<1>9. flat(7) = <<>> \o d
  BY <1>6, <1>7, <1>8, 2 + 1 = 3
<1> QED
  BY <1>9, ConcatEmptySeq DEF flat, parts

\* The services agree on every object and every table of Assembly objects: a Set
\* succeeds just where a Get of Assembly data does and stores what the Get then
\* returns, it changes nothing else, and GetAttributesAll is what the single Gets
\* return (_handle_get_attributes_all, _handle_get_attribute_single and
\* _handle_set_attribute_single).
THEOREM ServicesMatchEverywhere ==
    ASSUME NEW c \in Nat, NEW i \in Nat, NEW a \in Nat, NEW v \in Seq(Nat),
           NEW D, NEW t \in [D -> Seq(Nat)]
    PROVE  ServicesMatch(c, i, a, v, t)
<1> DEFINE getOf(b, u) == Answer(Request(GetAttributeSingle, c, i, b, <<>>), u)
           set == Answer(Request(SetAttributeSingle, c, i, a, v), t)
           after == AssembliesAfter(Request(SetAttributeSingle, c, i, a, v), t)
           all == Answer(Request(GetAttributesAll, c, i, a, <<>>), t)
           singles == {b \in 1..9 : getOf(b, t).status = Success}
           done == c = AssemblyClass /\ a = AssemblyData /\ i \in DOMAIN t
           identity == c = IdentityClass /\ i = 1
<1>1. /\ Success \notin {PathDestinationUnknown, AttributeNotSupported, -1}
      /\ AssemblyClass # IdentityClass /\ AssemblyData = 3
  BY DEF AssemblyData, AssemblyClass, IdentityClass, Success, PathDestinationUnknown,
         AttributeNotSupported
<1>2. /\ \A s : Refusal(s).status = s /\ Refusal(s).data = <<>>
      /\ \A d : Reply(Success, d).status = Success /\ Reply(Success, d).data = d
      /\ Raises.status = -1 /\ Raises.data = <<>>
  BY DEF Refusal, Reply, Raises
<1>3. \A b \in Nat : \A u : getOf(b, u) = Gotten(c, i, b, u)
  BY GetReturns
<1>4. (set.status = Success <=> done) /\ after = IF done THEN Updated(t, i, v) ELSE t
  BY SetStores
<1>5. all = IF identity /\ ~IdentityPacks THEN Raises
            ELSE IF identity
            THEN Reply(Success, FlattenSeq(SubSeq(IdentityAttributes, 1, 7)))
            ELSE IF c = AssemblyClass /\ i \in DOMAIN t THEN Reply(Success, t[i])
            ELSE Refusal(PathDestinationUnknown)
  BY GetAllReturns
<1> HIDE DEF getOf, set, after, all
<1>6. \A b \in Nat : \A u : getOf(b, u).status = Success <=>
          \/ identity /\ IdentityPacks /\ b \in 1..8
          \/ c = AssemblyClass /\ b = 3 /\ i \in DOMAIN u
  <2> SUFFICES ASSUME NEW b \in Nat, NEW u
               PROVE  getOf(b, u).status = Success <=>
                          \/ identity /\ IdentityPacks /\ b \in 1..8
                          \/ c = AssemblyClass /\ b = 3 /\ i \in DOMAIN u
    OBVIOUS
  <2>1. 0 \notin 1..8 /\ 3 # 0
    OBVIOUS
  <2>2. getOf(b, u) = Gotten(c, i, b, u)
    BY <1>3
  <2>3. Gotten(c, i, b, u).status = Success <=>
            \/ identity /\ IdentityPacks /\ b \in 1..8
            \/ c = AssemblyClass /\ b = 3 /\ i \in DOMAIN u
    BY <1>1, <1>2, <2>1 DEF Gotten
  <2> QED
    BY <2>2, <2>3
<1>7. set.status = Success <=> c = AssemblyClass /\ getOf(a, t).status = Success
  BY <1>1, <1>4, <1>6
<1>8. set.status = Success => getOf(a, after) = Reply(Success, v)
  <2> SUFFICES ASSUME done PROVE getOf(a, after) = Reply(Success, v)
    BY <1>4
  <2>1. i \in DOMAIN after /\ after[i] = v
    BY <1>4 DEF Updated
  <2>2. getOf(a, after) = Gotten(c, i, a, after)
    BY <1>3
  <2> QED
    BY <1>1, <2>1, <2>2 DEF Gotten
<1>9. /\ DOMAIN after = DOMAIN t
      /\ \A j \in DOMAIN t : after[j] # t[j] => j = i /\ set.status = Success
  BY <1>4 DEF Updated
<1>10. all.status = Success <=> singles # {}
  <2>1. all.status = Success <=>
            \/ identity /\ IdentityPacks
            \/ c = AssemblyClass /\ i \in DOMAIN t
    BY <1>1, <1>2, <1>5
  <2>2. 1 \in 1..9 /\ 3 \in 1..9 /\ 1 \in 1..8 /\ \A b \in 1..9 : b \in Nat
    OBVIOUS
  <2> QED
    BY <1>6, <2>1, <2>2
<1>11. ASSUME all.status = Success
       PROVE  all.data = FlattenSeq([b \in 1..7 |-> getOf(b, t).data])
  <2>1. CASE identity /\ IdentityPacks
    <3>1. all.data = FlattenSeq(SubSeq(IdentityAttributes, 1, 7))
      BY <1>2, <1>5, <2>1
    <3>2. ASSUME NEW b \in 1..7 PROVE getOf(b, t).data = IdentityAttributes[b]
      <4>1. b \in Nat /\ b # 0 /\ b \in 1..8
        OBVIOUS
      <4>2. Gotten(c, i, b, t) = Reply(Success, IdentityAttributes[b])
        BY <2>1, <4>1 DEF Gotten
      <4> QED
        BY <1>2, <1>3, <4>1, <4>2
    <3>3. SubSeq(IdentityAttributes, 1, 7) = [b \in 1..7 |-> getOf(b, t).data]
      <4>1. SubSeq(IdentityAttributes, 1, 7) = [b \in 1..7 |-> IdentityAttributes[b]]
        <5> DEFINE ids == IdentityAttributes
        <5> HIDE DEF ids
        <5>1. SubSeq(ids, 1, 7) = [b \in 1..7 |-> ids[b]]
          OBVIOUS
        <5> QED
          BY <5>1 DEF ids
      <4> QED
        BY <3>2, <4>1
    <3> QED
      BY <3>1, <3>3
  <2>2. CASE c = AssemblyClass /\ i \in DOMAIN t
    <3>1. all.data = t[i] /\ t[i] \in Seq(Nat)
      BY <1>1, <1>2, <1>5, <2>2
    <3>2. ASSUME NEW b \in 1..7 PROVE getOf(b, t).data = IF b = 3 THEN t[i] ELSE <<>>
      <4>1. b \in Nat /\ b # 0
        OBVIOUS
      <4>2. Gotten(c, i, b, t) = IF b = 3 THEN Reply(Success, t[i]) ELSE Refusal(AttributeNotSupported)
        BY <1>1, <2>2, <4>1 DEF Gotten
      <4>3. getOf(b, t) = Gotten(c, i, b, t)
        BY <1>3, <4>1
      <4> QED
        BY <1>2, <4>2, <4>3
    <3>3. [b \in 1..7 |-> getOf(b, t).data] = [b \in 1..7 |-> IF b = 3 THEN t[i] ELSE <<>>]
      BY <3>2
    <3> QED
      BY <3>1, <3>3, OneOfSeven
  <2> QED
    BY <1>1, <1>2, <1>5, <1>11, <2>1, <2>2
<1> HIDE DEF singles, done, identity
<1> QED
  BY <1>7, <1>8, <1>9, <1>10, <1>11 DEF ServicesMatch, getOf, set, after, all, singles

\* ServicesAgree: so do the services on the requests of the model.
THEOREM ServicesAlwaysAgree == Spec => []ServicesAgree
<1>1. Values \subseteq Seq(Nat)
  <2>1. <<>> \in Seq(Nat)
    BY EmptySeq
  <2>2. <<7>> \in Seq(Nat) /\ <<1, 2>> \in Seq(Nat)
    OBVIOUS
  <2> QED
    BY <2>1, <2>2 DEF Values
<1>2. ASSUME NEW t \in Tables PROVE \E D : t \in [D -> Seq(Nat)]
  <2>1. PICK D \in SUBSET {1, 100} : t \in [D -> Values]
    BY <1>2 DEF Tables
  <2>2. t \in [D -> Seq(Nat)]
    BY <1>1, <2>1
  <2> QED
    BY <2>2
<1>3. ASSUME NEW c \in {1, 4, 5}, NEW i \in {1, 100, 101}, NEW a \in 0..9,
             NEW v \in Values, NEW t \in Tables
      PROVE  ServicesMatch(c, i, a, v, t)
  <2>1. c \in Nat /\ i \in Nat /\ a \in Nat
    OBVIOUS
  <2>2. v \in Seq(Nat)
    BY <1>1
  <2>3. PICK D : t \in [D -> Seq(Nat)]
    BY <1>2
  <2> QED
    BY <2>1, <2>2, <2>3, ServicesMatchEverywhere
<1>4. ServicesAgree
  BY <1>3 DEF ServicesAgree, ServicesConsistent
<1> QED
  BY <1>4, PTL

-----------------------------------------------------------------------------
\* The kinds of segment a parsed path has, of the three there are.
Kinds(p) == (IF "class" \in DOMAIN p THEN 1 ELSE 0)
          + (IF "instance" \in DOMAIN p THEN 1 ELSE 0)
          + (IF "attribute" \in DOMAIN p THEN 1 ELSE 0)

\* There are three kinds.
LEMMA KindsType == \A p : Kinds(p) \in 0..3
BY DEF Kinds

\* A segment adds at most one, also to those behind it.
LEMMA SegmentAddsOne ==
    ASSUME NEW p, NEW s \in DOMAIN SegmentType, NEW v
    PROVE  Kinds(Default(p, SegmentType[s], v)) <= Kinds(p) + 1
<1>1. DOMAIN Default(p, SegmentType[s], v) = DOMAIN p \cup {SegmentType[s]}
  BY DEF Default
<1>2. SegmentType[s] = "class" \/ SegmentType[s] = "instance" \/ SegmentType[s] = "attribute"
  BY DEF SegmentType
<1> QED
  BY <1>1, <1>2 DEF Kinds

\* Every kind of segment in a path has taken two bytes of it or more.
LEMMA PathHasBytes ==
    ASSUME NEW path \in Seq(Nat)
    PROVE  2 * Kinds(ParsePath(path)) <= Len(path)
<1> DEFINE L == Len(path)
<1>1. PICK from : IsParse(path, from) /\ ParsePath(path) = from[1]
  BY ParseExists
<1> DEFINE Bound(i) == 2 * Kinds(from[i]) <= L + 1 - i
           S == {n \in Nat : \A i \in 1..L + 1 : L + 1 - i <= n => Bound(i)}
<1>2. L \in Nat
  OBVIOUS
<1>3. \A i \in 1..L + 1 : from[i] = Segment(path, from, i)
  BY <1>1 DEF IsParse
<1>4. ASSUME NEW i \in 1..L + 1, \A j \in i + 1..L + 1 : Bound(j) PROVE Bound(i)
  <2>1. i \in Nat /\ Width(path[i]) \in {1, 2, 4}
    BY WidthType
  <2>2. from[i] = Segment(path, from, i)
    BY <1>3
  <2>3. CASE i > L
    <3>1. from[i] = <<>>
      BY <2>3, <2>2 DEF Segment
    <3>2. Kinds(from[i]) = 0
      BY <3>1 DEF Kinds
    <3> QED
      BY <1>2, <2>1, <3>2
  <2>4. CASE i <= L /\ path[i] = 0
    <3>1. from[i] = from[i + 1] /\ i + 1 \in i + 1..L + 1
      BY <1>2, <2>1, <2>4, <2>2 DEF Segment
    <3>2. 2 * Kinds(from[i]) <= L + 1 - (i + 1)
      BY <1>4, <3>1
    <3> QED
      BY <1>2, <2>1, <3>2, KindsType
  <2>5. CASE i <= L /\ path[i] # 0 /\ (path[i] \notin DOMAIN SegmentType \/ i + Width(path[i]) > L)
    <3>1. from[i] = [error |-> path[i]]
      BY <1>2, <2>1, <2>5, <2>2 DEF Segment
    <3>2. Kinds(from[i]) = 0
      BY <3>1 DEF Kinds
    <3> QED
      BY <1>2, <3>2
  <2>6. CASE i <= L /\ path[i] # 0 /\ path[i] \in DOMAIN SegmentType /\ i + Width(path[i]) <= L
    <3> DEFINE w == Width(path[i])
               rest == from[i + 1 + w]
               v == LittleEndian(SubSeq(path, i + 1, i + w))
    <3>1. from[i] = Default(rest, SegmentType[path[i]], v)
      BY <1>2, <2>1, <2>6, <2>2 DEF Segment
    <3>2. Kinds(from[i]) <= Kinds(rest) + 1
      BY <2>6, <3>1, SegmentAddsOne
    <3>3. i + 1 + w \in i + 1..L + 1
      BY <1>2, <2>1, <2>6
    <3>4. 2 * Kinds(rest) <= L + 1 - (i + 1 + w)
      BY <1>4, <3>3
    <3> DEFINE all == Kinds(from[i])
               others == Kinds(rest)
    <3>5. w \in {1, 2, 4} /\ all \in 0..3 /\ others \in 0..3
      BY <2>1, KindsType
    <3>6. 2 * others <= L + 1 - (i + 1 + w) /\ all <= others + 1
      BY <3>2, <3>4
    <3>7. 2 * all <= L + 1 - i
      <4> HIDE DEF w, rest, all, others, L
      <4> QED
        BY <1>2, <2>1, <3>5, <3>6
    <3> QED
      BY <3>7
  <2> QED
    BY <1>2, <2>1, <2>3, <2>4, <2>5, <2>6
<1> HIDE DEF Bound
<1>5. 0 \in S
  <2>1. ASSUME NEW i \in 1..L + 1, L + 1 - i <= 0 PROVE Bound(i)
    BY <1>2, <1>4, <2>1
  <2> QED
    BY <2>1
<1>6. ASSUME NEW n \in Nat, n \in S PROVE n + 1 \in S
  <2>1. ASSUME NEW i \in 1..L + 1, L + 1 - i <= n + 1 PROVE Bound(i)
    <3>1. ASSUME NEW j \in i + 1..L + 1 PROVE Bound(j)
      BY <1>2, <1>6, <2>1
    <3> QED
      BY <1>4, <3>1
  <2> QED
    BY <2>1
<1> HIDE DEF S
<1>7. L \in S
  BY <1>2, <1>5, <1>6, Induction
<1>8. Bound(1)
  BY <1>2, <1>7 DEF S
<1> QED
  BY <1>1, <1>2, <1>8 DEF Bound

-----------------------------------------------------------------------------
\* What a Set writes is shorter than the request by service, length and a path
\* with its three segments.
LEMMA WrittenIsShorter ==
    ASSUME NEW req \in Seq(Nat), NEW assemblies, Len(req) >= 2, req[1] = SetAttributeSingle,
           Answer(req, assemblies).status = Success
    PROVE  /\ DataOf(req) \in Seq(Nat)
           /\ Len(DataOf(req)) + 8 <= Len(req)
<1> DEFINE p == PathOf(req)
           path == SubSeq(req, 3, PathEnd(req))
<1> DEFINE L == Len(req)
           n == req[2]
<1>1. L \in Nat /\ n \in Nat /\ PathEnd(req) = 2 + 2 * n
  BY DEF PathEnd
<1>2. L >= 2 + 2 * n /\ WellFormed(p) /\ "attribute" \in DOMAIN p
  <2> HIDE DEF p, L
  <2>1. ~(L < PathEnd(req)) /\ WellFormed(p) /\ "attribute" \in DOMAIN p
    BY DEF Answer, p, L, Refusal, Reply, Success, NotEnoughData, PathSegmentError,
           PathDestinationUnknown, SetAttributeSingle, GetAttributesAll, GetAttributeSingle
  <2> QED
    BY <1>1, <2>1
<1>3. Kinds(p) = 3
  BY <1>2 DEF Kinds, WellFormed
<1>4. path \in Seq(Nat) /\ Len(path) = 2 * n
  <2>1. 3 - 1 \in 0..L /\ PathEnd(req) \in 0..L
    BY <1>1, <1>2
  <2>2. \A k \in 3..PathEnd(req) : k \in 1..L
    BY <1>1, <1>2
  <2>3. path \in Seq(Nat) /\ Len(path) = IF 3 <= PathEnd(req) THEN PathEnd(req) - 3 + 1 ELSE 0
    BY <1>1, <2>2, SubSeqProperties
  <2> HIDE DEF path
  <2> QED
    BY <1>1, <2>3
<1>5. 2 * 3 <= 2 * n
  BY <1>3, <1>4, PathHasBytes DEF PathOf
<1>6. DataOf(req) \in Seq(Nat) /\ Len(DataOf(req)) = L - (2 + 2 * n)
  <2> DEFINE d == DataOf(req)
  <2> DEFINE m == 2 + 2 * n + 1
  <2>1. m \in Int /\ L \in Int /\ \A k \in m..L : req[k] \in Nat
    BY <1>1
  <2>2. d = SubSeq(req, 2 + 2 * n + 1, L)
    BY <1>1 DEF DataOf
  <2>3. d \in Seq(Nat) /\ Len(d) = IF m <= L THEN L - m + 1 ELSE 0
    <3> HIDE DEF m, L
    <3> QED
      BY <2>1, <2>2, SubSeqProperties DEF m
  <2>4. Len(d) = L - (2 + 2 * n)
    <3> HIDE DEF d, L, n
    <3>1. 2 + 2 * n + 1 <= L \/ L = 2 + 2 * n
      BY <1>1, <1>2
    <3> QED
      BY <1>1, <1>2, <2>3, <3>1
  <2> QED
    BY <2>3, <2>4 DEF d
<1> HIDE DEF L, n
<1>7. Len(DataOf(req)) + 8 <= L
  BY <1>1, <1>2, <1>5, <1>6
<1> QED
  BY <1>6, <1>7 DEF L

\* The data of a response is empty, an attribute, all of Identity's or an
\* Assembly's; a handler fails on it only when Identity cannot be packed.
LEMMA AnswerCarries ==
    ASSUME NEW req, NEW assemblies, IdentityPacks
    PROVE  /\ Answer(req, assemblies) # Raises
           /\ \/ Answer(req, assemblies).data = <<>>
              \/ \E k \in DOMAIN IdentityAttributes :
                    Answer(req, assemblies).data = IdentityAttributes[k]
              \/ Answer(req, assemblies).data = FlattenSeq(SubSeq(IdentityAttributes, 1, 7))
              \/ \E a \in DOMAIN assemblies : Answer(req, assemblies).data = assemblies[a]
<1> DEFINE Carried(r) ==
              /\ r.status # -1
              /\ \/ r.data = <<>>
                 \/ \E k \in DOMAIN IdentityAttributes : r.data = IdentityAttributes[k]
                 \/ r.data = FlattenSeq(SubSeq(IdentityAttributes, 1, 7))
                 \/ \E a \in DOMAIN assemblies : r.data = assemblies[a]
<1>1. ASSUME NEW s, s # -1 PROVE Carried(Refusal(s))
  BY <1>1 DEF Refusal, Reply
<1> USE DEF NotEnoughData, PathSegmentError, PathDestinationUnknown, ServiceNotSupported,
            AttributeNotSupported, AttributeNotSettable, Success
<1>2. ASSUME NEW p, NEW attribute PROVE Carried(GetAttribute(p, attribute, assemblies))
  <2>1. \/ \E s : s # -1 /\ GetAttribute(p, attribute, assemblies) = Refusal(s)
        \/ \E k \in DOMAIN IdentityAttributes :
              GetAttribute(p, attribute, assemblies) = Reply(Success, IdentityAttributes[k])
        \/ \E a \in DOMAIN assemblies :
              GetAttribute(p, attribute, assemblies) = Reply(Success, assemblies[a])
    BY DEF GetAttribute
  <2> QED
    BY <1>1, <2>1 DEF Reply
<1>3. ASSUME NEW p PROVE Carried(GetAll(p, assemblies))
  <2>1. \/ GetAll(p, assemblies) = Reply(Success, FlattenSeq(SubSeq(IdentityAttributes, 1, 7)))
        \/ GetAll(p, assemblies) = GetAttribute(p, AssemblyData, assemblies)
        \/ GetAll(p, assemblies) = Refusal(PathDestinationUnknown)
    BY DEF GetAll
  <2> QED
    BY <1>1, <1>2, <2>1 DEF Reply
<1>4. ASSUME NEW p, NEW attribute PROVE SetStatus(p, attribute, assemblies) # -1
  BY DEF SetStatus
<1>5. Carried(Answer(req, assemblies))
  <2> DEFINE p == PathOf(req)
             r == Answer(req, assemblies)
  <2>1. \/ \E s : s # -1 /\ r = Refusal(s)
        \/ r = GetAll(p, assemblies)
        \/ r = GetAttribute(p, p["attribute"], assemblies)
    <3> HIDE DEF p
    <3>1. SetStatus(p, p["attribute"], assemblies) # -1
      BY <1>4
    <3> QED
      BY <3>1 DEF Answer, p
  <2> QED
    BY <1>1, <1>2, <1>3, <2>1
<1> QED
  BY <1>5 DEF Raises, Refusal, Reply

-----------------------------------------------------------------------------
(* Connections and frames *)

\* Pieces of frames, and streams of them.
Piece == Frames \X Nat
Streams ==
    /\ wire \in [Conns -> Seq(Piece)]
    /\ buffer \in [Conns -> Seq(Piece)]

\* A frame has its header at least.
LEMMA WholeType == \A f \in Frames : Whole(f) \in Nat /\ Whole(f) >= 2
<1> SUFFICES ASSUME NEW f \in Frames PROVE Whole(f) \in Nat /\ Whole(f) >= 2
  OBVIOUS
<1>1. f \in Frame
  BY EnipAssumption DEF EnipAssumption
<1>2. f.payload \in Nat
  BY <1>1 DEF Frame
<1> QED
  BY <1>2 DEF Whole, HeaderPieces

\* A frame's pieces: as many as its header says, and the header tells the frame.
LEMMA PiecesType ==
    ASSUME NEW f \in Frames
    PROVE  /\ Pieces(f) \in Seq(Piece)
           /\ Len(Pieces(f)) = Whole(f)
           /\ Pieces(f)[1][1] = f
<1>1. Whole(f) \in Nat /\ 1 \in 1..Whole(f)
  BY WholeType
<1>2. \A k \in 1..Whole(f) : <<f, k>> \in Piece
  BY <1>1 DEF Piece
<1> QED
  BY <1>1, <1>2 DEF Pieces

\* What follows the frame at the front of a buffer.
LEMMA RestType ==
    ASSUME NEW b \in Seq(Piece), Complete(b)
    PROVE  /\ Head(b)[1] \in Frames
           /\ Rest(b) \in Seq(Piece)
           /\ Len(Rest(b)) = Len(b) - Whole(Head(b)[1])
           /\ \A i \in 1..Len(Rest(b)) : Rest(b)[i] = b[i + Whole(Head(b)[1])]
<1> DEFINE f == Head(b)[1]
           w == Whole(f)
           L == Len(b)
           rest == Rest(b)
<1>1. f \in Frames /\ L \in Nat
  BY DEF Complete, HeaderPieces, Piece
<1>2. w \in Nat /\ w >= 2 /\ L >= w
  BY <1>1, WholeType DEF Complete
<1>3. rest = SubSeq(b, w + 1, L)
  BY DEF Rest
<1> HIDE DEF f, w, L, rest
<1>4. w + 1 \in Int /\ L \in Int /\ \A i \in w + 1..L : b[i] \in Piece
  <2>1. \A i \in w + 1..L : i \in 1..L
    BY <1>1, <1>2
  <2> QED
    BY <1>1, <1>2, <2>1, ElementOfSeq DEF L
<1>5. /\ rest \in Seq(Piece) /\ Len(rest) = IF w + 1 <= L THEN L - (w + 1) + 1 ELSE 0
      /\ \A i \in 1..L - (w + 1) + 1 : rest[i] = b[w + 1 + i - 1]
  <2> DEFINE v == w + 1
  <2> HIDE DEF v
  <2>1. v \in Int /\ L \in Int /\ (\A i \in v..L : b[i] \in Piece) /\ rest = SubSeq(b, v, L)
    BY <1>3, <1>4 DEF v
  <2>2. /\ rest \in Seq(Piece) /\ Len(rest) = IF v <= L THEN L - v + 1 ELSE 0
        /\ \A i \in 1..L - v + 1 : rest[i] = b[v + i - 1]
    BY <2>1, SubSeqProperties
  <2> QED
    BY <2>2 DEF v
<1>6. Len(rest) = L - w
  BY <1>1, <1>2, <1>5
<1>7. ASSUME NEW i \in 1..L - w PROVE rest[i] = b[i + w]
  <2>1. i \in 1..L - (w + 1) + 1 /\ w + 1 + i - 1 = i + w
    BY <1>1, <1>2
  <2> QED
    BY <1>5, <2>1
<1> QED
  BY <1>1, <1>5, <1>6, <1>7 DEF f, w, L, rest

\* A request replaces the data of an Assembly that is there and makes none.
LEMMA SetKeepsInstances ==
    ASSUME NEW req, NEW assemblies
    PROVE  DOMAIN AssembliesAfter(req, assemblies) = DOMAIN assemblies
<1> DEFINE p == PathOf(req)
<1> SUFFICES ASSUME Len(req) >= 2, req[1] = SetAttributeSingle, Answer(req, assemblies).status = Success
             PROVE  p["instance"] \in DOMAIN assemblies
  BY DEF AssembliesAfter, Updated
<1> HIDE DEF p
<1>1. Answer(req, assemblies) = Refusal(SetStatus(p, p["attribute"], assemblies))
  BY DEF Answer, p, Refusal, Reply, Success, SetAttributeSingle, GetAttributesAll, GetAttributeSingle,
     NotEnoughData, PathSegmentError, PathDestinationUnknown
<1> QED
  BY <1>1 DEF Refusal, Reply, SetStatus, Success, PathDestinationUnknown,
     AttributeNotSettable, AttributeNotSupported

\* Every variable stays in its range, and what is in a stream is pieces of frames.
THEOREM TypeCorrect == Spec => [](TypeOK /\ Streams)
<1>1. Init => TypeOK /\ Streams
  <2> SUFFICES ASSUME Init PROVE TypeOK /\ Streams
    OBVIOUS
  <2>1. DOMAIN data \in SUBSET Assemblies
    BY EnipAssumption DEF Init, EnipAssumption
  <2>2. /\ wire \in [Conns -> Seq(Piece)] /\ buffer \in [Conns -> Seq(Piece)]
        /\ frame \in [Conns -> Seq(Frames)] /\ sent \in [Conns -> Seq(Frames)]
    BY DEF Init
  <2>3. /\ nextHandle \in Nat \ {0} /\ active \in SUBSET Nat /\ ended \in SUBSET Nat
    BY DEF Init
  <2>4. sessions \in [Conns -> SUBSET Nat]
    BY DEF Init
  <2>5. closed \in [Conns -> BOOLEAN] /\ pc \in [Conns -> Pcs]
    BY DEF Init, Pcs
  <2>6. oversized \in BOOLEAN
    <3>1. oversized = \E a \in DOMAIN data : ResponseSize(data[a]) > MaxPayload
      BY DEF Init
    <3> QED
      BY <3>1, Zenon
  <2> QED
    BY <2>1, <2>2, <2>3, <2>4, <2>5, <2>6 DEF TypeOK, Streams
<1>2. TypeOK /\ Streams /\ [Next]_vars => (TypeOK /\ Streams)'
  <2> SUFFICES ASSUME TypeOK, Streams, [Next]_vars PROVE (TypeOK /\ Streams)'
    OBVIOUS
  <2> USE DEF TypeOK, Streams, Pcs, Goto, shared, history
  <2>1. ASSUME NEW c \in Conns, Send(c) PROVE (TypeOK /\ Streams)'
    BY <2>1, PiecesType DEF Send
  <2>2. ASSUME NEW c \in Conns, Close(c) PROVE (TypeOK /\ Streams)'
    BY <2>2 DEF Close
  <2>3. ASSUME NEW c \in Conns, Recv(c) PROVE (TypeOK /\ Streams)'
    BY <2>3 DEF Recv
  <2>4. ASSUME NEW c \in Conns, RecvEnds(c) \/ NeedMore(c) \/ ListIdentity(c) \/ Respond(c)
        PROVE  (TypeOK /\ Streams)'
    BY <2>4 DEF RecvEnds, NeedMore, ListIdentity, Respond
  <2>5. ASSUME NEW c \in Conns, Dispatch(c) PROVE (TypeOK /\ Streams)'
    BY <2>5, RestType DEF Dispatch
  <2>6. ASSUME NEW c \in Conns, RegisterSession(c) PROVE (TypeOK /\ Streams)'
    BY <2>6 DEF RegisterSession
  <2>7. ASSUME NEW c \in Conns, UnregisterSession(c) \/ ReleaseSessions(c)
        PROVE  (TypeOK /\ Streams)'
    BY <2>7 DEF UnregisterSession, ReleaseSessions
  <2>8. ASSUME NEW c \in Conns, CheckSession(c) PROVE (TypeOK /\ Streams)'
    BY <2>8 DEF CheckSession
  <2>9. ASSUME NEW c \in Conns, HandleCipRequest(c) PROVE (TypeOK /\ Streams)'
    BY <2>9, SetKeepsInstances DEF HandleCipRequest
  <2>10. ASSUME NEW a \in Assemblies, SetAssemblyData(a) PROVE (TypeOK /\ Streams)'
    BY <2>10 DEF SetAssemblyData, Updated
  <2>11. CASE UNCHANGED vars
    BY <2>11 DEF vars
  <2> QED
    BY <2>1, <2>2, <2>3, <2>4, <2>5, <2>6, <2>7, <2>8, <2>9, <2>10, <2>11 DEF Next, HandlerStep
<1> QED
  BY <1>1, <1>2, PTL DEF Spec

-----------------------------------------------------------------------------
\* Handles that are active or were are below the next one.
Granted == active \cup ended \subseteq {h \in Nat : h < nextHandle}

\* No session outlives its connection, for any number of connections.
THEOREM NoSessionLeaks == Spec => []NoSessionLeak
<1>1. Init => NoSessionLeak
  BY DEF Init, NoSessionLeak
<1>2. TypeOK /\ NoSessionLeak /\ [Next]_vars => NoSessionLeak'
  <2> SUFFICES ASSUME TypeOK, NoSessionLeak, [Next]_vars, NEW h \in active'
               PROVE  \E c \in Conns : Open(c)' /\ h \in sessions'[c]
    BY DEF NoSessionLeak
  <2> USE DEF TypeOK, Goto, shared, history, Open
  <2>1. h \in active => \E c \in Conns : Open(c) /\ h \in sessions[c]
    BY DEF NoSessionLeak
  <2>2. ASSUME NEW c \in Conns, RegisterSession(c)
        PROVE  \E d \in Conns : Open(d)' /\ h \in sessions'[d]
    BY <2>1, <2>2 DEF RegisterSession
  <2>3. ASSUME NEW c \in Conns, UnregisterSession(c)
        PROVE  \E d \in Conns : Open(d)' /\ h \in sessions'[d]
    BY <2>1, <2>3 DEF UnregisterSession
  <2>4. ASSUME NEW c \in Conns, ReleaseSessions(c)
        PROVE  \E d \in Conns : Open(d)' /\ h \in sessions'[d]
    BY <2>1, <2>4 DEF ReleaseSessions
  <2>5. ASSUME NEW c \in Conns, Recv(c) \/ RecvEnds(c) \/ NeedMore(c) \/ Dispatch(c)
        PROVE  \E d \in Conns : Open(d)' /\ h \in sessions'[d]
    BY <2>1, <2>5 DEF Recv, RecvEnds, NeedMore, Dispatch
  <2>6. ASSUME NEW c \in Conns,
               ListIdentity(c) \/ CheckSession(c) \/ HandleCipRequest(c) \/ Respond(c)
        PROVE  \E d \in Conns : Open(d)' /\ h \in sessions'[d]
    BY <2>1, <2>6 DEF ListIdentity, CheckSession, HandleCipRequest, Respond
  <2>7. ASSUME NEW c \in Conns, Send(c) \/ Close(c)
        PROVE  \E d \in Conns : Open(d)' /\ h \in sessions'[d]
    BY <2>1, <2>7 DEF Send, Close
  <2>8. ASSUME NEW a \in Assemblies, SetAssemblyData(a)
        PROVE  \E d \in Conns : Open(d)' /\ h \in sessions'[d]
    BY <2>1, <2>8 DEF SetAssemblyData
  <2>9. CASE UNCHANGED vars
    BY <2>1, <2>9 DEF vars
  <2> QED
    BY <2>2, <2>3, <2>4, <2>5, <2>6, <2>7, <2>8, <2>9 DEF Next, HandlerStep
<1> QED
  BY <1>1, <1>2, TypeCorrect, PTL DEF Spec

\* A handle is granted once and for good, however connections register,
\* unregister each other's sessions, fail and end.
THEOREM HandlesAreGrantedOnce == Spec => [](HandlesGrantedOnce /\ Granted)
<1>1. Init => HandlesGrantedOnce /\ Granted
  BY DEF Init, HandlesGrantedOnce, Granted
<1>2. TypeOK /\ HandlesGrantedOnce /\ Granted /\ [Next]_vars => (HandlesGrantedOnce /\ Granted)'
  <2> SUFFICES ASSUME TypeOK, HandlesGrantedOnce, Granted, [Next]_vars
               PROVE  (HandlesGrantedOnce /\ Granted)'
    OBVIOUS
  <2> USE DEF TypeOK, HandlesGrantedOnce, Granted, shared, history
  <2>1. ASSUME NEW c \in Conns, RegisterSession(c) PROVE (HandlesGrantedOnce /\ Granted)'
    BY <2>1 DEF RegisterSession
  <2>2. ASSUME NEW c \in Conns, UnregisterSession(c) PROVE (HandlesGrantedOnce /\ Granted)'
    BY <2>2 DEF UnregisterSession
  <2>3. ASSUME NEW c \in Conns, ReleaseSessions(c) PROVE (HandlesGrantedOnce /\ Granted)'
    BY <2>3 DEF ReleaseSessions
  <2>4. ASSUME NEW c \in Conns, \/ Send(c) \/ Close(c) \/ Recv(c) \/ RecvEnds(c) \/ NeedMore(c)
                               \/ Dispatch(c) \/ ListIdentity(c) \/ CheckSession(c)
                               \/ HandleCipRequest(c) \/ Respond(c)
        PROVE  (HandlesGrantedOnce /\ Granted)'
    <3>1. UNCHANGED <<active, ended, sessions, nextHandle>>
      BY <2>4 DEF Send, Close, Recv, RecvEnds, NeedMore, Dispatch, ListIdentity, CheckSession,
                  HandleCipRequest, Respond
    <3> QED
      BY <3>1
  <2>5. ASSUME NEW a \in Assemblies, SetAssemblyData(a) PROVE (HandlesGrantedOnce /\ Granted)'
    BY <2>5 DEF SetAssemblyData
  <2>6. CASE UNCHANGED vars
    BY <2>6 DEF vars
  <2> QED
    BY <2>1, <2>2, <2>3, <2>4, <2>5, <2>6 DEF Next, HandlerStep
<1> QED
  BY <1>1, <1>2, TypeCorrect, PTL DEF Spec

\* A request reaches the objects only in a session that was granted.
THEOREM RequestsAreInSession == Spec => []RequestsHaveSession
<1>1. Init => RequestsHaveSession
  BY DEF Init, RequestsHaveSession
<1>2. TypeOK /\ RequestsHaveSession /\ [Next]_vars => RequestsHaveSession'
  <2> SUFFICES ASSUME TypeOK, RequestsHaveSession, [Next]_vars PROVE RequestsHaveSession'
    OBVIOUS
  <2> USE DEF TypeOK, RequestsHaveSession, Current, Goto, shared, history
  <2>1. ASSUME NEW c \in Conns, RegisterSession(c) PROVE RequestsHaveSession'
    BY <2>1 DEF RegisterSession
  <2>2. ASSUME NEW c \in Conns, UnregisterSession(c) \/ ReleaseSessions(c)
        PROVE  RequestsHaveSession'
    \* What leaves the table has ended.
    <3>1. active' \cup ended' = active \cup ended /\ UNCHANGED frame
          /\ \A d \in Conns : pc'[d] = "cip" => pc[d] = "cip"
      BY <2>2 DEF UnregisterSession, ReleaseSessions
    <3> QED
      BY <3>1
  <2>3. ASSUME NEW c \in Conns, CheckSession(c) PROVE RequestsHaveSession'
    BY <2>3 DEF CheckSession
  <2>4. ASSUME NEW c \in Conns, Dispatch(c) PROVE RequestsHaveSession'
    BY <2>4 DEF Dispatch
  <2>5. ASSUME NEW c \in Conns, \/ Send(c) \/ Close(c) \/ Recv(c) \/ RecvEnds(c) \/ NeedMore(c)
                               \/ ListIdentity(c) \/ HandleCipRequest(c) \/ Respond(c)
        PROVE  RequestsHaveSession'
    BY <2>5 DEF Send, Close, Recv, RecvEnds, NeedMore, ListIdentity, HandleCipRequest, Respond
  <2>6. ASSUME NEW a \in Assemblies, SetAssemblyData(a) PROVE RequestsHaveSession'
    BY <2>6 DEF SetAssemblyData
  <2>7. CASE UNCHANGED vars
    BY <2>7 DEF vars
  <2> QED
    BY <2>1, <2>2, <2>3, <2>4, <2>5, <2>6, <2>7 DEF Next, HandlerStep
<1> QED
  BY <1>1, <1>2, TypeCorrect, PTL DEF Spec

-----------------------------------------------------------------------------
\* Where frames begin, counted from the first piece the client sent: frame k at
\* piece at[k] and the next one right behind it.  The stream is what has not been
\* parsed, and begins with the first frame not handled.
Layout(handled, frames, stream, at) ==
    /\ \A k \in Nat : at[k] \in Nat
    /\ at[Len(frames) + 1] = at[handled + 1] + Len(stream)
    /\ \A j, k \in handled + 1..Len(frames) + 1 : j <= k => at[j] <= at[k]
    /\ \A k \in handled + 1..Len(frames) :
          /\ at[k + 1] = at[k] + Whole(frames[k])
          /\ stream[at[k] - at[handled + 1] + 1][1] = frames[k]

\* Of one connection: the frames handled are the first of those sent, the rest is
\* on its way, and a handler that waits has no whole frame.
LaidOut(handled, frames, stream) ==
    /\ Len(handled) <= Len(frames)
    /\ \A k \in 1..Len(handled) : handled[k] = frames[k]
    /\ \E at : Layout(Len(handled), frames, stream, at)
InOrder ==
    \A c \in Conns :
        /\ LaidOut(frame[c], sent[c], buffer[c] \o wire[c])
        /\ pc[c] = "recv" => ~Complete(buffer[c])

\* A frame sent goes to the end of the layout.
LEMMA LayoutSend ==
    \A n, frames, stream, at, f :
        /\ n \in Nat /\ frames \in Seq(Frames) /\ n <= Len(frames) /\ f \in Frames
        /\ stream \in Seq(Piece) /\ Layout(n, frames, stream, at)
        => \E new : Layout(n, Append(frames, f), stream \o Pieces(f), new)
<1>1. SUFFICES ASSUME NEW n, NEW frames, NEW stream, NEW at, NEW f,
                      n \in Nat, frames \in Seq(Frames), n <= Len(frames), f \in Frames,
                      stream \in Seq(Piece), Layout(n, frames, stream, at)
               PROVE  \E new : Layout(n, Append(frames, f), stream \o Pieces(f), new)
  OBVIOUS
<1> DEFINE m == Len(frames)
           length == Len(stream)
           size == Whole(f)
           all == Append(frames, f)
           longer == stream \o Pieces(f)
           At(k) == at[k]
           Size(k) == Whole(frames[k])
           new == [k \in Nat |-> IF k = m + 2 THEN at[m + 1] + size ELSE at[k]]
<1>2. n \in Nat /\ m \in Nat /\ n <= m /\ length \in Nat /\ size \in Nat /\ size >= 2
  BY <1>1, WholeType
<1>3. /\ Len(longer) = length + size
      /\ \A i \in 1..length : longer[i] = stream[i]
      /\ longer[length + 1][1] = f
  <2>1. /\ stream \in Seq(Piece) /\ Pieces(f) \in Seq(Piece) /\ Whole(f) \in Nat /\ Whole(f) >= 2
        /\ Len(Pieces(f)) = Whole(f) /\ Pieces(f)[1][1] = f
    BY <1>1, WholeType, PiecesType
  <2> DEFINE tail == Pieces(f)
  <2> HIDE DEF tail
  <2>2. Len(stream \o tail) = Len(stream) + Len(tail) 
    BY <2>1 DEF tail
  <2>3. \A i \in 1..Len(stream) : (stream \o tail)[i] = stream[i]
    BY <2>1 DEF tail
  <2>4. (stream \o tail)[Len(stream) + 1] = tail[1]
    BY <2>1 DEF tail
  <2> QED
    BY <2>1, <2>2, <2>3, <2>4 DEF tail
<1>4. /\ Len(all) = m + 1 /\ all[m + 1] = f
      /\ \A k \in 1..m : all[k] = frames[k]
  BY <1>1
<1>5. /\ \A k \in Nat : At(k) \in Nat
      /\ At(m + 1) = At(n + 1) + length
      /\ \A j, k \in n + 1..m + 1 : j <= k => At(j) <= At(k)
  BY <1>1 DEF Layout
<1>6. \A k \in n + 1..m : /\ At(k + 1) = At(k) + Size(k)
                          /\ stream[At(k) - At(n + 1) + 1][1] = frames[k]
  <2>1. \A k \in n + 1..Len(frames) :
           /\ at[k + 1] = at[k] + Whole(frames[k])
           /\ stream[at[k] - at[n + 1] + 1][1] = frames[k]
    BY <1>1, Zenon DEF Layout
  <2> QED
    BY <2>1
<1>7. \A k \in 1..m : Size(k) \in Nat /\ Size(k) >= 2
  <2>1. \A k \in 1..m : frames[k] \in Frames
    BY <1>1, ElementOfSeq
  <2> QED
    BY <2>1, WholeType
<1>8. \A k \in Nat : new[k] = IF k = m + 2 THEN At(m + 1) + size ELSE At(k)
  OBVIOUS
<1> HIDE DEF m, length, size, all, longer, At, Size, new
<1>9. \A k \in Nat : new[k] \in Nat
  BY <1>2, <1>5, <1>8
<1>10. new[Len(all) + 1] = new[n + 1] + Len(longer)
  BY <1>2, <1>3, <1>4, <1>5, <1>8
<1>11. ASSUME NEW j \in n + 1..m + 2, NEW k \in n + 1..m + 2, j <= k PROVE new[j] <= new[k]
  BY <1>2, <1>5, <1>8, <1>11
<1>12. ASSUME NEW k \in n + 1..m + 1
      PROVE  /\ new[k + 1] = new[k] + Whole(all[k])
             /\ longer[new[k] - new[n + 1] + 1][1] = all[k]
  <2>1. CASE k = m + 1
    <3>1. new[k + 1] = At(m + 1) + size /\ new[k] = At(m + 1) /\ new[n + 1] = At(n + 1)
      BY <1>2, <1>8, <2>1
    <3>2. At(m + 1) - At(n + 1) + 1 = length + 1 /\ At(m + 1) \in Nat
      BY <1>2, <1>5
    <3>3. all[k] = f /\ size = Whole(f)
      BY <1>4, <2>1 DEF size
    <3> QED
      BY <1>3, <3>1, <3>2, <3>3
  <2>2. CASE k \in n + 1..m
    <3>1. /\ At(k + 1) = At(k) + Size(k) /\ Size(k) \in Nat /\ Size(k) >= 2
          /\ stream[At(k) - At(n + 1) + 1][1] = frames[k]
          /\ At(n + 1) <= At(k) /\ At(k + 1) <= At(m + 1)
      <4>1. /\ n + 1 \in n + 1..m + 1 /\ k \in n + 1..m + 1 /\ k + 1 \in n + 1..m + 1
            /\ m + 1 \in n + 1..m + 1 /\ n + 1 <= k /\ k + 1 <= m + 1 /\ k \in 1..m
        BY <1>2, <2>2
      <4> QED
        BY <1>5, <1>6, <1>7, <2>2, <4>1
    <3>4. all[k] = frames[k] /\ Size(k) = Whole(frames[k]) /\ At(k) \in Nat
      <4>1. k \in 1..m /\ k \in Nat
        BY <1>2, <2>2
      <4>2. Size(k) = Whole(frames[k])
        BY Zenon DEF Size
      <4> QED
        BY <1>4, <1>5, <4>1, <4>2
    <3>2. At(k) - At(n + 1) + 1 \in 1..length
      BY <1>2, <1>5, <2>2, <3>1
    <3>3. new[k + 1] = At(k + 1) /\ new[k] = At(k) /\ new[n + 1] = At(n + 1)
      BY <1>2, <1>8, <2>2
    <3> QED
      <4>1. longer[new[k] - new[n + 1] + 1][1] = all[k]
        BY <1>3, <3>1, <3>2, <3>3, <3>4
      <4>2. new[k + 1] = At(k) + Size(k) /\ new[k] = At(k)
        BY <3>1, <3>3
      <4>3. Size(k) = Whole(all[k])
        BY <3>4, Zenon
      <4>4. new[k + 1] = new[k] + Whole(all[k])
        BY <4>2, <4>3
      <4> QED
        BY <4>1, <4>4
  <2> QED
    BY <1>2, <2>1, <2>2
<1>13. Len(all) + 1 = m + 2 /\ Len(all) = m + 1
  BY <1>2, <1>4
<1> QED
  BY <1>9, <1>10, <1>11, <1>12, <1>13 DEF Layout, all, longer
\* rest is what follows the frame at the front of stream.
Follows(rest, stream) ==
    /\ Len(rest) = Len(stream) - Whole(stream[1][1])
    /\ \A i \in 1..Len(rest) : rest[i] = stream[i + Whole(stream[1][1])]

\* The frame at the front of the stream is the next of those sent, and what
\* follows it is laid out as before.
LEMMA LayoutCut ==
    \A n, frames, stream, rest, at :
        /\ n \in Nat /\ frames \in Seq(Frames) /\ n <= Len(frames)
        /\ stream \in Seq(Piece) /\ rest \in Seq(Piece) /\ stream # <<>>
        /\ Layout(n, frames, stream, at)
        /\ Follows(rest, stream)
        => /\ n < Len(frames)
           /\ stream[1][1] = frames[n + 1]
           /\ Layout(n + 1, frames, rest, at)
<1>1. SUFFICES ASSUME NEW n, NEW frames, NEW stream, NEW rest, NEW at,
                      n \in Nat, frames \in Seq(Frames), n <= Len(frames),
                      stream \in Seq(Piece), rest \in Seq(Piece), stream # <<>>,
                      Layout(n, frames, stream, at),
                      Follows(rest, stream)
               PROVE  /\ n < Len(frames)
                      /\ stream[1][1] = frames[n + 1]
                      /\ Layout(n + 1, frames, rest, at)
  OBVIOUS
<1> DEFINE m == Len(frames)
           length == Len(stream)
           p == Whole(stream[1][1])
           At(k) == at[k]
           Size(k) == Whole(frames[k])
<1>2. n \in Nat /\ m \in Nat /\ n <= m /\ length \in Nat \ {0} /\ p \in Nat /\ p >= 2
  <2>1. p \in Nat /\ p >= 2
    <3>1. stream[1] \in Piece
      BY <1>1, ElementOfSeq, EmptySeq
    <3> QED
      BY <3>1, WholeType DEF Piece
  <2>2. m \in Nat /\ length \in Nat
    BY <1>1
  <2>3. length # 0
    BY <1>1
  <2> QED
    BY <1>1, <2>1, <2>2, <2>3
<1>3. Len(rest) = length - p /\ Len(rest) \in Nat /\ \A i \in 1..Len(rest) : rest[i] = stream[i + p]
  <2>1. Len(rest) \in Nat /\ length \in Nat
    BY <1>1
  <2>2. Len(rest) = length - p
    BY <1>1 DEF Follows
  <2>4. ASSUME NEW i \in 1..Len(rest) PROVE rest[i] = stream[i + p]
    <3>1. rest[i] = stream[i + Whole(stream[1][1])]
      BY <1>1, Zenon DEF Follows
    <3> QED
      BY <3>1
  <2> QED
    BY <2>1, <2>2, <2>4
<1>4. /\ \A k \in Nat : At(k) \in Nat
      /\ At(m + 1) = At(n + 1) + length
      /\ \A j, k \in n + 1..m + 1 : j <= k => At(j) <= At(k)
  BY <1>1, Zenon DEF Layout
<1>5. \A k \in 1..m : Size(k) \in Nat /\ Size(k) >= 2
  <2>1. \A k \in 1..m : frames[k] \in Frames
    BY <1>1, ElementOfSeq
  <2> QED
    BY <2>1, WholeType
<1>6. \A k \in n + 1..m : /\ At(k + 1) = At(k) + Size(k)
                          /\ stream[At(k) - At(n + 1) + 1][1] = frames[k]
  <2>1. \A k \in n + 1..Len(frames) :
           /\ at[k + 1] = at[k] + Whole(frames[k])
           /\ stream[at[k] - at[n + 1] + 1][1] = frames[k]
    BY <1>1, Zenon DEF Layout
  <2> QED
    BY <2>1
<1> HIDE DEF m, length, p, At, Size
<1>7. n < m /\ n + 1 \in n + 1..m
  <2>1. n # m
    BY <1>2, <1>4
  <2> QED
    BY <1>2, <2>1
<1>8. stream[1][1] = frames[n + 1] /\ At(n + 1 + 1) = At(n + 1) + p
  <2>1. At(n + 1) - At(n + 1) + 1 = 1
    BY <1>2, <1>4
  <2>2. stream[1][1] = frames[n + 1]
    BY <1>6, <1>7, <2>1
  <2>3. Size(n + 1) = p
    BY <2>2, Zenon DEF Size, p
  <2> QED
    BY <1>6, <1>7, <2>2, <2>3
<1>9. At(m + 1) = At(n + 1 + 1) + Len(rest)
  <2>1. At(n + 1) \in Nat /\ At(m + 1) = At(n + 1) + length
    BY <1>2, <1>4
  <2>2. Len(rest) = length - p
    BY <1>3
  <2> QED
    BY <1>2, <1>8, <2>1, <2>2
<1>10. ASSUME NEW j \in n + 1 + 1..m + 1, NEW k \in n + 1 + 1..m + 1, j <= k PROVE At(j) <= At(k)
  BY <1>2, <1>4, <1>10
<1>11. ASSUME NEW k \in n + 1 + 1..m
       PROVE  At(k + 1) = At(k) + Size(k) /\ rest[At(k) - At(n + 1 + 1) + 1][1] = frames[k]
  <2>1. /\ At(k + 1) = At(k) + Size(k) /\ Size(k) \in Nat /\ Size(k) >= 2
        /\ stream[At(k) - At(n + 1) + 1][1] = frames[k]
        /\ At(n + 1 + 1) <= At(k) /\ At(k + 1) <= At(m + 1)
    <3>1. /\ n + 1 + 1 \in n + 1..m + 1 /\ k \in n + 1..m + 1 /\ k + 1 \in n + 1..m + 1
          /\ m + 1 \in n + 1..m + 1 /\ n + 1 + 1 <= k /\ k + 1 <= m + 1 /\ k \in n + 1..m
          /\ k \in 1..m
      BY <1>2
    <3> QED
      BY <1>4, <1>5, <1>6, <3>1
  <2>2. At(k) \in Nat /\ At(k + 1) \in Nat /\ At(n + 1) \in Nat /\ At(n + 1 + 1) \in Nat
    BY <1>2, <1>4
  <2>3. At(k) - At(n + 1 + 1) + 1 \in 1..Len(rest)
    BY <1>3, <1>9, <2>1, <2>2
  <2>4. At(k) - At(n + 1 + 1) + 1 + p = At(k) - At(n + 1) + 1
    BY <1>2, <1>8, <2>2
  <2> QED
    BY <1>3, <2>1, <2>3, <2>4
<1>12. ASSUME NEW k \in n + 1 + 1..m PROVE At(k) + Size(k) = At(k) + Whole(frames[k])
  BY Zenon DEF Size
<1>13. /\ \A k \in Nat : at[k] \in Nat
       /\ at[m + 1] = at[n + 1 + 1] + Len(rest)
       /\ \A j, k \in n + 1 + 1..m + 1 : j <= k => at[j] <= at[k]
  BY <1>4, <1>9, <1>10, Zenon DEF At
<1>14. \A k \in n + 1 + 1..m : /\ at[k + 1] = at[k] + Whole(frames[k])
                               /\ rest[at[k] - at[n + 1 + 1] + 1][1] = frames[k]
  BY <1>11, <1>12, Zenon DEF At
<1> QED
  BY <1>7, <1>8, <1>13, <1>14, Zenon DEF Layout, m

\* What is cut off a whole frame's buffer is cut off the stream it begins.
LEMMA RestFollows ==
    ASSUME NEW b \in Seq(Piece), NEW w \in Seq(Piece), Complete(b)
    PROVE  /\ b \o w \in Seq(Piece) /\ Rest(b) \o w \in Seq(Piece)
           /\ b \o w # <<>> /\ (b \o w)[1][1] = Head(b)[1]
           /\ Follows(Rest(b) \o w, b \o w)
<1> DEFINE p == Whole(Head(b)[1])
           rest == Rest(b)
<1>1. /\ rest \in Seq(Piece) /\ Len(rest) = Len(b) - p
      /\ \A i \in 1..Len(rest) : rest[i] = b[i + p]
  BY RestType
<1>2. /\ Len(b) \in Nat /\ Len(w) \in Nat /\ Len(rest) \in Nat /\ p \in Nat /\ p >= 2 /\ Len(b) >= p
  BY <1>1, RestType, WholeType DEF Complete
<1>3. /\ b \o w \in Seq(Piece) /\ rest \o w \in Seq(Piece)
      /\ Len(b \o w) = Len(b) + Len(w) /\ Len(rest \o w) = Len(rest) + Len(w)
  BY <1>1
<1>4. /\ \A i \in 1..Len(b) : (b \o w)[i] = b[i]
      /\ \A i \in Len(b) + 1..Len(b) + Len(w) : (b \o w)[i] = w[i - Len(b)]
  OBVIOUS
<1>5. /\ \A i \in 1..Len(rest) : (rest \o w)[i] = rest[i]
      /\ \A i \in Len(rest) + 1..Len(rest) + Len(w) : (rest \o w)[i] = w[i - Len(rest)]
  <2> HIDE DEF rest
  <2> QED
    BY <1>1
<1>6. (b \o w)[1] = Head(b)
  BY <1>2, <1>4
<1> HIDE DEF rest
<1>7. ASSUME NEW i \in 1..Len(rest) + Len(w) PROVE (rest \o w)[i] = (b \o w)[i + p]
  <2> DEFINE length == Len(b)
             left == Len(rest)
             more == Len(w)
  <2>1. /\ length \in Nat /\ more \in Nat /\ left \in Nat /\ p \in Nat /\ left = length - p
        /\ i \in 1..left + more
    BY <1>1, <1>2
  <2>2. CASE i \in 1..left
    <3>1. (rest \o w)[i] = rest[i] /\ rest[i] = b[i + p]
      BY <1>1, <1>5, <2>2
    <3>2. i + p \in 1..length
      <4> HIDE DEF length, left, more, p
      <4> QED
        BY <2>1, <2>2
    <3> QED
      BY <1>4, <3>1, <3>2
  <2>3. CASE i \in left + 1..left + more
    <3>1. (rest \o w)[i] = w[i - left]
      BY <1>5, <2>3
    <3>2. i + p \in length + 1..length + more /\ (i + p) - length = i - left
      <4> HIDE DEF length, left, more, p
      <4> QED
        BY <2>1, <2>3
    <3>3. (b \o w)[i + p] = w[(i + p) - length]
      <4> HIDE DEF p
      <4> QED
        BY <1>4, <3>2
    <3> HIDE DEF length, left, more, p
    <3> QED
      BY <3>1, <3>2, <3>3
  <2>4. i \in 1..left \/ i \in left + 1..left + more
    <3> HIDE DEF length, left, more, p
    <3> QED
      BY <2>1
  <2> QED
    BY <2>2, <2>3, <2>4
<1> QED
  <2>1. b \o w # <<>>
    BY <1>2, <1>3
  <2>2. p = Whole((b \o w)[1][1])
    BY <1>6
  <2>3. Len(rest \o w) = Len(b \o w) - Whole((b \o w)[1][1])
    <3> DEFINE l == Len(b)
               m == Len(w)
               k == Len(rest)
    <3>1. l \in Nat /\ m \in Nat /\ p \in Nat /\ k = l - p
      BY <1>1, <1>2
    <3>2. Len(b \o w) = l + m /\ Len(rest \o w) = k + m
      BY <1>3
    <3> DEFINE left == Len(rest \o w)
               all == Len(b \o w)
               cut == Whole((b \o w)[1][1])
    <3>3. left = k + m /\ all = l + m /\ cut = p
      BY <2>2, <3>2
    <3> HIDE DEF p, l, m, k, left, all, cut
    <3>4. left = all - cut
      BY <3>1, <3>3
    <3> QED
      BY <3>4 DEF left, all, cut
  <2>4. ASSUME NEW i \in 1..Len(rest \o w)
        PROVE  (rest \o w)[i] = (b \o w)[i + Whole((b \o w)[1][1])]
    <3>1. i \in 1..Len(rest) + Len(w)
      BY <1>3
    <3> HIDE DEF p
    <3> QED
      BY <1>7, <2>2, <3>1
  <2> QED
    BY <1>3, <1>6, <2>1, <2>3, <2>4 DEF Follows, rest


\* How pieces are grouped into chunks does not matter.
LEMMA Grouping ==
    ASSUME NEW s \in Seq(Piece), NEW t \in Seq(Piece), NEW u \in Seq(Piece)
    PROVE  (s \o t) \o u = s \o (t \o u)
BY ConcatAssociative

\* Sending keeps what has been handled a prefix.
LEMMA SendKeepsOrder ==
    ASSUME NEW handled \in Seq(Frames), NEW frames \in Seq(Frames), NEW stream \in Seq(Piece),
           NEW f \in Frames, LaidOut(handled, frames, stream)
    PROVE  LaidOut(handled, Append(frames, f), stream \o Pieces(f))
<1>1. /\ Len(handled) \in Nat /\ Len(frames) \in Nat /\ Len(handled) <= Len(frames)
      /\ Len(Append(frames, f)) = Len(frames) + 1
      /\ \A k \in 1..Len(frames) : Append(frames, f)[k] = frames[k]
  BY DEF LaidOut
<1>2. \E new : Layout(Len(handled), Append(frames, f), stream \o Pieces(f), new)
  <2>1. PICK at : Layout(Len(handled), frames, stream, at)
    BY DEF LaidOut
  <2> QED
    BY <1>1, <2>1, LayoutSend
<1>3. \A k \in 1..Len(handled) : handled[k] = Append(frames, f)[k]
  BY <1>1 DEF LaidOut
<1> QED
  BY <1>1, <1>2, <1>3 DEF LaidOut

\* So does handling the frame at the front of the stream.
LEMMA DispatchKeepsOrder ==
    ASSUME NEW handled \in Seq(Frames), NEW frames \in Seq(Frames),
           NEW b \in Seq(Piece), NEW w \in Seq(Piece), Complete(b),
           LaidOut(handled, frames, b \o w)
    PROVE  LaidOut(Append(handled, Head(b)[1]), frames, Rest(b) \o w)
<1> DEFINE f == Head(b)[1]
           n == Len(handled)
<1>1. PICK at : Layout(n, frames, b \o w, at)
  BY DEF LaidOut
<1>2. /\ n \in Nat /\ Len(frames) \in Nat /\ n <= Len(frames)
      /\ Len(Append(handled, f)) = n + 1 /\ Append(handled, f)[n + 1] = f
      /\ \A k \in 1..n : Append(handled, f)[k] = handled[k]
  BY DEF LaidOut
<1>3. n < Len(frames) /\ f = frames[n + 1] /\ Layout(n + 1, frames, Rest(b) \o w, at)
  <2>1. /\ b \o w \in Seq(Piece) /\ Rest(b) \o w \in Seq(Piece)
        /\ b \o w # <<>> /\ (b \o w)[1][1] = f /\ Follows(Rest(b) \o w, b \o w)
    BY RestFollows
  <2> HIDE DEF f
  <2> QED
    BY <1>1, <1>2, <2>1, LayoutCut
<1>4. \A k \in 1..n : handled[k] = frames[k]
  BY DEF LaidOut
<1>5. ASSUME NEW k \in 1..n + 1 PROVE Append(handled, f)[k] = frames[k]
  BY <1>2, <1>3, <1>4
<1> QED
  BY <1>2, <1>3, <1>5 DEF LaidOut


\* A handler that waits with nothing on its way has handled all that was sent.
LEMMA OrderSuffices == TypeOK /\ Streams /\ InOrder => FramesInOrder
<1> SUFFICES ASSUME TypeOK, Streams, InOrder, NEW c \in Conns
             PROVE  /\ IsPrefix(frame[c], sent[c])
                    /\ pc[c] = "recv" /\ wire[c] = <<>> => frame[c] = sent[c]
  BY DEF FramesInOrder
<1> DEFINE handled == frame[c]
           frames == sent[c]
           n == Len(handled)
           m == Len(frames)
<1>1. /\ handled \in Seq(Frames) /\ frames \in Seq(Frames)
      /\ buffer[c] \in Seq(Piece) /\ wire[c] \in Seq(Piece)
  BY DEF TypeOK, Streams
<1>2. n \in Nat /\ m \in Nat
  BY <1>1
<1>3. n <= m /\ \A k \in 1..n : handled[k] = frames[k]
  BY DEF InOrder, LaidOut
<1>4. PICK at : Layout(n, frames, buffer[c] \o wire[c], at)
  BY DEF InOrder, LaidOut
<1>5. IsPrefix(handled, frames)
  <2> HIDE DEF handled, frames
  <2> QED
    BY <1>1, <1>2, <1>3 DEF IsPrefix
<1>6. ASSUME pc[c] = "recv", wire[c] = <<>> PROVE n = m
  <2> SUFFICES ASSUME n < m PROVE FALSE
    BY <1>2, <1>3
  <2> DEFINE b == buffer[c]
  <2>1. b \o wire[c] = b /\ b \in Seq(Piece)
    BY <1>1, <1>6
  <2>2. Layout(n, frames, b, at)
    BY <1>4, <2>1
  <2> HIDE DEF b, handled, frames, n, m
  <2>3. /\ n + 1 \in n + 1..Len(frames) /\ n + 1 + 1 \in n + 1..Len(frames) + 1
        /\ Len(frames) + 1 \in n + 1..Len(frames) + 1
        /\ n + 1 \in Nat /\ n + 1 + 1 \in Nat /\ Len(frames) + 1 \in Nat
        /\ n + 1 + 1 <= Len(frames) + 1
    BY <1>2 DEF m
  <2>4. /\ at[n + 1] \in Nat /\ at[n + 1 + 1] \in Nat /\ at[Len(frames) + 1] \in Nat
        /\ at[Len(frames) + 1] = at[n + 1] + Len(b)
        /\ at[n + 1 + 1] <= at[Len(frames) + 1]
        /\ at[n + 1 + 1] = at[n + 1] + Whole(frames[n + 1])
        /\ b[at[n + 1] - at[n + 1] + 1][1] = frames[n + 1]
    BY <2>2, <2>3, Zenon DEF Layout
  <2>5. b[1][1] = frames[n + 1]
    <3>1. at[n + 1] - at[n + 1] + 1 = 1
      BY <2>4
    <3> QED
      BY <2>4, <3>1
  <2>6. Len(b) \in Nat
    BY <2>1
  <2>7. Whole(frames[n + 1]) \in Nat /\ Whole(frames[n + 1]) >= 2 /\ Len(b) >= Whole(frames[n + 1])
    <3>1. frames[n + 1] \in Frames
      BY <1>1, <1>2, <2>3, ElementOfSeq DEF m
    <3>2. Whole(frames[n + 1]) \in Nat /\ Whole(frames[n + 1]) >= 2
      BY <3>1, WholeType
    <3> QED
      BY <2>4, <2>6, <3>2
  <2>8. b # <<>> /\ Head(b) = b[1]
    BY <2>1, <2>7
  <2>9. Complete(b)
    BY <2>5, <2>6, <2>7, <2>8 DEF Complete, HeaderPieces
  <2> QED
    BY <1>6, <2>9 DEF InOrder, b
<1>7. ASSUME n = m PROVE handled = frames
  <2> HIDE DEF handled, frames
  <2> QED
    BY <1>1, <1>2, <1>3, <1>7
<1> QED
  BY <1>5, <1>6, <1>7

\* Frames are handled in the order they were sent, whatever the chunks: by the
\* layout of the stream, for any number of frames and connections.
THEOREM FramesHandledInOrder == Spec => [](InOrder /\ FramesInOrder)
<1>1. Init => InOrder
  <2> SUFFICES ASSUME Init, NEW c \in Conns
               PROVE  /\ LaidOut(frame[c], sent[c], buffer[c] \o wire[c])
                      /\ pc[c] = "recv" => ~Complete(buffer[c])
    BY DEF InOrder
  <2> DEFINE at == [k \in Nat |-> 0]
  <2>1. Layout(0, <<>>, <<>>, at)
    <3>1. /\ Len(<<>>) = 0 /\ 0 + 1..0 = {} /\ \A k \in 0 + 1..0 + 1 : k = 1
          /\ at[1] = 0 /\ at[0 + 1] = 0 /\ \A k \in Nat : at[k] \in Nat
      OBVIOUS
    <3> QED
      BY <3>1 DEF Layout
  <2>2. frame[c] = <<>> /\ sent[c] = <<>> /\ buffer[c] \o wire[c] = <<>> /\ buffer[c] = <<>>
    BY DEF Init
  <2>3. \E new : Layout(0, <<>>, <<>>, new)
    BY <2>1
  <2> QED
    BY <2>2, <2>3 DEF LaidOut, Complete, HeaderPieces
<1>2. TypeOK /\ Streams /\ InOrder /\ [Next]_vars => InOrder'
  <2> SUFFICES ASSUME TypeOK, Streams, InOrder, [Next]_vars, NEW d \in Conns
               PROVE  /\ LaidOut(frame[d], sent[d], buffer[d] \o wire[d])'
                      /\ (pc[d] = "recv" => ~Complete(buffer[d]))'
    BY DEF InOrder
  <2> DEFINE Kept == /\ UNCHANGED <<frame[d], sent[d], buffer[d]>>
                     /\ UNCHANGED wire[d]
                     /\ pc'[d] = "recv" => pc[d] = "recv"
  <2>1. /\ LaidOut(frame[d], sent[d], buffer[d] \o wire[d])
        /\ pc[d] = "recv" => ~Complete(buffer[d])
        /\ frame[d] \in Seq(Frames) /\ sent[d] \in Seq(Frames)
        /\ buffer[d] \in Seq(Piece) /\ wire[d] \in Seq(Piece)
    BY DEF InOrder, TypeOK, Streams
  <2>2. ASSUME Kept
        PROVE  /\ LaidOut(frame[d], sent[d], buffer[d] \o wire[d])'
               /\ (pc[d] = "recv" => ~Complete(buffer[d]))'
    <3>1. /\ frame'[d] = frame[d] /\ sent'[d] = sent[d] /\ buffer'[d] = buffer[d]
          /\ wire'[d] = wire[d]
          /\ pc'[d] = "recv" => pc[d] = "recv"
      BY <2>2
    <3> QED
      BY <2>1, <3>1
  <2> HIDE DEF Kept
  <2>3. ASSUME NEW c \in Conns, Send(c)
        PROVE  /\ LaidOut(frame[d], sent[d], buffer[d] \o wire[d])'
               /\ (pc[d] = "recv" => ~Complete(buffer[d]))'
    <3>1. CASE c # d
      BY <2>2, <2>3, <3>1 DEF Send, Kept, TypeOK, Streams
    <3>2. CASE c = d
      <4>1. PICK f \in Frames : /\ sent' = [sent EXCEPT ![d] = Append(@, f)]
                                /\ wire' = [wire EXCEPT ![d] = @ \o Pieces(f)]
        BY <2>3, <3>2 DEF Send
      <4>2. /\ sent'[d] = Append(sent[d], f) /\ wire'[d] = wire[d] \o Pieces(f)
            /\ frame'[d] = frame[d] /\ buffer'[d] = buffer[d] /\ pc'[d] = pc[d]
        BY <2>3, <4>1 DEF Send, TypeOK, Streams
      <4>3. Pieces(f) \in Seq(Piece)
        BY PiecesType
      <4>4. buffer[d] \o (wire[d] \o Pieces(f)) = (buffer[d] \o wire[d]) \o Pieces(f)
        <5>1. buffer[d] \in Seq(Piece) /\ wire[d] \in Seq(Piece)
          BY <2>1
        <5>2. (buffer[d] \o wire[d]) \o Pieces(f) = buffer[d] \o (wire[d] \o Pieces(f))
          BY <4>3, <5>1, Grouping
        <5> QED
          BY <5>2, Zenon
      <4>5. buffer[d] \o wire[d] \in Seq(Piece)
        BY <2>1
      <4>6. LaidOut(frame[d], Append(sent[d], f), (buffer[d] \o wire[d]) \o Pieces(f))
        BY <2>1, <4>5, SendKeepsOrder
      <4> QED
        BY <2>1, <4>2, <4>4, <4>6
    <3> QED
      BY <3>1, <3>2
  <2>4. ASSUME NEW c \in Conns, Recv(c)
        PROVE  /\ LaidOut(frame[d], sent[d], buffer[d] \o wire[d])'
               /\ (pc[d] = "recv" => ~Complete(buffer[d]))'
    <3>1. CASE c # d
      BY <2>2, <2>4, <3>1 DEF Recv, Goto, history, Kept, TypeOK, Streams
    <3>2. CASE c = d
      <4> DEFINE w == wire[d]
      <4>1. PICK n \in 1..Len(wire[d]) :
                /\ buffer' = [buffer EXCEPT ![d] = @ \o SubSeq(wire[d], 1, n)]
                /\ wire' = [wire EXCEPT ![d] = SubSeq(@, n + 1, Len(@))]
        BY <2>4, <3>2 DEF Recv
      <4>2. /\ buffer'[d] = buffer[d] \o SubSeq(w, 1, n) /\ wire'[d] = SubSeq(w, n + 1, Len(w))
            /\ frame'[d] = frame[d] /\ sent'[d] = sent[d] /\ pc'[d] = "parse"
        BY <2>4, <3>2, <4>1 DEF Recv, Goto, history, TypeOK, Streams
      <4> HIDE DEF w
      <4>3. w \in Seq(Piece) /\ n \in 1..Len(w) /\ Len(w) \in Nat
        BY <2>1 DEF w
      <4>4. SubSeq(w, 1, n) \o SubSeq(w, n + 1, Len(w)) = w
        <5>1. n \in 0..Len(w) /\ 1 \in 1..Len(w) + 1 /\ Len(w) \in n..Len(w) /\ n \in 1 - 1..Len(w)
          BY <4>3
        <5>2. SubSeq(w, 1, n) \o SubSeq(w, n + 1, Len(w)) = SubSeq(w, 1, Len(w))
          BY <4>3, <5>1, ConcatAdjacentSubSeq
        <5> QED
          BY <4>3, <5>2, SubSeqFull
      <4>5. SubSeq(w, 1, n) \in Seq(Piece) /\ SubSeq(w, n + 1, Len(w)) \in Seq(Piece)
        BY <4>3
      <4>6. buffer'[d] \o wire'[d] = buffer[d] \o w
        <5>1. buffer[d] \in Seq(Piece)
          BY <2>1
        <5>2. (buffer[d] \o SubSeq(w, 1, n)) \o SubSeq(w, n + 1, Len(w))
              = buffer[d] \o (SubSeq(w, 1, n) \o SubSeq(w, n + 1, Len(w)))
          BY <4>5, <5>1, Grouping
        <5> QED
          BY <4>2, <4>4, <5>2, Zenon
      <4> QED
        BY <2>1, <4>2, <4>6 DEF w
    <3> QED
      BY <3>1, <3>2
  <2>5. ASSUME NEW c \in Conns, Dispatch(c)
        PROVE  /\ LaidOut(frame[d], sent[d], buffer[d] \o wire[d])'
               /\ (pc[d] = "recv" => ~Complete(buffer[d]))'
    <3>1. CASE c # d
      BY <2>2, <2>5, <3>1 DEF Dispatch, Goto, history, Kept, TypeOK, Streams
    <3>2. CASE c = d
      <4>1. /\ Complete(buffer[d]) /\ frame'[d] = Append(frame[d], Head(buffer[d])[1])
            /\ buffer'[d] = Rest(buffer[d]) /\ wire'[d] = wire[d] /\ sent'[d] = sent[d]
            /\ pc'[d] # "recv"
        BY <2>5, <3>2 DEF Dispatch, Goto, history, TypeOK, Streams
      <4>2. LaidOut(Append(frame[d], Head(buffer[d])[1]), sent[d], Rest(buffer[d]) \o wire[d])
        BY <2>1, <4>1, DispatchKeepsOrder
      <4> QED
        BY <4>1, <4>2
    <3> QED
      BY <3>1, <3>2
  <2>6. ASSUME NEW c \in Conns, NeedMore(c)
        PROVE  /\ LaidOut(frame[d], sent[d], buffer[d] \o wire[d])'
               /\ (pc[d] = "recv" => ~Complete(buffer[d]))'
    BY <2>1, <2>6 DEF NeedMore, Goto, history, TypeOK
  <2>7. ASSUME NEW c \in Conns,
               \/ Close(c) \/ RecvEnds(c) \/ ListIdentity(c) \/ RegisterSession(c)
               \/ UnregisterSession(c) \/ CheckSession(c) \/ HandleCipRequest(c) \/ Respond(c)
               \/ ReleaseSessions(c)
        PROVE  Kept
    <3>1. UNCHANGED <<wire, buffer, frame, sent>>
      BY <2>7 DEF Close, RecvEnds, ListIdentity, RegisterSession, UnregisterSession, CheckSession,
                  HandleCipRequest, Respond, ReleaseSessions, history
    <3>2. pc'[d] = "recv" => pc[d] = "recv"
      BY <2>7 DEF Close, RecvEnds, ListIdentity, RegisterSession, UnregisterSession, CheckSession,
                  HandleCipRequest, Respond, ReleaseSessions, Goto, TypeOK
    <3> QED
      BY <3>1, <3>2 DEF Kept
  <2>8. ASSUME NEW a \in Assemblies, SetAssemblyData(a) PROVE Kept
    BY <2>8 DEF SetAssemblyData, Kept
  <2>9. CASE UNCHANGED vars
    BY <2>2, <2>9 DEF vars, history, Kept
  <2> QED
    BY <2>2, <2>3, <2>4, <2>5, <2>6, <2>7, <2>8, <2>9 DEF Next, HandlerStep
<1> QED
  BY <1>1, <1>2, TypeCorrect, OrderSuffices, PTL DEF Spec


-----------------------------------------------------------------------------
\* The step of PayloadSize at item k, from the bytes of the items before it.
SizeUpTo(f, upTo, k) == IF k = 0 THEN 8 ELSE upTo[k - 1] + 4 + Len(f.items[k].bytes)

\* The recursive function in PayloadSize exists.
LEMMA SizesExist ==
    ASSUME NEW f, f.items \in Seq(Item)
    PROVE  \E upTo : /\ upTo = [k \in 0..Len(f.items) |-> SizeUpTo(f, upTo, k)]
                     /\ PayloadSize(f) = upTo[Len(f.items)]
<1> DEFINE Part(n, g) == g = [k \in 0..n |-> SizeUpTo(f, g, k)]
           S == {n \in Nat : \E g : Part(n, g)}
<1>1. 0 \in S
  <2> DEFINE g == [k \in 0..0 |-> 8]
  <2>1. \A k \in 0..0 : SizeUpTo(f, g, k) = 8
    BY DEF SizeUpTo
  <2>2. Part(0, g)
    BY <2>1
  <2> QED
    BY <2>2
<1>2. ASSUME NEW n \in Nat, n \in S PROVE n + 1 \in S
  <2>1. PICK g : Part(n, g)
    BY <1>2
  <2> DEFINE h == [k \in 0..n + 1 |-> SizeUpTo(f, g, k)]
  <2>2. \A j \in 0..n : h[j] = g[j]
    <3>1. \A j \in 0..n : g[j] = SizeUpTo(f, g, j)
      BY <2>1
    <3> QED
      BY <3>1
  <2> HIDE DEF h
  <2>3. ASSUME NEW k \in 0..n + 1 PROVE SizeUpTo(f, h, k) = SizeUpTo(f, g, k)
    <3>1. k = 0 \/ h[k - 1] = g[k - 1]
      BY <2>2
    <3> QED
      BY <3>1 DEF SizeUpTo
  <2>4. Part(n + 1, h)
    BY <2>3 DEF h
  <2> QED
    BY <2>4
<1> HIDE DEF S
<1>3. Len(f.items) \in S
  BY <1>1, <1>2, Induction
<1>4. \E g : Part(Len(f.items), g)
  BY <1>3 DEF S
<1>5. PayloadSize(f) = (CHOOSE g : Part(Len(f.items), g))[Len(f.items)]
  BY DEF PayloadSize, SizeUpTo
<1> HIDE DEF Part
<1>6. \E g : Part(Len(f.items), g) /\ PayloadSize(f) = g[Len(f.items)]
  BY <1>4, <1>5
<1> QED
  BY <1>6 DEF Part

\* A payload is longer than any item in it, by its own header and the item's.
LEMMA PayloadHasItem ==
    ASSUME NEW f, f.items \in Seq(Item), NEW k \in 1..Len(f.items)
    PROVE  PayloadSize(f) \in Nat /\ Len(f.items[k].bytes) + 12 <= PayloadSize(f)
<1> DEFINE N == Len(f.items)
           size(j) == Len(f.items[j].bytes)
<1>1. PICK upTo : upTo = [j \in 0..N |-> SizeUpTo(f, upTo, j)] /\ PayloadSize(f) = upTo[N]
  BY SizesExist
<1>2. N \in Nat /\ \A j \in 1..N : size(j) \in Nat
  BY DEF Item
<1>3. upTo[0] = 8 /\ \A j \in 1..N : upTo[j] = upTo[j - 1] + 4 + size(j)
  <2>1. \A j \in 0..N : upTo[j] = SizeUpTo(f, upTo, j)
    BY <1>1
  <2> QED
    BY <1>2, <2>1 DEF SizeUpTo
<1> DEFINE Bound(n) == upTo[n] \in Nat /\ upTo[n] >= 8 /\ (n >= k => upTo[n] >= size(k) + 12)
           S == {n \in Nat : n <= N => Bound(n)}
<1> HIDE DEF N, size
<1>4. 0 \in S
  BY <1>2, <1>3
<1>5. ASSUME NEW n \in Nat, n \in S PROVE n + 1 \in S
  <2> SUFFICES ASSUME n + 1 <= N PROVE Bound(n + 1)
    OBVIOUS
  <2>1. n + 1 \in 1..N /\ (n + 1) - 1 = n
    BY <1>2
  <2>2. upTo[n + 1] = upTo[n] + 4 + size(n + 1) /\ size(n + 1) \in Nat
    BY <1>2, <1>3, <2>1
  <2>3. Bound(n)
    BY <1>2, <1>5
  <2>4. k \in Nat /\ (n + 1 >= k => k = n + 1 \/ n >= k)
    BY <1>2 DEF N
  <2>5. size(k) \in Nat
    BY <1>2 DEF N
  <2> QED
    BY <2>2, <2>3, <2>4, <2>5
<1> HIDE DEF S
<1>6. N \in S
  BY <1>2, <1>4, <1>5, Induction
<1>7. Bound(N)
  BY <1>2, <1>6 DEF S
<1> QED
  BY <1>1, <1>2, <1>7 DEF N, size

\* The last unconnected data item of a payload that is accepted is an item of it.
LEMMA RequestIsItem ==
    ASSUME NEW f \in Frame, Acceptable(f)
    PROVE  \E k \in 1..Len(f.items) : CipRequest(f) = f.items[k].bytes
<1> DEFINE S == Unconnected(f)
           N == Len(f.items)
           Later == {f.count - k : k \in S}
<1>1. f.items \in Seq(Item) /\ f.count \in Nat
  BY DEF Frame
<1>2. S \subseteq 1..f.count /\ S # {} /\ f.count <= N /\ N \in Nat /\ f.count \in Nat
  BY <1>1 DEF Acceptable, Unconnected
<1> HIDE DEF S, N
<1>3. Later \in SUBSET Nat /\ Later # {}
  <2>1. \A k \in S : f.count - k \in Nat
    BY <1>2
  <2> QED
    BY <1>2, <2>1
<1>4. PICK n \in Later : \A m \in Later : n <= m
  <2> HIDE DEF Later
  <2> QED
    BY <1>3, LeastNatural
<1>5. PICK last \in S : n = f.count - last
  BY <1>4
<1>6. \A k \in S : last >= k
  <2> SUFFICES ASSUME NEW k \in S PROVE last >= k
    OBVIOUS
  <2>1. f.count - last <= f.count - k
    BY <1>4, <1>5
  <2> QED
    BY <1>1, <1>2, <2>1
<1>7. Max(S) \in S
  BY <1>6 DEF Max
<1>8. \A k \in S : k \in 1..N
  BY <1>2
<1> QED
  BY <1>7, <1>8 DEF CipRequest, S, N

\* Assembly data fit a response unless the application configured or set some that
\* do not.
DataFits ==
    \A a \in DOMAIN data : data[a] \in Seq(Nat) /\ (oversized \/ Carries(data[a]))
\* A handler at work has a frame, and carries out only what it accepted.
AtWork ==
    \A c \in Conns : /\ pc[c] \in {"session", "cip"} => frame[c] # <<>>
                     /\ pc[c] = "cip" => Acceptable(Current(c))

\* The request a handler carries out is bytes, fewer than its payload has.
LEMMA RequestIsShorter ==
    ASSUME TypeOK, AtWork, NEW c \in Conns, pc[c] = "cip"
    PROVE  /\ CipRequest(Current(c)) \in Seq(Nat)
           /\ Len(CipRequest(Current(c))) + 12 <= MaxPayload
<1> DEFINE f == Current(c)
<1>1. f \in Frames
  <2>1. frame[c] \in Seq(Frames) /\ frame[c] # <<>>
    BY DEF TypeOK, AtWork
  <2> QED
    BY <2>1 DEF Current, Last
<1>2. f \in Frame /\ PayloadSize(f) <= MaxPayload /\ Acceptable(f)
  BY <1>1, EnipAssumption DEF AtWork, EnipAssumption
<1> HIDE DEF f
<1>4. f.items \in Seq(Item)
  <2>1. f \in Frame
    BY <1>2
  <2> QED
    BY <2>1 DEF Frame
<1>3. PICK k \in 1..Len(f.items) : CipRequest(f) = f.items[k].bytes
  BY <1>2, RequestIsItem
<1>5. f.items[k].bytes \in Seq(Nat)
  <2>1. f.items[k] \in Item
    BY <1>4
  <2> QED
    BY <2>1 DEF Item
<1>6. PayloadSize(f) \in Nat /\ Len(f.items[k].bytes) + 12 <= PayloadSize(f)
  BY <1>4, PayloadHasItem
<1>7. ASSUME NEW n \in Nat, NEW size \in Nat, n + 12 <= size, size <= MaxPayload
      PROVE  n + 12 <= MaxPayload
  BY <1>7, EnipAssumption DEF EnipAssumption
<1>8. Len(f.items[k].bytes) \in Nat
  BY <1>5
<1> QED
  BY <1>2, <1>3, <1>5, <1>6, <1>7, <1>8 DEF f

\* What the request writes fits a response, and so does its answer.
LEMMA RequestFits ==
    ASSUME TypeOK, DataFits, AtWork, NEW c \in Conns, pc[c] = "cip"
    PROVE  LET req == CipRequest(Current(c)) IN
           /\ \A a \in DOMAIN AssembliesAfter(req, data) :
                 /\ AssembliesAfter(req, data)[a] \in Seq(Nat)
                 /\ oversized \/ Carries(AssembliesAfter(req, data)[a])
           /\ \/ oversized \/ ~IdentityPacks
              \/ Answer(req, data) # Raises /\ Carries(Answer(req, data).data)
<1> DEFINE req == CipRequest(Current(c))
           after == AssembliesAfter(req, data)
<1>1. req \in Seq(Nat) /\ Len(req) + 12 <= MaxPayload
  BY RequestIsShorter
<1> HIDE DEF req
<1>2. ASSUME Len(req) >= 2, req[1] = SetAttributeSingle, Answer(req, data).status = Success
      PROVE  DataOf(req) \in Seq(Nat) /\ Carries(DataOf(req))
  <2>1. DataOf(req) \in Seq(Nat) /\ Len(DataOf(req)) + 8 <= Len(req)
    BY <1>1, <1>2, WrittenIsShorter
  <2>2. ASSUME NEW d \in Nat, NEW r \in Nat, d + 8 <= r, r + 12 <= MaxPayload
        PROVE  8 + 4 + 4 + 4 + d <= MaxPayload
    BY <2>2, EnipAssumption DEF EnipAssumption
  <2>3. Len(DataOf(req)) \in Nat /\ Len(req) \in Nat
    BY <1>1, <2>1
  <2> QED
    BY <1>1, <2>1, <2>2, <2>3 DEF Carries, ResponseSize
<1>3. ASSUME NEW a \in DOMAIN after PROVE after[a] \in Seq(Nat) /\ (oversized \/ Carries(after[a]))
  <2>1. CASE /\ Len(req) >= 2 /\ req[1] = SetAttributeSingle
             /\ Answer(req, data).status = Success
    <3>1. after = Updated(data, PathOf(req)["instance"], DataOf(req))
      BY <2>1 DEF AssembliesAfter
    <3>2. after[a] = DataOf(req) \/ (a \in DOMAIN data /\ after[a] = data[a])
      BY <3>1 DEF Updated
    <3> HIDE DEF after
    <3> QED
      BY <1>2, <2>1, <3>2 DEF DataFits
  <2>2. CASE ~(/\ Len(req) >= 2 /\ req[1] = SetAttributeSingle
               /\ Answer(req, data).status = Success)
    <3>1. after = data
      BY <2>2 DEF AssembliesAfter
    <3> QED
      BY <3>1 DEF DataFits
  <2> QED
    BY <2>1, <2>2
<1>4. ASSUME ~oversized, IdentityPacks
      PROVE  Answer(req, data) # Raises /\ Carries(Answer(req, data).data)
  <2>1. /\ Carries(<<>>)
        /\ \A k \in DOMAIN IdentityAttributes : Carries(IdentityAttributes[k])
        /\ Carries(FlattenSeq(SubSeq(IdentityAttributes, 1, 7)))
    BY <1>4, EnipAssumption DEF EnipAssumption, IdentityFits
  <2>2. \A a \in DOMAIN data : Carries(data[a])
    BY <1>4 DEF DataFits
  <2> QED
    BY <1>4, <2>1, <2>2, AnswerCarries
<1> QED
  BY <1>3, <1>4 DEF after, req

\* An Identity that can be packed has an ASCII name.
LEMMA PackedIsAscii == IdentityPacks => NameIsAscii
BY Zenon DEF IdentityPacks

\* A handler that has cut off a frame has one.
LEMMA HandledGrows ==
    ASSUME NEW handled \in Seq(Frames), NEW f \in Frames
    PROVE  Append(handled, f) # <<>>
<1>1. Len(Append(handled, f)) = Len(handled) + 1 /\ Len(handled) \in Nat
  OBVIOUS
<1>2. Len(<<>>) = 0
  OBVIOUS
<1>3. Len(Append(handled, f)) # 0
  BY <1>1
<1> QED
  BY <1>2, <1>3, Zenon

\* A handler fails only at a limit: the header's width for handles, an Identity
\* that cannot be packed or whose name is not ASCII, or data that the application
\* configured or set and that fit no response; no request of a client, of whatever
\* length, brings it to fail otherwise.
THEOREM HandlersFailAtLimits == Spec => [](DataFits /\ AtWork /\ CrashOnlyAtLimits)
<1> USE EnipAssumption DEF EnipAssumption
<1>1. Init => DataFits /\ AtWork /\ CrashOnlyAtLimits
  <2> SUFFICES ASSUME Init PROVE DataFits /\ AtWork /\ CrashOnlyAtLimits
    OBVIOUS
  <2>1. DataFits
    <3> SUFFICES ASSUME NEW a \in DOMAIN data
                 PROVE  data[a] \in Seq(Nat) /\ (oversized \/ Carries(data[a]))
      BY DEF DataFits
    <3>1. data \in Configurations /\ data[a] \in Seq(Nat)
      BY DEF Init
    <3>2. oversized \/ ~(ResponseSize(data[a]) > MaxPayload)
      BY Zenon DEF Init
    <3>3. ResponseSize(data[a]) \in Nat
      BY <3>1 DEF ResponseSize
    <3> QED
      BY <3>1, <3>2, <3>3 DEF Carries
  <2>2. AtWork /\ CrashOnlyAtLimits
    BY DEF Init, AtWork, CrashOnlyAtLimits
  <2> QED
    BY <2>1, <2>2
<1>2. TypeOK /\ Streams /\ DataFits /\ AtWork /\ CrashOnlyAtLimits /\ [Next]_vars
      => (DataFits /\ AtWork /\ CrashOnlyAtLimits)'
  <2> SUFFICES ASSUME TypeOK, Streams, DataFits, AtWork, CrashOnlyAtLimits, [Next]_vars
               PROVE  (DataFits /\ AtWork /\ CrashOnlyAtLimits)'
    OBVIOUS
  <2> USE DEF TypeOK, Goto, shared, history
  <2>1. ASSUME NEW c \in Conns, \/ Send(c) \/ Close(c) \/ Recv(c) \/ RecvEnds(c) \/ NeedMore(c)
                               \/ UnregisterSession(c) \/ Respond(c) \/ ReleaseSessions(c)
        PROVE  (DataFits /\ AtWork /\ CrashOnlyAtLimits)'
    <3>1. UNCHANGED <<data, oversized, nextHandle, frame>>
      BY <2>1 DEF Send, Close, Recv, RecvEnds, NeedMore, UnregisterSession, Respond, ReleaseSessions
    <3>2. \A d \in Conns : pc'[d] = pc[d] \/ pc'[d] \in {"parse", "recv", "send", "release", "gone"}
      BY <2>1 DEF Send, Close, Recv, RecvEnds, NeedMore, UnregisterSession, Respond, ReleaseSessions
    <3>3. DataFits'
      BY <3>1 DEF DataFits
    <3>4. AtWork'
      BY <3>1, <3>2 DEF AtWork, Current
    <3>5. CrashOnlyAtLimits'
      BY <3>1, <3>2 DEF CrashOnlyAtLimits
    <3> QED
      BY <3>3, <3>4, <3>5
  <2>2. ASSUME NEW c \in Conns, Dispatch(c)
        PROVE  (DataFits /\ AtWork /\ CrashOnlyAtLimits)'
    <3>1. UNCHANGED <<data, oversized, nextHandle>>
      BY <2>2 DEF Dispatch
    <3>2. \A d \in Conns \ {c} : pc'[d] = pc[d] /\ frame'[d] = frame[d]
      BY <2>2 DEF Dispatch
    <3>3. pc'[c] \in {"send", "session"} /\ frame'[c] # <<>>
      <4>1. frame'[c] = Append(frame[c], Head(buffer[c])[1]) /\ frame[c] \in Seq(Frames)
        BY <2>2 DEF Dispatch
      <4>2. Append(frame[c], Head(buffer[c])[1]) # <<>>
        <5>1. buffer[c] \in Seq(Piece) /\ Complete(buffer[c])
          BY <2>2 DEF Dispatch, Streams
        <5>2. Head(buffer[c])[1] \in Frames
          BY <5>1, RestType
        <5> QED
          BY <4>1, <5>2, HandledGrows
      <4>3. pc'[c] \in {"send", "session"}
        BY <2>2 DEF Dispatch
      <4> QED
        BY <4>1, <4>2, <4>3
    <3>4. DataFits'
      BY <3>1 DEF DataFits
    <3>5. AtWork'
      BY <3>2, <3>3 DEF AtWork, Current
    <3>6. CrashOnlyAtLimits'
      BY <3>1, <3>2, <3>3 DEF CrashOnlyAtLimits
    <3> QED
      BY <3>4, <3>5, <3>6
  <2>3. ASSUME NEW c \in Conns, RegisterSession(c)
        PROVE  (DataFits /\ AtWork /\ CrashOnlyAtLimits)'
    <3>1. UNCHANGED <<data, oversized, frame>> /\ nextHandle' = nextHandle + 1
      BY <2>3 DEF RegisterSession
    <3>2. \A d \in Conns \ {c} : pc'[d] = pc[d]
      BY <2>3 DEF RegisterSession
    <3>3. pc'[c] = "send" \/ (pc'[c] = "crashed" /\ nextHandle > MaxHandle)
      BY <2>3 DEF RegisterSession
    <3>4. DataFits'
      BY <3>1 DEF DataFits
    <3>5. AtWork'
      BY <3>1, <3>2, <3>3 DEF AtWork, Current
    <3>6. CrashOnlyAtLimits'
      BY <3>1, <3>2, <3>3 DEF CrashOnlyAtLimits
    <3> QED
      BY <3>4, <3>5, <3>6
  <2>4. ASSUME NEW c \in Conns, CheckSession(c)
        PROVE  (DataFits /\ AtWork /\ CrashOnlyAtLimits)'
    <3>1. UNCHANGED <<data, oversized, nextHandle, frame>>
      BY <2>4 DEF CheckSession
    <3>2. \A d \in Conns \ {c} : pc'[d] = pc[d]
      BY <2>4 DEF CheckSession
    <3>3. pc'[c] = "send" \/ (pc'[c] = "cip" /\ pc[c] = "session" /\ Acceptable(Current(c)))
      BY <2>4 DEF CheckSession
    <3>4. DataFits'
      BY <3>1 DEF DataFits
    <3>5. AtWork'
      BY <3>1, <3>2, <3>3 DEF AtWork, Current
    <3>6. CrashOnlyAtLimits'
      BY <3>1, <3>2, <3>3 DEF CrashOnlyAtLimits
    <3> QED
      BY <3>4, <3>5, <3>6
  <2>5. ASSUME NEW c \in Conns, HandleCipRequest(c)
        PROVE  (DataFits /\ AtWork /\ CrashOnlyAtLimits)'
    <3> DEFINE req == CipRequest(Current(c))
    <3>1. UNCHANGED <<oversized, nextHandle, frame>> /\ data' = AssembliesAfter(req, data)
      BY <2>5 DEF HandleCipRequest
    <3>2. \A d \in Conns \ {c} : pc'[d] = pc[d]
      BY <2>5 DEF HandleCipRequest
    <3>3. /\ pc[c] = "cip"
          /\ pc'[c] = IF Answer(req, data) = Raises \/ ResponseSize(Answer(req, data).data) > MaxPayload
                      THEN "crashed" ELSE "send"
      BY <2>5 DEF HandleCipRequest
    <3>4. /\ \A a \in DOMAIN AssembliesAfter(req, data) :
                /\ AssembliesAfter(req, data)[a] \in Seq(Nat)
                /\ oversized \/ Carries(AssembliesAfter(req, data)[a])
          /\ \/ oversized \/ ~IdentityPacks
             \/ Answer(req, data) # Raises /\ Carries(Answer(req, data).data)
      BY <3>3, RequestFits
    <3>5. DataFits'
      BY <3>1, <3>4 DEF DataFits
    <3>6. AtWork'
      BY <3>1, <3>2, <3>3 DEF AtWork, Current
    <3>7. CrashOnlyAtLimits'
      <4>1. ASSUME NEW size \in Nat, size <= MaxPayload PROVE ~(size > MaxPayload)
        BY <4>1
      <4>2. pc'[c] # "crashed" \/ oversized \/ ~IdentityPacks
        <5> SUFFICES ASSUME Answer(req, data) # Raises, Carries(Answer(req, data).data)
                     PROVE  pc'[c] # "crashed"
          BY <3>4
        <5> DEFINE d == Answer(req, data).data
        <5>1. Answer(req, data) # Raises /\ d \in Seq(Nat) /\ ResponseSize(d) <= MaxPayload
          BY DEF Carries
        <5>2. ResponseSize(d) \in Nat
          BY <5>1 DEF ResponseSize
        <5>3. ~(ResponseSize(d) > MaxPayload)
          BY <4>1, <5>1, <5>2
        <5> QED
          BY <3>3, <5>1, <5>3
      <4> QED
        BY <3>1, <3>2, <4>2 DEF CrashOnlyAtLimits
    <3> QED
      BY <3>5, <3>6, <3>7
  <2>6. ASSUME NEW a \in Assemblies, SetAssemblyData(a)
        PROVE  (DataFits /\ AtWork /\ CrashOnlyAtLimits)'
    <3>1. PICK d \in ApiData : /\ data' = Updated(data, a, d)
                               /\ oversized' = (oversized \/ ResponseSize(d) > MaxPayload)
      BY <2>6 DEF SetAssemblyData
    <3>2. UNCHANGED <<nextHandle, frame, pc>>
      BY <2>6 DEF SetAssemblyData
    <3>3. d \in Seq(Nat)
      OBVIOUS
    <3>4. DataFits'
      <4> SUFFICES ASSUME NEW x \in DOMAIN data'
                   PROVE  data'[x] \in Seq(Nat) /\ (oversized' \/ Carries(data'[x]))
        BY DEF DataFits, Carries
      <4>1. data'[x] = d \/ (x \in DOMAIN data /\ data'[x] = data[x])
        BY <3>1 DEF Updated
      <4>2. ResponseSize(d) > MaxPayload \/ Carries(d)
        <5>1. ResponseSize(d) \in Nat
          BY <3>3 DEF ResponseSize
        <5> QED
          BY <3>3, <5>1 DEF Carries
      <4> QED
        BY <3>1, <3>3, <4>1, <4>2 DEF DataFits
    <3>5. AtWork'
      BY <3>2 DEF AtWork, Current
    <3>6. CrashOnlyAtLimits'
      BY <3>1, <3>2 DEF CrashOnlyAtLimits
    <3> QED
      BY <3>4, <3>5, <3>6
  <2>7. ASSUME NEW c \in Conns, ListIdentity(c)
        PROVE  (DataFits /\ AtWork /\ CrashOnlyAtLimits)'
    <3>1. UNCHANGED <<data, oversized, nextHandle, frame>>
      BY <2>7 DEF ListIdentity
    <3>2. \A d \in Conns \ {c} : pc'[d] = pc[d]
      BY <2>7 DEF ListIdentity
    <3>3. pc'[c] \in {"send", "release"} \/ (pc'[c] = "crashed" /\ ~IdentityPacks)
      BY <2>7, PackedIsAscii DEF ListIdentity
    <3>4. DataFits'
      BY <3>1 DEF DataFits
    <3>5. AtWork'
      BY <3>1, <3>2, <3>3 DEF AtWork, Current
    <3>6. CrashOnlyAtLimits'
      BY <3>1, <3>2, <3>3 DEF CrashOnlyAtLimits
    <3> QED
      BY <3>4, <3>5, <3>6
  <2>8. CASE UNCHANGED vars
    BY <2>8 DEF vars, DataFits, AtWork, Current, CrashOnlyAtLimits
  <2> QED
    BY <2>1, <2>2, <2>3, <2>4, <2>5, <2>6, <2>7, <2>8 DEF Next, HandlerStep
<1> QED
  BY <1>1, <1>2, TypeCorrect, PTL DEF Spec
=============================================================================
