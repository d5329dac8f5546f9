------------------------- MODULE BacnetCodecProofs -------------------------
(***************************************************************************)
(* What is made of a datagram: the bytes of each kind of request are       *)
(* followed through the headers and the tags, for every object, property   *)
(* and value and every length of the addresses (MeaningEverywhere), hence  *)
(* for the datagrams of the model (RequestsAreUnderstood) and those of     *)
(* MeaningIsIntended (DatagramsUnderstood).  One whose route is misread    *)
(* is never carried out as something else (MisreadTouchesNothing; for the  *)
(* routes of the model NeverTakenForAnother).  Numbers are read and        *)
(* written by recursive functions: what these compute is proved by         *)
(* complete induction over a set of numbers (CompleteInduction).  Facts    *)
(* about sequences and arithmetic are kept in steps of their own.          *)
(***************************************************************************)
EXTENDS BacnetObjects, SequenceTheorems, FiniteSetTheorems, WellFoundedInduction, TLAPS

Bytes == 0..255
High(o) == (o \div 256) \div 256
Middle(o) == (o \div 256) % 256
Low(o) == o % 256

\* A byte is a number.
LEMMA BytesAreNumbers == \A b \in Bytes : b \in Nat /\ b \in Int
BY DEF Bytes

\* So is the greatest instance number.
LEMMA MaxInstanceType == MaxInstance \in Nat
BY SMT DEF MaxInstance

\* A number and its last byte.
LEMMA DivisionBy256 ==
    \A n \in Nat : n % 256 \in Bytes /\ n \div 256 \in Nat /\ n = 256 * (n \div 256) + (n % 256)
BY DEF Bytes

\* The bytes of an instance number.
LEMMA InstanceBytes ==
    \A o \in 0..MaxInstance :
        /\ High(o) \in 0..63 /\ Middle(o) \in Bytes /\ Low(o) \in Bytes
        /\ o = (High(o) * 256 + Middle(o)) * 256 + Low(o)
<1>1. \A o \in 0..MaxInstance : o \in Nat /\ o <= MaxInstance
  BY MaxInstanceType
<1>2. MaxInstance < 64 * 256 * 256
  BY SMT DEF MaxInstance
<1> SUFFICES ASSUME NEW o \in Nat, o < 64 * 256 * 256
             PROVE  /\ High(o) \in 0..63 /\ Middle(o) \in Bytes /\ Low(o) \in Bytes
                    /\ o = (High(o) * 256 + Middle(o)) * 256 + Low(o)
  BY <1>1, <1>2, MaxInstanceType
<1> DEFINE q == o \div 256
<1>3. q \in Nat /\ o = 256 * q + Low(o) /\ Low(o) \in Bytes
  BY DivisionBy256 DEF Low
<1>4. High(o) \in Nat /\ q = 256 * High(o) + Middle(o) /\ Middle(o) \in Bytes
  BY <1>3, DivisionBy256 DEF High, Middle
<1> HIDE DEF q
<1> QED
  BY <1>3, <1>4 DEF Bytes

\* An object identifier names an Analog Value by these bytes.
LEMMA ObjectIdIs ==
    \A o \in 0..MaxInstance :
        ObjectId(AnalogValue, o) = <<0, 128 + High(o), Middle(o), Low(o)>>
<1>1. \A o \in 0..MaxInstance : o \in Nat
  BY MaxInstanceType
<1>2. \A o \in Nat : o \div 65536 = (o \div 256) \div 256
  BY SMT
<1>3. 2 \div 4 = 0 /\ (2 % 4) * 64 = 128
  BY SMT
<1> QED
  BY <1>1, <1>2, <1>3 DEF ObjectId, AnalogValue, High, Middle, Low

\* The type and the instance are read from these bytes as they were written.
LEMMA ObjectIdRead ==
    \A h \in 0..63, m \in Bytes, l \in Bytes :
        LET id == ((0 * 256 + (128 + h)) * 256 + m) * 256 + l IN
        id \div (MaxInstance + 1) = AnalogValue /\ id % (MaxInstance + 1) = (h * 256 + m) * 256 + l
BY SMT DEF MaxInstance, AnalogValue, Bytes

\* So are those of the device.
LEMMA DeviceIdRead ==
    \A h \in 0..63, m \in Bytes, l \in Bytes :
        LET id == ((2 * 256 + h) * 256 + m) * 256 + l IN
        id \div (MaxInstance + 1) = DeviceType /\ id % (MaxInstance + 1) = (h * 256 + m) * 256 + l
BY SMTT(30) DEF MaxInstance, DeviceType, Bytes

\* The elements of a sequence of bytes.
LEMMA Elements == \A s \in Seq(Bytes) : Len(s) \in Nat /\ \A k \in 1..Len(s) : s[k] \in Bytes
BY ElementOfSeq, LenProperties

\* A part of a sequence.
LEMMA Slice ==
    \A s \in Seq(Bytes) : \A m \in 1..Len(s) + 1 : \A n \in m - 1..Len(s) :
        /\ SubSeq(s, m, n) \in Seq(Bytes) /\ Len(SubSeq(s, m, n)) = (n + 1) - m
        /\ \A i \in 1..(n + 1) - m : SubSeq(s, m, n)[i] = s[i + (m - 1)]
<1> SUFFICES ASSUME NEW s \in Seq(Bytes), NEW m \in 1..Len(s) + 1, NEW n \in m - 1..Len(s)
             PROVE  /\ SubSeq(s, m, n) \in Seq(Bytes) /\ Len(SubSeq(s, m, n)) = (n + 1) - m
                    /\ \A i \in 1..(n + 1) - m : SubSeq(s, m, n)[i] = s[i + (m - 1)]
  OBVIOUS
<1> DEFINE L == Len(s)
           t == SubSeq(s, m, n)
<1>1. L \in Nat /\ \A k \in 1..L : s[k] \in Bytes
  BY Elements
<1> HIDE DEF L
<1>2. m \in Int /\ n \in Int /\ 1 <= m /\ n <= L /\ m <= n + 1
  BY <1>1 DEF L
<1>3. \A i \in m..n : s[i] \in Bytes
  BY <1>1, <1>2
<1>4. /\ t \in Seq(Bytes) /\ Len(t) = IF m <= n THEN n - m + 1 ELSE 0
      /\ \A i \in 1..n - m + 1 : t[i] = s[m + i - 1]
  BY <1>2, <1>3, SubSeqProperties
<1> HIDE DEF t
<1>5. Len(t) = (n + 1) - m
  BY <1>2, <1>4
<1>6. ASSUME NEW i \in 1..(n + 1) - m PROVE t[i] = s[i + (m - 1)]
  <2>1. i \in 1..n - m + 1 /\ m + i - 1 = i + (m - 1)
    BY <1>2
  <2> QED
    BY <1>4, <2>1
<1> QED
  BY <1>4, <1>5, <1>6 DEF t

\* The value of one, two or four bytes: the recursive function in Number is given for
\* these lengths, so that no induction is needed.
LEMMA NumberOfBytes ==
    \A s : (\A k \in 1..Len(s) : s[k] \in Bytes) =>
        /\ Len(s) = 1 => Number(s) = s[1]
        /\ Len(s) = 2 => Number(s) = s[1] * 256 + s[2]
        /\ Len(s) = 4 => Number(s) = ((s[1] * 256 + s[2]) * 256 + s[3]) * 256 + s[4]
<1> SUFFICES ASSUME NEW s, Len(s) \in {1, 2, 4}, \A k \in 1..Len(s) : s[k] \in Bytes
             PROVE  /\ Len(s) = 1 => Number(s) = s[1]
                    /\ Len(s) = 2 => Number(s) = s[1] * 256 + s[2]
                    /\ Len(s) = 4 => Number(s) = ((s[1] * 256 + s[2]) * 256 + s[3]) * 256 + s[4]
  OBVIOUS
<1> DEFINE IsUpTo(f) == f = [k \in 0..Len(s) |-> IF k = 0 THEN 0 ELSE 256 * f[k - 1] + s[k]]
           two == s[1] * 256 + s[2]
           three == two * 256 + s[3]
           g == [k \in 0..Len(s) |-> IF k = 0 THEN 0 ELSE IF k = 1 THEN s[1]
                                     ELSE IF k = 2 THEN two ELSE IF k = 3 THEN three
                                     ELSE three * 256 + s[4]]
           c == CHOOSE f : IsUpTo(f)
<1>1. \A k \in 1..Len(s) : s[k] \in Int
  BY BytesAreNumbers
<1>2. IsUpTo(g)
  <2>1. ASSUME NEW k \in 0..Len(s) PROVE g[k] = IF k = 0 THEN 0 ELSE 256 * g[k - 1] + s[k]
    <3>1. CASE k = 0
      BY <3>1
    <3>2. CASE k = 1
      BY <1>1, <3>2
    <3>3. CASE k = 2
      BY <1>1, <3>3
    <3>4. CASE k = 3
      BY <1>1, <3>4
    <3>5. CASE k = 4
      BY <1>1, <3>5
    <3> QED
      BY <3>1, <3>2, <3>3, <3>4, <3>5
  <2> HIDE DEF two, three
  <2> QED
    BY <2>1
<1>3. Number(s) = c[Len(s)]
  BY DEF Number
<1> HIDE DEF g
<1>4. IsUpTo(c)
  BY <1>2
<1> HIDE DEF c
<1>5. c[0] = 0 /\ \A k \in 1..Len(s) : c[k] = 256 * c[k - 1] + s[k]
  BY <1>4
<1>6. CASE Len(s) = 1
  BY <1>1, <1>3, <1>5, <1>6
<1>7. CASE Len(s) = 2
  BY <1>1, <1>3, <1>5, <1>7
<1>8. CASE Len(s) = 4
  BY <1>1, <1>3, <1>5, <1>8
<1> QED
  BY <1>6, <1>7, <1>8

\* A concatenation, from both its parts.
LEMMA Concat ==
    \A s \in Seq(Bytes), t \in Seq(Bytes) :
        /\ s \o t \in Seq(Bytes) /\ Len(s \o t) = Len(s) + Len(t)
        /\ \A i \in 1..Len(s) : (s \o t)[i] = s[i]
        /\ \A i \in 1..Len(t) : (s \o t)[Len(s) + i] = t[i]
<1> SUFFICES ASSUME NEW s \in Seq(Bytes), NEW t \in Seq(Bytes)
             PROVE  /\ s \o t \in Seq(Bytes) /\ Len(s \o t) = Len(s) + Len(t)
                    /\ \A i \in 1..Len(s) : (s \o t)[i] = s[i]
                    /\ \A i \in 1..Len(t) : (s \o t)[Len(s) + i] = t[i]
  OBVIOUS
<1> DEFINE m == Len(s)
           n == Len(t)
           u == s \o t
<1>1. m \in Nat /\ n \in Nat
  BY LenProperties
<1>2. /\ u \in Seq(Bytes) /\ Len(u) = m + n
      /\ \A i \in 1..m + n : u[i] = IF i <= m THEN s[i] ELSE t[i - m]
  BY ConcatProperties
<1> HIDE DEF m, n, u
<1>3. \A i \in 1..m : u[i] = s[i]
  BY <1>1, <1>2
<1>4. \A i \in 1..n : u[m + i] = t[i]
  <2> SUFFICES ASSUME NEW i \in 1..n PROVE u[m + i] = t[i]
    OBVIOUS
  <2>1. m + i \in 1..m + n /\ ~(m + i <= m) /\ (m + i) - m = i
    BY <1>1
  <2> QED
    BY <1>2, <2>1
<1> QED
  BY <1>2, <1>3, <1>4 DEF m, n, u

\* An absent part adds nothing.
LEMMA ConcatEmpty == \A s \in Seq(Bytes) : s \o <<>> = s
BY ConcatEmptySeq

-----------------------------------------------------------------------------
(* Complete induction *)

\* Every non-empty set of natural numbers has a least element.
LEMMA LeastNatural ==
    ASSUME NEW S \in SUBSET Nat, S # {}
    PROVE  \E m \in S : \A n \in S : m <= n
<1> DEFINE Intervals == {0..n : n \in S}
<1>1. Intervals \subseteq FiniteSubsetsOf(Nat)
  <2> SUFFICES ASSUME NEW n \in S PROVE 0..n \in FiniteSubsetsOf(Nat)
    OBVIOUS
  <2> QED
    BY FS_Interval DEF FiniteSubsetsOf
<1>2. Intervals # {}
  OBVIOUS
<1>3. \E x \in Intervals : \A y \in Intervals : <<y, x>> \notin StrictSubsetOrdering(Nat)
  <2> HIDE DEF Intervals
  <2> QED
    BY <1>1, <1>2, FS_StrictSubsetOrderingWellFounded, WFMin
<1>4. PICK m \in S : \A n \in S : <<0..n, 0..m>> \notin StrictSubsetOrdering(Nat)
  BY <1>3
<1>5. ASSUME NEW n \in S PROVE m <= n
  <2>1. ~(0..n \subseteq 0..m /\ 0..n # 0..m)
    BY <1>4, 0..n \in SUBSET Nat, 0..m \in SUBSET Nat DEF StrictSubsetOrdering
  <2> QED
    BY <2>1
<1> QED
  BY <1>5

\* A set has every number if it has each number below which it has all.
LEMMA CompleteInduction ==
    ASSUME NEW S, \A n \in Nat : (\A m \in 0..n - 1 : m \in S) => n \in S
    PROVE  \A n \in Nat : n \in S
<1> SUFFICES ASSUME Nat \ S # {} PROVE FALSE
  OBVIOUS
<1>1. PICK n \in Nat \ S : \A m \in Nat \ S : n <= m
  BY LeastNatural
<1>2. \A m \in 0..n - 1 : m \in Nat /\ ~(n <= m)
  BY <1>1
<1> QED
  BY <1>1, <1>2

-----------------------------------------------------------------------------
(* Numbers of any size *)

\* The recursion of Number.
Upto(s, f, k) == IF k = 0 THEN 0 ELSE 256 * f[k - 1] + s[k]
IsUpto(s, f) == f = [k \in 0..Len(s) |-> Upto(s, f, k)]

\* It has a solution.
LEMMA UptoExists ==
    ASSUME NEW s, Len(s) \in Nat
    PROVE  \E f : IsUpto(s, f) /\ Number(s) = f[Len(s)]
<1> DEFINE Part(n, g) == g = [k \in 0..n |-> Upto(s, g, k)]
           S == {n \in Nat : \E g : Part(n, g)}
<1>1. ASSUME NEW n \in Nat, \A m \in 0..n - 1 : m \in S PROVE n \in S
  <2>1. PICK g : n = 0 \/ Part(n - 1, g)
    <3>1. CASE n = 0
      BY <3>1
    <3>2. CASE n # 0
      <4>1. n - 1 \in 0..n - 1
        BY <3>2
      <4>2. n - 1 \in S
        BY <1>1, <4>1
      <4> QED
        BY <4>2
    <3> QED
      BY <3>1, <3>2
  <2> DEFINE h == [k \in 0..n |-> Upto(s, g, k)]
  <2>2. \A k \in 0..n - 1 : g[k] = h[k]
    <3> SUFFICES ASSUME NEW k \in 0..n - 1 PROVE g[k] = h[k]
      OBVIOUS
    <3>1. n # 0 /\ k \in 0..n
      OBVIOUS
    <3>2. g[k] = Upto(s, g, k)
      BY <2>1, <3>1
    <3> QED
      BY <3>1, <3>2
  <2>3. \A k \in 0..n : Upto(s, g, k) = Upto(s, h, k)
    <3> SUFFICES ASSUME NEW k \in 0..n, k # 0 PROVE g[k - 1] = h[k - 1]
      BY ZenonT(20) DEF Upto
    <3>1. k - 1 \in 0..n - 1
      OBVIOUS
    <3> QED
      BY <2>2, <3>1
  <2>4. Part(n, h)
    BY <2>3
  <2> HIDE DEF Part, h
  <2>5. \E f : Part(n, f)
    BY <2>4
  <2> QED
    BY <2>5
<1> HIDE DEF S
<1>2. Len(s) \in S
  BY <1>1, CompleteInduction
<1>3. \E f : IsUpto(s, f)
  BY <1>2 DEF S, IsUpto
<1>4. Number(s) = (CHOOSE f : IsUpto(s, f))[Len(s)]
  BY DEF Number, IsUpto, Upto
<1> QED
  BY <1>3, <1>4

\* A byte behind a number: 256 times as much, and the byte.
LEMMA NumberGrows ==
    ASSUME NEW s \in Seq(Bytes), NEW b \in Bytes, Number(s) \in Nat
    PROVE  Number(s \o <<b>>) = 256 * Number(s) + b
<1> DEFINE t == s \o <<b>>
           L == Len(s)
<1>1. <<b>> \in Seq(Bytes) /\ Len(<<b>>) = 1 /\ <<b>>[1] = b
  OBVIOUS
<1>2. L \in Nat /\ t \in Seq(Bytes) /\ Len(t) = L + 1
  BY <1>1, Concat, LenProperties
<1>3. \A k \in 1..L : t[k] = s[k]
  BY <1>1, Concat
<1>4. t[L + 1] = b
  BY <1>1, Concat, 1 \in 1..1
<1> HIDE DEF t
<1>5. PICK f : IsUpto(s, f) /\ Number(s) = f[L]
  BY <1>2, UptoExists
<1>6. L + 1 \in Nat
  BY <1>2
<1>7. PICK g : IsUpto(t, g) /\ Number(t) = g[L + 1]
  BY <1>2, <1>6, UptoExists
<1> HIDE DEF L
<1>8. \A k \in 0..L : f[k] = Upto(s, f, k)
  BY <1>5 DEF IsUpto, L
<1>9. \A k \in 0..L + 1 : g[k] = Upto(t, g, k)
  BY <1>2, <1>7 DEF IsUpto
<1> DEFINE S == {n \in Nat : n <= L => f[n] = g[n]}
<1>10. ASSUME NEW n \in Nat, \A m \in 0..n - 1 : m \in S PROVE n \in S
  <2> SUFFICES ASSUME n <= L PROVE f[n] = g[n]
    OBVIOUS
  <2>1. n \in 0..L /\ n \in 0..L + 1
    BY <1>2
  <2>2. f[n] = Upto(s, f, n) /\ g[n] = Upto(t, g, n)
    BY <1>8, <1>9, <2>1
  <2>3. CASE n = 0
    BY <2>2, <2>3 DEF Upto
  <2>4. CASE n # 0
    <3>1. n - 1 \in 0..n - 1 /\ n - 1 <= L /\ n \in 1..L
      BY <1>2, <2>4
    <3>2. f[n - 1] = g[n - 1] /\ t[n] = s[n]
      BY <1>3, <1>10, <3>1 DEF L
    <3> QED
      BY <2>2, <2>4, <3>2 DEF Upto
  <2> QED
    BY <2>3, <2>4
<1> HIDE DEF S
<1>11. L \in S
  BY <1>2, <1>10, CompleteInduction
<1>12. f[L] = g[L]
  BY <1>2, <1>11 DEF S
<1>13. g[L + 1] = 256 * g[L] + t[L + 1]
  <2>1. L + 1 \in 0..L + 1 /\ L + 1 # 0 /\ (L + 1) - 1 = L
    BY <1>2
  <2>2. g[L + 1] = Upto(t, g, L + 1)
    BY <1>9, <2>1
  <2> QED
    BY <2>1, <2>2 DEF Upto
<1> QED
  BY <1>4, <1>5, <1>7, <1>12, <1>13 DEF t

\* The recursion of Unsigned.
Digits(f, k) == IF k < 256 THEN <<k>> ELSE f[k \div 256] \o <<k % 256>>
AreDigits(f, n) == f = [k \in 0..n |-> Digits(f, k)]

\* A number has fewer digits than itself behind its last one.
LEMMA Quotient ==
    \A n \in Nat : n >= 256 => n \div 256 \in 0..n - 1
BY SMT

\* It has a solution for every number, and solutions for different numbers agree.
LEMMA DigitsExist ==
    ASSUME NEW n \in Nat
    PROVE  \E f : AreDigits(f, n) /\ Unsigned(n) = f[n]
<1> DEFINE S == {m \in Nat : \E f : AreDigits(f, m)}
<1>1. ASSUME NEW m \in Nat, \A k \in 0..m - 1 : k \in S PROVE m \in S
  <2>1. PICK g : m = 0 \/ AreDigits(g, m - 1)
    <3>1. CASE m = 0
      BY <3>1
    <3>2. CASE m # 0
      <4>1. m - 1 \in 0..m - 1
        BY <3>2
      <4>2. m - 1 \in S
        BY <1>1, <4>1
      <4> QED
        BY <4>2
    <3> QED
      BY <3>1, <3>2
  <2> DEFINE h == [k \in 0..m |-> Digits(g, k)]
  <2>2. \A k \in 0..m - 1 : g[k] = h[k]
    <3> SUFFICES ASSUME NEW k \in 0..m - 1 PROVE g[k] = h[k]
      OBVIOUS
    <3>1. m # 0 /\ k \in 0..m
      OBVIOUS
    <3>2. g[k] = Digits(g, k)
      BY <2>1, <3>1 DEF AreDigits
    <3> QED
      BY <3>1, <3>2
  <2>3. ASSUME NEW k \in 0..m PROVE Digits(g, k) = Digits(h, k)
    <3>1. CASE k < 256
      BY <3>1 DEF Digits
    <3>2. CASE ~(k < 256)
      <4> DEFINE r == k \div 256
      <4>1. r \in 0..k - 1
        BY <3>2, Quotient
      <4> HIDE DEF r
      <4>2. r \in 0..m - 1
        BY <4>1
      <4>3. g[r] = h[r]
        BY <2>2, <4>2
      <4> QED
        BY <3>2, <4>3 DEF Digits, r
    <3> QED
      BY <3>1, <3>2
  <2>4. AreDigits(h, m)
    BY <2>3 DEF AreDigits
  <2> HIDE DEF h
  <2> QED
    BY <2>4
<1> HIDE DEF S
<1>2. n \in S
  BY <1>1, CompleteInduction
<1>3. \E f : AreDigits(f, n)
  BY <1>2 DEF S
<1>4. Unsigned(n) = (CHOOSE f : AreDigits(f, n))[n]
  BY DEF Unsigned, AreDigits, Digits
<1> QED
  BY <1>3, <1>4

\* A number is written as what stands before its last byte, and that byte.
LEMMA UnsignedStep ==
    ASSUME NEW n \in Nat
    PROVE  Unsigned(n) = IF n < 256 THEN <<n>> ELSE Unsigned(n \div 256) \o <<n % 256>>
<1>1. PICK f : AreDigits(f, n) /\ Unsigned(n) = f[n]
  BY DigitsExist
<1>2. \A k \in 0..n : f[k] = Digits(f, k)
  BY <1>1 DEF AreDigits
<1>3. n \in 0..n
  OBVIOUS
<1>4. CASE n < 256
  BY <1>1, <1>2, <1>3, <1>4 DEF Digits
<1>5. CASE ~(n < 256)
  <2> DEFINE q == n \div 256
  <2>1. q \in 0..n - 1 /\ q \in Nat
    BY <1>5, Quotient
  <2>2. f[n] = f[q] \o <<n % 256>>
    BY <1>2, <1>3, <1>5, ZenonT(20) DEF Digits
  <2> HIDE DEF q
  <2>3. PICK g : AreDigits(g, q) /\ Unsigned(q) = g[q]
    BY <2>1, DigitsExist
  <2>4. \A k \in 0..q : g[k] = Digits(g, k)
    BY <2>3 DEF AreDigits
  <2> DEFINE S == {m \in Nat : m <= q => f[m] = g[m]}
  <2>5. ASSUME NEW m \in Nat, \A k \in 0..m - 1 : k \in S PROVE m \in S
    <3> SUFFICES ASSUME m <= q PROVE f[m] = g[m]
      OBVIOUS
    <3>1. m \in 0..q /\ m \in 0..n
      BY <2>1
    <3>2. f[m] = Digits(f, m) /\ g[m] = Digits(g, m)
      BY <1>2, <2>4, <3>1
    <3>3. CASE m < 256
      BY <3>2, <3>3 DEF Digits
    <3>4. CASE ~(m < 256)
      <4> DEFINE r == m \div 256
      <4>1. r \in 0..m - 1
        BY <3>4, Quotient
      <4> HIDE DEF r
      <4>2. r \in S /\ r <= q
        BY <2>1, <2>5, <3>1, <4>1
      <4>3. f[r] = g[r]
        BY <4>2
      <4> QED
        BY <3>2, <3>4, <4>3 DEF Digits, r
    <3> QED
      BY <3>3, <3>4
  <2> HIDE DEF S
  <2>6. q \in S
    BY <2>1, <2>5, CompleteInduction
  <2>7. f[q] = g[q]
    BY <2>1, <2>6 DEF S
  <2> QED
    BY <1>1, <1>5, <2>2, <2>3, <2>7, ZenonT(20) DEF q
<1> QED
  BY <1>4, <1>5

\* Numbers of up to four bytes.
Fits(n) == n \in Nat /\ ((n \div 256) \div 256) \div 256 < 256

\* A number is read as it was written, whatever its size, and takes one byte more
\* than its quotient by 256 (_encode_unsigned_value and int.from_bytes).
THEOREM NumbersAreRead ==
    \A n \in Nat :
        /\ Unsigned(n) \in Seq(Bytes) /\ Len(Unsigned(n)) >= 1
        /\ Number(Unsigned(n)) = n
        /\ Len(Unsigned(n)) = IF n < 256 THEN 1 ELSE Len(Unsigned(n \div 256)) + 1
<1> DEFINE Good(n) == /\ Unsigned(n) \in Seq(Bytes) /\ Len(Unsigned(n)) >= 1
                      /\ Number(Unsigned(n)) = n
                      /\ Len(Unsigned(n)) = IF n < 256 THEN 1 ELSE Len(Unsigned(n \div 256)) + 1
           S == {n \in Nat : Good(n)}
<1>1. ASSUME NEW n \in Nat, \A m \in 0..n - 1 : m \in S PROVE n \in S
  <2>1. CASE n < 256
    <3>1. n \in Bytes
      BY <2>1 DEF Bytes
    <3> DEFINE s == <<n>>
    <3>2. Unsigned(n) = s
      BY <2>1, UnsignedStep
    <3>3. s \in Seq(Bytes) /\ Len(s) = 1 /\ s[1] = n
      BY <3>1
    <3> HIDE DEF s
    <3>4. Number(s) = n
      BY <3>1, <3>3, NumberOfBytes
    <3> QED
      BY <2>1, <3>2, <3>3, <3>4
  <2>2. CASE ~(n < 256)
    <3> DEFINE q == n \div 256
               b == n % 256
               u == Unsigned(q)
    <3>1. q \in 0..n - 1 /\ q \in Nat /\ b \in Bytes /\ n = 256 * q + b
      BY <2>2, Quotient, DivisionBy256
    <3>2. Unsigned(n) = u \o <<b>>
      BY <2>2, UnsignedStep
    <3> HIDE DEF q, b
    <3>3. u \in Seq(Bytes) /\ Len(u) >= 1 /\ Number(u) = q
      BY <1>1, <3>1
    <3> HIDE DEF u
    <3>4. Number(u \o <<b>>) = 256 * q + b
      BY <3>1, <3>3, NumberGrows
    <3>5. <<b>> \in Seq(Bytes) /\ Len(<<b>>) = 1
      BY <3>1
    <3>6. u \o <<b>> \in Seq(Bytes) /\ Len(u \o <<b>>) = Len(u) + 1
      BY <3>3, <3>5, Concat
    <3>7. Len(u) + 1 >= 1
      BY <3>3, LenProperties
    <3>8. Good(n)
      BY <2>2, <3>1, <3>2, <3>4, <3>6, <3>7 DEF q, u
    <3> QED
      BY <3>8
  <2> QED
    BY <2>1, <2>2
<1> HIDE DEF S
<1>2. \A n \in Nat : n \in S
  BY <1>1, CompleteInduction
<1> QED
  BY <1>2 DEF S

\* So these take up to four bytes.
LEMMA UnsignedFits ==
    \A n : Fits(n) => /\ Unsigned(n) \in Seq(Bytes) /\ Len(Unsigned(n)) \in 1..4
                      /\ Number(Unsigned(n)) = n
<1> SUFFICES ASSUME NEW n, Fits(n)
             PROVE  /\ Unsigned(n) \in Seq(Bytes) /\ Len(Unsigned(n)) \in 1..4
                    /\ Number(Unsigned(n)) = n
  OBVIOUS
<1> DEFINE q == n \div 256
           r == q \div 256
           s == r \div 256
           Size(m) == Len(Unsigned(m))
<1>1. n \in Nat /\ s < 256
  BY DEF Fits
<1>2. q \in Nat /\ r \in Nat /\ s \in Nat
  BY <1>1, DivisionBy256
<1>3. \A m \in Nat : Size(m) = IF m < 256 THEN 1 ELSE Size(m \div 256) + 1
  BY NumbersAreRead
<1> HIDE DEF q, r, s, Size
<1>4. Size(n) \in 1..4
  <2>1. Size(s) = 1
    BY <1>1, <1>2, <1>3
  <2>2. Size(r) = IF r < 256 THEN 1 ELSE Size(s) + 1
    BY <1>2, <1>3 DEF s
  <2>3. Size(q) = IF q < 256 THEN 1 ELSE Size(r) + 1
    BY <1>2, <1>3 DEF r
  <2>4. Size(n) = IF n < 256 THEN 1 ELSE Size(q) + 1
    BY <1>1, <1>3 DEF q
  <2> QED
    BY <2>1, <2>2, <2>3, <2>4
<1> QED
  BY <1>1, <1>4, NumbersAreRead DEF Size

-----------------------------------------------------------------------------
(* Frames *)

\* What follows a prefix.
LEMMA FromConcat ==
    \A h \in Seq(Bytes), a \in Seq(Bytes) :
        /\ h \o a \in Seq(Bytes) /\ Len(h \o a) = Len(h) + Len(a)
        /\ \A i \in 1..Len(h) : (h \o a)[i] = h[i]
        /\ \A k : k = Len(h) + 1 => From(h \o a, k) = a
<1> SUFFICES ASSUME NEW h \in Seq(Bytes), NEW a \in Seq(Bytes)
    PROVE  /\ h \o a \in Seq(Bytes) /\ Len(h \o a) = Len(h) + Len(a)
           /\ \A i \in 1..Len(h) : (h \o a)[i] = h[i]
           /\ From(h \o a, Len(h) + 1) = a
  OBVIOUS
<1>1. SubSeq(h \o a, Len(h) + 1, Len(h) + Len(a)) = SubSeq(a, (Len(h) + 1) - Len(h), (Len(h) + Len(a)) - Len(h))
  BY SubSeqOfConcat2
<1>2. (Len(h) + 1) - Len(h) = 1 /\ (Len(h) + Len(a)) - Len(h) = Len(a)
  BY LenProperties
<1>3. SubSeq(a, 1, Len(a)) = a
  BY SubSeqFull
<1>4. h \o a \in Seq(Bytes) /\ Len(h \o a) = Len(h) + Len(a)
  BY ConcatProperties
<1>5. \A i \in 1..Len(h) : (h \o a)[i] = h[i]
  BY ConcatProperties, LenProperties
<1> QED
  BY <1>1, <1>2, <1>3, <1>4, <1>5 DEF From

\* Four bytes and what follows them.
Headed(w, x, y, z, n) == <<w, x, y, z>> \o n
\* The bytes, the length and the rest of such a sequence.
LEMMA HeadedIs ==
    \A w \in Bytes, x \in Bytes, y \in Bytes, z \in Bytes, n \in Seq(Bytes) :
        /\ Headed(w, x, y, z, n) \in Seq(Bytes)
        /\ Len(Headed(w, x, y, z, n)) = 4 + Len(n)
        /\ From(Headed(w, x, y, z, n), 5) = n
        /\ Headed(w, x, y, z, n)[1] = w
        /\ Headed(w, x, y, z, n)[2] = x
        /\ Headed(w, x, y, z, n)[3] = y
        /\ Headed(w, x, y, z, n)[4] = z
<1> SUFFICES ASSUME NEW w \in Bytes, NEW x \in Bytes, NEW y \in Bytes, NEW z \in Bytes,
                    NEW n \in Seq(Bytes)
             PROVE  LET d == Headed(w, x, y, z, n) IN
                    /\ d \in Seq(Bytes) /\ Len(d) = 4 + Len(n) /\ From(d, 5) = n
                    /\ d[1] = w /\ d[2] = x /\ d[3] = y /\ d[4] = z
  OBVIOUS
<1> DEFINE h == <<w, x, y, z>>
           d == Headed(w, x, y, z, n)
<1>1. h \in Seq(Bytes) /\ Len(h) = 4 /\ h[1] = w /\ h[2] = x /\ h[3] = y /\ h[4] = z
  OBVIOUS
<1>4. d = h \o n
  BY DEF Headed
<1> HIDE DEF h, d
<1>2. 5 = Len(h) + 1 /\ 1 \in 1..Len(h) /\ 2 \in 1..Len(h) /\ 3 \in 1..Len(h) /\ 4 \in 1..Len(h)
  BY <1>1
<1>3. /\ d \in Seq(Bytes) /\ Len(d) = Len(h) + Len(n)
      /\ \A i \in 1..Len(h) : d[i] = h[i]
      /\ \A k : k = Len(h) + 1 => From(d, k) = n
  BY <1>1, <1>4, FromConcat, Zenon
<1>5. /\ d \in Seq(Bytes) /\ Len(d) = 4 + Len(n) /\ From(d, 5) = n
      /\ d[1] = h[1] /\ d[2] = h[2] /\ d[3] = h[3] /\ d[4] = h[4]
  BY <1>1, <1>2, <1>3, Zenon
<1> QED
  BY <1>1, <1>5 DEF d

\* The sizes of the NPDUs that clients send.
Sizes == 0..700
\* These sizes are numbers.
LEMMA SizesAreNumbers == \A k \in Sizes : k \in Nat /\ k < 701
BY SMT DEF Sizes

\* A length is told by its two bytes.
LEMMA LengthField ==
    \A k \in Sizes : LET n == 4 + k IN
        n \div 256 \in Bytes /\ n % 256 \in Bytes /\ (n \div 256) * 256 + (n % 256) = n
<1>1. \A n \in Nat : n < 65536 => n \div 256 \in Bytes /\ n % 256 \in Bytes /\ (n \div 256) * 256 + (n % 256) = n
  BY SMT DEF Bytes
<1>2. \A k \in Sizes : 4 + k \in Nat /\ 4 + k < 65536
  BY SizesAreNumbers, SMT
<1> QED
  BY <1>1, <1>2, SMT

\* The length field of a datagram is its third and fourth byte.
LEMMA LengthRead ==
    \A d \in Seq(Bytes) : Len(d) >= 4 => Number(SubSeq(d, 3, 4)) = d[3] * 256 + d[4]
<1> SUFFICES ASSUME NEW d \in Seq(Bytes), Len(d) >= 4
             PROVE  Number(SubSeq(d, 3, 4)) = d[3] * 256 + d[4]
  OBVIOUS
<1> DEFINE field == SubSeq(d, 3, 4)
<1>1. 3 \in 1..Len(d) + 1 /\ 4 \in 3 - 1..Len(d) /\ (4 + 1) - 3 = 2
  BY LenProperties
<1>2. field \in Seq(Bytes) /\ Len(field) = 2 /\ \A i \in 1..2 : field[i] = d[i + (3 - 1)]
  BY <1>1, Slice, Zenon
<1> HIDE DEF field
<1>3. field[1] = d[3] /\ field[2] = d[4]
  BY <1>2
<1>4. \A k \in 1..Len(field) : field[k] \in Bytes
  BY <1>2, Elements
<1>5. Number(field) = field[1] * 256 + field[2]
  BY <1>2, <1>4, NumberOfBytes
<1> QED
  BY <1>3, <1>5 DEF field

\* The BVLC header is read as it was written.
LEMMA BvlcRead ==
    \A npdu \in Seq(Bytes) : Len(npdu) \in Sizes /\ 2 <= Len(npdu) =>
        Apdu(Bvlc(10, npdu)) = IF npdu[1] # 1 \/ ApduStart(npdu) > Len(npdu) THEN <<>> ELSE From(npdu, ApduStart(npdu) + 1)
<1> SUFFICES ASSUME NEW npdu \in Seq(Bytes), Len(npdu) \in Sizes, 2 <= Len(npdu)
             PROVE  Apdu(Bvlc(10, npdu)) = IF npdu[1] # 1 \/ ApduStart(npdu) > Len(npdu) THEN <<>>
                                        ELSE From(npdu, ApduStart(npdu) + 1)
  OBVIOUS
<1> DEFINE L == 4 + Len(npdu)
           hi == L \div 256
           lo == L % 256
           d == Headed(129, 10, hi, lo, npdu)
<1>1. Bvlc(10, npdu) = d
  BY DEF Bvlc, Headed
<1>2. hi \in Bytes /\ lo \in Bytes /\ hi * 256 + lo = L
  BY LengthField
<1> HIDE DEF hi, lo
<1>3. 129 \in Bytes /\ 10 \in Bytes
  BY DEF Bytes
<1>4. /\ d \in Seq(Bytes) /\ Len(d) = L /\ From(d, 5) = npdu
      /\ d[1] = 129 /\ d[2] = 10 /\ d[3] = hi /\ d[4] = lo
  BY <1>2, <1>3, HeadedIs
<1>5. 6 <= L /\ L \in Nat
  BY SizesAreNumbers
<1> HIDE DEF d, L
<1>6. Number(SubSeq(d, 3, 4)) = Len(d)
  BY <1>2, <1>4, <1>5, LengthRead
<1>7. Apdu(d) = IF npdu[1] # 1 \/ ApduStart(npdu) > Len(npdu) THEN <<>> ELSE From(npdu, ApduStart(npdu) + 1)
  BY <1>4, <1>5, <1>6 DEF Apdu
<1> QED
  BY <1>1, <1>7

-----------------------------------------------------------------------------
(* Elements and references *)

\* None is found at the end of the payload, or where the tag is another.
LEMMA NoElement ==
    \A p, k, tag : k > Len(p) \/ (p[k] \div 8) * 8 # tag =>
        /\ Element(p, k, tag) = [is |-> "no", bytes |-> <<>>, next |-> k]
        /\ Element(p, k, tag).is = "no"
<1> SUFFICES ASSUME NEW p, NEW k, NEW tag, k > Len(p) \/ (p[k] \div 8) * 8 # tag
             PROVE  /\ Element(p, k, tag) = [is |-> "no", bytes |-> <<>>, next |-> k]
                    /\ Element(p, k, tag).is = "no"
  BY Zenon
<1> DEFINE e == Element(p, k, tag)
<1>1. e = [is |-> "no", bytes |-> <<>>, next |-> k]
  BY DEF Element
<1> HIDE DEF e
<1>2. e.is = "no"
  BY <1>1
<1> QED
  BY <1>1, <1>2 DEF e

\* The elements of a reference are read one after the other.
LEMMA ReferenceElements ==
    \A p : \E e0, e1, e2 :
        /\ e0 = Element(p, 1, Tag(0, TRUE))
        /\ e1 = Element(p, e0.next, Tag(1, TRUE))
        /\ e2 = Element(p, e1.next, Tag(2, TRUE))
        /\ PropertyReference(p) =
              LET id == Number(e0.bytes) IN
              IF e0.is = "yes" /\ Len(e0.bytes) = 4 /\ e1.is = "yes" /\ e2.is # "raises"
              THEN [is |-> "yes", type |-> id \div (MaxInstance + 1), object |-> id % (MaxInstance + 1),
                    property |-> Number(e1.bytes), next |-> e2.next]
              ELSE [is |-> "no"]
<1> TAKE p
<1> DEFINE E(n, k) == Element(p, k, Tag(n, TRUE))
           IsElements(e) == e = [n \in 0..2 |-> E(n, IF n = 0 THEN 1 ELSE e[n - 1].next)]
           g == [n \in 0..2 |-> IF n = 0 THEN E(0, 1) ELSE IF n = 1 THEN E(1, E(0, 1).next)
                                ELSE E(2, E(1, E(0, 1).next).next)]
           c == CHOOSE e : IsElements(e)
           id == Number(c[0].bytes)
<1>1. PropertyReference(p) =
        IF c[0].is = "yes" /\ Len(c[0].bytes) = 4 /\ c[1].is = "yes" /\ c[2].is # "raises"
        THEN [is |-> "yes", type |-> id \div (MaxInstance + 1), object |-> id % (MaxInstance + 1),
              property |-> Number(c[1].bytes), next |-> c[2].next]
        ELSE [is |-> "no"]
  BY DEF PropertyReference
<1> HIDE DEF E
<1>2. IsElements(g)
  OBVIOUS
<1>3. IsElements(c)
  <2> HIDE DEF g
  <2> QED
    BY <1>2
<1> HIDE DEF c
<1>4. c[0] = E(0, 1) /\ c[1] = E(1, c[0].next) /\ c[2] = E(2, c[1].next)
  BY <1>3
<1> HIDE DEF IsElements, g
<1> QED
  BY <1>1, <1>4, Zenon DEF E

\* At position k of the payload stands an element of one to four bytes.
Bears(p, k, tag, bytes) ==
    /\ p \in Seq(Bytes) /\ k \in Nat \ {0}
    /\ bytes \in Seq(Bytes) /\ Len(bytes) \in 1..4
    /\ p[k] = tag + Len(bytes) /\ k + Len(bytes) <= Len(p)
    /\ \A i \in 1..Len(bytes) : p[k + i] = bytes[i]

\* It is read as it was written.
LEMMA ElementRead ==
    \A p, k, bytes : \A tag \in {8, 24, 32, 40} : Bears(p, k, tag, bytes) =>
        Element(p, k, tag) = [is |-> "yes", bytes |-> bytes, next |-> (k + 1) + Len(bytes)]
<1> SUFFICES ASSUME NEW p, NEW k, NEW bytes, NEW tag \in {8, 24, 32, 40}, Bears(p, k, tag, bytes)
             PROVE  Element(p, k, tag)
                       = [is |-> "yes", bytes |-> bytes, next |-> (k + 1) + Len(bytes)]
  OBVIOUS
<1> DEFINE n == Len(bytes)
           L == Len(p)
           next == (k + 1) + n
           s == SubSeq(p, k + 1, next - 1)
<1>1. /\ p \in Seq(Bytes) /\ k \in Nat /\ k # 0 /\ bytes \in Seq(Bytes) /\ n \in 1..4
      /\ p[k] = tag + n /\ k + n <= L /\ \A i \in 1..n : p[k + i] = bytes[i] /\ L \in Nat
  BY Elements DEF Bears
<1> HIDE DEF n, L
<1>2. p[k] % 8 = n /\ (p[k] \div 8) * 8 = tag
  <2>1. \A t \in {8, 24, 32, 40}, l \in 1..4 : (t + l) % 8 = l /\ ((t + l) \div 8) * 8 = t
    BY SMT
  <2>2. (tag + n) % 8 = n /\ ((tag + n) \div 8) * 8 = tag
    BY <1>1, <2>1
  <2>3. p[k] = tag + n
    BY <1>1
  <2> QED
    BY <2>2, <2>3, Zenon
<1>3. n # 5 /\ ~(k > L) /\ ~(next > L + 1)
  <2>1. k \in Nat /\ n \in 1..4 /\ k + n <= L /\ L \in Nat
    BY <1>1
  <2> QED
    BY <2>1
<1>4. Element(p, k, tag) = [is |-> "yes", bytes |-> s, next |-> next]
  BY <1>2, <1>3 DEF Element, L
<1>5. s = bytes
  <2>1. k + 1 \in 1..L + 1 /\ next - 1 \in (k + 1) - 1..L /\ ((next - 1) + 1) - (k + 1) = n
    BY <1>1
  <2>2. s \in Seq(Bytes) /\ Len(s) = n /\ \A i \in 1..n : s[i] = p[i + ((k + 1) - 1)]
    <3> DEFINE l == k + 1
               m == next - 1
    <3> HIDE DEF l, m
    <3>1. l \in 1..Len(p) + 1 /\ m \in l - 1..Len(p) /\ (m + 1) - l = n
      BY <2>1 DEF l, m, L
    <3>2. SubSeq(p, l, m) \in Seq(Bytes) /\ Len(SubSeq(p, l, m)) = (m + 1) - l
          /\ \A i \in 1..(m + 1) - l : SubSeq(p, l, m)[i] = p[i + (l - 1)]
      BY <1>1, <3>1, Slice, Zenon
    <3> QED
      BY <3>1, <3>2 DEF l, m
  <2> HIDE DEF s
  <2>3. ASSUME NEW i \in 1..Len(s) PROVE s[i] = bytes[i]
    <3>1. i \in 1..n /\ i + ((k + 1) - 1) = k + i
      BY <1>1, <2>2
    <3> QED
      BY <1>1, <2>2, <3>1, SMTT(20)
  <2> QED
    BY <1>1, <2>2, <2>3, SeqEqual DEF n
<1> HIDE DEF s
<1> QED
  BY <1>4, <1>5 DEF n

\* An element as it is written.
LEMMA TaggedIs ==
    \A bytes \in Seq(Bytes) : \A tag \in {8, 24, 32, 40} : Len(bytes) \in 1..4 =>
        LET e == Tagged(tag, bytes) IN
        /\ e \in Seq(Bytes) /\ Len(e) = 1 + Len(bytes) /\ e[1] = tag + Len(bytes)
        /\ \A i \in 1..Len(bytes) : e[1 + i] = bytes[i]
<1> SUFFICES ASSUME NEW bytes \in Seq(Bytes), NEW tag \in {8, 24, 32, 40}, Len(bytes) \in 1..4
             PROVE  LET e == Tagged(tag, bytes) IN
                    /\ e \in Seq(Bytes) /\ Len(e) = 1 + Len(bytes) /\ e[1] = tag + Len(bytes)
                    /\ \A i \in 1..Len(bytes) : e[1 + i] = bytes[i]
  OBVIOUS
<1> DEFINE b == tag + Len(bytes)
           h == <<b>>
           e == h \o bytes
<1>1. b \in Bytes
  <2>1. \A l \in 1..4 : tag + l \in Bytes
    BY SMT DEF Bytes
  <2> QED
    BY <2>1
<1>2. Tagged(tag, bytes) = e
  <2>1. \A l \in 1..4 : l <= 4
    OBVIOUS
  <2>2. Len(bytes) <= 4
    BY <2>1
  <2> QED
    BY <2>2, Zenon DEF Tagged
<1> HIDE DEF b
<1>3. h \in Seq(Bytes) /\ Len(h) = 1 /\ h[1] = b
  BY <1>1
<1> HIDE DEF h
<1>4. /\ e \in Seq(Bytes) /\ Len(e) = Len(h) + Len(bytes)
      /\ \A i \in 1..Len(h) : e[i] = h[i]
      /\ \A i \in 1..Len(bytes) : e[Len(h) + i] = bytes[i]
  BY <1>3, Concat, ZenonT(20)
<1> HIDE DEF e
<1>5. 1 \in 1..Len(h)
  BY <1>3
<1> QED
  BY <1>2, <1>3, <1>4, <1>5, Zenon DEF b

\* An element behind the bytes pre and before the bytes post.
Carries(pre, tag, bytes, post) ==
    LET p == (pre \o Tagged(tag, bytes)) \o post IN
    /\ Bears(p, Len(pre) + 1, tag, bytes)
    /\ Len(p) = ((Len(pre) + 1) + Len(bytes)) + Len(post)
    /\ \A i \in 1..Len(post) : p[((Len(pre) + 1) + Len(bytes)) + i] = post[i]
\* It is there, with what follows it.
LEMMA BearsTagged ==
    \A pre, bytes, post \in Seq(Bytes) : \A tag \in {8, 24, 32, 40} :
        Len(bytes) \in 1..4 => Carries(pre, tag, bytes, post)
<1> SUFFICES ASSUME NEW pre \in Seq(Bytes), NEW bytes \in Seq(Bytes), NEW post \in Seq(Bytes),
                    NEW tag \in {8, 24, 32, 40}, Len(bytes) \in 1..4
             PROVE  Carries(pre, tag, bytes, post)
  OBVIOUS
<1> DEFINE e == Tagged(tag, bytes)
           q == pre \o e
           p == q \o post
           l == Len(pre)
           n == Len(bytes)
           m == Len(post)
<1>1. /\ e \in Seq(Bytes) /\ Len(e) = 1 + n /\ e[1] = tag + n
      /\ \A i \in 1..n : e[1 + i] = bytes[i]
  BY TaggedIs
<1> HIDE DEF e
<1>2. /\ q \in Seq(Bytes) /\ Len(q) = l + Len(e)
      /\ \A i \in 1..l : q[i] = pre[i]
      /\ \A i \in 1..Len(e) : q[l + i] = e[i]
  BY <1>1, Concat, Zenon
<1> HIDE DEF q
<1>3. /\ p \in Seq(Bytes) /\ Len(p) = Len(q) + m
      /\ \A i \in 1..Len(q) : p[i] = q[i]
      /\ \A i \in 1..m : p[Len(q) + i] = post[i]
  <2>1. q \in Seq(Bytes)
    BY <1>2
  <2> QED
    BY <2>1, Concat, ZenonT(20)
<1> HIDE DEF p
<1>4. l \in Nat /\ n \in 1..4 /\ m \in Nat
  BY Elements
<1> HIDE DEF l, n, m
<1>5. Len(q) = (l + 1) + n /\ Len(p) = ((l + 1) + n) + m
  BY <1>1, <1>2, <1>3, <1>4
<1>6. \A i \in 1..n + 1 : p[l + i] = e[i]
  <2> SUFFICES ASSUME NEW i \in 1..n + 1 PROVE p[l + i] = e[i]
    OBVIOUS
  <2>1. i \in 1..Len(e) /\ l + i \in 1..Len(q)
    BY <1>1, <1>4, <1>5
  <2> QED
    BY <1>2, <1>3, <2>1
<1>7. p[l + 1] = tag + n
  BY <1>1, <1>4, <1>6
<1>8. \A i \in 1..n : p[(l + 1) + i] = bytes[i]
  <2> SUFFICES ASSUME NEW i \in 1..n PROVE p[(l + 1) + i] = bytes[i]
    OBVIOUS
  <2>1. 1 + i \in 1..n + 1 /\ (l + 1) + i = l + (1 + i)
    BY <1>4
  <2> QED
    BY <1>1, <1>6, <2>1
<1>9. Bears(p, l + 1, tag, bytes)
  BY <1>3, <1>4, <1>5, <1>7, <1>8 DEF Bears, n
<1> QED
  BY <1>3, <1>5, <1>9 DEF Carries, l, n, m, p, q, e

Types == {AnalogValue, DeviceType}

\* An object identifier names its type and its instance (_encode_object_identifier
\* and what _parse_property_reference makes of it).
LEMMA ObjectIdOf ==
    \A type \in Types, o \in 0..MaxInstance :
        LET id == ObjectId(type, o) IN
        /\ id \in Seq(Bytes) /\ Len(id) = 4
        /\ Number(id) \div (MaxInstance + 1) = type /\ Number(id) % (MaxInstance + 1) = o
<1> SUFFICES ASSUME NEW type \in Types, NEW o \in 0..MaxInstance
             PROVE  LET id == ObjectId(type, o) IN
                    /\ id \in Seq(Bytes) /\ Len(id) = 4
                    /\ Number(id) \div (MaxInstance + 1) = type
                    /\ Number(id) % (MaxInstance + 1) = o
  OBVIOUS
<1> DEFINE h == High(o)
           m == Middle(o)
           l == Low(o)
<1>1. h \in 0..63 /\ m \in Bytes /\ l \in Bytes /\ o = (h * 256 + m) * 256 + l
  BY InstanceBytes
<1>2. o \div 65536 = h
  <2>1. o \in Nat
    BY MaxInstanceType
  <2>2. \A n \in Nat : n \div 65536 = (n \div 256) \div 256
    BY SMT
  <2> QED
    BY <2>1, <2>2 DEF High
<1> HIDE DEF h, m, l
<1> DEFINE Is(a, b) == ((a * 256 + (b + h)) * 256 + m) * 256 + l
<1>3. PICK a \in {0, 2}, b \in {0, 128} :
        /\ ObjectId(type, o) = <<a, b + h, m, l>>
        /\ Is(a, b) \div (MaxInstance + 1) = type /\ Is(a, b) % (MaxInstance + 1) = o
  <2>1. CASE type = AnalogValue
    <3>1. ObjectId(type, o) = <<0, 128 + h, m, l>>
      BY <2>1, ObjectIdIs DEF h, m, l
    <3>2. Is(0, 128) \div (MaxInstance + 1) = AnalogValue /\ Is(0, 128) % (MaxInstance + 1) = o
      BY <1>1, ObjectIdRead
    <3> HIDE DEF Is
    <3> QED
      BY <2>1, <3>1, <3>2
  <2>2. CASE type = DeviceType
    <3>1. 8 \div 4 = 2 /\ (8 % 4) * 64 = 0
      BY SMT
    <3>2. ObjectId(type, o) = <<2, 0 + h, m, l>>
      BY <1>2, <2>2, <3>1 DEF ObjectId, DeviceType, m, l, Middle, Low
    <3>3. Is(2, 0) \div (MaxInstance + 1) = DeviceType /\ Is(2, 0) % (MaxInstance + 1) = o
      <4>1. Is(2, 0) = ((2 * 256 + h) * 256 + m) * 256 + l
        BY <1>1
      <4> HIDE DEF Is
      <4> QED
        BY <1>1, <4>1, DeviceIdRead
    <3> HIDE DEF Is
    <3> QED
      BY <2>2, <3>2, <3>3
  <2> QED
    BY <2>1, <2>2 DEF Types
<1> DEFINE id == <<a, b + h, m, l>>
<1>4. b + h \in Bytes /\ a \in Bytes
  BY <1>1 DEF Bytes
<1>5. id \in Seq(Bytes) /\ Len(id) = 4 /\ id[1] = a /\ id[2] = b + h /\ id[3] = m /\ id[4] = l
  BY <1>1, <1>4
<1> HIDE DEF id
<1>6. Number(id) = Is(a, b)
  <2>1. \A k \in 1..Len(id) : id[k] \in Bytes
    BY <1>5, Elements
  <2>2. Number(id) = ((id[1] * 256 + id[2]) * 256 + id[3]) * 256 + id[4]
    BY <1>5, <2>1, NumberOfBytes
  <2> QED
    BY <1>5, <2>2
<1> HIDE DEF Is
<1>7. ObjectId(type, o) = id
  BY <1>3 DEF id
<1> QED
  BY <1>3, <1>5, <1>6, <1>7, Zenon

\* A payload that begins with object identifier id and property u.
References(p, id, u) ==
    /\ Bears(p, 1, 8, id) /\ Len(id) = 4 /\ Bears(p, 6, 24, u)
    /\ Len(p) = 6 + Len(u) \/ p[7 + Len(u)] = Opening

\* Both are found, and what follows them.
LEMMA ReferenceOf ==
    \A p, id, u : References(p, id, u) =>
        PropertyReference(p)
            = [is |-> "yes", type |-> Number(id) \div (MaxInstance + 1),
               object |-> Number(id) % (MaxInstance + 1), property |-> Number(u), next |-> 7 + Len(u)]
<1> SUFFICES ASSUME NEW p, NEW id, NEW u, References(p, id, u)
             PROVE  PropertyReference(p)
                       = [is |-> "yes", type |-> Number(id) \div (MaxInstance + 1),
                          object |-> Number(id) % (MaxInstance + 1), property |-> Number(u),
                          next |-> 7 + Len(u)]
  OBVIOUS
<1>1. PICK e0, e1, e2 :
        /\ e0 = Element(p, 1, Tag(0, TRUE))
        /\ e1 = Element(p, e0.next, Tag(1, TRUE))
        /\ e2 = Element(p, e1.next, Tag(2, TRUE))
        /\ PropertyReference(p) =
              LET n == Number(e0.bytes) IN
              IF e0.is = "yes" /\ Len(e0.bytes) = 4 /\ e1.is = "yes" /\ e2.is # "raises"
              THEN [is |-> "yes", type |-> n \div (MaxInstance + 1), object |-> n % (MaxInstance + 1),
                    property |-> Number(e1.bytes), next |-> e2.next]
              ELSE [is |-> "no"]
  BY ReferenceElements, Zenon
<1> DEFINE n == Len(u)
<1>2. Tag(0, TRUE) = 8 /\ Tag(1, TRUE) = 24 /\ Tag(2, TRUE) = 40
  BY DEF Tag
<1>3. Len(p) \in Nat /\ n \in 1..4 /\ Len(id) = 4
  BY Elements DEF References, Bears
<1> HIDE DEF n
<1>4. e0 = [is |-> "yes", bytes |-> id, next |-> 6]
  <2>1. Element(p, 1, 8) = [is |-> "yes", bytes |-> id, next |-> (1 + 1) + Len(id)]
    <3>1. Bears(p, 1, 8, id) /\ 8 \in {8, 24, 32, 40}
      BY DEF References
    <3> QED
      BY <3>1, ElementRead, Zenon
  <2>2. (1 + 1) + Len(id) = 6
    BY <1>3
  <2> QED
    BY <1>1, <1>2, <2>1, <2>2, Zenon
<1>5. e1 = [is |-> "yes", bytes |-> u, next |-> 7 + n]
  <2>1. Element(p, 6, 24) = [is |-> "yes", bytes |-> u, next |-> (6 + 1) + Len(u)]
    <3>1. Bears(p, 6, 24, u) /\ 24 \in {8, 24, 32, 40}
      BY DEF References
    <3> QED
      BY <3>1, ElementRead, Zenon
  <2>2. (6 + 1) + Len(u) = 7 + n /\ e0.next = 6
    BY <1>4 DEF n
  <2> QED
    BY <1>1, <1>2, <2>1, <2>2, Zenon
<1>6. e2 = [is |-> "no", bytes |-> <<>>, next |-> 7 + n]
  <2>1. 7 + n > Len(p) \/ (p[7 + n] \div 8) * 8 # 40
    <3>1. Len(p) = 6 + n \/ p[7 + n] = 62
      BY DEF References, Opening, Tag, n
    <3>2. (62 \div 8) * 8 # 40
      BY SMT
    <3> QED
      BY <1>3, <3>1, <3>2
  <2>2. Element(p, 7 + n, 40) = [is |-> "no", bytes |-> <<>>, next |-> 7 + n]
    BY <2>1, NoElement
  <2>3. e1.next = 7 + n
    BY <1>5
  <2> QED
    BY <1>1, <1>2, <2>2, <2>3, Zenon
<1>7. /\ e0.is = "yes" /\ e0.bytes = id /\ e1.is = "yes" /\ e1.bytes = u
      /\ e2.is # "raises" /\ e2.next = 7 + n
  BY <1>4, <1>5, <1>6
<1> QED
  BY <1>1, <1>3, <1>7, Zenon DEF n

\* A reference as clients write it is one, whatever value follows.
LEMMA ReferenceWritten ==
    \A type \in Types, o \in 0..MaxInstance, rest \in Seq(Bytes) : \A property :
        Fits(property) /\ (Len(rest) = 0 \/ rest[1] = Opening) =>
            LET p == Reference(type, o, property) \o rest
                n == Len(Unsigned(property))
            IN  /\ References(p, ObjectId(type, o), Unsigned(property))
                /\ p \in Seq(Bytes) /\ Len(p) = (6 + n) + Len(rest)
                /\ \A i \in 1..Len(rest) : p[(6 + n) + i] = rest[i]
<1> SUFFICES ASSUME NEW type \in Types, NEW o \in 0..MaxInstance, NEW rest \in Seq(Bytes),
                    NEW property, Fits(property), Len(rest) = 0 \/ rest[1] = Opening
             PROVE  LET p == Reference(type, o, property) \o rest
                        n == Len(Unsigned(property))
                    IN  /\ References(p, ObjectId(type, o), Unsigned(property))
                        /\ p \in Seq(Bytes) /\ Len(p) = (6 + n) + Len(rest)
                        /\ \A i \in 1..Len(rest) : p[(6 + n) + i] = rest[i]
  OBVIOUS
<1> DEFINE id == ObjectId(type, o)
           u == Unsigned(property)
           s == Tagged(8, id)
           t == Tagged(24, u)
           p == (s \o t) \o rest
           n == Len(u)
           m == Len(rest)
<1>1. id \in Seq(Bytes) /\ Len(id) = 4
  BY ObjectIdOf
<1>2. u \in Seq(Bytes) /\ n \in 1..4
  BY UnsignedFits
<1>3. Reference(type, o, property) \o rest = p
  <2>1. Tag(0, TRUE) = 8 /\ Tag(1, TRUE) = 24
    BY DEF Tag
  <2> QED
    BY <2>1, Zenon DEF Reference
<1> HIDE DEF id, u
<1>4. s \in Seq(Bytes) /\ Len(s) = 5
  <2>1. Len(id) \in 1..4
    BY <1>1
  <2> HIDE DEF s
  <2>2. s \in Seq(Bytes) /\ Len(s) = 1 + Len(id)
    BY <1>1, <2>1, TaggedIs DEF s
  <2> QED
    BY <1>1, <2>2
<1>5. t \in Seq(Bytes)
  BY <1>2, TaggedIs
<1>6. /\ Bears(p, Len(s) + 1, 24, u)
      /\ Len(p) = ((Len(s) + 1) + n) + m
      /\ \A i \in 1..m : p[((Len(s) + 1) + n) + i] = rest[i]
  <2> HIDE DEF s
  <2> QED
    <3>1. 24 \in {8, 24, 32, 40} /\ Len(u) \in 1..4 /\ s \in Seq(Bytes)
      BY <1>2, <1>4
    <3>2. Carries(s, 24, u, rest)
      BY <1>2, <3>1, BearsTagged
    <3> QED
      BY <3>2 DEF Carries
<1>7. Bears(p, 1, 8, id)
  <2> DEFINE e == <<>>
             v == t \o rest
  <2>1. e \in Seq(Bytes) /\ Len(e) = 0 /\ v \in Seq(Bytes)
    <3>1. v \in Seq(Bytes)
      <4> HIDE DEF t
      <4> QED
        BY <1>5, Concat
    <3> QED
      BY <3>1
  <2>2. e \o s = s
    <3> HIDE DEF s
    <3> QED
      BY <1>4, ConcatEmptySeq
  <2>3. p = (e \o s) \o v
    <3> HIDE DEF s, t
    <3>1. (s \o t) \o rest = s \o (t \o rest)
      BY <1>4, <1>5, ConcatAssociative
    <3> HIDE DEF e
    <3> QED
      BY <2>2, <3>1
  <2> HIDE DEF p, e, v
  <2>4. Len(id) \in 1..4
    BY <1>1
  <2>5. Bears(p, Len(e) + 1, 8, id)
    <3>1. s \in Seq(Bytes) /\ 8 \in {8, 24, 32, 40}
      BY <1>4
    <3>2. Carries(e, 8, id, v)
      BY <1>1, <2>1, <2>4, <3>1, BearsTagged
    <3> QED
      BY <2>3, <3>2 DEF Carries
  <2>6. Len(e) + 1 = 1
    BY <2>1
  <2> QED
    BY <2>5, <2>6
<1> HIDE DEF s, t, p, n, m
<1>8. m \in Nat
  BY Elements DEF m
<1>9. /\ Bears(p, 6, 24, u) /\ Len(p) = (6 + n) + m
      /\ \A i \in 1..m : p[(6 + n) + i] = rest[i]
  BY <1>4, <1>6
<1>10. Len(p) = 6 + n \/ p[7 + n] = Opening
  <2>1. CASE m = 0
    BY <1>2, <1>9, <2>1
  <2>2. CASE m # 0
    <3>1. 1 \in 1..m /\ rest[1] = Opening /\ (6 + n) + 1 = 7 + n
      BY <1>2, <1>8, <2>2 DEF m
    <3> QED
      BY <1>9, <3>1
  <2> QED
    BY <2>1, <2>2
<1>11. References(p, id, u)
  BY <1>1, <1>7, <1>9, <1>10 DEF References, n
<1>12. p \in Seq(Bytes)
  BY <1>7 DEF Bears
<1> QED
  BY <1>3, <1>9, <1>11, <1>12 DEF n, m, id, u

-----------------------------------------------------------------------------
(* Requests *)

Short(a) == a \in Seq(Bytes) /\ 1 <= Len(a) /\ Len(a) <= 100

\* What a request to read means.
ReadMeans(type, o, property) ==
    IF type = AnalogValue THEN [step |-> "read", object |-> o, property |-> property]
    ELSE IF o = Device.instance /\ property \in DeviceProperties THEN Respond ELSE Drop

\* A reference is a sequence of bytes.
LEMMA ReferenceBytes ==
    \A type \in Types, o \in 0..MaxInstance : \A property : Fits(property) =>
        Reference(type, o, property) \in Seq(Bytes)
<1> SUFFICES ASSUME NEW type \in Types, NEW o \in 0..MaxInstance, NEW property, Fits(property)
             PROVE  Reference(type, o, property) \in Seq(Bytes)
  OBVIOUS
<1> DEFINE id == ObjectId(type, o)
           u == Unsigned(property)
           s == Tagged(8, id)
           t == Tagged(24, u)
<1>1. id \in Seq(Bytes) /\ Len(id) \in 1..4 /\ u \in Seq(Bytes) /\ Len(u) \in 1..4
  BY ObjectIdOf, UnsignedFits
<1> HIDE DEF id, u
<1>2. s \in Seq(Bytes) /\ t \in Seq(Bytes)
  BY <1>1, TaggedIs
<1>3. Tag(0, TRUE) = 8 /\ Tag(1, TRUE) = 24
  BY DEF Tag
<1>4. Reference(type, o, property) = s \o t
  BY <1>3, Zenon DEF Reference, id, u
<1> HIDE DEF s, t
<1> QED
  BY <1>2, <1>4, Concat

\* A confirmed request: the bytes of its header, and its payload.
Asks(a, service, p) ==
    /\ a \in Seq(Bytes) /\ p \in Seq(Bytes)
    /\ Len(a) = 4 + Len(p) /\ From(a, 5) = p
    /\ a[1] = 0 /\ a[2] = 5 /\ a[3] = 1 /\ a[4] = service

\* One to read consists of the reference.
LEMMA ReadRequestIs ==
    \A type \in Types, o \in 0..MaxInstance : \A property : Fits(property) =>
        LET p == Reference(type, o, property) IN
        /\ Asks(ReadRequest(type, o, property), 12, p)
        /\ References(p, ObjectId(type, o), Unsigned(property))
        /\ Len(p) = 6 + Len(Unsigned(property))
<1> SUFFICES ASSUME NEW type \in Types, NEW o \in 0..MaxInstance, NEW property, Fits(property)
             PROVE  LET p == Reference(type, o, property) IN
                    /\ Asks(ReadRequest(type, o, property), 12, p)
                    /\ References(p, ObjectId(type, o), Unsigned(property))
                    /\ Len(p) = 6 + Len(Unsigned(property))
  OBVIOUS
<1> DEFINE p == Reference(type, o, property)
           a == Headed(0, 5, 1, 12, p)
           id == ObjectId(type, o)
           u == Unsigned(property)
           n == Len(u)
<1>1. ReadRequest(type, o, property) = a
  BY DEF ReadRequest, Headed
<1>2. References(p, id, u) /\ p \in Seq(Bytes) /\ Len(p) = (6 + n) + 0
  <2> DEFINE rest == <<>>
             q == p \o rest
  <2>1. rest \in Seq(Bytes) /\ Len(rest) = 0
    OBVIOUS
  <2> HIDE DEF rest
  <2>2. References(q, id, u) /\ q \in Seq(Bytes) /\ Len(q) = (6 + n) + Len(rest)
    BY <2>1, ReferenceWritten, Zenon
  <2>3. q = p
    BY ReferenceBytes, ConcatEmpty DEF rest
  <2> QED
    BY <2>1, <2>2, <2>3
<1> HIDE DEF p
<1>3. 0 \in Bytes /\ 5 \in Bytes /\ 1 \in Bytes /\ 12 \in Bytes
  BY DEF Bytes
<1>4. a \in Seq(Bytes) /\ Len(a) = 4 + Len(p) /\ From(a, 5) = p /\ a[1] = 0 /\ a[2] = 5 /\ a[3] = 1 /\ a[4] = 12
  <2>1. p \in Seq(Bytes)
    BY <1>2
  <2> QED
    BY <1>3, <2>1, HeadedIs
<1> HIDE DEF a
<1>5. Asks(a, 12, p)
  BY <1>2, <1>4 DEF Asks
<1>6. Len(p) = 6 + n
  <2>1. n \in 1..4
    BY UnsignedFits
  <2> HIDE DEF n
  <2> QED
    BY <1>2, <2>1
<1> QED
  BY <1>1, <1>2, <1>5, <1>6, Zenon DEF p

\* It is read so, for any object of either type and any property.
LEMMA AnyReadRead ==
    \A type \in Types, o \in 0..MaxInstance : \A property : Fits(property) =>
        LET a == ReadRequest(type, o, property) IN
        Short(a) /\ ApduMeaning(a) = ReadMeans(type, o, property)
<1> SUFFICES ASSUME NEW type \in Types, NEW o \in 0..MaxInstance, NEW property, Fits(property)
             PROVE  LET a == ReadRequest(type, o, property) IN
                    Short(a) /\ ApduMeaning(a) = ReadMeans(type, o, property)
  OBVIOUS
<1> DEFINE p == Reference(type, o, property)
           a == ReadRequest(type, o, property)
           id == ObjectId(type, o)
           u == Unsigned(property)
           n == Len(u)
           r == PropertyReference(p)
<1>1. Asks(a, 12, p) /\ References(p, id, u) /\ Len(p) = 6 + n
  BY ReadRequestIs, Zenon
<1>2. u \in Seq(Bytes) /\ n \in 1..4 /\ Number(u) = property
  BY UnsignedFits
<1> HIDE DEF p, a
<1>3. References(p, id, u) /\ p \in Seq(Bytes) /\ Len(p) = 6 + n
  BY <1>1 DEF Asks
<1>4. a \in Seq(Bytes) /\ Len(a) = 4 + Len(p) /\ From(a, 5) = p /\ a[1] = 0 /\ a[4] = 12
  BY <1>1 DEF Asks
<1>5. /\ Number(id) \div (MaxInstance + 1) = type /\ Number(id) % (MaxInstance + 1) = o
  BY ObjectIdOf
<1> HIDE DEF id, u, n
<1>6. ApduMeaning(a) = ReadProperty(p)
  <2>1. ~(Len(a) < 2) /\ a[1] \div 16 = 0 /\ ~(Len(a) < 4)
    BY <1>3, <1>2, <1>4
  <2> QED
    BY <1>4, <2>1 DEF ApduMeaning
<1>7. Short(a)
  BY <1>3, <1>2, <1>4 DEF Short
<1>8. r = [is |-> "yes", type |-> type, object |-> o, property |-> property, next |-> 7 + n]
  BY <1>3, <1>2, <1>5, ReferenceOf, Zenon DEF n
<1> HIDE DEF r
<1>9. /\ r.is = "yes" /\ r.type = type /\ r.object = o /\ r.property = property
       /\ r.next = Len(p) + 1
  <2>1. 7 + n = Len(p) + 1
    BY <1>3, <1>2
  <2> QED
    BY <1>8, <2>1
<1>10. AnalogValue # DeviceType
  BY DEF AnalogValue, DeviceType
<1>11. ReadReferenced(r, p) = ReadMeans(type, o, property)
  <2>1. CASE type = AnalogValue
    BY <1>9, <1>10, <2>1, Zenon DEF ReadReferenced, ReadMeans
  <2>2. CASE type = DeviceType
    BY <1>9, <1>10, <2>2, Zenon DEF ReadReferenced, ReadMeans
  <2> QED
    BY <2>1, <2>2 DEF Types
<1> QED
  BY <1>6, <1>7, <1>11, Zenon DEF ReadProperty, r, a

\* Concatenations may be grouped anew.
LEMMA Associative == \A s, t, u \in Seq(Bytes) : (s \o t) \o u = s \o (t \o u)
BY ConcatAssociative


\* Four values are a sequence.
LEMMA FunctionIsSequence == ASSUME NEW S, NEW v \in [1..4 -> S] PROVE v \in Seq(S)
<1>1. 4 \in Nat /\ \A B : Seq(B) = UNION {[1..n -> B] : n \in Nat}
  OBVIOUS
<1> QED
  BY <1>1

\* The bytes of a Real are a sequence.
LEMMA RealIsSequence == \A v \in Reals : v \in Seq(Bytes) /\ Len(v) = 4
<1> SUFFICES ASSUME NEW v \in Reals PROVE v \in Seq(Bytes) /\ Len(v) = 4
  OBVIOUS
<1>1. v \in [1..4 -> Bytes]
  BY DEF Reals, Bytes
<1>2. v \in Seq(Bytes)
  BY <1>1, FunctionIsSequence
<1> QED
  BY <1>1, <1>2, LenProperties

\* What follows the first of five bytes.
LEMMA TailOfFive ==
    \A s \in Seq(Bytes) : Len(s) = 5 =>
        /\ Head(s) = s[1] /\ Tail(s) \in Seq(Bytes) /\ Len(Tail(s)) = 4
        /\ \A i \in 1..4 : Tail(s)[i] = s[i + 1]
<1> SUFFICES ASSUME NEW s \in Seq(Bytes), Len(s) = 5
             PROVE  /\ Head(s) = s[1] /\ Tail(s) \in Seq(Bytes) /\ Len(Tail(s)) = 4
                    /\ \A i \in 1..4 : Tail(s)[i] = s[i + 1]
  OBVIOUS
<1>1. s # <<>>
  OBVIOUS
<1>2. /\ Tail(s) \in Seq(Bytes) /\ Len(Tail(s)) = Len(s) - 1
      /\ \A i \in 1..Len(Tail(s)) : Tail(s)[i] = s[i + 1]
  BY <1>1, HeadTailProperties
<1> QED
  BY <1>2

\* The value of a write request, between its two tags.
Writes(p, v) ==
    /\ Len(p) = 14 /\ p[8] = Opening /\ p[9] = RealTag
    /\ p[10] = v[1] /\ p[11] = v[2] /\ p[12] = v[3] /\ p[13] = v[4] /\ p[14] = Closing

HasClosing(v) == \E k \in 1..4 : v[k] = Closing

\* The value is cut at a byte that looks like the closing tag, and then not accepted.
LEMMA WritePropertyRead ==
    \A p \in Seq(Bytes), v \in Reals : \A o :
        Writes(p, v) /\ PropertyReference(p) = [is |-> "yes", type |-> AnalogValue, object |-> o,
                                               property |-> PresentValue, next |-> 8]
            => WriteProperty(p) = IF HasClosing(v) THEN Drop
                                  ELSE [step |-> "write", object |-> o, real |-> v]
<1> SUFFICES ASSUME NEW p \in Seq(Bytes), NEW v \in Reals, NEW o, Writes(p, v),
                    PropertyReference(p) = [is |-> "yes", type |-> AnalogValue, object |-> o,
                                            property |-> PresentValue, next |-> 8]
             PROVE  WriteProperty(p) = IF HasClosing(v) THEN Drop
                                       ELSE [step |-> "write", object |-> o, real |-> v]
  BY Zenon
<1> DEFINE r == PropertyReference(p)
           ends == {k \in r.next + 1..Len(p) : p[k] = Closing}
           end == CHOOSE k \in ends : \A m \in ends : k <= m
           written == SubSeq(p, r.next + 1, end - 1)
<1>1. r = [is |-> "yes", type |-> AnalogValue, object |-> o, property |-> PresentValue, next |-> 8]
  OBVIOUS
<1>2. WriteProperty(p) =
        IF r.is # "yes" \/ r.next > Len(p) THEN Drop
        ELSE IF p[r.next] # Opening \/ ends = {} THEN Drop
        ELSE IF r.type = AnalogValue /\ r.property = PresentValue /\ RealAccepted(written)
        THEN [step |-> "write", object |-> r.object, real |-> Tail(written)]
        ELSE Drop
  BY DEF WriteProperty, WriteReferenced
<1> HIDE DEF r
<1>3. /\ r.is = "yes" /\ r.next = 8 /\ r.type = AnalogValue /\ r.object = o /\ r.property = PresentValue
      /\ p \in Seq(Bytes)
  BY <1>1
<1>4. /\ Len(p) = 14 /\ p[8] = Opening /\ p[9] = 68 /\ p[14] = 63 /\ Closing = 63
      /\ p[10] = v[1] /\ p[11] = v[2] /\ p[12] = v[3] /\ p[13] = v[4]
  BY DEF Writes, RealTag, Closing, Tag
<1>5. ends = {k \in 9..14 : p[k] = 63}
  BY <1>3, <1>4
<1>6. 14 \in ends /\ 9 \notin ends /\ \A k \in 1..4 : k + 9 \in ends <=> v[k] = 63
  BY <1>4, <1>5
<1>7. \E k \in ends : \A m \in ends : k <= m
  <2>1. ends \in SUBSET (9..14)
    BY <1>5
  <2> HIDE DEF ends
  <2> QED
    BY <1>6, <2>1, SMTT(20)
<1>8. end \in ends /\ \A m \in ends : end <= m
  <2> HIDE DEF ends
  <2> QED
    BY <1>7
<1> HIDE DEF end
<1>9. end \in 10..14
  <2>1. end \in ends /\ 9 \notin ends
    BY <1>6, <1>8
  <2>2. end \in 9..14
    BY <1>5, <2>1
  <2> HIDE DEF ends
  <2> QED
    BY <2>1, <2>2
<1> HIDE DEF ends
<1>10. written = SubSeq(p, 9, end - 1)
  BY <1>3
<1>11. written \in Seq(Bytes) /\ Len(written) = end - 9 /\ \A i \in 1..end - 9 : written[i] = p[i + 8]
  <2>1. 9 \in 1..Len(p) + 1 /\ end - 1 \in 9 - 1..Len(p) /\ ((end - 1) + 1) - 9 = end - 9 /\ 9 - 1 = 8
    BY <1>4, <1>9
  <2> HIDE DEF written
  <2>2. LET s == SubSeq(p, 9, end - 1) IN
        s \in Seq(Bytes) /\ Len(s) = ((end - 1) + 1) - 9 /\ \A i \in 1..((end - 1) + 1) - 9 : s[i] = p[i + (9 - 1)]
    BY <1>3, <2>1, Slice, Zenon
  <2> QED
    BY <1>10, <2>1, <2>2, Zenon
<1> HIDE DEF written
<1>12. CASE HasClosing(v)
  <2>1. end < 14
    BY <1>4, <1>6, <1>8, <1>9, <1>12 DEF HasClosing
  <2>2. Len(written) # 5
    BY <1>9, <1>11, <2>1
  <2> QED
    BY <1>2, <1>12, <2>2 DEF RealAccepted
<1>13. CASE ~HasClosing(v)
  <2>1. end = 14
    <3>1. \A k \in 1..4 : k + 9 \notin ends
      BY <1>4, <1>6, <1>13 DEF HasClosing
    <3>2. 10 \notin ends /\ 11 \notin ends /\ 12 \notin ends /\ 13 \notin ends
      BY <3>1
    <3> QED
      BY <1>8, <1>9, <3>2
  <2>2. /\ Len(written) = 5 /\ written[1] = 68
        /\ written[1 + 1] = v[1] /\ written[2 + 1] = v[2] /\ written[3 + 1] = v[3] /\ written[4 + 1] = v[4]
    BY <1>4, <1>11, <2>1
  <2>3. /\ Head(written) = written[1] /\ Tail(written) \in Seq(Bytes) /\ Len(Tail(written)) = 4
        /\ \A i \in 1..4 : Tail(written)[i] = written[i + 1]
    BY <1>11, <2>2, TailOfFive
  <2>4. RealAccepted(written)
    BY <2>2, <2>3 DEF RealTag, Tag, RealAccepted
  <2>5. Tail(written) = v
    <3>1. v \in Seq(Bytes) /\ Len(v) = 4
      BY RealIsSequence
    <3> DEFINE t == Tail(written)
    <3>2. 1 \in 1..4 /\ 2 \in 1..4 /\ 3 \in 1..4 /\ 4 \in 1..4
      OBVIOUS
    <3>3. t[1] = v[1] /\ t[2] = v[2] /\ t[3] = v[3] /\ t[4] = v[4]
      BY <2>2, <2>3, <3>2, Zenon
    <3>4. t \in Seq(Bytes) /\ Len(t) = 4
      BY <2>3
    <3> HIDE DEF t
    <3>5. \A i \in 1..4 : i = 1 \/ i = 2 \/ i = 3 \/ i = 4
      OBVIOUS
    <3>6. \A i \in 1..Len(t) : t[i] = v[i]
      BY <3>3, <3>4, <3>5, Zenon
    <3>7. t = v
      BY <3>1, <3>4, <3>6, SeqEqual
    <3> QED
      BY <3>7 DEF t
  <2>6. ends # {} /\ p[r.next] = Opening /\ ~(r.next > Len(p))
    BY <1>3, <1>4, <1>6
  <2> QED
    BY <1>2, <1>3, <1>13, <2>4, <2>5, <2>6, Zenon
<1> QED
  BY <1>12, <1>13

\* What a request to write a value means.
WriteMeans(o, property, v) ==
    IF property = PresentValue /\ \A k \in 1..4 : v[k] # Closing
    THEN [step |-> "write", object |-> o, real |-> v] ELSE Drop

\* What follows the reference in a request to write value v.
Encloses(rest, v) ==
    /\ rest[1] = Opening /\ rest[2] = RealTag
    /\ \A i \in 1..4 : rest[2 + i] = v[i]
    /\ rest[7] = Closing

\* One to write consists of the reference and the value in its tags.
LEMMA WriteRequestIs ==
    \A o \in 0..MaxInstance, v \in Reals : \A property : Fits(property) =>
        \E p, rest :
            /\ Asks(WriteRequest(AnalogValue, o, property, <<RealTag>> \o v), 15, p)
            /\ References(p, ObjectId(AnalogValue, o), Unsigned(property))
            /\ Len(p) = (6 + Len(Unsigned(property))) + 7
            /\ \A i \in 1..7 : p[(6 + Len(Unsigned(property))) + i] = rest[i]
            /\ Encloses(rest, v)
<1> SUFFICES ASSUME NEW o \in 0..MaxInstance, NEW v \in Reals, NEW property, Fits(property)
             PROVE  \E p, rest :
                        /\ Asks(WriteRequest(AnalogValue, o, property, <<RealTag>> \o v), 15, p)
                        /\ References(p, ObjectId(AnalogValue, o), Unsigned(property))
                        /\ Len(p) = (6 + Len(Unsigned(property))) + 7
                        /\ \A i \in 1..7 : p[(6 + Len(Unsigned(property))) + i] = rest[i]
                        /\ Encloses(rest, v)
  OBVIOUS
<1> DEFINE h == <<0, 5, 1, 15>>
           ref == Reference(AnalogValue, o, property)
           x == <<Opening>>
           y == <<RealTag>> \o v
           z == <<Closing>>
           rest == x \o (y \o z)
           p == ref \o rest
           a == Headed(0, 5, 1, 15, p)
           id == ObjectId(AnalogValue, o)
           u == Unsigned(property)
           n == Len(u)
<1>1. x \in Seq(Bytes) /\ Len(x) = 1 /\ x[1] = Opening
  BY DEF Bytes, Opening, Tag
<1>2. z \in Seq(Bytes) /\ Len(z) = 1 /\ z[1] = Closing
  BY DEF Bytes, Closing, Tag
<1>3. y \in Seq(Bytes) /\ Len(y) = 5 /\ y[1] = RealTag /\ \A i \in 1..4 : y[1 + i] = v[i]
  <2> DEFINE t == <<RealTag>>
  <2>1. t \in Seq(Bytes) /\ Len(t) = 1 /\ t[1] = RealTag
    BY DEF RealTag, Tag, Bytes
  <2>2. v \in Seq(Bytes) /\ Len(v) = 4
    BY RealIsSequence
  <2> HIDE DEF t
  <2>3. /\ t \o v \in Seq(Bytes) /\ Len(t \o v) = Len(t) + Len(v)
        /\ \A i \in 1..Len(t) : (t \o v)[i] = t[i]
        /\ \A i \in 1..Len(v) : (t \o v)[Len(t) + i] = v[i]
    BY <2>1, <2>2, Concat
  <2>4. y = t \o v
    BY DEF t
  <2> HIDE DEF y
  <2>5. /\ y \in Seq(Bytes) /\ Len(y) = 1 + 4
        /\ \A i \in 1..1 : y[i] = t[i]
        /\ \A i \in 1..4 : y[1 + i] = v[i]
    BY <2>1, <2>2, <2>3, <2>4
  <2> QED
    BY <2>1, <2>5
<1>4. h \in Seq(Bytes)
  BY DEF Bytes
<1> HIDE DEF h, x, y, z
<1>5. /\ y \o z \in Seq(Bytes) /\ Len(y \o z) = 6 /\ \A i \in 1..5 : (y \o z)[i] = y[i]
      /\ (y \o z)[6] = Closing
  <2> DEFINE w == y \o z
  <2>1. /\ w \in Seq(Bytes) /\ Len(w) = Len(y) + Len(z)
        /\ \A i \in 1..Len(y) : w[i] = y[i]
        /\ \A i \in 1..Len(z) : w[Len(y) + i] = z[i]
    BY <1>2, <1>3, Concat
  <2> HIDE DEF w
  <2>2. 1 \in 1..Len(z) /\ Len(y) + 1 = 6 /\ 1 \in 1..Len(y)
    BY <1>2, <1>3
  <2>3. w[6] = z[1]
    BY <2>1, <2>2
  <2> QED
    BY <1>2, <1>3, <2>1, <2>3 DEF w
<1>6. /\ rest \in Seq(Bytes) /\ Len(rest) = 7 /\ rest[1] = Opening
      /\ rest[2] = RealTag /\ \A i \in 1..4 : rest[2 + i] = v[i] /\ rest[7] = Closing
  <2>1. /\ rest \in Seq(Bytes) /\ Len(rest) = Len(x) + Len(y \o z)
        /\ \A i \in 1..Len(x) : rest[i] = x[i]
        /\ \A i \in 1..Len(y \o z) : rest[Len(x) + i] = (y \o z)[i]
    BY <1>1, <1>5, Concat
  <2> HIDE DEF rest
  <2>2. \A i \in 1..6 : rest[1 + i] = (y \o z)[i]
    BY <1>1, <1>5, <2>1
  <2>3. ASSUME NEW i \in 1..5 PROVE rest[1 + i] = y[i]
    <3>1. i \in 1..6
      OBVIOUS
    <3> QED
      BY <1>5, <2>2, <3>1
  <2>4. rest[1] = Opening /\ Len(rest) = 7
    BY <1>1, <1>5, <2>1
  <2>5. rest[2] = RealTag
    <3>1. 1 \in 1..5 /\ 1 + 1 = 2
      OBVIOUS
    <3> QED
      BY <1>3, <2>3, <3>1
  <2>6. rest[7] = Closing
    <3>1. 6 \in 1..6 /\ 1 + 6 = 7
      OBVIOUS
    <3> QED
      BY <1>5, <2>2, <3>1
  <2>7. ASSUME NEW i \in 1..4 PROVE rest[2 + i] = v[i]
    <3>1. 1 + i \in 1..5 /\ 1 + (1 + i) = 2 + i
      OBVIOUS
    <3> QED
      BY <1>3, <2>3, <3>1
  <2> QED
    BY <2>1, <2>4, <2>5, <2>6, <2>7
<1>7. ref \in Seq(Bytes)
  BY ReferenceBytes DEF Types
<1>8. WriteRequest(AnalogValue, o, property, <<RealTag>> \o v) = a
  <2>1. WriteRequest(AnalogValue, o, property, <<RealTag>> \o v) = (((h \o ref) \o x) \o y) \o z
    BY DEF WriteRequest, h, x, y, z
  <2> HIDE DEF ref
  <2>2. (((h \o ref) \o x) \o y) \o z = ((h \o ref) \o x) \o (y \o z)
    <3>1. (h \o ref) \o x \in Seq(Bytes)
      BY <1>1, <1>4, <1>7, Concat
    <3> QED
      BY <1>2, <1>3, <3>1, Associative, Zenon
  <2>3. ((h \o ref) \o x) \o (y \o z) = (h \o ref) \o rest
    <3>1. h \o ref \in Seq(Bytes)
      BY <1>4, <1>7, Concat
    <3> QED
      BY <1>1, <1>5, <3>1, Associative, Zenon
  <2>4. (h \o ref) \o rest = h \o p
    <3> HIDE DEF rest
    <3> QED
      BY <1>4, <1>6, <1>7, Associative, Zenon
  <2> QED
    BY <2>1, <2>2, <2>3, <2>4, Zenon DEF Headed, h
<1> HIDE DEF rest
<1>9. /\ References(p, id, u) /\ p \in Seq(Bytes) /\ Len(p) = (6 + n) + 7
      /\ \A i \in 1..7 : p[(6 + n) + i] = rest[i]
  <2>1. AnalogValue \in Types /\ rest \in Seq(Bytes) /\ rest[1] = Opening
    BY <1>6 DEF Types
  <2>2. /\ References(p, id, u) /\ p \in Seq(Bytes) /\ Len(p) = (6 + n) + Len(rest)
        /\ \A i \in 1..Len(rest) : p[(6 + n) + i] = rest[i]
    <3>1. /\ References(p, ObjectId(AnalogValue, o), Unsigned(property))
          /\ p \in Seq(Bytes) /\ Len(p) = (6 + Len(Unsigned(property))) + Len(rest)
          /\ \A i \in 1..Len(rest) : p[(6 + Len(Unsigned(property))) + i] = rest[i]
      BY <2>1, ReferenceWritten
    <3> QED
      BY <3>1, Zenon
  <2> QED
    BY <1>6, <2>2, Zenon
<1> HIDE DEF p
<1>10. a \in Seq(Bytes) /\ Len(a) = 4 + Len(p) /\ From(a, 5) = p /\ a[1] = 0 /\ a[2] = 5
       /\ a[3] = 1 /\ a[4] = 15
  <2>1. 0 \in Bytes /\ 5 \in Bytes /\ 1 \in Bytes /\ 15 \in Bytes
    BY DEF Bytes
  <2>2. p \in Seq(Bytes)
    BY <1>9
  <2> QED
    BY <2>1, <2>2, HeadedIs
<1> HIDE DEF a
<1>11. Asks(a, 15, p)
  BY <1>9, <1>10 DEF Asks
<1>12. Encloses(rest, v)
  BY <1>6 DEF Encloses
<1> QED
  BY <1>8, <1>9, <1>11, <1>12, Zenon

\* Every other property than the present-value is dropped, whatever its value.
LEMMA AnyWriteRead ==
    \A o \in 0..MaxInstance, v \in Reals : \A property : Fits(property) =>
        LET a == WriteRequest(AnalogValue, o, property, <<RealTag>> \o v) IN
        Short(a) /\ ApduMeaning(a) = WriteMeans(o, property, v)
<1> SUFFICES ASSUME NEW o \in 0..MaxInstance, NEW v \in Reals, NEW property, Fits(property)
             PROVE  LET a == WriteRequest(AnalogValue, o, property, <<RealTag>> \o v) IN
                    Short(a) /\ ApduMeaning(a) = WriteMeans(o, property, v)
  OBVIOUS
<1> DEFINE a == WriteRequest(AnalogValue, o, property, <<RealTag>> \o v)
           id == ObjectId(AnalogValue, o)
           u == Unsigned(property)
           n == Len(u)
<1>1. PICK p, rest :
        /\ Asks(a, 15, p) /\ References(p, id, u) /\ Len(p) = (6 + n) + 7
        /\ \A i \in 1..7 : p[(6 + n) + i] = rest[i]
        /\ Encloses(rest, v)
  BY WriteRequestIs, Zenon
<1> DEFINE r == PropertyReference(p)
<1> HIDE DEF a
<1>2. /\ rest[1] = Opening /\ rest[2] = RealTag /\ \A i \in 1..4 : rest[2 + i] = v[i]
      /\ rest[7] = Closing
  BY <1>1 DEF Encloses
<1>3. n \in 1..4 /\ Number(u) = property
  BY UnsignedFits
<1>4. /\ References(p, id, u) /\ p \in Seq(Bytes) /\ Len(p) = (6 + n) + 7
      /\ \A i \in 1..7 : p[(6 + n) + i] = rest[i]
  BY <1>1 DEF Asks
<1>5. a \in Seq(Bytes) /\ Len(a) = 4 + Len(p) /\ From(a, 5) = p /\ a[1] = 0 /\ a[4] = 15
  BY <1>1 DEF Asks
<1>6. r = [is |-> "yes", type |-> AnalogValue, object |-> o, property |-> property, next |-> 7 + n]
  <2>1. r = [is |-> "yes", type |-> Number(id) \div (MaxInstance + 1),
             object |-> Number(id) % (MaxInstance + 1), property |-> Number(u), next |-> 7 + Len(u)]
    BY <1>4, ReferenceOf, Zenon
  <2>2. Number(id) \div (MaxInstance + 1) = AnalogValue /\ Number(id) % (MaxInstance + 1) = o
    BY ObjectIdOf DEF Types
  <2> HIDE DEF r, id
  <2> QED
    BY <1>3, <2>1, <2>2
<1> HIDE DEF n, id
<1>7. ApduMeaning(a) = WriteProperty(p)
  <2>1. ~(Len(a) < 2) /\ a[1] \div 16 = 0 /\ ~(Len(a) < 4) /\ a[4] # 12
    BY <1>3, <1>4, <1>5
  <2> QED
    BY <1>5, <2>1 DEF ApduMeaning
<1>8. Short(a)
  BY <1>3, <1>4, <1>5 DEF Short
<1>9. WriteProperty(p) = WriteMeans(o, property, v)
  <2>1. CASE property # PresentValue
    <3> HIDE DEF r
    <3>1. r.property = property
      BY <1>6
    <3>2. WriteReferenced(r, p) = Drop
      BY <2>1, <3>1, Zenon DEF WriteReferenced
    <3> QED
      BY <2>1, <3>2, Zenon DEF WriteMeans, WriteProperty, r
  <2>2. CASE property = PresentValue
    <3>1. n = 1
      <4>1. property \in Nat /\ property < 256
        BY <2>2 DEF PresentValue
      <4> QED
        BY <4>1, NumbersAreRead DEF n
    <3>2. Writes(p, v)
      <4>1. Len(p) = 14 /\ \A i \in 1..7 : p[7 + i] = rest[i]
        BY <1>4, <3>1
      <4>2. /\ rest[1] = Opening /\ rest[2] = RealTag /\ rest[3] = v[1] /\ rest[4] = v[2]
            /\ rest[5] = v[3] /\ rest[6] = v[4] /\ rest[7] = Closing
        BY <1>2
      <4>3. /\ p[8] = rest[1] /\ p[9] = rest[2] /\ p[10] = rest[3] /\ p[11] = rest[4]
            /\ p[12] = rest[5] /\ p[13] = rest[6] /\ p[14] = rest[7]
        BY <4>1
      <4> QED
        BY <4>1, <4>2, <4>3 DEF Writes
    <3>3. r = [is |-> "yes", type |-> AnalogValue, object |-> o, property |-> PresentValue, next |-> 8]
      BY <1>6, <2>2, <3>1
    <3>4. WriteProperty(p) = IF HasClosing(v) THEN Drop ELSE [step |-> "write", object |-> o, real |-> v]
      BY <1>4, <3>2, <3>3, WritePropertyRead, Zenon
    <3> QED
      BY <2>2, <3>4, Zenon DEF WriteMeans, HasClosing
  <2> QED
    BY <2>1, <2>2
<1> QED
  BY <1>7, <1>8, <1>9, Zenon DEF a

\* Who-Is without limits is two bytes.
LEMMA WhoIsBytes == WhoIsRequest(<<>>) = <<16, 8>>
<1> DEFINE a == <<16, 8>>
<1>1. [k \in DOMAIN <<>> |-> Tagged(Tag(2, FALSE), Unsigned(<<>>[k]))] = <<>>
  OBVIOUS
<1>2. FlattenSeq(<<>>) = <<>>
  BY DEF FlattenSeq
<1>3. a \in Seq(Nat) /\ a \o <<>> = a
  BY ConcatEmptySeq
<1> QED
  BY <1>1, <1>2, <1>3 DEF WhoIsRequest

\* It is answered.
LEMMA WhoIsRead ==
    Short(WhoIsRequest(<<>>)) /\ ApduMeaning(WhoIsRequest(<<>>)) = Respond
<1> DEFINE a == <<16, 8>>
<1>1. WhoIsRequest(<<>>) = a
  BY WhoIsBytes
<1>2. a \in Seq(Bytes) /\ Len(a) = 2 /\ a[1] = 16 /\ a[2] = 8
  BY DEF Bytes
<1> HIDE DEF a
<1>3. Len(From(a, 3)) = 0
  BY <1>2 DEF From
<1>4. Element(From(a, 3), 1, Tag(2, FALSE)).is = "no"
  <2>1. 1 > Len(From(a, 3))
    BY <1>3
  <2> QED
    BY <2>1, NoElement, Zenon
<1>5. WhoIs(From(a, 3)) = Respond
  BY <1>4 DEF WhoIs
<1>6. a[1] \div 16 = 1 /\ ~(Len(a) < 2)
  BY <1>2
<1>7. ApduMeaning(a) = WhoIs(From(a, 3))
  BY <1>2, <1>6 DEF ApduMeaning
<1>8. Short(a)
  BY <1>2 DEF Short
<1> QED
  BY <1>1, <1>5, <1>7, <1>8, Zenon

\* A request that ends within its first tag raises, and is dropped.
CutRequest == <<0, 5, 1, 12, Tag(0, TRUE) + 5>>
\* Its extended length would follow the end.
LEMMA CutRead == Short(CutRequest) /\ ApduMeaning(CutRequest) = Drop
<1> DEFINE a == CutRequest
           p == From(a, 5)
<1>1. a \in Seq(Bytes) /\ Len(a) = 5 /\ a[1] = 0 /\ a[4] = 12 /\ a[5] = 13
  BY DEF CutRequest, Bytes, Tag
<1> HIDE DEF a
<1>2. Len(p) = 1 /\ p[1] = 13
  <2>1. 5 \in 1..Len(a) + 1 /\ 5 \in 5 - 1..Len(a) /\ (5 + 1) - 5 = 1
    BY <1>1
  <2>2. LET s == SubSeq(a, 5, 5) IN Len(s) = 1 /\ \A i \in 1..1 : s[i] = a[i + (5 - 1)]
    BY <1>1, <2>1, Slice, Zenon
  <2> QED
    BY <1>1, <2>2 DEF From
<1> HIDE DEF p
<1>3. Element(p, 1, Tag(0, TRUE)).is = "raises"
  <2>1. p[1] % 8 = 5 /\ (p[1] \div 8) * 8 = Tag(0, TRUE) /\ ~(1 > Len(p)) /\ 1 = Len(p)
    BY <1>2 DEF Tag
  <2>2. Element(p, 1, Tag(0, TRUE)) = [[is |-> "no", bytes |-> <<>>, next |-> 1] EXCEPT !.is = "raises"]
    BY <2>1, Zenon DEF Element
  <2> QED
    BY <2>2
<1>4. PropertyReference(p) = [is |-> "no"]
  <2>1. PICK e0, e1, e2 :
          /\ e0 = Element(p, 1, Tag(0, TRUE))
          /\ e1 = Element(p, e0.next, Tag(1, TRUE))
          /\ e2 = Element(p, e1.next, Tag(2, TRUE))
          /\ PropertyReference(p) =
                LET id == Number(e0.bytes) IN
                IF e0.is = "yes" /\ Len(e0.bytes) = 4 /\ e1.is = "yes" /\ e2.is # "raises"
                THEN [is |-> "yes", type |-> id \div (MaxInstance + 1), object |-> id % (MaxInstance + 1),
                      property |-> Number(e1.bytes), next |-> e2.next]
                ELSE [is |-> "no"]
    BY ReferenceElements, Zenon
  <2>2. e0.is # "yes"
    BY <1>3, <2>1
  <2> QED
    BY <2>1, <2>2, Zenon
<1>5. ReadProperty(p) = Drop
  BY <1>4 DEF ReadProperty, ReadReferenced
<1>6. ApduMeaning(a) = ReadProperty(p)
  <2>1. ~(Len(a) < 2) /\ a[1] \div 16 = 0 /\ ~(Len(a) < 4)
    BY <1>1
  <2> QED
    BY <1>1, <2>1 DEF ApduMeaning, p
<1>7. Short(a)
  BY <1>1 DEF Short
<1> QED
  BY <1>5, <1>6, <1>7, Zenon DEF a

\* The limits of a Who-Is follow each other.
LEMMA FlattenPair ==
    ASSUME NEW x \in Seq(Bytes), NEW y \in Seq(Bytes)
    PROVE  FlattenSeq(<<x, y>>) = x \o y
<1> DEFINE s == <<x, y>>
           IsFlat(f) == f = [i \in 1..Len(s) |-> IF i = 1 THEN s[i] ELSE f[i - 1] \o s[i]]
           g == [i \in 1..Len(s) |-> IF i = 1 THEN x ELSE x \o y]
           c == CHOOSE f : IsFlat(f)
<1>1. Len(s) = 2 /\ s[1] = x /\ s[2] = y
  OBVIOUS
<1>2. FlattenSeq(s) = c[Len(s)]
  BY <1>1 DEF FlattenSeq
<1> HIDE DEF s
<1>3. IsFlat(g)
  <2>1. ASSUME NEW i \in 1..Len(s)
        PROVE  g[i] = IF i = 1 THEN s[i] ELSE g[i - 1] \o s[i]
    <3>1. i = 1 \/ i = 2
      BY <1>1
    <3>2. g[1] = x /\ g[2] = x \o y
      BY <1>1
    <3> QED
      BY <1>1, <3>1, <3>2
  <2> QED
    BY <2>1
<1> HIDE DEF g
<1>4. IsFlat(c)
  <2> HIDE DEF IsFlat
  <2> QED
    BY <1>3
<1> HIDE DEF c
<1>5. c[1] = x /\ c[2] = c[1] \o s[2]
  <2>1. \A i \in 1..2 : c[i] = IF i = 1 THEN s[i] ELSE c[i - 1] \o s[i]
    <3>1. c = [i \in 1..2 |-> IF i = 1 THEN s[i] ELSE c[i - 1] \o s[i]]
      BY <1>1, <1>4
    <3> QED
      BY <3>1, Zenon
  <2>2. 1 \in 1..2 /\ 2 \in 1..2 /\ 2 - 1 = 1 /\ 2 # 1
    OBVIOUS
  <2> QED
    BY <1>1, <2>1, <2>2
<1> QED
  BY <1>1, <1>2, <1>5 DEF s

\* Who-Is with both limits is answered by a device between them.
LEMMA AnyWhoIsRead ==
    \A low, high : Fits(low) /\ Fits(high) =>
        LET a == WhoIsRequest(<<low, high>>) IN
        /\ Short(a)
        /\ ApduMeaning(a) = IF Device.instance \in low..high THEN Respond ELSE Drop
<1> SUFFICES ASSUME NEW low, NEW high, Fits(low), Fits(high)
             PROVE  LET a == WhoIsRequest(<<low, high>>) IN
                    /\ Short(a)
                    /\ ApduMeaning(a) = IF Device.instance \in low..high THEN Respond ELSE Drop
  OBVIOUS
<1> DEFINE h == <<16, 8>>
           u == Unsigned(low)
           v == Unsigned(high)
           x == Tagged(32, u)
           y == Tagged(32, v)
           p == x \o y
           a == h \o p
<1>1. WhoIsRequest(<<low, high>>) = a
  <2> DEFINE limits == <<low, high>>
             f == [k \in DOMAIN limits |-> Tagged(Tag(2, FALSE), Unsigned(limits[k]))]
  <2>1. Tag(2, FALSE) = 32
    BY DEF Tag
  <2>2. f = <<x, y>>
    <3>1. DOMAIN limits = 1..2 /\ limits[1] = low /\ limits[2] = high
      OBVIOUS
    <3> HIDE DEF limits
    <3>2. f[1] = x /\ f[2] = y
      <4>1. 1 \in DOMAIN limits /\ 2 \in DOMAIN limits
        BY <3>1
      <4>2. f[1] = Tagged(Tag(2, FALSE), Unsigned(limits[1]))
            /\ f[2] = Tagged(Tag(2, FALSE), Unsigned(limits[2]))
        BY <4>1, Zenon
      <4> QED
        BY <2>1, <3>1, <4>2, Zenon
    <3>3. f = [k \in 1..2 |-> f[k]]
      BY <3>1
    <3> HIDE DEF f
    <3>4. [k \in 1..2 |-> f[k]] = <<f[1], f[2]>>
      OBVIOUS
    <3> QED
      BY <3>2, <3>3, <3>4
  <2>3. WhoIsRequest(limits) = h \o FlattenSeq(f)
    BY Zenon DEF WhoIsRequest
  <2>4. FlattenSeq(<<x, y>>) = p
    <3>1. x \in Seq(Bytes) /\ y \in Seq(Bytes)
      BY UnsignedFits, TaggedIs
    <3> HIDE DEF x, y
    <3> QED
      BY <3>1, FlattenPair
  <2> HIDE DEF f
  <2> QED
    BY <2>2, <2>3, <2>4
<1>2. /\ u \in Seq(Bytes) /\ Len(u) \in 1..4 /\ Number(u) = low
      /\ v \in Seq(Bytes) /\ Len(v) \in 1..4 /\ Number(v) = high
  BY UnsignedFits
<1> HIDE DEF u, v
<1>3. /\ x \in Seq(Bytes) /\ Len(x) = 1 + Len(u) /\ y \in Seq(Bytes) /\ Len(y) = 1 + Len(v)
  BY <1>2, TaggedIs
<1>4. Bears(p, 1, 32, u)
  <2> DEFINE e == <<>>
  <2>1. e \in Seq(Bytes) /\ Len(e) = 0
    OBVIOUS
  <2>2. e \o x = x
    <3> HIDE DEF x
    <3> QED
      BY <1>3, ConcatEmptySeq
  <2> HIDE DEF e
  <2>3. Bears((e \o x) \o y, Len(e) + 1, 32, u)
    <3>1. Carries(e, 32, u, y)
      <4> HIDE DEF y
      <4>1. 32 \in {8, 24, 32, 40}
        OBVIOUS
      <4> QED
        BY <1>2, <1>3, <2>1, <4>1, BearsTagged
    <3> QED
      BY <3>1 DEF Carries
  <2>4. Len(e) + 1 = 1
    BY <2>1
  <2> QED
    BY <2>2, <2>3, <2>4
<1>5. Bears(p, Len(x) + 1, 32, v)
  <2> DEFINE e == <<>>
  <2>1. e \in Seq(Bytes)
    OBVIOUS
  <2>2. p \in Seq(Bytes)
    <3> HIDE DEF x, y
    <3> QED
      BY <1>3, Concat
  <2>3. p \o e = p
    <3> HIDE DEF p
    <3> QED
      BY <2>2, ConcatEmptySeq
  <2> HIDE DEF e
  <2>4. Bears((x \o y) \o e, Len(x) + 1, 32, v)
    <3>1. Carries(x, 32, v, e)
      <4> HIDE DEF x
      <4>1. 32 \in {8, 24, 32, 40}
        OBVIOUS
      <4> QED
        BY <1>2, <1>3, <2>1, <4>1, BearsTagged
    <3> QED
      BY <3>1 DEF Carries
  <2> QED
    BY <2>3, <2>4
<1> HIDE DEF x, y
<1>6. p \in Seq(Bytes) /\ Len(p) = Len(x) + Len(y)
  BY <1>3, Concat
<1> HIDE DEF p
<1>7. h \in Seq(Bytes) /\ Len(h) = 2 /\ h[1] = 16 /\ h[2] = 8
  BY DEF Bytes
<1> HIDE DEF h
<1>8. /\ a \in Seq(Bytes) /\ Len(a) = Len(h) + Len(p) /\ \A i \in 1..Len(h) : a[i] = h[i]
      /\ \A k : k = Len(h) + 1 => From(a, k) = p
  BY <1>6, <1>7, FromConcat, Zenon
<1> HIDE DEF a
<1>9. a[1] = 16 /\ a[2] = 8 /\ From(a, 3) = p /\ Len(a) \in 6..12
  <2>1. a[1] = 16 /\ a[2] = 8 /\ From(a, 3) = p
    <3>1. 1 \in 1..Len(h) /\ 2 \in 1..Len(h) /\ 3 = Len(h) + 1
      BY <1>7
    <3> QED
      BY <1>7, <1>8, <3>1, Zenon
  <2>2. Len(a) = 2 + ((1 + Len(u)) + (1 + Len(v)))
    BY <1>3, <1>6, <1>7, <1>8, Zenon
  <2>3. \A k \in 1..4, l \in 1..4 : 2 + ((1 + k) + (1 + l)) \in 6..12
    OBVIOUS
  <2>4. Len(a) \in 6..12
    BY <1>2, <2>2, <2>3, Zenon
  <2> QED
    BY <2>1, <2>4
<1>10. Short(a)
  <2>1. a \in Seq(Bytes) /\ Len(a) \in 6..12
    BY <1>8, <1>9
  <2> HIDE DEF a
  <2>2. 1 <= Len(a) /\ Len(a) <= 100
    <3>1. \A k \in 6..12 : 1 <= k /\ k <= 100
      OBVIOUS
    <3> QED
      BY <2>1, <3>1, Zenon
  <2> QED
    BY <2>1, <2>2 DEF Short
<1>11. ApduMeaning(a) = WhoIs(p)
  <2>1. ~(Len(a) < 2) /\ a[1] \div 16 = 1
    BY <1>9
  <2> QED
    BY <1>9, <2>1 DEF ApduMeaning
<1>12. WhoIs(p) = IF Device.instance \in low..high THEN Respond ELSE Drop
  <2> DEFINE lower == Element(p, 1, Tag(2, FALSE))
             upper == Element(p, lower.next, Tag(2, FALSE))
  <2>1. Tag(2, FALSE) = 32 /\ 32 \in {8, 24, 32, 40}
    BY DEF Tag
  <2>2. lower = [is |-> "yes", bytes |-> u, next |-> (1 + 1) + Len(u)]
    <3>1. Element(p, 1, 32) = [is |-> "yes", bytes |-> u, next |-> (1 + 1) + Len(u)]
      BY <1>4, <2>1, ElementRead, Zenon
    <3> QED
      BY <2>1, <3>1, Zenon
  <2>3. lower.is = "yes" /\ lower.bytes = u /\ lower.next = Len(x) + 1
    <3>1. (1 + 1) + Len(u) = Len(x) + 1
      BY <1>2, <1>3
    <3> HIDE DEF lower
    <3> QED
      BY <2>2, <3>1
  <2> HIDE DEF lower
  <2>4. upper = [is |-> "yes", bytes |-> v, next |-> ((Len(x) + 1) + 1) + Len(v)]
    <3>1. Element(p, Len(x) + 1, 32)
             = [is |-> "yes", bytes |-> v, next |-> ((Len(x) + 1) + 1) + Len(v)]
      BY <1>5, <2>1, ElementRead, Zenon
    <3> QED
      BY <2>1, <2>3, <3>1, Zenon
  <2> HIDE DEF upper
  <2>5. upper.is = "yes" /\ upper.bytes = v
    BY <2>4
  <2>6. WhoIs(p) = IF Device.instance < low THEN Drop
                   ELSE IF Device.instance > high THEN Drop ELSE Respond
    <3>1. WhoIs(p) = IF lower.is = "no" THEN Respond
                     ELSE IF "raises" \in {lower.is, upper.is} \/ Device.instance < Number(lower.bytes) THEN Drop
                     ELSE IF upper.is = "yes" /\ Device.instance > Number(upper.bytes) THEN Drop
                     ELSE Respond
      BY DEF WhoIs, lower, upper
    <3>2. "raises" \notin {lower.is, upper.is}
      BY <2>3, <2>5
    <3> QED
      BY <1>2, <2>3, <2>5, <3>1, <3>2
  <2>7. low \in Nat /\ high \in Nat /\ Device.instance \in Nat
    BY MaxInstanceType, DeviceAssumption DEF Fits
  <2> QED
    BY <2>6, <2>7
<1> QED
  BY <1>1, <1>10, <1>11, <1>12, Zenon

-----------------------------------------------------------------------------
(* Datagrams *)

Lengths == -1..255
Routing == {r \in [to : Lengths, from : Seq(Bytes)] : Len(r.from) <= 6}

\* Of a route.
LEMMA RouteIs ==
    \A route \in Routing :
        /\ route.to \in -1..255 /\ route.from \in Seq(Bytes) /\ Len(route.from) \in 0..6
        /\ route.from = <<>> <=> Len(route.from) = 0
<1> SUFFICES ASSUME NEW route \in Routing
             PROVE  /\ route.to \in -1..255 /\ route.from \in Seq(Bytes) /\ Len(route.from) \in 0..6
                    /\ route.from = <<>> <=> Len(route.from) = 0
  BY Zenon
<1>1. route.to \in -1..255 /\ route.from \in Seq(Bytes) /\ Len(route.from) <= 6
  BY DEF Routing, Lengths
<1>2. Len(route.from) \in Nat
  BY <1>1, Elements
<1>3. route.from = <<>> <=> Len(route.from) = 0
  BY <1>1, EmptySeq
<1>4. Len(route.from) \in 0..6
  <2> DEFINE m == Len(route.from)
  <2>1. m \in Nat /\ m <= 6
    BY <1>1, <1>2
  <2> HIDE DEF m
  <2>2. m \in 0..6
    BY <2>1
  <2> QED
    BY <2>2 DEF m
<1> QED
  BY <1>1, <1>3, <1>4, Zenon

\* An address in the NPDU header begins with its length.
LEMMA AddressIs ==
    \A s \in Seq(Bytes) : Len(s) <= 255 =>
        LET a == Address(s) IN
        /\ a \in Seq(Bytes) /\ Len(a) = 3 + Len(s) /\ a[3] = Len(s)
        /\ \A i \in 1..Len(s) : a[3 + i] = s[i]
<1> SUFFICES ASSUME NEW s \in Seq(Bytes), Len(s) <= 255
             PROVE  LET a == Address(s) IN
                    /\ a \in Seq(Bytes) /\ Len(a) = 3 + Len(s) /\ a[3] = Len(s)
                    /\ \A i \in 1..Len(s) : a[3 + i] = s[i]
  BY Zenon
<1> DEFINE n == Len(s)
           h == <<0, 5, n>>
           a == h \o s
<1>1. n \in Nat /\ n <= 255
  BY Elements
<1> HIDE DEF n
<1>2. h \in Seq(Bytes) /\ Len(h) = 3 /\ h[3] = n
  BY <1>1 DEF Bytes
<1> HIDE DEF h
<1>3. /\ a \in Seq(Bytes) /\ Len(a) = Len(h) + Len(s)
      /\ \A i \in 1..Len(h) : a[i] = h[i]
      /\ \A i \in 1..Len(s) : a[Len(h) + i] = s[i]
  BY <1>2, Concat, Zenon
<1>4. Address(s) = a
  BY DEF Address, h, n
<1> HIDE DEF a
<1>5. Len(a) = 3 + n /\ a[3] = n /\ \A i \in 1..n : a[3 + i] = s[i]
  <2>1. Len(s) = n
    BY DEF n
  <2> QED
    BY <1>1, <1>2, <1>3, <2>1
<1> QED
  BY <1>3, <1>4, <1>5, Zenon DEF n

\* The address of a destination, of whatever bytes, has the length it is given.
LEMMA DestinationIs ==
    \A n \in 0..255 :
        LET a == Address([k \in 1..n |-> 7]) IN
        a \in Seq(Bytes) /\ Len(a) = 3 + n /\ a[3] = n
<1> SUFFICES ASSUME NEW n \in 0..255
             PROVE  LET a == Address([k \in 1..n |-> 7]) IN
                    a \in Seq(Bytes) /\ Len(a) = 3 + n /\ a[3] = n
  BY Zenon
<1> DEFINE s == [k \in 1..n |-> 7]
<1>1. s \in Seq(Bytes) /\ Len(s) = n
  <2>1. n \in Nat /\ s \in [1..n -> Bytes]
    BY DEF Bytes
  <2> HIDE DEF s
  <2>2. s \in Seq(Bytes)
    BY <2>1
  <2> QED
    BY <2>1, <2>2, LenProperties
<1> HIDE DEF s
<1>2. Len(s) <= 255
  BY <1>1
<1>3. LET a == Address(s) IN a \in Seq(Bytes) /\ Len(a) = 3 + Len(s) /\ a[3] = Len(s)
  BY <1>1, <1>2, AddressIs, Zenon
<1> QED
  BY <1>1, <1>3, Zenon DEF s

\* The NPDU header of a datagram.
Header(route) ==
    <<1, (IF route.to < 0 THEN 0 ELSE 32) + (IF route.from = <<>> THEN 0 ELSE 8)>>
        \o (IF route.to < 0 THEN <<>> ELSE Address([k \in 1..route.to |-> 7]))
        \o (IF route.from = <<>> THEN <<>> ELSE Address(route.from))
        \o (IF route.to < 0 THEN <<>> ELSE <<255>>)

\* Where the server looks for the request in a forwarded datagram: it takes the first
\* byte of the source address for its length.
LEMMA ForwardedStart ==
    ASSUME NEW n, NEW l \in Nat, n[2] = 40, n[5] = l, Len(n) \in Nat, (9 + l) + 2 <= Len(n)
    PROVE  ApduStart(n) = (9 + l) + n[9 + l]
<1>1. Bit(40, 32) /\ Bit(40, 8) /\ ~Bit(40, 128)
  BY SMT DEF Bit
<1>2. ~(Len(n) < 5) /\ ~(Len(n) < ((5 + l) + 1) + 3) /\ ((5 + l) + 1) + 3 = 9 + l
  OBVIOUS
<1> QED
  BY <1>1, <1>2, Zenon DEF ApduStart

\* A header with both addresses: the source address begins at byte 9 + route.to, and the
\* hop count is last.
LEMMA HeaderForwarded ==
    \A route \in Routing : route.to >= 0 /\ route.from # <<>> =>
        LET h == Header(route)
            m == Len(route.from)
        IN  /\ h \in Seq(Bytes) /\ Len(h) = (9 + route.to) + m
            /\ h[1] = 1 /\ h[2] = 40 /\ h[5] = route.to
            /\ \A i \in 1..m : h[(8 + route.to) + i] = route.from[i]
            /\ h[(9 + route.to) + m] = 255
<1> SUFFICES ASSUME NEW route \in Routing, route.to >= 0, route.from # <<>>
             PROVE  LET h == Header(route)
                        m == Len(route.from)
                    IN  /\ h \in Seq(Bytes) /\ Len(h) = (9 + route.to) + m
                        /\ h[1] = 1 /\ h[2] = 40 /\ h[5] = route.to
                        /\ \A i \in 1..m : h[(8 + route.to) + i] = route.from[i]
                        /\ h[(9 + route.to) + m] = 255
  BY Zenon
<1> DEFINE l == route.to
           f == route.from
           m == Len(f)
           g == <<1, 40>>
           a == Address([k \in 1..l |-> 7])
           b == Address(f)
           z == <<255>>
           s == g \o a
           t == s \o b
           h == t \o z
<1>1. l \in 0..255 /\ m \in 0..6 /\ f \in Seq(Bytes) /\ ~(l < 0) /\ f # <<>> /\ m <= 255
  <2>1. l \in -1..255 /\ m \in 0..6 /\ f \in Seq(Bytes) /\ l >= 0 /\ f # <<>>
    BY RouteIs, Zenon
  <2> HIDE DEF l, m, f
  <2> QED
    BY <2>1
<1>2. g \in Seq(Bytes) /\ Len(g) = 2 /\ g[1] = 1 /\ g[2] = 40
  BY DEF Bytes
<1>3. z \in Seq(Bytes) /\ Len(z) = 1 /\ z[1] = 255
  BY DEF Bytes
<1>4. Header(route) = h
  <2>1. Header(route) = ((<<1, 32 + 8>> \o a) \o b) \o z
    BY <1>1, Zenon DEF Header
  <2>2. 32 + 8 = 40
    OBVIOUS
  <2> QED
    BY <2>1, <2>2, Zenon
<1> HIDE DEF l, f, g, z
<1>5. a \in Seq(Bytes) /\ Len(a) = 3 + l /\ a[3] = l
  BY <1>1, DestinationIs, Zenon
<1>6. b \in Seq(Bytes) /\ Len(b) = 3 + m /\ \A i \in 1..m : b[3 + i] = f[i]
  BY <1>1, AddressIs, Zenon
<1> HIDE DEF a, b, m
<1>7. s \in Seq(Bytes) /\ Len(s) = 5 + l /\ s[1] = 1 /\ s[2] = 40 /\ s[5] = l
  <2>1. /\ s \in Seq(Bytes) /\ Len(s) = Len(g) + Len(a)
        /\ \A i \in 1..Len(g) : s[i] = g[i]
        /\ \A i \in 1..Len(a) : s[Len(g) + i] = a[i]
    BY <1>2, <1>5, Concat, Zenon
  <2> HIDE DEF s
  <2>2. 1 \in 1..Len(g) /\ 2 \in 1..Len(g) /\ 3 \in 1..Len(a) /\ Len(g) + 3 = 5 /\ Len(s) = 5 + l
    BY <1>1, <1>2, <1>5, <2>1
  <2>3. s[1] = g[1] /\ s[2] = g[2] /\ s[Len(g) + 3] = a[3]
    BY <2>1, <2>2, Zenon
  <2> QED
    BY <1>2, <1>5, <2>1, <2>2, <2>3, Zenon
<1> HIDE DEF s
<1>8. /\ t \in Seq(Bytes) /\ Len(t) = (8 + l) + m /\ t[1] = 1 /\ t[2] = 40 /\ t[5] = l
      /\ \A i \in 1..m : t[(8 + l) + i] = f[i]
  <2>1. /\ t \in Seq(Bytes) /\ Len(t) = Len(s) + Len(b)
        /\ \A i \in 1..Len(s) : t[i] = s[i]
        /\ \A i \in 1..Len(b) : t[Len(s) + i] = b[i]
    BY <1>6, <1>7, Concat, Zenon
  <2> HIDE DEF t
  <2>2. Len(t) = (8 + l) + m /\ t[1] = 1 /\ t[2] = 40 /\ t[5] = l
    <3>1. Len(t) = (8 + l) + m /\ 1 \in 1..Len(s) /\ 2 \in 1..Len(s) /\ 5 \in 1..Len(s)
      BY <1>1, <1>6, <1>7, <2>1
    <3>2. t[1] = s[1] /\ t[2] = s[2] /\ t[5] = s[5]
      BY <2>1, <3>1, Zenon
    <3> QED
      BY <1>7, <3>1, <3>2, Zenon
  <2>3. ASSUME NEW i \in 1..m PROVE t[(8 + l) + i] = f[i]
    <3>1. 3 + i \in 1..Len(b) /\ Len(s) + (3 + i) = (8 + l) + i
      BY <1>1, <1>6, <1>7
    <3>2. t[Len(s) + (3 + i)] = b[3 + i]
      BY <2>1, <3>1, Zenon
    <3> QED
      BY <1>6, <3>1, <3>2, Zenon
  <2> QED
    BY <2>1, <2>2, <2>3
<1> HIDE DEF t
<1>9. /\ h \in Seq(Bytes) /\ Len(h) = (9 + l) + m /\ h[1] = 1 /\ h[2] = 40 /\ h[5] = l
      /\ \A i \in 1..m : h[(8 + l) + i] = f[i]
      /\ h[(9 + l) + m] = 255
  <2>5. t \in Seq(Bytes) /\ z \in Seq(Bytes)
    BY <1>3, <1>8
  <2>1. /\ h \in Seq(Bytes) /\ Len(h) = Len(t) + Len(z)
        /\ \A i \in 1..Len(t) : h[i] = t[i]
        /\ \A i \in 1..Len(z) : h[Len(t) + i] = z[i]
    BY <2>5, Concat, Zenon
  <2> HIDE DEF h
  <2>2. Len(h) = (9 + l) + m /\ h[1] = 1 /\ h[2] = 40 /\ h[5] = l
    <3>1. Len(h) = (9 + l) + m /\ 1 \in 1..Len(t) /\ 2 \in 1..Len(t) /\ 5 \in 1..Len(t)
      <4>1. /\ l \in 0..255 /\ m \in 0..6 /\ Len(t) = (8 + l) + m
            /\ Len(z) = 1 /\ Len(h) = Len(t) + Len(z)
        BY <1>1, <1>3, <1>8, <2>1, Zenon
      <4> QED
        BY <4>1
    <3>2. h[1] = t[1] /\ h[2] = t[2] /\ h[5] = t[5]
      BY <2>1, <3>1, Zenon
    <3> QED
      BY <1>8, <3>1, <3>2, Zenon
  <2>3. ASSUME NEW i \in 1..m PROVE h[(8 + l) + i] = f[i]
    <3>1. (8 + l) + i \in 1..Len(t)
      BY <1>1, <1>8
    <3>2. h[(8 + l) + i] = t[(8 + l) + i]
      BY <2>1, <3>1, Zenon
    <3> QED
      BY <1>8, <3>2, Zenon
  <2>4. h[(9 + l) + m] = 255
    <3>1. 1 \in 1..Len(z) /\ Len(t) + 1 = (9 + l) + m
      BY <1>1, <1>3, <1>8
    <3>2. h[Len(t) + 1] = z[1]
      BY <2>1, <3>1, Zenon
    <3> QED
      BY <1>3, <3>1, <3>2, Zenon
  <2> QED
    BY <2>1, <2>2, <2>3, <2>4
<1> HIDE DEF h
<1> QED
  BY <1>4, <1>9 DEF l, m, f

\* A header without a source address that is misread is passed over exactly.
LEMMA HeaderFits ==
    \A route \in Routing : ~Misread(route) =>
        LET h == Header(route) IN
        /\ h \in Seq(Bytes) /\ 2 <= Len(h) /\ Len(h) <= 300 /\ h[1] = 1
        /\ \A n : (\A i \in 1..Len(h) : n[i] = h[i]) /\ Len(n) \in Nat /\ Len(h) + 1 <= Len(n)
               => ApduStart(n) = Len(h)
<1> SUFFICES ASSUME NEW route \in Routing, ~Misread(route)
             PROVE  LET h == Header(route) IN
                    /\ h \in Seq(Bytes) /\ 2 <= Len(h) /\ Len(h) <= 300 /\ h[1] = 1
                    /\ \A n : (\A i \in 1..Len(h) : n[i] = h[i]) /\ Len(n) \in Nat /\ Len(h) + 1 <= Len(n)
                           => ApduStart(n) = Len(h)
  BY Zenon
<1>1. /\ route.to \in -1..255 /\ route.from \in Seq(Bytes) /\ Len(route.from) \in 0..6
      /\ Len(route.from) <= 255
  <2>1. route.to \in -1..255 /\ route.from \in Seq(Bytes) /\ Len(route.from) \in 0..6
    BY RouteIs, Zenon
  <2>2. \A k \in 0..6 : k <= 255
    OBVIOUS
  <2> QED
    BY <2>1, <2>2, Zenon
<1>2. CASE route.to < 0 /\ route.from = <<>>
  <2> DEFINE h == <<1, 0>>
  <2>1. h \in Seq(Bytes) /\ Len(h) = 2 /\ h[1] = 1 /\ h[2] = 0
    BY DEF Bytes
  <2>2. Header(route) = h
    <3>1. Header(route) = ((<<1, 0 + 0>> \o <<>>) \o <<>>) \o <<>>
      BY <1>2, Zenon DEF Header
    <3>2. 0 + 0 = 0
      OBVIOUS
    <3> HIDE DEF h
    <3>3. h \o <<>> = h
      BY <2>1, ConcatEmpty
    <3> QED
      BY <3>1, <3>2, <3>3 DEF h
  <2> HIDE DEF h
  <2>3. ASSUME NEW n, \A i \in 1..Len(h) : n[i] = h[i], Len(n) \in Nat, Len(h) + 1 <= Len(n)
        PROVE  ApduStart(n) = Len(h)
    <3>1. n[2] = 0
      BY <2>1, <2>3
    <3>2. ~Bit(0, 32) /\ ~Bit(0, 8) /\ ~Bit(0, 128)
      BY SMT DEF Bit
    <3> QED
      BY <2>1, <3>1, <3>2 DEF ApduStart
  <2>4. 2 <= Len(h) /\ Len(h) <= 300
    BY <2>1
  <2> QED
    BY <2>1, <2>2, <2>3, <2>4, Zenon
<1>3. CASE ~(route.to < 0) /\ route.from = <<>>
  <2> DEFINE d == route.to
             a == Address([k \in 1..d |-> 7])
             g == <<1, 32>>
             s == g \o a
             z == <<255>>
             h == s \o z
  <2>1. d \in 0..255
    BY <1>1, <1>3
  <2>2. g \in Seq(Bytes) /\ Len(g) = 2 /\ g[1] = 1 /\ g[2] = 32 /\ z \in Seq(Bytes) /\ Len(z) = 1
    BY DEF Bytes
  <2>3. Header(route) = h
    <3>1. Header(route) = ((<<1, 32 + 0>> \o a) \o <<>>) \o z
      BY <1>3, Zenon DEF Header
    <3>2. 32 + 0 = 32 
      OBVIOUS
    <3>3. s \o <<>> = s
      <4>1. s \in Seq(Bytes)
        BY <2>1, <2>2, DestinationIs, Concat, Zenon
      <4> QED
        BY <4>1, ConcatEmpty, Zenon
    <3> QED
      BY <3>1, <3>2, <3>3
  <2> HIDE DEF d, g, z
  <2>4. a \in Seq(Bytes) /\ Len(a) = 3 + d /\ a[3] = d
    BY <2>1, DestinationIs, Zenon
  <2> HIDE DEF a
  <2>5. s \in Seq(Bytes) /\ Len(s) = 5 + d /\ s[1] = 1 /\ s[2] = 32 /\ s[5] = d
    <3>1. /\ s \in Seq(Bytes) /\ Len(s) = Len(g) + Len(a)
          /\ \A i \in 1..Len(g) : s[i] = g[i]
          /\ \A i \in 1..Len(a) : s[Len(g) + i] = a[i]
      BY <2>2, <2>4, Concat, Zenon
    <3> HIDE DEF s
    <3> QED
      BY <2>1, <2>2, <2>4, <3>1
  <2> HIDE DEF s
  <2>6. h \in Seq(Bytes) /\ Len(h) = 6 + d /\ h[1] = 1 /\ h[2] = 32 /\ h[5] = d
    <3>1. /\ h \in Seq(Bytes) /\ Len(h) = Len(s) + Len(z)
          /\ \A i \in 1..Len(s) : h[i] = s[i]
      BY <2>2, <2>5, Concat, Zenon
    <3> HIDE DEF h
    <3> QED
      BY <2>1, <2>2, <2>5, <3>1
  <2> HIDE DEF h
  <2>7. ASSUME NEW n, \A i \in 1..Len(h) : n[i] = h[i], Len(n) \in Nat, Len(h) + 1 <= Len(n)
        PROVE  ApduStart(n) = Len(h)
    <3>1. n[2] = 32 /\ n[5] = d /\ ~(Len(n) < 5) /\ 5 + d + 1 = Len(h)
      BY <2>1, <2>6, <2>7
    <3>2. Bit(32, 32) /\ ~Bit(32, 8) /\ ~Bit(32, 128)
      BY SMT DEF Bit
    <3> QED
      BY <3>1, <3>2, Zenon DEF ApduStart
  <2> QED
    BY <2>1, <2>3, <2>6, <2>7
<1>4. CASE route.to < 0 /\ route.from # <<>>
  <2> DEFINE f == route.from
             d == Len(f)
             a == Address(f)
             g == <<1, 8>>
             h == g \o a
  <2>1. f \in Seq(Bytes) /\ d \in 0..6 /\ d <= 255
    BY <1>1
  <2>2. g \in Seq(Bytes) /\ Len(g) = 2 /\ g[1] = 1 /\ g[2] = 8
    BY DEF Bytes
  <2>3. Header(route) = h
    <3>1. Header(route) = ((<<1, 0 + 8>> \o <<>>) \o a) \o <<>>
      BY <1>4, Zenon DEF Header
    <3>2. 0 + 8 = 8 
      OBVIOUS
    <3>3. h \in Seq(Bytes)
      BY <2>1, <2>2, AddressIs, Concat, Zenon
    <3>4. h \o <<>> = h /\ g \o <<>> = g
      BY <2>2, <3>3, ConcatEmpty, Zenon
    <3> QED
      BY <3>1, <3>2, <3>4
  <2> HIDE DEF f, g
  <2>4. a \in Seq(Bytes) /\ Len(a) = 3 + d /\ a[3] = d
    BY <2>1, AddressIs, Zenon
  <2> HIDE DEF a, d
  <2>5. h \in Seq(Bytes) /\ Len(h) = 5 + d /\ h[1] = 1 /\ h[2] = 8 /\ h[5] = d
    <3>1. /\ h \in Seq(Bytes) /\ Len(h) = Len(g) + Len(a)
          /\ \A i \in 1..Len(g) : h[i] = g[i]
          /\ \A i \in 1..Len(a) : h[Len(g) + i] = a[i]
      BY <2>2, <2>4, Concat, Zenon
    <3> HIDE DEF h
    <3> QED
      BY <2>1, <2>2, <2>4, <3>1
  <2> HIDE DEF h
  <2>6. ASSUME NEW n, \A i \in 1..Len(h) : n[i] = h[i], Len(n) \in Nat, Len(h) + 1 <= Len(n)
        PROVE  ApduStart(n) = Len(h)
    <3>1. n[2] = 8 /\ n[2 + 3] = d /\ ~(Len(n) < 2 + 3) /\ 2 + 3 + d = Len(h)
      BY <2>1, <2>5, <2>6
    <3>2. ~Bit(8, 32) /\ Bit(8, 8) /\ ~Bit(8, 128)
      BY SMT DEF Bit
    <3> QED
      BY <3>1, <3>2, Zenon DEF ApduStart
  <2> QED
    BY <2>1, <2>3, <2>5, <2>6
<1>5. CASE ~(route.to < 0) /\ route.from # <<>>
  <2> DEFINE h == Header(route)
             l == route.to
             f == route.from
             m == Len(f)
  <2>0. route.to >= 0
    <3>1. \A k \in -1..255 : ~(k < 0) => k >= 0
      OBVIOUS
    <3> QED
      BY <1>1, <1>5, <3>1, Zenon
  <2>1. route.to >= 0 /\ Head(f) = m
    BY <1>5, <2>0, Zenon DEF Misread
  <2>2. /\ h \in Seq(Bytes) /\ Len(h) = (9 + l) + m /\ h[1] = 1 /\ h[2] = 40 /\ h[5] = l
        /\ \A i \in 1..m : h[(8 + l) + i] = f[i]
    <3>1. LET g == Header(route)
              k == Len(route.from)
          IN  /\ g \in Seq(Bytes) /\ Len(g) = (9 + route.to) + k
              /\ g[1] = 1 /\ g[2] = 40 /\ g[5] = route.to
              /\ \A i \in 1..k : g[(8 + route.to) + i] = route.from[i]
              /\ g[(9 + route.to) + k] = 255
      BY <1>5, <2>0, HeaderForwarded, Zenon
    <3> QED
      BY <3>1, Zenon
  <2>3. l \in 0..255 /\ m \in 1..6
    <3>1. m # 0
      BY <1>5, RouteIs
    <3>2. /\ \A k \in -1..255 : k >= 0 => k \in 0..255
          /\ \A k \in 0..6 : k # 0 => k \in 1..6
      OBVIOUS
    <3> QED
      BY <1>1, <2>0, <3>1, <3>2, Zenon
  <2>4. f[1] = m
    BY <1>1, <1>5, <2>1
  <2> HIDE DEF h, l, f, m
  <2>5. h[9 + l] = m
    <3>1. 1 \in 1..m /\ (8 + l) + 1 = 9 + l
      BY <2>3
    <3>2. h[(8 + l) + 1] = f[1]
      BY <2>2, <3>1, Zenon
    <3> QED
      BY <2>4, <3>1, <3>2
  <2>6. 2 <= Len(h) /\ Len(h) <= 300
    BY <2>2, <2>3
  <2>7. ASSUME NEW n, \A i \in 1..Len(h) : n[i] = h[i], Len(n) \in Nat, Len(h) + 1 <= Len(n)
        PROVE  ApduStart(n) = Len(h)
    <3>1. n[2] = 40 /\ n[5] = l /\ n[9 + l] = m
      <4>1. 2 \in 1..Len(h) /\ 5 \in 1..Len(h) /\ 9 + l \in 1..Len(h)
        BY <2>2, <2>3
      <4> QED
        BY <2>2, <2>5, <2>7, <4>1
    <3>2. l \in Nat /\ (9 + l) + 2 <= Len(n)
      BY <2>2, <2>3, <2>7
    <3>3. ApduStart(n) = (9 + l) + n[9 + l]
      BY <2>7, <3>1, <3>2, ForwardedStart
    <3> QED
      BY <2>2, <3>1, <3>3
  <2> QED
    BY <2>2, <2>6, <2>7 DEF h
<1>6. \/ route.to < 0 /\ route.from = <<>>
      \/ ~(route.to < 0) /\ route.from = <<>>
      \/ route.to < 0 /\ route.from # <<>>
      \/ ~(route.to < 0) /\ route.from # <<>>
  OBVIOUS
<1> QED
  BY <1>2, <1>3, <1>4, <1>5, <1>6, Zenon

\* A datagram with such a header is taken for what its service request says.
LEMMA DatagramRead ==
    \A route, a :
        route \in Routing /\ ~Misread(route) /\ Short(a) =>
            Meaning(Datagram(route, a)) = ApduMeaning(a)
<1> SUFFICES ASSUME NEW route \in Routing, ~Misread(route),
                    NEW a \in Seq(Bytes), 1 <= Len(a), Len(a) <= 100
             PROVE  Meaning(Datagram(route, a)) = ApduMeaning(a)
  BY Zenon DEF Short
<1> DEFINE h == Header(route)
           n == h \o a
<1>1. Datagram(route, a) = Bvlc(10, n)
  BY DEF Datagram, Header
<1>2. /\ h \in Seq(Bytes) /\ 2 <= Len(h) /\ Len(h) <= 300 /\ h[1] = 1
      /\ \A m : (\A i \in 1..Len(h) : m[i] = h[i]) /\ Len(m) \in Nat /\ Len(h) + 1 <= Len(m)
             => ApduStart(m) = Len(h)
  BY HeaderFits, Zenon
<1> HIDE DEF h
<1>3. /\ n \in Seq(Bytes) /\ Len(n) = Len(h) + Len(a)
      /\ \A i \in 1..Len(h) : n[i] = h[i]
      /\ \A k : k = Len(h) + 1 => From(n, k) = a
  BY <1>2, FromConcat, Zenon
<1> HIDE DEF n
<1>4. Len(h) \in Nat /\ Len(a) \in Nat
  BY <1>2, Elements
<1>5. 2 <= Len(n) /\ Len(n) \in Nat /\ Len(h) + 1 <= Len(n) /\ ~(Len(h) > Len(n))
  BY <1>2, <1>3, <1>4
<1>6. Len(n) \in Sizes
  <2>1. \A k \in Nat : k <= 400 => k \in Sizes
    BY SMT DEF Sizes
  <2> QED
    BY <1>2, <1>3, <1>4, <2>1
<1>7. n[1] = 1
  BY <1>2, <1>3, <1>4
<1>8. ApduStart(n) = Len(h)
  BY <1>2, <1>3, <1>5, Zenon
<1>9. Apdu(Bvlc(10, n)) = IF n[1] # 1 \/ ApduStart(n) > Len(n) THEN <<>> ELSE From(n, ApduStart(n) + 1)
  BY <1>3, <1>5, <1>6, BvlcRead, Zenon
<1>10. Apdu(Bvlc(10, n)) = a
  BY <1>3, <1>5, <1>7, <1>8, <1>9, Zenon
<1> QED
  BY <1>1, <1>10, Zenon DEF Meaning

\* What a client means is what the server does: a request whose source address is not
\* misread is taken for what it is, but for a write with a byte that looks like the
\* closing tag.
THEOREM RequestsAreUnderstood ==
    \A q \in Request : ~Misread(q.route) =>
        Meaning(AsDatagram(q)) = IF q.kind = "write" /\ HasClosing(q.value) THEN Drop ELSE Intended(q)
<1> SUFFICES ASSUME NEW q \in Request, ~Misread(q.route)
             PROVE  Meaning(AsDatagram(q)) =
                        IF q.kind = "write" /\ HasClosing(q.value) THEN Drop ELSE Intended(q)
  OBVIOUS
<1>1. /\ q.kind \in {"read", "write", "discover", "cut"} /\ q.object \in 0..MaxInstance
      /\ q.value \in Reals /\ q.route \in Routing
  <2>1. q.route \in [to : -1..255, from : Seq(0..255)] /\ Len(q.route.from) <= 6
    BY DEF Request
  <2>2. q.route \in Routing
    BY <2>1 DEF Routing, Lengths, Bytes
  <2> QED
    BY <2>2 DEF Request
<1>2. \A a : Short(a) => Meaning(Datagram(q.route, a)) = ApduMeaning(a)
  BY <1>1, DatagramRead, Zenon
<1>3. CASE q.kind = "read"
  <2> DEFINE a == ReadRequest(AnalogValue, q.object, PresentValue)
  <2>1. Fits(PresentValue) /\ AnalogValue \in Types
    BY SMT DEF Fits, PresentValue, Types
  <2>2. /\ Short(a)
        /\ ApduMeaning(a) = [step |-> "read", object |-> q.object, property |-> PresentValue]
    BY <1>1, <2>1, AnyReadRead, Zenon DEF ReadMeans
  <2>3. AsDatagram(q) = Datagram(q.route, a)
    BY <1>3 DEF AsDatagram
  <2>4. Intended(q) = [step |-> "read", object |-> q.object, property |-> PresentValue]
    BY <1>3 DEF Intended
  <2> QED
    BY <1>2, <1>3, <2>2, <2>3, <2>4
<1>4. CASE q.kind = "write"
  <2> DEFINE a == WriteRequest(AnalogValue, q.object, PresentValue, <<RealTag>> \o q.value)
  <2>1. /\ Short(a)
        /\ ApduMeaning(a) = IF HasClosing(q.value) THEN Drop
                            ELSE [step |-> "write", object |-> q.object, real |-> q.value]
    <3>1. Fits(PresentValue)
      BY SMT DEF Fits, PresentValue
    <3> QED
      BY <1>1, <3>1, AnyWriteRead, Zenon DEF WriteMeans, HasClosing
  <2>2. AsDatagram(q) = Datagram(q.route, a)
    BY <1>4 DEF AsDatagram
  <2>3. Intended(q) = [step |-> "write", object |-> q.object, real |-> q.value]
    BY <1>4 DEF Intended
  <2> HIDE DEF a
  <2> QED
    BY <1>2, <1>4, <2>1, <2>2, <2>3
<1>5. CASE q.kind = "discover"
  <2>1. AsDatagram(q) = Datagram(q.route, WhoIsRequest(<<>>)) /\ Intended(q) = Respond
    BY <1>5 DEF AsDatagram, Intended
  <2> QED
    BY <1>2, <1>5, <2>1, WhoIsRead
<1>6. CASE q.kind = "cut"
  <2>1. AsDatagram(q) = Datagram(q.route, CutRequest) /\ Intended(q) = Drop
    BY <1>6 DEF AsDatagram, Intended, CutRequest
  <2> QED
    BY <1>2, <1>6, <2>1, CutRead
<1> QED
  BY <1>1, <1>3, <1>4, <1>5, <1>6

-----------------------------------------------------------------------------
(* Requests that a router forwards *)

\* What is left of a sequence from one of its positions on.
LEMMA FromIs ==
    \A s \in Seq(Bytes) : \A k \in 1..Len(s) + 1 :
        /\ From(s, k) \in Seq(Bytes) /\ Len(From(s, k)) = (Len(s) + 1) - k
        /\ \A i \in 1..(Len(s) + 1) - k : From(s, k)[i] = s[i + (k - 1)]
<1> SUFFICES ASSUME NEW s \in Seq(Bytes), NEW k \in 1..Len(s) + 1
             PROVE  /\ From(s, k) \in Seq(Bytes) /\ Len(From(s, k)) = (Len(s) + 1) - k
                    /\ \A i \in 1..(Len(s) + 1) - k : From(s, k)[i] = s[i + (k - 1)]
  OBVIOUS
<1>1. Len(s) \in k - 1..Len(s)
  BY Elements
<1> QED
  BY <1>1, Slice, Zenon DEF From

\* What is not a request, or of no service there is, is dropped.
LEMMA NoService ==
    \A x : \/ Len(x) < 2
           \/ x[1] \div 16 \notin {0, 1}
           \/ x[1] \div 16 = 0 /\ (Len(x) < 4 \/ x[4] \notin {12, 15})
        => ApduMeaning(x) = Drop
BY DEF ApduMeaning

\* So is one that does not begin with the tag of an object identifier, or whose
\* identifier is of another type.
LEMMA NoObject ==
    \A x : x[1] \div 16 = 0
           /\ \/ Len(From(x, 5)) < 1
              \/ (From(x, 5)[1] \div 8) * 8 # 8
              \/ LET e == Element(From(x, 5), 1, 8) IN
                 \/ e.is # "yes" \/ Len(e.bytes) # 4
                 \/ Number(e.bytes) \div (MaxInstance + 1) \notin Types
        => ApduMeaning(x) = Drop
<1> SUFFICES ASSUME NEW x, x[1] \div 16 = 0,
                    \/ Len(From(x, 5)) < 1
                    \/ (From(x, 5)[1] \div 8) * 8 # 8
                    \/ LET e == Element(From(x, 5), 1, 8) IN
                       \/ e.is # "yes" \/ Len(e.bytes) # 4
                       \/ Number(e.bytes) \div (MaxInstance + 1) \notin Types
             PROVE  ApduMeaning(x) = Drop
  BY Zenon
<1> DEFINE p == From(x, 5)
           r == PropertyReference(p)
           type == Number(Element(p, 1, 8).bytes) \div (MaxInstance + 1)
<1>1. PICK e0, e1, e2 :
        /\ e0 = Element(p, 1, Tag(0, TRUE))
        /\ e1 = Element(p, e0.next, Tag(1, TRUE))
        /\ e2 = Element(p, e1.next, Tag(2, TRUE))
        /\ r =
              LET id == Number(e0.bytes) IN
              IF e0.is = "yes" /\ Len(e0.bytes) = 4 /\ e1.is = "yes" /\ e2.is # "raises"
              THEN [is |-> "yes", type |-> id \div (MaxInstance + 1), object |-> id % (MaxInstance + 1),
                    property |-> Number(e1.bytes), next |-> e2.next]
              ELSE [is |-> "no"]
  BY ReferenceElements, Zenon
<1>2. Tag(0, TRUE) = 8
  BY DEF Tag
<1>3. e0 = Element(p, 1, 8)
  BY <1>1, <1>2, Zenon
<1>4. e0.is # "yes" \/ Len(e0.bytes) # 4 \/ type \notin Types
  <2>1. CASE Len(p) < 1
    <3>1. Element(p, 1, 8).is = "no"
      BY <2>1, NoElement
    <3> QED
      BY <1>3, <3>1
  <2>2. CASE (p[1] \div 8) * 8 # 8
    <3>1. Element(p, 1, 8).is = "no"
      BY <2>2, NoElement
    <3> QED
      BY <1>3, <3>1
  <2> QED
    BY <1>3, <2>1, <2>2
<1> HIDE DEF r
<1>5. r.is # "yes" \/ r.type \notin Types
  <2> DEFINE T == Number(e0.bytes) \div (MaxInstance + 1)
             O == Number(e0.bytes) % (MaxInstance + 1)
  <2>1. T = type
    BY <1>3
  <2>2. \/ r = [is |-> "yes", type |-> T, object |-> O,
                property |-> Number(e1.bytes), next |-> e2.next]
           /\ e0.is = "yes" /\ Len(e0.bytes) = 4
        \/ r = [is |-> "no"]
    BY <1>1, Zenon
  <2> HIDE DEF T, O, type
  <2> QED
    BY <1>4, <2>1, <2>2
<1> HIDE DEF type
<1>6. ReadProperty(p) = Drop /\ WriteProperty(p) = Drop
  <2>1. CASE r.is # "yes"
    BY <2>1, Zenon DEF ReadProperty, ReadReferenced, WriteProperty, WriteReferenced, r
  <2>2. CASE r.type \notin Types
    <3>1. r.type # AnalogValue /\ r.type # DeviceType
      BY <2>2 DEF Types
    <3>2. ReadReferenced(r, p) = Drop
      BY <3>1, Zenon DEF ReadReferenced
    <3>3. WriteReferenced(r, p) = Drop
      BY <3>1, Zenon DEF WriteReferenced
    <3> QED
      BY <3>2, <3>3, Zenon DEF ReadProperty, WriteProperty, r
  <2> QED
    BY <1>5, <2>1, <2>2
<1> QED
  BY <1>6 DEF ApduMeaning

\* The bytes of a property and of a value are no object identifier of this server.
LEMMA NoIdentifier ==
    \A p \in Seq(Bytes) :
        p[2] = 25 /\ p[3] = 85 /\ (Len(p) = 3 \/ (Len(p) = 10 /\ p[4] = 62 /\ p[5] = 68)) =>
            LET e == Element(p, 1, 8) IN
            \/ e.is # "yes" \/ Len(e.bytes) # 4
            \/ Number(e.bytes) \div (MaxInstance + 1) \notin Types
<1> SUFFICES ASSUME NEW p \in Seq(Bytes), p[2] = 25, p[3] = 85,
                    Len(p) = 3 \/ (Len(p) = 10 /\ p[4] = 62 /\ p[5] = 68)
             PROVE  LET e == Element(p, 1, 8) IN
                    e.is = "yes" /\ Len(e.bytes) = 4 =>
                        Number(e.bytes) \div (MaxInstance + 1) \notin Types
  BY Zenon
<1> DEFINE e == Element(p, 1, 8)
           b == p[1]
           s == SubSeq(p, 2, (2 + (b % 8)) - 1)
<1>1. b \in Nat
  BY Elements, BytesAreNumbers
<1> SUFFICES ASSUME e.is = "yes", Len(e.bytes) = 4
             PROVE  Number(e.bytes) \div (MaxInstance + 1) \notin Types
  BY Zenon
<1>2. Len(p) \in {3, 10}
  OBVIOUS
<1>3. b % 8 # 5
  <2> SUFFICES ASSUME b % 8 = 5 PROVE FALSE
    BY Zenon
  <2>1. 1 + 2 = 3 /\ 1 + 1 = 2
    OBVIOUS
  <2>2. 3 + p[2] > Len(p) + 1 /\ ~(1 = Len(p)) /\ ~(1 > Len(p))
    <3> DEFINE m == Len(p)
    <3>1. m \in {3, 10}
      BY <1>2
    <3> HIDE DEF b, e, s, m
    <3>2. 3 + 25 > m + 1 /\ ~(1 = m) /\ ~(1 > m)
      BY <3>1
    <3> QED
      BY <3>2 DEF m
  <2>3. e = [is |-> "no", bytes |-> <<>>, next |-> 1]
    BY <2>1, <2>2, Zenon DEF Element
  <2> HIDE DEF e
  <2>4. e.is = "no"
    BY <2>3
  <2> QED
    BY <2>4
<1>4. 2 + (b % 8) <= Len(p) + 1 /\ e.bytes = s
  <2> DEFINE none == [is |-> "no", bytes |-> <<>>, next |-> 1]
             some == [is |-> "yes", bytes |-> s, next |-> 2 + (b % 8)]
  <2>1. 1 + 1 = 2 /\ ~(1 > Len(p)) /\ 1 # Len(p)
    <3> HIDE DEF b, e, s
    <3> QED
      BY <1>2
  <2>2. e = IF (b \div 8) * 8 # 8 THEN none
            ELSE IF 2 + (b % 8) > Len(p) + 1 THEN none
            ELSE some
    BY <1>3, <2>1, Zenon DEF Element
  <2>3. none.is = "no" /\ some.bytes = s
    <3> HIDE DEF s, b
    <3> QED
      OBVIOUS
  <2> HIDE DEF e, none, some, s
  <2>4. e # none
    BY <2>3
  <2>5. e = some /\ ~(2 + (b % 8) > Len(p) + 1)
    BY <2>2, <2>4, Zenon
  <2>6. 2 + (b % 8) <= Len(p) + 1
    <3> HIDE DEF b
    <3> QED
      BY <1>1, <1>2, <2>5
  <2> QED
    BY <2>3, <2>5, <2>6
<1> HIDE DEF e
<1>5. Len(s) = b % 8
  <2> HIDE DEF b
  <2>1. b % 8 \in 0..7 /\ Len(p) \in Nat
    BY <1>1, <1>2
  <2> DEFINE n == (2 + (b % 8)) - 1
  <2>2. 2 \in 1..Len(p) + 1 /\ n \in 2 - 1..Len(p) /\ (n + 1) - 2 = b % 8
    BY <1>4, <2>1, SMTT(20)
  <2> HIDE DEF n
  <2>3. Len(SubSeq(p, 2, n)) = (n + 1) - 2
    BY <2>2, Slice, Zenon
  <2> QED
    BY <2>2, <2>3, Zenon DEF n
<1> HIDE DEF s
<1>6. b % 8 = 4
  BY <1>4, <1>5
<1>7. Len(p) = 10 /\ p[4] = 62 /\ p[5] = 68
  <2> DEFINE m == Len(p)
             d == b % 8
  <2>1. m \in {3, 10} /\ d = 4 /\ 2 + d <= m + 1
    BY <1>2, <1>4, <1>6
  <2> HIDE DEF m, d
  <2>2. m # 3
    BY <2>1
  <2> QED
    BY <2>2 DEF m
<1>8. s = SubSeq(p, 2, 5)
  <2>1. (2 + 4) - 1 = 5
    OBVIOUS
  <2> QED
    BY <1>6, <2>1, Zenon DEF s
<1>9. s \in Seq(Bytes) /\ Len(s) = 4 /\ \A i \in 1..4 : s[i] = p[i + (2 - 1)]
  <2>1. 2 \in 1..Len(p) + 1 /\ 5 \in 2 - 1..Len(p) /\ (5 + 1) - 2 = 4
    BY <1>7
  <2>2. LET t == SubSeq(p, 2, 5) IN
        t \in Seq(Bytes) /\ Len(t) = 4 /\ \A i \in 1..4 : t[i] = p[i + (2 - 1)]
    <3>1. /\ SubSeq(p, 2, 5) \in Seq(Bytes) /\ Len(SubSeq(p, 2, 5)) = (5 + 1) - 2
          /\ \A i \in 1..(5 + 1) - 2 : SubSeq(p, 2, 5)[i] = p[i + (2 - 1)]
      BY <2>1, Slice, ZenonT(20)
    <3> QED
      BY <2>1, <3>1, Zenon
  <2> QED
    BY <1>8, <2>2
<1>10. s[1] = 25 /\ s[2] = 85 /\ s[3] = 62 /\ s[4] = 68
  BY <1>7, <1>9
<1>11. Number(s) = ((25 * 256 + 85) * 256 + 62) * 256 + 68
  <2>1. \A k \in 1..Len(s) : s[k] \in Bytes
    BY <1>9, Elements
  <2> QED
    BY <1>9, <1>10, <2>1, NumberOfBytes
<1>12. (((25 * 256 + 85) * 256 + 62) * 256 + 68) \div (MaxInstance + 1) \notin Types
  BY SMT DEF MaxInstance, Types, AnalogValue, DeviceType
<1> QED
  BY <1>4, <1>11, <1>12

\* The hop count, and bytes of which it is the second.
HopCount == 255
Behind(p) == 2 <= Len(p) /\ Len(p) <= 200 /\ p[2] = HopCount
Identifier(x, y, z) == ((HopCount * 256 + x) * 256 + y) * 256 + z

\* The bytes of a header in front of a request are none, either.
LEMMA NoIdentifierInHeader ==
    \A p \in Seq(Bytes) :
        Behind(p) =>
            LET e == Element(p, 1, 8) IN
            \/ e.is # "yes" \/ Len(e.bytes) # 4
            \/ Number(e.bytes) \div (MaxInstance + 1) \notin Types
<1> SUFFICES ASSUME NEW p \in Seq(Bytes), Behind(p)
             PROVE  LET e == Element(p, 1, 8) IN
                    e.is = "yes" /\ Len(e.bytes) = 4 =>
                        Number(e.bytes) \div (MaxInstance + 1) \notin Types
  BY Zenon
<1> DEFINE e == Element(p, 1, 8)
           b == p[1]
           m == Len(p)
           s == SubSeq(p, 2, (2 + (b % 8)) - 1)
<1>1. b \in Nat
  BY Elements, BytesAreNumbers DEF Behind
<1> SUFFICES ASSUME e.is = "yes", Len(e.bytes) = 4
             PROVE  Number(e.bytes) \div (MaxInstance + 1) \notin Types
  BY Zenon
<1>2. m \in 2..200
  <2>1. m \in Nat /\ 2 <= m /\ m <= 200
    BY Elements DEF Behind
  <2> HIDE DEF m
  <2> QED
    BY <2>1
<1>3. b % 8 # 5
  <2> SUFFICES ASSUME b % 8 = 5 PROVE FALSE
    BY Zenon
  <2>1. 1 + 2 = 3 /\ 1 + 1 = 2
    OBVIOUS
  <2>2. 3 + p[2] > m + 1 /\ ~(1 = m) /\ ~(1 > m)
    <3> HIDE DEF b, e, s, m
    <3>2. 3 + 255 > m + 1 /\ ~(1 = m) /\ ~(1 > m)
      BY <1>2
    <3> QED
      BY <3>2 DEF Behind, HopCount
  <2>3. e = [is |-> "no", bytes |-> <<>>, next |-> 1]
    BY <2>1, <2>2, Zenon DEF Element
  <2> HIDE DEF e
  <2>4. e.is = "no"
    BY <2>3
  <2> QED
    BY <2>4
<1>4. 2 + (b % 8) <= m + 1 /\ e.bytes = s
  <2> DEFINE none == [is |-> "no", bytes |-> <<>>, next |-> 1]
             some == [is |-> "yes", bytes |-> s, next |-> 2 + (b % 8)]
  <2>1. 1 + 1 = 2 /\ ~(1 > m) /\ 1 # m
    <3> HIDE DEF b, e, s, m
    <3> QED
      BY <1>2
  <2>2. e = IF (b \div 8) * 8 # 8 THEN none
            ELSE IF 2 + (b % 8) > m + 1 THEN none
            ELSE some
    BY <1>3, <2>1, Zenon DEF Element
  <2>3. none.is = "no" /\ some.bytes = s
    <3> HIDE DEF s, b
    <3> QED
      OBVIOUS
  <2> HIDE DEF e, none, some, s
  <2>4. e # none
    BY <2>3
  <2>5. e = some /\ ~(2 + (b % 8) > m + 1)
    BY <2>2, <2>4, Zenon
  <2>6. 2 + (b % 8) <= m + 1
    <3> HIDE DEF b, m
    <3> QED
      BY <1>1, <1>2, <2>5
  <2> QED
    BY <2>3, <2>5, <2>6
<1> HIDE DEF e
<1>5. Len(s) = b % 8
  <2> HIDE DEF b
  <2> DEFINE n == (2 + (b % 8)) - 1
  <2>1. b % 8 \in 0..7
    BY <1>1
  <2>2. 2 \in 1..m + 1 /\ n \in 2 - 1..m /\ (n + 1) - 2 = b % 8
    <3> DEFINE r == b % 8
    <3>1. r \in 0..7 /\ 2 + r <= m + 1 /\ n = (2 + r) - 1
      BY <1>4, <2>1
    <3> HIDE DEF n, r, m
    <3>2. 2 \in 1..m + 1 /\ n \in 2 - 1..m /\ (n + 1) - 2 = r
      BY <1>2, <3>1
    <3> QED
      BY <3>2 DEF r
  <2> HIDE DEF n
  <2>3. 2 \in 1..Len(p) + 1 /\ n \in 2 - 1..Len(p)
    BY <2>2
  <2>4. Len(SubSeq(p, 2, n)) = (n + 1) - 2
    BY <2>3, Slice, Zenon
  <2> QED
    BY <2>2, <2>4, Zenon DEF n
<1> HIDE DEF s
<1>6. b % 8 = 4
  BY <1>4, <1>5
<1>7. m >= 5
  <2> DEFINE d == b % 8
  <2>1. d = 4 /\ 2 + d <= m + 1
    BY <1>4, <1>6
  <2> HIDE DEF m, d
  <2> QED
    BY <1>2, <2>1
<1>8. s = SubSeq(p, 2, 5)
  <2>1. (2 + 4) - 1 = 5
    OBVIOUS
  <2> QED
    BY <1>6, <2>1, Zenon DEF s
<1>9. s \in Seq(Bytes) /\ Len(s) = 4 /\ \A i \in 1..4 : s[i] = p[i + (2 - 1)]
  <2>1. 2 \in 1..Len(p) + 1 /\ 5 \in 2 - 1..Len(p) /\ (5 + 1) - 2 = 4
    <3>1. 2 \in 1..m + 1 /\ 5 \in 2 - 1..m /\ (5 + 1) - 2 = 4
      <4> HIDE DEF m
      <4> QED
        BY <1>2, <1>7
    <3> QED
      BY <3>1
  <2>2. LET t == SubSeq(p, 2, 5) IN
        t \in Seq(Bytes) /\ Len(t) = 4 /\ \A i \in 1..4 : t[i] = p[i + (2 - 1)]
    <3>1. /\ SubSeq(p, 2, 5) \in Seq(Bytes) /\ Len(SubSeq(p, 2, 5)) = (5 + 1) - 2
          /\ \A i \in 1..(5 + 1) - 2 : SubSeq(p, 2, 5)[i] = p[i + (2 - 1)]
      BY <2>1, Slice, Zenon
    <3> QED
      BY <2>1, <3>1, Zenon
  <2> QED
    BY <1>8, <2>2
<1>10. s[1] = HopCount
  BY <1>9 DEF Behind
<1>11. (\A k \in 1..4 : s[k] \in Bytes) /\ Number(s) = Identifier(s[2], s[3], s[4])
  <2>1. \A k \in 1..Len(s) : s[k] \in Bytes
    BY <1>9, Elements
  <2> QED
    BY <1>9, <1>10, <2>1, NumberOfBytes DEF Identifier
<1>12. \A x \in Bytes, y \in Bytes, z \in Bytes : Identifier(x, y, z) \div (MaxInstance + 1) \notin Types
  <2> SUFFICES ASSUME NEW x \in Bytes, NEW y \in Bytes, NEW z \in Bytes
               PROVE  Identifier(x, y, z) \div (MaxInstance + 1) \notin Types
    OBVIOUS
  <2> DEFINE v == Identifier(x, y, z)
             u == v \div (MaxInstance + 1)
  <2>1. v \in Nat /\ v >= 9 * 4194304 /\ MaxInstance + 1 = 4194304
    BY SMT DEF Bytes, MaxInstance, Identifier, HopCount
  <2> HIDE DEF v
  <2>2. u >= 9
    BY <2>1, SMT
  <2> QED
    BY <2>2, SMT DEF Types, AnalogValue, DeviceType, v
<1>13. s[2] \in Bytes /\ s[3] \in Bytes /\ s[4] \in Bytes
  BY <1>11
<1>14. Number(s) \div (MaxInstance + 1) \notin Types
  BY <1>11, <1>12, <1>13, Zenon
<1> QED
  BY <1>4, <1>14, Zenon

\* What is no confirmed request is dropped, or answered as a Who-Is.
LEMMA Unconfirmed == \A x : x[1] \div 16 # 0 => ApduMeaning(x) \in {Drop, Respond}
BY DEF ApduMeaning, WhoIs

\* A request of which the first bytes are skipped reads nothing and writes nothing.
Skips(a) == \A s \in 1..Len(a) : ApduMeaning(From(a, s + 1)) \in {Drop, Respond}

\* What is left when s bytes are skipped.
LEMMA SkippedIs ==
    \A a \in Seq(Bytes) : \A s \in Nat : s <= Len(a) =>
        LET x == From(a, s + 1) IN
        /\ x \in Seq(Bytes) /\ Len(x) = Len(a) - s
        /\ \A i \in 1..Len(a) - s : x[i] = a[i + s]
<1> SUFFICES ASSUME NEW a \in Seq(Bytes), NEW s \in Nat, s <= Len(a)
             PROVE  LET x == From(a, s + 1) IN
                    /\ x \in Seq(Bytes) /\ Len(x) = Len(a) - s
                    /\ \A i \in 1..Len(a) - s : x[i] = a[i + s]
  OBVIOUS
<1> DEFINE m == Len(a)
           k == s + 1
<1>1. m \in Nat
  BY Elements
<1> HIDE DEF m
<1>2. k \in 1..m + 1 /\ (m + 1) - k = m - s /\ k - 1 = s
  BY <1>1 DEF m
<1> HIDE DEF k
<1>3. /\ From(a, k) \in Seq(Bytes) /\ Len(From(a, k)) = (m + 1) - k
      /\ \A i \in 1..(m + 1) - k : From(a, k)[i] = a[i + (k - 1)]
  BY <1>2, FromIs, Zenon DEF m
<1> QED
  BY <1>2, <1>3, Zenon DEF k, m

\* For a reference to an Analog Value, alone or with a number to be written: up to the
\* first byte of the identifier.
LEMMA BeginningSkips ==
    \A a, p : \A service \in {12, 15} :
        /\ Asks(a, service, p)
        /\ p[1] = 12 /\ p[2] = 0 /\ p[3] >= 128 /\ p[6] = 25 /\ p[7] = 85
        /\ Len(p) = 7 \/ (Len(p) = 14 /\ p[8] = 62 /\ p[9] = 68)
        => \A s \in 1..6 : s <= Len(a) => ApduMeaning(From(a, s + 1)) = Drop
<1> SUFFICES ASSUME NEW a, NEW p, NEW service \in {12, 15}, Asks(a, service, p),
                    p[1] = 12, p[2] = 0, p[3] >= 128, p[6] = 25, p[7] = 85,
                    Len(p) = 7 \/ (Len(p) = 14 /\ p[8] = 62 /\ p[9] = 68),
                    NEW s \in 1..6, s <= Len(a)
             PROVE  ApduMeaning(From(a, s + 1)) = Drop
  BY ZenonT(20)
<1> DEFINE m == Len(p)
           x == From(a, s + 1)
           y == From(x, 5)
<1>1. /\ a \in Seq(Bytes) /\ p \in Seq(Bytes) /\ Len(a) = 4 + m /\ From(a, 5) = p
      /\ a[1] = 0 /\ a[2] = 5 /\ a[3] = 1 /\ a[4] = service
  BY DEF Asks
<1>2. m \in {7, 14}
  OBVIOUS
<1>3. \A i \in 1..m : a[i + 4] = p[i]
  <2>1. 4 \in Nat /\ 4 <= Len(a) /\ Len(a) - 4 = m /\ 4 + 1 = 5
    <3> HIDE DEF m
    <3> QED
      BY <1>1, <1>2
  <2>2. \A i \in 1..Len(a) - 4 : From(a, 4 + 1)[i] = a[i + 4]
    BY <1>1, <2>1, SkippedIs
  <2> HIDE DEF m
  <2>3. \A i \in 1..m : From(a, 5)[i] = a[i + 4]
    BY <2>1, <2>2, ZenonT(20)
  <2> QED
    BY <1>1, <2>3
<1>4. p[3] \in Bytes /\ p[4] \in Bytes /\ p[5] \in Bytes
  <2>1. 3 \in 1..m /\ 4 \in 1..m /\ 5 \in 1..m
    <3> HIDE DEF m
    <3> QED
      BY <1>2
  <2> QED
    BY <1>1, <2>1, Elements, Zenon
<1>5. /\ a[5] = 12 /\ a[6] = 0 /\ a[7] = p[3] /\ a[8] = p[4] /\ a[9] = p[5]
      /\ a[10] = 25 /\ a[11] = 85
  <2>1. /\ 1 \in 1..m /\ 2 \in 1..m /\ 3 \in 1..m /\ 4 \in 1..m /\ 5 \in 1..m /\ 6 \in 1..m
        /\ 7 \in 1..m
    <3> HIDE DEF m
    <3> QED
      BY <1>2
  <2>2. a[1 + 4] = p[1] /\ a[2 + 4] = p[2] /\ a[3 + 4] = p[3] /\ a[4 + 4] = p[4]
        /\ a[5 + 4] = p[5] /\ a[6 + 4] = p[6] /\ a[7 + 4] = p[7]
    BY <1>3, <2>1, Zenon
  <2>3. 1 + 4 = 5 /\ 2 + 4 = 6 /\ 3 + 4 = 7 /\ 4 + 4 = 8 /\ 5 + 4 = 9 /\ 6 + 4 = 10 /\ 7 + 4 = 11
    OBVIOUS
  <2> QED
    BY <2>2, <2>3, Zenon
<1>6. m = 14 => a[12] = 62 /\ a[13] = 68
  <2> SUFFICES ASSUME m = 14 PROVE a[12] = 62 /\ a[13] = 68
    BY Zenon
  <2>1. 8 \in 1..m /\ 9 \in 1..m /\ 8 + 4 = 12 /\ 9 + 4 = 13 /\ p[8] = 62 /\ p[9] = 68
    <3>1. p[8] = 62 /\ p[9] = 68
      OBVIOUS
    <3> HIDE DEF m
    <3> QED
      BY <3>1
  <2>2. a[8 + 4] = p[8] /\ a[9 + 4] = p[9]
    BY <1>3, <2>1, Zenon
  <2> QED
    BY <2>1, <2>2, Zenon
<1>7. /\ x \in Seq(Bytes) /\ Len(x) = (4 + m) - s
      /\ \A i \in 1..(4 + m) - s : x[i] = a[i + s]
  <2>0. s \in Nat
    OBVIOUS
  <2>1. x \in Seq(Bytes) /\ Len(x) = Len(a) - s /\ \A i \in 1..Len(a) - s : x[i] = a[i + s]
    BY <1>1, <2>0, SkippedIs, Zenon
  <2> HIDE DEF m, x
  <2> QED
    BY <1>1, <2>1
<1> HIDE DEF m, x
<1>8. Len(x) \in Nat /\ Len(x) >= 5
  BY <1>2, <1>7
<1>9. x[1] = a[1 + s] /\ x[4] = a[4 + s] /\ x[5] = a[5 + s]
  BY <1>2, <1>7
<1>10. /\ y \in Seq(Bytes) /\ Len(y) = m - s
       /\ \A i \in 1..m - s : y[i] = a[(i + 4) + s]
  <2>1. 4 \in Nat /\ 4 <= Len(x) /\ Len(x) - 4 = m - s /\ 4 + 1 = 5
    BY <1>2, <1>7
  <2>2. /\ From(x, 4 + 1) \in Seq(Bytes) /\ Len(From(x, 4 + 1)) = Len(x) - 4
        /\ \A i \in 1..Len(x) - 4 : From(x, 4 + 1)[i] = x[i + 4]
    BY <1>7, <2>1, SkippedIs, Zenon
  <2>3. y \in Seq(Bytes) /\ Len(y) = m - s /\ \A i \in 1..m - s : y[i] = x[i + 4]
    BY <2>1, <2>2
  <2> HIDE DEF y
  <2>4. ASSUME NEW i \in 1..m - s PROVE y[i] = a[(i + 4) + s]
    <3>1. i + 4 \in 1..(4 + m) - s
      BY <1>2
    <3>2. x[i + 4] = a[(i + 4) + s]
      BY <1>7, <3>1
    <3> QED
      BY <2>3, <3>2
  <2> QED
    BY <2>3, <2>4
<1>11. CASE s = 1
  <2>1. x[1] \div 16 = 0 /\ y[1] = 0 /\ (0 \div 8) * 8 # 8
    <3>1. x[1] = 5
      BY <1>1, <1>9, <1>11
    <3>2. 1 \in 1..m - s /\ (1 + 4) + s = 6
      BY <1>2, <1>11
    <3>3. y[1] = a[6]
      <4> HIDE DEF y
      <4> QED
        BY <1>10, <3>2
    <3> QED
      BY <1>5, <3>1, <3>3
  <2>2. (y[1] \div 8) * 8 # 8
    BY <2>1, Zenon
  <2> QED
    BY <2>1, <2>2, NoObject, Zenon DEF x, y
<1>12. CASE s = 2
  <2>1. x[1] = 1 /\ x[4] = 0
    BY <1>1, <1>5, <1>9, <1>12
  <2>2. x[1] \div 16 = 0 /\ x[4] \notin {12, 15}
    BY <2>1
  <2> QED
    BY <2>2, NoService, Zenon DEF x
<1>13. CASE s = 3
  <2>1. x[1] = service /\ x[4] = p[3]
    BY <1>1, <1>5, <1>9, <1>13
  <2>2. x[1] \div 16 = 0 /\ x[4] \notin {12, 15}
    <3>1. 12 \div 16 = 0 /\ 15 \div 16 = 0
      OBVIOUS
    <3>2. p[3] \notin {12, 15}
      <4>1. p[3] \in 0..255 /\ p[3] >= 128
        BY <1>4 DEF Bytes
      <4> DEFINE b == p[3]
      <4> HIDE DEF b
      <4>2. b # 12 /\ b # 15
        BY <4>1 DEF b
      <4> QED
        BY <4>2 DEF b
    <3> QED
      BY <2>1, <3>1, <3>2
  <2> QED
    BY <2>2, NoService, Zenon DEF x
<1>14. CASE s = 4
  <2>1. x[1] \div 16 = 0
    <3>1. x[1] = 12
      BY <1>5, <1>9, <1>14
    <3> QED
      BY <3>1
  <2>2. y[2] = 25 /\ y[3] = 85 /\ Len(y) = m - 4
    <3>1. 2 \in 1..m - s /\ 3 \in 1..m - s /\ (2 + 4) + s = 10 /\ (3 + 4) + s = 11
      BY <1>2, <1>14
    <3> HIDE DEF y
    <3>2. y[2] = a[10] /\ y[3] = a[11]
      BY <1>10, <3>1
    <3> QED
      BY <1>5, <1>10, <1>14, <3>2
  <2>3. Len(y) = 3 \/ (Len(y) = 10 /\ y[4] = 62 /\ y[5] = 68)
    <3>1. CASE m = 7
      BY <2>2, <3>1
    <3>2. CASE m = 14
      <4>1. 4 \in 1..m - s /\ 5 \in 1..m - s /\ (4 + 4) + s = 12 /\ (5 + 4) + s = 13
        BY <1>14, <3>2
      <4>2. y[4] = a[12] /\ y[5] = a[13]
        BY <1>10, <4>1
      <4> QED
        BY <1>6, <2>2, <3>2, <4>2
    <3> QED
      BY <1>2, <3>1, <3>2
  <2>4. LET e == Element(y, 1, 8) IN
        \/ e.is # "yes" \/ Len(e.bytes) # 4
        \/ Number(e.bytes) \div (MaxInstance + 1) \notin Types
    <3>1. y \in Seq(Bytes)
      BY <1>10
    <3> HIDE DEF y
    <3> QED
      BY <2>2, <2>3, <3>1, NoIdentifier, Zenon
  <2> QED
    BY <2>1, <2>4, NoObject, Zenon DEF x, y
<1>15. CASE s = 5
  <2>1. x[1] \div 16 = 0 /\ y[1] = 25 /\ (25 \div 8) * 8 # 8
    <3>1. x[1] = 0
      BY <1>5, <1>9, <1>15
    <3>2. 1 \in 1..m - s /\ (1 + 4) + s = 10
      BY <1>2, <1>15
    <3>3. y[1] = a[10]
      <4> HIDE DEF y
      <4> QED
        BY <1>10, <3>2
    <3> QED
      BY <1>5, <3>1, <3>3
  <2>2. (y[1] \div 8) * 8 # 8
    BY <2>1, Zenon
  <2> QED
    BY <2>1, <2>2, NoObject, Zenon DEF x, y
<1>16. CASE s = 6
  <2>1. x[1] = p[3]
    BY <1>5, <1>9, <1>16
  <2>2. x[1] \div 16 \notin {0, 1}
    <3> DEFINE b == x[1]
    <3>1. b \in 0..255 /\ b >= 128
      BY <1>4, <2>1 DEF Bytes
    <3> HIDE DEF b
    <3>2. b \div 16 >= 8
      BY <3>1
    <3> QED
      BY <3>1, <3>2 DEF b
  <2> QED
    BY <2>2, NoService, Zenon DEF x
<1>17. s \in {1, 2, 3, 4, 5, 6}
  OBVIOUS
<1> QED
  BY <1>11, <1>12, <1>13, <1>14, <1>15, <1>16, <1>17 DEF x

\* Further on.
LEMMA EndSkips ==
    \A a, p : \A service \in {12, 15} :
        /\ Asks(a, service, p) /\ p[7] = 85
        /\ Len(p) = 7 \/ (Len(p) = 14 /\ p[8] = 62 /\ p[9] = 68 /\ p[14] = 63)
        => \A s \in 7..Len(a) : ApduMeaning(From(a, s + 1)) \in {Drop, Respond}
<1> SUFFICES ASSUME NEW a, NEW p, NEW service \in {12, 15}, Asks(a, service, p), p[7] = 85,
                    Len(p) = 7 \/ (Len(p) = 14 /\ p[8] = 62 /\ p[9] = 68 /\ p[14] = 63),
                    NEW s \in 7..Len(a)
             PROVE  ApduMeaning(From(a, s + 1)) \in {Drop, Respond}
  BY ZenonT(20)
<1> DEFINE m == Len(p)
           x == From(a, s + 1)
           y == From(x, 5)
<1>1. a \in Seq(Bytes) /\ p \in Seq(Bytes) /\ Len(a) = 4 + m /\ From(a, 5) = p
  BY DEF Asks
<1>2. m \in {7, 14} /\ (m = 14 => p[8] = 62 /\ p[9] = 68 /\ p[14] = 63)
  OBVIOUS
<1>3. s \in 7..4 + m
  BY <1>1
<1> HIDE DEF m
<1>4. \A i \in 1..m : a[i + 4] = p[i]
  <2>1. 4 \in Nat /\ 4 <= Len(a) /\ Len(a) - 4 = m /\ 4 + 1 = 5
    BY <1>1, <1>2
  <2>2. \A i \in 1..Len(a) - 4 : From(a, 4 + 1)[i] = a[i + 4]
    BY <1>1, <2>1, SkippedIs, ZenonT(20)
  <2>3. \A i \in 1..m : From(a, 5)[i] = a[i + 4]
    BY <2>1, <2>2
  <2> QED
    BY <1>1, <2>3
<1>5. a[11] = 85 /\ (m = 14 => a[12] = 62 /\ a[13] = 68 /\ a[18] = 63)
  <2>1. 7 \in 1..m /\ (m = 14 => 8 \in 1..m /\ 9 \in 1..m /\ 14 \in 1..m)
    BY <1>2
  <2>2. 7 + 4 = 11 /\ 8 + 4 = 12 /\ 9 + 4 = 13 /\ 14 + 4 = 18
    OBVIOUS
  <2>3. a[7 + 4] = p[7] /\ (m = 14 => a[8 + 4] = p[8] /\ a[9 + 4] = p[9] /\ a[14 + 4] = p[14])
    BY <1>4, <2>1, Zenon
  <2> QED
    BY <1>2, <2>2, <2>3, Zenon
<1>6. x \in Seq(Bytes) /\ Len(x) = (4 + m) - s /\ \A i \in 1..(4 + m) - s : x[i] = a[i + s]
  <2>1. s \in Nat /\ s <= Len(a)
    BY <1>1, <1>3
  <2>2. x \in Seq(Bytes) /\ Len(x) = Len(a) - s /\ \A i \in 1..Len(a) - s : x[i] = a[i + s]
    BY <1>1, <2>1, SkippedIs, Zenon
  <2> HIDE DEF x
  <2> QED
    BY <1>1, <2>2
<1> HIDE DEF x
<1>7. CASE x[1] \div 16 # 0
  BY <1>7, Unconfirmed, Zenon DEF x
<1>8. CASE x[1] \div 16 = 0 /\ (Len(x) < 4 \/ x[4] \notin {12, 15})
  <2>1. ApduMeaning(x) = Drop
    BY <1>8, NoService, Zenon
  <2> QED
    BY <2>1 DEF x
<1>9. CASE x[1] \div 16 = 0 /\ ~(Len(x) < 4) /\ x[4] \in {12, 15}
  <2>1. (4 + m) - s >= 4 /\ 1 \in 1..(4 + m) - s /\ 4 \in 1..(4 + m) - s
    BY <1>2, <1>3, <1>6, <1>9
  <2>2. x[1] = a[1 + s] /\ x[4] = a[4 + s]
    BY <1>6, <2>1, Zenon
  <2>3. s # 7
    <3> SUFFICES ASSUME s = 7 PROVE FALSE
      OBVIOUS
    <3>1. x[4] = 85
      BY <1>5, <2>2
    <3> QED
      BY <1>9, <3>1
  <2>4. m = 14 /\ s \in 8..14
    BY <1>2, <1>3, <2>1, <2>3
  <2>5. s # 8 /\ s # 9 /\ s # 14
    <3>1. s = 8 => x[4] = 62
      BY <1>5, <2>2, <2>4
    <3>2. s = 9 => x[4] = 68
      BY <1>5, <2>2, <2>4
    <3>3. s = 14 => x[4] = 63
      BY <1>5, <2>2, <2>4
    <3>4. x[4] \in {12, 15}
      BY <1>9, Zenon
    <3> QED
      BY <3>1, <3>2, <3>3, <3>4
  <2>6. s # 10 /\ s # 11 /\ s # 12
    <3>1. s = 10 => x[1] = 85
      BY <1>5, <2>2, <2>4
    <3>2. s = 11 => x[1] = 62
      BY <1>5, <2>2, <2>4
    <3>3. s = 12 => x[1] = 68
      BY <1>5, <2>2, <2>4
    <3>4. 85 \div 16 = 5 /\ 62 \div 16 = 3 /\ 68 \div 16 = 4
      BY SMT
    <3> HIDE DEF y
    <3> QED
      BY <1>9, <3>1, <3>2, <3>3, <3>4
  <2>7. s = 13
    BY <2>4, <2>5, <2>6
  <2>8. Len(x) = 5 /\ x[5] = 63
    <3>1. 5 \in 1..(4 + m) - s /\ 5 + s = 18 /\ (4 + m) - s = 5
      BY <2>4, <2>7
    <3> QED
      BY <1>5, <1>6, <2>4, <3>1
  <2>9. y[1] = 63
    <3>1. 4 \in Nat /\ 4 <= Len(x) /\ 1 \in 1..Len(x) - 4 /\ 4 + 1 = 5 /\ 1 + 4 = 5
      BY <2>8
    <3>2. \A i \in 1..Len(x) - 4 : From(x, 4 + 1)[i] = x[i + 4]
      BY <1>6, <3>1, SkippedIs, Zenon
    <3> QED
      BY <2>8, <3>1, <3>2
  <2>10. (y[1] \div 8) * 8 # 8
    BY <2>9
  <2>11. ApduMeaning(x) = Drop
    BY <1>9, <2>10, NoObject, Zenon
  <2> QED
    BY <2>11 DEF x
<1> QED
  BY <1>7, <1>8, <1>9, Zenon

\* In all.
LEMMA ReferenceSkips ==
    \A a, p : \A service \in {12, 15} :
        /\ Asks(a, service, p)
        /\ p[1] = 12 /\ p[2] = 0 /\ p[3] >= 128 /\ p[6] = 25 /\ p[7] = 85
        /\ Len(p) = 7 \/ (Len(p) = 14 /\ p[8] = 62 /\ p[9] = 68 /\ p[14] = 63)
        => Skips(a)
<1> SUFFICES ASSUME NEW a, NEW p, NEW service \in {12, 15}, Asks(a, service, p),
                    p[1] = 12, p[2] = 0, p[3] >= 128, p[6] = 25, p[7] = 85,
                    Len(p) = 7 \/ (Len(p) = 14 /\ p[8] = 62 /\ p[9] = 68 /\ p[14] = 63),
                    NEW s \in 1..Len(a)
             PROVE  ApduMeaning(From(a, s + 1)) \in {Drop, Respond}
  BY ZenonT(20) DEF Skips
<1>1. Len(a) \in Nat
  BY Elements DEF Asks
<1>2. CASE s \in 1..6
  <2>1. s <= Len(a)
    BY <1>1
  <2>2. ApduMeaning(From(a, s + 1)) = Drop
    BY <1>2, <2>1, BeginningSkips, ZenonT(20)
  <2> QED
    BY <2>2
<1>3. CASE s \in 7..Len(a)
  BY <1>3, EndSkips, Zenon
<1> QED
  BY <1>1, <1>2, <1>3

\* And of the other requests there is less.
LEMMA OthersSkip == Skips(WhoIsRequest(<<>>)) /\ Skips(CutRequest)
<1>1. ASSUME NEW a \in Seq(Bytes),
             (Len(a) = 2 /\ a[1] = 16 /\ a[2] = 8)
             \/ (Len(a) = 5 /\ a[1] = 0 /\ a[2] = 5 /\ a[3] = 1 /\ a[4] = 12 /\ a[5] = 13)
      PROVE  Skips(a)
  <2> SUFFICES ASSUME NEW s \in 1..Len(a)
               PROVE  ApduMeaning(From(a, s + 1)) = Drop
    BY DEF Skips
  <2> DEFINE x == From(a, s + 1)
             m == Len(a)
  <2>1. m \in {2, 5} /\ s \in 1..m
    BY <1>1
  <2>2. x \in Seq(Bytes) /\ Len(x) = m - s /\ \A i \in 1..m - s : x[i] = a[i + s]
    <3>1. s \in Nat /\ s <= Len(a)
      BY <1>1
    <3> QED
      BY <3>1, SkippedIs, Zenon
  <2> HIDE DEF x, m
  <2>3. CASE Len(x) < 2
    BY <2>3, NoService, Zenon DEF x
  <2>4. CASE Len(x) >= 2
    <3>1. m = 5 /\ s \in {1, 2, 3}
      BY <2>1, <2>2, <2>4
    <3>2. a[2] = 5 /\ a[3] = 1 /\ a[4] = 12 /\ a[5] = 13
      BY <1>1, <3>1 DEF m
    <3>3. x[1] = a[1 + s] /\ (s = 1 => x[4] = a[4 + s])
      BY <2>2, <3>1
    <3>4. x[1] \in {5, 1, 12} /\ (s = 1 => x[4] = 13) /\ (s # 1 => Len(x) < 4)
      BY <2>2, <3>1, <3>2, <3>3
    <3>5. x[1] \div 16 = 0
      <4>1. 5 \div 16 = 0 /\ 1 \div 16 = 0 /\ 12 \div 16 = 0
        OBVIOUS
      <4> QED
        BY <3>4, <4>1
    <3>6. Len(x) < 4 \/ x[4] \notin {12, 15}
      BY <3>4
    <3> QED
      BY <3>5, <3>6, NoService, Zenon DEF x
  <2>5. Len(x) < 2 \/ Len(x) >= 2
    BY <2>1, <2>2
  <2> QED
    BY <2>3, <2>4, <2>5 DEF x
<1>2. WhoIsRequest(<<>>) = <<16, 8>>
  BY WhoIsBytes
<1>3. <<16, 8>> \in Seq(Bytes)
  BY DEF Bytes
<1>4. Skips(<<16, 8>>)
  BY <1>1, <1>3
<1>5. CutRequest = <<0, 5, 1, 12, 13>>
  BY DEF CutRequest, Tag
<1>6. <<0, 5, 1, 12, 13>> \in Seq(Bytes)
  BY DEF Bytes
<1>7. Skips(<<0, 5, 1, 12, 13>>)
  BY <1>1, <1>6
<1> QED
  BY <1>2, <1>4, <1>5, <1>7

\* What is left of a concatenation behind its first part.
LEMMA FromSecond ==
    \A h \in Seq(Bytes), a \in Seq(Bytes) : \A s \in Nat : s <= Len(a) =>
        From(h \o a, (Len(h) + s) + 1) = From(a, s + 1)
<1> SUFFICES ASSUME NEW h \in Seq(Bytes), NEW a \in Seq(Bytes), NEW s \in Nat, s <= Len(a)
             PROVE  From(h \o a, (Len(h) + s) + 1) = From(a, s + 1)
  OBVIOUS
<1> DEFINE n == h \o a
           l == Len(h)
           m == Len(a)
           k == (l + s) + 1
           x == From(n, k)
           y == From(a, s + 1)
<1>1. /\ n \in Seq(Bytes) /\ Len(n) = l + m
      /\ \A i \in 1..m : n[l + i] = a[i]
  BY Concat, Zenon
<1>2. l \in Nat /\ m \in Nat
  BY Elements
<1>3. y \in Seq(Bytes) /\ Len(y) = m - s /\ \A i \in 1..m - s : y[i] = a[i + s]
  BY SkippedIs, Zenon
<1> HIDE DEF n
<1>4. x \in Seq(Bytes) /\ Len(x) = m - s /\ \A i \in 1..m - s : x[i] = n[i + (k - 1)]
  <2>1. k \in 1..Len(n) + 1 /\ (Len(n) + 1) - k = m - s
    <3>1. s <= m
      OBVIOUS
    <3> HIDE DEF l, m
    <3> QED
      BY <1>1, <1>2, <3>1
  <2> HIDE DEF k
  <2>2. /\ From(n, k) \in Seq(Bytes) /\ Len(From(n, k)) = (Len(n) + 1) - k
        /\ \A i \in 1..(Len(n) + 1) - k : From(n, k)[i] = n[i + (k - 1)]
    BY <1>1, <2>1, FromIs, Zenon
  <2> HIDE DEF l, m, x
  <2>3. x \in Seq(Bytes) /\ Len(x) = (Len(n) + 1) - k
        /\ \A i \in 1..(Len(n) + 1) - k : x[i] = n[i + (k - 1)]
    BY <2>2 DEF x
  <2> QED
    BY <2>1, <2>3
<1>5. s <= m
  OBVIOUS
<1> HIDE DEF l, m, x, y
<1>6. ASSUME NEW i \in 1..m - s PROVE x[i] = y[i]
  <2>1. i + s \in 1..m /\ l + (i + s) = i + (k - 1)
    BY <1>2
  <2>2. n[l + (i + s)] = a[i + s]
    BY <1>1, <2>1, Zenon
  <2>3. x[i] = n[i + (k - 1)] /\ y[i] = a[i + s]
    BY <1>3, <1>4
  <2> QED
    BY <2>1, <2>2, <2>3, Zenon
<1>7. x = y
  BY <1>3, <1>4, <1>6, SeqEqual
<1> QED
  BY <1>7 DEF n, l, x, y

\* A part of the source address, and the hop count, in front of a request do not make
\* another request that reads or writes: the hop count, 255, is no service and part of
\* no object identifier.
LEMMA PartOfHeader ==
    \A x, a : \A d \in 1..6 :
        /\ x \in Seq(Bytes) /\ Short(a) /\ 2 <= Len(a) /\ a[1] \in {0, 16} /\ a[2] \in {5, 8}
        /\ Len(x) = d + Len(a) /\ x[d] = HopCount /\ \A i \in 1..Len(a) : x[d + i] = a[i]
        => ApduMeaning(x) \in {Drop, Respond}
<1> SUFFICES ASSUME NEW x \in Seq(Bytes), NEW a, NEW d \in 1..6,
                    Short(a), 2 <= Len(a), a[1] \in {0, 16}, a[2] \in {5, 8},
                    Len(x) = d + Len(a), x[d] = HopCount, \A i \in 1..Len(a) : x[d + i] = a[i]
             PROVE  ApduMeaning(x) \in {Drop, Respond}
  BY Zenon
<1> DEFINE k == Len(a)
           y == From(x, 5)
<1>1. k \in 2..100
  <2>1. k \in Nat /\ 2 <= k /\ k <= 100
    BY Elements DEF Short
  <2> HIDE DEF k
  <2> QED
    BY <2>1
<1>2. Len(x) = d + k /\ x[d + 1] = a[1] /\ x[d + 2] = a[2]
  <2>1. 1 \in 1..k /\ 2 \in 1..k
    BY <1>1
  <2> QED
    BY <2>1
<1> HIDE DEF k
<1>3. CASE x[1] \div 16 # 0
  BY <1>3, Unconfirmed, Zenon
<1>4. CASE d = 1
  <2>1. 255 \div 16 = 15
    BY SMT
  <2>2. x[1] \div 16 # 0
    BY <1>4, <2>1 DEF HopCount
  <2> QED
    BY <2>2, Unconfirmed, Zenon
<1>5. CASE x[1] \div 16 = 0 /\ d \in {2, 3, 4}
  <2>1. x[4] \notin {12, 15}
    <3>1. d = 2 => x[4] = a[2]
      BY <1>2
    <3>2. d = 3 => x[4] = a[1]
      BY <1>2
    <3>3. d = 4 => x[4] = 255
      BY DEF HopCount
    <3>4. a[1] \notin {12, 15} /\ a[2] \notin {12, 15} /\ 255 \notin {12, 15}
      <4>1. \A v \in {0, 16, 5, 8, 255} : v \notin {12, 15}
        OBVIOUS
      <4>2. a[1] \in {0, 16, 5, 8, 255} /\ a[2] \in {0, 16, 5, 8, 255} /\ 255 \in {0, 16, 5, 8, 255}
        OBVIOUS
      <4> QED
        BY <4>1, <4>2, Zenon
    <3>5. d = 2 \/ d = 3 \/ d = 4
      BY <1>5
    <3> QED
      BY <3>1, <3>2, <3>3, <3>4, <3>5, Zenon
  <2>2. ApduMeaning(x) = Drop
    BY <1>5, <2>1, NoService, Zenon
  <2> QED
    BY <2>2
<1>6. CASE x[1] \div 16 = 0 /\ d \in {5, 6}
  <2>1. y \in Seq(Bytes) /\ Len(y) = (d + k) - 4 /\ \A i \in 1..(d + k) - 4 : y[i] = x[i + 4]
    <3>1. 4 \in Nat /\ 4 <= Len(x) /\ 4 + 1 = 5
      BY <1>1, <1>2, <1>6
    <3>2. /\ From(x, 4 + 1) \in Seq(Bytes) /\ Len(From(x, 4 + 1)) = Len(x) - 4
          /\ \A i \in 1..Len(x) - 4 : From(x, 4 + 1)[i] = x[i + 4]
      BY <3>1, SkippedIs, Zenon
    <3> QED
      BY <1>2, <3>1, <3>2
  <2> HIDE DEF y
  <2>2. CASE d = 5
    <3>1. y[1] = HopCount
      <4>1. 1 \in 1..(d + k) - 4 /\ 1 + 4 = 5
        BY <1>1, <2>2
      <4> QED
        BY <2>1, <2>2, <4>1
    <3>2. (y[1] \div 8) * 8 # 8
      BY <3>1 DEF HopCount
    <3>3. ApduMeaning(x) = Drop
      BY <1>6, <3>2, NoObject, Zenon DEF y
    <3> QED
      BY <3>3
  <2>3. CASE d = 6
    <3>1. y[2] = HopCount
      <4>1. 2 \in 1..(d + k) - 4 /\ 2 + 4 = 6
        BY <1>1, <2>3
      <4> QED
        BY <2>1, <2>3, <4>1
    <3>2. Behind(y)
      BY <1>1, <2>1, <2>3, <3>1 DEF Behind
    <3>3. ApduMeaning(x) = Drop
      BY <1>6, <2>1, <3>2, NoIdentifierInHeader, NoObject, Zenon DEF y
    <3> QED
      BY <3>3
  <2> QED
    BY <1>6, <2>2, <2>3
<1> QED
  BY <1>3, <1>4, <1>5, <1>6

\* So a request with a source address that is misread is taken from a later byte on, or
\* from a byte of the address.
LEMMA MisreadRead ==
    \A route, a :
        /\ route \in Routing /\ Misread(route)
        /\ Short(a) /\ 2 <= Len(a) /\ a[1] \in {0, 16} /\ a[2] \in {5, 8} /\ Skips(a)
        => Meaning(Datagram(route, a)) \in {Drop, Respond}
<1> SUFFICES ASSUME NEW route \in Routing, Misread(route), NEW a, Short(a),
                    2 <= Len(a), a[1] \in {0, 16}, a[2] \in {5, 8}, Skips(a)
             PROVE  Meaning(Datagram(route, a)) \in {Drop, Respond}
  BY Zenon
<1> DEFINE h == Header(route)
           n == h \o a
           l == route.to
           f == route.from
           m == Len(f)
           b == f[1]
           k == Len(a)
           start == ApduStart(n)
           x == From(n, start + 1)
<1>1. Datagram(route, a) = Bvlc(10, n)
  BY DEF Datagram, Header
<1>2. /\ h \in Seq(Bytes) /\ Len(h) = (9 + l) + m /\ h[1] = 1 /\ h[2] = 40 /\ h[5] = l
      /\ \A i \in 1..m : h[(8 + l) + i] = f[i]
      /\ h[(9 + l) + m] = 255
  BY HeaderForwarded, ZenonT(20) DEF Misread
<1>3. l \in 0..255 /\ m \in 1..6 /\ b \in 0..255 /\ b # m
  <2>1. l \in -1..255 /\ l >= 0 /\ f \in Seq(Bytes) /\ f # <<>> /\ m \in 0..6 /\ m # 0
    BY RouteIs DEF Misread
  <2>2. Head(f) # m /\ Head(f) = b
    BY <2>1 DEF Misread
  <2>3. 1 \in 1..m
    BY <2>1
  <2>4. b \in Bytes
    BY <2>1, <2>3, Elements, Zenon
  <2> HIDE DEF l, f, b, m
  <2> QED
    BY <2>1, <2>2, <2>4 DEF Bytes
<1>4. k \in 2..100 /\ a \in Seq(Bytes)
  <2>1. a \in Seq(Bytes) /\ k <= 100 /\ 2 <= k
    BY DEF Short
  <2>2. k \in Nat
    BY <2>1, Elements
  <2> HIDE DEF k
  <2> QED
    BY <2>1, <2>2
<1> HIDE DEF h, l, m, b, f
<1>5. /\ n \in Seq(Bytes) /\ Len(n) = Len(h) + k
      /\ \A i \in 1..Len(h) : n[i] = h[i]
      /\ \A i \in 1..k : n[Len(h) + i] = a[i]
  <2>1. h \in Seq(Bytes) /\ a \in Seq(Bytes)
    BY <1>2, <1>4
  <2>2. /\ h \o a \in Seq(Bytes) /\ Len(h \o a) = Len(h) + Len(a)
        /\ \A i \in 1..Len(h) : (h \o a)[i] = h[i]
        /\ \A i \in 1..Len(a) : (h \o a)[Len(h) + i] = a[i]
    BY <2>1, Concat, Zenon
  <2> QED
    BY <2>2
<1>6. \A s \in Nat : s <= k => From(n, (Len(h) + s) + 1) = From(a, s + 1)
  <2>1. h \in Seq(Bytes) /\ a \in Seq(Bytes)
    BY <1>2, <1>4
  <2>2. \A s \in Nat : s <= Len(a) => From(h \o a, (Len(h) + s) + 1) = From(a, s + 1)
    BY <2>1, FromSecond, Zenon
  <2> QED
    BY <2>2
<1> HIDE DEF n, start
<1>7. \A s \in 1..k : ApduMeaning(From(a, s + 1)) \in {Drop, Respond}
  BY DEF Skips
<1> HIDE DEF k
<1>8. Len(n) = ((9 + l) + m) + k /\ Len(n) \in Nat
  BY <1>2, <1>3, <1>4, <1>5
<1>9. n[1] = 1 /\ n[2] = 40 /\ n[5] = l /\ n[9 + l] = b
  <2>1. 1 \in 1..Len(h) /\ 2 \in 1..Len(h) /\ 5 \in 1..Len(h) /\ 9 + l \in 1..Len(h)
        /\ 1 \in 1..m /\ (8 + l) + 1 = 9 + l
    BY <1>2, <1>3
  <2>2. h[(8 + l) + 1] = f[1]
    BY <1>2, <2>1, Zenon
  <2>3. n[1] = h[1] /\ n[2] = h[2] /\ n[5] = h[5] /\ n[9 + l] = h[9 + l]
    BY <1>5, <2>1, Zenon
  <2> QED
    BY <1>2, <2>1, <2>2, <2>3 DEF b
<1>10. Meaning(Datagram(route, a)) = IF start > Len(n) THEN ApduMeaning(<<>>) ELSE ApduMeaning(x)
  <2>1. Len(n) \in Sizes /\ 2 <= Len(n)
    <3>1. \A j \in Nat : j <= 700 => j \in Sizes
      BY SMT DEF Sizes
    <3> QED
      BY <1>3, <1>4, <1>8, <3>1
  <2>2. Apdu(Bvlc(10, n)) = IF n[1] # 1 \/ start > Len(n) THEN <<>> ELSE x
    BY <1>5, <2>1, BvlcRead, Zenon DEF start
  <2> QED
    BY <1>1, <1>9, <2>2, Zenon DEF Meaning
<1>11. ApduMeaning(<<>>) \in {Drop, Respond}
  <2>1. Len(<<>>) < 2
    OBVIOUS
  <2>2. ApduMeaning(<<>>) = Drop
    BY <2>1, NoService, Zenon
  <2> QED
    BY <2>2
<1>12. start = (9 + l) + b
  <2>1. l \in Nat /\ (9 + l) + 2 <= Len(n)
    BY <1>3, <1>4, <1>8
  <2>2. ApduStart(n) = (9 + l) + n[9 + l]
    BY <1>8, <1>9, <2>1, ForwardedStart
  <2> QED
    BY <1>9, <2>2 DEF start
<1>13. CASE b > m
  <2> DEFINE s == b - m
  <2>1. s \in Nat /\ s >= 1 /\ start = Len(h) + s
    BY <1>2, <1>3, <1>12, <1>13
  <2> HIDE DEF s
  <2>2. CASE s <= k
    <3>1. x = From(a, s + 1)
      BY <1>6, <2>1, <2>2, Zenon
    <3>2. s \in 1..k
      BY <1>4, <2>1, <2>2
    <3>3. ApduMeaning(x) \in {Drop, Respond}
      BY <1>7, <3>1, <3>2, Zenon
    <3> QED
      BY <1>10, <1>11, <3>3, Zenon
  <2>3. CASE ~(s <= k)
    <3>1. start > Len(n)
      BY <1>2, <1>3, <1>4, <1>8, <2>1, <2>3
    <3> QED
      BY <1>10, <1>11, <3>1, Zenon
  <2> QED
    BY <2>2, <2>3
<1>14. CASE b < m
  <2> DEFINE d == m - b
             j == start + 1
  <2>1. d \in 1..6
    BY <1>3, <1>14
  <2>2. /\ j \in 1..Len(n) + 1 /\ (Len(n) + 1) - j = d + k /\ j - 1 = (9 + l) + b
        /\ d + ((9 + l) + b) = (9 + l) + m
    BY <1>3, <1>4, <1>8, <1>12, <1>14
  <2> HIDE DEF j
  <2>3. /\ x \in Seq(Bytes) /\ Len(x) = (Len(n) + 1) - j
        /\ \A i \in 1..(Len(n) + 1) - j : x[i] = n[i + (j - 1)]
    BY <1>5, <2>2, FromIs, Zenon DEF j
  <2> HIDE DEF x
  <2>4. /\ x \in Seq(Bytes) /\ Len(x) = d + k
        /\ \A i \in 1..d + k : x[i] = n[i + ((9 + l) + b)]
    BY <2>2, <2>3
  <2> HIDE DEF d
  <2>5. x[d] = HopCount
    <3>1. d \in 1..d + k /\ (9 + l) + m \in 1..Len(h)
      BY <1>2, <1>3, <1>4, <2>1
    <3> QED
      BY <1>2, <1>5, <2>2, <2>4, <3>1 DEF HopCount
  <2>6. ASSUME NEW i \in 1..k PROVE x[d + i] = a[i]
    <3>1. d + i \in 1..d + k /\ (d + i) + ((9 + l) + b) = Len(h) + i
      BY <1>2, <1>3, <1>4, <2>1, <2>2
    <3>2. x[d + i] = n[(d + i) + ((9 + l) + b)]
      BY <2>4, <3>1, Zenon
    <3> QED
      BY <1>5, <3>1, <3>2
  <2>7. ApduMeaning(x) \in {Drop, Respond}
    <3>1. Len(x) = d + Len(a) /\ \A i \in 1..Len(a) : x[d + i] = a[i]
      BY <2>4, <2>6 DEF k
    <3> QED
      BY <2>1, <2>4, <2>5, <3>1, PartOfHeader, Zenon
  <2> QED
    BY <1>10, <1>11, <2>7, Zenon DEF x
<1> QED
  BY <1>3, <1>13, <1>14

\* A request that a router forwards and whose source address is misread, whatever its
\* bytes, is dropped or answered as a Who-Is: it reads nothing and writes nothing.
THEOREM MisreadTouchesNothing ==
    \A q \in Request : Misread(q.route) => Meaning(AsDatagram(q)) \in {Drop, Respond}
<1> SUFFICES ASSUME NEW q \in Request, Misread(q.route)
             PROVE  Meaning(AsDatagram(q)) \in {Drop, Respond}
  OBVIOUS
<1>1. /\ q.kind \in {"read", "write", "discover", "cut"} /\ q.object \in 0..MaxInstance
      /\ q.value \in Reals /\ q.route \in Routing
  <2>1. q.route \in [to : -1..255, from : Seq(0..255)] /\ Len(q.route.from) <= 6
    BY DEF Request
  <2>2. q.route \in Routing
    BY <2>1 DEF Routing, Lengths, Bytes
  <2> QED
    BY <2>2 DEF Request
<1> DEFINE o == q.object
           id == ObjectId(AnalogValue, o)
           u == Unsigned(PresentValue)
<1>2. /\ id[1] = 0 /\ id[2] >= 128 /\ Len(id) = 4
  <2>1. High(o) \in 0..63 /\ id = <<0, 128 + High(o), Middle(o), Low(o)>>
    BY <1>1, InstanceBytes, ObjectIdIs
  <2> QED
    BY <2>1
<1>3. u = <<85>> /\ Fits(PresentValue) /\ AnalogValue \in Types
  <2>1. PresentValue \in Nat /\ PresentValue < 256 /\ PresentValue = 85
    BY DEF PresentValue
  <2>2. u = <<PresentValue>>
    BY <2>1, UnsignedStep
  <2> QED
    BY <2>1, <2>2 DEF Types, Fits
<1>4. Len(u) = 1 /\ u[1] = 85
  BY <1>3
<1> HIDE DEF o, id, u
<1>5. ASSUME NEW p, References(p, id, u)
      PROVE  p[1] = 12 /\ p[2] = 0 /\ p[3] >= 128 /\ p[6] = 25 /\ p[7] = 85
  <2>1. /\ p[1] = 8 + 4 /\ \A i \in 1..4 : p[1 + i] = id[i]
        /\ p[6] = 24 + 1 /\ \A i \in 1..1 : p[6 + i] = u[i]
    BY <1>2, <1>4, <1>5, Zenon DEF References, Bears
  <2>2. p[1 + 1] = id[1] /\ p[1 + 2] = id[2] /\ p[6 + 1] = u[1]
    BY <2>1
  <2> QED
    BY <1>2, <1>4, <2>1, <2>2
<1>6. ASSUME NEW a, Short(a), 2 <= Len(a), a[1] \in {0, 16}, a[2] \in {5, 8}, Skips(a)
      PROVE  Meaning(Datagram(q.route, a)) \in {Drop, Respond}
  BY <1>1, <1>6, MisreadRead, Zenon
<1>7. CASE q.kind = "read"
  <2> DEFINE a == ReadRequest(AnalogValue, o, PresentValue)
             p == Reference(AnalogValue, o, PresentValue)
  <2>1. Asks(a, 12, p) /\ References(p, id, u) /\ Len(p) = 6 + Len(u)
    BY <1>1, <1>3, ReadRequestIs, Zenon DEF id, o, u
  <2>2. Short(a)
    BY <1>1, <1>3, AnyReadRead, Zenon DEF o
  <2>3. AsDatagram(q) = Datagram(q.route, a)
    BY <1>7 DEF AsDatagram, o
  <2> HIDE DEF a, p
  <2>5. Len(p) = 7
    BY <1>4, <2>1
  <2>6. Skips(a)
    <3>1. 12 \in {12, 15}
      OBVIOUS
    <3> QED
      BY <1>5, <2>1, <2>5, <3>1, ReferenceSkips, Zenon
  <2>7. 2 <= Len(a) /\ a[1] \in {0, 16} /\ a[2] \in {5, 8}
    BY <2>1, <2>5 DEF Asks
  <2> QED
    BY <1>6, <2>2, <2>3, <2>6, <2>7, Zenon
<1>8. CASE q.kind = "write"
  <2> DEFINE v == q.value
             a == WriteRequest(AnalogValue, o, PresentValue, <<RealTag>> \o v)
  <2>1. PICK p, rest :
          /\ Asks(a, 15, p) /\ References(p, id, u) /\ Len(p) = (6 + Len(u)) + 7
          /\ \A i \in 1..7 : p[(6 + Len(u)) + i] = rest[i]
          /\ Encloses(rest, v)
    BY <1>1, <1>3, WriteRequestIs, ZenonT(20) DEF id, o, u
  <2>2. Short(a)
    BY <1>1, <1>3, AnyWriteRead, Zenon DEF o
  <2>3. AsDatagram(q) = Datagram(q.route, a)
    BY <1>8 DEF AsDatagram, o
  <2> HIDE DEF a, v
  <2>5. Len(p) = 14 /\ p[8] = 62 /\ p[9] = 68 /\ p[14] = 63
    <3>1. rest[1] = 62 /\ rest[2] = 68 /\ rest[7] = 63
      BY <2>1 DEF Encloses, Opening, Closing, RealTag, Tag
    <3>2. Len(p) = 14 /\ \A i \in 1..7 : p[7 + i] = rest[i]
      BY <1>4, <2>1
    <3>3. p[7 + 1] = rest[1] /\ p[7 + 2] = rest[2] /\ p[7 + 7] = rest[7]
      BY <3>2
    <3> QED
      BY <3>1, <3>2, <3>3
  <2>6. Skips(a)
    <3>1. 15 \in {12, 15}
      OBVIOUS
    <3> QED
      BY <1>5, <2>1, <2>5, <3>1, ReferenceSkips, Zenon
  <2>7. 2 <= Len(a) /\ a[1] \in {0, 16} /\ a[2] \in {5, 8}
    BY <2>1, <2>5 DEF Asks
  <2> QED
    BY <1>6, <2>2, <2>3, <2>6, <2>7, Zenon
<1>9. CASE q.kind = "discover"
  <2>1. AsDatagram(q) = Datagram(q.route, WhoIsRequest(<<>>))
    BY <1>9 DEF AsDatagram
  <2>2. LET a == WhoIsRequest(<<>>) IN 2 <= Len(a) /\ a[1] \in {0, 16} /\ a[2] \in {5, 8}
    BY WhoIsBytes
  <2> QED
    BY <1>6, <2>1, <2>2, WhoIsRead, OthersSkip, Zenon
<1>10. CASE q.kind = "cut"
  <2>1. AsDatagram(q) = Datagram(q.route, CutRequest)
    BY <1>10 DEF AsDatagram, CutRequest
  <2>2. 2 <= Len(CutRequest) /\ CutRequest[1] \in {0, 16} /\ CutRequest[2] \in {5, 8}
    BY DEF CutRequest
  <2> QED
    BY <1>6, <2>1, <2>2, CutRead, OthersSkip, Zenon
<1> QED
  BY <1>1, <1>7, <1>8, <1>9, <1>10

-----------------------------------------------------------------------------
(* The probe of the Starter and its answer *)

\* The probe of the Starter is a Who-Is without limits.
LEMMA ProbeRead == Meaning(Probe) = Respond
<1> DEFINE route == [to |-> -1, from |-> <<>>]
           a == WhoIsRequest(<<>>)
           g == <<1, 0>>
           w == <<16, 8>>
           n == <<1, 0, 16, 8>>
<1>1. route \in Routing /\ ~Misread(route)
  <2>1. <<>> \in Seq(Bytes) /\ Len(<<>>) = 0
    OBVIOUS
  <2> QED
    BY <2>1 DEF Routing, Lengths, Misread
<1>2. Meaning(Datagram(route, a)) = Respond
  <2> HIDE DEF route, a
  <2> QED
    BY <1>1, WhoIsRead, DatagramRead DEF a
<1>3. a = w
  BY WhoIsBytes
<1>4. Datagram(route, w) = Bvlc(10, n)
  <2>1. route.to < 0 /\ route.from = <<>> /\ 0 + 0 = 0
    OBVIOUS
  <2>2. Datagram(route, w) = Bvlc(10, (((<<1, 0 + 0>> \o <<>>) \o <<>>) \o <<>>) \o w)
    <3> HIDE DEF route, w
    <3> QED
      BY <2>1, Zenon DEF Datagram
  <2>3. g \in Seq(Bytes)
    BY DEF Bytes
  <2>4. g \o <<>> = g
    <3> HIDE DEF g
    <3> QED
      BY <2>3, ConcatEmpty
  <2>5. g \o w = n
    <3> DEFINE u == g \o w
    <3>1. w \in Seq(Bytes) /\ n \in Seq(Bytes)
      BY DEF Bytes
    <3>2. /\ Len(g) = 2 /\ g[1] = 1 /\ g[2] = 0 /\ Len(w) = 2 /\ w[1] = 16 /\ w[2] = 8
          /\ Len(n) = 4 /\ n[1] = 1 /\ n[2] = 0 /\ n[3] = 16 /\ n[4] = 8
      OBVIOUS
    <3> HIDE DEF g, w, n
    <3>3. /\ u \in Seq(Bytes) /\ Len(u) = Len(g) + Len(w)
          /\ \A i \in 1..Len(g) : u[i] = g[i]
          /\ \A i \in 1..Len(w) : u[Len(g) + i] = w[i]
      BY <2>3, <3>1, Concat
    <3> HIDE DEF u
    <3>4. Len(u) = 4 /\ u[1] = n[1] /\ u[2] = n[2] /\ u[3] = n[3] /\ u[4] = n[4]
      BY <3>2, <3>3
    <3>5. \A i \in 1..4 : u[i] = n[i]
      BY <3>4
    <3>6. Len(u) = Len(n) /\ \A i \in 1..Len(u) : u[i] = n[i]
      BY <3>2, <3>4, <3>5
    <3>7. u = n
      BY <3>1, <3>3, <3>6, SeqEqual, Zenon
    <3> QED
      BY <3>7 DEF u
  <2> QED
    BY <2>1, <2>2, <2>4, <2>5
<1>5. Bvlc(10, n) = Probe
  <2>1. Len(n) = 4 /\ (4 + 4) \div 256 = 0 /\ (4 + 4) % 256 = 8
    BY SMT
  <2>2. Bvlc(10, n) = <<129, 10, 0, 8>> \o n
    BY <2>1 DEF Bvlc
  <2> QED
    BY <2>2 DEF Probe
<1> QED
  BY <1>2, <1>3, <1>4, <1>5

\* What begins with a response is one, whatever follows.
BeginsResponse(s) == s \in Seq(Nat) /\ Len(s) >= 4 /\ s[3] = 16 /\ s[4] = 0
\* The first bytes of a concatenation are those of its first part.
LEMMA ResponseGrows ==
    \A s, t : BeginsResponse(s) /\ t \in Seq(Nat) => BeginsResponse(s \o t)
<1> SUFFICES ASSUME NEW s, NEW t \in Seq(Nat), BeginsResponse(s)
             PROVE  BeginsResponse(s \o t)
  OBVIOUS
<1> DEFINE u == s \o t
           m == Len(s)
           n == Len(t)
<1>1. s \in Seq(Nat) /\ m >= 4 /\ s[3] = 16 /\ s[4] = 0 /\ m \in Nat /\ n \in Nat
  BY LenProperties DEF BeginsResponse
<1>2. u \in Seq(Nat) /\ Len(u) = m + n /\ \A i \in 1..m + n : u[i] = IF i <= m THEN s[i] ELSE t[i - m]
  BY <1>1, ConcatProperties
<1> HIDE DEF m, n, u
<1>3. 3 \in 1..m + n /\ 4 \in 1..m + n /\ 3 <= m /\ 4 <= m /\ m + n >= 4
  BY <1>1
<1> QED
  BY <1>1, <1>2, <1>3 DEF BeginsResponse, u

\* An element that carries any number of bytes.
LEMMA TaggedNat ==
    \A bytes \in Seq(Nat), tag \in Nat : Tagged(tag, bytes) \in Seq(Nat)
<1> SUFFICES ASSUME NEW bytes \in Seq(Nat), NEW tag \in Nat
             PROVE  Tagged(tag, bytes) \in Seq(Nat)
  OBVIOUS
<1> DEFINE n == Len(bytes)
           h == IF n <= 4 THEN <<tag + n>> ELSE <<tag + 5, n>>
<1>1. n \in Nat
  BY LenProperties
<1>2. Tagged(tag, bytes) = h \o bytes
  BY DEF Tagged
<1> HIDE DEF n
<1>3. h \in Seq(Nat)
  BY <1>1
<1> HIDE DEF h
<1> QED
  BY <1>2, <1>3, ConcatProperties

\* Bytes are numbers.
LEMMA BytesSequence == \A s \in Seq(Bytes) : s \in Seq(Nat)
<1>1. Bytes \subseteq Nat
  BY BytesAreNumbers
<1> QED
  BY <1>1, SeqMonotonic

\* The Starter accepts what the server answers to its probe.
LEMMA IAmAccepted == ProbeAccepts(IAm)
<1> DEFINE s0 == <<1, 0>> \o <<16, 0>>
           id == ObjectId(DeviceType, Device.instance)
           x == Tagged(Tag(12, FALSE), id)
           y == Tagged(Tag(2, FALSE), Unsigned(Device.max_apdu_length_accepted))
           z == Tagged(Tag(9, FALSE), Unsigned(Device.segmentation_supported))
           w == Tagged(Tag(2, FALSE), Unsigned(Device.vendor_identifier))
           n == (((s0 \o x) \o y) \o z) \o w
           L == 4 + Len(n)
           h == <<129, 10, L \div 256, L % 256>>
           r == h \o n
<1>1. Tag(12, FALSE) \in Nat /\ Tag(2, FALSE) \in Nat /\ Tag(9, FALSE) \in Nat
  BY DEF Tag
<1>2. x \in Seq(Nat)
  <2>1. id \in Seq(Nat)
    BY DeviceAssumption, ObjectIdOf, BytesSequence DEF Types
  <2> HIDE DEF id
  <2> QED
    BY <1>1, <2>1, TaggedNat
<1>3. y \in Seq(Nat) /\ z \in Seq(Nat) /\ w \in Seq(Nat)
  <2>1. \A k \in Nat : Unsigned(k) \in Seq(Nat)
    BY NumbersAreRead, BytesSequence, Zenon
  <2>2. /\ Device.max_apdu_length_accepted \in Nat /\ Device.segmentation_supported \in Nat
        /\ Device.vendor_identifier \in Nat
    BY DeviceAssumption
  <2> QED
    BY <1>1, <2>1, <2>2, TaggedNat
<1>4. IAm = r
  <2>1. IAm = Bvlc(10, n)
    BY Zenon DEF IAm
  <2> HIDE DEF n
  <2> QED
    BY <2>1 DEF Bvlc
<1>5. BeginsResponse(s0)
  BY DEF BeginsResponse
<1> HIDE DEF s0, x, y, z, w
<1>6. BeginsResponse(n)
  BY <1>2, <1>3, <1>5, ResponseGrows, Zenon
<1> HIDE DEF n
<1>7. n \in Seq(Nat) /\ Len(n) >= 4 /\ n[3] = 16 /\ n[4] = 0 /\ Len(n) \in Nat
  BY <1>6, LenProperties DEF BeginsResponse
<1>8. L \in Nat
  BY <1>7
<1> DEFINE hi == L \div 256
           lo == L % 256
<1>9. hi \in Nat /\ lo \in Nat
  <2> HIDE DEF L
  <2> QED
    BY <1>8, DivisionBy256 DEF Bytes
<1> HIDE DEF L, hi, lo
<1>10. h = <<129, 10, hi, lo>>
  BY DEF hi, lo
<1> HIDE DEF h
<1>11. h \in Seq(Nat) /\ Len(h) = 4 /\ h[1] = 129 /\ h[2] = 10
  BY <1>9, <1>10
<1>12. r \in Seq(Nat) /\ Len(r) = 4 + Len(n)
       /\ \A i \in 1..4 + Len(n) : r[i] = IF i <= 4 THEN h[i] ELSE n[i - 4]
  <2> DEFINE m == Len(n)
  <2>1. r \in Seq(Nat) /\ Len(r) = Len(h) + m
        /\ \A i \in 1..Len(h) + m : r[i] = IF i <= Len(h) THEN h[i] ELSE n[i - Len(h)]
    <3>1. n \in Seq(Nat) /\ h \in Seq(Nat)
      BY <1>7, <1>11
    <3> QED
      BY <3>1, ConcatProperties
  <2>2. Len(h) = 4
    BY <1>11
  <2> HIDE DEF r, m
  <2>3. /\ r \in Seq(Nat) /\ Len(r) = 4 + m
        /\ \A i \in 1..4 + m : r[i] = IF i <= 4 THEN h[i] ELSE n[i - 4]
    BY <2>1, <2>2
  <2> QED
    BY <2>3 DEF m
<1> HIDE DEF r
<1>13. Len(r) >= 8 /\ r[1] = 129 /\ r[2] = 10 /\ r[7] = 16 /\ r[8] = 0
  <2> DEFINE m == Len(n)
  <2>1. m \in Nat /\ m >= 4
    BY <1>7
  <2> HIDE DEF m
  <2>2. 1 \in 1..4 + m /\ 2 \in 1..4 + m /\ 7 \in 1..4 + m /\ 8 \in 1..4 + m /\ 4 + m >= 8
    BY <2>1
  <2>3. 7 - 4 = 3 /\ 8 - 4 = 4 /\ 1 <= 4 /\ 2 <= 4 /\ ~(7 <= 4) /\ ~(8 <= 4)
    OBVIOUS
  <2>4. \A i \in 1..4 + m : r[i] = IF i <= 4 THEN h[i] ELSE n[i - 4]
    BY <1>12 DEF m
  <2>5. r[1] = h[1] /\ r[2] = h[2] /\ r[7] = n[3] /\ r[8] = n[4]
    BY <2>2, <2>3, <2>4
  <2> QED
    BY <1>7, <1>11, <1>12, <2>2, <2>5 DEF m
<1>14. SubSeq(r, 1, 2) = <<129, 10>> /\ SubSeq(r, 7, 8) = <<16, 0>>
  <2>1. \A k \in {1, 7} : SubSeq(r, k, k + 1) = <<r[k], r[k + 1]>>
    <3> SUFFICES ASSUME NEW k \in {1, 7} PROVE SubSeq(r, k, k + 1) = <<r[k], r[k + 1]>>
      OBVIOUS
    <3>1. \A i \in k..k + 1 : r[i] \in Nat
      <4>1. \A i \in k..k + 1 : i \in {1, 2, 7, 8}
        OBVIOUS
      <4> QED
        BY <1>13, <4>1
    <3> DEFINE t == SubSeq(r, k, k + 1)
               pair == <<r[k], r[k + 1]>>
    <3>2. /\ t \in Seq(Nat) /\ Len(t) = IF k <= k + 1 THEN k + 1 - k + 1 ELSE 0
          /\ \A i \in 1..k + 1 - k + 1 : t[i] = r[k + i - 1]
      BY <3>1, SubSeqProperties
    <3> HIDE DEF t
    <3>3. Len(t) = 2 /\ t[1] = r[k] /\ t[2] = r[k + 1]
      BY <3>2
    <3>4. pair \in Seq(Nat) /\ Len(pair) = 2 /\ pair[1] = r[k] /\ pair[2] = r[k + 1]
      BY <3>1
    <3> HIDE DEF pair
    <3>5. \A i \in 1..Len(t) : t[i] = pair[i]
      BY <3>3, <3>4
    <3>6. t = pair
      BY <3>2, <3>3, <3>4, <3>5, SeqEqual
    <3> QED
      BY <3>6 DEF t, pair
  <2>2. SubSeq(r, 1, 1 + 1) = <<r[1], r[1 + 1]>> /\ SubSeq(r, 7, 7 + 1) = <<r[7], r[7 + 1]>>
    BY <2>1
  <2> QED
    BY <1>13, <2>2
<1> QED
  BY <1>4, <1>13, <1>14 DEF ProbeAccepts

\* What a client means is what the server does: a datagram with no source address that
\* is misread, for any object, any property of up to four bytes, any value and any
\* limits, but for a value in which a byte looks like the closing tag.
THEOREM MeaningEverywhere ==
    \A route \in Routing : ~Misread(route) =>
        /\ \A type \in Types, o \in 0..MaxInstance : \A property : Fits(property) =>
              Meaning(Datagram(route, ReadRequest(type, o, property))) = ReadMeans(type, o, property)
        /\ \A o \in 0..MaxInstance, v \in Reals : \A property : Fits(property) =>
              Meaning(Datagram(route, WriteRequest(AnalogValue, o, property, <<RealTag>> \o v)))
                 = WriteMeans(o, property, v)
        /\ Meaning(Datagram(route, WhoIsRequest(<<>>))) = Respond
        /\ \A low, high : Fits(low) /\ Fits(high) =>
              Meaning(Datagram(route, WhoIsRequest(<<low, high>>)))
                 = IF Device.instance \in low..high THEN Respond ELSE Drop
<1> SUFFICES ASSUME NEW route \in Routing, ~Misread(route)
    PROVE /\ \A type \in Types, o \in 0..MaxInstance : \A property : Fits(property) =>
                Meaning(Datagram(route, ReadRequest(type, o, property))) = ReadMeans(type, o, property)
          /\ \A o \in 0..MaxInstance, v \in Reals : \A property : Fits(property) =>
                Meaning(Datagram(route, WriteRequest(AnalogValue, o, property, <<RealTag>> \o v)))
                   = WriteMeans(o, property, v)
          /\ Meaning(Datagram(route, WhoIsRequest(<<>>))) = Respond
          /\ \A low, high : Fits(low) /\ Fits(high) =>
                Meaning(Datagram(route, WhoIsRequest(<<low, high>>)))
                   = IF Device.instance \in low..high THEN Respond ELSE Drop
  OBVIOUS
<1>1. \A a : Short(a) => Meaning(Datagram(route, a)) = ApduMeaning(a)
  BY DatagramRead, Zenon
<1>2. ASSUME NEW type \in Types, NEW o \in 0..MaxInstance, NEW property, Fits(property)
      PROVE  Meaning(Datagram(route, ReadRequest(type, o, property))) = ReadMeans(type, o, property)
  BY <1>1, <1>2, AnyReadRead, Zenon
<1>3. ASSUME NEW o \in 0..MaxInstance, NEW v \in Reals, NEW property, Fits(property)
      PROVE  Meaning(Datagram(route, WriteRequest(AnalogValue, o, property, <<RealTag>> \o v)))
                = WriteMeans(o, property, v)
  BY <1>1, <1>3, AnyWriteRead, Zenon
<1>4. Meaning(Datagram(route, WhoIsRequest(<<>>))) = Respond
  BY <1>1, WhoIsRead, Zenon
<1>5. ASSUME NEW low, NEW high, Fits(low), Fits(high)
      PROVE  Meaning(Datagram(route, WhoIsRequest(<<low, high>>)))
                = IF Device.instance \in low..high THEN Respond ELSE Drop
  BY <1>1, <1>5, AnyWhoIsRead, Zenon
<1> QED
  BY <1>2, <1>3, <1>4, <1>5

\* Instance numbers, and the properties of which MeaningIsIntended speaks, take up
\* to four bytes.
LEMMA TheseFit ==
    /\ \A n \in Instances : n \in 0..MaxInstance /\ Fits(n)
    /\ \A n \in {0, 28, 75, PresentValue, 300} : Fits(n)
<1>1. \A n \in Nat : n < 16777216 => Fits(n)
  BY SMT DEF Fits
<1>2. \A n \in 0..MaxInstance : n \in Nat /\ n < 16777216
  <2>1. MaxInstance < 16777216
    BY SMT DEF MaxInstance
  <2> QED
    BY <2>1, MaxInstanceType
<1>3. Instances \subseteq 0..MaxInstance
  <2>1. {0, 1, 63, 65536, MaxInstance} \subseteq 0..MaxInstance
    <3>1. 65536 <= MaxInstance
      BY SMT DEF MaxInstance
    <3> QED
      BY <3>1, MaxInstanceType
  <2> QED
    BY <2>1, DeviceAssumption DEF Instances
<1>4. \A n \in {0, 28, 75, PresentValue, 300} : n \in Nat /\ n < 16777216
  BY DEF PresentValue
<1> QED
  BY <1>1, <1>2, <1>3, <1>4

\* The addresses of which it speaks are short.
LEMMA SourcesAreAddresses == \A f \in {<<>>} \cup SourceAddresses : f \in Seq(0..255) /\ Len(f) <= 6
<1>1. /\ <<>> \in Seq(0..255) /\ Len(<<>>) <= 6
      /\ <<1>> \in Seq(0..255) /\ Len(<<1>>) <= 6
      /\ <<5>> \in Seq(0..255) /\ Len(<<5>>) <= 6
  OBVIOUS
<1>2. <<10, 0, 0, 5, 186, 192>> \in Seq(0..255) /\ Len(<<10, 0, 0, 5, 186, 192>>) <= 6
  OBVIOUS
<1>3. <<6, 0, 0, 5, 186, 192>> \in Seq(0..255) /\ Len(<<6, 0, 0, 5, 186, 192>>) <= 6
  OBVIOUS
<1>4. <<1, 2, 16, 8, 186, 192>> \in Seq(0..255) /\ Len(<<1, 2, 16, 8, 186, 192>>) <= 6
  OBVIOUS
<1>5. <<0, 0, 0, 0, 12, 12>> \in Seq(0..255) /\ Len(<<0, 0, 0, 0, 12, 12>>) <= 6
  OBVIOUS
<1>6. ASSUME NEW f \in {<<>>} \cup SourceAddresses PROVE f \in Seq(0..255) /\ Len(f) <= 6
  <2>1. CASE f = <<>> \/ f = <<1>> \/ f = <<5>>
    BY <1>1, <2>1
  <2>2. CASE f = <<10, 0, 0, 5, 186, 192>>
    BY <1>2, <2>2
  <2>3. CASE f = <<6, 0, 0, 5, 186, 192>>
    BY <1>3, <2>3
  <2>4. CASE f = <<1, 2, 16, 8, 186, 192>>
    BY <1>4, <2>4
  <2>5. CASE f = <<0, 0, 0, 0, 12, 12>>
    BY <1>5, <2>5
  <2> QED
    BY <2>1, <2>2, <2>3, <2>4, <2>5 DEF SourceAddresses
<1> QED
  BY <1>6

\* So MeaningIsIntended is true of any such device.
THEOREM MeaningIsAlwaysIntended == MeaningIsIntended
<1>1. \A route \in Routes : route \in Routing
  <2>1. ASSUME NEW f \in {<<>>} \cup SourceAddresses PROVE f \in Seq(Bytes) /\ Len(f) <= 6
    BY SourcesAreAddresses DEF Bytes
  <2>2. \A n \in {-1, 0, 6} : n \in Lengths
    BY DEF Lengths
  <2> QED
    BY <2>1, <2>2 DEF Routes, Routing
<1>2. ASSUME NEW route \in Routes, NEW instance \in Instances,
             NEW property \in {0, 28, 75, PresentValue, 300}, ~Misread(route)
      PROVE  /\ Meaning(Datagram(route, ReadRequest(AnalogValue, instance, property)))
                   = [step |-> "read", object |-> instance, property |-> property]
             /\ Meaning(Datagram(route, ReadRequest(DeviceType, instance, property)))
                   = IF instance = Device.instance /\ property \in DeviceProperties
                     THEN Respond ELSE Drop
             /\ \A real \in [1..4 -> {0, Closing, 65, 255}] :
                   Meaning(Datagram(route, WriteRequest(AnalogValue, instance, property, <<RealTag>> \o real)))
                      = IF property = PresentValue /\ \A k \in 1..4 : real[k] # Closing
                        THEN [step |-> "write", object |-> instance, real |-> real] ELSE Drop
  <2>1. route \in Routing /\ instance \in 0..MaxInstance /\ Fits(property)
    BY <1>1, TheseFit, Zenon
  <2>2. AnalogValue \in Types /\ DeviceType \in Types /\ AnalogValue # DeviceType
    BY DEF Types, AnalogValue, DeviceType
  <2>3. \A type \in Types :
            Meaning(Datagram(route, ReadRequest(type, instance, property))) = ReadMeans(type, instance, property)
    BY <1>2, <2>1, MeaningEverywhere
  <2>4. ASSUME NEW real \in [1..4 -> {0, Closing, 65, 255}]
        PROVE  Meaning(Datagram(route, WriteRequest(AnalogValue, instance, property, <<RealTag>> \o real)))
                  = WriteMeans(instance, property, real)
    <3>1. real \in Reals
      BY DEF Reals, Closing, Tag
    <3> QED
      BY <1>2, <2>1, <3>1, MeaningEverywhere
  <2> QED
    BY <2>2, <2>3, <2>4, Zenon DEF ReadMeans, WriteMeans
<1>3. ASSUME NEW route \in Routes, NEW low \in Instances, NEW high \in Instances, ~Misread(route)
      PROVE  /\ Meaning(Datagram(route, WhoIsRequest(<<>>))) = Respond
             /\ Meaning(Datagram(route, WhoIsRequest(<<low, high>>)))
                   = IF Device.instance \in low..high THEN Respond ELSE Drop
  <2>1. route \in Routing /\ Fits(low) /\ Fits(high)
    BY <1>1, TheseFit, Zenon
  <2> QED
    BY <1>3, <2>1, MeaningEverywhere, Zenon
<1> QED
  BY <1>2, <1>3, ProbeRead, IAmAccepted, Zenon DEF MeaningIsIntended

\* NeverAnother is true of any requests.
THEOREM NeverTakenForAnother == NeverAnother
<1> SUFFICES ASSUME NEW q \in Requests, NEW route \in Routes, Misread(route)
             PROVE  Meaning(AsDatagram([q EXCEPT !.route = route])) \in {Drop, Respond}
  BY Zenon DEF NeverAnother
<1> DEFINE r == [q EXCEPT !.route = route]
<1>1. q \in Request
  BY BacnetAssumption
<1>2. route \in [to : -1..255, from : Seq(0..255)] /\ Len(route.from) <= 6
  <2>1. ASSUME NEW f \in {<<>>} \cup SourceAddresses PROVE f \in Seq(0..255) /\ Len(f) <= 6
    BY SourcesAreAddresses DEF Bytes
  <2> QED
    BY <2>1 DEF Routes
<1>3. r \in Request /\ r.route = route
  BY <1>1, <1>2 DEF Request
<1> HIDE DEF r
<1>4. Meaning(AsDatagram(r)) \in {Drop, Respond}
  BY <1>3, MisreadTouchesNothing, Zenon
<1> QED
  BY <1>4 DEF r

\* RequestsUnderstood: whatever the threads do, a datagram a handler takes means what
\* its client meant, or touches nothing.
THEOREM DatagramsUnderstood == Spec => []RequestsUnderstood
<1>1. RequestsUnderstood
  BY MeaningIsAlwaysIntended, NeverTakenForAnother DEF RequestsUnderstood
<1> QED
  BY <1>1, PTL
=============================================================================
