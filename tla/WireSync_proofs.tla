--------------------------- MODULE WireSync_proofs ---------------------------
(***************************************************************************)
(* For any values, names, operations and breaks:                           *)
(*   - the codec of either revision reads what it has written, as far as   *)
(*     that revision can say it: numbers as LEB128, values, messages and   *)
(*     streams of messages;                                                *)
(*   - when both ends have left the hello behind they speak the same       *)
(*     revision, one that both support;                                    *)
(*   - each direction of a connection implements Channel, and every        *)
(*     variable has its type;                                              *)
(*   - in revision 3 an end can do something with all it reads.            *)
(***************************************************************************)
EXTENDS WireSync, Storage_proofs, SequenceTheorems, WellFoundedInduction, TLAPS

-----------------------------------------------------------------------------
(* Induction, and sequences of sequences *)

\* A set of natural numbers has a least element.
LEMMA Least ==
    ASSUME NEW S \in SUBSET Nat, S # {}
    PROVE  \E x \in S : \A y \in S : x <= y
<1> DEFINE R == {p \in Nat \X Nat : p[1] < p[2]}
<1>1. IsWellFoundedOn(R, Nat)
  BY NatLessThanWellFounded DEF OpToRel
<1>2. \E x \in S : \A y \in S : ~(<< y, x >> \in R)
  <2> HIDE DEF R
  <2>1. QED
    BY <1>1, WFMin
<1>3. \A x, y \in S : ~(<< y, x >> \in R) => x <= y
  OBVIOUS
<1> HIDE DEF R
<1>4. QED
  BY <1>2, <1>3

\* Induction, for a property that is a set.
LEMMA Induction ==
    ASSUME NEW P, 0 \in P, \A n \in Nat : n \in P => n + 1 \in P
    PROVE  \A n \in Nat : n \in P
<1> DEFINE S == Nat \ P
<1>1. ASSUME S # {} PROVE FALSE
  <2>1. PICK n \in S : \A k \in S : n <= k
    BY <1>1, Least
  <2>2. n # 0 /\ n - 1 \in Nat
    BY <2>1
  <2>3. n - 1 \in P
    BY <2>1, <2>2
  <2>4. (n - 1) + 1 \in P /\ (n - 1) + 1 = n
    BY <2>2, <2>3
  <2>5. QED
    BY <2>1, <2>4
<1>2. QED
  BY <1>1

\* Induction from all smaller numbers.
LEMMA CourseOfValues ==
    ASSUME NEW P, \A n \in Nat : (\A k \in Nat : k < n => k \in P) => n \in P
    PROVE  \A n \in Nat : n \in P
<1> DEFINE S == Nat \ P
<1>1. ASSUME S # {} PROVE FALSE
  <2>1. PICK n \in S : \A k \in S : n <= k
    BY <1>1, Least
  <2>2. \A k \in Nat : k < n => k \in P
    BY <2>1
  <2>3. QED
    BY <2>1, <2>2
<1>2. QED
  BY <1>1

\* Concatenation is associative.
LEMMA Assoc == \A T : \A a, b, c \in Seq(T) : (a \o b) \o c = a \o (b \o c)
BY ConcatAssociative

\* FlattenSeq, on the sequences that are at hand.
FlatTo(s, n, f) == f = [i \in 1 .. n |-> IF i = 1 THEN s[i] ELSE f[i - 1] \o s[i]]

\* There is such a function.
LEMMA FlatExists ==
    ASSUME NEW T, NEW s \in Seq(Seq(T)), s # << >>
    PROVE  \E f : FlatTo(s, Len(s), f)
<1> DEFINE P == {n \in Nat : n < Len(s) => \E f : FlatTo(s, n + 1, f)}
<1>1. Len(s) \in Nat /\ Len(s) >= 1
  OBVIOUS
<1>2. 0 \in P
  <2> DEFINE f == [i \in 1 .. 1 |-> s[1]]
  <2>1. FlatTo(s, 0 + 1, f)
    BY DEF FlatTo
  <2> HIDE DEF f
  <2>2. QED
    BY <2>1
<1>3. ASSUME NEW n \in Nat, n \in P PROVE n + 1 \in P
  <2>1. CASE ~(n + 1 < Len(s))
    BY <2>1
  <2>2. CASE n + 1 < Len(s)
    <3>1. n < Len(s)
      BY <1>1, <2>2
    <3>2. PICK f : FlatTo(s, n + 1, f)
      BY <1>3, <3>1
    <3> DEFINE g == [i \in 1 .. (n + 1) + 1 |-> IF i <= n + 1 THEN f[i]
                                               ELSE f[n + 1] \o s[i]]
    <3>3. \A i \in 1 .. n + 1 : f[i] = IF i = 1 THEN s[i] ELSE f[i - 1] \o s[i]
      BY <3>2 DEF FlatTo
    <3>4. \A i \in 1 .. (n + 1) + 1 : g[i] = IF i = 1 THEN s[i] ELSE g[i - 1] \o s[i]
      <4> TAKE i \in 1 .. (n + 1) + 1
      <4>1. CASE i <= n + 1
        <5>1. i \in 1 .. n + 1
          BY <4>1
        <5>2. i # 1 => i - 1 \in 1 .. (n + 1) + 1 /\ i - 1 <= n + 1
          BY <4>1
        <5>3. i # 1 => g[i - 1] = f[i - 1]
          BY <5>2
        <5>4. g[i] = f[i]
          BY <4>1
        <5> HIDE DEF g
        <5>5. QED
          BY <3>3, <5>1, <5>3, <5>4
      <4>2. CASE ~(i <= n + 1)
        <5>1. i = (n + 1) + 1 /\ i # 1 /\ i - 1 = n + 1
          BY <4>2
        <5>2. g[i] = f[n + 1] \o s[i]
          BY <4>2
        <5>3. g[n + 1] = f[n + 1]
          OBVIOUS
        <5> HIDE DEF g
        <5>4. QED
          BY <5>1, <5>2, <5>3
      <4>3. QED
        BY <4>1, <4>2
    <3>5. DOMAIN g = 1 .. (n + 1) + 1
      OBVIOUS
    <3>6. g = [i \in 1 .. (n + 1) + 1 |-> g[i]]
      OBVIOUS
    <3> HIDE DEF g
    <3>7. FlatTo(s, (n + 1) + 1, g)
      BY <3>4, <3>6 DEF FlatTo
    <3>8. QED
      BY <3>7
  <2> HIDE DEF P
  <2>3. QED
    BY <2>1, <2>2
<1>4. Len(s) - 1 \in P
  <2>1. Len(s) - 1 \in Nat
    BY <1>1
  <2> HIDE DEF P
  <2>2. QED
    BY <1>2, <1>3, <2>1, Induction
<1>5. Len(s) - 1 < Len(s) /\ (Len(s) - 1) + 1 = Len(s)
  BY <1>1
<1>6. \E f : FlatTo(s, (Len(s) - 1) + 1, f)
  BY <1>4, <1>5
<1>7. QED
  BY <1>5, <1>6

\* It is determined by the sequences before each place.
LEMMA FlatAgree ==
    ASSUME NEW T, NEW s \in Seq(Seq(T)), NEW t, NEW n \in Nat, NEW m \in Nat,
           n <= Len(s), n <= m, \A i \in 1 .. n : t[i] = s[i],
           NEW f, FlatTo(s, n, f), NEW g, FlatTo(t, m, g)
    PROVE  \A i \in 1 .. n : f[i] = g[i] /\ f[i] \in Seq(T)
<1> DEFINE P == {k \in Nat : k + 1 <= n => f[k + 1] = g[k + 1] /\ f[k + 1] \in Seq(T)}
<1>1. \A i \in 1 .. n : /\ f[i] = (IF i = 1 THEN s[i] ELSE f[i - 1] \o s[i])
                        /\ g[i] = (IF i = 1 THEN t[i] ELSE g[i - 1] \o t[i])
                        /\ t[i] = s[i] /\ s[i] \in Seq(T)
  <2>1. \A i \in 1 .. n : i \in 1 .. m /\ i \in 1 .. Len(s)
    OBVIOUS
  <2>2. QED
    BY <2>1, ElementOfSeq DEF FlatTo
<1>2. 0 \in P
  <2>1. 0 + 1 = 1 /\ (1 <= n => 1 \in 1 .. n)
    OBVIOUS
  <2>2. QED
    BY <1>1, <2>1
<1>3. ASSUME NEW k \in Nat, k \in P PROVE k + 1 \in P
  <2> SUFFICES ASSUME (k + 1) + 1 <= n
               PROVE  /\ f[(k + 1) + 1] = g[(k + 1) + 1]
                      /\ f[(k + 1) + 1] \in Seq(T)
    OBVIOUS
  <2>1. f[k + 1] = g[k + 1] /\ f[k + 1] \in Seq(T)
    BY <1>3
  <2>2. (k + 1) + 1 \in 1 .. n /\ (k + 1) + 1 # 1 /\ ((k + 1) + 1) - 1 = k + 1
    OBVIOUS
  <2>3. /\ f[(k + 1) + 1] = f[k + 1] \o s[(k + 1) + 1]
        /\ g[(k + 1) + 1] = g[k + 1] \o s[(k + 1) + 1]
        /\ s[(k + 1) + 1] \in Seq(T)
    BY <1>1, <2>2
  <2>4. QED
    BY <2>1, <2>3
<1>4. \A k \in Nat : k \in P
  <2> HIDE DEF P
  <2>1. QED
    BY <1>2, <1>3, Induction
<1>5. ASSUME NEW i \in 1 .. n PROVE f[i] = g[i] /\ f[i] \in Seq(T)
  <2>1. i - 1 \in Nat /\ (i - 1) + 1 = i
    OBVIOUS
  <2>2. i - 1 \in P
    <3> HIDE DEF P
    <3>1. QED
      BY <1>4, <2>1
  <2>3. QED
    BY <2>1, <2>2
<1>6. QED
  BY <1>5

\* FlattenSeq is its last value.
LEMMA FlattenIs ==
    ASSUME NEW T, NEW s \in Seq(Seq(T)), s # << >>
    PROVE  \E f : FlatTo(s, Len(s), f) /\ FlattenSeq(s) = f[Len(s)]
<1> DEFINE F(f) == [i \in 1 .. Len(s) |-> IF i = 1 THEN s[i] ELSE f[i - 1] \o s[i]]
           flatten == CHOOSE f : f = F(f)
<1>1. \E f : f = F(f)
  <2>1. PICK f : FlatTo(s, Len(s), f)
    BY FlatExists
  <2>2. f = F(f)
    BY <2>1 DEF FlatTo
  <2> HIDE DEF F
  <2>3. QED
    BY <2>2
<1>2. flatten = F(flatten)
  <2> HIDE DEF F
  <2>1. QED
    BY <1>1
<1>3. FlatTo(s, Len(s), flatten)
  <2> HIDE DEF flatten
  <2>1. QED
    BY <1>2 DEF FlatTo
<1>4. FlattenSeq(s) = flatten[Len(s)]
  <2>1. Len(s) # 0
    OBVIOUS
  <2>2. QED
    BY <2>1 DEF FlattenSeq
<1> HIDE DEF flatten
<1>5. QED
  BY <1>3, <1>4

\* What FlattenSeq computes.
LEMMA FlattenEmpty == FlattenSeq(<< >>) = << >>
BY DEF FlattenSeq

\* What FlattenSeq returns is a sequence of the same elements.
LEMMA FlattenType ==
    ASSUME NEW T, NEW s \in Seq(Seq(T))
    PROVE  FlattenSeq(s) \in Seq(T)
<1>1. CASE s = << >>
  BY <1>1, FlattenEmpty, EmptySeq
<1>2. CASE s # << >>
  <2>1. PICK f : FlatTo(s, Len(s), f) /\ FlattenSeq(s) = f[Len(s)]
    BY <1>2, FlattenIs
  <2>2. Len(s) \in Nat /\ Len(s) \in 1 .. Len(s)
    BY <1>2
  <2>3. \A i \in 1 .. Len(s) : f[i] \in Seq(T)
    <3>1. \A i \in 1 .. Len(s) : s[i] = s[i]
      OBVIOUS
    <3>2. Len(s) <= Len(s)
      BY <2>2
    <3>3. QED
      BY <2>1, <2>2, <3>1, <3>2, FlatAgree
  <2>4. QED
    BY <2>1, <2>2, <2>3
<1>3. QED
  BY <1>1, <1>2

\* One sequence more.
LEMMA FlattenAppend ==
    ASSUME NEW T, NEW s \in Seq(Seq(T)), NEW x \in Seq(T)
    PROVE  FlattenSeq(Append(s, x)) = FlattenSeq(s) \o x
<1> DEFINE t == Append(s, x)
<1>1. /\ t \in Seq(Seq(T)) /\ t # << >> /\ Len(t) = Len(s) + 1 /\ Len(s) \in Nat
      /\ t[Len(s) + 1] = x /\ \A i \in 1 .. Len(s) : t[i] = s[i]
  BY AppendProperties, LenProperties
<1> HIDE DEF t
<1>2. PICK g : FlatTo(t, Len(t), g) /\ FlattenSeq(t) = g[Len(t)]
  BY <1>1, FlattenIs
<1>3. g[Len(s) + 1] = IF Len(s) + 1 = 1 THEN x ELSE g[(Len(s) + 1) - 1] \o x
  <2>1. Len(s) + 1 \in 1 .. Len(t)
    BY <1>1
  <2>2. QED
    BY <1>1, <1>2, <2>1 DEF FlatTo
<1>4. CASE s = << >>
  <2>1. FlattenSeq(t) = x
    BY <1>1, <1>2, <1>3, <1>4
  <2>2. << >> \o x = x
    OBVIOUS
  <2>3. QED
    BY <1>4, <2>1, <2>2, FlattenEmpty DEF t
<1>5. CASE s # << >>
  <2>1. PICK f : FlatTo(s, Len(s), f) /\ FlattenSeq(s) = f[Len(s)]
    BY <1>5, FlattenIs
  <2>2. \A i \in 1 .. Len(s) : f[i] = g[i]
    <3> DEFINE n == Len(s)  m == Len(t)
    <3>1. n \in Nat /\ m \in Nat /\ n <= m /\ n <= Len(s)
      BY <1>1
    <3>2. /\ FlatTo(s, n, f) /\ FlatTo(t, m, g)
          /\ \A i \in 1 .. n : t[i] = s[i]
      BY <1>1, <1>2, <2>1
    <3> HIDE DEF n, m
    <3>3. \A i \in 1 .. n : f[i] = g[i] /\ f[i] \in Seq(T)
      BY <3>1, <3>2, FlatAgree
    <3>4. QED
      BY <3>3 DEF n
  <2>3. Len(s) \in 1 .. Len(s) /\ Len(s) + 1 # 1 /\ (Len(s) + 1) - 1 = Len(s)
    BY <1>1, <1>5
  <2>4. QED
    BY <1>1, <1>2, <1>3, <2>1, <2>2, <2>3 DEF t
<1>6. QED
  BY <1>4, <1>5

\* FlattenSeq of a concatenation.
LEMMA FlattenConcat ==
    ASSUME NEW T, NEW s \in Seq(Seq(T)), NEW t \in Seq(Seq(T))
    PROVE  FlattenSeq(s \o t) = FlattenSeq(s) \o FlattenSeq(t)
<1> DEFINE P == {n \in Nat : \A u \in Seq(Seq(T)) : Len(u) = n =>
                    FlattenSeq(s \o u) = FlattenSeq(s) \o FlattenSeq(u)}
<1>1. \A x, y, z \in Seq(T) : (x \o y) \o z = x \o (y \o z)
  BY Assoc
<1>2. 0 \in P
  <2> SUFFICES ASSUME NEW u \in Seq(Seq(T)), Len(u) = 0
               PROVE  FlattenSeq(s \o u) = FlattenSeq(s) \o FlattenSeq(u)
    OBVIOUS
  <2>1. u = << >> /\ s \o u = s
    OBVIOUS
  <2>2. FlattenSeq(s) \in Seq(T)
    BY FlattenType
  <2>3. FlattenSeq(s) \o << >> = FlattenSeq(s)
    BY <2>2
  <2>4. QED
    BY <2>1, <2>3, FlattenEmpty
<1>3. ASSUME NEW n \in Nat, n \in P PROVE n + 1 \in P
  <2> SUFFICES ASSUME NEW u \in Seq(Seq(T)), Len(u) = n + 1
               PROVE  FlattenSeq(s \o u) = FlattenSeq(s) \o FlattenSeq(u)
    OBVIOUS
  <2>1. PICK v \in Seq(Seq(T)), x \in Seq(T) : u = Append(v, x)
    <3>1. u # << >>
      OBVIOUS
    <3>2. QED
      BY <3>1, SequenceEmptyOrAppend
  <2>2. Len(v) = n
    BY <2>1
  <2>3. FlattenSeq(s \o v) = FlattenSeq(s) \o FlattenSeq(v)
    BY <1>3, <2>2
  <2>4. s \o u = Append(s \o v, x) /\ s \o v \in Seq(Seq(T))
    BY <2>1
  <2>5. FlattenSeq(s \o u) = FlattenSeq(s \o v) \o x
    BY <2>4, FlattenAppend
  <2>6. FlattenSeq(u) = FlattenSeq(v) \o x
    BY <2>1, FlattenAppend
  <2>7. FlattenSeq(s) \in Seq(T) /\ FlattenSeq(v) \in Seq(T)
    BY FlattenType
  <2>8. (FlattenSeq(s) \o FlattenSeq(v)) \o x = FlattenSeq(s) \o (FlattenSeq(v) \o x)
    BY <1>1, <2>7, Zenon
  <2>9. QED
    BY <2>3, <2>5, <2>6, <2>8
<1>4. Len(t) \in P
  <2> HIDE DEF P
  <2>1. Len(t) \in Nat
    OBVIOUS
  <2>2. QED
    BY <1>2, <1>3, <2>1, Induction
<1>5. QED
  BY <1>4

\* One sequence, flattened.
LEMMA FlattenOne ==
    ASSUME NEW x
    PROVE  FlattenSeq(<< x >>) = x
<1> DEFINE s == << x >>
           F(f) == [i \in 1 .. Len(s) |-> IF i = 1 THEN s[i] ELSE f[i - 1] \o s[i]]
           g == [i \in 1 .. 1 |-> x]
           flatten == CHOOSE f : f = F(f)
<1>1. Len(s) = 1 /\ s[1] = x /\ 1 .. 1 = {1}
  OBVIOUS
<1>2. g = F(g)
  BY <1>1
<1>3. flatten = F(flatten)
  <2> HIDE DEF F, g
  <2>1. QED
    BY <1>2
<1>4. flatten[1] = x
  <2> HIDE DEF flatten
  <2>1. flatten = [i \in 1 .. 1 |-> IF i = 1 THEN s[i] ELSE flatten[i - 1] \o s[i]]
    BY <1>1, <1>3
  <2>2. QED
    BY <1>1, <2>1
<1>5. FlattenSeq(s) = flatten[1]
  BY <1>1 DEF FlattenSeq
<1>6. QED
  BY <1>4, <1>5

\* A field before one other, or two.
LEMMA FieldBefore ==
    ASSUME NEW S, NEW a \in S, NEW b \in S, NEW c \in S
    PROVE  /\ << a >> \o << b >> = << a, b >>
           /\ << a >> \o << b, c >> = << a, b, c >>
<1> DEFINE x == << a >>  y == << b >>  z == << b, c >>
           xy == << a, b >>  xz == << a, b, c >>
<1>1. /\ x \in Seq(S) /\ Len(x) = 1 /\ x[1] = a
      /\ y \in Seq(S) /\ Len(y) = 1 /\ y[1] = b
      /\ z \in Seq(S) /\ Len(z) = 2 /\ z[1] = b /\ z[2] = c
      /\ xy \in Seq(S) /\ Len(xy) = 2 /\ xy[1] = a /\ xy[2] = b
      /\ xz \in Seq(S) /\ Len(xz) = 3 /\ xz[1] = a /\ xz[2] = b /\ xz[3] = c
  OBVIOUS
<1> HIDE DEF x, y, z, xy, xz
<1>2. x \o y = xy
  <2>1. /\ x \o y \in Seq(S) /\ Len(x \o y) = 2
        /\ \A i \in 1 .. 2 : (x \o y)[i] = IF i <= 1 THEN x[i] ELSE y[i - 1]
    BY <1>1, ConcatProperties
  <2>2. \A i \in 1 .. 2 : (x \o y)[i] = xy[i]
    BY <1>1, <2>1
  <2>3. QED
    BY <1>1, <2>1, <2>2, SeqEqual
<1>3. x \o z = xz
  <2>1. /\ x \o z \in Seq(S) /\ Len(x \o z) = 3
        /\ \A i \in 1 .. 3 : (x \o z)[i] = IF i <= 1 THEN x[i] ELSE z[i - 1]
    BY <1>1, ConcatProperties
  <2>2. \A i \in 1 .. 3 : (x \o z)[i] = xz[i]
    BY <1>1, <2>1
  <2>3. QED
    BY <1>1, <2>1, <2>2, SeqEqual
<1>4. QED
  BY <1>2, <1>3 DEF x, y, z, xy, xz

-----------------------------------------------------------------------------
(* LEB128: what is written (encode_uleb128) *)

\* The quotient and the remainder of a digit.
LEMMA LebDivision ==
    ASSUME NEW n \in Nat
    PROVE  /\ n \div LebBase \in Nat /\ n % LebBase \in 0 .. LebBase - 1
           /\ n = LebBase * (n \div LebBase) + (n % LebBase)
           /\ n >= LebBase => n \div LebBase < n
           /\ (LebBase + (n % LebBase)) % LebBase = n % LebBase
<1>1. LebBase \in Nat /\ LebBase >= 2
  BY WireAssumption
<1> DEFINE q == n \div LebBase  r == n % LebBase
<1>2. q \in Int /\ r \in 0 .. LebBase - 1 /\ n = LebBase * q + r
  BY <1>1
<1> HIDE DEF q, r
<1>3. q \in Nat
  BY <1>1, <1>2
<1>4. n >= LebBase => q < n
  BY <1>1, <1>2, <1>3
<1>5. (LebBase + r) % LebBase = r
  BY <1>1, <1>2
<1>6. n >= LebBase => n \div LebBase < n
  BY <1>4 DEF q
<1>7. (LebBase + (n % LebBase)) % LebBase = n % LebBase
  BY <1>5, Zenon DEF r
<1>8. n \div LebBase \in Nat /\ n % LebBase \in 0 .. LebBase - 1
  BY <1>2, <1>3, Zenon DEF q, r
<1>9. n = LebBase * (n \div LebBase) + (n % LebBase)
  BY <1>2, Zenon DEF q, r
<1>10. QED
  BY <1>6, <1>7, <1>8, <1>9, Zenon

\* The digits of the numbers up to n.
LebDigit(k, d) ==
    IF k < LebBase THEN << Field("leb", k) >>
    ELSE << Field("leb", LebBase + (k % LebBase)) >> \o d[k \div LebBase]

LebTo(n, d) == d = [k \in 0 .. n |-> LebDigit(k, d)]

\* The digits of all numbers up to n.
LEMMA LebDigitsExist ==
    ASSUME NEW n \in Nat
    PROVE  \E d : LebTo(n, d)
<1> DEFINE P == {k \in Nat : \E d : LebTo(k, d)}
<1>1. LebBase \in Nat /\ LebBase >= 2
  BY WireAssumption
<1>2. 0 \in P
  <2> DEFINE d == [k \in 0 .. 0 |-> << Field("leb", k) >>]
  <2>1. \A k \in 0 .. 0 : LebDigit(k, d) = << Field("leb", k) >>
    BY <1>1 DEF LebDigit
  <2>2. d = [k \in 0 .. 0 |-> LebDigit(k, d)]
    BY <2>1
  <2> HIDE DEF d
  <2>3. LebTo(0, d)
    BY <2>2 DEF LebTo
  <2>4. QED
    BY <2>3
<1>3. ASSUME NEW k \in Nat, k \in P PROVE k + 1 \in P
  <2>1. PICK d : LebTo(k, d)
    BY <1>3
  <2> DEFINE e == [j \in 0 .. k + 1 |-> IF j <= k THEN d[j] ELSE LebDigit(j, d)]
  <2>2. \A j \in 0 .. k : d[j] = LebDigit(j, d)
    BY <2>1, Zenon DEF LebTo
  <2>3. \A j \in 0 .. k + 1 : e[j] = LebDigit(j, d)
    BY <2>2
  <2>4. \A j \in 0 .. k : e[j] = d[j]
    OBVIOUS
  <2>5. \A j \in 0 .. k + 1 : j >= LebBase => j \div LebBase \in 0 .. k
    <3> TAKE j \in 0 .. k + 1
    <3>1. j \in Nat
      OBVIOUS
    <3>2. j \div LebBase \in Nat /\ (j >= LebBase => j \div LebBase < j)
      BY <3>1, LebDivision
    <3> HIDE DEF e, P
    <3>3. QED
      BY <3>2
  <2>6. DOMAIN e = 0 .. k + 1
    OBVIOUS
  <2>7. e = [j \in 0 .. k + 1 |-> e[j]]
    OBVIOUS
  <2> HIDE DEF e
  <2>8. \A j \in 0 .. k + 1 : LebDigit(j, d) = LebDigit(j, e)
    <3> TAKE j \in 0 .. k + 1
    <3>1. CASE j < LebBase
      BY <3>1 DEF LebDigit
    <3>2. CASE ~(j < LebBase)
      <4>1. j \div LebBase \in 0 .. k
        BY <2>5, <3>2, <1>1
      <4>2. e[j \div LebBase] = d[j \div LebBase]
        BY <2>4, <4>1
      <4>3. QED
        BY <3>2, <4>2 DEF LebDigit
    <3>3. QED
      BY <3>1, <3>2
  <2>9. \A j \in 0 .. k + 1 : e[j] = LebDigit(j, e)
    BY <2>3, <2>8
  <2>10. LebTo(k + 1, e)
    BY <2>7, <2>9 DEF LebTo
  <2>11. QED
    BY <2>10
<1>4. n \in P
  <2> HIDE DEF P
  <2>1. QED
    BY <1>2, <1>3, Induction
<1>5. QED
  BY <1>4

\* They do not depend on n.
LEMMA LebDigitsAgree ==
    ASSUME NEW n \in Nat, NEW m \in Nat, NEW d, NEW e, LebTo(n, d), LebTo(m, e)
    PROVE  \A k \in Nat : k <= n /\ k <= m => d[k] = e[k]
<1> DEFINE P == {k \in Nat : k <= n /\ k <= m => d[k] = e[k]}
<1>1. LebBase \in Nat /\ LebBase >= 2
  BY WireAssumption
<1>2. ASSUME NEW k \in Nat, \A j \in Nat : j < k => j \in P PROVE k \in P
  <2> SUFFICES ASSUME k <= n, k <= m PROVE d[k] = e[k]
    OBVIOUS
  <2>1. k \in 0 .. n /\ k \in 0 .. m
    OBVIOUS
  <2>2. d[k] = LebDigit(k, d) /\ e[k] = LebDigit(k, e)
    BY <2>1, Zenon DEF LebTo
  <2>3. CASE k < LebBase
    BY <2>2, <2>3 DEF LebDigit
  <2>4. CASE ~(k < LebBase)
    <3>1. k >= LebBase
      BY <1>1, <2>4
    <3>2. k \div LebBase \in Nat /\ k \div LebBase < k
      BY <3>1, LebDivision
    <3>3. k \div LebBase \in P
      BY <1>2, <3>2
    <3>4. d[k \div LebBase] = e[k \div LebBase]
      BY <3>2, <3>3
    <3>5. QED
      BY <2>2, <2>4, <3>4 DEF LebDigit
  <2>5. QED
    BY <2>3, <2>4
<1>3. \A k \in Nat : k \in P
  <2> HIDE DEF P
  <2>1. QED
    BY <1>2, CourseOfValues
<1>4. QED
  BY <1>3

\* encode_uleb128, one digit at a time.
LEMMA EncodeLebIs ==
    ASSUME NEW n \in Nat
    PROVE  \E d : LebTo(n, d) /\ EncodeLeb(n) = d[n]
<1> DEFINE F(d) == [k \in 0 .. n |->
                       IF k < LebBase THEN << Field("leb", k) >>
                       ELSE << Field("leb", LebBase + (k % LebBase)) >> \o d[k \div LebBase]]
           digits == CHOOSE d : d = F(d)
<1>1. PICK d : LebTo(n, d)
  BY LebDigitsExist
<1>2. d = F(d)
  BY <1>1 DEF LebTo, LebDigit
<1>3. digits = F(digits)
  <2> HIDE DEF F
  <2>1. QED
    BY <1>2
<1>4. LebTo(n, digits)
  <2> HIDE DEF digits
  <2>1. QED
    BY <1>3 DEF LebTo, LebDigit
<1>5. EncodeLeb(n) = digits[n]
  BY DEF EncodeLeb
<1> HIDE DEF digits
<1>6. QED
  BY <1>4, <1>5

\* One digit after the other: the recursion that encode_uleb128 is.
LEMMA EncodeLebStep ==
    ASSUME NEW n \in Nat
    PROVE  EncodeLeb(n) =
              IF n < LebBase THEN << Field("leb", n) >>
              ELSE << Field("leb", LebBase + (n % LebBase)) >> \o EncodeLeb(n \div LebBase)
<1>1. LebBase \in Nat /\ LebBase >= 2
  BY WireAssumption
<1>2. PICK d : LebTo(n, d) /\ EncodeLeb(n) = d[n]
  BY EncodeLebIs
<1>3. d[n] = LebDigit(n, d)
  <2>1. n \in 0 .. n
    OBVIOUS
  <2>2. QED
    BY <1>2, <2>1, Zenon DEF LebTo
<1>4. CASE n < LebBase
  BY <1>2, <1>3, <1>4 DEF LebDigit
<1>5. CASE ~(n < LebBase)
  <2> DEFINE q == n \div LebBase
  <2>1. q \in Nat /\ q <= n
    BY <1>1, <1>5, LebDivision
  <2> HIDE DEF q
  <2>2. PICK e : LebTo(q, e) /\ EncodeLeb(q) = e[q]
    BY <2>1, EncodeLebIs
  <2>3. d[q] = e[q]
    BY <1>2, <2>1, <2>2, LebDigitsAgree
  <2>4. QED
    BY <1>2, <1>3, <1>5, <2>2, <2>3 DEF LebDigit, q
<1>6. QED
  BY <1>4, <1>5

-----------------------------------------------------------------------------
(* LEB128: what is read (read_uleb128) *)

\* A field before others.
LEMMA FirstField ==
    ASSUME NEW T, NEW f \in T, NEW s \in Seq(T)
    PROVE  /\ << f >> \o s \in Seq(T) /\ << f >> \o s # << >>
           /\ Len(<< f >> \o s) = Len(s) + 1 /\ Len(s) \in Nat
           /\ (<< f >> \o s)[1] = f /\ \A i \in 1 .. Len(s) : (<< f >> \o s)[i + 1] = s[i]
           /\ Head(<< f >> \o s) = f /\ Tail(<< f >> \o s) = s
<1> DEFINE h == << f >>  w == h \o s
<1>1. h \in Seq(T) /\ Len(h) = 1 /\ h[1] = f
  OBVIOUS
<1> HIDE DEF h
<1>2. /\ w \in Seq(T) /\ Len(w) = 1 + Len(s) /\ Len(s) \in Nat
      /\ \A i \in 1 .. 1 + Len(s) : w[i] = IF i <= 1 THEN h[i] ELSE s[i - 1]
  <2>1. Len(s) \in Nat
    BY LenProperties
  <2>2. /\ h \o s \in Seq(T) /\ Len(h \o s) = Len(h) + Len(s)
        /\ \A i \in 1 .. Len(h) + Len(s) :
              (h \o s)[i] = IF i <= Len(h) THEN h[i] ELSE s[i - Len(h)]
    BY <1>1, ConcatProperties
  <2>3. QED
    BY <1>1, <2>1, <2>2
<1> HIDE DEF w
<1>3. w[1] = f
  BY <1>1, <1>2
<1>4. \A i \in 1 .. Len(s) : w[i + 1] = s[i]
  <2> TAKE i \in 1 .. Len(s)
  <2>1. i + 1 \in 1 .. 1 + Len(s) /\ ~(i + 1 <= 1) /\ (i + 1) - 1 = i
    BY <1>2
  <2>2. QED
    BY <1>2, <2>1
<1>5. w # << >>
  BY <1>2
<1>6. Head(w) = f
  BY <1>2, <1>3, <1>5
<1>7. Tail(w) = s
  <2>1. /\ Tail(w) \in Seq(T) /\ Len(Tail(w)) = Len(w) - 1
        /\ \A i \in 1 .. Len(Tail(w)) : Tail(w)[i] = w[i + 1]
    BY <1>2, <1>5, HeadTailProperties
  <2>2. Len(Tail(w)) = Len(s)
    BY <1>2, <2>1
  <2>3. \A i \in 1 .. Len(Tail(w)) : Tail(w)[i] = s[i]
    BY <1>4, <2>1, <2>2
  <2>4. QED
    BY <2>1, <2>2, <2>3, SeqEqual
<1>8. QED
  BY <1>2, <1>3, <1>4, <1>5, <1>6, <1>7 DEF w, h

\* A field is read as the kind it was written as, and as no other.
LEMMA FieldIsRead ==
    ASSUME NEW T, NEW f \in T, NEW s \in Seq(T), NEW k
    PROVE  ReadField(k, << f >> \o s) = IF k = f.kind THEN {Read(f.v, s)} ELSE {}
<1> DEFINE w == << f >> \o s
<1>1. Len(w) = Len(s) + 1 /\ Len(s) \in Nat /\ w[1] = f /\ Tail(w) = s
  BY FirstField
<1> HIDE DEF w
<1>2. Starts(w, << k >>) <=> k = f.kind
  BY <1>1 DEF Starts
<1>3. ReadField(k, w) = IF k = f.kind THEN {Read(f.v, s)} ELSE {}
  BY <1>1, <1>2 DEF ReadField
<1>4. QED
  BY <1>3 DEF w

LebFrom(s, n, f) ==
    f = [k \in 1 .. n |-> IF k = n THEN s[k].v
                          ELSE (s[k].v % LebBase) + LebBase * f[k + 1]]

\* There are such values.
LEMMA LebFromExists ==
    ASSUME NEW s, NEW n \in Nat, n >= 1
    PROVE  \E f : LebFrom(s, n, f)
<1> DEFINE D(k, f) == IF k = n THEN s[k].v ELSE (s[k].v % LebBase) + LebBase * f[k + 1]
           G(j, f) == f = [k \in n - j .. n |-> D(k, f)]
           P == {j \in Nat : j < n => \E f : G(j, f)}
<1>1. 0 \in P
  <2> DEFINE f == [k \in n - 0 .. n |-> s[k].v]
  <2>1. \A k \in n - 0 .. n : k = n
    OBVIOUS
  <2>2. f = [k \in n - 0 .. n |-> D(k, f)]
    BY <2>1
  <2> HIDE DEF f
  <2>3. QED
    BY <2>2
<1>2. ASSUME NEW j \in Nat, j \in P PROVE j + 1 \in P
  <2> SUFFICES ASSUME j + 1 < n PROVE \E f : G(j + 1, f)
    OBVIOUS
  <2>1. PICK f : G(j, f)
    BY <1>2
  <2> DEFINE g == [k \in n - (j + 1) .. n |-> IF k = n - (j + 1) THEN D(k, f) ELSE f[k]]
  <2>2. \A k \in n - j .. n : f[k] = D(k, f)
    <3> HIDE DEF D
    <3>1. QED
      BY <2>1
  <2>3. \A k \in n - (j + 1) .. n : g[k] = D(k, f)
    <3> TAKE k \in n - (j + 1) .. n
    <3>1. k = n - (j + 1) \/ k \in n - j .. n
      OBVIOUS
    <3> HIDE DEF D, P
    <3>2. QED
      BY <2>2, <3>1
  <2>4. \A k \in n - (j + 1) .. n : D(k, f) = D(k, g)
    <3> TAKE k \in n - (j + 1) .. n
    <3>1. CASE k = n
      BY <3>1
    <3>2. CASE k # n
      <4>1. k + 1 \in n - (j + 1) .. n /\ k + 1 # n - (j + 1)
        BY <3>2
      <4>2. g[k + 1] = f[k + 1]
        BY <4>1
      <4> HIDE DEF g, P, G
      <4>3. QED
        BY <3>2, <4>2
    <3>3. QED
      BY <3>1, <3>2
  <2>5. g = [k \in n - (j + 1) .. n |-> g[k]]
    OBVIOUS
  <2> HIDE DEF g, D
  <2>6. g = [k \in n - (j + 1) .. n |-> D(k, g)]
    BY <2>3, <2>4, <2>5
  <2>7. QED
    BY <2>6
<1>3. n - 1 \in P
  <2> HIDE DEF P
  <2>1. n - 1 \in Nat
    OBVIOUS
  <2>2. QED
    BY <1>1, <1>2, <2>1, Induction
<1>4. PICK f : G(n - 1, f)
  BY <1>3
<1>5. n - (n - 1) = 1
  OBVIOUS
<1>6. LebFrom(s, n, f)
  BY <1>4, <1>5 DEF LebFrom
<1>7. QED
  BY <1>6

\* LebValue is the first of them.
LEMMA LebValueIs ==
    ASSUME NEW s, NEW n \in Nat, n >= 1
    PROVE  \E f : LebFrom(s, n, f) /\ LebValue(s, n) = f[1]
<1> DEFINE F(f) == [k \in 1 .. n |-> IF k = n THEN s[k].v
                          ELSE (s[k].v % LebBase) + LebBase * f[k + 1]]
           from == CHOOSE f : f = F(f)
<1>1. PICK f : LebFrom(s, n, f)
  BY LebFromExists
<1>2. f = F(f)
  BY <1>1 DEF LebFrom
<1>3. from = F(from)
  <2> HIDE DEF F
  <2>1. QED
    BY <1>2
<1>4. LebFrom(s, n, from)
  <2> HIDE DEF from
  <2>1. QED
    BY <1>3 DEF LebFrom
<1>5. LebValue(s, n) = from[1]
  BY DEF LebValue
<1> HIDE DEF from
<1>6. QED
  BY <1>4, <1>5

\* The digits of t are those of s after the first.
LEMMA LebValueShift ==
    ASSUME NEW s, NEW t, NEW n \in Nat, n >= 1, \A k \in 1 .. n : s[k + 1] = t[k]
    PROVE  LebValue(s, n + 1) = (s[1].v % LebBase) + LebBase * LebValue(t, n)
<1>1. PICK f : LebFrom(t, n, f) /\ LebValue(t, n) = f[1]
  BY LebValueIs
<1>2. PICK g : LebFrom(s, n + 1, g) /\ LebValue(s, n + 1) = g[1]
  <2>1. n + 1 \in Nat /\ n + 1 >= 1
    OBVIOUS
  <2>2. QED
    BY <2>1, LebValueIs
<1> DEFINE P == {j \in Nat : j < n => g[(n - j) + 1] = f[n - j]}
<1>3. \A k \in 1 .. n :
         /\ f[k] = IF k = n THEN t[k].v ELSE (t[k].v % LebBase) + LebBase * f[k + 1]
         /\ g[k + 1] = IF k + 1 = n + 1 THEN s[k + 1].v
                       ELSE (s[k + 1].v % LebBase) + LebBase * g[(k + 1) + 1]
  <2> TAKE k \in 1 .. n
  <2>1. k + 1 \in 1 .. n + 1
    OBVIOUS
  <2>2. f[k] = IF k = n THEN t[k].v ELSE (t[k].v % LebBase) + LebBase * f[k + 1]
    BY <1>1, Zenon DEF LebFrom
  <2>3. g[k + 1] = IF k + 1 = n + 1 THEN s[k + 1].v
                       ELSE (s[k + 1].v % LebBase) + LebBase * g[(k + 1) + 1]
    BY <1>2, <2>1, Zenon DEF LebFrom
  <2>4. QED
    BY <2>2, <2>3, Zenon
<1>4. 0 \in P
  <2> SUFFICES ASSUME 0 < n PROVE g[(n - 0) + 1] = f[n - 0]
    OBVIOUS
  <2>1. n - 0 = n /\ n \in 1 .. n
    OBVIOUS
  <2>2. f[n] = t[n].v /\ g[n + 1] = s[n + 1].v
    BY <1>3, <2>1
  <2>3. QED
    BY <2>1, <2>2
<1>5. ASSUME NEW j \in Nat, j \in P PROVE j + 1 \in P
  <2> SUFFICES ASSUME j + 1 < n PROVE g[(n - (j + 1)) + 1] = f[n - (j + 1)]
    OBVIOUS
  <2> DEFINE k == n - (j + 1)
  <2>1. /\ k \in 1 .. n /\ k # n /\ k + 1 = n - j /\ k + 1 # n + 1
        /\ (k + 1) + 1 = (n - j) + 1
    OBVIOUS
  <2>2. g[(k + 1) + 1] = f[k + 1]
    BY <1>5, <2>1
  <2> HIDE DEF k
  <2>3. /\ f[k] = (t[k].v % LebBase) + LebBase * f[k + 1]
        /\ g[k + 1] = (s[k + 1].v % LebBase) + LebBase * g[(k + 1) + 1]
    BY <1>3, <2>1
  <2>4. s[k + 1] = t[k]
    BY <2>1
  <2>5. g[k + 1] = f[k]
    BY <2>2, <2>3, <2>4, Zenon
  <2>6. QED
    BY <2>5 DEF k
<1>6. \A j \in Nat : j \in P
  <2> HIDE DEF P
  <2>1. QED
    BY <1>4, <1>5, Induction
<1>7. ASSUME NEW k \in 1 .. n PROVE g[k + 1] = f[k]
  <2>1. n - k \in Nat /\ n - k < n /\ n - (n - k) = k
    OBVIOUS
  <2>2. n - k \in P
    <3> HIDE DEF P
    <3>1. QED
      BY <1>6, <2>1
  <2>3. QED
    BY <2>1, <2>2
<1>8. 1 \in 1 .. n + 1 /\ 1 \in 1 .. n /\ 1 # n + 1
  OBVIOUS
<1>9. g[1] = IF 1 = n + 1 THEN s[1].v ELSE (s[1].v % LebBase) + LebBase * g[1 + 1]
  BY <1>2, <1>8, Zenon DEF LebFrom
<1>10. g[1 + 1] = f[1]
  BY <1>7, <1>8
<1>11. g[1] = (s[1].v % LebBase) + LebBase * f[1]
  BY <1>8, <1>9, <1>10
<1>12. QED
  BY <1>1, <1>2, <1>11

\* The places where the number that starts a stream may end.
LastDigits(s) ==
    {k \in DOMAIN s : /\ s[k].kind = "leb" /\ s[k].v < LebBase
                      /\ \A j \in 1 .. k - 1 : s[j].kind = "leb" /\ s[j].v >= LebBase}

\* What is read is the number up to the last digit.
LEMMA ReadLebIs ==
    ASSUME NEW s
    PROVE  ReadLeb(s) = {Read(LebValue(s, n), Beyond(n, s)) : n \in LastDigits(s)}
BY Zenon DEF ReadLeb, LastDigits

\* A digit without the high bit is the whole number.
LEMMA ReadLebLast ==
    ASSUME NEW T, NEW v \in Nat, v < LebBase, Field("leb", v) \in T, NEW s \in Seq(T)
    PROVE  ReadLeb(<< Field("leb", v) >> \o s) = {Read(v, s)}
<1> DEFINE f == Field("leb", v)  w == << f >> \o s
<1>1. LebBase \in Nat
  BY WireAssumption
<1>2. /\ w \in Seq(T) /\ w # << >> /\ Len(w) = Len(s) + 1 /\ Len(s) \in Nat
      /\ w[1] = f /\ Tail(w) = s
  BY FirstField
<1>3. f.kind = "leb" /\ f.v = v
  BY DEF Field
<1> HIDE DEF f, w
<1>4. DOMAIN w = 1 .. Len(s) + 1
  BY <1>2, LenProperties
<1>5. LastDigits(w) = {1}
  <2>1. 1 \in LastDigits(w)
    BY <1>2, <1>3, <1>4 DEF LastDigits
  <2>2. ASSUME NEW k \in LastDigits(w), k # 1 PROVE FALSE
    <3>1. k \in 1 .. Len(s) + 1 /\ \A j \in 1 .. k - 1 : w[j].v >= LebBase
      BY <1>4, <2>2 DEF LastDigits
    <3>2. 1 \in 1 .. k - 1
      BY <1>2, <2>2, <3>1
    <3>3. v >= LebBase
      BY <1>2, <1>3, <3>1, <3>2
    <3>4. QED
      BY <1>1, <3>3
  <2>3. QED
    BY <2>1, <2>2
<1>6. LebValue(w, 1) = v
  <2>1. PICK g : LebFrom(w, 1, g) /\ LebValue(w, 1) = g[1]
    BY LebValueIs
  <2>2. 1 \in 1 .. 1
    OBVIOUS
  <2>3. g[1] = w[1].v
    BY <2>1, <2>2 DEF LebFrom
  <2>4. QED
    BY <1>2, <1>3, <2>1, <2>3
<1>7. Beyond(1, w) = s
  <2>1. Tail(w) = SubSeq(w, 2, Len(w))
    BY <1>2, TailIsSubSeq
  <2>2. QED
    BY <1>2, <2>1 DEF Beyond
<1>8. ReadLeb(w) = {Read(v, s)}
  BY <1>5, <1>6, <1>7, ReadLebIs
<1>9. QED
  BY <1>8 DEF w, f

\* A digit with the high bit is followed by others.
LEMMA ReadLebMore ==
    ASSUME NEW T, NEW v \in Nat, v >= LebBase, Field("leb", v) \in T, NEW t \in Seq(T)
    PROVE  ReadLeb(<< Field("leb", v) >> \o t) =
              {Read((v % LebBase) + LebBase * x.val, x.rest) : x \in ReadLeb(t)}
<1> DEFINE f == Field("leb", v)  h == << f >>  w == h \o t
<1>1. LebBase \in Nat
  BY WireAssumption
<1>2. /\ w \in Seq(T) /\ w # << >> /\ Len(w) = Len(t) + 1 /\ Len(t) \in Nat
      /\ w[1] = f /\ \A i \in 1 .. Len(t) : w[i + 1] = t[i]
  BY FirstField
<1>3. f.kind = "leb" /\ f.v = v
  BY DEF Field
<1>4. h \in Seq(T) /\ Len(h) = 1
  OBVIOUS
<1>5. \A n \in 1 .. Len(t) : Beyond(n + 1, w) = Beyond(n, t)
  <2> TAKE n \in 1 .. Len(t)
  <2> HIDE DEF f, h
  <2>1. Len(t) \in Nat /\ Len(h \o t) = Len(t) + 1
    BY <1>2
  <2>2. CASE n = Len(t)
    <3>1. SubSeq(h \o t, (n + 1) + 1, Len(t) + 1) = << >>
      BY <2>1, <2>2, SubSeqEmpty
    <3>2. SubSeq(t, n + 1, Len(t)) = << >>
      BY <2>1, <2>2, SubSeqEmpty
    <3>3. QED
      BY <2>1, <3>1, <3>2 DEF Beyond
  <2>3. CASE n # Len(t)
    <3>1. /\ (n + 1) + 1 \in Len(h) + 1 .. Len(h) + Len(t)
          /\ Len(t) + 1 \in Len(h) + 1 .. Len(h) + Len(t)
          /\ ((n + 1) + 1) - Len(h) = n + 1 /\ (Len(t) + 1) - Len(h) = Len(t)
      BY <1>4, <2>1, <2>3
    <3> DEFINE a == (n + 1) + 1  b == Len(t) + 1
    <3> HIDE DEF a, b
    <3>2. SubSeq(h \o t, a, b) = SubSeq(t, a - Len(h), b - Len(h))
      <4>1. a \in Len(h) + 1 .. Len(h) + Len(t) /\ b \in Len(h) + 1 .. Len(h) + Len(t)
        BY <3>1 DEF a, b
      <4>2. QED
        BY <1>4, <4>1, SubSeqOfConcat2
    <3>3. a - Len(h) = n + 1 /\ b - Len(h) = Len(t)
      BY <3>1 DEF a, b
    <3>4. SubSeq(h \o t, (n + 1) + 1, Len(t) + 1) = SubSeq(t, n + 1, Len(t))
      BY <3>2, <3>3 DEF a, b
    <3>5. QED
      BY <2>1, <3>4 DEF Beyond
  <2>4. QED
    BY <2>2, <2>3
<1> HIDE DEF f, h, w
<1>6. DOMAIN w = 1 .. Len(t) + 1 /\ DOMAIN t = 1 .. Len(t)
  BY <1>2, LenProperties
<1>7. \A n \in 1 .. Len(t) : n + 1 \in LastDigits(w) <=> n \in LastDigits(t)
  <2> TAKE n \in 1 .. Len(t)
  <2>1. n + 1 \in 1 .. Len(t) + 1 /\ w[n + 1] = t[n] /\ n \in Nat
    BY <1>2
  <2>2. ASSUME NEW j \in 1 .. (n + 1) - 1
        PROVE  w[j].kind = "leb" /\ w[j].v >= LebBase
                 <=> j = 1 \/ (t[j - 1].kind = "leb" /\ t[j - 1].v >= LebBase)
    <3>1. CASE j = 1
      BY <1>2, <1>3, <3>1
    <3>2. CASE j # 1
      <4>1. j - 1 \in 1 .. Len(t) /\ (j - 1) + 1 = j
        BY <1>2, <2>1, <3>2
      <4>2. w[j] = t[j - 1]
        BY <1>2, <4>1
      <4>3. QED
        BY <3>2, <4>2
    <3>3. QED
      BY <3>1, <3>2
  <2>3. (\A j \in 1 .. (n + 1) - 1 : w[j].kind = "leb" /\ w[j].v >= LebBase)
           <=> \A j \in 1 .. n - 1 : t[j].kind = "leb" /\ t[j].v >= LebBase
    <3>1. ASSUME \A j \in 1 .. (n + 1) - 1 : w[j].kind = "leb" /\ w[j].v >= LebBase,
                 NEW j \in 1 .. n - 1
          PROVE  t[j].kind = "leb" /\ t[j].v >= LebBase
      <4>1. j + 1 \in 1 .. (n + 1) - 1 /\ j \in 1 .. Len(t)
        BY <2>1
      <4>2. w[j + 1] = t[j]
        BY <1>2, <4>1
      <4>3. QED
        BY <3>1, <4>1, <4>2
    <3>2. ASSUME \A j \in 1 .. n - 1 : t[j].kind = "leb" /\ t[j].v >= LebBase,
                 NEW j \in 1 .. (n + 1) - 1
          PROVE  w[j].kind = "leb" /\ w[j].v >= LebBase
      <4>1. j = 1 \/ j - 1 \in 1 .. n - 1
        BY <2>1
      <4>2. QED
        BY <2>2, <3>2, <4>1
    <3>3. QED
      BY <3>1, <3>2
  <2>4. QED
    BY <1>6, <2>1, <2>3 DEF LastDigits
<1>8. 1 \notin LastDigits(w)
  BY <1>1, <1>2, <1>3 DEF LastDigits
<1>9. LastDigits(w) = {n + 1 : n \in LastDigits(t)}
  <2>1. ASSUME NEW k \in LastDigits(w) PROVE k \in {n + 1 : n \in LastDigits(t)}
    <3>1. k \in 1 .. Len(t) + 1 /\ k # 1
      BY <1>6, <1>8, <2>1 DEF LastDigits
    <3>2. k - 1 \in 1 .. Len(t) /\ (k - 1) + 1 = k
      BY <1>2, <3>1
    <3>3. k - 1 \in LastDigits(t)
      BY <1>7, <2>1, <3>2
    <3>4. QED
      BY <3>2, <3>3
  <2>2. ASSUME NEW n \in LastDigits(t) PROVE n + 1 \in LastDigits(w)
    <3>1. n \in 1 .. Len(t)
      BY <1>6 DEF LastDigits
    <3>2. QED
      BY <1>7, <3>1
  <2>3. QED
    BY <2>1, <2>2
<1>10. \A n \in 1 .. Len(t) :
         LebValue(w, n + 1) = (v % LebBase) + LebBase * LebValue(t, n)
  <2> TAKE n \in 1 .. Len(t)
  <2>1. n \in Nat /\ n >= 1 /\ \A k \in 1 .. n : w[k + 1] = t[k]
    BY <1>2
  <2>2. LebValue(w, n + 1) = (w[1].v % LebBase) + LebBase * LebValue(t, n)
    BY <2>1, LebValueShift
  <2>3. QED
    BY <1>2, <1>3, <2>2
<1>11. \A n \in LastDigits(t) :
         Read(LebValue(w, n + 1), Beyond(n + 1, w)) =
         Read((v % LebBase) + LebBase * LebValue(t, n), Beyond(n, t))
  <2> TAKE n \in LastDigits(t)
  <2>1. n \in 1 .. Len(t)
    BY <1>6 DEF LastDigits
  <2>2. QED
    BY <2>1, <1>10, <1>5 DEF w, h
<1>12. ReadLeb(w) = {Read((v % LebBase) + LebBase * LebValue(t, n), Beyond(n, t)) :
                       n \in LastDigits(t)}
  <2>1. ReadLeb(w) = {Read(LebValue(w, k), Beyond(k, w)) : k \in LastDigits(w)}
    BY ReadLebIs
  <2>2. ReadLeb(w) = {Read(LebValue(w, n + 1), Beyond(n + 1, w)) : n \in LastDigits(t)}
    BY <1>9, <2>1
  <2>3. QED
    BY <1>11, <2>2
<1>13. ReadLeb(t) = {Read(LebValue(t, n), Beyond(n, t)) : n \in LastDigits(t)}
  BY ReadLebIs
<1>14. \A n \in LastDigits(t) :
          /\ Read(LebValue(t, n), Beyond(n, t)).val = LebValue(t, n)
          /\ Read(LebValue(t, n), Beyond(n, t)).rest = Beyond(n, t)
  BY DEF Read
<1>15. ReadLeb(w) = {Read((v % LebBase) + LebBase * x.val, x.rest) : x \in ReadLeb(t)}
  BY <1>12, <1>13, <1>14
<1>16. QED
  BY <1>15 DEF w, h, f

\* read_uleb128 reads what encode_uleb128 wrote, whatever follows it.
THEOREM LebIsRead ==
    ASSUME NEW T, \A v \in Nat : Field("leb", v) \in T, NEW n \in Nat
    PROVE  /\ EncodeLeb(n) \in Seq(T) /\ EncodeLeb(n) # << >>
           /\ \A s \in Seq(T) : ReadLeb(EncodeLeb(n) \o s) = {Read(n, s)}
<1> DEFINE Good(m) == /\ EncodeLeb(m) \in Seq(T) /\ EncodeLeb(m) # << >>
                      /\ \A s \in Seq(T) : ReadLeb(EncodeLeb(m) \o s) = {Read(m, s)}
           P == {m \in Nat : Good(m)}
<1>0. LebBase \in Nat /\ LebBase >= 2
  BY WireAssumption
<1>1. ASSUME NEW m \in Nat, \A k \in Nat : k < m => k \in P PROVE Good(m)
  <2>1. CASE m < LebBase
    <3>1. EncodeLeb(m) = << Field("leb", m) >>
      BY <2>1, EncodeLebStep
    <3>2. Field("leb", m) \in T
      OBVIOUS
    <3>3. << Field("leb", m) >> \in Seq(T) /\ << Field("leb", m) >> # << >>
      BY <3>2
    <3>4. \A s \in Seq(T) : ReadLeb(<< Field("leb", m) >> \o s) = {Read(m, s)}
      BY <2>1, <3>2, ReadLebLast
    <3> HIDE DEF P
    <3>5. QED
      BY <3>1, <3>3, <3>4
  <2>2. CASE ~(m < LebBase)
    <3> DEFINE q == m \div LebBase  v == LebBase + (m % LebBase)
               f == Field("leb", v)
    <3>1. EncodeLeb(m) = << f >> \o EncodeLeb(q)
      BY <2>2, EncodeLebStep
    <3>2. /\ q \in Nat /\ q < m /\ v \in Nat /\ v >= LebBase
          /\ v % LebBase = m % LebBase /\ m = LebBase * q + (m % LebBase)
      <4>1. /\ m \div LebBase \in Nat /\ m % LebBase \in 0 .. LebBase - 1
            /\ m = LebBase * (m \div LebBase) + (m % LebBase)
            /\ m >= LebBase => m \div LebBase < m
            /\ (LebBase + (m % LebBase)) % LebBase = m % LebBase
        BY LebDivision
      <4>2. m >= LebBase
        BY <1>0, <2>2
      <4>3. LebBase + (m % LebBase) \in Nat /\ LebBase + (m % LebBase) >= LebBase
        BY <1>0, <4>1
      <4>4. QED
        BY <4>1, <4>2, <4>3, Zenon
    <3>3. f \in T
      BY <3>2
    <3>4. Good(q)
      BY <1>1, <3>2
    <3> HIDE DEF q, v, P
    <3>5. EncodeLeb(m) \in Seq(T) /\ EncodeLeb(m) # << >>
      <4> HIDE DEF f
      <4>1. QED
        BY <3>1, <3>3, <3>4, FirstField
    <3>6. ASSUME NEW s \in Seq(T) PROVE ReadLeb(EncodeLeb(m) \o s) = {Read(m, s)}
      <4> DEFINE t == EncodeLeb(q) \o s
      <4>1. t \in Seq(T)
        BY <3>4, ConcatProperties
      <4>2. EncodeLeb(m) \o s = << f >> \o t
        <5>1. << f >> \in Seq(T) /\ EncodeLeb(q) \in Seq(T)
          BY <3>3, <3>4
        <5>2. (<< f >> \o EncodeLeb(q)) \o s = << f >> \o (EncodeLeb(q) \o s)
          BY <5>1, ConcatAssociative
        <5>3. QED
          BY <3>1, <5>2
      <4>3. ReadLeb(t) = {Read(q, s)}
        BY <3>4
      <4> HIDE DEF t
      <4>4. ReadLeb(<< Field("leb", v) >> \o t) =
               {Read((v % LebBase) + LebBase * x.val, x.rest) : x \in ReadLeb(t)}
        BY <3>2, <3>3, <4>1, ReadLebMore
      <4>5. Read(q, s).val = q /\ Read(q, s).rest = s
        BY DEF Read
      <4>6. ReadLeb(<< Field("leb", v) >> \o t) = {Read((v % LebBase) + LebBase * q, s)}
        BY <4>3, <4>4, <4>5
      <4>7. (v % LebBase) + LebBase * q = m
        <5> DEFINE a == m % LebBase  b == LebBase * q
        <5>1. a \in Int /\ b \in Int
          BY <1>0, <3>2
        <5>2. m = b + a /\ v % LebBase = a
          BY <3>2
        <5> HIDE DEF a, b
        <5>3. a + b = m
          BY <5>1, <5>2
        <5>4. QED
          BY <5>2, <5>3 DEF b
      <4>8. QED
        BY <4>2, <4>6, <4>7
    <3>7. QED
      BY <3>5, <3>6
  <2>3. QED
    BY <2>1, <2>2
<1>2. \A m \in Nat : (\A k \in Nat : k < m => k \in P) => m \in P
  BY <1>1
<1>3. n \in P
  <2> HIDE DEF P
  <2>1. QED
    BY <1>2, CourseOfValues
<1>4. QED
  BY <1>3

-----------------------------------------------------------------------------
(* Strings *)

\* What the fields of a stream hold.
Kinds == {"msg", "H", "b", "I", "HH", "Hb", "HHb", "name2", "name3", "vtype",
          "B", "?", "d", "leb", "bytes"}

Words == Plain \cup CommonTypes \cup NewTypes \cup
         {"ClientHello", "ProtoUnsup", "ServerHello", "EntryAssign", "EntryUpdate",
          "FlagsUpdate", "EntryDelete", "ClearEntries", "identity", "magic"}

ValueData == UNION {Scalars(v) : v \in Values}

FieldData == ValueData \cup Names \cup Words \cup Nat
                \cup (Nat \X Nat) \cup (Nat \X BOOLEAN) \cup (Nat \X Nat \X BOOLEAN)

Fields == [kind : Kinds, v : FieldData]

\* A field and its parts.
LEMMA FieldType ==
    ASSUME NEW kind \in Kinds, NEW v \in FieldData
    PROVE  /\ Field(kind, v) \in Fields /\ << Field(kind, v) >> \in Seq(Fields)
           /\ Field(kind, v).kind = kind /\ Field(kind, v).v = v
BY DEF Field, Fields

\* A field is read as the kind it was written as, and as no other.
LEMMA KindIsRead ==
    ASSUME NEW kind \in Kinds, NEW v \in FieldData, NEW s \in Seq(Fields), NEW k
    PROVE  /\ k = kind => ReadField(k, << Field(kind, v) >> \o s) = {Read(v, s)}
           /\ k # kind => ReadField(k, << Field(kind, v) >> \o s) = {}
<1> DEFINE f == Field(kind, v)
<1>1. f \in Fields /\ f.kind = kind /\ f.v = v
  BY FieldType
<1> HIDE DEF f
<1>2. ReadField(k, << f >> \o s) = IF k = kind THEN {Read(v, s)} ELSE {}
  BY <1>1, FieldIsRead
<1>3. /\ k = kind => ReadField(k, << f >> \o s) = {Read(v, s)}
      /\ k # kind => ReadField(k, << f >> \o s) = {}
  BY <1>2
<1>4. QED
  BY <1>3 DEF f

\* Fields that hold a number.
LEMMA NatFields ==
    ASSUME NEW n \in Nat
    PROVE  /\ Field("leb", n) \in Fields /\ Field("bytes", n) \in Fields
           /\ Field("H", n) \in Fields /\ Field("B", n) \in Fields
           /\ n \in FieldData
<1>1. n \in FieldData
  BY DEF FieldData
<1>2. QED
  BY <1>1, FieldType DEF Kinds

\* The shorter of two lengths.
LEMMA ShorterType ==
    ASSUME NEW a \in Nat, NEW b \in Nat
    PROVE  Shorter(a, b) \in Nat /\ Shorter(a, b) <= a /\ Shorter(a, b) <= b
BY DEF Shorter

\* Some bytes are read as many as they are.
LEMMA BytesAreRead ==
    ASSUME NEW n \in Nat, NEW s \in Seq(Fields)
    PROVE  ReadBytes({Read(n, << Field("bytes", n) >> \o s)}) = {Read(n, s)}
<1> DEFINE w == << Field("bytes", n) >> \o s
<1>1. w # << >> /\ Head(w) = Field("bytes", n) /\ Tail(w) = s
  BY NatFields, FirstField
<1> HIDE DEF w
<1>2. Read(n, w).val = n /\ Read(n, w).rest = w
  BY DEF Read
<1>3. ReadBytes({Read(n, w)}) = {Read(n, s)}
  <2> DEFINE l == Read(n, w)
  <2>1. l.rest # << >> /\ Head(l.rest) = Field("bytes", l.val) /\ Read(l.val, Tail(l.rest)) = Read(n, s)
    BY <1>1, <1>2
  <2> HIDE DEF l
  <2>2. {x \in {l} : x.rest # << >> /\ Head(x.rest) = Field("bytes", x.val)} = {l}
    BY <2>1
  <2>3. ReadBytes({l}) = {Read(l.val, Tail(l.rest))}
    BY <2>2 DEF ReadBytes
  <2>4. QED
    BY <2>1, <2>3 DEF l
<1>4. QED
  BY <1>3 DEF w

\* What revision 2 leaves of a string.
HeardLength(r, len) == IF r = 2 THEN Shorter(len, MaxString) ELSE len

\* A length as LEB128 and that many bytes are read as they were written.
LEMMA LebBytesAreRead ==
    ASSUME NEW n \in Nat
    PROVE  /\ Append(EncodeLeb(n), Field("bytes", n)) \in Seq(Fields)
           /\ \A s \in Seq(Fields) :
                 ReadBytes(ReadLeb(Append(EncodeLeb(n), Field("bytes", n)) \o s)) = {Read(n, s)}
<1> DEFINE e == EncodeLeb(n)  b == Field("bytes", n)
<1>1. /\ e \in Seq(Fields)
      /\ \A s \in Seq(Fields) : ReadLeb(e \o s) = {Read(n, s)}
  BY NatFields, LebIsRead
<1>2. b \in Fields /\ << b >> \in Seq(Fields)
  BY NatFields
<1>3. \A s \in Seq(Fields) : << b >> \o s \in Seq(Fields)
  BY <1>2, ConcatProperties
<1>4. \A s \in Seq(Fields) : ReadBytes({Read(n, << b >> \o s)}) = {Read(n, s)}
  BY BytesAreRead
<1> HIDE DEF e, b
<1>5. \A s \in Seq(Fields) : (e \o << b >>) \o s = e \o (<< b >> \o s)
  BY <1>1, <1>2, ConcatAssociative
<1>6. Append(e, b) = e \o << b >> /\ Append(e, b) \in Seq(Fields)
  BY <1>1, <1>2, AppendIsConcat, AppendProperties
<1>7. \A s \in Seq(Fields) : ReadBytes(ReadLeb(Append(e, b) \o s)) = {Read(n, s)}
  BY <1>1, <1>3, <1>4, <1>5, <1>6
<1>8. QED
  BY <1>6, <1>7 DEF e, b

\* A string in revision 2.
LEMMA ShortString ==
    ASSUME NEW n \in Nat, NEW s \in Seq(Fields)
    PROVE  /\ << Field("H", n), Field("bytes", n) >> \in Seq(Fields)
           /\ << Field("H", n), Field("bytes", n) >> \o s
                 = << Field("H", n) >> \o (<< Field("bytes", n) >> \o s)
           /\ << Field("bytes", n) >> \o s \in Seq(Fields)
<1>1. Field("H", n) \in Fields /\ Field("bytes", n) \in Fields
  BY NatFields
<1>2. << Field("H", n) >> \in Seq(Fields) /\ << Field("bytes", n) >> \in Seq(Fields)
  BY <1>1
<1>3. << Field("H", n) >> \o << Field("bytes", n) >> = << Field("H", n), Field("bytes", n) >>
  BY <1>1, FieldBefore
<1>4. QED
  BY <1>1, <1>2, <1>3, ConcatProperties, ConcatAssociative

\* A string is read with the length that its revision can say (write_string_v2,
\* write_string_v3, read_string_v2, read_string_v3).
LEMMA StringIsRead ==
    ASSUME NEW r \in Revs, NEW len \in Nat
    PROVE  /\ WriteString(r, len) \in Seq(Fields)
           /\ \A s \in Seq(Fields) :
                 ReadString(r, WriteString(r, len) \o s) = {Read(HeardLength(r, len), s)}
<1>1. CASE r = 2
  <2> DEFINE n == Shorter(len, MaxString)
  <2>1. n \in Nat
    BY ShorterType, WireAssumption
  <2>2. WriteString(r, len) = << Field("H", n), Field("bytes", n) >>
    BY <1>1 DEF WriteString
  <2>3. HeardLength(r, len) = n
    BY <1>1 DEF HeardLength
  <2> HIDE DEF n
  <2>4. ASSUME NEW s \in Seq(Fields)
        PROVE  ReadString(r, WriteString(r, len) \o s) = {Read(n, s)}
    <3> DEFINE t == << Field("bytes", n) >> \o s
    <3>1. WriteString(r, len) \o s = << Field("H", n) >> \o t /\ t \in Seq(Fields)
      BY <2>1, <2>2, ShortString
    <3>2. ReadBytes({Read(n, t)}) = {Read(n, s)}
      BY <2>1, BytesAreRead
    <3> HIDE DEF t
    <3>3. ReadField("H", << Field("H", n) >> \o t) = {Read(n, t)}
      <4>1. "H" \in Kinds /\ n \in FieldData /\ t \in Seq(Fields)
        BY <2>1, <3>1, NatFields DEF Kinds
      <4>2. QED
        BY <4>1, KindIsRead, Zenon
    <3>4. QED
      BY <1>1, <3>1, <3>2, <3>3 DEF ReadString
  <2>5. WriteString(r, len) \in Seq(Fields)
    <3>1. << >> \in Seq(Fields)
      BY EmptySeq
    <3>2. QED
      BY <2>1, <2>2, <3>1, ShortString
  <2>6. QED
    BY <2>3, <2>4, <2>5
<1>2. CASE r = 3
  <2>1. WriteString(r, len) = Append(EncodeLeb(len), Field("bytes", len))
    BY <1>2 DEF WriteString
  <2>2. \A s : ReadString(r, s) = ReadBytes(ReadLeb(s))
    BY <1>2 DEF ReadString
  <2>3. HeardLength(r, len) = len
    BY <1>2 DEF HeardLength
  <2>4. QED
    BY <2>1, <2>2, <2>3, LebBytesAreRead
<1>3. QED
  BY <1>1, <1>2 DEF Revs

-----------------------------------------------------------------------------
(* Scalars *)

BaseTypes == {"boolean", "double", "string"}

ScalarTypes == {"boolean", "double", "string", "raw", "rpc"}

\* What is written for a value of a scalar type, or as an element of an array.
IsScalar(type, data) ==
    /\ type \in ScalarTypes /\ data \in FieldData
    /\ type \in {"string", "raw", "rpc"} => data \in Nat

\* And what the peer makes of it.
HeardScalar(r, type, data) ==
    IF r = 2 /\ type = "string" THEN Shorter(data, MaxString) ELSE data

\* One field is read as it was written.
LEMMA OneFieldIsRead ==
    ASSUME NEW kind \in Kinds, NEW v \in FieldData
    PROVE  /\ << Field(kind, v) >> \in Seq(Fields)
           /\ \A s \in Seq(Fields) : ReadField(kind, << Field(kind, v) >> \o s) = {Read(v, s)}
BY FieldType, KindIsRead, Zenon

\* The data of a scalar type are read as they were written, but for what is cut.
LEMMA ScalarIsRead ==
    ASSUME NEW r \in Revs, NEW type \in TypesOf(r), NEW data, IsScalar(type, data)
    PROVE  /\ WriteScalar(r, type, data) \in Seq(Fields)
           /\ \A s \in Seq(Fields) :
                 ReadScalar(r, type, WriteScalar(r, type, data) \o s)
                    = {Read(HeardScalar(r, type, data), s)}
<1>1. CASE type = "boolean"
  <2>1. /\ WriteScalar(r, type, data) = << Field("?", data) >>
        /\ \A s : ReadScalar(r, type, s) = ReadField("?", s)
        /\ HeardScalar(r, type, data) = data
    BY <1>1 DEF WriteScalar, ReadScalar, HeardScalar
  <2>2. "?" \in Kinds /\ data \in FieldData
    BY DEF Kinds, IsScalar
  <2>3. QED
    BY <2>1, <2>2, OneFieldIsRead
<1>2. CASE type = "double"
  <2>1. /\ WriteScalar(r, type, data) = << Field("d", data) >>
        /\ \A s : ReadScalar(r, type, s) = ReadField("d", s)
        /\ HeardScalar(r, type, data) = data
    BY <1>2 DEF WriteScalar, ReadScalar, HeardScalar
  <2>2. "d" \in Kinds /\ data \in FieldData
    BY DEF Kinds, IsScalar
  <2>3. QED
    BY <2>1, <2>2, OneFieldIsRead
<1>3. CASE type = "raw"
  <2>1. /\ WriteScalar(r, type, data) = Append(EncodeLeb(data), Field("bytes", data))
        /\ \A s : ReadScalar(r, type, s) = ReadBytes(ReadLeb(s))
        /\ HeardScalar(r, type, data) = data
    BY <1>3 DEF WriteScalar, ReadScalar, HeardScalar
  <2>2. data \in Nat
    BY <1>3 DEF IsScalar
  <2>3. QED
    BY <2>1, <2>2, LebBytesAreRead
<1>4. CASE type \in {"string", "rpc"}
  <2>1. /\ WriteScalar(r, type, data) = WriteString(r, data)
        /\ \A s : ReadScalar(r, type, s) = ReadString(r, s)
    BY <1>4 DEF WriteScalar, ReadScalar
  <2>2. data \in Nat
    BY <1>4 DEF IsScalar
  <2>3. HeardScalar(r, type, data) = HeardLength(r, data)
    <3>1. type = "rpc" => r # 2
      BY DEF TypesOf, CommonTypes, ArrayTypes
    <3>2. QED
      BY <1>4, <3>1 DEF HeardScalar, HeardLength
  <2>4. QED
    BY <2>1, <2>2, <2>3, StringIsRead
<1>5. QED
  BY <1>1, <1>2, <1>3, <1>4 DEF IsScalar, ScalarTypes

\* The kind of the first field of a value in revision 2.
FirstKind(type) ==
    IF type \in ArrayTypes THEN "B"
    ELSE IF type = "boolean" THEN "?" ELSE IF type = "double" THEN "d" ELSE "H"

\* What is written for a scalar starts with a field of its type.
LEMMA FirstOfScalar ==
    ASSUME NEW type \in BaseTypes, NEW data, IsScalar(type, data)
    PROVE  \E v \in FieldData, t \in Seq(Fields) :
              WriteScalar(2, type, data) = << Field(FirstKind(type), v) >> \o t
<1>1. << >> \in Seq(Fields)
  BY EmptySeq
<1>2. \A f : f \in Fields => << f >> \o << >> = << f >>
  <2> TAKE f
  <2> SUFFICES ASSUME f \in Fields PROVE << f >> \o << >> = << f >>
    OBVIOUS
  <2>1. << f >> \in Seq(Fields)
    OBVIOUS
  <2>2. QED
    BY <2>1, ConcatEmptySeq
<1>3. CASE type \in {"boolean", "double"}
  <2>1. /\ WriteScalar(2, type, data) = << Field(FirstKind(type), data) >>
        /\ FirstKind(type) \in Kinds /\ data \in FieldData
    BY <1>3 DEF WriteScalar, FirstKind, IsScalar, Kinds, ArrayTypes
  <2>2. Field(FirstKind(type), data) \in Fields
    BY <2>1, FieldType
  <2>3. QED
    BY <1>1, <1>2, <2>1, <2>2
<1>4. CASE type = "string"
  <2> DEFINE n == Shorter(data, MaxString)
  <2>1. n \in Nat
    BY <1>4, ShorterType, WireAssumption DEF IsScalar
  <2>2. WriteScalar(2, type, data) = << Field("H", n), Field("bytes", n) >>
    BY <1>4 DEF WriteScalar, WriteString
  <2> HIDE DEF n
  <2>3. Field("H", n) \in Fields /\ Field("bytes", n) \in Fields /\ n \in FieldData
    BY <2>1, NatFields
  <2>4. << Field("H", n) >> \o << Field("bytes", n) >> = << Field("H", n), Field("bytes", n) >>
    BY <2>3, FieldBefore
  <2>5. << Field("bytes", n) >> \in Seq(Fields)
    BY <2>3
  <2>6. FirstKind(type) = "H"
    BY <1>4 DEF FirstKind, ArrayTypes
  <2>7. QED
    BY <2>2, <2>3, <2>4, <2>5, <2>6
<1>5. QED
  BY <1>3, <1>4 DEF BaseTypes

\* As a value of another type it cannot be read in revision 2.
LEMMA NothingOfOtherKind ==
    ASSUME NEW type \in BaseTypes, NEW kind \in Kinds,
           NEW v \in FieldData, NEW s \in Seq(Fields), kind # FirstKind(type)
    PROVE  ReadScalar(2, type, << Field(kind, v) >> \o s) = {}
<1> DEFINE w == << Field(kind, v) >> \o s
<1>1. ReadField(FirstKind(type), w) = {}
  BY KindIsRead, Zenon
<1> HIDE DEF w
<1>2. ReadBytes({}) = {}
  BY DEF ReadBytes
<1>3. ReadScalar(2, type, w) = {}
  BY <1>1, <1>2 DEF ReadScalar, ReadString, FirstKind, ArrayTypes, BaseTypes
<1>4. QED
  BY <1>3 DEF w

-----------------------------------------------------------------------------
(* The elements of an array *)

ReadFrom(r, type, s, n, f) ==
    f = [k \in 0 .. n |->
           IF k = 0 THEN {Read(<< >>, s)}
           ELSE UNION {{Read(Append(xs.val, x.val), x.rest) :
                           x \in ReadScalar(r, type, xs.rest)} : xs \in f[k - 1]}]

\* There is such a function.
LEMMA ReadFromExists ==
    ASSUME NEW r, NEW type, NEW s, NEW n \in Nat
    PROVE  \E f : ReadFrom(r, type, s, n, f)
<1> DEFINE U(X) == UNION {{Read(Append(xs.val, x.val), x.rest) :
                              x \in ReadScalar(r, type, xs.rest)} : xs \in X}
           D(k, f) == IF k = 0 THEN {Read(<< >>, s)} ELSE U(f[k - 1])
           G(j, f) == f = [k \in 0 .. j |-> D(k, f)]
           P == {j \in Nat : \E f : G(j, f)}
<1>1. 0 \in P
  <2> DEFINE f == [k \in 0 .. 0 |-> {Read(<< >>, s)}]
  <2>1. \A k \in 0 .. 0 : k = 0
    OBVIOUS
  <2>2. f = [k \in 0 .. 0 |-> D(k, f)]
    <3> HIDE DEF U
    <3>1. QED
      BY <2>1
  <2> HIDE DEF f, U
  <2>3. QED
    BY <2>2
<1> HIDE DEF U
<1>2. ASSUME NEW j \in Nat, j \in P PROVE j + 1 \in P
  <2>1. PICK f : G(j, f)
    BY <1>2
  <2> DEFINE g == [k \in 0 .. j + 1 |-> IF k <= j THEN f[k] ELSE D(k, f)]
  <2>2. \A k \in 0 .. j : f[k] = D(k, f)
    <3> HIDE DEF D
    <3>1. QED
      BY <2>1
  <2>3. \A k \in 0 .. j + 1 : g[k] = D(k, f)
    <3> TAKE k \in 0 .. j + 1
    <3> HIDE DEF D, P
    <3>1. QED
      BY <2>2
  <2>4. \A k \in 0 .. j : g[k] = f[k]
    OBVIOUS
  <2>5. g = [k \in 0 .. j + 1 |-> g[k]]
    OBVIOUS
  <2> HIDE DEF g, G, P
  <2>6. \A k \in 0 .. j + 1 : D(k, f) = D(k, g)
    <3> TAKE k \in 0 .. j + 1
    <3>1. CASE k = 0
      BY <3>1
    <3>2. CASE k # 0
      <4>1. k - 1 \in 0 .. j
        BY <3>2
      <4>2. QED
        BY <2>4, <3>2, <4>1
    <3>3. QED
      BY <3>1, <3>2
  <2> HIDE DEF D
  <2>7. g = [k \in 0 .. j + 1 |-> D(k, g)]
    BY <2>3, <2>5, <2>6
  <2>8. QED
    BY <2>7 DEF G, P
<1>3. n \in P
  <2> HIDE DEF P
  <2>1. QED
    BY <1>1, <1>2, Induction
<1>4. QED
  BY <1>3 DEF ReadFrom, U

\* Elements that are read do not depend on how many follow.
LEMMA ReadFromAgree ==
    ASSUME NEW r, NEW type, NEW s, NEW n \in Nat, NEW m \in Nat, NEW f, NEW g,
           ReadFrom(r, type, s, n, f), ReadFrom(r, type, s, m, g)
    PROVE  \A k \in Nat : k <= n /\ k <= m => f[k] = g[k]
<1> DEFINE U(X) == UNION {{Read(Append(xs.val, x.val), x.rest) :
                              x \in ReadScalar(r, type, xs.rest)} : xs \in X}
           P == {k \in Nat : k <= n /\ k <= m => f[k] = g[k]}
<1>1. \A k \in 0 .. n : f[k] = IF k = 0 THEN {Read(<< >>, s)} ELSE U(f[k - 1])
  BY Zenon DEF ReadFrom
<1>2. \A k \in 0 .. m : g[k] = IF k = 0 THEN {Read(<< >>, s)} ELSE U(g[k - 1])
  BY Zenon DEF ReadFrom
<1> HIDE DEF U
<1>3. 0 \in P
  <2>1. 0 \in 0 .. n /\ 0 \in 0 .. m
    OBVIOUS
  <2>2. f[0] = {Read(<< >>, s)} /\ g[0] = {Read(<< >>, s)}
    BY <1>1, <1>2, <2>1
  <2>3. QED
    BY <2>2
<1>4. ASSUME NEW k \in Nat, k \in P PROVE k + 1 \in P
  <2> SUFFICES ASSUME k + 1 <= n, k + 1 <= m PROVE f[k + 1] = g[k + 1]
    OBVIOUS
  <2>1. f[k] = g[k]
    BY <1>4
  <2>2. k + 1 \in 0 .. n /\ k + 1 \in 0 .. m /\ k + 1 # 0 /\ (k + 1) - 1 = k
    OBVIOUS
  <2> HIDE DEF P
  <2>3. QED
    BY <1>1, <1>2, <2>1, <2>2
<1>5. \A k \in Nat : k \in P
  <2> HIDE DEF P
  <2>1. QED
    BY <1>3, <1>4, Induction
<1>6. QED
  BY <1>5

\* ReadElements is its last value.
LEMMA ReadElementsIs ==
    ASSUME NEW r, NEW type, NEW s, NEW n \in Nat
    PROVE  \E f : ReadFrom(r, type, s, n, f) /\ ReadElements(r, type, n, s) = f[n]
<1> DEFINE F(f) == [k \in 0 .. n |->
                       IF k = 0 THEN {Read(<< >>, s)}
                       ELSE UNION {{Read(Append(xs.val, x.val), x.rest) :
                                       x \in ReadScalar(r, type, xs.rest)} : xs \in f[k - 1]}]
           read == CHOOSE f : f = F(f)
<1>1. PICK f : ReadFrom(r, type, s, n, f)
  BY ReadFromExists
<1>2. f = F(f)
  BY <1>1 DEF ReadFrom
<1>3. read = F(read)
  <2> HIDE DEF F
  <2>1. QED
    BY <1>2
<1>4. ReadFrom(r, type, s, n, read)
  <2> HIDE DEF read
  <2>1. QED
    BY <1>3 DEF ReadFrom
<1>5. ReadElements(r, type, n, s) = read[n]
  BY DEF ReadElements
<1> HIDE DEF read
<1>6. QED
  BY <1>4, <1>5

\* One more element, after those that were read.
ReadMore(r, type, X) ==
    UNION {{Read(Append(xs.val, x.val), x.rest) : x \in ReadScalar(r, type, xs.rest)} :
              xs \in X}

\* What one more element makes of one reading, and of none.
LEMMA ReadMoreIs ==
    ASSUME NEW r, NEW type, NEW val, NEW s
    PROVE  /\ \A y, t : ReadScalar(r, type, s) = {Read(y, t)}
                 => ReadMore(r, type, {Read(val, s)}) = {Read(Append(val, y), t)}
           /\ ReadScalar(r, type, s) = {} => ReadMore(r, type, {Read(val, s)}) = {}
           /\ ReadMore(r, type, {}) = {}
<1> DEFINE xs == Read(val, s)
<1>1. xs.val = val /\ xs.rest = s
  BY DEF Read
<1> HIDE DEF xs
<1>2. ASSUME NEW y, NEW t, ReadScalar(r, type, s) = {Read(y, t)}
      PROVE  ReadMore(r, type, {xs}) = {Read(Append(val, y), t)}
  <2> DEFINE x == Read(y, t)
  <2>1. x.val = y /\ x.rest = t
    BY DEF Read
  <2>2. ReadScalar(r, type, xs.rest) = {x}
    BY <1>1, <1>2
  <2> HIDE DEF x
  <2>3. ReadMore(r, type, {xs}) = {Read(Append(xs.val, x.val), x.rest)}
    BY <2>2 DEF ReadMore
  <2>4. QED
    BY <1>1, <2>1, <2>3
<1>3. ReadScalar(r, type, s) = {} => ReadMore(r, type, {xs}) = {}
  BY <1>1 DEF ReadMore
<1>4. ReadMore(r, type, {}) = {}
  BY DEF ReadMore
<1>5. QED
  BY <1>2, <1>3, <1>4 DEF xs

\* The elements are read one after the other.
LEMMA ReadNoElement ==
    ASSUME NEW r, NEW type, NEW s
    PROVE  ReadElements(r, type, 0, s) = {Read(<< >>, s)}
<1>1. PICK f : ReadFrom(r, type, s, 0, f) /\ ReadElements(r, type, 0, s) = f[0]
  BY ReadElementsIs
<1>2. 0 \in 0 .. 0
  OBVIOUS
<1>3. f[0] = {Read(<< >>, s)}
  BY <1>1, <1>2 DEF ReadFrom
<1>4. QED
  BY <1>1, <1>3

\* And one more.
LEMMA ReadElementsStep ==
    ASSUME NEW r, NEW type, NEW s, NEW n \in Nat
    PROVE  ReadElements(r, type, n + 1, s) = ReadMore(r, type, ReadElements(r, type, n, s))
<1>1. PICK f : ReadFrom(r, type, s, n, f) /\ ReadElements(r, type, n, s) = f[n]
  BY ReadElementsIs
<1>2. n + 1 \in Nat /\ n + 1 \in 0 .. n + 1 /\ n + 1 # 0 /\ (n + 1) - 1 = n
      /\ n <= n + 1 /\ n <= n
  OBVIOUS
<1>3. PICK g : ReadFrom(r, type, s, n + 1, g) /\ ReadElements(r, type, n + 1, s) = g[n + 1]
  BY <1>2, ReadElementsIs
<1>4. f[n] = g[n]
  BY <1>1, <1>2, <1>3, ReadFromAgree
<1>5. \A k \in 0 .. n + 1 : g[k] = IF k = 0 THEN {Read(<< >>, s)}
                                    ELSE ReadMore(r, type, g[k - 1])
  BY <1>3, Zenon DEF ReadFrom, ReadMore
<1>6. QED
  BY <1>1, <1>2, <1>3, <1>4, <1>5

-----------------------------------------------------------------------------
(* Arrays *)

\* The elements of an array as they are written.
Written(r, type, data, n) == [i \in 1 .. n |-> WriteScalar(r, type, data[i])]

Elements(r, type, data, n) == FlattenSeq(Written(r, type, data, n))

HeardElements(r, type, data, n) == [i \in 1 .. n |-> HeardScalar(r, type, data[i])]

\* A sequence is what comes before its last element, and that one.
LEMMA AppendLast ==
    ASSUME NEW k \in Nat, NEW g, NEW h, g = [i \in 1 .. k + 1 |-> g[i]],
           h = [i \in 1 .. k |-> h[i]], \A i \in 1 .. k : h[i] = g[i]
    PROVE  g = Append(h, g[k + 1])
<1> DEFINE T == {g[i] : i \in 1 .. k + 1}
<1>1. \A i \in 1 .. k + 1 : g[i] \in T
  OBVIOUS
<1>2. \A i \in 1 .. k : h[i] \in T
  <2>1. \A i \in 1 .. k : i \in 1 .. k + 1
    OBVIOUS
  <2>2. QED
    BY <2>1
<1>3. k + 1 \in 1 .. k + 1 /\ k + 1 \in Nat
  OBVIOUS
<1> HIDE DEF T
<1>4. g \in Seq(T) /\ Len(g) = k + 1
  BY <1>1, <1>3
<1>5. h \in Seq(T) /\ Len(h) = k
  BY <1>2
<1>6. /\ Append(h, g[k + 1]) \in Seq(T) /\ Len(Append(h, g[k + 1])) = k + 1
      /\ \A i \in 1 .. k : Append(h, g[k + 1])[i] = h[i]
      /\ Append(h, g[k + 1])[k + 1] = g[k + 1]
  BY <1>1, <1>3, <1>5, AppendProperties
<1>7. \A i \in 1 .. Len(g) : g[i] = Append(h, g[k + 1])[i]
  BY <1>4, <1>6
<1>8. QED
  BY <1>4, <1>6, <1>7, SeqEqual

\* The elements that are written are fields, one element after the other.
LEMMA WrittenIs ==
    ASSUME NEW r \in Revs, NEW type \in TypesOf(r), NEW data, NEW n \in Nat,
           \A i \in 1 .. n : IsScalar(type, data[i])
    PROVE  \A k \in 0 .. n :
              /\ Written(r, type, data, k) \in Seq(Seq(Fields))
              /\ Elements(r, type, data, k) \in Seq(Fields)
              /\ k < n => Elements(r, type, data, k + 1) =
                    Elements(r, type, data, k) \o WriteScalar(r, type, data[k + 1])
<1> TAKE k \in 0 .. n
<1>1. \A i \in 1 .. n : WriteScalar(r, type, data[i]) \in Seq(Fields)
  BY ScalarIsRead
<1> DEFINE h == Written(r, type, data, k)  g == Written(r, type, data, k + 1)
<1>2. h \in Seq(Seq(Fields))
  <2>1. \A i \in 1 .. k : WriteScalar(r, type, data[i]) \in Seq(Fields)
    BY <1>1
  <2>2. QED
    BY <2>1 DEF Written
<1>3. Elements(r, type, data, k) \in Seq(Fields)
  <2> HIDE DEF h
  <2>1. FlattenSeq(h) \in Seq(Fields)
    BY <1>2, FlattenType
  <2>2. QED
    BY <2>1 DEF Elements, h
<1>4. ASSUME k < n
      PROVE  Elements(r, type, data, k + 1) =
                Elements(r, type, data, k) \o WriteScalar(r, type, data[k + 1])
  <2>1. /\ g = [i \in 1 .. k + 1 |-> g[i]] /\ h = [i \in 1 .. k |-> h[i]]
        /\ \A i \in 1 .. k : h[i] = g[i]
        /\ k \in Nat
    BY DEF Written
  <2>2. g[k + 1] = WriteScalar(r, type, data[k + 1])
    BY DEF Written
  <2>3. g[k + 1] \in Seq(Fields)
    <3>1. k + 1 \in 1 .. n
      BY <1>4
    <3> HIDE DEF g
    <3>2. QED
      BY <1>1, <2>2, <3>1
  <2> HIDE DEF g, h
  <2>4. g = Append(h, g[k + 1])
    BY <2>1, AppendLast
  <2>5. FlattenSeq(g) = FlattenSeq(h) \o g[k + 1]
    BY <1>2, <2>3, <2>4, FlattenAppend
  <2>6. QED
    BY <2>2, <2>5 DEF Elements, g, h
<1>5. QED
  BY <1>2, <1>3, <1>4

\* What was written as elements of a type is read as such.
LEMMA ElementsAreRead ==
    ASSUME NEW r \in Revs, NEW type \in TypesOf(r), NEW data, NEW n \in Nat,
           \A i \in 1 .. n : IsScalar(type, data[i])
    PROVE  /\ Elements(r, type, data, n) \in Seq(Fields)
           /\ \A s \in Seq(Fields) :
                 ReadElements(r, type, n, Elements(r, type, data, n) \o s)
                    = {Read(HeardElements(r, type, data, n), s)}
<1> DEFINE E(k) == Elements(r, type, data, k)
           H(k) == HeardElements(r, type, data, k)
           W(k) == WriteScalar(r, type, data[k])
           P == {k \in Nat : k <= n => \A s \in Seq(Fields) :
                    ReadElements(r, type, k, E(k) \o s) = {Read(H(k), s)}}
<1>1. \A k \in 0 .. n : E(k) \in Seq(Fields) /\ (k < n => E(k + 1) = E(k) \o W(k + 1))
  BY WrittenIs
<1>2. 0 \in P
  <2>1. Written(r, type, data, 0) = << >> /\ HeardElements(r, type, data, 0) = << >>
    BY DEF Written, HeardElements
  <2>2. E(0) = << >> /\ H(0) = << >>
    BY <2>1, FlattenEmpty DEF Elements
  <2> HIDE DEF E, H
  <2>3. \A s \in Seq(Fields) : ReadElements(r, type, 0, E(0) \o s) = {Read(H(0), s)}
    <3> TAKE s \in Seq(Fields)
    <3>1. E(0) \o s = s
      BY <2>2
    <3>2. QED
      BY <2>2, <3>1, ReadNoElement
  <2>4. QED
    BY <2>3
<1>3. ASSUME NEW k \in Nat, k \in P PROVE k + 1 \in P
  <2> SUFFICES ASSUME k + 1 <= n, NEW s \in Seq(Fields)
               PROVE  ReadElements(r, type, k + 1, E(k + 1) \o s) = {Read(H(k + 1), s)}
    OBVIOUS
  <2>1. k + 1 \in 1 .. n /\ k \in 0 .. n /\ k < n /\ k <= n
    OBVIOUS
  <2>2. /\ W(k + 1) \in Seq(Fields)
        /\ \A t \in Seq(Fields) : ReadScalar(r, type, W(k + 1) \o t)
              = {Read(HeardScalar(r, type, data[k + 1]), t)}
    BY <2>1, ScalarIsRead
  <2>3. H(k + 1) = Append(H(k), HeardScalar(r, type, data[k + 1]))
    <3> DEFINE g == H(k + 1)  h == H(k)
    <3>1. /\ g = [i \in 1 .. k + 1 |-> g[i]] /\ h = [i \in 1 .. k |-> h[i]]
          /\ \A i \in 1 .. k : h[i] = g[i]
      BY DEF HeardElements
    <3>2. g[k + 1] = HeardScalar(r, type, data[k + 1])
      BY DEF HeardElements
    <3> HIDE DEF g, h
    <3>3. g = Append(h, g[k + 1])
      BY <3>1, AppendLast
    <3>4. QED
      BY <3>2, <3>3 DEF g, h
  <2> DEFINE t == W(k + 1) \o s
  <2>4. t \in Seq(Fields)
    <3> HIDE DEF W
    <3>1. QED
      BY <2>2, ConcatProperties
  <2>5. ReadElements(r, type, k, E(k) \o t) = {Read(H(k), t)}
    <3> HIDE DEF E, H, t
    <3>1. QED
      BY <1>3, <2>1, <2>4
  <2>6. E(k + 1) \o s = E(k) \o t
    <3> HIDE DEF E, W
    <3>1. E(k + 1) = E(k) \o W(k + 1) /\ E(k) \in Seq(Fields)
      BY <1>1, <2>1
    <3> DEFINE a == E(k)  b == W(k + 1)
    <3>2. a \in Seq(Fields) /\ b \in Seq(Fields)
      BY <2>2, <3>1
    <3> HIDE DEF a, b
    <3>3. (a \o b) \o s = a \o (b \o s)
      BY <3>2, ConcatAssociative
    <3>4. QED
      BY <3>1, <3>3 DEF a, b
  <2>7. ReadScalar(r, type, t) = {Read(HeardScalar(r, type, data[k + 1]), s)}
    BY <2>2
  <2> DEFINE x == HeardScalar(r, type, data[k + 1])
  <2> HIDE DEF E, H, W, t, x, P
  <2>8. ReadMore(r, type, {Read(H(k), t)}) = {Read(Append(H(k), x), s)}
    BY <2>7, ReadMoreIs DEF x
  <2>9. ReadElements(r, type, k + 1, E(k) \o t)
           = ReadMore(r, type, ReadElements(r, type, k, E(k) \o t))
    BY ReadElementsStep
  <2>10. QED
    BY <2>3, <2>5, <2>6, <2>8, <2>9 DEF x
<1>4. n \in P
  <2> HIDE DEF P
  <2>1. QED
    BY <1>2, <1>3, Induction
<1>5. \A s \in Seq(Fields) : ReadElements(r, type, n, E(n) \o s) = {Read(H(n), s)}
  <2> HIDE DEF E, H
  <2>1. QED
    BY <1>4
<1>6. QED
  BY <1>1, <1>5

\* Where the first cannot be read, none can.
LEMMA NoElements ==
    ASSUME NEW r, NEW type, NEW s, ReadScalar(r, type, s) = {}
    PROVE  \A n \in Nat : n > 0 => ReadElements(r, type, n, s) = {}
<1> DEFINE P == {n \in Nat : ReadElements(r, type, n + 1, s) = {}}
<1>1. 0 \in P
  <2>1. ReadElements(r, type, 0, s) = {Read(<< >>, s)}
    BY ReadNoElement
  <2>2. ReadElements(r, type, 0 + 1, s) = ReadMore(r, type, ReadElements(r, type, 0, s))
    BY ReadElementsStep
  <2>3. ReadMore(r, type, {Read(<< >>, s)}) = {}
    BY ReadMoreIs
  <2>4. QED
    BY <2>1, <2>2, <2>3
<1>2. ASSUME NEW n \in Nat, n \in P PROVE n + 1 \in P
  <2>1. n + 1 \in Nat /\ ReadElements(r, type, n + 1, s) = {}
    BY <1>2
  <2>2. ReadElements(r, type, (n + 1) + 1, s)
           = ReadMore(r, type, ReadElements(r, type, n + 1, s))
    BY <2>1, ReadElementsStep
  <2>3. ReadMore(r, type, {}) = {}
    BY ReadMoreIs
  <2>4. QED
    BY <2>1, <2>2, <2>3
<1>3. \A n \in Nat : n \in P
  <2> HIDE DEF P
  <2>1. QED
    BY <1>1, <1>2, Induction
<1>4. ASSUME NEW n \in Nat, n > 0 PROVE ReadElements(r, type, n, s) = {}
  <2>1. n - 1 \in Nat /\ (n - 1) + 1 = n
    BY <1>4
  <2>2. n - 1 \in P
    <3> HIDE DEF P
    <3>1. QED
      BY <1>3, <2>1
  <2>3. QED
    BY <2>1, <2>2
<1>5. QED
  BY <1>4

-----------------------------------------------------------------------------
(* Values (write_value and read_value) *)

\* What the assumptions say of a value.
LEMMA ValueFacts ==
    ASSUME NEW v \in Values
    PROVE  /\ v.type \in CommonTypes \cup NewTypes
           /\ v.type \notin ArrayTypes => IsScalar(v.type, v.data)
           /\ v.type \in ArrayTypes =>
                 /\ ElementType[v.type] \in BaseTypes
                 /\ Len(v.data) \in Nat /\ (v.data = << >> \/ Len(v.data) >= 1)
                 /\ \A i \in 1 .. Len(v.data) : IsScalar(ElementType[v.type], v.data[i])
           /\ \A r \in Revs : Heard(r, v) \in Values
<1>1. IsWireValue(v) /\ \A r \in Revs : Heard(r, v) \in Values
  BY WireSyncAssumption
<1>2. Scalars(v) \subseteq FieldData
  BY DEF FieldData, ValueData
<1>3. v.type \in CommonTypes \cup NewTypes
  BY <1>1 DEF IsWireValue
<1>4. ASSUME v.type \notin ArrayTypes PROVE IsScalar(v.type, v.data)
  <2>1. Scalars(v) = {v.data} /\ ScalarType(v.type) = v.type
    BY <1>4 DEF Scalars, ScalarType
  <2>2. v.type \in {"string", "raw", "rpc"} => v.data \in Nat
    BY <1>1, <2>1 DEF IsWireValue
  <2>3. v.type \in ScalarTypes
    BY <1>3, <1>4 DEF CommonTypes, NewTypes, ScalarTypes
  <2>4. QED
    BY <1>2, <2>1, <2>2, <2>3 DEF IsScalar
<1>5. ASSUME v.type \in ArrayTypes
      PROVE  /\ ElementType[v.type] \in BaseTypes
             /\ Len(v.data) \in Nat /\ (v.data = << >> \/ Len(v.data) >= 1)
             /\ \A i \in 1 .. Len(v.data) : IsScalar(ElementType[v.type], v.data[i])
  <2> DEFINE t == ElementType[v.type]  S == Scalars(v)
  <2>1. t \in BaseTypes
    BY <1>5 DEF ElementType, ArrayTypes, BaseTypes
  <2>2. v.data \in Seq(S) /\ (t = "string" => S \subseteq Nat)
    <3>1. ScalarType(v.type) = t
      BY <1>5 DEF ScalarType
    <3>2. QED
      BY <1>1, <1>5, <3>1 DEF IsWireValue
  <2> HIDE DEF t, S
  <2>3. Len(v.data) \in Nat /\ (v.data = << >> \/ Len(v.data) >= 1)
    BY <2>2, EmptySeq, LenProperties
  <2>4. ASSUME NEW i \in 1 .. Len(v.data) PROVE IsScalar(t, v.data[i])
    <3>1. v.data[i] \in S
      BY <2>2, ElementOfSeq
    <3>2. QED
      BY <1>2, <2>1, <2>2, <3>1 DEF IsScalar, ScalarTypes, S, BaseTypes
  <2>5. QED
    BY <2>1, <2>3, <2>4 DEF t
<1>6. QED
  BY <1>1, <1>3, <1>4, <1>5

\* The types that either revision knows.
LEMMA TypesFacts ==
    /\ BaseTypes \subseteq CommonTypes
    /\ \A r \in Revs : BaseTypes \cup ArrayTypes \subseteq TypesOf(r)
    /\ TypesOf(2) = BaseTypes \cup ArrayTypes
    /\ {"boolean", "double", "string", "raw", "rpc"} \cap ArrayTypes = {}
BY DEF TypesOf, CommonTypes, ArrayTypes, BaseTypes

\* An array as it is written and as it is heard.
LEMMA ArrayIs ==
    ASSUME NEW r \in Revs, NEW v \in Values, v.type \in ArrayTypes
    PROVE  \E n \in Nat :
              /\ n <= Len(v.data) /\ (v.data # << >> => n >= 1)
              /\ WriteValue(r, v) = << Field("B", n) >> \o
                                    Elements(r, ElementType[v.type], v.data, n)
              /\ Heard(r, v) = [type |-> v.type,
                                data |-> HeardElements(r, ElementType[v.type], v.data, n)]
<1> DEFINE n == Shorter(Len(v.data), MaxArray)  t == ElementType[v.type]
<1>1. n \in Nat /\ n <= Len(v.data) /\ (v.data # << >> => n >= 1)
  BY ValueFacts, WireAssumption DEF Shorter
<1>2. WriteValue(r, v) = << Field("B", n) >> \o Elements(r, t, v.data, n)
  BY DEF WriteValue, Elements, Written
<1>3. Heard(r, v) = [type |-> v.type, data |-> HeardElements(r, t, v.data, n)]
  BY DEF Heard, HeardElements, HeardScalar
<1>4. QED
  BY <1>1, <1>2, <1>3

\* A value is read as the revision can carry it.
THEOREM ValueIsRead ==
    ASSUME NEW r \in Revs, NEW v \in Values, v.type \in TypesOf(r)
    PROVE  /\ WriteValue(r, v) \in Seq(Fields)
           /\ \A s \in Seq(Fields) :
                 ReadValue(r, v.type, WriteValue(r, v) \o s) = {Read(Heard(r, v), s)}
<1>1. CASE v.type \notin ArrayTypes
  <2>1. /\ WriteValue(r, v) = WriteScalar(r, v.type, v.data)
        /\ Heard(r, v) = [type |-> v.type, data |-> HeardScalar(r, v.type, v.data)]
    BY <1>1 DEF WriteValue, Heard, HeardScalar
  <2>2. WriteValue(r, v) \in Seq(Fields)
    BY <1>1, <2>1, ValueFacts, ScalarIsRead
  <2>3. ASSUME NEW s \in Seq(Fields)
        PROVE  ReadValue(r, v.type, WriteValue(r, v) \o s) = {Read(Heard(r, v), s)}
    <3> DEFINE w == WriteValue(r, v) \o s
               x == Read(HeardScalar(r, v.type, v.data), s)
    <3>1. ReadScalar(r, v.type, w) = {x}
      BY <1>1, <2>1, ValueFacts, ScalarIsRead
    <3>2. x.val = HeardScalar(r, v.type, v.data) /\ x.rest = s
      BY DEF Read
    <3> HIDE DEF w, x
    <3>3. ReadValue(r, v.type, w) =
             {Read([type |-> v.type, data |-> d.val], d.rest) : d \in ReadScalar(r, v.type, w)}
      BY <1>1 DEF ReadValue
    <3>4. ReadValue(r, v.type, w) = {Read([type |-> v.type, data |-> x.val], x.rest)}
      BY <3>1, <3>3
    <3>5. QED
      BY <2>1, <3>2, <3>4 DEF w
  <2>4. QED
    BY <2>2, <2>3
<1>2. CASE v.type \in ArrayTypes
  <2> DEFINE t == ElementType[v.type]
  <2>1. PICK n \in Nat :
           /\ n <= Len(v.data)
           /\ WriteValue(r, v) = << Field("B", n) >> \o Elements(r, t, v.data, n)
           /\ Heard(r, v) = [type |-> v.type, data |-> HeardElements(r, t, v.data, n)]
    BY <1>2, ArrayIs
  <2>2. t \in TypesOf(r) /\ \A i \in 1 .. n : IsScalar(t, v.data[i])
    <3>1. Len(v.data) \in Nat
      BY <1>2, ValueFacts
    <3>2. \A i \in 1 .. n : i \in 1 .. Len(v.data)
      BY <2>1, <3>1
    <3>3. QED
      BY <1>2, <3>2, ValueFacts, TypesFacts
  <2> DEFINE E == Elements(r, t, v.data, n)  H == HeardElements(r, t, v.data, n)
  <2> HIDE DEF t
  <2>3. /\ E \in Seq(Fields)
        /\ \A s \in Seq(Fields) : ReadElements(r, t, n, E \o s) = {Read(H, s)}
    BY <2>2, ElementsAreRead
  <2> HIDE DEF E, H
  <2>4. /\ << Field("B", n) >> \in Seq(Fields)
        /\ \A s \in Seq(Fields) : ReadField("B", << Field("B", n) >> \o s) = {Read(n, s)}
    <3>1. "B" \in Kinds /\ n \in FieldData
      BY NatFields DEF Kinds
    <3>2. QED
      BY <3>1, OneFieldIsRead
  <2>5. ASSUME NEW s \in Seq(Fields)
        PROVE  ReadValue(r, v.type, WriteValue(r, v) \o s) = {Read(Heard(r, v), s)}
    <3> DEFINE w == WriteValue(r, v) \o s  x == Read(n, E \o s)  y == Read(H, s)
    <3>1. w = << Field("B", n) >> \o (E \o s) /\ E \o s \in Seq(Fields)
      BY <2>1, <2>3, <2>4, ConcatAssociative, ConcatProperties DEF E
    <3>2. ReadField("B", w) = {x}
      BY <2>4, <3>1
    <3>3. ReadElements(r, t, x.val, x.rest) = {y}
      BY <2>3 DEF Read
    <3>4. y.val = H /\ y.rest = s
      BY DEF Read
    <3> HIDE DEF w, x, y
    <3>5. ReadValue(r, v.type, w) =
             {Read([type |-> v.type, data |-> d.val], d.rest) :
                 d \in UNION {ReadElements(r, t, z.val, z.rest) : z \in ReadField("B", w)}}
      BY <1>2 DEF ReadValue, t
    <3>6. UNION {ReadElements(r, t, z.val, z.rest) : z \in ReadField("B", w)} = {y}
      BY <3>2, <3>3
    <3>7. ReadValue(r, v.type, w) = {Read([type |-> v.type, data |-> y.val], y.rest)}
      BY <3>5, <3>6
    <3>8. QED
      BY <2>1, <3>4, <3>7 DEF w, H
  <2>6. WriteValue(r, v) \in Seq(Fields)
    BY <2>1, <2>3, <2>4, ConcatProperties DEF E
  <2>7. QED
    BY <2>5, <2>6
<1>3. QED
  BY <1>1, <1>2

-----------------------------------------------------------------------------
(* Values read as another type *)

\* An array starts with its first element.
LEMMA FirstElement ==
    ASSUME NEW r \in Revs, NEW type \in TypesOf(r), NEW data, NEW n \in Nat, n >= 1,
           \A i \in 1 .. n : IsScalar(type, data[i])
    PROVE  \E t \in Seq(Fields) :
              Elements(r, type, data, n) = WriteScalar(r, type, data[1]) \o t
<1> DEFINE E(k) == Elements(r, type, data, k)
           w == WriteScalar(r, type, data[1])
           P == {k \in Nat : k + 1 <= n => \E t \in Seq(Fields) : E(k + 1) = w \o t}
<1>1. \A k \in 0 .. n :
         /\ E(k) \in Seq(Fields)
         /\ k < n => E(k + 1) = E(k) \o WriteScalar(r, type, data[k + 1])
  BY WrittenIs
<1>2. \A i \in 1 .. n : WriteScalar(r, type, data[i]) \in Seq(Fields)
  BY ScalarIsRead
<1>3. w \in Seq(Fields)
  <2>1. 1 \in 1 .. n
    OBVIOUS
  <2>2. QED
    BY <1>2, <2>1
<1>4. << >> \in Seq(Fields) /\ w \o << >> = w /\ << >> \o w = w
  <2> HIDE DEF w
  <2>1. QED
    BY <1>3, EmptySeq, ConcatEmptySeq
<1>5. 0 \in P
  <2>1. Written(r, type, data, 0) = << >>
    BY DEF Written
  <2>2. E(0) = << >>
    BY <2>1, FlattenEmpty DEF Elements
  <2>3. 0 \in 0 .. n /\ 0 < n /\ 0 + 1 = 1
    OBVIOUS
  <2>4. E(0 + 1) = E(0) \o w
    BY <1>1, <2>3
  <2> HIDE DEF E, w
  <2>5. E(0 + 1) = w \o << >>
    BY <1>4, <2>2, <2>4
  <2>6. QED
    BY <1>4, <2>5
<1>6. ASSUME NEW k \in Nat, k \in P PROVE k + 1 \in P
  <2> SUFFICES ASSUME (k + 1) + 1 <= n
               PROVE  \E t \in Seq(Fields) : E((k + 1) + 1) = w \o t
    OBVIOUS
  <2>1. k + 1 <= n /\ k + 1 \in 0 .. n /\ k + 1 < n /\ (k + 1) + 1 \in 1 .. n
    OBVIOUS
  <2>2. PICK t \in Seq(Fields) : E(k + 1) = w \o t
    <3> HIDE DEF E, w
    <3>1. QED
      BY <1>6, <2>1
  <2> DEFINE x == WriteScalar(r, type, data[(k + 1) + 1])
  <2>3. E((k + 1) + 1) = E(k + 1) \o x
    BY <1>1, <2>1
  <2>4. x \in Seq(Fields)
    BY <1>2, <2>1
  <2> HIDE DEF E, w, x, P
  <2>5. (w \o t) \o x = w \o (t \o x) /\ t \o x \in Seq(Fields)
    BY <1>3, <2>4, ConcatAssociative, ConcatProperties
  <2>6. E((k + 1) + 1) = w \o (t \o x)
    BY <2>2, <2>3, <2>5
  <2>7. QED
    BY <2>5, <2>6
<1>7. n - 1 \in P
  <2> HIDE DEF P
  <2>1. n - 1 \in Nat
    OBVIOUS
  <2>2. QED
    BY <1>5, <1>6, <2>1, Induction
<1>8. (n - 1) + 1 = n
  OBVIOUS
<1> HIDE DEF E, w
<1>9. \E t \in Seq(Fields) : E(n) = w \o t
  BY <1>7, <1>8
<1>10. QED
  BY <1>9 DEF E, w

\* Scalars of different types start with different kinds of field in revision 2.
LEMMA FirstKinds ==
    ASSUME NEW a \in BaseTypes, NEW b \in BaseTypes, a # b
    PROVE  FirstKind(a) # FirstKind(b)
BY DEF FirstKind, ArrayTypes, BaseTypes

\* Of an array with elements, none can be read as of another type.
LEMMA OtherScalar ==
    ASSUME NEW type \in BaseTypes, NEW data, IsScalar(type, data),
           NEW other \in BaseTypes, other # type, NEW s \in Seq(Fields)
    PROVE  ReadScalar(2, other, WriteScalar(2, type, data) \o s) = {}
<1>1. PICK v \in FieldData, t \in Seq(Fields) :
         WriteScalar(2, type, data) = << Field(FirstKind(type), v) >> \o t
  BY FirstOfScalar, Zenon
<1>2. FirstKind(type) \in Kinds /\ FirstKind(type) # FirstKind(other)
  BY FirstKinds DEF FirstKind, Kinds, ArrayTypes, BaseTypes
<1> DEFINE f == << Field(FirstKind(type), v) >>
<1>3. f \in Seq(Fields)
  BY <1>2, FieldType
<1>4. ReadScalar(2, other, f \o (t \o s)) = {}
  <2>1. t \o s \in Seq(Fields)
    BY ConcatProperties
  <2>2. QED
    BY <1>2, <2>1, NothingOfOtherKind
<1> HIDE DEF f
<1>5. (f \o t) \o s = f \o (t \o s)
  BY <1>3, ConcatAssociative
<1>6. WriteScalar(2, type, data) = f \o t
  BY <1>1 DEF f
<1>7. QED
  BY <1>4, <1>5, <1>6

\* In revision 2 a value cannot be read as one of another type, but for an array
\* without elements.
LEMMA NotAsOtherType ==
    ASSUME NEW v \in Values, v.type \in TypesOf(2),
           v.type \in ArrayTypes => v.data # << >>,
           NEW type, type # v.type, NEW s \in Seq(Fields)
    PROVE  ReadValue(2, type, WriteValue(2, v) \o s) = {}
<1> DEFINE w == WriteValue(2, v) \o s
           data == CASE type \notin TypesOf(2) -> {}
                     [] type \in ArrayTypes ->
                          UNION {ReadElements(2, ElementType[type], n.val, n.rest) :
                                    n \in ReadField("B", w)}
                     [] OTHER -> ReadScalar(2, type, w)
<1>1. 2 \in Revs
  BY DEF Revs
<1>2. ReadValue(2, type, w) = {Read([type |-> type, data |-> d.val], d.rest) : d \in data}
  BY DEF ReadValue
<1> SUFFICES data = {}
  <2> HIDE DEF data
  <2>1. QED
    BY <1>2
<1> SUFFICES ASSUME type \in TypesOf(2) PROVE data = {}
  BY TypesFacts
<1>3. CASE v.type \notin ArrayTypes
  <2>1. v.type \in BaseTypes /\ IsScalar(v.type, v.data)
    BY <1>3, ValueFacts, TypesFacts
  <2>2. WriteValue(2, v) = WriteScalar(2, v.type, v.data)
    BY <1>3 DEF WriteValue
  <2>3. CASE type \notin ArrayTypes
    <3>1. type \in BaseTypes
      BY <2>3, TypesFacts
    <3>2. ReadScalar(2, type, w) = {}
      BY <2>1, <2>2, <3>1, OtherScalar
    <3> HIDE DEF w
    <3>3. QED
      BY <2>3, <3>2
  <2>4. CASE type \in ArrayTypes
    <3>1. PICK x \in FieldData, t \in Seq(Fields) :
             WriteValue(2, v) = << Field(FirstKind(v.type), x) >> \o t
      BY <2>1, <2>2, FirstOfScalar, Zenon
    <3>2. FirstKind(v.type) \in Kinds /\ FirstKind(v.type) # "B"
      BY <2>1 DEF FirstKind, Kinds, ArrayTypes, BaseTypes
    <3> DEFINE f == << Field(FirstKind(v.type), x) >>
    <3>3. f \in Seq(Fields) /\ WriteValue(2, v) = f \o t
      BY <3>1, <3>2, FieldType
    <3>4. t \o s \in Seq(Fields)
      BY ConcatProperties
    <3>5. ReadField("B", f \o (t \o s)) = {}
      BY <3>2, <3>4, KindIsRead, Zenon
    <3> HIDE DEF f
    <3>6. w = f \o (t \o s)
      <4>1. (f \o t) \o s = f \o (t \o s)
        BY <3>3, ConcatAssociative
      <4>2. QED
        BY <3>3, <4>1
    <3>7. ReadField("B", w) = {}
      BY <3>5, <3>6
    <3> HIDE DEF w
    <3>8. QED
      BY <2>4, <3>7
  <2>5. QED
    BY <2>3, <2>4
<1>4. CASE v.type \in ArrayTypes
  <2> DEFINE et == ElementType[v.type]
  <2>1. PICK n \in Nat :
           /\ n <= Len(v.data) /\ n >= 1
           /\ WriteValue(2, v) = << Field("B", n) >> \o Elements(2, et, v.data, n)
    BY <1>1, <1>4, ArrayIs
  <2>2. et \in BaseTypes /\ \A i \in 1 .. n : IsScalar(et, v.data[i])
    <3>1. Len(v.data) \in Nat
      BY <1>4, ValueFacts
    <3>2. \A i \in 1 .. n : i \in 1 .. Len(v.data)
      BY <2>1, <3>1
    <3>3. QED
      BY <1>4, <3>2, ValueFacts
  <2> DEFINE E == Elements(2, et, v.data, n)  b == << Field("B", n) >>
  <2> HIDE DEF et
  <2>3. et \in TypesOf(2)
    BY <2>2, TypesFacts
  <2>4. E \in Seq(Fields)
    BY <1>1, <2>2, <2>3, ElementsAreRead
  <2>5. b \in Seq(Fields) /\ "B" \in Kinds /\ n \in FieldData
    BY NatFields DEF Kinds
  <2> DEFINE t == E \o s
  <2> HIDE DEF E
  <2>6. w = b \o t /\ t \in Seq(Fields)
    <3> HIDE DEF b
    <3>1. QED
      BY <2>1, <2>4, <2>5, ConcatAssociative, ConcatProperties DEF b, E
  <2>7. CASE type \notin ArrayTypes
    <3>1. type \in BaseTypes
      BY <2>7, TypesFacts
    <3>2. FirstKind(type) # "B"
      BY <3>1 DEF FirstKind, ArrayTypes, BaseTypes
    <3> HIDE DEF t
    <3>3. ReadScalar(2, type, w) = {}
      BY <2>5, <2>6, <3>1, <3>2, NothingOfOtherKind
    <3> HIDE DEF w
    <3>4. QED
      BY <2>7, <3>3
  <2>8. CASE type \in ArrayTypes
    <3> DEFINE ot == ElementType[type]
    <3>1. ot \in BaseTypes /\ ot # et
      BY <1>4, <2>8 DEF ElementType, ArrayTypes, et, BaseTypes
    <3>2. PICK u \in Seq(Fields) : E = WriteScalar(2, et, v.data[1]) \o u
      BY <1>1, <2>1, <2>2, <2>3, FirstElement DEF E
    <3> DEFINE x == WriteScalar(2, et, v.data[1])
    <3>3. 1 \in 1 .. n
      BY <2>1
    <3>4. x \in Seq(Fields)
      BY <1>1, <2>2, <2>3, <3>3, ScalarIsRead
    <3>5. u \o s \in Seq(Fields)
      BY ConcatProperties
    <3> HIDE DEF ot
    <3>6. ReadScalar(2, ot, x \o (u \o s)) = {}
      BY <2>2, <3>1, <3>3, <3>5, OtherScalar
    <3> HIDE DEF x
    <3>7. t = x \o (u \o s)
      BY <3>2, <3>4, ConcatAssociative DEF x
    <3>8. ReadElements(2, ot, n, t) = {}
      <4>1. n > 0
        BY <2>1
      <4>2. ReadScalar(2, ot, t) = {}
        BY <3>6, <3>7
      <4> HIDE DEF t
      <4>3. QED
        BY <4>1, <4>2, NoElements
    <3>9. ReadField("B", w) = {Read(n, t)}
      <4> HIDE DEF t, w
      <4>1. ReadField("B", b \o t) = {Read(n, t)}
        BY <2>5, <2>6, KindIsRead, Zenon
      <4>2. QED
        BY <2>6, <4>1
    <3> DEFINE y == Read(n, t)
    <3>10. y.val = n /\ y.rest = t
      BY DEF Read
    <3> HIDE DEF w, t, y
    <3>11. UNION {ReadElements(2, ot, z.val, z.rest) : z \in ReadField("B", w)} = {}
      BY <3>8, <3>9, <3>10 DEF y
    <3>12. QED
      BY <2>8, <3>11 DEF ot
  <2>9. QED
    BY <2>7, <2>8
<1>5. QED
  BY <1>3, <1>4

-----------------------------------------------------------------------------
(* Messages: the header and the body *)

\* The messages of a connection.
Greeting == {ClientHello(r) : r \in Revs} \cup {ProtoUnsup(r) : r \in Revs}

Message == Greeting \cup {ServerHello, ServerHelloDone, ClientHelloDone} \cup EntryMsg

\* A header and what follows it.
LEMMA Header ==
    ASSUME NEW T, NEW h \in Seq(T), NEW s \in Seq(T)
    PROVE  /\ h \o s \in Seq(T) /\ Len(h) \in Nat /\ Len(h \o s) >= Len(h)
           /\ \A i \in 1 .. Len(h) : (h \o s)[i] = h[i]
           /\ Beyond(Len(h), h \o s) = s
<1>1. /\ h \o s \in Seq(T) /\ Len(h \o s) = Len(h) + Len(s)
      /\ Len(h) \in Nat /\ Len(s) \in Nat
      /\ \A i \in 1 .. Len(h) + Len(s) :
            (h \o s)[i] = IF i <= Len(h) THEN h[i] ELSE s[i - Len(h)]
  BY ConcatProperties, LenProperties
<1>2. \A i \in 1 .. Len(h) : (h \o s)[i] = h[i]
  BY <1>1
<1>3. SubSeq(h \o s, Len(h) + 1, Len(h) + Len(s)) = s
  <2>1. CASE Len(s) = 0
    <3>1. SubSeq(h \o s, Len(h) + 1, Len(h) + Len(s)) = << >>
      BY <1>1, <2>1, SubSeqEmpty
    <3>2. QED
      BY <2>1, <3>1, EmptySeq
  <2>2. CASE Len(s) # 0
    <3> DEFINE a == Len(h) + 1  b == Len(h) + Len(s)
    <3>1. /\ a \in Len(h) + 1 .. Len(h) + Len(s) /\ b \in Len(h) + 1 .. Len(h) + Len(s)
          /\ a - Len(h) = 1 /\ b - Len(h) = Len(s)
      BY <1>1, <2>2
    <3> HIDE DEF a, b
    <3>2. SubSeq(h \o s, a, b) = SubSeq(s, a - Len(h), b - Len(h))
      BY <3>1, SubSeqOfConcat2
    <3>3. SubSeq(s, 1, Len(s)) = s
      BY SubSeqFull
    <3>4. QED
      BY <3>1, <3>2, <3>3 DEF a, b
  <2>3. QED
    BY <2>1, <2>2
<1>4. QED
  BY <1>1, <1>2, <1>3 DEF Beyond

\* Headers of one, two and three fields.
LEMMA OneField ==
    ASSUME NEW f \in Fields, NEW s \in Seq(Fields)
    PROVE  LET w == << f >> \o s
           IN  /\ w \in Seq(Fields) /\ Len(w) >= 1 /\ w[1] = f
               /\ Beyond(1, w) = s /\ Tail(w) = s
<1> DEFINE h == << f >>
<1>1. h \in Seq(Fields) /\ Len(h) = 1 /\ h[1] = f
  OBVIOUS
<1>2. Tail(h \o s) = s
  BY FirstField
<1> HIDE DEF h
<1>3. /\ h \o s \in Seq(Fields) /\ Len(h \o s) >= 1
      /\ \A i \in 1 .. 1 : (h \o s)[i] = h[i]
      /\ Beyond(1, h \o s) = s
  BY <1>1, Header
<1>4. (h \o s)[1] = f
  BY <1>1, <1>3
<1>5. QED
  BY <1>2, <1>3, <1>4 DEF h

\* A header of two fields.
LEMMA TwoFields ==
    ASSUME NEW f \in Fields, NEW g \in Fields, NEW s \in Seq(Fields)
    PROVE  LET w == << f, g >> \o s
           IN  /\ w \in Seq(Fields) /\ Len(w) >= 2 /\ w[1] = f /\ w[2] = g
               /\ Beyond(2, w) = s
<1> DEFINE h == << f, g >>
<1>1. h \in Seq(Fields) /\ Len(h) = 2 /\ h[1] = f /\ h[2] = g
  OBVIOUS
<1> HIDE DEF h
<1>2. /\ h \o s \in Seq(Fields) /\ Len(h \o s) >= 2
      /\ \A i \in 1 .. 2 : (h \o s)[i] = h[i]
      /\ Beyond(2, h \o s) = s
  <2>1. /\ h \o s \in Seq(Fields) /\ Len(h \o s) >= Len(h)
        /\ \A i \in 1 .. Len(h) : (h \o s)[i] = h[i]
        /\ Beyond(Len(h), h \o s) = s
    BY <1>1, Header
  <2>2. QED
    BY <1>1, <2>1
<1>3. (h \o s)[1] = f /\ (h \o s)[2] = g
  BY <1>1, <1>2
<1>4. QED
  BY <1>2, <1>3 DEF h

\* A header of three fields.
LEMMA ThreeFields ==
    ASSUME NEW f \in Fields, NEW g \in Fields, NEW k \in Fields, NEW s \in Seq(Fields)
    PROVE  LET w == << f, g, k >> \o s
           IN  /\ w \in Seq(Fields) /\ Len(w) >= 3
               /\ w[1] = f /\ w[2] = g /\ w[3] = k
               /\ Beyond(3, w) = s
<1> DEFINE h == << f, g, k >>
<1>1. h \in Seq(Fields) /\ Len(h) = 3 /\ h[1] = f /\ h[2] = g /\ h[3] = k
  OBVIOUS
<1> HIDE DEF h
<1>2. /\ h \o s \in Seq(Fields) /\ Len(h \o s) >= 3
      /\ \A i \in 1 .. 3 : (h \o s)[i] = h[i]
      /\ Beyond(3, h \o s) = s
  <2>1. /\ h \o s \in Seq(Fields) /\ Len(h \o s) >= Len(h)
        /\ \A i \in 1 .. Len(h) : (h \o s)[i] = h[i]
        /\ Beyond(Len(h), h \o s) = s
    BY <1>1, Header
  <2>2. QED
    BY <1>1, <2>1
<1>3. (h \o s)[1] = f /\ (h \o s)[2] = g /\ (h \o s)[3] = k
  BY <1>1, <1>2
<1>4. QED
  BY <1>2, <1>3 DEF h

\* A message starts with its type.
LEMMA DecodeIs ==
    ASSUME NEW own, NEW st, NEW type \in Words, NEW body \in Seq(Fields), NEW s \in Seq(Fields)
    PROVE  /\ << Field("msg", type) >> \o body \in Seq(Fields)
           /\ Decode(own, st, (<< Field("msg", type) >> \o body) \o s)
                 = ReadBody(own, st, type, body \o s)
<1> DEFINE f == Field("msg", type)  t == body \o s
<1>1. f \in Fields /\ f.kind = "msg" /\ f.v = type
  BY FieldType DEF Kinds, FieldData
<1> HIDE DEF f
<1>2. << f >> \in Seq(Fields)
  BY <1>1
<1>3. t \in Seq(Fields) /\ << f >> \o body \in Seq(Fields) /\ (<< f >> \o body) \o s = << f >> \o t
  BY <1>2, ConcatProperties, ConcatAssociative
<1> HIDE DEF t
<1>4. ReadField("msg", << f >> \o t) = {Read(type, t)}
  BY <1>1, <1>3, FieldIsRead
<1>5. Read(type, t).val = type /\ Read(type, t).rest = t
  BY DEF Read
<1>6. Decode(own, st, << f >> \o t) = ReadBody(own, st, type, t)
  BY <1>4, <1>5 DEF Decode
<1>7. QED
  BY <1>3, <1>6 DEF f, t

\* The body of a message: its fields after the type.
Body(r, m) ==
    CASE m.type \in Plain -> << >>
      [] m.type = "ClientHello" ->
            << Field("H", m.rev) >> \o
            (IF m.rev >= 3 THEN WriteName(3, "identity") ELSE << >>)
      [] m.type = "ProtoUnsup"  -> << Field("H", m.rev) >>
      [] m.type = "ServerHello" -> << Field("b", 0) >> \o WriteName(3, "identity")
      [] m.type = "EntryAssign" ->
            ((WriteName(r, m.name) \o << Field("vtype", m.value.type) >>) \o
             (IF r >= 3 THEN << Field("HHb", << m.id, m.seq, m.flags >>) >>
                        ELSE << Field("HH", << m.id, m.seq >>) >>)) \o
            WriteValue(r, m.value)
      [] m.type = "EntryUpdate" ->
            (<< Field("HH", << m.id, m.seq >>) >> \o
             (IF r >= 3 THEN << Field("vtype", m.value.type) >> ELSE << >>)) \o
            WriteValue(r, m.value)
      [] m.type = "FlagsUpdate"  -> << Field("Hb", << m.id, m.flags >>) >>
      [] m.type = "EntryDelete"  -> << Field("H", m.id) >>
      [] m.type = "ClearEntries" -> << Field("I", "magic") >>

MessageTypes == Plain \cup {"ClientHello", "ProtoUnsup", "ServerHello", "EntryAssign",
                            "EntryUpdate", "FlagsUpdate", "EntryDelete", "ClearEntries"}

\* A message is its type and its body.
LEMMA EncodeIs ==
    ASSUME NEW r \in Revs, NEW m, m.type \in MessageTypes
    PROVE  Encode(r, m) = IF Sayable(r, m) THEN << Field("msg", m.type) >> \o Body(r, m)
                          ELSE << >>
BY DEF Encode, Body, Sayable, Revs, MessageTypes, Plain

-----------------------------------------------------------------------------
(* Messages of the handshake, and those without a value *)

\* A codec of revision 3 needs nothing but the message; one of revision 2 must know
\* the type of what an update holds.
NeedsNoStore(own, m) == own = 3 \/ m.type # "EntryUpdate"

\* All that can be read is x, and it can be, where no store is needed.
ReadsAs(own, m, found, x) == found \subseteq {x} /\ (NeedsNoStore(own, m) => x \in found)

\* The body of a message is read as it was written, by a codec of a revision.
GoodBody(own, r, m) ==
    /\ Body(r, m) \in Seq(Fields)
    /\ \A st : \A s \in Seq(Fields) :
          ReadsAs(own, m, ReadBody(own, st, m.type, Body(r, m) \o s), Read(HeardAs(r, m), s))

\* Messages without a body (_empty_msgtypes).
LEMMA PlainBody ==
    ASSUME NEW own, NEW r \in Revs, NEW m \in {ServerHelloDone, ClientHelloDone}
    PROVE  GoodBody(own, r, m)
<1>1. /\ m.type \in Plain /\ m = [type |-> m.type]
      /\ m.type \notin {"EntryAssign", "EntryUpdate"}
  BY DEF ServerHelloDone, ClientHelloDone, Plain
<1>2. Body(r, m) = << >> /\ << >> \in Seq(Fields)
  BY <1>1, EmptySeq DEF Body, Plain
<1>3. HeardAs(r, m) = m
  BY <1>1 DEF HeardAs
<1>4. ASSUME NEW st, NEW s \in Seq(Fields)
      PROVE  ReadBody(own, st, m.type, << >> \o s) = {Read(m, s)}
  <2>1. << >> \o s = s
    OBVIOUS
  <2>2. ReadBody(own, st, m.type, s) = {Read([type |-> m.type], s)}
    BY <1>1 DEF ReadBody, Plain
  <2>3. QED
    BY <1>1, <2>1, <2>2
<1>5. QED
  BY <1>2, <1>3, <1>4 DEF GoodBody, ReadsAs

\* Two fields, one after the other.
LEMMA PairOfFields ==
    ASSUME NEW f \in Fields, NEW g \in Fields
    PROVE  /\ << f >> \in Seq(Fields) /\ << f, g >> \in Seq(Fields)
           /\ << f >> \o << >> = << f >> /\ << f >> \o << g >> = << f, g >>
<1>1. << f >> \in Seq(Fields) /\ << f, g >> \in Seq(Fields)
  OBVIOUS
<1>2. << f >> \o << >> = << f >>
  BY <1>1, ConcatEmptySeq
<1>3. << f >> \o << g >> = << f, g >>
  BY FieldBefore
<1>4. QED
  BY <1>1, <1>2, <1>3

\* The fields of the greetings.
LEMMA WordFields ==
    /\ \A r \in Revs : Field("H", r) \in Fields
    /\ Field("b", 0) \in Fields /\ Field("name3", "identity") \in Fields
    /\ Field("I", "magic") \in Fields
    /\ WriteName(3, "identity") = << Field("name3", "identity") >>
<1>1. \A r \in Revs : r \in FieldData
  BY DEF FieldData, Revs
<1>2. 0 \in FieldData /\ "identity" \in FieldData /\ "magic" \in FieldData
  BY DEF FieldData, Words
<1>3. QED
  BY <1>1, <1>2, FieldType DEF Kinds, WriteName

\* The greetings do not depend on the revision of either codec.
LEMMA GreetingBody ==
    ASSUME NEW own, NEW r \in Revs, NEW m \in Greeting
    PROVE  GoodBody(own, r, m)
<1>1. m.type \notin Plain /\ m.type \notin {"EntryAssign", "EntryUpdate"}
  BY DEF Greeting, ClientHello, ProtoUnsup, Plain
<1>2. HeardAs(r, m) = m
  BY <1>1 DEF HeardAs
<1>3. CASE \E q \in Revs : m = ProtoUnsup(q)
  <2>1. PICK q \in Revs : m = ProtoUnsup(q)
    BY <1>3
  <2>2. m.type = "ProtoUnsup" /\ m.rev = q
    BY <2>1 DEF ProtoUnsup
  <2> DEFINE f == Field("H", q)
  <2>3. Body(r, m) = << f >>
    BY <1>1, <2>2 DEF Body
  <2>4. f \in Fields /\ f.kind = "H" /\ f.v = q
    BY WordFields DEF Field
  <2> HIDE DEF f
  <2>5. ASSUME NEW st, NEW s \in Seq(Fields)
        PROVE  ReadBody(own, st, m.type, << f >> \o s) = {Read(m, s)}
    <3>1. ReadField("H", << f >> \o s) = {Read(q, s)}
      BY <2>4, FieldIsRead
    <3>2. Read(q, s).val = q /\ Read(q, s).rest = s
      BY DEF Read
    <3>3. ReadBody(own, st, m.type, << f >> \o s) =
             {Read(ProtoUnsup(h.val), h.rest) : h \in ReadField("H", << f >> \o s)}
      BY <1>1, <2>2 DEF ReadBody
    <3>4. QED
      BY <2>1, <3>1, <3>2, <3>3
  <2>6. << f >> \in Seq(Fields)
    BY <2>4
  <2>7. QED
    BY <1>2, <2>3, <2>5, <2>6 DEF GoodBody, ReadsAs
<1>4. CASE \E q \in Revs : m = ClientHello(q)
  <2>1. PICK q \in Revs : m = ClientHello(q)
    BY <1>4
  <2>2. m.type = "ClientHello" /\ m.rev = q
    BY <2>1 DEF ClientHello
  <2> DEFINE f == Field("H", q)  g == Field("name3", "identity")
  <2>3. Body(r, m) = << f >> \o (IF q >= 3 THEN << g >> ELSE << >>)
    BY <1>1, <2>2, WordFields DEF Body
  <2>4. /\ f \in Fields /\ f.kind = "H" /\ f.v = q
        /\ g \in Fields /\ g.kind = "name3"
    BY WordFields DEF Field
  <2>5. \A st, s : ReadBody(own, st, m.type, s) = ReadHello(s)
    BY <1>1, <2>2 DEF ReadBody
  <2> HIDE DEF f, g
  <2>6. << f >> \o << >> = << f >> /\ << f >> \in Seq(Fields)
        /\ << f >> \o << g >> = << f, g >> /\ << f, g >> \in Seq(Fields)
    BY <2>4, PairOfFields
  <2>7. CASE q = 2
    <3>1. Body(r, m) = << f >>
      BY <2>3, <2>6, <2>7
    <3>2. ASSUME NEW s \in Seq(Fields) PROVE ReadHello(<< f >> \o s) = {Read(m, s)}
      <4> DEFINE w == << f >> \o s
      <4>1. Len(w) >= 1 /\ w[1] = f /\ Tail(w) = s /\ Len(w) \in Nat
        <5>1. w \in Seq(Fields)
          BY <2>4, OneField
        <5>2. QED
          BY <2>4, <5>1, OneField, LenProperties
      <4> HIDE DEF w
      <4>2. Starts(w, << "H" >>) /\ w[1].v < 3
        BY <2>4, <2>7, <4>1 DEF Starts
      <4>3. ReadHello(w) = {Read(ClientHello(w[1].v), Tail(w))}
        BY <2>4, <2>7, <4>1, <4>2 DEF ReadHello
      <4>4. QED
        BY <2>1, <2>4, <4>1, <4>3 DEF w
    <3>3. QED
      BY <1>2, <2>5, <2>6, <3>1, <3>2 DEF GoodBody, ReadsAs
  <2>8. CASE q = 3
    <3>1. Body(r, m) = << f, g >>
      <4>1. q >= 3
        BY <2>8
      <4>2. QED
        BY <2>3, <2>6, <4>1
    <3>2. ASSUME NEW s \in Seq(Fields) PROVE ReadHello(<< f, g >> \o s) = {Read(m, s)}
      <4> DEFINE w == << f, g >> \o s
      <4>1. w \in Seq(Fields) /\ Len(w) >= 2 /\ w[1] = f /\ w[2] = g /\ Beyond(2, w) = s
        BY <2>4, TwoFields
      <4> HIDE DEF w
      <4>2. Starts(w, << "H", "name3" >>) /\ w[1].v >= 3 /\ ~(w[1].v < 3)
        BY <2>4, <2>8, <4>1 DEF Starts
      <4>3. ReadHello(w) = {Read(ClientHello(w[1].v), Beyond(2, w))}
        BY <4>2 DEF ReadHello
      <4>4. QED
        BY <2>1, <2>4, <4>1, <4>3 DEF w
    <3>3. QED
      BY <1>2, <2>5, <2>6, <3>1, <3>2 DEF GoodBody, ReadsAs
  <2>9. QED
    BY <2>7, <2>8 DEF Revs
<1>5. QED
  BY <1>3, <1>4 DEF Greeting

\* The messages that only revision 3 has.
LEMMA NewerBody ==
    ASSUME NEW m \in {ServerHello} \cup FlagsMsg \cup DeleteMsg \cup ClearMsg
    PROVE  GoodBody(3, 3, m)
<1>1. /\ m.type \notin Plain
      /\ m.type \notin {"EntryAssign", "EntryUpdate", "ClientHello", "ProtoUnsup"}
  BY DEF ServerHello, FlagsMsg, DeleteMsg, ClearMsg, Plain
<1>2. HeardAs(3, m) = m
  BY <1>1 DEF HeardAs
<1>3. \A st, s : ReadBody(3, st, m.type, s) = ReadNewer(m.type, s)
  BY <1>1 DEF ReadBody
<1>4. CASE m = ServerHello
  <2>1. m.type = "ServerHello"
    BY <1>4 DEF ServerHello
  <2> DEFINE f == Field("b", 0)  g == Field("name3", "identity")
  <2>2. Body(3, m) = << f >> \o << g >>
    BY <1>1, <2>1, WordFields DEF Body
  <2>3. f \in Fields /\ f.kind = "b" /\ g \in Fields /\ g.kind = "name3"
    BY WordFields DEF Field
  <2> HIDE DEF f, g
  <2>4. Body(3, m) = << f, g >> /\ << f, g >> \in Seq(Fields)
    BY <2>2, <2>3, PairOfFields
  <2>5. ASSUME NEW s \in Seq(Fields) PROVE ReadNewer(m.type, << f, g >> \o s) = {Read(m, s)}
    <3> DEFINE w == << f, g >> \o s
    <3>1. w \in Seq(Fields) /\ Len(w) >= 2 /\ w[1] = f /\ w[2] = g /\ Beyond(2, w) = s
      BY <2>3, TwoFields
    <3> HIDE DEF w
    <3>2. Starts(w, << "b", "name3" >>)
      BY <2>3, <3>1 DEF Starts
    <3>3. ReadNewer("ServerHello", w) = {Read(ServerHello, Beyond(2, w))}
      BY <3>2 DEF ReadNewer
    <3>4. QED
      BY <1>4, <2>1, <3>1, <3>3 DEF w
  <2>6. QED
    BY <1>2, <1>3, <2>4, <2>5 DEF GoodBody, ReadsAs
<1>5. CASE m \in FlagsMsg \cup DeleteMsg \cup ClearMsg
  <2> DEFINE f == CASE m.type = "FlagsUpdate"  -> Field("Hb", << m.id, m.flags >>)
                    [] m.type = "EntryDelete"  -> Field("H", m.id)
                    [] m.type = "ClearEntries" -> Field("I", "magic")
  <2>1. /\ m.type \in {"FlagsUpdate", "EntryDelete", "ClearEntries"}
        /\ m.type = "FlagsUpdate" => /\ m.id \in Nat /\ m.flags \in BOOLEAN
                                     /\ m = FlagsUpdate(m.id, m.flags)
        /\ m.type = "EntryDelete" => m.id \in Nat /\ m = EntryDelete(m.id)
        /\ m.type = "ClearEntries" => m = ClearEntries
    BY <1>5 DEF FlagsMsg, DeleteMsg, ClearMsg, FlagsUpdate, EntryDelete, ClearEntries
  <2>2. Body(3, m) = << f >>
    BY <1>1, <2>1 DEF Body
  <2>3. f \in Fields
    <3>1. CASE m.type = "FlagsUpdate"
      <4>1. << m.id, m.flags >> \in FieldData
        BY <2>1, <3>1 DEF FieldData
      <4>2. QED
        BY <3>1, <4>1, FieldType DEF Kinds
    <3>2. CASE m.type = "EntryDelete"
      BY <2>1, <3>2, NatFields
    <3>3. CASE m.type = "ClearEntries"
      BY <3>3, WordFields
    <3>4. QED
      BY <2>1, <3>1, <3>2, <3>3
  <2>4. /\ m.type = "FlagsUpdate"  => f.kind = "Hb" /\ f.v = << m.id, m.flags >>
        /\ m.type = "EntryDelete"  => f.kind = "H" /\ f.v = m.id
        /\ m.type = "ClearEntries" => f.kind = "I"
    BY DEF Field
  <2> HIDE DEF f
  <2>5. ASSUME NEW s \in Seq(Fields) PROVE ReadNewer(m.type, << f >> \o s) = {Read(m, s)}
    <3> DEFINE w == << f >> \o s
    <3>1. w \in Seq(Fields) /\ Len(w) >= 1 /\ w[1] = f /\ Tail(w) = s
      BY <2>3, OneField
    <3> HIDE DEF w
    <3>2. \A k : k = f.kind => Starts(w, << k >>)
      BY <3>1 DEF Starts
    <3>3. CASE m.type = "FlagsUpdate"
      <4>1. Starts(w, << "Hb" >>)
        BY <2>4, <3>2, <3>3
      <4>2. ReadNewer(m.type, w) = {Read(FlagsUpdate(w[1].v[1], w[1].v[2]), Tail(w))}
        BY <3>3, <4>1 DEF ReadNewer
      <4>3. w[1].v[1] = m.id /\ w[1].v[2] = m.flags
        BY <2>4, <3>1, <3>3
      <4>4. QED
        BY <2>1, <3>1, <3>3, <4>2, <4>3 DEF w
    <3>4. CASE m.type = "EntryDelete"
      <4>1. Starts(w, << "H" >>)
        BY <2>4, <3>2, <3>4
      <4>2. ReadNewer(m.type, w) = {Read(EntryDelete(w[1].v), Tail(w))}
        BY <3>4, <4>1 DEF ReadNewer
      <4>3. QED
        BY <2>1, <2>4, <3>1, <3>4, <4>2 DEF w
    <3>5. CASE m.type = "ClearEntries"
      <4>1. Starts(w, << "I" >>)
        BY <2>4, <3>2, <3>5
      <4>2. ReadNewer(m.type, w) = {Read(ClearEntries, Tail(w))}
        BY <3>5, <4>1 DEF ReadNewer
      <4>3. QED
        BY <2>1, <3>1, <3>5, <4>2 DEF w
    <3>6. QED
      BY <2>1, <3>3, <3>4, <3>5
  <2>6. << f >> \in Seq(Fields)
    BY <2>3
  <2>7. QED
    BY <1>2, <1>3, <2>2, <2>5, <2>6 DEF GoodBody, ReadsAs
<1>6. QED
  BY <1>4, <1>5

-----------------------------------------------------------------------------
(* Messages with a value *)

\* The fields that the header of an entry message is made of.
LEMMA EntryFields ==
    ASSUME NEW id \in Nat, NEW seq \in Nat, NEW flags \in BOOLEAN, NEW n \in Names,
           NEW type \in CommonTypes \cup NewTypes
    PROVE  /\ Field("HH", << id, seq >>) \in Fields
           /\ Field("HHb", << id, seq, flags >>) \in Fields
           /\ Field("vtype", type) \in Fields
           /\ Field("name2", n) \in Fields /\ Field("name3", n) \in Fields
<1>1. << id, seq >> \in FieldData
  BY DEF FieldData
<1>2. << id, seq, flags >> \in FieldData
  BY DEF FieldData
<1>3. type \in FieldData /\ n \in FieldData
  BY DEF FieldData, Words
<1>4. "HH" \in Kinds /\ "HHb" \in Kinds /\ "vtype" \in Kinds /\ "name2" \in Kinds
      /\ "name3" \in Kinds
  BY DEF Kinds
<1>5. QED
  BY <1>1, <1>2, <1>3, <1>4, FieldType

\* Sequence numbers are numbers.
LEMMA SeqNumsAreNat == SeqNums \subseteq Nat
BY SeqSpaceAssumption DEF SeqNums

\* An assignment says its type, so either revision reads it as it was written.
LEMMA AssignBody ==
    ASSUME NEW r \in Revs, NEW m \in AssignMsg, m.value.type \in TypesOf(r)
    PROVE  GoodBody(r, r, m)
<1> DEFINE v == m.value
           f == Field(IF r = 2 THEN "name2" ELSE "name3", m.name)
           g == Field("vtype", v.type)
           k == IF r >= 3 THEN Field("HHb", << m.id, m.seq, m.flags >>)
                ELSE Field("HH", << m.id, m.seq >>)
           w == WriteValue(r, v)
<1>1. /\ m.type = "EntryAssign" /\ m.name \in Names /\ m.id \in Nat /\ m.seq \in Nat
      /\ m.flags \in BOOLEAN /\ v \in Values
      /\ m = EntryAssign(m.name, m.id, m.seq, v, m.flags)
  BY SeqNumsAreNat DEF AssignMsg, EntryAssign
<1>2. f \in Fields /\ g \in Fields /\ k \in Fields
  <2>1. v.type \in CommonTypes \cup NewTypes
    BY <1>1, ValueFacts
  <2>2. QED
    BY <1>1, <2>1, EntryFields
<1>3. w \in Seq(Fields) /\ \A s \in Seq(Fields) :
         ReadValue(r, v.type, w \o s) = {Read(Heard(r, v), s)}
  BY <1>1, ValueIsRead
<1>4. Body(r, m) = ((<< f >> \o << g >>) \o << k >>) \o w
  BY <1>1 DEF Body, WriteName, Plain
<1>5. /\ f.kind = (IF r = 2 THEN "name2" ELSE "name3") /\ f.v = m.name
      /\ g.kind = "vtype" /\ g.v = v.type
      /\ k.kind = (IF r >= 3 THEN "HHb" ELSE "HH")
      /\ k.v = IF r >= 3 THEN << m.id, m.seq, m.flags >> ELSE << m.id, m.seq >>
  BY DEF Field
<1> HIDE DEF f, g, k, w
<1>6. Body(r, m) = << f, g, k >> \o w /\ << f, g, k >> \in Seq(Fields)
  <2>1. << f >> \o << g >> = << f, g >> /\ << f, g >> \in Seq(Fields) /\ << k >> \in Seq(Fields)
    BY <1>2, PairOfFields
  <2>2. << f, g, k >> \in Seq(Fields) /\ << f >> \in Seq(Fields) /\ << g >> \in Seq(Fields)
    BY <1>2
  <2>3. << f >> \o << g, k >> = << f, g, k >> /\ << g >> \o << k >> = << g, k >>
    BY <1>2, FieldBefore
  <2>4. (<< f >> \o << g >>) \o << k >> = << f >> \o (<< g >> \o << k >>)
    BY <2>1, <2>2, ConcatAssociative
  <2>5. QED
    BY <1>4, <2>2, <2>3, <2>4
<1>7. Body(r, m) \in Seq(Fields)
  BY <1>3, <1>6, ConcatProperties
<1>8. HeardAs(r, m) = EntryAssign(m.name, m.id, m.seq, Heard(r, v), m.flags /\ r >= 3)
  BY <1>1 DEF HeardAs, EntryAssign
<1>9. ASSUME NEW st, NEW s \in Seq(Fields)
      PROVE  ReadBody(r, st, m.type, Body(r, m) \o s) = {Read(HeardAs(r, m), s)}
  <2> DEFINE t == w \o s  b == << f, g, k >> \o t
  <2>1. t \in Seq(Fields) /\ Body(r, m) \o s = b
    BY <1>3, <1>6, ConcatProperties, ConcatAssociative
  <2>2. ReadValue(r, v.type, t) = {Read(Heard(r, v), s)}
    BY <1>3
  <2> HIDE DEF t
  <2>3. b \in Seq(Fields) /\ Len(b) >= 3 /\ b[1] = f /\ b[2] = g /\ b[3] = k /\ Beyond(3, b) = t
    BY <1>2, <2>1, ThreeFields
  <2> HIDE DEF b
  <2>4. ReadBody(r, st, m.type, b) = ReadAssign(r, b)
    BY <1>1 DEF ReadBody, Plain
  <2>5. Starts(b, AssignHeader(r))
    <3>1. CASE r = 2
      BY <1>5, <2>3, <3>1 DEF Starts, AssignHeader
    <3>2. CASE r = 3
      BY <1>5, <2>3, <3>2 DEF Starts, AssignHeader
    <3>3. QED
      BY <3>1, <3>2 DEF Revs
  <2>6. /\ b[1].v = m.name /\ b[2].v = v.type /\ b[3].v = k.v
        /\ k.v[1] = m.id /\ k.v[2] = m.seq
    BY <1>5, <2>3
  <2>7. FlagsOf(r, k.v) = (m.flags /\ r >= 3)
    <3>1. CASE r = 2
      BY <3>1 DEF FlagsOf
    <3>2. CASE r = 3
      <4>1. k.v = << m.id, m.seq, m.flags >>
        BY <1>5, <3>2
      <4>2. Len(k.v) = 3 /\ k.v[3] = m.flags
        BY <4>1
      <4>3. QED
        BY <1>1, <3>2, <4>2 DEF FlagsOf
    <3>3. QED
      BY <3>1, <3>2 DEF Revs
  <2>8. ReadAssign(r, b) =
           {Read(EntryAssign(m.name, m.id, m.seq, x.val, m.flags /\ r >= 3), x.rest) :
               x \in {Read(Heard(r, v), s)}}
    BY <2>2, <2>3, <2>5, <2>6, <2>7 DEF ReadAssign
  <2>9. Read(Heard(r, v), s).val = Heard(r, v) /\ Read(Heard(r, v), s).rest = s
    BY DEF Read
  <2>10. QED
    BY <1>8, <2>1, <2>4, <2>8, <2>9
<1>10. QED
  BY <1>7, <1>9 DEF GoodBody, ReadsAs

\* In revision 2 an update does not say its type, and an array without elements would
\* be read as one of any array type: there is no such value, if revision 2 is spoken.
Unmistakable(r) == r = 2 => \A v \in Values : v.type \in ArrayTypes => v.data # << >>

\* An update says its type in revision 3; in revision 2 a reader that expects
\* another type than the value has reads nothing.
LEMMA UpdateBody ==
    ASSUME NEW r \in Revs, NEW m \in UpdateMsg, m.value.type \in TypesOf(r), Unmistakable(r)
    PROVE  GoodBody(r, r, m)
<1> DEFINE v == m.value
           f == Field("HH", << m.id, m.seq >>)
           g == Field("vtype", v.type)
           w == WriteValue(r, v)
<1>1. /\ m.type = "EntryUpdate" /\ m.id \in Nat /\ m.seq \in Nat /\ v \in Values
      /\ m = EntryUpdate(m.id, m.seq, v)
  BY SeqNumsAreNat DEF UpdateMsg, EntryUpdate
<1>2. f \in Fields /\ g \in Fields
  <2>1. v.type \in CommonTypes \cup NewTypes
    BY <1>1, ValueFacts
  <2>2. g \in Fields
    <3>1. v.type \in FieldData
      BY <2>1 DEF FieldData, Words
    <3>2. QED
      BY <3>1, FieldType DEF Kinds
  <2>3. << m.id, m.seq >> \in FieldData
    BY <1>1 DEF FieldData
  <2>4. QED
    BY <2>2, <2>3, FieldType DEF Kinds
<1>3. w \in Seq(Fields) /\ \A s \in Seq(Fields) :
         ReadValue(r, v.type, w \o s) = {Read(Heard(r, v), s)}
  BY <1>1, ValueIsRead
<1>4. Body(r, m) = (<< f >> \o (IF r >= 3 THEN << g >> ELSE << >>)) \o w
  BY <1>1 DEF Body, Plain
<1>5. /\ f.kind = "HH" /\ f.v = << m.id, m.seq >>
      /\ g.kind = "vtype" /\ g.v = v.type
  BY DEF Field
<1>6. r = 2 => \A s \in Seq(Fields) : \A type :
         ReadValue(r, type, w \o s) \subseteq {Read(Heard(r, v), s)}
  <2> SUFFICES ASSUME r = 2, NEW s \in Seq(Fields), NEW type
               PROVE  ReadValue(r, type, w \o s) \subseteq {Read(Heard(r, v), s)}
    OBVIOUS
  <2>1. CASE type = v.type
    BY <1>3, <2>1
  <2>2. CASE type # v.type
    <3>1. v.type \in TypesOf(2) /\ (v.type \in ArrayTypes => v.data # << >>)
      BY <1>1 DEF Unmistakable
    <3>2. ReadValue(2, type, WriteValue(2, v) \o s) = {}
      BY <1>1, <2>2, <3>1, NotAsOtherType
    <3>3. QED
      BY <3>2
  <2>3. QED
    BY <2>1, <2>2
<1> HIDE DEF f, g, w
<1>7. /\ << f >> \in Seq(Fields) /\ << f, g >> \in Seq(Fields)
      /\ << f >> \o << >> = << f >> /\ << f >> \o << g >> = << f, g >>
  BY <1>2, PairOfFields
<1>8. HeardAs(r, m) = EntryUpdate(m.id, m.seq, Heard(r, v))
  BY <1>1 DEF HeardAs, EntryUpdate
<1>9. \A st, s : ReadBody(r, st, m.type, s) = ReadUpdate(r, st, s)
  BY <1>1 DEF ReadBody, Plain
<1>10. CASE r = 2
  <2>1. Body(r, m) = << f >> \o w
    BY <1>4, <1>7, <1>10
  <2>2. ASSUME NEW st, NEW s \in Seq(Fields)
        PROVE  ReadBody(r, st, m.type, Body(r, m) \o s) \subseteq {Read(HeardAs(r, m), s)}
    <3> DEFINE t == w \o s  b == << f >> \o t
    <3>1. t \in Seq(Fields) /\ Body(r, m) \o s = b
      BY <1>3, <1>7, <2>1, ConcatProperties, ConcatAssociative
    <3>2. \A type : ReadValue(r, type, t) \subseteq {Read(Heard(r, v), s)}
      BY <1>6, <1>10
    <3> HIDE DEF t
    <3>3. b \in Seq(Fields) /\ Len(b) >= 1 /\ b[1] = f /\ Beyond(1, b) = t
      BY <1>2, <3>1, OneField
    <3> HIDE DEF b
    <3>4. UpdateHeader(r) = << "HH" >> /\ Len(UpdateHeader(r)) = 1
      BY <1>10 DEF UpdateHeader
    <3>5. Starts(b, UpdateHeader(r))
      BY <1>5, <3>3, <3>4 DEF Starts
    <3>6. b[1].v[1] = m.id /\ b[1].v[2] = m.seq
      BY <1>5, <3>3
    <3> DEFINE q == TypeOfUpdate(r, st, b)
    <3>7. ReadUpdate(r, st, b) =
             {Read(EntryUpdate(m.id, m.seq, x.val), x.rest) : x \in ReadValue(r, q, t)}
      BY <3>3, <3>4, <3>5, <3>6 DEF ReadUpdate
    <3>8. Read(Heard(r, v), s).val = Heard(r, v) /\ Read(Heard(r, v), s).rest = s
      BY DEF Read
    <3>9. ReadValue(r, q, t) \subseteq {Read(Heard(r, v), s)}
      BY <3>2
    <3> HIDE DEF q
    <3>10. QED
      BY <1>8, <1>9, <3>1, <3>7, <3>8, <3>9
  <2>3. Body(r, m) \in Seq(Fields)
    BY <1>3, <1>7, <2>1, ConcatProperties
  <2>4. QED
    BY <1>1, <1>10, <2>2, <2>3 DEF GoodBody, ReadsAs, NeedsNoStore
<1>11. CASE r = 3
  <2>1. Body(r, m) = << f, g >> \o w
    <3>1. r >= 3
      BY <1>11
    <3>2. QED
      BY <1>4, <1>7, <3>1
  <2>2. ASSUME NEW st, NEW s \in Seq(Fields)
        PROVE  ReadBody(r, st, m.type, Body(r, m) \o s) = {Read(HeardAs(r, m), s)}
    <3> DEFINE t == w \o s  b == << f, g >> \o t
    <3>1. t \in Seq(Fields) /\ Body(r, m) \o s = b
      BY <1>3, <1>7, <2>1, ConcatProperties, ConcatAssociative
    <3>2. ReadValue(r, v.type, t) = {Read(Heard(r, v), s)}
      BY <1>3
    <3> HIDE DEF t
    <3>3. b \in Seq(Fields) /\ Len(b) >= 2 /\ b[1] = f /\ b[2] = g /\ Beyond(2, b) = t
      BY <1>2, <3>1, TwoFields
    <3> HIDE DEF b
    <3>4. UpdateHeader(r) = << "HH", "vtype" >> /\ Len(UpdateHeader(r)) = 2
      BY <1>11 DEF UpdateHeader
    <3>5. Starts(b, UpdateHeader(r))
      BY <1>5, <3>3, <3>4 DEF Starts
    <3>6. b[1].v[1] = m.id /\ b[1].v[2] = m.seq /\ TypeOfUpdate(r, st, b) = v.type
      BY <1>5, <1>11, <3>3 DEF TypeOfUpdate
    <3>7. ReadUpdate(r, st, b) =
             {Read(EntryUpdate(m.id, m.seq, x.val), x.rest) : x \in {Read(Heard(r, v), s)}}
      BY <3>2, <3>3, <3>4, <3>5, <3>6 DEF ReadUpdate
    <3>8. Read(Heard(r, v), s).val = Heard(r, v) /\ Read(Heard(r, v), s).rest = s
      BY DEF Read
    <3>9. QED
      BY <1>8, <1>9, <3>1, <3>7, <3>8
  <2>3. Body(r, m) \in Seq(Fields)
    BY <1>3, <1>7, <2>1, ConcatProperties
  <2>4. QED
    BY <2>2, <2>3 DEF GoodBody, ReadsAs
<1>12. QED
  BY <1>10, <1>11 DEF Revs

-----------------------------------------------------------------------------
(* Messages *)

\* What is heard of a message is a message; of a greeting it is the greeting.
LEMMA HeardMessage ==
    ASSUME NEW r \in Revs, NEW m \in Message
    PROVE  HeardAs(r, m) \in Message /\ (m \in Greeting => HeardAs(r, m) = m)
<1>1. \A x \in Message \ (AssignMsg \cup UpdateMsg) : x.type \notin {"EntryAssign", "EntryUpdate"}
  BY DEF Message, Greeting, ClientHello, ProtoUnsup, ServerHello, ServerHelloDone,
         ClientHelloDone, EntryMsg, FlagsMsg, DeleteMsg, ClearMsg
<1>2. CASE m \in AssignMsg
  <2>1. m.type = "EntryAssign" /\ m.value \in Values /\ m.flags \in BOOLEAN
    BY <1>2 DEF AssignMsg
  <2>2. Heard(r, m.value) \in Values /\ (m.flags /\ r >= 3) \in BOOLEAN
    BY <2>1, ValueFacts
  <2>3. HeardAs(r, m) = [m EXCEPT !.value = Heard(r, m.value), !.flags = m.flags /\ r >= 3]
    BY <2>1 DEF HeardAs
  <2>4. HeardAs(r, m) \in AssignMsg
    BY <1>2, <2>2, <2>3 DEF AssignMsg
  <2>5. m \notin Greeting
    BY <2>1 DEF Greeting, ClientHello, ProtoUnsup
  <2>6. QED
    BY <2>4, <2>5 DEF Message, EntryMsg
<1>3. CASE m \in UpdateMsg
  <2>1. m.type = "EntryUpdate" /\ m.value \in Values
    BY <1>3 DEF UpdateMsg
  <2>2. Heard(r, m.value) \in Values
    BY <2>1, ValueFacts
  <2>3. HeardAs(r, m) = [m EXCEPT !.value = Heard(r, m.value)]
    BY <2>1 DEF HeardAs
  <2>4. HeardAs(r, m) \in UpdateMsg
    BY <1>3, <2>2, <2>3 DEF UpdateMsg
  <2>5. m \notin Greeting
    BY <2>1 DEF Greeting, ClientHello, ProtoUnsup
  <2>6. QED
    BY <2>4, <2>5 DEF Message, EntryMsg
<1>4. CASE m \notin AssignMsg \cup UpdateMsg
  BY <1>1, <1>4 DEF HeardAs
<1>5. QED
  BY <1>2, <1>3, <1>4

\* The body of every message is read as it was written by a codec of its revision,
\* and that of a greeting by any.
LEMMA BodyIsRead ==
    ASSUME NEW r \in Revs, NEW own \in Revs, NEW m \in Message, Encodable(r, m),
           Sayable(r, m), Unmistakable(r), own = r \/ m \in Greeting
    PROVE  GoodBody(own, r, m)
<1>1. CASE m \in Greeting
  BY <1>1, GreetingBody
<1>2. CASE m \notin Greeting
  <2>1. own = r
    BY <1>2
  <2>2. CASE m \in {ServerHelloDone, ClientHelloDone}
    BY <2>2, PlainBody
  <2>3. CASE m \in AssignMsg
    <3>1. m.value.type \in TypesOf(r)
      BY <2>3 DEF AssignMsg, Encodable
    <3>2. QED
      BY <2>1, <2>3, <3>1, AssignBody
  <2>4. CASE m \in UpdateMsg
    <3>1. m.value.type \in TypesOf(r)
      BY <2>4 DEF UpdateMsg, Encodable
    <3>2. QED
      BY <2>1, <2>4, <3>1, UpdateBody
  <2>5. CASE m \in {ServerHello} \cup FlagsMsg \cup DeleteMsg \cup ClearMsg
    <3>1. m.type \in {"ServerHello", "FlagsUpdate", "EntryDelete", "ClearEntries"}
      BY <2>5 DEF ServerHello, FlagsMsg, DeleteMsg, ClearMsg
    <3>2. r = 3
      BY <3>1 DEF Sayable, Revs
    <3>3. QED
      BY <2>1, <2>5, <3>2, NewerBody
  <2>6. QED
    BY <1>2, <2>2, <2>3, <2>4, <2>5 DEF Message, EntryMsg
<1>3. QED
  BY <1>1, <1>2

\* The types of messages are what a stream can hold.
LEMMA TypesOfMessages ==
    ASSUME NEW m \in Message
    PROVE  m.type \in MessageTypes /\ m.type \in Words
<1>1. m.type \in {"ClientHello", "ProtoUnsup", "ServerHello", "ServerHelloDone",
                  "ClientHelloDone", "EntryAssign", "EntryUpdate", "FlagsUpdate",
                  "EntryDelete", "ClearEntries"}
  BY DEF Message, Greeting, ClientHello, ProtoUnsup, ServerHello, ServerHelloDone,
         ClientHelloDone, EntryMsg, AssignMsg, UpdateMsg, FlagsMsg, DeleteMsg, ClearMsg
<1>2. QED
  BY <1>1 DEF MessageTypes, Words, Plain

\* What is written of a message is read as what the revision can say of it.
THEOREM MessageIsRead ==
    ASSUME NEW r \in Revs, NEW own \in Revs, NEW m \in Message, Encodable(r, m),
           Unmistakable(r), own = r \/ m \in Greeting
    PROVE  /\ Encode(r, m) \in Seq(Fields)
           /\ Sayable(r, m) => \A st : \A s \in Seq(Fields) :
                 ReadsAs(own, m, Decode(own, st, Encode(r, m) \o s), Read(HeardAs(r, m), s))
           /\ ~Sayable(r, m) => Encode(r, m) = << >>
<1>1. Encode(r, m) = IF Sayable(r, m) THEN << Field("msg", m.type) >> \o Body(r, m)
                     ELSE << >>
  BY TypesOfMessages, EncodeIs
<1>2. CASE Sayable(r, m)
  <2>1. /\ Body(r, m) \in Seq(Fields)
        /\ \A st : \A s \in Seq(Fields) :
              ReadsAs(own, m, ReadBody(own, st, m.type, Body(r, m) \o s),
                      Read(HeardAs(r, m), s))
    BY <1>2, BodyIsRead DEF GoodBody
  <2> DEFINE b == Body(r, m)
  <2>2. b \in Seq(Fields) /\ m.type \in Words
    BY <2>1, TypesOfMessages
  <2>3. Encode(r, m) = << Field("msg", m.type) >> \o b
    BY <1>1, <1>2
  <2> HIDE DEF b
  <2>4. Encode(r, m) \in Seq(Fields)
    BY <2>2, <2>3, DecodeIs, EmptySeq
  <2>5. ASSUME NEW st, NEW s \in Seq(Fields)
        PROVE  Decode(own, st, Encode(r, m) \o s) = ReadBody(own, st, m.type, b \o s)
    BY <2>2, <2>3, DecodeIs
  <2>6. QED
    BY <1>2, <2>1, <2>4, <2>5 DEF b
<1>3. CASE ~Sayable(r, m)
  BY <1>1, <1>3, EmptySeq
<1>4. QED
  BY <1>2, <1>3

-----------------------------------------------------------------------------
(* Sequences of messages *)

\* What a function makes of the elements of a sequence, one after the other.
MapsTo(g, G, S) == \A m \in G : g[m] \in S
MapFlat(g, ms) == FlattenSeq([i \in DOMAIN ms |-> g[ms[i]]])

\* What the function makes of a sequence.
LEMMA MapType ==
    ASSUME NEW G, NEW T, NEW g, MapsTo(g, G, Seq(T)), NEW ms \in Seq(G)
    PROVE  /\ [i \in DOMAIN ms |-> g[ms[i]]] \in Seq(Seq(T))
           /\ Len([i \in DOMAIN ms |-> g[ms[i]]]) = Len(ms)
           /\ MapFlat(g, ms) \in Seq(T)
<1> DEFINE w == [i \in DOMAIN ms |-> g[ms[i]]]
<1>1. Len(ms) \in Nat /\ DOMAIN ms = 1 .. Len(ms) /\ \A i \in 1 .. Len(ms) : ms[i] \in G
  BY LenProperties, ElementOfSeq
<1>2. \A x \in G : g[x] \in Seq(T)
  BY DEF MapsTo
<1>3. w \in Seq(Seq(T)) /\ Len(w) = Len(ms)
  <2> DEFINE n == Len(ms)  S == Seq(T)
  <2>1. \A i \in 1 .. n : g[ms[i]] \in S
    BY <1>2, <1>1
  <2>2. w = [i \in 1 .. n |-> g[ms[i]]] /\ n \in Nat
    BY <1>1
  <2> HIDE DEF n, S, w
  <2>3. w \in [1 .. n -> S]
    BY <2>1, <2>2
  <2>4. w \in Seq(S)
    BY <2>2, <2>3, SeqDef
  <2>5. Len(w) = n
    BY <2>2, <2>3, <2>4
  <2>6. QED
    BY <2>4, <2>5 DEF n, S
<1> HIDE DEF w
<1>4. FlattenSeq(w) \in Seq(T)
  BY <1>3, FlattenType
<1>5. QED
  BY <1>3, <1>4 DEF MapFlat, w

\* Of a concatenation.
LEMMA MapConcat ==
    ASSUME NEW G, NEW T, NEW g, MapsTo(g, G, Seq(T)), NEW a \in Seq(G), NEW b \in Seq(G)
    PROVE  MapFlat(g, a \o b) = MapFlat(g, a) \o MapFlat(g, b)
<1> DEFINE c == a \o b
           A == [i \in DOMAIN a |-> g[a[i]]]
           B == [i \in DOMAIN b |-> g[b[i]]]
           C == [i \in DOMAIN c |-> g[c[i]]]
           S == Seq(T)
<1>1. /\ c \in Seq(G) /\ Len(c) = Len(a) + Len(b) /\ Len(a) \in Nat /\ Len(b) \in Nat
      /\ \A i \in 1 .. Len(a) + Len(b) : c[i] = IF i <= Len(a) THEN a[i] ELSE b[i - Len(a)]
  BY ConcatProperties, LenProperties
<1> HIDE DEF c
<1>2. /\ DOMAIN a = 1 .. Len(a) /\ DOMAIN b = 1 .. Len(b) /\ DOMAIN c = 1 .. Len(c)
  BY <1>1, LenProperties
<1>3. A \in Seq(S) /\ Len(A) = Len(a) /\ B \in Seq(S) /\ Len(B) = Len(b)
      /\ C \in Seq(S) /\ Len(C) = Len(c)
  <2>1. \A ms \in Seq(G) : /\ [i \in DOMAIN ms |-> g[ms[i]]] \in Seq(Seq(T))
                           /\ Len([i \in DOMAIN ms |-> g[ms[i]]]) = Len(ms)
    BY MapType
  <2>2. QED
    BY <1>1, <2>1, Zenon
<1>4. /\ \A i \in 1 .. Len(a) : A[i] = g[a[i]]
      /\ \A i \in 1 .. Len(b) : B[i] = g[b[i]]
      /\ \A i \in 1 .. Len(c) : C[i] = g[c[i]]
  BY <1>2
<1> HIDE DEF A, B, C, S
<1>5. C = A \o B
  <2>1. /\ A \o B \in Seq(S) /\ Len(A \o B) = Len(A) + Len(B)
        /\ \A i \in 1 .. Len(A) + Len(B) :
              (A \o B)[i] = IF i <= Len(A) THEN A[i] ELSE B[i - Len(A)]
    BY <1>3, ConcatProperties
  <2>2. \A i \in 1 .. Len(C) : C[i] = (A \o B)[i]
    <3> SUFFICES ASSUME NEW i \in 1 .. Len(C) PROVE C[i] = (A \o B)[i]
      OBVIOUS
    <3>1. C[i] = g[c[i]] /\ i \in 1 .. Len(a) + Len(b) /\ i \in Nat
      BY <1>1, <1>3, <1>4
    <3>2. CASE i <= Len(a)
      <4>1. i \in 1 .. Len(a) /\ i \in 1 .. Len(A) + Len(B)
        BY <1>1, <1>3, <3>1, <3>2
      <4>2. c[i] = a[i] /\ (A \o B)[i] = A[i] /\ A[i] = g[a[i]]
        BY <1>1, <1>3, <1>4, <2>1, <3>1, <3>2, <4>1
      <4>3. QED
        BY <3>1, <4>2
    <3>3. CASE ~(i <= Len(a))
      <4>1. i - Len(a) \in 1 .. Len(b) /\ i \in 1 .. Len(A) + Len(B)
        BY <1>1, <1>3, <3>1, <3>3
      <4>2. c[i] = b[i - Len(a)] /\ (A \o B)[i] = B[i - Len(a)]
        BY <1>1, <1>3, <2>1, <3>1, <3>3, <4>1
      <4>3. QED
        BY <1>4, <3>1, <4>1, <4>2
    <3>4. QED
      BY <3>2, <3>3
  <2>3. Len(C) = Len(A \o B)
    BY <1>1, <1>3, <2>1
  <2>4. QED
    BY <1>3, <2>1, <2>2, <2>3, SeqEqual
<1>6. FlattenSeq(A \o B) = FlattenSeq(A) \o FlattenSeq(B)
  BY <1>3, FlattenConcat DEF S
<1>7. QED
  BY <1>5, <1>6 DEF MapFlat, A, B, C, c

\* Of one message.
LEMMA MapOne ==
    ASSUME NEW G, NEW g, NEW m \in G
    PROVE  MapFlat(g, << m >>) = g[m]
<1>1. [i \in DOMAIN << m >> |-> g[<< m >>[i]]] = << g[m] >>
  OBVIOUS
<1>2. QED
  BY <1>1, FlattenOne DEF MapFlat

\* Of none.
LEMMA MapNone == \A g : MapFlat(g, << >>) = << >>
BY FlattenEmpty DEF MapFlat

\* The first element and the others.
LEMMA FirstAndOthers ==
    ASSUME NEW G, NEW ms \in Seq(G), ms # << >>
    PROVE  /\ Head(ms) \in G /\ Tail(ms) \in Seq(G) /\ Len(Tail(ms)) = Len(ms) - 1
           /\ ms = << Head(ms) >> \o Tail(ms)
<1> DEFINE h == << Head(ms) >>  t == Tail(ms)
<1>1. Head(ms) \in G /\ t \in Seq(G) /\ Len(t) = Len(ms) - 1 /\ Len(ms) \in Nat /\ Len(ms) >= 1
      /\ \A i \in 1 .. Len(t) : t[i] = ms[i + 1]
  BY HeadTailProperties, EmptySeq
<1>2. h \in Seq(G) /\ Len(h) = 1 /\ h[1] = ms[1]
  BY <1>1
<1> HIDE DEF h, t
<1>3. /\ h \o t \in Seq(G) /\ Len(h \o t) = Len(ms)
      /\ \A i \in 1 .. Len(ms) : (h \o t)[i] = IF i <= 1 THEN h[i] ELSE t[i - 1]
  <2>1. /\ h \o t \in Seq(G) /\ Len(h \o t) = Len(h) + Len(t)
        /\ \A i \in 1 .. Len(h) + Len(t) :
              (h \o t)[i] = IF i <= Len(h) THEN h[i] ELSE t[i - Len(h)]
    <3>1. h \in Seq(G) /\ t \in Seq(G)
      BY <1>1, <1>2
    <3>2. QED
      BY <3>1, ConcatProperties
  <2>2. Len(h) + Len(t) = Len(ms)
    BY <1>1, <1>2
  <2>3. QED
    BY <1>2, <2>1, <2>2
<1>4. \A i \in 1 .. Len(ms) : ms[i] = (h \o t)[i]
  BY <1>1, <1>2, <1>3
<1>5. ms = h \o t
  BY <1>3, <1>4, SeqEqual
<1>6. QED
  BY <1>1, <1>5 DEF h, t

\* The first message and the others.
LEMMA MapFirst ==
    ASSUME NEW G, NEW T, NEW g, MapsTo(g, G, Seq(T)), NEW ms \in Seq(G), ms # << >>
    PROVE  MapFlat(g, ms) = g[Head(ms)] \o MapFlat(g, Tail(ms))
<1> DEFINE m == Head(ms)  t == Tail(ms)
<1>1. m \in G /\ t \in Seq(G) /\ ms = << m >> \o t
  BY FirstAndOthers
<1> HIDE DEF m, t
<1>2. << m >> \in Seq(G)
  BY <1>1
<1>3. MapFlat(g, << m >> \o t) = MapFlat(g, << m >>) \o MapFlat(g, t)
  <2>1. \A a, b \in Seq(G) : MapFlat(g, a \o b) = MapFlat(g, a) \o MapFlat(g, b)
    BY MapConcat
  <2>2. QED
    BY <1>1, <1>2, <2>1, Zenon
<1>4. MapFlat(g, << m >>) = g[m]
  BY <1>1, MapOne
<1>5. QED
  BY <1>1, <1>3, <1>4 DEF m, t

-----------------------------------------------------------------------------
(* Streams of messages *)

\* The messages that a codec of one revision reads as one of another wrote them.
Passing(own, r) == {m \in Message : Encodable(r, m) /\ (own = r \/ m \in Greeting)}

\* What is written of a sequence of messages, and what is heard of it.
Encoded(r, ms) == FlattenSeq([i \in DOMAIN ms |-> Encode(r, ms[i])])
HeardOf(r, ms) == FlattenSeq([i \in DOMAIN ms |-> HeardFrom(r, ms[i])])

\* What is heard of a message, if its revision has it at all.
LEMMA HeardFromIs ==
    ASSUME NEW r \in Revs, NEW m \in Message
    PROVE  /\ HeardFrom(r, m) \in Seq(Message)
           /\ Sayable(r, m) => HeardFrom(r, m) = << HeardAs(r, m) >>
           /\ ~Sayable(r, m) => HeardFrom(r, m) = << >>
<1>1. HeardAs(r, m) \in Message
  BY HeardMessage
<1>2. << HeardAs(r, m) >> \in Seq(Message) /\ << >> \in Seq(Message)
  BY <1>1, EmptySeq
<1>3. QED
  BY <1>2 DEF HeardFrom

\* Both are such maps.
LEMMA EncodedAsMap ==
    ASSUME NEW own \in Revs, NEW r \in Revs, Unmistakable(r)
    PROVE  LET G == Passing(own, r)
               g == [m \in G |-> Encode(r, m)]
               h == [m \in G |-> HeardFrom(r, m)]
           IN  /\ MapsTo(g, G, Seq(Fields))
               /\ MapsTo(h, G, Seq(Message))
               /\ \A ms \in Seq(G) : /\ Encoded(r, ms) = MapFlat(g, ms)
                                     /\ HeardOf(r, ms) = MapFlat(h, ms)
<1> DEFINE G == Passing(own, r)
           g == [m \in G |-> Encode(r, m)]
           h == [m \in G |-> HeardFrom(r, m)]
<1>1. \A m \in G : m \in Message /\ Encodable(r, m) /\ (own = r \/ m \in Greeting)
  BY DEF Passing
<1>2. \A m \in G : Encode(r, m) \in Seq(Fields)
  BY <1>1, MessageIsRead
<1>3. \A m \in G : HeardFrom(r, m) \in Seq(Message)
  BY <1>1, HeardFromIs
<1> HIDE DEF G
<1>4. ASSUME NEW ms \in Seq(G)
      PROVE  Encoded(r, ms) = MapFlat(g, ms) /\ HeardOf(r, ms) = MapFlat(h, ms)
  <2>1. \A i \in DOMAIN ms : ms[i] \in G
    BY LenProperties, ElementOfSeq
  <2>2. [i \in DOMAIN ms |-> Encode(r, ms[i])] = [i \in DOMAIN ms |-> g[ms[i]]]
    BY <2>1
  <2>3. [i \in DOMAIN ms |-> HeardFrom(r, ms[i])] = [i \in DOMAIN ms |-> h[ms[i]]]
    BY <2>1
  <2>4. QED
    BY <2>2, <2>3 DEF Encoded, HeardOf, MapFlat
<1>5. /\ MapsTo(g, G, Seq(Fields))
      /\ MapsTo(h, G, Seq(Message))
  BY <1>2, <1>3 DEF MapsTo
<1>6. QED
  BY <1>4, <1>5 DEF G

\* Both are sequences of the right elements, and of two sequences of messages it is
\* one after the other.
LEMMA EncodedIs ==
    ASSUME NEW own \in Revs, NEW r \in Revs, Unmistakable(r),
           NEW a \in Seq(Passing(own, r)), NEW b \in Seq(Passing(own, r))
    PROVE  /\ Encoded(r, a) \in Seq(Fields) /\ HeardOf(r, a) \in Seq(Message)
           /\ a \o b \in Seq(Passing(own, r))
           /\ Encoded(r, a \o b) = Encoded(r, a) \o Encoded(r, b)
           /\ HeardOf(r, a \o b) = HeardOf(r, a) \o HeardOf(r, b)
<1> DEFINE G == Passing(own, r)
           g == [m \in G |-> Encode(r, m)]
           h == [m \in G |-> HeardFrom(r, m)]
<1>1. /\ MapsTo(g, G, Seq(Fields))
      /\ MapsTo(h, G, Seq(Message))
      /\ \A ms \in Seq(G) : Encoded(r, ms) = MapFlat(g, ms) /\ HeardOf(r, ms) = MapFlat(h, ms)
  BY EncodedAsMap
<1>2. a \in Seq(G) /\ b \in Seq(G)
  OBVIOUS
<1> HIDE DEF G, g, h
<1>3. a \o b \in Seq(G)
  BY <1>2, ConcatProperties
<1>4. MapFlat(g, a) \in Seq(Fields) /\ MapFlat(h, a) \in Seq(Message)
  BY <1>1, <1>2, MapType
<1>5. MapFlat(g, a \o b) = MapFlat(g, a) \o MapFlat(g, b)
  <2>1. MapsTo(g, G, Seq(Fields))
    BY <1>1
  <2>2. \A p, q \in Seq(G) : MapFlat(g, p \o q) = MapFlat(g, p) \o MapFlat(g, q)
    BY <2>1, MapConcat
  <2>3. QED
    BY <1>2, <2>2, Zenon
<1>6. MapFlat(h, a \o b) = MapFlat(h, a) \o MapFlat(h, b)
  <2>1. MapsTo(h, G, Seq(Message))
    BY <1>1
  <2>2. \A p, q \in Seq(G) : MapFlat(h, p \o q) = MapFlat(h, p) \o MapFlat(h, q)
    BY <2>1, MapConcat
  <2>3. QED
    BY <1>2, <2>2, Zenon
<1>7. QED
  BY <1>1, <1>2, <1>3, <1>4, <1>5, <1>6 DEF G

\* Nothing is encoded as nothing.
LEMMA EncodedNothing ==
    \A r : Encoded(r, << >>) = << >> /\ HeardOf(r, << >>) = << >>
<1>1. \A r : [i \in DOMAIN << >> |-> Encode(r, << >>[i])] = << >>
  OBVIOUS
<1>2. \A r : [i \in DOMAIN << >> |-> HeardFrom(r, << >>[i])] = << >>
  OBVIOUS
<1>3. QED
  BY <1>1, <1>2, FlattenEmpty DEF Encoded, HeardOf

\* Where there is a first message.
LEMMA EncodedFirst ==
    ASSUME NEW own \in Revs, NEW r \in Revs, Unmistakable(r),
           NEW ms \in Seq(Passing(own, r)), ms # << >>
    PROVE  /\ Encoded(r, ms) = Encode(r, Head(ms)) \o Encoded(r, Tail(ms))
           /\ HeardOf(r, ms) = HeardFrom(r, Head(ms)) \o HeardOf(r, Tail(ms))
<1> DEFINE G == Passing(own, r)
           g == [m \in G |-> Encode(r, m)]
           h == [m \in G |-> HeardFrom(r, m)]
<1>1. /\ MapsTo(g, G, Seq(Fields))
      /\ MapsTo(h, G, Seq(Message))
      /\ \A s \in Seq(G) : Encoded(r, s) = MapFlat(g, s) /\ HeardOf(r, s) = MapFlat(h, s)
  BY EncodedAsMap
<1>2. \A x \in G : g[x] = Encode(r, x) /\ h[x] = HeardFrom(r, x)
  OBVIOUS
<1>3. ms \in Seq(G)
  OBVIOUS
<1> HIDE DEF G, g, h
<1>4. Head(ms) \in G /\ Tail(ms) \in Seq(G)
  BY <1>3, FirstAndOthers
<1>5. MapFlat(g, ms) = g[Head(ms)] \o MapFlat(g, Tail(ms))
  BY <1>1, <1>3, MapFirst
<1>6. MapFlat(h, ms) = h[Head(ms)] \o MapFlat(h, Tail(ms))
  BY <1>1, <1>3, MapFirst
<1>7. QED
  BY <1>1, <1>2, <1>3, <1>4, <1>5, <1>6

\* What was read, and what is left, are the first and the others of what is heard.
FirstIs(own, r, ms, x) ==
    \E m \in Passing(own, r), rest \in Seq(Passing(own, r)) :
        /\ x = Read(HeardAs(r, m), Encoded(r, rest))
        /\ HeardOf(r, ms) = << HeardAs(r, m) >> \o HeardOf(r, rest)

\* What a codec reads first, from a stream of messages it can read, is the first of
\* what is heard of them, and a stream of such messages is left.
THEOREM StreamIsRead ==
    ASSUME NEW own \in Revs, NEW r \in Revs, Unmistakable(r), NEW st,
           NEW ms \in Seq(Passing(own, r)), NEW x \in Decode(own, st, Encoded(r, ms))
    PROVE  FirstIs(own, r, ms, x)
<1> DEFINE G == Passing(own, r)
           Good(s) == \A y \in Decode(own, st, Encoded(r, s)) :
                         \E m \in G, rest \in Seq(G) :
                            /\ y = Read(HeardAs(r, m), Encoded(r, rest))
                            /\ HeardOf(r, s) = << HeardAs(r, m) >> \o HeardOf(r, rest)
           P == {n \in Nat : \A s \in Seq(G) : Len(s) = n => Good(s)}
<1>1. \A m \in G : /\ m \in Message /\ Encodable(r, m) /\ (own = r \/ m \in Greeting)
                   /\ Encode(r, m) \in Seq(Fields)
                   /\ Sayable(r, m) => \A t \in Seq(Fields) :
                         Decode(own, st, Encode(r, m) \o t) \subseteq {Read(HeardAs(r, m), t)}
                   /\ ~Sayable(r, m) => Encode(r, m) = << >>
  <2>1. \A m \in G : m \in Message /\ Encodable(r, m) /\ (own = r \/ m \in Greeting)
    BY DEF Passing
  <2>2. QED
    BY <2>1, MessageIsRead DEF ReadsAs
<1>2. \A s \in Seq(G) : Encoded(r, s) \in Seq(Fields) /\ HeardOf(r, s) \in Seq(Message)
  BY EncodedIs
<1>3. \A s \in Seq(G) : s # << >> =>
         /\ Head(s) \in G /\ Tail(s) \in Seq(G) /\ Len(Tail(s)) = Len(s) - 1
         /\ Encoded(r, s) = Encode(r, Head(s)) \o Encoded(r, Tail(s))
         /\ HeardOf(r, s) = HeardFrom(r, Head(s)) \o HeardOf(r, Tail(s))
  BY EncodedFirst, FirstAndOthers
<1> HIDE DEF G
<1>4. 0 \in P
  <2>1. ASSUME NEW s \in Seq(G), Len(s) = 0 PROVE Good(s)
    <3>1. s = << >>
      BY <2>1, EmptySeq
    <3>2. Encoded(r, s) = << >>
      BY <3>1, EncodedNothing
    <3>3. ReadField("msg", << >>) = {}
      BY DEF ReadField, Starts
    <3>4. Decode(own, st, << >>) = {}
      BY <3>3 DEF Decode
    <3>5. QED
      BY <3>2, <3>4
  <2>2. QED
    BY <2>1
<1>5. \A n \in Nat : n \in P => n + 1 \in P
  <2> SUFFICES ASSUME NEW n \in Nat, n \in P PROVE n + 1 \in P
    OBVIOUS
  <2> HIDE DEF Good
  <2> SUFFICES ASSUME NEW s \in Seq(G), Len(s) = n + 1 PROVE Good(s)
    OBVIOUS
  <2> DEFINE m == Head(s)  t == Tail(s)
  <2>1. s # << >>
    BY EmptySeq
  <2>2. /\ m \in G /\ t \in Seq(G) /\ Len(t) = n
        /\ Encoded(r, s) = Encode(r, m) \o Encoded(r, t)
        /\ HeardOf(r, s) = HeardFrom(r, m) \o HeardOf(r, t)
    <3>1. /\ m \in G /\ t \in Seq(G) /\ Len(t) = Len(s) - 1
          /\ Encoded(r, s) = Encode(r, m) \o Encoded(r, t)
          /\ HeardOf(r, s) = HeardFrom(r, m) \o HeardOf(r, t)
      BY <1>3, <2>1
    <3>2. QED
      BY <3>1
  <2>3. Good(t)
    BY <2>2
  <2>4. Encoded(r, t) \in Seq(Fields) /\ HeardOf(r, t) \in Seq(Message)
    BY <1>2, <2>2
  <2>5. m \in Message
    BY <1>1, <2>2
  <2> HIDE DEF m, t
  <2>6. CASE Sayable(r, m)
    <3>1. HeardFrom(r, m) = << HeardAs(r, m) >>
      BY <2>5, <2>6, HeardFromIs
    <3>2. Decode(own, st, Encoded(r, s)) \subseteq {Read(HeardAs(r, m), Encoded(r, t))}
      BY <1>1, <2>2, <2>4, <2>6
    <3>3. QED
      BY <2>2, <3>1, <3>2 DEF Good
  <2>7. CASE ~Sayable(r, m)
    <3>1. HeardFrom(r, m) = << >> /\ Encode(r, m) = << >>
      BY <1>1, <2>2, <2>5, <2>7, HeardFromIs
    <3>2. Encoded(r, s) = Encoded(r, t) /\ HeardOf(r, s) = HeardOf(r, t)
      BY <2>2, <2>4, <3>1, ConcatEmptySeq
    <3>3. QED
      BY <2>3, <3>2 DEF Good
  <2>8. QED
    BY <2>6, <2>7
<1>6. \A n \in Nat : n \in P
  <2> HIDE DEF P
  <2>1. QED
    BY <1>4, <1>5, Induction
<1>7. ms \in Seq(G) /\ Len(ms) \in Nat
  BY LenProperties DEF G
<1>8. Good(ms)
  <2>1. Len(ms) \in P
    BY <1>6, <1>7
  <2>2. QED
    BY <1>7, <2>1
<1>9. QED
  BY <1>8 DEF G, FirstIs

\* Of a stream that is not empty a codec of revision 3 reads something.
LEMMA SomethingIsRead ==
    ASSUME NEW r \in Revs, Unmistakable(r), NEW st,
           NEW ms \in Seq(Passing(3, r)), Encoded(r, ms) # << >>
    PROVE  Decode(3, st, Encoded(r, ms)) # {}
<1> DEFINE G == Passing(3, r)  m == Head(ms)  t == Tail(ms)
<1>1. ms # << >>
  BY EncodedNothing
<1>2. ms \in Seq(G) /\ 3 \in Revs
  BY DEF Revs
<1>3. /\ m \in G /\ t \in Seq(G)
      /\ Encoded(r, ms) = Encode(r, m) \o Encoded(r, t)
  <2>1. Encoded(r, ms) = Encode(r, m) \o Encoded(r, t)
    BY <1>1, <1>2, EncodedFirst
  <2> HIDE DEF G
  <2>2. m \in G /\ t \in Seq(G)
    BY <1>1, <1>2, FirstAndOthers
  <2>3. QED
    BY <2>1, <2>2
<1> HIDE DEF m, t
<1>4. Encoded(r, t) \in Seq(Fields)
  BY <1>2, <1>3, EncodedIs
<1>5. m \in Message /\ Encodable(r, m) /\ (3 = r \/ m \in Greeting)
  BY <1>3 DEF Passing
<1>6. Sayable(r, m)
  BY <1>5 DEF Sayable, Greeting, ClientHello, ProtoUnsup
<1>7. ReadsAs(3, m, Decode(3, st, Encode(r, m) \o Encoded(r, t)),
              Read(HeardAs(r, m), Encoded(r, t)))
  BY <1>2, <1>4, <1>5, <1>6, MessageIsRead
<1>8. QED
  BY <1>3, <1>7 DEF ReadsAs, NeedsNoStore

-----------------------------------------------------------------------------
(* The revisions: an inductive invariant *)

\* The types that the argument needs; what the messages carry plays no part.
Types ==
    /\ default \in [Ends -> Revs] /\ nextRev \in Revs /\ rev \in [Ends -> Revs]
    /\ phase \in [Ends -> Phases]
    /\ DOMAIN hasty = Ends /\ DOMAIN stream = Ends

Hello == ClientHello(rev["client"])

\* Until the server has read the hello there is nothing else on the connection,
\* and the client, whose revision it names, waits.
WaitsForHello ==
    /\ phase["client"] \in {"hello", "dead"}
    /\ hasty["server"] = << >> /\ stream["server"] = << >>
    /\ \/ hasty["client"] = << Hello >> /\ stream["client"] = << >>
       \/ /\ hasty["client"] = << >>
          /\ stream["client"] \in {<< >>, Encode(rev["client"], Hello)}

\* From then on its connection speaks the client's revision.
RevsInv ==
    /\ nextRev <= default["client"]
    /\ phase["client"] # "off" => rev["client"] <= default["client"]
    /\ phase["server"] # "off" => phase["client"] # "off"
    /\ phase["server"] = "hello" => WaitsForHello
    /\ Greeted("server") => /\ rev["server"] = rev["client"]
                            /\ rev["server"] <= default["server"]

IInv == Types /\ RevsInv

\* The two ends and the two revisions.
LEMMA EndFacts ==
    /\ Ends = {"client", "server"} /\ "client" \in Ends /\ "server" \in Ends
    /\ Peer("client") = "server" /\ Peer("server") = "client"
    /\ Revs = {2, 3} /\ \A r \in Revs : r \in Nat
BY DEF Ends, Peer, Revs

\* The server's codec, of whatever revision, reads the hello as it was written.
LEMMA HelloIsRead ==
    ASSUME NEW own, NEW s, NEW r \in Revs, NEW x \in Decode(own, s, Encode(r, ClientHello(r)))
    PROVE  x.val = ClientHello(r)
<1> DEFINE m == ClientHello(r)
           b == Body(r, m)
<1>1. m \in Greeting /\ m.type \in MessageTypes /\ m.type \in Words /\ Sayable(r, m)
  BY DEF Greeting, ClientHello, MessageTypes, Words, Sayable
<1>2. b \in Seq(Fields) /\ HeardAs(r, m) = m
      /\ \A t \in Seq(Fields) : ReadBody(own, s, m.type, b \o t) \subseteq {Read(HeardAs(r, m), t)}
  <2>1. GoodBody(own, r, m)
    BY <1>1, GreetingBody
  <2>2. HeardAs(r, m) = m
    BY DEF HeardAs, ClientHello
  <2>3. QED
    BY <2>1, <2>2 DEF GoodBody, ReadsAs
<1>3. Encode(r, m) = << Field("msg", m.type) >> \o b
  BY <1>1, EncodeIs
<1> HIDE DEF m, b
<1>4. /\ Encode(r, m) \in Seq(Fields)
      /\ Decode(own, s, Encode(r, m) \o << >>) = ReadBody(own, s, m.type, b \o << >>)
  <2>1. ASSUME NEW t \in Seq(Fields)
        PROVE  /\ Encode(r, m) \in Seq(Fields)
               /\ Decode(own, s, Encode(r, m) \o t) = ReadBody(own, s, m.type, b \o t)
    BY <1>1, <1>2, <1>3, DecodeIs
  <2>2. QED
    BY <2>1, EmptySeq
<1>5. Encode(r, m) \o << >> = Encode(r, m)
  BY <1>4, ConcatEmptySeq
<1>6. Decode(own, s, Encode(r, m)) \subseteq {Read(m, << >>)}
  BY <1>2, <1>4, <1>5, EmptySeq
<1>7. x = Read(m, << >>)
  BY <1>6 DEF m
<1>8. QED
  BY <1>7 DEF Read, m

\* There is nothing to read on an empty stream.
LEMMA NothingToRead ==
    ASSUME NEW e \in Ends, Arrived(e) = << >> PROVE Readable(e) = {}
<1>1. ReadField("msg", << >>) = {}
  BY DEF ReadField, Starts
<1>2. QED
  BY <1>1 DEF Readable, Decode

-----------------------------------------------------------------------------
(* The steps *)

\* A step after which the server waits for no hello, and that changes no revision.
LEMMA GreetedKeeps ==
    ASSUME IInv, UNCHANGED << default, rev >>,
           phase' \in [Ends -> Phases], DOMAIN hasty' = Ends, DOMAIN stream' = Ends,
           nextRev' \in Revs, nextRev' <= default["client"],
           phase'["server"] # "hello",
           phase["client"] = "off" => phase'["client"] = "off" /\ phase'["server"] = "off",
           phase'["server"] = "off" \/ phase'["client"] # "off",
           Greeted("server")' => Greeted("server")
    PROVE  IInv'
<1>1. Types'
  BY DEF IInv, Types
<1>2. QED
  BY <1>1 DEF IInv, RevsInv

\* A step that leaves the handshakes alone.
LEMMA AloneKeeps ==
    ASSUME IInv, UNCHANGED << default, nextRev, rev, phase, hasty, stream >>
    PROVE  IInv'
<1>1. Types'
  BY DEF IInv, Types
<1>2. QED
  BY <1>1 DEF IInv, RevsInv, WaitsForHello, Greeted, Hello

\* An end gives up.
LEMMA DeadKeeps ==
    ASSUME IInv, NEW e \in Ends, Dead(e), UNCHANGED << default, rev >>,
           phase[e] # "off", nextRev' \in Revs, nextRev' <= default["client"]
    PROVE  IInv'
<1>1. /\ phase \in [Ends -> Phases] /\ DOMAIN hasty = Ends /\ DOMAIN stream = Ends
      /\ phase' = [phase EXCEPT ![e] = "dead"]
      /\ hasty' = [hasty EXCEPT ![e] = << >>]
      /\ stream' = [stream EXCEPT ![Peer(e)] = << >>]
  BY DEF IInv, Types, Dead
<1>2. phase' \in [Ends -> Phases] /\ DOMAIN hasty' = Ends /\ DOMAIN stream' = Ends
  BY <1>1 DEF Phases
<1>3. CASE e = "server"
  <2>1. phase'["server"] = "dead" /\ phase'["client"] = phase["client"]
    BY <1>1, <1>3, EndFacts
  <2>2. phase["client"] # "off"
    BY <1>3 DEF IInv, RevsInv
  <2>3. QED
    BY <1>2, <2>1, <2>2, GreetedKeeps DEF Greeted
<1>4. CASE e = "client"
  <2>1. phase'["client"] = "dead" /\ phase'["server"] = phase["server"]
    BY <1>1, <1>4, EndFacts
  <2>2. CASE phase["server"] # "hello"
    BY <1>2, <1>4, <2>1, <2>2, GreetedKeeps DEF Greeted
  <2>3. CASE phase["server"] = "hello"
    <3>1. /\ hasty'["client"] = << >> /\ hasty'["server"] = hasty["server"]
          /\ stream'["server"] = << >> /\ stream'["client"] = stream["client"]
      BY <1>1, <1>4, EndFacts
    <3>2. WaitsForHello'
      BY <2>1, <2>3, <3>1 DEF IInv, RevsInv, WaitsForHello, Hello
    <3>3. Types'
      BY <1>2 DEF IInv, Types
    <3>4. QED
      BY <1>4, <2>1, <2>3, <3>2, <3>3 DEF IInv, RevsInv, Greeted
  <2>4. QED
    BY <2>2, <2>3
<1>5. QED
  BY <1>3, <1>4, EndFacts

\* A connection starts with the client's hello, queued.
LEMMA ConnectKeeps ==
    ASSUME IInv, Connect
    PROVE  IInv'
<1>1. /\ default' = default /\ nextRev' = default["client"]
      /\ rev' = [e \in Ends |-> IF e = "client" THEN nextRev ELSE 3]
      /\ phase' = [e \in Ends |-> "hello"]
      /\ hasty' = [Nothing EXCEPT !["client"] = << ClientHello(nextRev) >>]
      /\ stream' = Nothing
  BY DEF Connect, FirstRev
<1>2. /\ nextRev \in Revs /\ default \in [Ends -> Revs] /\ nextRev <= default["client"]
  BY DEF IInv, Types, RevsInv
<1>3. rev' \in [Ends -> Revs] /\ rev'["client"] = nextRev
  BY <1>1, <1>2, EndFacts
<1>4. /\ phase' \in [Ends -> Phases]
      /\ phase'["client"] = "hello" /\ phase'["server"] = "hello"
  BY <1>1, EndFacts DEF Phases
<1>5. /\ DOMAIN hasty' = Ends /\ DOMAIN stream' = Ends
      /\ hasty'["server"] = << >> /\ stream'["server"] = << >>
      /\ hasty'["client"] = << ClientHello(nextRev) >> /\ stream'["client"] = << >>
  BY <1>1, EndFacts DEF Nothing
<1>6. Types'
  BY <1>1, <1>2, <1>3, <1>4, <1>5, EndFacts DEF Types
<1>7. WaitsForHello'
  BY <1>3, <1>4, <1>5 DEF WaitsForHello, Hello
<1>8. nextRev' <= default'["client"] /\ rev'["client"] <= default'["client"]
  BY <1>1, <1>2, <1>3, EndFacts
<1>9. QED
  BY <1>4, <1>6, <1>7, <1>8 DEF IInv, RevsInv, Greeted

\* A connection that breaks loses what is on the way.
LEMMA BreakKeeps ==
    ASSUME IInv, Break
    PROVE  IInv'
<1>1. /\ UNCHANGED << default, nextRev, rev, phase, hasty >> /\ stream' = Nothing
  BY DEF Break
<1>2. \A e \in Ends : stream'[e] = << >>
  BY <1>1 DEF Nothing
<1>3. Types'
  BY <1>1 DEF IInv, Types, Nothing
<1>4. QED
  BY <1>1, <1>2, <1>3, EndFacts DEF IInv, RevsInv, WaitsForHello, Greeted, Hello

\* What is written while the server waits is the hello.
LEMMA WriteKeeps ==
    ASSUME IInv, NEW e \in Ends, Write(e)
    PROVE  IInv'
<1> DEFINE batch == Batch(e)
           flat == FlattenSeq([i \in DOMAIN batch |-> Encode(rev[e], batch[i])])
<1>1. /\ UNCHANGED << default, nextRev, rev, phase >>
      /\ Alive(e) /\ batch # << >>
      /\ stream' = [stream EXCEPT ![e] = @ \o flat]
      /\ hasty' = [hasty EXCEPT ![e] = << >>] \/ hasty' = hasty
      /\ hasty[e] # << >> => hasty' = [hasty EXCEPT ![e] = << >>]
  BY DEF Write, Taken
<1> HIDE DEF flat
<1>2. DOMAIN hasty' = Ends /\ DOMAIN stream' = Ends
  BY <1>1 DEF IInv, Types
<1>3. Types'
  BY <1>1, <1>2 DEF IInv, Types
<1>4. CASE phase["server"] = "hello"
  <2>1. WaitsForHello
    BY <1>4 DEF IInv, RevsInv
  <2>2. e # "server"
    <3>1. hasty["server"] = << >> /\ phase["server"] # "active"
      BY <1>4, <2>1 DEF WaitsForHello
    <3>2. Batch("server") = << >>
      BY <3>1 DEF Batch
    <3>3. QED
      BY <1>1, <3>2
  <2>3. e = "client"
    BY <2>2, EndFacts
  <2>4. phase["client"] = "hello"
    BY <1>1, <2>1, <2>3 DEF WaitsForHello, Alive
  <2>5. hasty["client"] = << Hello >> /\ stream["client"] = << >> /\ batch = << Hello >>
    BY <1>1, <2>1, <2>3, <2>4 DEF WaitsForHello, Batch
  <2>6. flat = Encode(rev["client"], Hello)
    <3> HIDE DEF batch
    <3>1. [i \in DOMAIN batch |-> Encode(rev[e], batch[i])]
             = << Encode(rev["client"], Hello) >>
      BY <2>3, <2>5
    <3>2. QED
      BY <3>1, FlattenOne DEF flat
  <2>7. Encode(rev["client"], Hello) = << >> \o Encode(rev["client"], Hello)
    <3>1. rev["client"] \in Revs
      BY EndFacts DEF IInv, Types
    <3>2. Hello.type = "ClientHello" /\ "ClientHello" \notin Plain
      BY DEF Hello, ClientHello, Plain
    <3>3. Encode(rev["client"], Hello) = << Field("msg", "ClientHello") >> \o
             (<< Field("H", Hello.rev) >> \o
                IF Hello.rev >= 3 THEN WriteName(3, "identity") ELSE << >>)
      BY <3>2 DEF Encode
    <3>4. QED
      BY <3>3 DEF WriteName
  <2>8. /\ hasty'["client"] = << >> /\ hasty'["server"] = hasty["server"]
        /\ stream'["client"] = Encode(rev["client"], Hello)
        /\ stream'["server"] = stream["server"]
    BY <1>1, <2>3, <2>5, <2>6, <2>7, EndFacts DEF IInv, Types
  <2>9. WaitsForHello'
    BY <1>1, <2>1, <2>8 DEF WaitsForHello, Hello
  <2>10. QED
    BY <1>1, <1>3, <1>4, <2>9 DEF IInv, RevsInv, Greeted
<1>5. CASE phase["server"] # "hello"
  BY <1>1, <1>2, <1>5, GreetedKeeps DEF Greeted, IInv, Types, RevsInv
<1>6. QED
  BY <1>4, <1>5

\* While the server waits, there is nothing for the client to read.
LEMMA ClientWaits ==
    ASSUME IInv, Readable("client") # {}
    PROVE  phase["server"] # "hello" /\ phase["client"] \notin {"off", "dead"}
<1>1. phase["client"] \notin {"off", "dead"}
  BY DEF Readable, Reads
<1>2. stream["server"] # << >>
  BY NothingToRead, EndFacts DEF Arrived
<1>3. QED
  BY <1>1, <1>2 DEF IInv, RevsInv, WaitsForHello

\* What the server reads while it waits is the hello, with the client's revision.
LEMMA ServerHears ==
    ASSUME IInv, phase["server"] = "hello", NEW r \in Readable("server")
    PROVE  r.val = ClientHello(rev["client"]) /\ rev["client"] \in Revs
<1>1. rev["client"] \in Revs
  BY EndFacts DEF IInv, Types
<1>2. WaitsForHello /\ Arrived("server") = stream["client"]
  BY EndFacts DEF IInv, RevsInv, Arrived
<1>3. stream["client"] = Encode(rev["client"], Hello)
  BY <1>2, NothingToRead, EndFacts DEF WaitsForHello
<1>4. r \in Decode(rev["server"], store["server"], Encode(rev["client"], Hello))
  BY <1>2, <1>3 DEF Readable
<1>5. QED
  BY <1>1, <1>4, HelloIsRead DEF Hello

\* What an end reads changes the stream alone.
LEMMA ReadingIs ==
    ASSUME IInv, NEW e \in Ends, NEW r, Reading(e, r)
    PROVE  DOMAIN stream' = Ends /\ UNCHANGED default
BY DEF IInv, Types, Reading

\* The server's part of the handshake.
LEMMA ServerReadsKeeps ==
    ASSUME IInv, ServerWelcomes \/ ServerRejects \/ ServerApplies
    PROVE  IInv'
<1>1. CASE ServerWelcomes
  <2>1. PICK r \in Readable("server") :
           /\ phase["server"] = "hello"
           /\ Reading("server", r) /\ r.val.rev <= default["server"]
           /\ rev' = [rev EXCEPT !["server"] = r.val.rev]
           /\ phase' = [phase EXCEPT !["server"] =
                           IF r.val.rev >= 3 THEN "assigns" ELSE "active"]
           /\ \E batch : hasty' = [hasty EXCEPT !["server"] = batch]
           /\ nextRev' = nextRev
    BY <1>1 DEF ServerWelcomes, SetProtoRev, Enters
  <2>2. r.val.rev = rev["client"] /\ rev["client"] \in Revs
    BY <2>1, ServerHears DEF ClientHello
  <2>3. DOMAIN stream' = Ends /\ UNCHANGED default
    BY <2>1, ReadingIs, EndFacts
  <2>4. /\ rev' \in [Ends -> Revs]
        /\ rev'["server"] = rev["client"] /\ rev'["client"] = rev["client"]
    BY <2>1, <2>2, EndFacts DEF IInv, Types
  <2>5. /\ phase' \in [Ends -> Phases] /\ phase'["client"] = phase["client"]
        /\ phase'["server"] \in {"assigns", "active"}
    BY <2>1, EndFacts DEF IInv, Types, Phases
  <2>6. Types'
    BY <2>1, <2>3, <2>4, <2>5 DEF IInv, Types
  <2>7. phase["client"] # "off"
    BY <2>1 DEF IInv, RevsInv
  <2>8. QED
    BY <2>1, <2>2, <2>3, <2>4, <2>5, <2>6, <2>7 DEF IInv, RevsInv, Greeted
<1>2. CASE ServerRejects \/ ServerApplies
  <2>1. PICK r \in Readable("server"), p \in {"rejecting", "active"} :
           /\ phase["server"] # "off" /\ phase["server"] # "dead"
           /\ p = "active" => phase["server"] = "assigns"
           /\ Reading("server", r)
           /\ phase' = [phase EXCEPT !["server"] = p]
           /\ DOMAIN hasty' = DOMAIN hasty
           /\ UNCHANGED << nextRev, rev >>
    BY <1>2 DEF ServerRejects, ServerApplies, Enters
  <2>2. DOMAIN stream' = Ends /\ UNCHANGED default
    BY <2>1, ReadingIs, EndFacts
  <2>3. /\ phase' \in [Ends -> Phases] /\ phase'["client"] = phase["client"]
        /\ phase'["server"] = p
    BY <2>1, EndFacts DEF IInv, Types, Phases
  <2>4. phase["client"] # "off"
    BY <2>1 DEF IInv, RevsInv
  <2>5. Greeted("server")' => Greeted("server")
    BY <2>1, <2>3 DEF Greeted
  <2>6. DOMAIN hasty' = Ends /\ nextRev' \in Revs /\ nextRev' <= default["client"]
    BY <2>1 DEF IInv, Types, RevsInv
  <2>7. QED
    BY <2>1, <2>2, <2>3, <2>4, <2>5, <2>6, GreetedKeeps
<1>3. QED
  BY <1>1, <1>2

\* The client's part of it.
LEMMA ClientReadsKeeps ==
    ASSUME IInv, ClientGreeted \/ ClientFallsBack \/ ClientApplies
    PROVE  IInv'
<1>1. CASE ClientGreeted \/ ClientApplies
  <2>1. PICK r \in Readable("client"), p \in {"assigns", "active"} :
           /\ Reading("client", r)
           /\ phase' = [phase EXCEPT !["client"] = p]
           /\ DOMAIN hasty' = DOMAIN hasty
           /\ UNCHANGED << nextRev, rev >>
    BY <1>1 DEF ClientGreeted, ClientApplies, Enters
  <2>2. DOMAIN stream' = Ends /\ UNCHANGED default
    BY <2>1, ReadingIs, EndFacts
  <2>3. /\ phase' \in [Ends -> Phases] /\ phase'["client"] = p
        /\ phase'["server"] = phase["server"]
    BY <2>1, EndFacts DEF IInv, Types, Phases
  <2>4. phase["server"] # "hello" /\ phase["client"] # "off"
    BY <2>1, ClientWaits
  <2>5. DOMAIN hasty' = Ends /\ nextRev' \in Revs /\ nextRev' <= default["client"]
    BY <2>1 DEF IInv, Types, RevsInv
  <2>6. QED
    BY <2>1, <2>2, <2>3, <2>4, <2>5, GreetedKeeps DEF Greeted
<1>2. CASE ClientFallsBack
  <2>1. /\ phase["client"] = "hello" /\ Dead("client") /\ UNCHANGED << default, rev >>
        /\ nextRev' \in {2, nextRev}
    BY <1>2 DEF ClientFallsBack
  <2>2. default["client"] \in Revs
    BY EndFacts DEF IInv, Types
  <2>3. nextRev' \in Revs /\ nextRev' <= default["client"]
    BY <2>1, <2>2, EndFacts DEF IInv, Types, RevsInv
  <2>4. QED
    BY <2>1, <2>3, DeadKeeps, EndFacts
<1>3. QED
  BY <1>1, <1>2

\* Assignments are collected, and messages processed, after the hello.
LEMMA CollectKeeps ==
    ASSUME IInv, NEW e \in Ends, Collect(e) \/ Receive(e)
    PROVE  IInv'
<1>1. PICK r \in Readable(e), p \in {"assigns", "active"} :
         /\ Reading(e, r)
         /\ phase' = [phase EXCEPT ![e] = p]
         /\ phase[e] \in {"hello", "assigns", "active"}
         /\ phase[e] = "hello" => r.val.type = "EntryAssign"
         /\ UNCHANGED << nextRev, rev, hasty >>
  <2>1. phase = [phase EXCEPT ![e] = phase[e]]
    BY DEF IInv, Types
  <2>2. QED
    BY <2>1 DEF Collect, Receive, Enters
<1>2. DOMAIN stream' = Ends /\ UNCHANGED default
  BY <1>1, ReadingIs
<1>3. /\ phase' \in [Ends -> Phases] /\ phase'[e] = p
      /\ \A d \in Ends \ {e} : phase'[d] = phase[d]
  BY <1>1 DEF IInv, Types, Phases
<1>4. phase["server"] # "hello" /\ phase["client"] # "off"
  <2>1. CASE e = "client"
    BY <1>1, <2>1, ClientWaits
  <2>2. CASE e = "server"
    <3>1. phase["server"] # "hello"
      BY <1>1, <2>2, ServerHears DEF ClientHello
    <3>2. QED
      BY <1>1, <2>2, <3>1 DEF IInv, RevsInv
  <2>3. QED
    BY <2>1, <2>2, EndFacts
<1>5. nextRev' \in Revs /\ nextRev' <= default["client"] /\ DOMAIN hasty' = Ends
  BY <1>1 DEF IInv, Types, RevsInv
<1>6. /\ phase'["server"] # "hello" /\ phase'["client"] # "off"
      /\ Greeted("server")' => Greeted("server")
  BY <1>1, <1>3, <1>4, EndFacts DEF Greeted
<1>7. QED
  BY <1>1, <1>2, <1>3, <1>4, <1>5, <1>6, GreetedKeeps

\* The invariant is inductive.
LEMMA StepHolds == IInv /\ [Next]_vars => IInv'
<1> SUFFICES ASSUME IInv, [Next]_vars PROVE IInv'
  OBVIOUS
<1>1. nextRev \in Revs /\ nextRev <= default["client"]
  BY DEF IInv, Types, RevsInv
<1>2. ASSUME NEW e \in Ends, Misread(e) \/ HearsEnd(e) \/ WriteFails(e) PROVE IInv'
  <2>1. /\ Dead(e) /\ UNCHANGED << default, nextRev, rev >>
        /\ phase[e] # "off"
    BY <1>2 DEF Misread, HearsEnd, WriteFails, Alive, Reads
  <2>2. QED
    BY <1>1, <2>1, DeadKeeps
<1>3. CASE ServerHangsUp
  <2>1. /\ Dead("server") /\ UNCHANGED << default, nextRev, rev >>
        /\ phase["server"] = "rejecting"
    BY <1>3 DEF ServerHangsUp
  <2>2. QED
    BY <1>1, <2>1, DeadKeeps, EndFacts
<1>4. ASSUME NEW e \in Ends, LocalOp(e) PROVE IInv'
  <2>1. UNCHANGED << default, nextRev, rev, phase, hasty, stream >>
    BY <1>4 DEF LocalOp
  <2>2. QED
    BY <2>1, AloneKeeps
<1>5. ASSUME NEW e \in Ends, ReadStep(e) PROVE IInv'
  BY <1>2, <1>5, CollectKeeps, ServerReadsKeeps, ClientReadsKeeps DEF ReadStep
<1>6. ASSUME NEW e \in Ends, WriteStep(e) PROVE IInv'
  BY <1>2, <1>3, <1>6, WriteKeeps DEF WriteStep
<1>7. CASE UNCHANGED vars
  <2>1. UNCHANGED << default, nextRev, rev, phase, hasty, stream >>
    BY <1>7 DEF vars, connection
  <2>2. QED
    BY <2>1, AloneKeeps
<1>8. QED
  BY <1>4, <1>5, <1>6, <1>7, ConnectKeeps, BreakKeeps DEF Next

\* And it holds at first.
LEMMA InitHolds == Init => IInv
<1> SUFFICES ASSUME Init PROVE IInv
  OBVIOUS
<1>1. Types
  BY EndFacts DEF Init, Types, Nothing, Phases
<1>2. /\ phase["client"] = "off" /\ phase["server"] = "off"
      /\ nextRev = default["client"] /\ default["client"] \in Revs
  BY EndFacts DEF Init
<1>3. RevsInv
  BY <1>2, EndFacts DEF RevsInv, Greeted
<1>4. QED
  BY <1>1, <1>3 DEF IInv

\* Two ends that have left the hello behind speak the same revision, one that both
\* support, for any values and names (set_proto_rev in the two handshakes).
THEOREM RevsAlwaysAgree == Spec => []RevsAgree
<1>1. IInv => RevsAgree
  <2> SUFFICES ASSUME IInv, Greeted("client"), Greeted("server")
               PROVE  /\ rev["client"] = rev["server"]
                      /\ \A e \in Ends : rev["client"] <= default[e]
    BY DEF RevsAgree
  <2>1. phase["client"] # "off"
    BY DEF Greeted
  <2>2. QED
    BY <2>1, EndFacts DEF IInv, RevsInv
<1>2. QED
  BY InitHolds, StepHolds, <1>1, PTL DEF Spec

-----------------------------------------------------------------------------
(* The two directions of a connection *)

StateTypes ==
    /\ open \in BOOLEAN
    /\ store \in [Ends -> Store] /\ \A e \in Ends : store[e].server <=> e = "server"
    /\ incoming \in [Ends -> Seq(AssignMsg)]
    /\ hasty \in [Ends -> Seq(Message)]
    /\ pending \in [Ends -> Seq(EntryMsg)]
    /\ sent \in [Ends -> Seq(Message)] /\ got \in [Ends -> Seq(Message)]
    /\ garbled \subseteq Ends /\ writers \subseteq Ends
    /\ types \subseteq CommonTypes \cup NewTypes /\ deleted \in BOOLEAN

\* As long as the two ends speak different revisions all they say is a greeting.
Apart ==
    rev["client"] # rev["server"] =>
        /\ phase["client"] \notin {"assigns", "active"}
        /\ \A e \in Ends : hasty[e] \in Seq(Greeting)

\* A server that waits for the hello has sent nothing.
Silent == phase["server"] = "hello" => sent["server"] = << >> /\ got["server"] = << >>

\* What can be mistaken for something else is not sent.
NothingMistakable == \A e \in Ends : Unmistakable(rev[e])

\* What an end has written and its peer not read are messages that the peer can
\* read, and what is heard of them is what was sent and not received.
OnTheWay(e) ==
    stream[e] # << >> \/ open =>
        \E ms \in Seq(Passing(rev[Peer(e)], rev[e])) :
            /\ stream[e] = Encoded(rev[e], ms)
            /\ sent[e] = got[e] \o HeardOf(rev[e], ms)

SInv == IInv /\ StateTypes /\ Apart /\ Silent /\ \A e \in Ends : OnTheWay(e)

\* A step of one direction as a channel.
ChannelSend(e) ==
    /\ Len(sent'[e]) > Len(sent[e]) /\ SubSeq(sent'[e], 1, Len(sent[e])) = sent[e]
    /\ got'[e] = got[e]

ChannelReceive(e) ==
    /\ Len(got[e]) < Len(sent[e])
    /\ got'[e] = Append(got[e], sent[e][Len(got[e]) + 1])
    /\ sent'[e] = sent[e]

ChannelOpen(e) == sent'[e] = << >> /\ got'[e] = << >>

ChannelStep(e) ==
    \/ ChannelSend(e) \/ ChannelReceive(e) \/ ChannelOpen(e)
    \/ sent'[e] = sent[e] /\ got'[e] = got[e]

\* What a step must keep of the two directions.
Carries ==
    /\ sent' \in [Ends -> Seq(Message)] /\ got' \in [Ends -> Seq(Message)]
    /\ \A e \in Ends : OnTheWay(e)' /\ ChannelStep(e)

\* An end and its peer.
LEMMA PeerFacts ==
    ASSUME NEW e \in Ends
    PROVE  /\ Peer(e) \in Ends /\ Peer(e) # e /\ Peer(Peer(e)) = e
           /\ \A d \in Ends : d = e \/ d = Peer(e)
BY DEF Ends, Peer

\* Steps that leave the connection alone.
LEMMA AloneCarries ==
    ASSUME SInv, UNCHANGED << rev, sent, got, stream >>, open' => open
    PROVE  Carries
BY DEF SInv, StateTypes, Carries, OnTheWay, ChannelStep

\* An end gives up: nothing more is read of its peer's stream.
LEMMA DeadCarries ==
    ASSUME SInv, NEW e \in Ends, Dead(e), UNCHANGED << rev, sent, got >>
    PROVE  Carries
<1>1. /\ DOMAIN stream = Ends /\ open' = FALSE
      /\ stream' = [stream EXCEPT ![Peer(e)] = << >>]
  BY DEF SInv, IInv, Types, Dead
<1>2. stream'[Peer(e)] = << >> /\ stream'[e] = stream[e]
  BY <1>1, PeerFacts
<1>3. OnTheWay(Peer(e))'
  BY <1>1, <1>2 DEF OnTheWay
<1>4. OnTheWay(e)'
  BY <1>1, <1>2 DEF SInv, OnTheWay
<1>5. \A d \in Ends : OnTheWay(d)'
  BY <1>3, <1>4, PeerFacts
<1>6. QED
  BY <1>5 DEF SInv, StateTypes, Carries, ChannelStep

\* Nothing is queued.
LEMMA NothingFacts ==
    ASSUME NEW e \in Ends PROVE Nothing[e] = << >>
BY DEF Nothing

\* An empty stream on which nothing is on the way.
LEMMA EmptyOnTheWay ==
    ASSUME NEW e \in Ends, stream[e] = << >>, got[e] \in Seq(Message), sent[e] = got[e]
    PROVE  OnTheWay(e)
<1> DEFINE none == << >>  G == Passing(rev[Peer(e)], rev[e])
<1>1. none \in Seq(G)
  BY EmptySeq
<1>2. stream[e] = Encoded(rev[e], none) /\ HeardOf(rev[e], none) = << >>
  BY EncodedNothing
<1>3. sent[e] = got[e] \o HeardOf(rev[e], none)
  BY <1>2, ConcatEmptySeq
<1> HIDE DEF none, G
<1>4. QED
  BY <1>1, <1>2, <1>3 DEF OnTheWay, G

\* A new connection has new channels.
LEMMA ConnectCarries ==
    ASSUME SInv, Connect
    PROVE  Carries
<1>1. /\ stream' = Nothing /\ sent' = Nothing /\ got' = Nothing
      /\ rev' = [e \in Ends |-> FirstRev(e)]
  BY DEF Connect
<1>2. << >> \in Seq(Message)
  BY EmptySeq
<1>3. sent' \in [Ends -> Seq(Message)] /\ got' \in [Ends -> Seq(Message)]
  BY <1>1, <1>2 DEF Nothing
<1>4. ASSUME NEW e \in Ends PROVE OnTheWay(e)' /\ ChannelStep(e)
  <2>1. stream'[e] = << >> /\ sent'[e] = << >> /\ got'[e] = << >>
    BY <1>1, NothingFacts
  <2> DEFINE none == << >>  G == Passing(rev'[Peer(e)], rev'[e])
  <2>2. none \in Seq(G)
    BY EmptySeq
  <2>3. stream'[e] = Encoded(rev'[e], none) /\ HeardOf(rev'[e], none) = << >>
    BY <2>1, EncodedNothing
  <2>4. sent'[e] = got'[e] \o HeardOf(rev'[e], none)
    BY <1>2, <2>1, <2>3, ConcatEmptySeq
  <2> HIDE DEF none, G
  <2>5. OnTheWay(e)'
    BY <2>2, <2>3, <2>4 DEF OnTheWay, G
  <2>6. QED
    BY <2>1, <2>5 DEF ChannelStep, ChannelOpen
<1>5. QED
  BY <1>3, <1>4 DEF Carries

\* A connection that breaks carries nothing more.
LEMMA BreakCarries ==
    ASSUME SInv, Break
    PROVE  Carries
<1>1. /\ stream' = Nothing /\ open' = FALSE /\ UNCHANGED << rev, sent, got >>
  BY DEF Break
<1>2. \A e \in Ends : OnTheWay(e)'
  BY <1>1, NothingFacts DEF OnTheWay
<1>3. QED
  BY <1>1, <1>2 DEF SInv, StateTypes, Carries, ChannelStep

\* What is written.
LEMMA BatchPasses ==
    ASSUME SInv, NEW e \in Ends, Alive(e),
           \A i \in DOMAIN Batch(e) : Encodable(rev[e], Batch(e)[i])
    PROVE  Batch(e) \in Seq(Passing(rev[Peer(e)], rev[e]))
<1> DEFINE b == Batch(e)  G == Passing(rev[Peer(e)], rev[e])
<1>1. hasty[e] \in Seq(Message) /\ pending[e] \in Seq(EntryMsg)
  BY DEF SInv, StateTypes
<1>2. pending[e] \in Seq(Message)
  <2>1. EntryMsg \subseteq Message
    BY DEF Message
  <2>2. QED
    BY <1>1, <2>1, SeqMonotonic
<1>3. b \in Seq(Message)
  BY <1>1, <1>2, EmptySeq DEF Batch
<1>4. rev[Peer(e)] = rev[e] \/ b \in Seq(Greeting)
  <2> SUFFICES ASSUME rev[Peer(e)] # rev[e] PROVE b \in Seq(Greeting)
    OBVIOUS
  <2>1. rev["client"] # rev["server"]
    BY DEF Peer, Ends
  <2>2. phase["client"] \notin {"assigns", "active"} /\ hasty[e] \in Seq(Greeting)
    BY <2>1 DEF SInv, Apart
  <2>3. phase["server"] \notin {"assigns", "active"}
    BY <2>1 DEF SInv, IInv, RevsInv, Greeted
  <2>4. phase[e] # "active"
    BY <2>2, <2>3 DEF Ends
  <2>5. QED
    BY <2>2, <2>4, EmptySeq DEF Batch
<1>5. /\ Len(b) \in Nat /\ DOMAIN b = 1 .. Len(b) /\ \A i \in 1 .. Len(b) : b[i] \in Message
  BY <1>3, LenProperties, ElementOfSeq
<1>6. \A i \in 1 .. Len(b) : b[i] \in G
  <2> TAKE i \in 1 .. Len(b)
  <2>1. b[i] \in Message /\ Encodable(rev[e], b[i])
    BY <1>5
  <2>2. rev[Peer(e)] = rev[e] \/ b[i] \in Greeting
    BY <1>4, ElementOfSeq
  <2>3. QED
    BY <2>1, <2>2 DEF Passing
<1> HIDE DEF b, G
<1>7. b \in [1 .. Len(b) -> G]
  BY <1>3, <1>5, <1>6, LenProperties
<1>8. b \in Seq(G)
  BY <1>5, <1>7, SeqDef
<1>9. QED
  BY <1>8 DEF b, G

\* The types of what an end has.
LEMMA RevFacts ==
    ASSUME SInv, NEW e \in Ends
    PROVE  rev[e] \in Revs /\ rev[Peer(e)] \in Revs /\ store[e] \in Store
           /\ sent[e] \in Seq(Message) /\ got[e] \in Seq(Message)
BY PeerFacts DEF SInv, IInv, Types, StateTypes

\* What follows something that was sent.
LEMMA SentMore ==
    ASSUME NEW a \in Seq(Message), NEW b \in Seq(Message)
    PROVE  /\ a \o b \in Seq(Message)
           /\ a \o b = a \/ (Len(a \o b) > Len(a) /\ SubSeq(a \o b, 1, Len(a)) = a)
<1>1. /\ a \o b \in Seq(Message) /\ Len(a \o b) = Len(a) + Len(b)
      /\ Len(a) \in Nat /\ Len(b) \in Nat
      /\ \A i \in 1 .. Len(a) + Len(b) : (a \o b)[i] = IF i <= Len(a) THEN a[i] ELSE b[i - Len(a)]
  BY ConcatProperties, LenProperties
<1>2. CASE b = << >>
  BY <1>1, <1>2, ConcatEmptySeq
<1>3. CASE b # << >>
  <2>1. Len(b) >= 1
    BY <1>3, EmptySeq
  <2> DEFINE w == a \o b  h == SubSeq(w, 1, Len(a))  n == Len(a)
  <2>2. \A i \in 1 .. n : w[i] = a[i] /\ w[i] \in Message
    BY <1>1, ElementOfSeq
  <2> HIDE DEF w
  <2>3. /\ h \in Seq(Message) /\ Len(h) = n
        /\ \A i \in 1 .. n : h[i] = w[i]
    <3>1. n \in Nat /\ 1 \in Int /\ n \in Int
      BY <1>1
    <3>2. /\ SubSeq(w, 1, n) \in Seq(Message)
          /\ Len(SubSeq(w, 1, n)) = (IF 1 <= n THEN n - 1 + 1 ELSE 0)
          /\ \A i \in 1 .. (n - 1) + 1 : SubSeq(w, 1, n)[i] = w[(1 + i) - 1]
      BY <2>2, <3>1, SubSeqProperties
    <3>3. QED
      BY <3>1, <3>2
  <2> HIDE DEF h
  <2>4. h = a
    BY <1>1, <2>2, <2>3, SeqEqual
  <2>5. w \in Seq(Message) /\ Len(w) > Len(a)
    BY <1>1, <2>1 DEF w
  <2>6. QED
    BY <2>4, <2>5 DEF h, w
<1>4. QED
  BY <1>1, <1>2, <1>3

\* A batch that is written is sent, as far as it can be heard.
LEMMA WriteCarries ==
    ASSUME SInv, NEW e \in Ends, Write(e), NothingMistakable
    PROVE  Carries
<1> DEFINE b == Batch(e)  r == rev[e]  G == Passing(rev[Peer(e)], r)
<1>1. /\ Alive(e) /\ open /\ \A i \in DOMAIN Batch(e) : Encodable(rev[e], Batch(e)[i])
      /\ stream' = [stream EXCEPT ![e] = @ \o Encoded(r, b)]
      /\ sent' = [sent EXCEPT ![e] = @ \o HeardOf(r, b)]
      /\ UNCHANGED << rev, open, got >>
  BY DEF Write, Encoded, HeardOf
<1>2. b \in Seq(G) /\ r \in Revs /\ rev[Peer(e)] \in Revs
  BY <1>1, BatchPasses, RevFacts
<1>3. Unmistakable(r)
  BY DEF NothingMistakable
<1>4. OnTheWay(e)
  BY DEF SInv
<1>5. PICK ms \in Seq(G) : stream[e] = Encoded(r, ms) /\ sent[e] = got[e] \o HeardOf(r, ms)
  BY <1>1, <1>4 DEF OnTheWay
<1> HIDE DEF b, r
<1>6. /\ Encoded(r, ms) \in Seq(Fields) /\ HeardOf(r, ms) \in Seq(Message)
      /\ ms \o b \in Seq(G)
      /\ Encoded(r, ms \o b) = Encoded(r, ms) \o Encoded(r, b)
      /\ HeardOf(r, ms \o b) = HeardOf(r, ms) \o HeardOf(r, b)
  BY <1>2, <1>3, <1>5, EncodedIs
<1>7. HeardOf(r, b) \in Seq(Message)
  BY <1>2, <1>3, EncodedIs
<1>8. got[e] \in Seq(Message) /\ sent[e] \in Seq(Message)
  BY RevFacts
<1>9. /\ DOMAIN stream = Ends /\ sent \in [Ends -> Seq(Message)]
      /\ got \in [Ends -> Seq(Message)]
  BY DEF SInv, IInv, Types, StateTypes
<1>10. /\ stream'[e] = Encoded(r, ms \o b)
      /\ sent'[e] = sent[e] \o HeardOf(r, b)
      /\ stream'[Peer(e)] = stream[Peer(e)] /\ sent'[Peer(e)] = sent[Peer(e)]
  BY <1>1, <1>5, <1>6, <1>9, PeerFacts
<1>11. sent'[e] = got[e] \o HeardOf(r, ms \o b)
  <2>1. (got[e] \o HeardOf(r, ms)) \o HeardOf(r, b) = got[e] \o (HeardOf(r, ms) \o HeardOf(r, b))
    <3>1. \A x, y, z \in Seq(Message) : (x \o y) \o z = x \o (y \o z)
      BY Assoc
    <3>2. QED
      BY <1>6, <1>7, <1>8, <3>1, Zenon
  <2>2. QED
    BY <1>5, <1>6, <1>10, <2>1
<1>12. OnTheWay(e)'
  BY <1>1, <1>6, <1>10, <1>11 DEF OnTheWay, r
<1>13. OnTheWay(Peer(e))'
  <2>1. OnTheWay(Peer(e))
    BY PeerFacts DEF SInv
  <2>2. QED
    BY <1>1, <1>10, <2>1 DEF OnTheWay
<1>14. sent' \in [Ends -> Seq(Message)]
  <2>1. sent[e] \o HeardOf(r, b) \in Seq(Message)
    BY <1>7, <1>8, SentMore
  <2>2. QED
    BY <1>1, <1>9, <2>1
<1>15. ChannelStep(e) /\ ChannelStep(Peer(e))
  <2>1. sent'[e] = sent[e] \/ (Len(sent'[e]) > Len(sent[e]) /\ SubSeq(sent'[e], 1, Len(sent[e])) = sent[e])
    BY <1>7, <1>8, <1>10, SentMore
  <2>2. QED
    BY <1>1, <1>10, <2>1 DEF ChannelStep, ChannelSend
<1>16. QED
  BY <1>1, <1>9, <1>12, <1>13, <1>14, <1>15, PeerFacts DEF Carries

-----------------------------------------------------------------------------
(* What is read *)

\* What an end reads is the first message it has not received, and what is left of
\* the stream holds the others.
LEMMA ReadsNext ==
    ASSUME SInv, NothingMistakable, NEW e \in Ends, NEW r \in Readable(e)
    PROVE  /\ r.val \in Message
           /\ rev["client"] = rev["server"] \/ r.val \in Greeting
           /\ sent[Peer(e)] \in Seq(Message) /\ Len(got[Peer(e)]) < Len(sent[Peer(e)])
           /\ sent[Peer(e)][Len(got[Peer(e)]) + 1] = r.val
           /\ \E rest \in Seq(Passing(rev[e], rev[Peer(e)])) :
                 /\ r.rest = Encoded(rev[Peer(e)], rest)
                 /\ sent[Peer(e)] = Append(got[Peer(e)], r.val) \o HeardOf(rev[Peer(e)], rest)
<1> DEFINE d == Peer(e)  own == rev[e]  q == rev[d]  G == Passing(own, q)
<1>1. d \in Ends /\ Peer(d) = e /\ own \in Revs /\ q \in Revs
      /\ sent[d] \in Seq(Message) /\ got[d] \in Seq(Message)
  BY PeerFacts, RevFacts
<1>2. Unmistakable(q)
  BY <1>1 DEF NothingMistakable
<1>3. r \in Decode(own, store[e], stream[d])
  BY DEF Readable, Arrived
<1>4. stream[d] # << >>
  BY NothingToRead DEF Arrived
<1>5. OnTheWay(d)
  BY <1>1 DEF SInv
<1>6. PICK ms \in Seq(G) : stream[d] = Encoded(q, ms) /\ sent[d] = got[d] \o HeardOf(q, ms)
  BY <1>1, <1>4, <1>5 DEF OnTheWay
<1> HIDE DEF d, own, q
<1>7. PICK m \in G, rest \in Seq(G) :
         /\ r = Read(HeardAs(q, m), Encoded(q, rest))
         /\ HeardOf(q, ms) = << HeardAs(q, m) >> \o HeardOf(q, rest)
  <2>1. r \in Decode(own, store[e], Encoded(q, ms))
    BY <1>3, <1>6
  <2>2. ms \in Seq(Passing(own, q)) /\ own \in Revs /\ q \in Revs
    BY <1>1
  <2>3. FirstIs(own, q, ms, r)
    BY <1>2, <2>1, <2>2, StreamIsRead
  <2>4. QED
    BY <2>3 DEF FirstIs
<1> DEFINE v == HeardAs(q, m)  h == HeardOf(q, rest)
<1>8. r.val = v /\ r.rest = Encoded(q, rest)
  BY <1>7 DEF Read
<1>9. m \in Message /\ (own = q \/ m \in Greeting)
  BY DEF Passing
<1>10. v \in Message /\ (own = q \/ v \in Greeting)
  BY <1>1, <1>9, HeardMessage
<1>11. h \in Seq(Message)
  BY <1>1, <1>2, EncodedIs
<1>12. sent[d] = got[d] \o (<< v >> \o h)
  BY <1>6, <1>7
<1> HIDE DEF v, h, G
<1>13. << v >> \in Seq(Message)
  BY <1>10
<1>14. Append(got[d], v) = got[d] \o << v >> /\ Append(got[d], v) \in Seq(Message)
       /\ Len(Append(got[d], v)) = Len(got[d]) + 1 /\ Append(got[d], v)[Len(got[d]) + 1] = v
       /\ Len(got[d]) \in Nat
  BY <1>1, <1>10, AppendIsConcat, AppendProperties, LenProperties
<1>15. sent[d] = Append(got[d], v) \o h
  <2>1. \A x, y, z \in Seq(Message) : (x \o y) \o z = x \o (y \o z)
    BY Assoc
  <2>2. (got[d] \o << v >>) \o h = got[d] \o (<< v >> \o h)
    BY <1>1, <1>11, <1>13, <2>1, Zenon
  <2>3. QED
    BY <1>12, <1>14, <2>2
<1>16. Len(got[d]) < Len(sent[d]) /\ sent[d][Len(got[d]) + 1] = v
  <2> DEFINE a == Append(got[d], v)
  <2>1. a \in Seq(Message) /\ Len(a) = Len(got[d]) + 1 /\ a[Len(got[d]) + 1] = v
    BY <1>14
  <2> HIDE DEF a
  <2>2. /\ Len(a \o h) = Len(a) + Len(h) /\ Len(a) \in Nat /\ Len(h) \in Nat
        /\ \A i \in 1 .. Len(a) + Len(h) : (a \o h)[i] = IF i <= Len(a) THEN a[i] ELSE h[i - Len(a)]
    BY <1>11, <2>1, ConcatProperties, LenProperties
  <2>3. sent[d] = a \o h
    BY <1>15 DEF a
  <2>4. Len(a) \in 1 .. Len(a) + Len(h)
    BY <1>14, <2>1, <2>2
  <2>5. (a \o h)[Len(a)] = a[Len(a)]
    BY <2>2, <2>4
  <2>6. QED
    BY <1>14, <2>1, <2>2, <2>3, <2>5
<1>17. own = q => rev["client"] = rev["server"]
  BY DEF own, q, d, Peer, Ends
<1>18. /\ v \in Message
       /\ rev["client"] = rev["server"] \/ v \in Greeting
       /\ sent[d] \in Seq(Message) /\ Len(got[d]) < Len(sent[d])
       /\ sent[d][Len(got[d]) + 1] = v
       /\ \E rs \in Seq(G) : /\ r.rest = Encoded(q, rs)
                             /\ sent[d] = Append(got[d], v) \o HeardOf(q, rs)
  BY <1>1, <1>8, <1>10, <1>15, <1>16, <1>17 DEF h
<1>19. QED
  BY <1>8, <1>18 DEF d, own, q, G

\* Where more can be read, what was on the way still is.
LEMMA MorePasses ==
    ASSUME NEW own, NEW r, NEW new, own # new => new = r,
           NEW ms \in Seq(Passing(own, r))
    PROVE  ms \in Seq(Passing(new, r))
<1>1. Passing(own, r) \subseteq Passing(new, r)
  BY DEF Passing
<1>2. QED
  BY <1>1, SeqMonotonic

\* A message is read; the revision of the reader may become that of its peer.
LEMMA ReadDirection ==
    ASSUME SInv, NothingMistakable, NEW e \in Ends, NEW r \in Readable(e),
           stream' = [stream EXCEPT ![Peer(e)] = r.rest] \/ (stream'[Peer(e)] = << >> /\ open' = FALSE),
           got' = [got EXCEPT ![Peer(e)] = Append(@, r.val)], sent' = sent,
           rev'[Peer(e)] = rev[Peer(e)], rev'[e] # rev[e] => rev'[e] = rev[Peer(e)]
    PROVE  /\ sent' \in [Ends -> Seq(Message)] /\ got' \in [Ends -> Seq(Message)]
           /\ OnTheWay(Peer(e))' /\ ChannelStep(Peer(e)) /\ ChannelStep(e)
<1> DEFINE d == Peer(e)
<1>1. d \in Ends /\ d # e /\ Peer(d) = e
  BY PeerFacts
<1>2. /\ r.val \in Message /\ Len(got[d]) < Len(sent[d])
      /\ sent[d][Len(got[d]) + 1] = r.val
  BY ReadsNext
<1>3. PICK rest \in Seq(Passing(rev[e], rev[d])) :
         /\ r.rest = Encoded(rev[d], rest)
         /\ sent[d] = Append(got[d], r.val) \o HeardOf(rev[d], rest)
  BY ReadsNext
<1> HIDE DEF d
<1>4. /\ DOMAIN stream = Ends /\ sent \in [Ends -> Seq(Message)]
      /\ got \in [Ends -> Seq(Message)]
  BY DEF SInv, IInv, Types, StateTypes
<1>5. got'[d] = Append(got[d], r.val) /\ got'[e] = got[e]
  BY <1>1, <1>4 DEF d
<1>6. Append(got[d], r.val) \in Seq(Message)
  BY <1>1, <1>2, <1>4, AppendProperties
<1>7. got' \in [Ends -> Seq(Message)]
  BY <1>4, <1>6 DEF d
<1>8. rest \in Seq(Passing(rev'[e], rev[d]))
  BY <1>3, MorePasses DEF d
<1>9. OnTheWay(d)'
  <2>1. CASE stream' = [stream EXCEPT ![d] = r.rest]
    <3>1. stream'[d] = Encoded(rev[d], rest) /\ rev'[d] = rev[d]
      BY <1>1, <1>3, <1>4, <2>1 DEF d
    <3>2. sent'[d] = got'[d] \o HeardOf(rev[d], rest)
      BY <1>3, <1>5
    <3>3. rest \in Seq(Passing(rev'[Peer(d)], rev'[d]))
      BY <1>1, <1>8, <3>1
    <3>4. QED
      BY <3>1, <3>2, <3>3 DEF OnTheWay
  <2>2. CASE stream'[d] = << >> /\ open' = FALSE
    BY <2>2 DEF OnTheWay
  <2>3. QED
    BY <2>1, <2>2 DEF d
<1>10. ChannelStep(d)
  BY <1>2, <1>5 DEF ChannelStep, ChannelReceive
<1>11. ChannelStep(e)
  BY <1>5 DEF ChannelStep
<1>12. QED
  BY <1>4, <1>7, <1>9, <1>10, <1>11 DEF d

\* A message is read.
LEMMA ReadingCarries ==
    ASSUME SInv, NothingMistakable, NEW e \in Ends, NEW r \in Readable(e), Reading(e, r),
           rev' = rev
    PROVE  Carries
<1>1. /\ stream' = [stream EXCEPT ![Peer(e)] = r.rest]
      /\ got' = [got EXCEPT ![Peer(e)] = Append(@, r.val)]
      /\ UNCHANGED << sent, open >>
  BY DEF Reading
<1>2. /\ sent' \in [Ends -> Seq(Message)] /\ got' \in [Ends -> Seq(Message)]
      /\ OnTheWay(Peer(e))' /\ ChannelStep(Peer(e)) /\ ChannelStep(e)
  BY <1>1, ReadDirection
<1>3. stream'[e] = stream[e] /\ got'[e] = got[e]
  <2>1. DOMAIN stream = Ends /\ DOMAIN got = Ends
    BY DEF SInv, IInv, Types, StateTypes
  <2>2. QED
    BY <1>1, <2>1, PeerFacts
<1>4. OnTheWay(e)'
  <2>1. OnTheWay(e)
    BY DEF SInv
  <2>2. QED
    BY <1>1, <1>3, <2>1 DEF OnTheWay
<1>5. QED
  BY <1>2, <1>4, PeerFacts DEF Carries

\* The server's codec is set to the client's revision while nothing is on the way to
\* the client.
LEMMA WelcomeCarries ==
    ASSUME SInv, NothingMistakable, ServerWelcomes
    PROVE  Carries
<1>1. PICK r \in Readable("server") :
         /\ phase["server"] = "hello" /\ Reading("server", r)
         /\ rev' = [rev EXCEPT !["server"] = r.val.rev]
  BY DEF ServerWelcomes, SetProtoRev
<1>2. r.val.rev = rev["client"]
  BY <1>1, ServerHears DEF SInv, ClientHello
<1>3. /\ stream' = [stream EXCEPT !["client"] = r.rest]
      /\ got' = [got EXCEPT !["client"] = Append(@, r.val)]
      /\ UNCHANGED << sent, open >>
  BY <1>1, EndFacts DEF Reading
<1>4. rev'["client"] = rev["client"] /\ rev'["server"] = rev["client"]
  BY <1>1, <1>2, EndFacts DEF SInv, IInv, Types
<1>5. /\ sent' \in [Ends -> Seq(Message)] /\ got' \in [Ends -> Seq(Message)]
      /\ OnTheWay("client")' /\ ChannelStep("client") /\ ChannelStep("server")
  BY <1>3, <1>4, ReadDirection, EndFacts
<1>6. stream'["server"] = << >> /\ sent'["server"] = << >> /\ got'["server"] = << >>
  <2>1. stream["server"] = << >> /\ sent["server"] = << >> /\ got["server"] = << >>
    BY <1>1 DEF SInv, Silent, IInv, RevsInv, WaitsForHello
  <2>2. DOMAIN stream = Ends /\ DOMAIN got = Ends
    BY DEF SInv, IInv, Types, StateTypes
  <2>3. QED
    BY <1>3, <2>1, <2>2, EndFacts
<1>7. OnTheWay("server")'
  <2> DEFINE none == << >>  q == rev'["server"]  G == Passing(rev'["client"], q)
  <2>1. none \in Seq(G)
    BY EmptySeq
  <2>2. Encoded(q, none) = << >> /\ HeardOf(q, none) = << >>
    BY EncodedNothing
  <2>3. << >> = got'["server"] \o HeardOf(q, none)
    <3>1. << >> \in Seq(Message)
      BY EmptySeq
    <3>2. QED
      BY <1>6, <2>2, <3>1, ConcatEmptySeq
  <2> HIDE DEF none
  <2>4. QED
    BY <1>6, <2>1, <2>2, <2>3, EndFacts DEF OnTheWay
<1>8. QED
  BY <1>5, <1>7 DEF Carries, Ends

\* The client is told to fall back, and closes the connection.
LEMMA FallsBackCarries ==
    ASSUME SInv, NothingMistakable, ClientFallsBack
    PROVE  Carries
<1>1. PICK r \in Readable("client") :
         /\ got' = [got EXCEPT !["server"] = Append(@, r.val)]
         /\ Dead("client") /\ UNCHANGED << rev, sent >>
  BY DEF ClientFallsBack
<1>2. open' = FALSE /\ stream' = [stream EXCEPT !["server"] = << >>]
  BY <1>1, EndFacts DEF Dead
<1>3. DOMAIN stream = Ends /\ DOMAIN got = Ends
  BY DEF SInv, IInv, Types, StateTypes
<1>4. stream'["server"] = << >> /\ stream'["client"] = stream["client"]
      /\ got'["client"] = got["client"]
  BY <1>1, <1>2, <1>3, EndFacts
<1>5. /\ sent' \in [Ends -> Seq(Message)] /\ got' \in [Ends -> Seq(Message)]
      /\ OnTheWay("server")' /\ ChannelStep("client") /\ ChannelStep("server")
  BY <1>1, <1>2, <1>4, ReadDirection, EndFacts
<1>6. OnTheWay("client")'
  <2>1. OnTheWay("client")
    BY EndFacts DEF SInv
  <2>2. QED
    BY <1>1, <1>2, <1>4, <2>1 DEF OnTheWay
<1>7. QED
  BY <1>5, <1>6 DEF Carries, Ends

\* Every step carries both directions.
LEMMA StepCarries ==
    ASSUME SInv, NothingMistakable, [Next]_vars
    PROVE  Carries
<1>1. ASSUME NEW e \in Ends, LocalOp(e) PROVE Carries
  BY <1>1, AloneCarries DEF LocalOp
<1>2. ASSUME NEW e \in Ends, Misread(e) \/ HearsEnd(e) \/ WriteFails(e) PROVE Carries
  <2>1. Dead(e) /\ UNCHANGED << rev, sent, got >>
    BY <1>2 DEF Misread, HearsEnd, WriteFails
  <2>2. QED
    BY <2>1, DeadCarries
<1>3. CASE ServerHangsUp
  BY <1>3, DeadCarries, EndFacts DEF ServerHangsUp
<1>4. ASSUME NEW e \in Ends, \E r \in Readable(e) : Reading(e, r) /\ rev' = rev PROVE Carries
  BY <1>4, ReadingCarries
<1>5. ASSUME NEW e \in Ends, Collect(e) \/ Receive(e) PROVE Carries
  BY <1>4, <1>5 DEF Collect, Receive
<1>6. CASE ServerRejects \/ ServerApplies
  BY <1>4, <1>6, EndFacts DEF ServerRejects, ServerApplies
<1>7. CASE ClientGreeted \/ ClientApplies
  BY <1>4, <1>7, EndFacts DEF ClientGreeted, ClientApplies
<1>8. ASSUME NEW e \in Ends, ReadStep(e) PROVE Carries
  BY <1>2, <1>5, <1>6, <1>7, <1>8, WelcomeCarries, FallsBackCarries DEF ReadStep
<1>9. ASSUME NEW e \in Ends, WriteStep(e) PROVE Carries
  BY <1>2, <1>3, <1>9, WriteCarries DEF WriteStep
<1>10. CASE UNCHANGED vars
  <2>1. UNCHANGED << rev, sent, got, stream, open >>
    BY <1>10 DEF vars, connection
  <2>2. QED
    BY <2>1, AloneCarries
<1>11. QED
  BY <1>1, <1>8, <1>9, <1>10, ConnectCarries, BreakCarries DEF Next

-----------------------------------------------------------------------------
(* The types *)

\* The sequences of all the elements of a set.
LEMMA SetToSeqsType ==
    ASSUME NEW T, NEW S \in SUBSET T, IsFiniteSet(S), NEW s \in SetToSeqs(S)
    PROVE  s \in Seq(T)
<1>1. Cardinality(S) \in Nat /\ s \in [1 .. Cardinality(S) -> S]
  BY FS_CardinalityType DEF SetToSeqs
<1>2. s \in [1 .. Cardinality(S) -> T]
  BY <1>1
<1>3. QED
  BY <1>1, <1>2, SeqDef

\* The assignments that were collected are finitely many.
LEMMA CollectedType ==
    ASSUME NEW s \in Seq(AssignMsg)
    PROVE  Range(s) \in Snapshots
<1>1. s \in [1 .. Len(s) -> AssignMsg] /\ DOMAIN s = 1 .. Len(s) /\ Len(s) \in Nat
  BY LenProperties
<1>2. Range(s) \subseteq AssignMsg
  BY <1>1 DEF Range
<1>3. s \in Surjection(1 .. Len(s), Range(s))
  BY <1>1 DEF Surjection, Range
<1>4. IsFiniteSet(1 .. Len(s))
  BY <1>1, FS_Interval
<1>5. IsFiniteSet(Range(s))
  BY <1>3, <1>4, FS_Surjection
<1>6. QED
  BY <1>2, <1>5 DEF Snapshots

\* A store ignores what is not about an entry.
LEMMA ProcessAnyType ==
    ASSUME NEW s \in Store, NEW m \in Message
    PROVE  GoodResult(s, ProcessIncoming(s, m))
<1>1. CASE m \in EntryMsg
  BY <1>1, ProcessIncomingType
<1>2. CASE m \notin EntryMsg
  <2>1. m.type \in {"ClientHello", "ProtoUnsup", "ServerHello", "ServerHelloDone",
                    "ClientHelloDone"}
    BY <1>2 DEF Message, Greeting, ClientHello, ProtoUnsup, ServerHello, ServerHelloDone,
                ClientHelloDone
  <2>2. ProcessIncoming(s, m) = Ignored(s)
    BY <2>1 DEF ProcessIncoming
  <2>3. QED
    BY <2>2, IgnoredType
<1>3. QED
  BY <1>1, <1>2

\* What a user does to a store.
LEMMA UserOperationsType ==
    ASSUME NEW s \in Store, NEW kinds, NEW r \in UserOperations(s, kinds)
    PROVE  GoodResult(s, r)
<1>1. \/ \E n \in Names, v \in Values :
            r \in {SetDefaultEntryValue(s, n, v), SetEntryValue(s, n, v),
                   SetEntryTypeValue(s, n, v)}
      \/ \E n \in Names, f \in BOOLEAN : r = SetEntryFlags(s, n, f)
      \/ \E n \in Names : r = DeleteEntry(s, n)
      \/ r = DeleteAllEntries(s)
  BY DEF UserOperations
<1>2. CASE \E n \in Names, v \in Values :
              r \in {SetDefaultEntryValue(s, n, v), SetEntryValue(s, n, v),
                     SetEntryTypeValue(s, n, v)}
  <2>1. PICK n \in Names, v \in Values :
              r \in {SetDefaultEntryValue(s, n, v), SetEntryValue(s, n, v),
                     SetEntryTypeValue(s, n, v)}
    BY <1>2
  <2>2. TRUE \in BOOLEAN
    OBVIOUS
  <2>3. QED
    BY <2>1, <2>2, LocalOperationTypes
<1>3. CASE \E n \in Names, f \in BOOLEAN : r = SetEntryFlags(s, n, f)
  BY <1>3, SetEntryFlagsImplType DEF SetEntryFlags
<1>4. CASE \E n \in Names : r = DeleteEntry(s, n)
  BY <1>4, DeleteEntryImplType DEF DeleteEntry
<1>5. CASE r = DeleteAllEntries(s)
  BY <1>5, DeleteAllEntriesType
<1>6. QED
  BY <1>1, <1>2, <1>3, <1>4, <1>5

\* What a server makes of the requests that it has collected.
Processed(s, msgs, n, f) ==
    f = [i \in 0 .. n |->
            IF i = 0 THEN [store |-> s, out |-> << >>]
            ELSE LET q == ProcessIncoming(f[i - 1].store, msgs[i])
                 IN  [store |-> q.store,
                      out |-> f[i - 1].out \o (IF q.toSender THEN q.out ELSE << >>)]]

\* There is such a function.
LEMMA ProcessedExists ==
    ASSUME NEW s, NEW msgs, NEW n \in Nat
    PROVE  \E f : Processed(s, msgs, n, f)
<1> DEFINE Q(x, m) == LET q == ProcessIncoming(x.store, m)
                      IN  [store |-> q.store,
                           out |-> x.out \o (IF q.toSender THEN q.out ELSE << >>)]
           D(i, f) == IF i = 0 THEN [store |-> s, out |-> << >>] ELSE Q(f[i - 1], msgs[i])
           Is(k, f) == f = [i \in 0 .. k |-> D(i, f)]
           P == {k \in Nat : \E f : Is(k, f)}
<1> HIDE DEF Q
<1>1. 0 \in P
  <2> DEFINE f == [i \in 0 .. 0 |-> [store |-> s, out |-> << >>]]
  <2>1. \A i \in 0 .. 0 : i = 0
    OBVIOUS
  <2>2. Is(0, f)
    BY <2>1
  <2>3. QED
    BY <2>2
<1>2. ASSUME NEW k \in Nat, k \in P PROVE k + 1 \in P
  <2>1. PICK f : Is(k, f)
    BY <1>2
  <2> DEFINE g == [i \in 0 .. k + 1 |-> IF i <= k THEN f[i] ELSE D(i, f)]
  <2>2. \A i \in 0 .. k : f[i] = D(i, f)
    <3> HIDE DEF D
    <3>1. QED
      BY <2>1
  <2>3. \A i \in 0 .. k + 1 : g[i] = D(i, f)
    <3> TAKE i \in 0 .. k + 1
    <3> HIDE DEF D, P
    <3>1. QED
      BY <2>2
  <2>4. \A i \in 0 .. k : g[i] = f[i]
    OBVIOUS
  <2>5. g = [i \in 0 .. k + 1 |-> g[i]]
    OBVIOUS
  <2> HIDE DEF g, Is, P
  <2>6. \A i \in 0 .. k + 1 : D(i, f) = D(i, g)
    <3> TAKE i \in 0 .. k + 1
    <3>1. CASE i = 0
      BY <3>1
    <3>2. CASE i # 0
      <4>1. i - 1 \in 0 .. k
        BY <3>2
      <4>2. QED
        BY <2>4, <3>2, <4>1
    <3>3. QED
      BY <3>1, <3>2
  <2> HIDE DEF D
  <2>7. g = [i \in 0 .. k + 1 |-> D(i, g)]
    BY <2>3, <2>5, <2>6
  <2>8. QED
    BY <2>7 DEF Is, P
<1>3. n \in P
  <2> HIDE DEF P
  <2>1. QED
    BY <1>1, <1>2, Induction
<1>4. PICK f : Is(n, f)
  BY <1>3
<1>5. QED
  BY <1>4 DEF Processed, Q

\* ProcessAll is its last value.
LEMMA ProcessAllIs ==
    ASSUME NEW s, NEW msgs, Len(msgs) \in Nat
    PROVE  \E f : Processed(s, msgs, Len(msgs), f) /\ ProcessAll(s, msgs) = f[Len(msgs)]
<1> DEFINE F(f) == [i \in 0 .. Len(msgs) |->
                       IF i = 0 THEN [store |-> s, out |-> << >>]
                       ELSE LET q == ProcessIncoming(f[i - 1].store, msgs[i])
                            IN  [store |-> q.store,
                                 out |-> f[i - 1].out \o (IF q.toSender THEN q.out ELSE << >>)]]
           after == CHOOSE f : f = F(f)
<1>1. PICK f : Processed(s, msgs, Len(msgs), f)
  BY ProcessedExists
<1>2. f = F(f)
  BY <1>1 DEF Processed
<1>3. after = F(after)
  <2> HIDE DEF F
  <2>1. QED
    BY <1>2
<1>4. ProcessAll(s, msgs) = after[Len(msgs)]
  BY DEF ProcessAll
<1> HIDE DEF after
<1>5. Processed(s, msgs, Len(msgs), after)
  BY <1>3 DEF Processed
<1>6. QED
  BY <1>4, <1>5

\* The requests of a handshake leave a store and answers.
LEMMA ProcessAllType ==
    ASSUME NEW s \in Store, NEW msgs \in Seq(AssignMsg)
    PROVE  /\ ProcessAll(s, msgs).store \in Store
           /\ ProcessAll(s, msgs).store.server = s.server
           /\ ProcessAll(s, msgs).out \in Seq(EntryMsg)
<1>1. Len(msgs) \in Nat /\ \A i \in 1 .. Len(msgs) : msgs[i] \in EntryMsg
  <2>1. AssignMsg \subseteq EntryMsg
    BY DEF EntryMsg
  <2>2. QED
    BY <2>1, LenProperties, ElementOfSeq
<1>2. PICK f : Processed(s, msgs, Len(msgs), f) /\ ProcessAll(s, msgs) = f[Len(msgs)]
  BY <1>1, ProcessAllIs
<1> DEFINE Good(x) == x.store \in Store /\ x.store.server = s.server /\ x.out \in Seq(EntryMsg)
           P == {n \in Nat : n <= Len(msgs) => Good(f[n])}
           First == [store |-> s, out |-> << >>]
           Then(x, m) == LET q == ProcessIncoming(x.store, m)
                         IN  [store |-> q.store,
                              out |-> x.out \o (IF q.toSender THEN q.out ELSE << >>)]
<1>3. \A i \in 0 .. Len(msgs) : f[i] = IF i = 0 THEN First ELSE Then(f[i - 1], msgs[i])
  BY <1>2, Zenon DEF Processed
<1>4. 0 \in P
  <2>1. 0 \in 0 .. Len(msgs)
    BY <1>1
  <2>2. f[0] = First
    BY <1>3, <2>1, Zenon
  <2>3. << >> \in Seq(EntryMsg)
    BY EmptySeq
  <2>4. Good(First)
    BY <2>3
  <2> HIDE DEF First, Good
  <2>5. QED
    BY <2>2, <2>4
<1>5. \A n \in Nat : n \in P => n + 1 \in P
  <2> SUFFICES ASSUME NEW n \in Nat, n \in P, n + 1 <= Len(msgs) PROVE Good(f[n + 1])
    OBVIOUS
  <2> DEFINE q == ProcessIncoming(f[n].store, msgs[n + 1])
             out == IF q.toSender THEN q.out ELSE << >>
  <2>1. Good(f[n]) /\ n + 1 \in 1 .. Len(msgs) /\ (n + 1) - 1 = n
    BY <1>1
  <2>2. f[n + 1] = [store |-> q.store, out |-> f[n].out \o out]
    <3>1. n + 1 \in 0 .. Len(msgs) /\ n + 1 # 0
      BY <2>1
    <3> HIDE DEF First, Then
    <3>2. f[n + 1] = Then(f[n], msgs[n + 1])
      BY <1>3, <2>1, <3>1
    <3>3. QED
      BY <3>2, Zenon DEF Then
  <2>3. GoodResult(f[n].store, q)
    BY <1>1, <2>1, ProcessIncomingType
  <2>4. q.store \in Store /\ q.store.server = s.server /\ out \in Seq(EntryMsg)
    BY <2>1, <2>3, EmptySeq DEF GoodResult
  <2> HIDE DEF q, out
  <2>5. f[n].out \o out \in Seq(EntryMsg)
    BY <2>1, <2>4, ConcatProperties
  <2>6. QED
    BY <2>2, <2>4, <2>5
<1>6. \A n \in Nat : n \in P
  <2> HIDE DEF P
  <2>1. QED
    BY <1>4, <1>5, Induction
<1>7. QED
  BY <1>1, <1>2, <1>6

-----------------------------------------------------------------------------
(* The types of every step *)

\* An end's store, and what an end queues, after a step that gives it another.
Stores == store' \in [Ends -> Store] /\ \A e \in Ends : store'[e].server <=> e = "server"

Queues ==
    /\ incoming' \in [Ends -> Seq(AssignMsg)]
    /\ hasty' \in [Ends -> Seq(Message)]
    /\ pending' \in [Ends -> Seq(EntryMsg)]

Others ==
    /\ open' \in BOOLEAN /\ garbled' \subseteq Ends /\ writers' \subseteq Ends
    /\ types' \subseteq CommonTypes \cup NewTypes /\ deleted' \in BOOLEAN

\* Empty sequences, and the messages about entries.
LEMMA NoMessages ==
    /\ << >> \in Seq(AssignMsg) /\ << >> \in Seq(EntryMsg) /\ << >> \in Seq(Message)
    /\ EntryMsg \subseteq Message /\ AssignMsg \subseteq EntryMsg
    /\ \A s \in Seq(EntryMsg) : s \in Seq(Message)
<1>1. EntryMsg \subseteq Message /\ AssignMsg \subseteq EntryMsg
  BY DEF Message, EntryMsg
<1>2. \A s \in Seq(EntryMsg) : s \in Seq(Message)
  BY <1>1, SeqMonotonic
<1>3. QED
  BY <1>1, <1>2, EmptySeq

\* An end that has another store.
LEMMA StoreTypes ==
    ASSUME StateTypes, NEW e \in Ends, NEW s \in Store, s.server = store[e].server,
           store' = [store EXCEPT ![e] = s]
    PROVE  Stores
BY DEF StateTypes, Stores

\* Messages that are queued for the connection.
LEMMA OutgoingTypes ==
    ASSUME StateTypes, NEW e \in Ends, NEW out \in Seq(EntryMsg), QueueOutgoing(e, out)
    PROVE  pending' \in [Ends -> Seq(EntryMsg)]
<1>1. pending[e] \in Seq(EntryMsg) /\ pending \in [Ends -> Seq(EntryMsg)]
  BY DEF StateTypes
<1>2. pending[e] \o out \in Seq(EntryMsg)
  BY <1>1, ConcatProperties
<1>3. \/ pending' = [pending EXCEPT ![e] = pending[e] \o out]
      \/ pending' = [pending EXCEPT ![e] = pending[e]]
  BY DEF QueueOutgoing
<1>4. QED
  BY <1>1, <1>2, <1>3

\* These are all the types.
LEMMA StateTypesIs ==
    ASSUME Stores, Queues, Others,
           sent' \in [Ends -> Seq(Message)], got' \in [Ends -> Seq(Message)]
    PROVE  StateTypes'
BY DEF StateTypes, Stores, Queues, Others

\* What a step leaves alone keeps its type.
LEMMA UnchangedTypes ==
    ASSUME StateTypes
    PROVE  /\ UNCHANGED store => Stores
           /\ UNCHANGED << incoming, hasty, pending >> => Queues
           /\ UNCHANGED user /\ open' \in BOOLEAN /\ garbled' \subseteq Ends => Others
           /\ UNCHANGED << open, garbled, user >> => Others
BY DEF StateTypes, Stores, Queues, Others, user

\* A user's operation.
LEMMA LocalOpTypes ==
    ASSUME StateTypes, NEW e \in Ends, LocalOp(e)
    PROVE  Stores /\ Queues /\ Others
<1>1. PICK r \in UserOperations(store[e], OpKindsUsed) :
         /\ store' = [store EXCEPT ![e] = r.store]
         /\ QueueOutgoing(e, r.out)
         /\ types' = types \cup {r.store.entries[n].value.type : n \in Entries(r.store)}
         /\ deleted' = (deleted \/ ~(Entries(store[e]) \subseteq Entries(r.store)))
         /\ writers' = writers \cup {e}
         /\ UNCHANGED << incoming, hasty, open, garbled >>
  BY DEF LocalOp
<1>2. store[e] \in Store
  BY DEF StateTypes
<1>3. r.store \in Store /\ r.store.server = store[e].server /\ r.out \in Seq(EntryMsg)
  BY <1>2, UserOperationsType DEF GoodResult
<1>4. Stores
  BY <1>1, <1>3, StoreTypes
<1>5. Queues
  BY <1>1, <1>3, OutgoingTypes DEF Queues, StateTypes
<1>6. \A n \in Entries(r.store) : r.store.entries[n].value.type \in CommonTypes \cup NewTypes
  <2> TAKE n \in Entries(r.store)
  <2>1. n \in Names /\ r.store.entries[n].value # NoValue
    BY DEF Entries, Has
  <2>2. r.store.entries[n].value \in Values
    BY <1>3, <2>1, StoreFields
  <2>3. QED
    BY <2>2, ValueFacts
<1>7. types' \subseteq CommonTypes \cup NewTypes
  BY <1>1, <1>6 DEF StateTypes
<1>8. deleted' \in BOOLEAN
  <2>1. deleted \in BOOLEAN
    BY DEF StateTypes
  <2>2. QED
    BY <1>1, <2>1
<1>9. Others
  BY <1>1, <1>7, <1>8 DEF Others, StateTypes
<1>10. QED
  BY <1>4, <1>5, <1>9

\* An end gives up.
LEMMA DeadTypes ==
    ASSUME StateTypes, NEW e \in Ends, Dead(e), UNCHANGED << store, user >>,
           garbled' \in {garbled, garbled \cup {e}}
    PROVE  Stores /\ Queues /\ Others
<1>1. /\ open' = FALSE
      /\ hasty' = [hasty EXCEPT ![e] = << >>]
      /\ pending' = [pending EXCEPT ![e] = << >>]
      /\ incoming' = [incoming EXCEPT ![e] = << >>]
  BY DEF Dead
<1>2. Queues
  BY <1>1, NoMessages DEF Queues, StateTypes
<1>3. garbled' \subseteq Ends
  BY DEF StateTypes
<1>4. QED
  BY <1>1, <1>2, <1>3, UnchangedTypes

\* A new connection.
LEMMA ConnectTypes ==
    ASSUME IInv, StateTypes, Connect
    PROVE  Stores /\ Queues /\ Others
<1>1. /\ hasty' = [Nothing EXCEPT !["client"] = << ClientHello(FirstRev("client")) >>]
      /\ incoming' = Nothing /\ pending' = Nothing /\ open' = TRUE /\ garbled' = {}
      /\ UNCHANGED << store, user >>
  BY DEF Connect
<1>2. ClientHello(FirstRev("client")) \in Message
  BY DEF FirstRev, IInv, Types, Message, Greeting
<1> DEFINE first == << ClientHello(FirstRev("client")) >>
<1>3. first \in Seq(Message)
  BY <1>2
<1> HIDE DEF first
<1>4. Nothing \in [Ends -> Seq(Message)]
  BY NoMessages DEF Nothing
<1>5. Nothing \in [Ends -> Seq(AssignMsg)] /\ Nothing \in [Ends -> Seq(EntryMsg)]
  BY NoMessages DEF Nothing
<1>6. hasty' \in [Ends -> Seq(Message)]
  BY <1>1, <1>3, <1>4 DEF first
<1>7. Queues
  BY <1>1, <1>5, <1>6 DEF Queues
<1>8. QED
  BY <1>1, <1>7, UnchangedTypes

\* A connection that breaks.
LEMMA BreakTypes ==
    ASSUME StateTypes, Break
    PROVE  Stores /\ Queues /\ Others
<1>1. /\ UNCHANGED << store, incoming, hasty, pending, garbled, user >>
      /\ open' = FALSE
  BY DEF Break
<1>2. garbled' \subseteq Ends
  BY <1>1 DEF StateTypes
<1>3. QED
  BY <1>1, <1>2, UnchangedTypes

\* A batch that is written is no longer queued.
LEMMA WriteTypes ==
    ASSUME StateTypes, NEW e \in Ends, Write(e)
    PROVE  Stores /\ Queues /\ Others
<1>1. /\ UNCHANGED << store, incoming, open, garbled, user >>
      /\ \/ hasty' = [hasty EXCEPT ![e] = << >>] /\ UNCHANGED pending
         \/ pending' = [pending EXCEPT ![e] = << >>] /\ UNCHANGED hasty
  BY DEF Write, Taken
<1>2. Queues
  BY <1>1, NoMessages DEF Queues, StateTypes
<1>3. QED
  BY <1>1, <1>2, UnchangedTypes

\* The assignments that a server sends a new client.
LEMMA WelcomeTypes ==
    ASSUME StateTypes, ServerWelcomes
    PROVE  Stores /\ Queues /\ Others
<1>1. PICK assigns \in SetToSeqs(GetInitialAssignments(store["server"])),
           hello \in {<< ServerHello >>, << >>} :
         /\ hasty' = [hasty EXCEPT !["server"] = hello \o assigns \o << ServerHelloDone >>]
         /\ UNCHANGED << store, incoming, pending, open, garbled, user >>
  BY DEF ServerWelcomes, Reading
<1>2. GetInitialAssignments(store["server"]) \in Snapshots
  BY GetInitialAssignmentsType, WireSyncAssumption, EndFacts DEF StateTypes, WireSyncAssumption
<1>3. assigns \in Seq(AssignMsg)
  BY <1>2, SetToSeqsType DEF Snapshots
<1>4. assigns \in Seq(Message)
  <2>1. AssignMsg \subseteq Message
    BY NoMessages
  <2>2. QED
    BY <1>3, <2>1, SeqMonotonic
<1>5. hello \in Seq(Message) /\ << ServerHelloDone >> \in Seq(Message)
  <2>1. ServerHello \in Message /\ ServerHelloDone \in Message
    BY DEF Message
  <2>2. << ServerHello >> \in Seq(Message) /\ << ServerHelloDone >> \in Seq(Message)
    BY <2>1
  <2>3. QED
    BY <2>2, NoMessages
<1> DEFINE batch == hello \o assigns \o << ServerHelloDone >>
<1>6. batch \in Seq(Message)
  <2>1. hello \o assigns \in Seq(Message)
    BY <1>4, <1>5, ConcatProperties
  <2>2. QED
    BY <1>5, <2>1, ConcatProperties
<1> HIDE DEF batch
<1>7. hasty' = [hasty EXCEPT !["server"] = batch]
  BY <1>1 DEF batch
<1>8. Queues
  BY <1>1, <1>6, <1>7 DEF Queues, StateTypes
<1>9. QED
  BY <1>1, <1>8, UnchangedTypes

\* The server refuses a revision.
LEMMA RejectTypes ==
    ASSUME IInv, StateTypes, ServerRejects
    PROVE  Stores /\ Queues /\ Others
<1> DEFINE m == ProtoUnsup(default["server"])
<1>1. /\ hasty' = [hasty EXCEPT !["server"] = << m >>]
      /\ UNCHANGED << store, incoming, pending, open, garbled, user >>
  BY DEF ServerRejects, Reading
<1>2. m \in Message
  BY EndFacts DEF IInv, Types, Message, Greeting
<1> HIDE DEF m
<1>3. << m >> \in Seq(Message)
  BY <1>2
<1>4. Queues
  BY <1>1, <1>3 DEF Queues, StateTypes
<1>5. QED
  BY <1>1, <1>4, UnchangedTypes

\* What is collected are assignments.
LEMMA CollectTypes ==
    ASSUME SInv, NothingMistakable, NEW e \in Ends, Collect(e)
    PROVE  Stores /\ Queues /\ Others
<1>1. PICK r \in Readable(e) :
         /\ r.val.type = "EntryAssign"
         /\ incoming' = [incoming EXCEPT ![e] = Append(@, r.val)]
         /\ UNCHANGED << store, hasty, pending, open, garbled, user >>
  BY DEF Collect, Reading
<1>2. StateTypes
  BY DEF SInv
<1>3. r.val \in AssignMsg
  <2>1. r.val \in Message
    BY ReadsNext
  <2>2. QED
    BY <1>1, <2>1 DEF Message, Greeting, ClientHello, ProtoUnsup, ServerHello,
       ServerHelloDone, ClientHelloDone, EntryMsg, UpdateMsg, FlagsMsg, DeleteMsg, ClearMsg
<1>4. Append(incoming[e], r.val) \in Seq(AssignMsg)
  BY <1>2, <1>3, AppendProperties DEF StateTypes
<1>5. Queues
  BY <1>1, <1>2, <1>4 DEF Queues, StateTypes
<1>6. QED
  BY <1>1, <1>2, <1>5, UnchangedTypes

\* The client takes the server's entries, and queues requests and updates.
LEMMA ClientAppliesTypes ==
    ASSUME StateTypes, ClientApplies
    PROVE  Stores /\ Queues /\ Others
<1> DEFINE s    == store["client"]
           msgs == Range(incoming["client"])
<1>1. PICK reqs \in SetToSeqs(InitialRequests(s, msgs)),
           upds \in SetToSeqs(InitialUpdates(s, msgs)),
           last \in {<< ClientHelloDone >>, << >>} :
         /\ store' = [store EXCEPT !["client"] = ApplyInitialAssignments(s, msgs)]
         /\ hasty' = [hasty EXCEPT !["client"] = @ \o reqs \o last]
         /\ pending' = [pending EXCEPT !["client"] = @ \o upds]
         /\ incoming' = [incoming EXCEPT !["client"] = << >>]
         /\ UNCHANGED << open, garbled, user >>
  BY DEF ClientApplies, Reading
<1>2. s \in Store /\ msgs \in Snapshots
  BY CollectedType, EndFacts DEF StateTypes
<1>3. s.server = store["client"].server
  OBVIOUS
<1> HIDE DEF s, msgs
<1>4. Stores
  <2>1. ApplyInitialAssignments(s, msgs) \in Store
        /\ ApplyInitialAssignments(s, msgs).server = store["client"].server
    BY <1>2, <1>3, ApplyInitialAssignmentsType
  <2>2. QED
    BY <1>1, <2>1, StoreTypes, EndFacts
<1>5. reqs \in Seq(EntryMsg) /\ upds \in Seq(EntryMsg)
  <2>1. IsFiniteSet(Names)
    BY WireSyncAssumption DEF WireSyncAssumption
  <2>2. QED
    BY <1>2, <2>1, InitialRequestsType, InitialUpdatesType, SetToSeqsType
<1>6. last \in Seq(Message)
  <2>1. ClientHelloDone \in Message
    BY DEF Message
  <2>2. << ClientHelloDone >> \in Seq(Message)
    BY <2>1
  <2>3. QED
    BY <2>2, NoMessages
<1> DEFINE h == hasty["client"] \o reqs \o last
           p == pending["client"] \o upds
<1>7. h \in Seq(Message) /\ p \in Seq(EntryMsg)
  <2>1. reqs \in Seq(Message)
    BY <1>5, NoMessages
  <2>2. hasty["client"] \in Seq(Message) /\ pending["client"] \in Seq(EntryMsg)
    BY EndFacts DEF StateTypes
  <2>3. hasty["client"] \o reqs \in Seq(Message)
    BY <2>1, <2>2, ConcatProperties
  <2>4. QED
    BY <1>5, <1>6, <2>2, <2>3, ConcatProperties
<1>8. hasty' = [hasty EXCEPT !["client"] = h] /\ pending' = [pending EXCEPT !["client"] = p]
  BY <1>1
<1> HIDE DEF h, p
<1>9. Queues
  BY <1>1, <1>7, <1>8, NoMessages DEF Queues, StateTypes
<1>10. QED
  BY <1>1, <1>4, <1>9, UnchangedTypes

\* The server processes the requests.
LEMMA ServerAppliesTypes ==
    ASSUME StateTypes, ServerApplies
    PROVE  Stores /\ Queues /\ Others
<1> DEFINE q == ProcessAll(store["server"], incoming["server"])
<1>1. /\ store' = [store EXCEPT !["server"] = q.store]
      /\ QueueOutgoing("server", q.out)
      /\ incoming' = [incoming EXCEPT !["server"] = << >>]
      /\ UNCHANGED << hasty, open, garbled, user >>
  BY DEF ServerApplies, Reading
<1>2. store["server"] \in Store /\ incoming["server"] \in Seq(AssignMsg)
  BY EndFacts DEF StateTypes
<1>3. /\ q.store \in Store /\ q.store.server = store["server"].server
      /\ q.out \in Seq(EntryMsg)
  BY <1>2, ProcessAllType
<1> HIDE DEF q
<1>4. Stores
  BY <1>1, <1>3, StoreTypes, EndFacts
<1>5. Queues
  BY <1>1, <1>3, OutgoingTypes, NoMessages, EndFacts DEF Queues, StateTypes
<1>6. QED
  BY <1>1, <1>4, <1>5, UnchangedTypes

\* A message that is processed.
LEMMA ReceiveTypes ==
    ASSUME SInv, NothingMistakable, NEW e \in Ends, Receive(e)
    PROVE  Stores /\ Queues /\ Others
<1>1. PICK r \in Readable(e) :
         LET q == ProcessIncoming(store[e], r.val) IN
         /\ store' = [store EXCEPT ![e] = q.store]
         /\ QueueOutgoing(e, IF e = "client" \/ q.toSender THEN q.out ELSE << >>)
         /\ UNCHANGED << incoming, hasty, open, garbled, user >>
  BY DEF Receive, Reading
<1> DEFINE q == ProcessIncoming(store[e], r.val)
           out == IF e = "client" \/ q.toSender THEN q.out ELSE << >>
<1>2. StateTypes
  BY DEF SInv
<1>3. r.val \in Message /\ store[e] \in Store
  BY ReadsNext, RevFacts
<1>4. q.store \in Store /\ q.store.server = store[e].server /\ q.out \in Seq(EntryMsg)
  BY <1>3, ProcessAnyType DEF GoodResult
<1>5. out \in Seq(EntryMsg)
  BY <1>4, NoMessages
<1>6. store' = [store EXCEPT ![e] = q.store] /\ QueueOutgoing(e, out)
  BY <1>1
<1> HIDE DEF q, out
<1>7. Stores
  BY <1>2, <1>4, <1>6, StoreTypes
<1>8. Queues
  BY <1>1, <1>2, <1>5, <1>6, OutgoingTypes DEF Queues, StateTypes
<1>9. QED
  BY <1>1, <1>2, <1>7, <1>8, UnchangedTypes

\* Every step keeps the types.
LEMMA StepTypes ==
    ASSUME SInv, NothingMistakable, [Next]_vars
    PROVE  StateTypes'
<1>1. IInv /\ StateTypes
  BY DEF SInv
<1> DEFINE Typed == Stores /\ Queues /\ Others
<1>2. ASSUME NEW e \in Ends, ReadStep(e) PROVE Typed
  <2>1. CASE Misread(e)
    <3>1. Dead(e) /\ UNCHANGED << store, user >> /\ garbled' = garbled \cup {e}
      BY <2>1 DEF Misread
    <3>2. QED
      BY <1>1, <3>1, DeadTypes
  <2>2. CASE HearsEnd(e)
    <3>1. Dead(e) /\ UNCHANGED << store, user, garbled >>
      BY <2>2 DEF HearsEnd
    <3>2. QED
      BY <1>1, <3>1, DeadTypes
  <2>3. CASE e = "client" /\ ClientFallsBack
    <3>1. Dead(e) /\ UNCHANGED << store, user, garbled >>
      BY <2>3 DEF ClientFallsBack
    <3>2. QED
      BY <1>1, <3>1, DeadTypes
  <2>4. CASE e = "client" /\ ClientGreeted
    <3>1. UNCHANGED << store, incoming, hasty, pending, open, garbled, user >>
      BY <2>4 DEF ClientGreeted, Reading
    <3>2. QED
      BY <1>1, <3>1, UnchangedTypes
  <2>5. CASE Collect(e) \/ Receive(e)
    BY <2>5, CollectTypes, ReceiveTypes
  <2>6. CASE e = "server" /\ (ServerWelcomes \/ ServerRejects \/ ServerApplies)
    BY <1>1, <2>6, WelcomeTypes, RejectTypes, ServerAppliesTypes
  <2>7. CASE e = "client" /\ ClientApplies
    BY <1>1, <2>7, ClientAppliesTypes
  <2>8. QED
    BY <1>2, <2>1, <2>2, <2>3, <2>4, <2>5, <2>6, <2>7 DEF ReadStep
<1>3. ASSUME NEW e \in Ends, WriteStep(e) PROVE Typed
  <2>1. CASE Write(e)
    BY <1>1, <2>1, WriteTypes
  <2>2. CASE WriteFails(e) \/ (e = "server" /\ ServerHangsUp)
    <3>1. Dead(e) /\ UNCHANGED << store, user, garbled >>
      BY <2>2 DEF WriteFails, ServerHangsUp
    <3>2. QED
      BY <1>1, <3>1, DeadTypes
  <2>3. QED
    BY <1>3, <2>1, <2>2 DEF WriteStep
<1>4. ASSUME UNCHANGED vars PROVE Typed
  <2>1. UNCHANGED << store, incoming, hasty, pending, open, garbled, user >>
    BY <1>4 DEF vars, connection
  <2>2. QED
    BY <1>1, <2>1, UnchangedTypes
<1>5. Typed
  BY <1>1, <1>2, <1>3, <1>4, LocalOpTypes, ConnectTypes, BreakTypes DEF Next
<1>6. Carries
  BY StepCarries
<1>7. QED
  BY <1>5, <1>6, StateTypesIs DEF Carries

-----------------------------------------------------------------------------
(* Greetings, and the server's silence *)

\* Steps after which the ends still wait, or speak the same revision.
LEMMA ApartAlone ==
    ASSUME SInv, UNCHANGED << rev, hasty >>,
           phase'["client"] \in {"assigns", "active"} => phase["client"] \in {"assigns", "active"}
    PROVE  Apart'
BY DEF SInv, Apart

\* Some of what an end has queued is gone.
LEMMA ApartFewer ==
    ASSUME SInv, UNCHANGED rev,
           phase'["client"] \in {"assigns", "active"} => phase["client"] \in {"assigns", "active"},
           \A e \in Ends : hasty'[e] = hasty[e] \/ hasty'[e] = << >>
    PROVE  Apart'
<1>1. << >> \in Seq(Greeting)
  BY EmptySeq
<1>2. QED
  BY <1>1 DEF SInv, Apart

\* An end gives up.
LEMMA ApartDead ==
    ASSUME SInv, NEW e \in Ends, Dead(e), UNCHANGED rev
    PROVE  Apart'
<1>1. /\ phase \in [Ends -> Phases] /\ DOMAIN hasty = Ends
      /\ phase' = [phase EXCEPT ![e] = "dead"]
      /\ hasty' = [hasty EXCEPT ![e] = << >>]
  BY DEF SInv, IInv, Types, Dead
<1>2. phase'["client"] \in {"dead", phase["client"]}
  BY <1>1, EndFacts
<1>3. \A d \in Ends : hasty'[d] = hasty[d] \/ hasty'[d] = << >>
  BY <1>1
<1>4. QED
  BY <1>2, <1>3, ApartFewer

\* An end that reads what is no greeting speaks the revision of its peer.
LEMMA ApartReads ==
    ASSUME SInv, NothingMistakable, NEW e \in Ends, NEW r \in Readable(e),
           r.val.type \notin {"ClientHello", "ProtoUnsup"}, UNCHANGED rev
    PROVE  Apart'
<1>1. r.val \notin Greeting
  BY DEF Greeting, ClientHello, ProtoUnsup
<1>2. rev["client"] = rev["server"]
  BY <1>1, ReadsNext
<1>3. QED
  BY <1>2 DEF Apart

\* Every step keeps the ends apart or together.
LEMMA ApartHolds ==
    ASSUME SInv, NothingMistakable, [Next]_vars
    PROVE  Apart'
<1>1. DOMAIN hasty = Ends /\ phase \in [Ends -> Phases] /\ rev \in [Ends -> Revs]
      /\ default \in [Ends -> Revs] /\ nextRev \in Revs
  BY DEF SInv, IInv, Types
<1>2. ASSUME NEW e \in Ends, LocalOp(e) PROVE Apart'
  BY <1>2, ApartAlone DEF LocalOp
<1>3. ASSUME Break PROVE Apart'
  BY <1>3, ApartAlone DEF Break
<1>4. ASSUME Connect PROVE Apart'
  <2> DEFINE first == << ClientHello(FirstRev("client")) >>
  <2>1. /\ hasty' = [Nothing EXCEPT !["client"] = first]
        /\ phase' = [e \in Ends |-> "hello"]
    BY <1>4 DEF Connect
  <2>2. ClientHello(FirstRev("client")) \in Greeting
    BY <1>1 DEF FirstRev, Greeting
  <2>3. first \in Seq(Greeting) /\ << >> \in Seq(Greeting)
    BY <2>2, EmptySeq
  <2> HIDE DEF first
  <2>4. \A e \in Ends : hasty'[e] \in Seq(Greeting)
    BY <2>1, <2>3 DEF Nothing
  <2>5. phase'["client"] = "hello"
    BY <2>1, EndFacts
  <2>6. QED
    BY <2>4, <2>5 DEF Apart
<1>5. ASSUME NEW e \in Ends, Write(e) PROVE Apart'
  <2>1. /\ UNCHANGED << rev, phase >>
        /\ hasty' = [hasty EXCEPT ![e] = << >>] \/ hasty' = hasty
    BY <1>5 DEF Write, Taken
  <2>2. \A d \in Ends : hasty'[d] = hasty[d] \/ hasty'[d] = << >>
    BY <1>1, <2>1
  <2>3. QED
    BY <2>1, <2>2, ApartFewer
<1>6. ASSUME NEW e \in Ends, Misread(e) \/ HearsEnd(e) \/ WriteFails(e) PROVE Apart'
  BY <1>6, ApartDead DEF Misread, HearsEnd, WriteFails
<1>7. ASSUME ServerHangsUp \/ ClientFallsBack PROVE Apart'
  BY <1>7, ApartDead, EndFacts DEF ServerHangsUp, ClientFallsBack
<1>8. ASSUME NEW e \in Ends, Collect(e) PROVE Apart'
  <2>1. \E r \in Readable(e) : r.val.type = "EntryAssign" /\ UNCHANGED rev
    BY <1>8 DEF Collect
  <2>2. QED
    BY <2>1, ApartReads
<1>9. ASSUME ClientGreeted \/ ClientApplies PROVE Apart'
  <2>1. \E r \in Readable("client") :
           r.val.type \in {"ServerHello", "ServerHelloDone"} /\ UNCHANGED rev
    BY <1>9 DEF ClientGreeted, ClientApplies
  <2>2. QED
    BY <2>1, ApartReads, EndFacts
<1>10. ASSUME NEW e \in Ends, Receive(e) PROVE Apart'
  BY <1>10, ApartAlone DEF Receive
<1>11. ASSUME ServerApplies PROVE Apart'
  <2>1. UNCHANGED << rev, hasty >> /\ phase'["client"] = phase["client"]
    BY <1>1, <1>11, EndFacts DEF ServerApplies, Enters
  <2>2. QED
    BY <2>1, ApartAlone
<1>12. ASSUME ServerRejects PROVE Apart'
  <2> DEFINE m == ProtoUnsup(default["server"])
  <2>1. /\ hasty' = [hasty EXCEPT !["server"] = << m >>]
        /\ phase' = [phase EXCEPT !["server"] = "rejecting"] /\ UNCHANGED rev
    BY <1>12 DEF ServerRejects, Enters
  <2>2. m \in Greeting
    BY <1>1, EndFacts DEF Greeting
  <2> HIDE DEF m
  <2>3. << m >> \in Seq(Greeting)
    BY <2>2
  <2>4. /\ hasty'["server"] \in Seq(Greeting) /\ hasty'["client"] = hasty["client"]
        /\ phase'["client"] = phase["client"]
    BY <1>1, <2>1, <2>3, EndFacts
  <2>5. QED
    BY <2>1, <2>4, EndFacts DEF SInv, Apart
<1>13. ASSUME ServerWelcomes PROVE Apart'
  <2>1. PICK r \in Readable("server") :
           phase["server"] = "hello" /\ rev' = [rev EXCEPT !["server"] = r.val.rev]
    BY <1>13 DEF ServerWelcomes, SetProtoRev
  <2>2. r.val.rev = rev["client"]
    BY <2>1, ServerHears DEF SInv, ClientHello
  <2>3. rev'["client"] = rev'["server"]
    BY <1>1, <2>1, <2>2, EndFacts
  <2>4. QED
    BY <2>3 DEF Apart
<1>14. ASSUME UNCHANGED vars PROVE Apart'
  <2>1. UNCHANGED << rev, hasty, phase >>
    BY <1>14 DEF vars, connection
  <2>2. QED
    BY <2>1, ApartAlone
<1>15. ASSUME NEW e \in Ends, ReadStep(e) PROVE Apart'
  BY <1>6, <1>7, <1>8, <1>9, <1>10, <1>11, <1>12, <1>13, <1>15 DEF ReadStep
<1>16. ASSUME NEW e \in Ends, WriteStep(e) PROVE Apart'
  BY <1>5, <1>6, <1>7, <1>16 DEF WriteStep
<1>17. QED
  BY <1>2, <1>3, <1>4, <1>14, <1>15, <1>16 DEF Next

\* Every step keeps the server silent until it has read the hello.
LEMMA SilentHolds ==
    ASSUME SInv, [Next]_vars
    PROVE  Silent'
<1>1. phase \in [Ends -> Phases] /\ sent \in [Ends -> Seq(Message)] /\ IInv
      /\ got \in [Ends -> Seq(Message)]
  BY DEF SInv, IInv, Types, StateTypes
<1> DEFINE Still == /\ phase'["server"] = "hello" => phase["server"] = "hello"
                    /\ sent'["server"] = sent["server"] /\ got'["server"] = got["server"]
<1>2. Still => Silent'
  BY DEF SInv, Silent
<1>3. ASSUME NEW e \in Ends, Dead(e), UNCHANGED << sent, got >> PROVE Silent'
  <2>1. phase' = [phase EXCEPT ![e] = "dead"]
    BY <1>3 DEF Dead
  <2>2. phase'["server"] \in {"dead", phase["server"]}
    BY <1>1, <2>1, EndFacts
  <2>3. QED
    BY <1>2, <1>3, <2>2
<1>4. ASSUME NEW e \in Ends, LocalOp(e) \/ Break PROVE Silent'
  BY <1>2, <1>4 DEF LocalOp, Break
<1>5. ASSUME Connect PROVE Silent'
  <2>1. sent' = Nothing /\ got' = Nothing
    BY <1>5 DEF Connect
  <2>2. QED
    BY <2>1, NothingFacts, EndFacts DEF Silent
<1>6. ASSUME NEW e \in Ends, Misread(e) \/ HearsEnd(e) \/ WriteFails(e) PROVE Silent'
  BY <1>3, <1>6 DEF Misread, HearsEnd, WriteFails
<1>7. ASSUME ServerHangsUp PROVE Silent'
  BY <1>3, <1>7, EndFacts DEF ServerHangsUp
<1>8. ASSUME NEW e \in Ends, Write(e) PROVE Silent'
  <2>1. /\ UNCHANGED << phase, got >> /\ Batch(e) # << >>
        /\ \E x : sent' = [sent EXCEPT ![e] = x]
    BY <1>8 DEF Write
  <2>2. CASE phase["server"] = "hello"
    <3>1. hasty["server"] = << >>
      BY <1>1, <2>2 DEF IInv, RevsInv, WaitsForHello
    <3>2. e # "server"
      BY <2>1, <2>2, <3>1 DEF Batch
    <3>3. sent'["server"] = sent["server"]
      BY <1>1, <2>1, <3>2, EndFacts
    <3>4. QED
      BY <1>2, <2>1, <3>3
  <2>3. CASE phase["server"] # "hello"
    BY <2>1, <2>3 DEF Silent
  <2>4. QED
    BY <2>2, <2>3
<1>9. ASSUME NEW r \in Readable("client"), UNCHANGED phase \/ \E p : phase' = [phase EXCEPT !["client"] = p]
      PROVE  Silent'
  <2>1. phase["server"] # "hello"
    BY <1>1, <1>9, ClientWaits
  <2>2. phase'["server"] = phase["server"]
    BY <1>1, <1>9, EndFacts
  <2>3. QED
    BY <2>1, <2>2 DEF Silent
<1>10. ASSUME NEW r \in Readable("server"), Reading("server", r),
              UNCHANGED phase \/ \E p : p # "hello" /\ phase' = [phase EXCEPT !["server"] = p]
       PROVE  Silent'
  <2>1. UNCHANGED sent /\ got' = [got EXCEPT !["client"] = Append(@, r.val)]
    BY <1>10, EndFacts DEF Reading
  <2>2. got'["server"] = got["server"]
    BY <1>1, <2>1, EndFacts
  <2>3. phase'["server"] = "hello" => phase["server"] = "hello"
    BY <1>1, <1>10, EndFacts
  <2>4. QED
    BY <1>2, <2>1, <2>2, <2>3
<1>11. ASSUME ClientGreeted \/ ClientApplies PROVE Silent'
  BY <1>9, <1>11 DEF ClientGreeted, ClientApplies, Enters
<1>12. ASSUME ClientFallsBack PROVE Silent'
  BY <1>9, <1>12 DEF ClientFallsBack, Dead
<1>13. ASSUME ServerWelcomes \/ ServerRejects \/ ServerApplies PROVE Silent'
  <2>1. ASSUME NEW r \in Readable("server"), Reading("server", r),
               \E p \in {"assigns", "active", "rejecting"} : phase' = [phase EXCEPT !["server"] = p]
        PROVE  Silent'
    BY <1>10, <2>1
  <2>2. QED
    BY <1>13, <2>1 DEF ServerWelcomes, ServerRejects, ServerApplies, Enters
<1>14. ASSUME NEW e \in Ends, Collect(e) \/ Receive(e) PROVE Silent'
  <2>1. PICK r \in Readable(e) :
           /\ Reading(e, r)
           /\ UNCHANGED phase \/ phase' = [phase EXCEPT ![e] = "assigns"]
    BY <1>14 DEF Collect, Receive, Enters
  <2>2. CASE e = "client"
    BY <1>9, <2>1, <2>2
  <2>3. CASE e = "server"
    BY <1>10, <2>1, <2>3
  <2>4. QED
    BY <2>2, <2>3, EndFacts
<1>15. ASSUME UNCHANGED vars PROVE Silent'
  BY <1>2, <1>15 DEF vars, connection
<1>16. ASSUME NEW e \in Ends, ReadStep(e) PROVE Silent'
  BY <1>6, <1>11, <1>12, <1>13, <1>14, <1>16 DEF ReadStep
<1>17. ASSUME NEW e \in Ends, WriteStep(e) PROVE Silent'
  BY <1>6, <1>7, <1>8, <1>17 DEF WriteStep
<1>18. QED
  BY <1>4, <1>5, <1>15, <1>16, <1>17, EndFacts DEF Next

-----------------------------------------------------------------------------
(* The invariant, and the channels *)

\* The invariant is inductive.
LEMMA StreamsHold ==
    ASSUME NothingMistakable, SInv, [Next]_vars
    PROVE  SInv'
<1>1. IInv'
  BY StepHolds DEF SInv
<1>2. \A e \in Ends : OnTheWay(e)'
  BY StepCarries DEF Carries
<1>3. QED
  BY <1>1, <1>2, StepTypes, ApartHolds, SilentHolds DEF SInv

\* A new store.
LEMMA NewStoreType ==
    ASSUME NEW b \in BOOLEAN
    PROVE  NewStore(b) \in Store /\ NewStore(b).server = b
<1>1. NewEntry \in Entry
  BY SeqSpaceFacts, StorageAssumption DEF NewEntry, Entry, StorageAssumption
<1>2. << >> \in Seq(Names \cup {NoName})
  BY EmptySeq
<1>3. QED
  BY <1>1, <1>2 DEF NewStore, Store

\* And it holds at first.
LEMMA InitStreams == Init => SInv
<1> SUFFICES ASSUME Init PROVE SInv
  OBVIOUS
<1>1. IInv
  BY InitHolds
<1>2. /\ incoming = Nothing /\ hasty = Nothing /\ pending = Nothing /\ stream = Nothing
      /\ sent = Nothing /\ got = Nothing
      /\ store = [e \in Ends |-> NewStore(e = "server")]
      /\ phase = [e \in Ends |-> "off"]
      /\ open = FALSE /\ garbled = {} /\ writers = {} /\ types = {} /\ deleted = FALSE
  BY DEF Init
<1>3. store \in [Ends -> Store] /\ \A e \in Ends : store[e].server <=> e = "server"
  <2>1. \A e \in Ends : store[e] \in Store /\ store[e].server = (e = "server")
    BY <1>2, NewStoreType
  <2>2. QED
    BY <1>2, <2>1
<1>4. /\ Nothing \in [Ends -> Seq(Message)] /\ Nothing \in [Ends -> Seq(AssignMsg)]
      /\ Nothing \in [Ends -> Seq(EntryMsg)]
  BY NoMessages DEF Nothing
<1>5. StateTypes
  BY <1>2, <1>3, <1>4 DEF StateTypes
<1>6. Apart /\ Silent
  <2>1. \A e \in Ends : phase[e] = "off"
    BY <1>2
  <2>2. << >> \in Seq(Greeting)
    BY EmptySeq
  <2>3. \A e \in Ends : hasty[e] = << >>
    BY <1>2, NothingFacts
  <2>4. QED
    BY <2>1, <2>2, <2>3, EndFacts DEF Apart, Silent
<1>7. \A e \in Ends : OnTheWay(e)
  BY <1>2, NothingFacts DEF OnTheWay
<1>8. QED
  BY <1>1, <1>5, <1>6, <1>7 DEF SInv

\* Every variable has its type, for any names, values, operations and breaks: what is read
\* is again a message about the names and values there are (Message.read, read_value,
\* Storage.processIncoming), unless an empty array is taken for one of another type.
THEOREM TypesAlwaysHold ==
    Spec /\ []NothingMistakable => []TypeOK
<1>1. SInv => TypeOK
  <2> SUFFICES ASSUME SInv PROVE TypeOK
    OBVIOUS
  <2>1. \A e \in Ends : /\ Range(incoming[e]) \subseteq AssignMsg
                        /\ Range(pending[e]) \subseteq EntryMsg
    <3> TAKE e \in Ends
    <3>1. incoming[e] \in Seq(AssignMsg) /\ pending[e] \in Seq(EntryMsg)
      BY DEF SInv, StateTypes
    <3>2. /\ \A i \in DOMAIN incoming[e] : incoming[e][i] \in AssignMsg
          /\ \A i \in DOMAIN pending[e] : pending[e][i] \in EntryMsg
      BY <3>1, LenProperties, ElementOfSeq
    <3>3. QED
      BY <3>2 DEF Range
  <2>2. QED
    BY <2>1 DEF TypeOK, SInv, IInv, Types, StateTypes
<1>2. SInv /\ NothingMistakable /\ [Next]_vars => SInv'
  BY StreamsHold
<1>3. QED
  BY InitStreams, <1>1, <1>2, PTL DEF Spec

\* What the client sends arrives at the server in order, each message once, and as far as
\* its revision can say it: the client's stream implements Channel (Message.write and
\* Message.read, the two handshakes and the queues of NetworkConnection).
THEOREM ToServerIsAChannel ==
    Spec /\ []NothingMistakable => ToServerInOrder
<1>1. Init => ToServer!Init
  BY NothingFacts, EndFacts DEF Init, ToServer!Init
<1>2. SInv /\ NothingMistakable /\ [Next]_vars => [ToServer!Next]_<< sent["client"], got["client"] >>
  <2> SUFFICES ASSUME SInv, NothingMistakable, [Next]_vars
               PROVE  [ToServer!Next]_<< sent["client"], got["client"] >>
    OBVIOUS
  <2>1. ChannelStep("client")
    BY StepCarries, EndFacts DEF Carries
  <2>2. QED
    BY <2>1 DEF ChannelStep, ChannelSend, ChannelReceive, ChannelOpen, ToServer!Next,
                ToServer!Send, ToServer!Receive, ToServer!Open
<1>3. SInv /\ NothingMistakable /\ [Next]_vars => SInv'
  BY StreamsHold
<1>4. QED
  BY InitStreams, <1>1, <1>2, <1>3, PTL DEF Spec, ToServerInOrder, ToServer!Spec

\* And so does what the server sends.
THEOREM ToClientIsAChannel ==
    Spec /\ []NothingMistakable => ToClientInOrder
<1>1. Init => ToClient!Init
  BY NothingFacts, EndFacts DEF Init, ToClient!Init
<1>2. SInv /\ NothingMistakable /\ [Next]_vars => [ToClient!Next]_<< sent["server"], got["server"] >>
  <2> SUFFICES ASSUME SInv, NothingMistakable, [Next]_vars
               PROVE  [ToClient!Next]_<< sent["server"], got["server"] >>
    OBVIOUS
  <2>1. ChannelStep("server")
    BY StepCarries, EndFacts DEF Carries
  <2>2. QED
    BY <2>1 DEF ChannelStep, ChannelSend, ChannelReceive, ChannelOpen, ToClient!Next,
                ToClient!Send, ToClient!Receive, ToClient!Open
<1>3. SInv /\ NothingMistakable /\ [Next]_vars => SInv'
  BY StreamsHold
<1>4. QED
  BY InitStreams, <1>1, <1>2, <1>3, PTL DEF Spec, ToClientInOrder, ToClient!Spec

-----------------------------------------------------------------------------
(* The order of the handshake *)

\* The types of messages, in their order.
Script(ms) == [i \in DOMAIN ms |-> ms[i].type]

\* A sequence of types in the order a handshake has them: one that opens it,
\* assignments, the one that closes it, and anything.
InOrder(s, opens, closes) ==
    \A i \in DOMAIN s :
        IF i = 1 THEN s[i] \in opens
        ELSE s[i] \in {"EntryAssign", closes} \/ \E j \in 1 .. i - 1 : s[j] = closes

\* Sequences of types, element by element.
LEMMA ScriptIs ==
    ASSUME NEW ms \in Seq(Message)
    PROVE  /\ Script(ms) \in Seq(MessageTypes) /\ Len(Script(ms)) = Len(ms)
           /\ \A i \in 1 .. Len(ms) : Script(ms)[i] = ms[i].type
<1>1. Len(ms) \in Nat /\ DOMAIN ms = 1 .. Len(ms) /\ \A i \in 1 .. Len(ms) : ms[i] \in Message
  BY LenProperties, ElementOfSeq
<1>2. Script(ms) = [i \in 1 .. Len(ms) |-> ms[i].type]
  BY <1>1 DEF Script
<1>3. \A i \in 1 .. Len(ms) : ms[i].type \in MessageTypes
  BY <1>1, TypesOfMessages
<1>4. Script(ms) \in [1 .. Len(ms) -> MessageTypes]
  BY <1>2, <1>3
<1>5. Script(ms) \in Seq(MessageTypes)
  BY <1>1, <1>4, SeqDef
<1>6. Len(Script(ms)) = Len(ms)
  BY <1>1, <1>4, <1>5, LenProperties
<1>7. QED
  BY <1>2, <1>5, <1>6

\* Of a concatenation.
LEMMA ScriptConcat ==
    ASSUME NEW a \in Seq(Message), NEW b \in Seq(Message)
    PROVE  Script(a \o b) = Script(a) \o Script(b)
<1> DEFINE c == a \o b  u == Script(a)  v == Script(b)  w == Script(c)
<1>1. /\ c \in Seq(Message) /\ Len(c) = Len(a) + Len(b) /\ Len(a) \in Nat /\ Len(b) \in Nat
      /\ \A i \in 1 .. Len(a) + Len(b) : c[i] = IF i <= Len(a) THEN a[i] ELSE b[i - Len(a)]
  BY ConcatProperties, LenProperties
<1> HIDE DEF c
<1>2. /\ u \in Seq(MessageTypes) /\ Len(u) = Len(a) /\ \A i \in 1 .. Len(a) : u[i] = a[i].type
      /\ v \in Seq(MessageTypes) /\ Len(v) = Len(b) /\ \A i \in 1 .. Len(b) : v[i] = b[i].type
      /\ w \in Seq(MessageTypes) /\ Len(w) = Len(c) /\ \A i \in 1 .. Len(c) : w[i] = c[i].type
  BY <1>1, ScriptIs
<1> HIDE DEF u, v, w
<1>3. /\ u \o v \in Seq(MessageTypes) /\ Len(u \o v) = Len(u) + Len(v)
      /\ \A i \in 1 .. Len(u) + Len(v) : (u \o v)[i] = IF i <= Len(u) THEN u[i] ELSE v[i - Len(u)]
  <2>1. u \in Seq(MessageTypes) /\ v \in Seq(MessageTypes)
    BY <1>2
  <2>2. QED
    BY <2>1, ConcatProperties
<1>4. \A i \in 1 .. Len(w) : w[i] = (u \o v)[i]
  <2> TAKE i \in 1 .. Len(w)
  <2>1. i \in 1 .. Len(a) + Len(b) /\ w[i] = c[i].type
    BY <1>1, <1>2
  <2>2. CASE i <= Len(a)
    BY <1>1, <1>2, <1>3, <2>1, <2>2
  <2>3. CASE ~(i <= Len(a))
    <3>1. i - Len(a) \in 1 .. Len(b)
      BY <1>1, <2>1, <2>3
    <3>2. QED
      BY <1>1, <1>2, <1>3, <2>1, <2>3, <3>1
  <2>4. QED
    BY <2>2, <2>3
<1>5. w = u \o v
  BY <1>1, <1>2, <1>3, <1>4, SeqEqual
<1>6. QED
  BY <1>5 DEF u, v, w, c

\* Of one message.
LEMMA ScriptOne ==
    ASSUME NEW m \in Message
    PROVE  Script(<< m >>) = << m.type >> /\ << m.type >> \in Seq(MessageTypes)
<1>1. Script(<< m >>) = << m.type >>
  BY DEF Script
<1>2. QED
  BY <1>1, TypesOfMessages

\* Revision 3 can say everything, so what is heard has the types of what was said.
LEMMA HeardScript ==
    ASSUME NEW own \in Revs, NEW ms \in Seq(Passing(own, 3))
    PROVE  /\ ms \in Seq(Message) /\ HeardOf(3, ms) \in Seq(Message)
           /\ Script(HeardOf(3, ms)) = Script(ms)
<1> DEFINE G == Passing(own, 3)
           Same(s) == Script(HeardOf(3, s)) = Script(s)
           P == {n \in Nat : \A s \in Seq(G) : Len(s) = n => Same(s)}
<1>1. 3 \in Revs /\ Unmistakable(3) /\ \A m : Sayable(3, m)
  BY DEF Revs, Unmistakable, Sayable
<1>2. \A s \in Seq(G) : HeardOf(3, s) \in Seq(Message)
  BY <1>1, EncodedIs
<1>3. \A s \in Seq(G) : s # << >> =>
         /\ Head(s) \in G /\ Tail(s) \in Seq(G) /\ Len(Tail(s)) = Len(s) - 1
         /\ s = << Head(s) >> \o Tail(s)
         /\ HeardOf(3, s) = HeardFrom(3, Head(s)) \o HeardOf(3, Tail(s))
  BY <1>1, EncodedFirst, FirstAndOthers
<1>4. G \subseteq Message
  BY DEF Passing
<1> HIDE DEF G
<1>5. \A s \in Seq(G) : s \in Seq(Message)
  BY <1>4, SeqMonotonic
<1>6. 0 \in P
  <2>1. ASSUME NEW s \in Seq(G), Len(s) = 0 PROVE Same(s)
    <3>1. s = << >>
      BY <2>1, EmptySeq
    <3>2. QED
      BY <3>1, EncodedNothing
  <2>2. QED
    BY <2>1
<1>7. \A n \in Nat : n \in P => n + 1 \in P
  <2> SUFFICES ASSUME NEW n \in Nat, n \in P PROVE n + 1 \in P
    OBVIOUS
  <2> HIDE DEF Same
  <2> SUFFICES ASSUME NEW s \in Seq(G), Len(s) = n + 1 PROVE Same(s)
    OBVIOUS
  <2> DEFINE m == Head(s)  t == Tail(s)  h == HeardOf(3, t)  x == HeardAs(3, m)
  <2>1. s # << >>
    BY EmptySeq
  <2>2. /\ m \in G /\ t \in Seq(G) /\ Len(t) = n /\ s = << m >> \o t
        /\ HeardOf(3, s) = HeardFrom(3, m) \o h
    <3>1. /\ m \in G /\ t \in Seq(G) /\ Len(t) = Len(s) - 1 /\ s = << m >> \o t
          /\ HeardOf(3, s) = HeardFrom(3, m) \o h
      BY <1>3, <2>1
    <3>2. QED
      BY <3>1
  <2> HIDE DEF m, t
  <2>3. m \in Message /\ t \in Seq(Message) /\ h \in Seq(Message)
    BY <1>2, <1>4, <1>5, <2>2
  <2>4. x \in Message /\ x.type = m.type
    <3>1. x \in Message
      BY <1>1, <2>3, HeardMessage
    <3>2. QED
      BY <3>1 DEF HeardAs
  <2>5. HeardFrom(3, m) = << x >>
    BY <1>1, <2>3, HeardFromIs
  <2>6. Script(h) = Script(t)
    BY <2>2 DEF Same
  <2> HIDE DEF h, x
  <2>7. << m >> \in Seq(Message) /\ << x >> \in Seq(Message)
    BY <2>3, <2>4
  <2>8. Script(<< x >> \o h) = << x.type >> \o Script(h)
    BY <2>3, <2>4, <2>7, ScriptConcat, ScriptOne
  <2>9. Script(<< m >> \o t) = << m.type >> \o Script(t)
    BY <2>3, <2>7, ScriptConcat, ScriptOne
  <2>10. QED
    BY <2>2, <2>4, <2>5, <2>6, <2>8, <2>9 DEF Same
<1>8. \A n \in Nat : n \in P
  <2> HIDE DEF P
  <2>1. QED
    BY <1>6, <1>7, Induction
<1>9. ms \in Seq(G) /\ Len(ms) \in Nat
  BY LenProperties DEF G
<1>10. Same(ms)
  <2>1. Len(ms) \in P
    BY <1>8, <1>9
  <2>2. QED
    BY <1>9, <2>1
<1>11. QED
  BY <1>2, <1>5, <1>9, <1>10

\* A part of what is in order, from the start, is.
LEMMA InOrderBefore ==
    ASSUME NEW T, NEW s \in Seq(T), NEW t \in Seq(T), NEW opens, NEW closes,
           InOrder(s \o t, opens, closes)
    PROVE  InOrder(s, opens, closes)
<1>1. /\ Len(s \o t) = Len(s) + Len(t) /\ Len(s) \in Nat /\ Len(t) \in Nat
      /\ DOMAIN s = 1 .. Len(s) /\ DOMAIN (s \o t) = 1 .. Len(s) + Len(t)
      /\ \A i \in 1 .. Len(s) + Len(t) : (s \o t)[i] = IF i <= Len(s) THEN s[i] ELSE t[i - Len(s)]
  <2>1. s \o t \in Seq(T)
    BY ConcatProperties
  <2>2. QED
    BY <2>1, ConcatProperties, LenProperties
<1> DEFINE w == s \o t
<1>2. \A i \in 1 .. Len(s) : w[i] = s[i] /\ i \in DOMAIN w
  BY <1>1
<1>3. InOrder(w, opens, closes)
  OBVIOUS
<1> HIDE DEF w
<1>4. ASSUME NEW i \in 1 .. Len(s)
      PROVE  IF i = 1 THEN s[i] \in opens
             ELSE s[i] \in {"EntryAssign", closes} \/ \E j \in 1 .. i - 1 : s[j] = closes
  <2>1. i \in DOMAIN w /\ w[i] = s[i] /\ \A j \in 1 .. i - 1 : w[j] = s[j]
    BY <1>1, <1>2
  <2>2. QED
    BY <1>3, <2>1 DEF InOrder
<1>5. QED
  BY <1>1, <1>4 DEF InOrder

\* After the message that closes the handshake anything may follow, and before it
\* assignments, and that message.
LEMMA InOrderMore ==
    ASSUME NEW T, NEW s \in Seq(T), NEW t \in Seq(T), NEW opens, NEW closes,
           InOrder(s, opens, closes), s # << >>,
           closes \in Range(s) \/ \A i \in DOMAIN t : t[i] \in {"EntryAssign", closes}
    PROVE  InOrder(s \o t, opens, closes)
<1>1. /\ Len(s \o t) = Len(s) + Len(t) /\ Len(s) \in Nat /\ Len(t) \in Nat /\ Len(s) >= 1
      /\ DOMAIN s = 1 .. Len(s) /\ DOMAIN t = 1 .. Len(t)
      /\ DOMAIN (s \o t) = 1 .. Len(s) + Len(t)
      /\ \A i \in 1 .. Len(s) + Len(t) : (s \o t)[i] = IF i <= Len(s) THEN s[i] ELSE t[i - Len(s)]
  <2>1. s \o t \in Seq(T)
    BY ConcatProperties
  <2>2. QED
    BY <2>1, ConcatProperties, LenProperties, EmptySeq
<1> DEFINE w == s \o t
<1>2. \A i \in 1 .. Len(s) : w[i] = s[i]
  BY <1>1
<1>3. \A i \in 1 .. Len(s) + Len(t) : i > Len(s) => w[i] = t[i - Len(s)] /\ i - Len(s) \in DOMAIN t
  BY <1>1
<1>4. DOMAIN w = 1 .. Len(s) + Len(t)
  BY <1>1
<1> HIDE DEF w
<1>5. ASSUME NEW i \in 1 .. Len(s) + Len(t)
      PROVE  IF i = 1 THEN w[i] \in opens
             ELSE w[i] \in {"EntryAssign", closes} \/ \E j \in 1 .. i - 1 : w[j] = closes
  <2>1. CASE i <= Len(s)
    <3>1. i \in DOMAIN s /\ w[i] = s[i] /\ \A j \in 1 .. i - 1 : w[j] = s[j]
      BY <1>1, <1>2, <2>1
    <3>2. IF i = 1 THEN s[i] \in opens
          ELSE s[i] \in {"EntryAssign", closes} \/ \E j \in 1 .. i - 1 : s[j] = closes
      BY <3>1 DEF InOrder
    <3>3. QED
      BY <3>1, <3>2
  <2>2. CASE i > Len(s)
    <3>1. i # 1 /\ w[i] = t[i - Len(s)] /\ i - Len(s) \in DOMAIN t
      BY <1>1, <1>3, <2>2
    <3>2. CASE closes \in Range(s)
      <4>1. PICK j \in 1 .. Len(s) : s[j] = closes
        BY <1>1, <3>2 DEF Range
      <4>2. j \in 1 .. i - 1 /\ w[j] = closes
        BY <1>1, <1>2, <2>2, <4>1
      <4>3. QED
        BY <3>1, <4>2
    <3>3. CASE \A k \in DOMAIN t : t[k] \in {"EntryAssign", closes}
      BY <3>1, <3>3
    <3>4. QED
      BY <3>2, <3>3
  <2>3. QED
    BY <1>1, <2>1, <2>2
<1>6. QED
  BY <1>4, <1>5 DEF InOrder, w

\* What is said is still said when more is.
LEMMA RangeMore ==
    ASSUME NEW T, NEW s \in Seq(T), NEW t \in Seq(T)
    PROVE  /\ Range(s) \subseteq Range(s \o t) /\ Range(t) \subseteq Range(s \o t)
           /\ Range(s \o t) \subseteq Range(s) \cup Range(t)
           /\ (s # << >> \/ t # << >>) => s \o t # << >>
<1>1. /\ s \o t \in Seq(T)
      /\ Len(s \o t) = Len(s) + Len(t) /\ Len(s) \in Nat /\ Len(t) \in Nat
      /\ DOMAIN s = 1 .. Len(s) /\ DOMAIN t = 1 .. Len(t)
      /\ DOMAIN (s \o t) = 1 .. Len(s) + Len(t)
      /\ \A i \in 1 .. Len(s) + Len(t) : (s \o t)[i] = IF i <= Len(s) THEN s[i] ELSE t[i - Len(s)]
  <2>1. s \o t \in Seq(T)
    BY ConcatProperties
  <2>2. QED
    BY <2>1, ConcatProperties, LenProperties
<1> DEFINE w == s \o t
<1>2. \A i \in 1 .. Len(s) : i \in DOMAIN w /\ w[i] = s[i]
  BY <1>1
<1>3. \A i \in 1 .. Len(t) : i + Len(s) \in DOMAIN w /\ w[i + Len(s)] = t[i]
  <2> TAKE i \in 1 .. Len(t)
  <2>1. i + Len(s) \in 1 .. Len(s) + Len(t) /\ ~(i + Len(s) <= Len(s)) /\ (i + Len(s)) - Len(s) = i
    BY <1>1
  <2>2. QED
    BY <1>1, <2>1
<1>4. \A i \in DOMAIN w : \/ i \in DOMAIN s /\ w[i] = s[i]
                          \/ i - Len(s) \in DOMAIN t /\ w[i] = t[i - Len(s)]
  BY <1>1
<1>5. (s # << >> \/ t # << >>) => w # << >>
  BY <1>1, EmptySeq
<1> HIDE DEF w
<1>6. Range(s) \subseteq Range(w)
  BY <1>1, <1>2 DEF Range
<1>7. Range(t) \subseteq Range(w)
  <2> SUFFICES ASSUME NEW i \in 1 .. Len(t) PROVE t[i] \in Range(w)
    BY <1>1 DEF Range
  <2>1. QED
    BY <1>3 DEF Range
<1>8. Range(w) \subseteq Range(s) \cup Range(t)
  BY <1>4 DEF Range
<1>9. QED
  BY <1>5, <1>6, <1>7, <1>8 DEF w

-----------------------------------------------------------------------------
(* What the ends of a connection of revision 3 say and hear *)

\* The types of what an end has written, or is about to as its part of the handshake,
\* and of what an end has read.
Says(e)  == Script(sent[e]) \o Script(hasty[e])
Hears(e) == Script(got[Peer(e)])

\* The messages that open and close an end's part of the handshake.
Opens(e)  == IF e = "client" THEN {"ClientHello"} ELSE {"ServerHello", "ProtoUnsup"}
Closes(e) == IF e = "client" THEN "ClientHelloDone" ELSE "ServerHelloDone"

\* The end has said its part, as far as it does not depend on its peer any more.
HasClosed(e) == phase[e] = "active" \/ (e = "server" /\ phase[e] = "assigns")

SpeaksInOrder(e) ==
    /\ InOrder(Says(e), Opens(e), Closes(e))
    /\ HasClosed(e) => Closes(e) \in Range(Says(e))
    /\ e = "client" /\ phase[e] \in {"hello", "assigns"} => Says(e) # << >>

\* An end that is in the middle of the handshake has heard the beginning and not the
\* end of its peer's part.
HearsInOrder(e) ==
    /\ phase[e] = "hello" => Hears(e) = << >>
    /\ phase[e] = "assigns" => Hears(e) # << >> /\ Closes(Peer(e)) \notin Range(Hears(e))

Order ==
    rev["client"] = 3 =>
        /\ rev["server"] = 3
        /\ \A e \in Ends : SpeaksInOrder(e) /\ HearsInOrder(e)

\* Only in revision 2 an end has been unable to read, and then it has given up.
Clean == \A e \in garbled : rev[e] = 2 /\ phase[e] = "dead"

\* The types of what is said and heard.
LEMMA SaysType ==
    ASSUME StateTypes, NEW e \in Ends
    PROVE  /\ Script(sent[e]) \in Seq(MessageTypes) /\ Script(hasty[e]) \in Seq(MessageTypes)
           /\ Says(e) \in Seq(MessageTypes) /\ Hears(e) \in Seq(MessageTypes)
<1>1. /\ sent[e] \in Seq(Message) /\ hasty[e] \in Seq(Message)
      /\ got[Peer(e)] \in Seq(Message)
  BY PeerFacts DEF StateTypes
<1>2. /\ Script(sent[e]) \in Seq(MessageTypes) /\ Script(hasty[e]) \in Seq(MessageTypes)
      /\ Hears(e) \in Seq(MessageTypes)
  BY <1>1, ScriptIs DEF Hears
<1>3. QED
  BY <1>2, ConcatProperties DEF Says

\* An end that says nothing new, and does not get further.
LEMMA SpeaksAsBefore ==
    ASSUME NEW e \in Ends, SpeaksInOrder(e), Says(e)' = Says(e),
           phase'[e] = phase[e] \/ phase'[e] \in {"dead", "rejecting"}
                \/ (e = "server" /\ HasClosed(e)) \/ (e = "client" /\ phase[e] = "hello" /\ phase'[e] = "assigns")
    PROVE  SpeaksInOrder(e)'
BY DEF SpeaksInOrder, HasClosed, Opens, Closes, Ends

\* An end that hears nothing new.
LEMMA HearsAsBefore ==
    ASSUME NEW e \in Ends, HearsInOrder(e), Hears(e)' = Hears(e),
           phase'[e] = phase[e] \/ phase'[e] \notin {"hello", "assigns"}
    PROVE  HearsInOrder(e)'
BY DEF HearsInOrder, Closes

\* An end that gives up says nothing more.
LEMMA DeadSpeaks ==
    ASSUME StateTypes, NEW e \in Ends, SpeaksInOrder(e), phase'[e] = "dead",
           sent'[e] = sent[e], hasty'[e] = << >>
    PROVE  SpeaksInOrder(e)'
<1>1. Says(e)' = Script(sent[e])
  <2>1. Script(<< >>) = << >>
    BY DEF Script
  <2>2. Script(sent[e]) \o << >> = Script(sent[e])
    BY SaysType, ConcatEmptySeq
  <2>3. QED
    BY <2>1, <2>2 DEF Says
<1>2. InOrder(Script(sent[e]) \o Script(hasty[e]), Opens(e), Closes(e))
  BY DEF SpeaksInOrder, Says
<1>3. InOrder(Script(sent[e]), Opens(e), Closes(e))
  BY <1>2, SaysType, InOrderBefore
<1>4. QED
  BY <1>1, <1>3 DEF SpeaksInOrder, HasClosed, Opens, Closes

\* What an end says more.
LEMMA SaysMore ==
    ASSUME StateTypes, NEW e \in Ends, SpeaksInOrder(e), NEW t \in Seq(MessageTypes),
           Says(e)' = Says(e) \o t, Says(e) # << >>,
           Closes(e) \in Range(Says(e)) \/ \A i \in DOMAIN t : t[i] \in {"EntryAssign", Closes(e)},
           HasClosed(e)' => Closes(e) \in Range(Says(e)) \/ Closes(e) \in Range(t)
    PROVE  SpeaksInOrder(e)'
<1>1. Says(e) \in Seq(MessageTypes)
  BY SaysType
<1>2. InOrder(Says(e) \o t, Opens(e), Closes(e))
  BY <1>1, InOrderMore DEF SpeaksInOrder
<1>3. /\ Range(Says(e)) \subseteq Range(Says(e) \o t) /\ Range(t) \subseteq Range(Says(e) \o t)
      /\ Says(e) \o t # << >>
  BY <1>1, RangeMore
<1>4. QED
  BY <1>2, <1>3 DEF SpeaksInOrder, Opens, Closes

\* What is said or heard does not change with what it depends on.
LEMMA SaysFrame ==
    ASSUME NEW e \in Ends
    PROVE  /\ sent'[e] = sent[e] /\ hasty'[e] = hasty[e] => Says(e)' = Says(e)
           /\ got'[Peer(e)] = got[Peer(e)] => Hears(e)' = Hears(e)
BY DEF Says, Hears

\* Steps in which nothing is said or heard.
LEMMA AloneOrder ==
    ASSUME Order, UNCHANGED << rev, phase, sent, hasty, got >>
    PROVE  Order'
<1> SUFFICES ASSUME rev["client"] = 3
             PROVE  \A e \in Ends : SpeaksInOrder(e)' /\ HearsInOrder(e)'
  BY DEF Order
<1> TAKE e \in Ends
<1>1. SpeaksInOrder(e) /\ HearsInOrder(e)
  BY DEF Order
<1>2. QED
  BY <1>1, SaysFrame, SpeaksAsBefore, HearsAsBefore

\* An end gives up.
LEMMA DeadOrder ==
    ASSUME SInv, Order, NEW e \in Ends, Dead(e), UNCHANGED << rev, sent >>,
           UNCHANGED got \/ \E x : got' = [got EXCEPT ![Peer(e)] = x]
    PROVE  Order'
<1> SUFFICES ASSUME rev["client"] = 3
             PROVE  \A d \in Ends : SpeaksInOrder(d)' /\ HearsInOrder(d)'
  BY DEF Order
<1>1. /\ phase \in [Ends -> Phases] /\ DOMAIN hasty = Ends /\ StateTypes /\ DOMAIN got = Ends
      /\ phase' = [phase EXCEPT ![e] = "dead"] /\ hasty' = [hasty EXCEPT ![e] = << >>]
  BY DEF SInv, IInv, Types, StateTypes, Dead
<1>2. \A d \in Ends : SpeaksInOrder(d) /\ HearsInOrder(d)
  BY DEF Order
<1>3. SpeaksInOrder(e)' /\ HearsInOrder(e)'
  <2>1. phase'[e] = "dead" /\ hasty'[e] = << >>
    BY <1>1
  <2>2. SpeaksInOrder(e)'
    BY <1>1, <1>2, <2>1, DeadSpeaks
  <2>3. QED
    BY <2>1, <2>2 DEF HearsInOrder
<1>4. SpeaksInOrder(Peer(e))' /\ HearsInOrder(Peer(e))'
  <2> DEFINE d == Peer(e)
  <2>1. d \in Ends /\ d # e /\ Peer(d) = e
    BY PeerFacts
  <2> HIDE DEF d
  <2>2. phase'[d] = phase[d] /\ hasty'[d] = hasty[d] /\ got'[Peer(d)] = got[Peer(d)]
    BY <1>1, <2>1 DEF d
  <2>3. Says(d)' = Says(d) /\ Hears(d)' = Hears(d)
    BY <2>1, <2>2, SaysFrame
  <2>4. SpeaksInOrder(d)' /\ HearsInOrder(d)'
    BY <1>2, <2>1, <2>2, <2>3, SpeaksAsBefore, HearsAsBefore
  <2>5. QED
    BY <2>4 DEF d
<1>5. QED
  BY <1>3, <1>4, PeerFacts

-----------------------------------------------------------------------------
(* The steps keep the order *)

\* Steps of one end; the other says and hears what it did.
LEMMA OtherOrder ==
    ASSUME NEW e \in Ends, SpeaksInOrder(Peer(e)), HearsInOrder(Peer(e)),
           phase'[Peer(e)] = phase[Peer(e)], sent'[Peer(e)] = sent[Peer(e)],
           hasty'[Peer(e)] = hasty[Peer(e)], got'[e] = got[e]
    PROVE  SpeaksInOrder(Peer(e))' /\ HearsInOrder(Peer(e))'
<1> DEFINE d == Peer(e)
<1>1. d \in Ends /\ Peer(d) = e
  BY PeerFacts
<1> HIDE DEF d
<1>2. Says(d)' = Says(d) /\ Hears(d)' = Hears(d)
  BY <1>1, SaysFrame DEF d
<1>3. SpeaksInOrder(d)' /\ HearsInOrder(d)'
  BY <1>1, <1>2, SpeaksAsBefore, HearsAsBefore DEF d
<1>4. QED
  BY <1>3 DEF d

\* A connection starts with the client's hello.
LEMMA ConnectOrder ==
    ASSUME SInv, Connect
    PROVE  Order'
<1>1. /\ sent' = Nothing /\ got' = Nothing /\ phase' = [e \in Ends |-> "hello"]
      /\ hasty' = [Nothing EXCEPT !["client"] = << ClientHello(FirstRev("client")) >>]
      /\ rev' = [e \in Ends |-> FirstRev(e)]
  BY DEF Connect
<1> DEFINE hi == ClientHello(FirstRev("client"))
<1>2. /\ \A e \in Ends : sent'[e] = << >> /\ got'[e] = << >> /\ phase'[e] = "hello"
      /\ hasty'["client"] = << hi >> /\ hasty'["server"] = << >>
      /\ rev'["server"] = 3
  BY <1>1, NothingFacts, EndFacts DEF Nothing, FirstRev
<1>3. Script(<< >>) = << >> /\ Script(<< hi >>) = << "ClientHello" >>
  BY DEF Script, ClientHello
<1> HIDE DEF hi
<1>4. /\ Says("client")' = << "ClientHello" >> /\ Says("server")' = << >>
      /\ \A e \in Ends : Hears(e)' = << >>
  <2>1. << >> \o << "ClientHello" >> = << "ClientHello" >> /\ << >> \o << >> = << >>
    OBVIOUS
  <2>2. \A e \in Ends : Hears(e)' = << >>
    BY <1>2, <1>3, PeerFacts DEF Hears
  <2>3. QED
    BY <1>2, <1>3, <2>1, <2>2, EndFacts DEF Says
<1>5. SpeaksInOrder("client")'
  <2>1. InOrder(<< "ClientHello" >>, {"ClientHello"}, "ClientHelloDone") /\ << "ClientHello" >> # << >>
    BY DEF InOrder
  <2>2. QED
    BY <1>2, <1>4, <2>1, EndFacts DEF SpeaksInOrder, HasClosed, Opens, Closes
<1>6. SpeaksInOrder("server")'
  <2>1. \A x, y : InOrder(<< >>, x, y)
    BY DEF InOrder
  <2>2. QED
    BY <1>2, <1>4, <2>1, EndFacts DEF SpeaksInOrder, HasClosed
<1>7. \A e \in Ends : HearsInOrder(e)'
  BY <1>2, <1>4 DEF HearsInOrder
<1>8. QED
  BY <1>2, <1>5, <1>6, <1>7, EndFacts DEF Order

\* What is written of the handshake is said as it was queued; the updates follow
\* when the end's part of it is said.
LEMMA WriteOrder ==
    ASSUME SInv, Order, NEW e \in Ends, Write(e)
    PROVE  Order'
<1> DEFINE b == Batch(e)
<1>1. /\ Alive(e) /\ b # << >> /\ \A i \in DOMAIN Batch(e) : Encodable(rev[e], Batch(e)[i])
      /\ sent' = [sent EXCEPT ![e] = @ \o HeardOf(rev[e], b)]
      /\ UNCHANGED << rev, phase, got >> /\ Taken(e)
  BY DEF Write, HeardOf
<1> SUFFICES ASSUME rev["client"] = 3
             PROVE  \A d \in Ends : SpeaksInOrder(d)' /\ HearsInOrder(d)'
  BY <1>1 DEF Order
<1>2. /\ rev[e] = 3 /\ rev[Peer(e)] = 3 /\ \A d \in Ends : SpeaksInOrder(d) /\ HearsInOrder(d)
  BY EndFacts DEF Order
<1>3. b \in Seq(Passing(3, 3))
  BY <1>1, <1>2, BatchPasses
<1>4. b \in Seq(Message) /\ HeardOf(3, b) \in Seq(Message) /\ Script(HeardOf(3, b)) = Script(b)
  BY <1>3, HeardScript DEF Revs
<1>5. /\ StateTypes /\ DOMAIN hasty = Ends /\ DOMAIN sent = Ends
      /\ sent[e] \in Seq(Message) /\ hasty[e] \in Seq(Message)
  BY DEF SInv, StateTypes, IInv, Types
<1>6. Peer(e) \in Ends /\ Peer(e) # e
  BY PeerFacts
<1>7. sent'[e] = sent[e] \o HeardOf(3, b) /\ sent'[Peer(e)] = sent[Peer(e)]
  BY <1>1, <1>2, <1>5, <1>6
<1>8. Script(sent'[e]) = Script(sent[e]) \o Script(b)
  BY <1>4, <1>5, <1>7, ScriptConcat
<1>9. Script(<< >>) = << >>
  BY DEF Script
<1>10. /\ Script(sent[e]) \in Seq(MessageTypes) /\ Script(hasty[e]) \in Seq(MessageTypes)
       /\ Script(b) \in Seq(MessageTypes) /\ Says(e) \in Seq(MessageTypes)
  BY <1>4, <1>5, SaysType, ScriptIs
<1>11. /\ Script(sent[e]) \o << >> = Script(sent[e])
       /\ (Script(sent[e]) \o Script(b)) \o << >> = Script(sent[e]) \o Script(b)
  <2>1. Script(sent[e]) \o Script(b) \in Seq(MessageTypes)
    BY <1>10, ConcatProperties
  <2>2. QED
    BY <1>10, <2>1, ConcatEmptySeq
<1>12. hasty'[e] = << >> /\ hasty'[Peer(e)] = hasty[Peer(e)]
  BY <1>1, <1>5, <1>6 DEF Taken
<1>13. Says(e)' = Script(sent[e]) \o Script(b)
  BY <1>8, <1>9, <1>11, <1>12 DEF Says
<1>14. SpeaksInOrder(e)'
  <2>1. CASE hasty[e] # << >>
    <3>1. Says(e)' = Says(e)
      BY <1>13, <2>1 DEF Says, Batch
    <3>2. QED
      BY <1>1, <1>2, <3>1, SpeaksAsBefore
  <2>2. CASE hasty[e] = << >>
    <3>1. phase[e] = "active"
      BY <1>1, <2>2 DEF Batch
    <3>2. Closes(e) \in Range(Says(e))
      BY <1>2, <3>1 DEF SpeaksInOrder, HasClosed
    <3>3. Says(e) # << >>
      BY <3>2 DEF Range
    <3>4. Says(e) = Script(sent[e])
      BY <1>9, <1>11, <2>2 DEF Says
    <3> HIDE DEF b
    <3>5. QED
      BY <1>2, <1>5, <1>10, <1>13, <3>2, <3>3, <3>4, SaysMore
  <2>3. QED
    BY <2>1, <2>2
<1>15. HearsInOrder(e)'
  BY <1>1, <1>2, SaysFrame, HearsAsBefore
<1>16. SpeaksInOrder(Peer(e))' /\ HearsInOrder(Peer(e))'
  BY <1>1, <1>2, <1>6, <1>7, <1>12, OtherOrder
<1>17. QED
  BY <1>14, <1>15, <1>16, PeerFacts

\* What an end hears when it reads a message.
LEMMA ReadingHears ==
    ASSUME SInv, NothingMistakable, NEW e \in Ends, NEW r \in Readable(e), Reading(e, r)
    PROVE  /\ Expected(e, r.val) /\ r.val \in Message /\ sent' = sent /\ got'[e] = got[e]
           /\ Hears(e)' = Hears(e) \o << r.val.type >>
           /\ << r.val.type >> \in Seq(MessageTypes)
<1>1. /\ Expected(e, r.val) /\ sent' = sent
      /\ got' = [got EXCEPT ![Peer(e)] = Append(@, r.val)]
  BY DEF Reading
<1>2. r.val \in Message
  BY ReadsNext
<1>3. DOMAIN got = Ends /\ got[Peer(e)] \in Seq(Message) /\ Peer(e) \in Ends /\ Peer(e) # e
  BY PeerFacts DEF SInv, StateTypes
<1>4. got'[Peer(e)] = got[Peer(e)] \o << r.val >> /\ got'[e] = got[e]
  <2>1. Append(got[Peer(e)], r.val) = got[Peer(e)] \o << r.val >>
    BY <1>2, <1>3, AppendIsConcat
  <2>2. QED
    BY <1>1, <1>3, <2>1
<1>5. << r.val >> \in Seq(Message)
  BY <1>2
<1>6. Script(got'[Peer(e)]) = Script(got[Peer(e)]) \o << r.val.type >>
  BY <1>2, <1>3, <1>4, <1>5, ScriptConcat, ScriptOne
<1>7. QED
  BY <1>1, <1>2, <1>4, <1>6, ScriptOne DEF Hears

\* An end reads a message and goes on in the handshake, or has it behind it.
LEMMA HearsMore ==
    ASSUME SInv, NothingMistakable, NEW e \in Ends, HearsInOrder(e), NEW r \in Readable(e),
           Reading(e, r),
           \/ phase'[e] \notin {"hello", "assigns"}
           \/ /\ phase'[e] = "assigns" /\ phase[e] \in {"hello", "assigns"}
              /\ r.val.type # Closes(Peer(e))
    PROVE  HearsInOrder(e)'
<1>1. CASE phase'[e] \notin {"hello", "assigns"}
  BY <1>1 DEF HearsInOrder
<1>2. CASE /\ phase'[e] = "assigns" /\ phase[e] \in {"hello", "assigns"}
           /\ r.val.type # Closes(Peer(e))
  <2> DEFINE t == << r.val.type >>
  <2>1. /\ Hears(e)' = Hears(e) \o t /\ t \in Seq(MessageTypes)
        /\ Hears(e) \in Seq(MessageTypes)
    BY ReadingHears, SaysType DEF SInv
  <2>2. t # << >> /\ Range(t) = {r.val.type}
    BY DEF Range
  <2> HIDE DEF t
  <2>3. /\ Hears(e) \o t # << >>
        /\ Range(Hears(e) \o t) \subseteq Range(Hears(e)) \cup {r.val.type}
    BY <2>1, <2>2, RangeMore
  <2>4. Closes(Peer(e)) \notin Range(Hears(e))
    BY <1>2 DEF HearsInOrder, Range
  <2>5. Closes(Peer(e))' = Closes(Peer(e))
    BY DEF Closes
  <2>6. QED
    BY <1>2, <2>1, <2>3, <2>4, <2>5 DEF HearsInOrder
<1>3. QED
  BY <1>1, <1>2

-----------------------------------------------------------------------------
(* Reading keeps the order *)

\* An end reads a message, and says what it then has to say.
LEMMA ReadOrder ==
    ASSUME SInv, NothingMistakable, Order, NEW e \in Ends, NEW r \in Readable(e), Reading(e, r),
           rev'["client"] = rev["client"], rev["client"] = 3 => rev'["server"] = 3,
           phase'[Peer(e)] = phase[Peer(e)], hasty'[Peer(e)] = hasty[Peer(e)],
           rev["client"] = 3 =>
              /\ SpeaksInOrder(e)'
              /\ \/ phase'[e] \notin {"hello", "assigns"}
                 \/ /\ phase'[e] = "assigns" /\ phase[e] \in {"hello", "assigns"}
                    /\ r.val.type # Closes(Peer(e))
    PROVE  Order'
<1> SUFFICES ASSUME rev["client"] = 3
             PROVE  \A d \in Ends : SpeaksInOrder(d)' /\ HearsInOrder(d)'
  BY DEF Order
<1>1. \A d \in Ends : SpeaksInOrder(d) /\ HearsInOrder(d)
  BY DEF Order
<1>2. HearsInOrder(e)'
  BY <1>1, HearsMore
<1>3. Peer(e) \in Ends /\ sent' = sent /\ got'[e] = got[e]
  BY PeerFacts, ReadingHears
<1>4. SpeaksInOrder(Peer(e))' /\ HearsInOrder(Peer(e))'
  BY <1>1, <1>3, OtherOrder
<1>5. QED
  BY <1>2, <1>4, PeerFacts

\* What an end reads changes nothing of what it has said.
LEMMA ReadingSays ==
    ASSUME SInv, Order, rev["client"] = 3, NEW e \in Ends, NEW r, Reading(e, r), UNCHANGED hasty,
           phase'[e] = phase[e] \/ phase'[e] \in {"dead", "rejecting"}
                \/ (e = "server" /\ HasClosed(e))
                \/ (e = "client" /\ phase[e] = "hello" /\ phase'[e] = "assigns")
    PROVE  SpeaksInOrder(e)'
<1>1. Says(e)' = Says(e)
  BY SaysFrame DEF Reading
<1>2. QED
  BY <1>1, SpeaksAsBefore DEF Order

\* Assignments are collected.
LEMMA CollectOrder ==
    ASSUME SInv, NothingMistakable, Order, NEW e \in Ends, Collect(e)
    PROVE  Order'
<1>1. PICK r \in Readable(e) :
         /\ phase[e] \in {"hello", "assigns"}
         /\ Reading(e, r) /\ r.val.type = "EntryAssign"
         /\ phase' = [phase EXCEPT ![e] = "assigns"]
         /\ UNCHANGED << rev, hasty >>
  BY DEF Collect, Enters
<1>2. phase'[e] = "assigns" /\ phase'[Peer(e)] = phase[Peer(e)]
  <2>1. DOMAIN phase = Ends
    BY DEF SInv, IInv, Types
  <2>2. QED
    BY <1>1, <2>1, PeerFacts
<1>3. ASSUME rev["client"] = 3
      PROVE  phase[e] = "assigns" /\ SpeaksInOrder(e)' /\ r.val.type # Closes(Peer(e))
  <2>1. rev[e] = 3
    BY <1>3, EndFacts DEF Order
  <2>2. Expected(e, r.val)
    BY <1>1 DEF Reading
  <2>3. phase[e] = "assigns"
    BY <1>1, <2>1, <2>2, EndFacts DEF Expected
  <2>4. SpeaksInOrder(e)'
    BY <1>1, <1>2, <1>3, <2>3, ReadingSays
  <2>5. QED
    BY <1>1, <2>3, <2>4 DEF Closes
<1>4. rev["client"] = 3 => rev'["server"] = 3
  BY <1>1 DEF Order
<1>5. QED
  BY <1>1, <1>2, <1>3, <1>4, ReadOrder

\* A message is processed.
LEMMA ReceiveOrder ==
    ASSUME SInv, NothingMistakable, Order, NEW e \in Ends, Receive(e)
    PROVE  Order'
<1>1. PICK r \in Readable(e) :
         phase[e] = "active" /\ Reading(e, r) /\ UNCHANGED << rev, phase, hasty >>
  BY DEF Receive
<1>2. rev["client"] = 3 => SpeaksInOrder(e)' /\ rev'["server"] = 3
  BY <1>1, ReadingSays DEF Order
<1>3. QED
  BY <1>1, <1>2, ReadOrder

\* The client reads the server's hello.
LEMMA GreetedOrder ==
    ASSUME SInv, NothingMistakable, Order, ClientGreeted
    PROVE  Order'
<1>1. PICK r \in Readable("client") :
         /\ phase["client"] = "hello"
         /\ Reading("client", r) /\ r.val.type = "ServerHello"
         /\ phase' = [phase EXCEPT !["client"] = "assigns"]
         /\ UNCHANGED << rev, hasty >>
  BY DEF ClientGreeted, Enters
<1>2. phase'["client"] = "assigns" /\ phase'["server"] = phase["server"]
  <2>1. DOMAIN phase = Ends
    BY DEF SInv, IInv, Types
  <2>2. QED
    BY <1>1, <2>1, EndFacts
<1>3. rev["client"] = 3 => SpeaksInOrder("client")' /\ rev'["server"] = 3
  BY <1>1, <1>2, ReadingSays, EndFacts DEF Order
<1>4. r.val.type # Closes(Peer("client"))
  BY <1>1, EndFacts DEF Closes
<1>5. QED
  BY <1>1, <1>2, <1>3, <1>4, ReadOrder, EndFacts

\* The server has read all the client's requests.
LEMMA ServerAppliesOrder ==
    ASSUME SInv, NothingMistakable, Order, ServerApplies
    PROVE  Order'
<1>1. PICK r \in Readable("server") :
         /\ phase["server"] = "assigns" /\ Reading("server", r)
         /\ phase' = [phase EXCEPT !["server"] = "active"]
         /\ UNCHANGED << rev, hasty >>
  BY DEF ServerApplies, Enters
<1>2. phase'["server"] = "active" /\ phase'["client"] = phase["client"]
  <2>1. DOMAIN phase = Ends
    BY DEF SInv, IInv, Types
  <2>2. QED
    BY <1>1, <2>1, EndFacts
<1>3. HasClosed("server")
  BY <1>1 DEF HasClosed
<1>4. rev["client"] = 3 => SpeaksInOrder("server")' /\ rev'["server"] = 3
  BY <1>1, <1>2, <1>3, ReadingSays, EndFacts DEF Order
<1>5. QED
  BY <1>1, <1>2, <1>4, ReadOrder, EndFacts

\* What an end queues with the hello it answers.
LEMMA Answers ==
    ASSUME SInv, NEW r, Reading("server", r), phase["server"] = "hello",
           NEW batch \in Seq(Message), hasty' = [hasty EXCEPT !["server"] = batch]
    PROVE  Says("server")' = Script(batch) /\ hasty'["client"] = hasty["client"]
<1>1. sent["server"] = << >> /\ DOMAIN hasty = Ends
  BY DEF SInv, Silent, IInv, Types
<1>2. sent'["server"] = << >> /\ hasty'["server"] = batch /\ hasty'["client"] = hasty["client"]
  BY <1>1, EndFacts DEF Reading
<1>3. Script(<< >>) = << >>
  BY DEF Script
<1>4. Script(batch) \in Seq(MessageTypes)
  BY ScriptIs
<1>5. << >> \o Script(batch) = Script(batch)
  BY <1>4, ConcatEmptySeq
<1>6. QED
  BY <1>2, <1>3, <1>5 DEF Says

\* The server refuses a revision.
LEMMA RejectsOrder ==
    ASSUME SInv, NothingMistakable, Order, ServerRejects
    PROVE  Order'
<1> DEFINE m == ProtoUnsup(default["server"])
<1>1. PICK r \in Readable("server") :
         /\ phase["server"] = "hello" /\ Reading("server", r)
         /\ phase' = [phase EXCEPT !["server"] = "rejecting"]
         /\ hasty' = [hasty EXCEPT !["server"] = << m >>]
         /\ UNCHANGED rev
  BY DEF ServerRejects, Enters
<1>2. m \in Message /\ m.type = "ProtoUnsup"
  BY EndFacts DEF SInv, IInv, Types, Message, Greeting, ProtoUnsup
<1> HIDE DEF m
<1>3. << m >> \in Seq(Message)
  BY <1>2
<1>4. Says("server")' = << "ProtoUnsup" >> /\ hasty'["client"] = hasty["client"]
  BY <1>1, <1>2, <1>3, Answers, ScriptOne
<1>5. phase'["server"] = "rejecting" /\ phase'["client"] = phase["client"]
  <2>1. DOMAIN phase = Ends
    BY DEF SInv, IInv, Types
  <2>2. QED
    BY <1>1, <2>1, EndFacts
<1>6. SpeaksInOrder("server")'
  <2>1. InOrder(<< "ProtoUnsup" >>, {"ServerHello", "ProtoUnsup"}, "ServerHelloDone")
    BY DEF InOrder
  <2>2. QED
    BY <1>4, <1>5, <2>1 DEF SpeaksInOrder, HasClosed, Opens, Closes
<1>7. QED
  BY <1>1, <1>4, <1>5, <1>6, ReadOrder, EndFacts DEF Order

\* The types of assignments.
LEMMA AssignScript ==
    ASSUME NEW ms \in Seq(Message), \A i \in DOMAIN ms : ms[i].type = "EntryAssign"
    PROVE  \A i \in DOMAIN Script(ms) : Script(ms)[i] = "EntryAssign"
BY DEF Script

\* Assignments and a message after them.
LEMMA AssignsAndLast ==
    ASSUME NEW T, NEW s \in Seq(T), NEW x \in T, \A i \in DOMAIN s : s[i] = "EntryAssign"
    PROVE  /\ s \o << x >> \in Seq(T) /\ x \in Range(s \o << x >>)
           /\ \A i \in DOMAIN (s \o << x >>) : (s \o << x >>)[i] \in {"EntryAssign", x}
<1>1. << x >> \in Seq(T) /\ Range(<< x >>) = {x}
  BY DEF Range
<1>2. \A y \in Range(s) : y = "EntryAssign"
  BY DEF Range
<1> DEFINE one == << x >>
<1> HIDE DEF one
<1>3. s \o one \in Seq(T) /\ Range(one) \subseteq Range(s \o one)
      /\ Range(s \o one) \subseteq Range(s) \cup Range(one)
  BY <1>1, RangeMore, ConcatProperties DEF one
<1> DEFINE w == s \o one
<1>4. \A i \in DOMAIN w : w[i] \in Range(w)
  BY DEF Range
<1> HIDE DEF w
<1>5. \A i \in DOMAIN w : w[i] \in {"EntryAssign", x}
  BY <1>1, <1>2, <1>3, <1>4 DEF w, one
<1>6. QED
  BY <1>1, <1>3, <1>5 DEF w, one

\* The server welcomes the client, and its whole part of the handshake is queued.
LEMMA WelcomeOrder ==
    ASSUME SInv, NothingMistakable, Order, ServerWelcomes
    PROVE  Order'
<1>1. PICK r \in Readable("server") :
         /\ phase["server"] = "hello" /\ Reading("server", r)
         /\ rev' = [rev EXCEPT !["server"] = r.val.rev]
         /\ phase' = [phase EXCEPT !["server"] = IF r.val.rev >= 3 THEN "assigns" ELSE "active"]
         /\ \E assigns \in SetToSeqs(GetInitialAssignments(store["server"])) :
               hasty' = [hasty EXCEPT !["server"] =
                           (IF r.val.rev >= 3 THEN << ServerHello >> ELSE << >>) \o
                           assigns \o << ServerHelloDone >>]
  BY DEF ServerWelcomes, SetProtoRev, Enters
<1>2. r.val.rev = rev["client"] /\ r.val.type = "ClientHello"
  BY <1>1, ServerHears DEF SInv, ClientHello
<1>3. /\ rev'["client"] = rev["client"] /\ rev'["server"] = rev["client"]
      /\ phase'["client"] = phase["client"]
      /\ rev["client"] = 3 => phase'["server"] = "assigns"
  <2>1. DOMAIN phase = Ends /\ DOMAIN rev = Ends
    BY DEF SInv, IInv, Types
  <2>2. QED
    BY <1>1, <1>2, <2>1, EndFacts
<1> SUFFICES ASSUME rev["client"] = 3 PROVE Order'
  BY <1>3 DEF Order
<1>4. PICK assigns \in SetToSeqs(GetInitialAssignments(store["server"])) :
         hasty' = [hasty EXCEPT !["server"] = << ServerHello >> \o assigns \o << ServerHelloDone >>]
  <2>1. (IF r.val.rev >= 3 THEN << ServerHello >> ELSE << >>) = << ServerHello >>
    BY <1>2
  <2>2. QED
    BY <1>1, <2>1, Zenon
<1>5. assigns \in Seq(AssignMsg) /\ assigns \in Seq(Message)
  <2>1. GetInitialAssignments(store["server"]) \in Snapshots
    BY GetInitialAssignmentsType, WireSyncAssumption, EndFacts
       DEF SInv, StateTypes, WireSyncAssumption
  <2>2. assigns \in Seq(AssignMsg)
    BY <2>1, SetToSeqsType DEF Snapshots
  <2>3. AssignMsg \subseteq Message
    BY NoMessages
  <2>4. QED
    BY <2>2, <2>3, SeqMonotonic
<1> DEFINE a == Script(assigns)
           last == "ServerHelloDone"
           more == a \o << last >>
           batch == << ServerHello >> \o assigns \o << ServerHelloDone >>
<1>6. a \in Seq(MessageTypes) /\ \A i \in DOMAIN a : a[i] = "EntryAssign"
  <2>1. \A i \in DOMAIN assigns : assigns[i].type = "EntryAssign"
    <3>1. \A m \in AssignMsg : m.type = "EntryAssign"
      BY DEF AssignMsg
    <3>2. \A i \in DOMAIN assigns : assigns[i] \in AssignMsg
      <4>1. assigns \in Seq(AssignMsg)
        BY <1>5
      <4>2. QED
        BY <4>1, ElementOfSeq, LenProperties
    <3>3. QED
      BY <3>1, <3>2
  <2>2. QED
    BY <1>5, <2>1, ScriptIs, AssignScript
<1>7. /\ ServerHello \in Message /\ ServerHello.type = "ServerHello"
      /\ ServerHelloDone \in Message /\ ServerHelloDone.type = last
  BY DEF Message, ServerHello, ServerHelloDone
<1>8. /\ << ServerHello >> \in Seq(Message) /\ << ServerHelloDone >> \in Seq(Message)
      /\ Script(<< ServerHello >>) = << "ServerHello" >> /\ << "ServerHello" >> \in Seq(MessageTypes)
      /\ Script(<< ServerHelloDone >>) = << last >> /\ << last >> \in Seq(MessageTypes)
  BY <1>7, ScriptOne
<1>9. batch \in Seq(Message) /\ Script(batch) = << "ServerHello" >> \o more
  <2>1. << ServerHello >> \o assigns \in Seq(Message)
    BY <1>5, <1>8, ConcatProperties
  <2>2. batch \in Seq(Message)
    BY <1>8, <2>1, ConcatProperties
  <2>3. Script(batch) = (<< "ServerHello" >> \o a) \o << last >>
    BY <1>5, <1>8, <2>1, ScriptConcat
  <2>4. \A x, y, z \in Seq(MessageTypes) : (x \o y) \o z = x \o (y \o z)
    BY Assoc
  <2>5. (<< "ServerHello" >> \o a) \o << last >> = << "ServerHello" >> \o more
    BY <1>6, <1>8, <2>4, Zenon
  <2>6. QED
    BY <2>2, <2>3, <2>5
<1> HIDE DEF batch
<1>10. /\ more \in Seq(MessageTypes) /\ last \in Range(more)
       /\ \A i \in DOMAIN more : more[i] \in {"EntryAssign", last}
  <2>1. last \in MessageTypes
    BY <1>7, TypesOfMessages
  <2> HIDE DEF a, last
  <2>2. QED
    BY <1>6, <2>1, AssignsAndLast
<1>11. Says("server")' = << "ServerHello" >> \o more /\ hasty'["client"] = hasty["client"]
  <2>1. hasty' = [hasty EXCEPT !["server"] = batch]
    BY <1>4 DEF batch
  <2>2. QED
    BY <1>1, <1>9, <2>1, Answers
<1> HIDE DEF more, a
<1> DEFINE s == << "ServerHello" >>
<1>12. InOrder(s \o more, {"ServerHello", "ProtoUnsup"}, last) /\ last \in Range(s \o more)
  <2>1. s # << >> /\ s \in Seq(MessageTypes) /\ InOrder(s, {"ServerHello", "ProtoUnsup"}, last)
    BY <1>8 DEF InOrder
  <2> HIDE DEF s, last
  <2>2. InOrder(s \o more, {"ServerHello", "ProtoUnsup"}, last)
    BY <1>10, <2>1, InOrderMore
  <2>3. Range(more) \subseteq Range(s \o more)
    BY <1>10, <2>1, RangeMore
  <2>4. QED
    BY <1>10, <2>2, <2>3
<1>13. SpeaksInOrder("server")'
  BY <1>3, <1>11, <1>12, EndFacts DEF SpeaksInOrder, HasClosed, Opens, Closes
<1>14. r.val.type # Closes(Peer("server"))
  BY <1>2, EndFacts DEF Closes
<1>15. QED
  BY <1>1, <1>3, <1>11, <1>13, <1>14, ReadOrder, EndFacts

\* The client sends its requests and ends the handshake.
LEMMA ClientAppliesOrder ==
    ASSUME SInv, NothingMistakable, Order, ClientApplies
    PROVE  Order'
<1> DEFINE st   == store["client"]
           msgs == Range(incoming["client"])
<1>1. PICK r \in Readable("client"), reqs \in SetToSeqs(InitialRequests(st, msgs)) :
         /\ phase["client"] \in {"hello", "assigns"}
         /\ Reading("client", r)
         /\ hasty' = [hasty EXCEPT !["client"] = @ \o reqs \o
               (IF rev["client"] >= 3 THEN << ClientHelloDone >> ELSE << >>)]
         /\ phase' = [phase EXCEPT !["client"] = "active"]
         /\ UNCHANGED rev
  BY DEF ClientApplies, Enters
<1>2. DOMAIN phase = Ends /\ DOMAIN hasty = Ends /\ StateTypes
  BY DEF SInv, IInv, Types
<1>3. /\ phase'["client"] = "active" /\ phase'["server"] = phase["server"]
      /\ hasty'["server"] = hasty["server"]
      /\ rev["client"] = 3 =>
           hasty'["client"] = hasty["client"] \o reqs \o << ClientHelloDone >>
  BY <1>1, <1>2, EndFacts
<1>4. ASSUME rev["client"] = 3 PROVE SpeaksInOrder("client")'
  <2>1. reqs \in Seq(EntryMsg) /\ reqs \in Seq(Message)
        /\ \A i \in DOMAIN reqs : reqs[i].type = "EntryAssign"
    <3>1. st \in Store /\ msgs \in Snapshots
      BY <1>2, CollectedType, EndFacts DEF StateTypes
    <3> HIDE DEF st, msgs
    <3>2. IsFiniteSet(Names)
      BY WireSyncAssumption DEF WireSyncAssumption
    <3>3. /\ InitialRequests(st, msgs) \subseteq EntryMsg
          /\ IsFiniteSet(InitialRequests(st, msgs))
      BY <3>1, <3>2, InitialRequestsType
    <3> DEFINE A == {m \in EntryMsg : m.type = "EntryAssign"}
    <3>4. InitialRequests(st, msgs) \subseteq A
      <4>1. \A m \in InitialRequests(st, msgs) : m.type = "EntryAssign"
        BY DEF InitialRequests, EntryAssign
      <4>2. QED
        BY <3>3, <4>1
    <3>5. \A m \in A : m \in EntryMsg /\ m.type = "EntryAssign"
      OBVIOUS
    <3> HIDE DEF A
    <3>6. reqs \in Seq(A)
      BY <3>3, <3>4, SetToSeqsType
    <3>7. \A i \in DOMAIN reqs : reqs[i] \in A
      BY <3>6, LenProperties, ElementOfSeq
    <3>8. A \subseteq EntryMsg
      BY <3>5
    <3>9. reqs \in Seq(EntryMsg)
      BY <3>6, <3>8, SeqMonotonic
    <3>10. QED
      BY <3>5, <3>7, <3>9, NoMessages
  <2> DEFINE old == hasty["client"]
             last == "ClientHelloDone"
             a == Script(reqs)
             more == a \o << last >>
             said == Script(sent["client"])
             due == Script(old)
  <2>2. /\ old \in Seq(Message) /\ said \in Seq(MessageTypes) /\ due \in Seq(MessageTypes)
        /\ Says("client") = said \o due
    BY <1>2, SaysType, EndFacts DEF StateTypes, Says
  <2>3. a \in Seq(MessageTypes) /\ \A i \in DOMAIN a : a[i] = "EntryAssign"
    BY <2>1, ScriptIs, AssignScript
  <2>4. /\ << ClientHelloDone >> \in Seq(Message) /\ last \in MessageTypes
        /\ Script(<< ClientHelloDone >>) = << last >> /\ << last >> \in Seq(MessageTypes)
    <3>1. ClientHelloDone \in Message /\ ClientHelloDone.type = last
      BY DEF Message, ClientHelloDone
    <3>2. QED
      BY <3>1, ScriptOne, TypesOfMessages
  <2>5. Script(old \o reqs \o << ClientHelloDone >>) = (due \o a) \o << last >>
    <3>1. old \o reqs \in Seq(Message)
      BY <2>1, <2>2, ConcatProperties
    <3>2. QED
      BY <2>1, <2>2, <2>4, <3>1, ScriptConcat
  <2>6. sent'["client"] = sent["client"]
    BY <1>1 DEF Reading
  <2>7. Says("client")' = said \o ((due \o a) \o << last >>)
    BY <1>3, <1>4, <2>5, <2>6 DEF Says
  <2>8. /\ more \in Seq(MessageTypes) /\ last \in Range(more)
        /\ \A i \in DOMAIN more : more[i] \in {"EntryAssign", last}
    <3> HIDE DEF a, last
    <3>1. QED
      BY <2>3, <2>4, AssignsAndLast
  <2>9. said \o ((due \o a) \o << last >>) = (said \o due) \o more
    <3>1. \A x, y, z \in Seq(MessageTypes) : (x \o y) \o z = x \o (y \o z)
      BY Assoc
    <3> HIDE DEF said, due, a
    <3>2. (due \o a) \o << last >> = due \o more
      BY <2>2, <2>3, <2>4, <3>1, Zenon
    <3>3. (said \o due) \o more = said \o (due \o more)
      BY <2>2, <2>8, <3>1, Zenon
    <3>4. QED
      BY <3>2, <3>3
  <2>10. Says("client")' = Says("client") \o more
    BY <2>2, <2>7, <2>9
  <2> HIDE DEF more, said, due, a, old
  <2>11. SpeaksInOrder("client") /\ Says("client") # << >>
    BY <1>1, <1>4, EndFacts DEF Order, SpeaksInOrder
  <2>12. Closes("client") = last
    BY DEF Closes
  <2> HIDE DEF last
  <2>13. QED
    BY <1>2, <2>8, <2>10, <2>11, <2>12, SaysMore, EndFacts
<1>5. rev["client"] = 3 => rev'["server"] = 3
  BY <1>1 DEF Order
<1>6. QED
  BY <1>1, <1>3, <1>4, <1>5, ReadOrder, EndFacts

\* Every step keeps the order.
LEMMA OrderHolds ==
    ASSUME SInv, NothingMistakable, Order, [Next]_vars
    PROVE  Order'
<1>1. ASSUME NEW e \in Ends, LocalOp(e) PROVE Order'
  BY <1>1, AloneOrder DEF LocalOp
<1>2. ASSUME NEW e \in Ends, Misread(e) \/ HearsEnd(e) \/ WriteFails(e) PROVE Order'
  BY <1>2, DeadOrder DEF Misread, HearsEnd, WriteFails
<1>3. CASE ServerHangsUp
  BY <1>3, DeadOrder, EndFacts DEF ServerHangsUp
<1>4. CASE ClientFallsBack
  <2>1. /\ Dead("client") /\ UNCHANGED << rev, sent >>
        /\ \E x : got' = [got EXCEPT !["server"] = x]
    BY <1>4 DEF ClientFallsBack
  <2>2. QED
    BY <2>1, DeadOrder, EndFacts
<1>5. ASSUME NEW e \in Ends, ReadStep(e) PROVE Order'
  BY <1>2, <1>4, <1>5, CollectOrder, ReceiveOrder, WelcomeOrder, RejectsOrder,
     ServerAppliesOrder, GreetedOrder, ClientAppliesOrder DEF ReadStep
<1>6. ASSUME NEW e \in Ends, WriteStep(e) PROVE Order'
  BY <1>2, <1>3, <1>6, WriteOrder DEF WriteStep
<1>7. CASE Break
  BY <1>7, AloneOrder DEF Break
<1>8. CASE UNCHANGED vars
  BY <1>8, AloneOrder DEF vars, connection
<1>9. QED
  BY <1>1, <1>5, <1>6, <1>7, <1>8, ConnectOrder DEF Next

-----------------------------------------------------------------------------
(* In revision 3 everything is read *)

\* An end of revision 3 that still reads has a codec that reads what has arrived.
LEMMA ReadsSomething ==
    ASSUME SInv, NothingMistakable, NEW e \in Ends, rev[e] = 3, Reads(e), Arrived(e) # << >>
    PROVE  Readable(e) # {}
<1> DEFINE d == Peer(e)
<1>1. d \in Ends /\ Peer(d) = e /\ rev[d] \in Revs
  BY PeerFacts, RevFacts
<1>2. Unmistakable(rev[d]) /\ OnTheWay(d)
  BY <1>1 DEF NothingMistakable, SInv
<1>3. PICK ms \in Seq(Passing(3, rev[d])) : stream[d] = Encoded(rev[d], ms)
  BY <1>1, <1>2 DEF OnTheWay, Arrived
<1>4. Encoded(rev[d], ms) # << >>
  BY <1>3 DEF Arrived
<1> HIDE DEF d
<1>5. Decode(3, store[e], Encoded(rev[d], ms)) # {}
  BY <1>1, <1>2, <1>3, <1>4, SomethingIsRead
<1>6. QED
  BY <1>3, <1>5 DEF Readable, Arrived, d

\* What is read next has its place in what the peer said, after all that was heard.
LEMMA NextInScript ==
    ASSUME SInv, NothingMistakable, Order, rev["client"] = 3,
           NEW e \in Ends, NEW r \in Readable(e)
    PROVE  \/ Hears(e) = << >> /\ r.val.type \in Opens(Peer(e))
           \/ Hears(e) # << >> /\ r.val.type \in {"EntryAssign", Closes(Peer(e))}
           \/ Closes(Peer(e)) \in Range(Hears(e))
<1> DEFINE d == Peer(e)  v == r.val  g == got[d]  w == Script(sent[d])
<1>1. d \in Ends /\ Peer(d) = e
  BY PeerFacts
<1>2. /\ v \in Message /\ sent[d] \in Seq(Message) /\ Len(g) < Len(sent[d])
      /\ sent[d][Len(g) + 1] = v
  BY ReadsNext
<1>3. PICK rest \in Seq(Passing(rev[e], rev[d])) :
         sent[d] = Append(g, v) \o HeardOf(rev[d], rest)
  BY ReadsNext
<1>4. g \in Seq(Message) /\ rev[e] \in Revs /\ rev[d] \in Revs /\ Unmistakable(rev[d])
  BY <1>1, RevFacts DEF SInv, StateTypes, NothingMistakable
<1> DEFINE h == HeardOf(rev[d], rest)
<1>5. h \in Seq(Message)
  BY <1>3, <1>4, EncodedIs
<1>6. InOrder(w, Opens(d), Closes(d))
  <2>1. Script(sent[d]) \in Seq(MessageTypes) /\ Script(hasty[d]) \in Seq(MessageTypes)
    BY <1>1, SaysType DEF SInv
  <2>2. InOrder(Script(sent[d]) \o Script(hasty[d]), Opens(d), Closes(d))
    BY <1>1 DEF Order, SpeaksInOrder, Says
  <2>3. QED
    BY <2>1, <2>2, InOrderBefore
<1>7. \A i \in 1 .. Len(g) : sent[d][i] = g[i]
  <2> DEFINE a == Append(g, v)
  <2>1. a \in Seq(Message) /\ Len(a) = Len(g) + 1 /\ Len(g) \in Nat
        /\ \A i \in 1 .. Len(g) : a[i] = g[i]
    BY <1>2, <1>4, AppendProperties, LenProperties
  <2>2. sent[d] = a \o h
    BY <1>3
  <2> HIDE DEF a, h, g, d
  <2>3. /\ Len(a) \in Nat /\ Len(h) \in Nat
        /\ \A i \in 1 .. Len(a) + Len(h) : (a \o h)[i] = IF i <= Len(a) THEN a[i] ELSE h[i - Len(a)]
    BY <1>5, <2>1, ConcatProperties, LenProperties
  <2>4. QED
    BY <2>1, <2>2, <2>3
<1>8. /\ Hears(e) \in Seq(MessageTypes) /\ Len(Hears(e)) = Len(g) /\ Len(g) \in Nat
      /\ \A i \in 1 .. Len(g) : Hears(e)[i] = g[i].type
  BY <1>4, ScriptIs, LenProperties DEF Hears
<1>9. /\ DOMAIN w = 1 .. Len(sent[d]) /\ Len(sent[d]) \in Nat
      /\ \A i \in 1 .. Len(sent[d]) : w[i] = sent[d][i].type
  BY <1>2, ScriptIs, LenProperties
<1> HIDE DEF d, v, g, w, h
<1>10. Len(g) + 1 \in DOMAIN w /\ w[Len(g) + 1] = v.type
  BY <1>2, <1>8, <1>9
<1>11. IF Len(g) + 1 = 1 THEN v.type \in Opens(d)
       ELSE v.type \in {"EntryAssign", Closes(d)} \/ \E j \in 1 .. (Len(g) + 1) - 1 : w[j] = Closes(d)
  BY <1>6, <1>10 DEF InOrder
<1>12. CASE Len(g) = 0
  <2>1. Hears(e) = << >>
    BY <1>8, <1>12, EmptySeq
  <2>2. QED
    BY <1>11, <1>12, <2>1 DEF d, v
<1>13. CASE Len(g) # 0
  <2>1. Hears(e) # << >>
    BY <1>8, <1>13, EmptySeq
  <2>2. ASSUME NEW j \in 1 .. Len(g), w[j] = Closes(d) PROVE Closes(d) \in Range(Hears(e))
    <3>1. Hears(e)[j] = Closes(d)
      BY <1>2, <1>7, <1>8, <1>9, <2>2
    <3>2. j \in DOMAIN Hears(e)
      BY <1>8, <2>2, LenProperties
    <3>3. QED
      BY <3>1, <3>2 DEF Range
  <2>3. v.type \in {"EntryAssign", Closes(d)} \/ \E j \in 1 .. Len(g) : w[j] = Closes(d)
    BY <1>8, <1>11, <1>13
  <2>4. QED
    BY <2>1, <2>2, <2>3 DEF d, v
<1>14. QED
  BY <1>12, <1>13

\* And the reader's handshake expects it there.
LEMMA ExpectedNext ==
    ASSUME SInv, NothingMistakable, Order, NEW e \in Ends, rev[e] = 3, Reads(e),
           NEW r \in Readable(e)
    PROVE  Expected(e, r.val)
<1>1. CASE e = "server" /\ phase[e] = "hello"
  <2>1. r.val.type = "ClientHello"
    BY <1>1, ServerHears DEF SInv, ClientHello
  <2>2. QED
    BY <1>1, <2>1 DEF Expected
<1>2. CASE ~(e = "server" /\ phase[e] = "hello")
  <2>1. rev["client"] = 3
    <3>1. CASE e = "client"
      BY <3>1
    <3>2. CASE e = "server"
      BY <1>2, <3>2 DEF SInv, IInv, RevsInv, Greeted, Reads
    <3>3. QED
      BY <3>1, <3>2, EndFacts
  <2>2. \/ Hears(e) = << >> /\ r.val.type \in Opens(Peer(e))
        \/ Hears(e) # << >> /\ r.val.type \in {"EntryAssign", Closes(Peer(e))}
        \/ Closes(Peer(e)) \in Range(Hears(e))
    BY <2>1, NextInScript
  <2>3. HearsInOrder(e)
    BY <2>1 DEF Order
  <2>4. CASE phase[e] = "hello"
    <3>1. e = "client" /\ Hears(e) = << >>
      BY <1>2, <2>3, <2>4, EndFacts DEF HearsInOrder
    <3>2. r.val.type \in {"ServerHello", "ProtoUnsup"}
      BY <2>2, <3>1, EndFacts DEF Opens, Range
    <3>3. QED
      BY <2>4, <3>1, <3>2 DEF Expected
  <2>5. CASE phase[e] = "assigns"
    <3>1. r.val.type \in {"EntryAssign", Closes(Peer(e))}
      BY <2>2, <2>3, <2>5 DEF HearsInOrder
    <3>2. QED
      BY <2>5, <3>1, EndFacts DEF Expected, Closes
  <2>6. CASE phase[e] = "active"
    BY <2>6 DEF Expected
  <2>7. QED
    BY <2>4, <2>5, <2>6 DEF Reads
<1>3. QED
  BY <1>1, <1>2

\* So only in revision 2 an end can be unable to read.
LEMMA MisreadsInRevision2 ==
    ASSUME SInv, NothingMistakable, Order, NEW e \in Ends, Misread(e)
    PROVE  rev[e] = 2
<1>1. Reads(e) /\ Arrived(e) # << >> /\ \A r \in Readable(e) : ~Expected(e, r.val)
  BY DEF Misread
<1>2. rev[e] \in {2, 3}
  BY RevFacts, EndFacts
<1>3. ASSUME rev[e] = 3 PROVE FALSE
  <2>1. PICK r \in Readable(e) : TRUE
    BY <1>1, <1>3, ReadsSomething
  <2>2. QED
    BY <1>1, <1>3, <2>1, ExpectedNext
<1>4. QED
  BY <1>2, <1>3

\* An end that was unable to read has given up, and does nothing until it connects again.
LEMMA CleanHolds ==
    ASSUME SInv, NothingMistakable, Order, Clean, [Next]_vars
    PROVE  Clean'
<1>1. /\ phase \in [Ends -> Phases] /\ rev \in [Ends -> Revs] /\ garbled \subseteq Ends
  BY DEF SInv, IInv, Types, StateTypes
<1>2. ASSUME garbled' = garbled,
             \A d \in Ends : phase[d] = "dead" => phase'[d] = "dead" /\ rev'[d] = rev[d]
      PROVE  Clean'
  BY <1>1, <1>2 DEF Clean
<1>3. ASSUME UNCHANGED << garbled, rev, phase >> PROVE Clean'
  BY <1>2, <1>3
<1>4. ASSUME NEW e \in Ends, NEW p, phase[e] # "dead", phase' = [phase EXCEPT ![e] = p],
             UNCHANGED garbled, UNCHANGED rev \/ \E x : rev' = [rev EXCEPT ![e] = x]
      PROVE  Clean'
  <2>1. \A d \in Ends : d # e => phase'[d] = phase[d] /\ rev'[d] = rev[d]
    BY <1>1, <1>4
  <2>2. QED
    BY <1>2, <1>4, <2>1
<1>5. ASSUME NEW e \in Ends, phase' = [phase EXCEPT ![e] = "dead"], UNCHANGED rev,
             UNCHANGED garbled
      PROVE  Clean'
  <2>1. \A d \in Ends : phase'[d] = IF d = e THEN "dead" ELSE phase[d]
    BY <1>1, <1>5
  <2>2. QED
    BY <1>2, <1>5, <2>1
<1>6. CASE Connect
  BY <1>6 DEF Connect, Clean
<1>7. ASSUME NEW e \in Ends, Misread(e) PROVE Clean'
  <2>1. rev[e] = 2
    BY <1>7, MisreadsInRevision2
  <2>2. /\ garbled' = garbled \cup {e} /\ rev' = rev
        /\ phase' = [phase EXCEPT ![e] = "dead"]
    BY <1>7 DEF Misread, Dead
  <2>3. \A d \in Ends : phase'[d] = IF d = e THEN "dead" ELSE phase[d]
    BY <1>1, <2>2
  <2>4. QED
    BY <1>1, <2>1, <2>2, <2>3 DEF Clean
<1>8. ASSUME NEW e \in Ends, HearsEnd(e) \/ WriteFails(e) PROVE Clean'
  BY <1>5, <1>8 DEF HearsEnd, WriteFails, Dead
<1>9. CASE ServerHangsUp
  BY <1>5, <1>9, EndFacts DEF ServerHangsUp, Dead
<1>10. CASE ClientFallsBack
  BY <1>5, <1>10, EndFacts DEF ClientFallsBack, Dead
<1>11. ASSUME NEW e \in Ends, LocalOp(e) \/ Write(e) \/ Receive(e) \/ Break PROVE Clean'
  BY <1>3, <1>11 DEF LocalOp, Write, Receive, Reading, Break
<1>12. ASSUME NEW e \in Ends, Collect(e) PROVE Clean'
  BY <1>4, <1>12 DEF Collect, Reading, Enters
<1>13. CASE ServerRejects \/ ServerApplies
  <2>1. /\ phase["server"] \in {"hello", "assigns"} /\ UNCHANGED << garbled, rev >>
        /\ \E p : phase' = [phase EXCEPT !["server"] = p]
    BY <1>13 DEF ServerRejects, ServerApplies, Reading, Enters
  <2>2. QED
    BY <1>4, <2>1, EndFacts
<1>14. CASE ServerWelcomes
  <2>1. /\ phase["server"] = "hello" /\ UNCHANGED garbled
        /\ \E p : phase' = [phase EXCEPT !["server"] = p]
        /\ \E x : rev' = [rev EXCEPT !["server"] = x]
    BY <1>14 DEF ServerWelcomes, Reading, Enters, SetProtoRev
  <2>2. QED
    BY <1>4, <2>1, EndFacts
<1>15. CASE ClientGreeted \/ ClientApplies
  <2>1. /\ phase["client"] \in {"hello", "assigns"} /\ UNCHANGED << garbled, rev >>
        /\ \E p : phase' = [phase EXCEPT !["client"] = p]
    BY <1>15 DEF ClientGreeted, ClientApplies, Reading, Enters
  <2>2. QED
    BY <1>4, <2>1, EndFacts
<1>16. ASSUME NEW e \in Ends, ReadStep(e) PROVE Clean'
  BY <1>7, <1>8, <1>10, <1>11, <1>12, <1>13, <1>14, <1>15, <1>16 DEF ReadStep
<1>17. ASSUME NEW e \in Ends, WriteStep(e) PROVE Clean'
  BY <1>8, <1>9, <1>11, <1>17 DEF WriteStep
<1>18. CASE UNCHANGED vars
  BY <1>3, <1>18 DEF vars, connection
<1>19. QED
  BY <1>6, <1>11, <1>16, <1>17, <1>18, EndFacts DEF Next

\* At the start nothing is said or heard.
LEMMA InitOrder == Init => Order /\ Clean
<1> SUFFICES ASSUME Init PROVE Order /\ Clean
  OBVIOUS
<1>1. /\ \A e \in Ends : sent[e] = << >> /\ got[e] = << >> /\ hasty[e] = << >> /\ phase[e] = "off"
      /\ rev["server"] = 3 /\ garbled = {}
  BY NothingFacts, EndFacts DEF Init
<1>2. Script(<< >>) = << >> /\ << >> \o << >> = << >> /\ \A x, y : InOrder(<< >>, x, y)
  BY DEF Script, InOrder
<1>3. \A e \in Ends : Says(e) = << >>
  BY <1>1, <1>2 DEF Says
<1>4. QED
  BY <1>1, <1>2, <1>3 DEF Order, SpeaksInOrder, HearsInOrder, HasClosed, Clean

\* In revision 3 no end is ever unable to read what its peer wrote, in whatever order the
\* threads of the two ends run and wherever connections break: the codec reads every
\* message (Message.read, read_value), and it is one that the reader's part of the
\* handshake expects (_serverHandshake, _clientHandshake).
THEOREM NothingMisreadInRevision3 ==
    Spec /\ []NothingMistakable => []ReadInRevision3
<1> DEFINE OInv == SInv /\ Order /\ Clean
<1>1. Init => OInv
  BY InitStreams, InitOrder
<1>2. OInv /\ NothingMistakable /\ [Next]_vars => OInv'
  BY StreamsHold, OrderHolds, CleanHolds
<1>3. OInv => ReadInRevision3
  BY DEF Clean, ReadInRevision3
<1> HIDE DEF OInv
<1>4. QED
  BY <1>1, <1>2, <1>3, PTL DEF Spec

=============================================================================
