---------------------------- MODULE LayoutsProofs ----------------------------
(***************************************************************************)
(* What Layouts promises of headers, for all format strings and sizes.     *)
(*                                                                         *)
(* Every reading and every layout goes through a string letter by letter.  *)
(* Each of them is turned into the function that has the result after the  *)
(* first k letters (CWalk for the compiler, BWalk for the layout bits,     *)
(* FWalk for a format string, PWalk for raw data), and two of them are     *)
(* compared by induction on k.                                             *)
(***************************************************************************)
EXTENDS Layouts, FoldTheorems

-----------------------------------------------------------------------------
(* Bits and the values that they stand for.                                *)

\* The powers of two up to the width of a size.
Pow == [k \in 0 .. 20 |-> 2^k]

LEMMA Powers ==
  /\ \A k \in 0 .. 20 : Pow[k] = 2^k /\ Pow[k] \in Nat \ {0}
  /\ Pow[0] = 1
  /\ \A k \in 0 .. 19 : Pow[k + 1] = Pow[k] * 2
  /\ Pow[6] = 64 /\ Pow[20] > 16400
  <1>1. /\ 2^0 = 1 /\ 2^1 = 2 /\ 2^2 = 4 /\ 2^3 = 8 /\ 2^4 = 16 /\ 2^5 = 32 /\ 2^6 = 64
        /\ 2^7 = 128 /\ 2^8 = 256 /\ 2^9 = 512 /\ 2^10 = 1024
    BY SMT
  <1>2. /\ 2^11 = 2048 /\ 2^12 = 4096 /\ 2^13 = 8192 /\ 2^14 = 16384 /\ 2^15 = 32768
        /\ 2^16 = 65536 /\ 2^17 = 131072 /\ 2^18 = 262144 /\ 2^19 = 524288 /\ 2^20 = 1048576
    BY SMT
  <1>3. \A k \in 0 .. 20 : k \in {0, 1, 2, 3, 4, 5, 6, 7, 8, 9, 10}
                          \/ k \in {11, 12, 13, 14, 15, 16, 17, 18, 19, 20}
    OBVIOUS
  <1>4. \A k \in 0 .. 20 : Pow[k] = 2^k
    BY DEF Pow
  <1>5. /\ Pow[0] = 1 /\ Pow[1] = 2 /\ Pow[2] = 4 /\ Pow[3] = 8 /\ Pow[4] = 16 /\ Pow[5] = 32
        /\ Pow[6] = 64 /\ Pow[7] = 128 /\ Pow[8] = 256 /\ Pow[9] = 512 /\ Pow[10] = 1024
    BY <1>1, <1>4, SMT
  <1>6. /\ Pow[11] = 2048 /\ Pow[12] = 4096 /\ Pow[13] = 8192 /\ Pow[14] = 16384
        /\ Pow[15] = 32768 /\ Pow[16] = 65536 /\ Pow[17] = 131072 /\ Pow[18] = 262144
        /\ Pow[19] = 524288 /\ Pow[20] = 1048576
    BY <1>2, <1>4, SMT
  <1>7. \A k \in 0 .. 20 : Pow[k] \in Nat \ {0}
    BY <1>3, <1>5, <1>6, SMT
  <1>8. \A k \in 0 .. 19 : Pow[k + 1] = Pow[k] * 2
    BY <1>5, <1>6, SMT
  <1>9. Pow[0] = 1 /\ Pow[6] = 64 /\ Pow[20] > 16400
    BY <1>5, <1>6, SMT
  <1>. QED
    BY <1>4, <1>7, <1>8, <1>9

\* What the induction over the bits takes of them.
LEMMA PowStart == Pow[0] = 1
  BY Powers

LEMMA PowNat == \A k \in 0 .. 20 : Pow[k] \in Nat \ {0}
  BY Powers

LEMMA PowPower == \A k \in 0 .. 20 : Pow[k] = 2^k
  BY DEF Pow

LEMMA PowDouble == \A k \in 0 .. 19 : Pow[k + 1] = Pow[k] * 2
  BY Powers

LEMMA PowSix == Pow[6] = 64
  BY Powers

LEMMA PowTwenty == Pow[20] \in Nat /\ Pow[20] > 16400
  BY Powers, 20 \in 0 .. 20

LEMMA RemainderIs ==
  ASSUME NEW n, NEW m, NEW t, NEW y, m \in Nat \ {0}, t \in Nat, y \in 0 .. (m - 1), n = m * t + y
  PROVE  n % m = y
  <1>1. n \in Nat /\ n \div m \in Nat /\ n % m \in 0 .. (m - 1) /\ n = m * (n \div m) + (n % m)
    <2>1. m * t \in Nat
      OBVIOUS
    <2>2. n \in Nat
      BY <2>1
    <2>. QED
      BY <2>2
  <1> DEFINE u == n \div m
             z == n % m
  <1>2. u \in Nat /\ z \in 0 .. (m - 1) /\ m * u + z = m * t + y
    BY <1>1
  <1> HIDE DEF u, z
  <1>3. CASE u = t
    BY <1>2, <1>3 DEF z
  <1>4. CASE u > t
    <2>1. u - t \in Nat \ {0} /\ m * u = m * t + m * (u - t)
      BY <1>2, <1>4
    <2>2. m * (u - t) >= m
      BY <2>1
    <2>. QED
      BY <1>2, <2>1, <2>2
  <1>5. CASE u < t
    <2>1. t - u \in Nat \ {0} /\ m * t = m * u + m * (t - u)
      BY <1>2, <1>5
    <2>2. m * (t - u) >= m
      BY <2>1
    <2>. QED
      BY <1>2, <2>1, <2>2
  <1>. QED
    BY <1>2, <1>3, <1>4, <1>5

\* The remainder by 2 * p has one bit more than that by p.
LEMMA NextBit ==
  ASSUME NEW n \in Nat, NEW p \in Nat \ {0}
  PROVE  n % (p * 2) = (n % p) + p * ((n \div p) % 2)
  <1> DEFINE q == n \div p
             r == n % p
             t == q \div 2
             b == q % 2
  <1>1. n = p * q + r /\ q \in Nat /\ r \in 0 .. (p - 1)
    OBVIOUS
  <1>2. q = 2 * t + b /\ t \in Nat /\ b \in {0, 1}
    BY <1>1
  <1>3. p * b \in {0, p}
    BY <1>2
  <1> HIDE DEF q, r, t, b
  <1>4. n = (p * 2) * t + (p * b + r)
    <2>1. p * q = p * (2 * t) + p * b
      BY <1>1, <1>2
    <2>2. p * (2 * t) = (p * 2) * t
      BY <1>2
    <2>3. (p * 2) * t \in Nat /\ p * b \in Nat
      BY <1>2
    <2>4. p * q = (p * 2) * t + p * b
      BY <2>1, <2>2
    <2>. QED
      BY <1>1, <2>3, <2>4
  <1>5. p * b + r \in 0 .. (p * 2 - 1)
    BY <1>1, <1>3
  <1>6. n % (p * 2) = p * b + r
    <2> DEFINE m == p * 2
               y == p * b + r
    <2>1. m \in Nat \ {0} /\ y \in 0 .. (m - 1) /\ n = m * t + y
      BY <1>4, <1>5
    <2> HIDE DEF m, y
    <2>2. n % m = y
      BY <1>2, <2>1, RemainderIs
    <2>. QED
      BY <2>2 DEF m, y
  <1>. QED
    BY <1>6 DEF b, q, r

\* The bits that are written are read as the number that they were made of, as
\* far as they reach.
LEMMA BitsRead ==
  ASSUME NEW n, NEW low, NEW width, NEW h, n \in Nat, low \in Nat, width \in 0 .. 20,
         h \cap (low .. (low + width - 1)) = BitsOf(n, low, width)
  PROVE  ValueOf(h, low, width) = n % Pow[width]
  <1> DEFINE One(k) == (n \div 2^k) % 2 = 1
             D(m) == {low + j : j \in {k \in 0 .. (m - 1) : One(k)}}
             g == [j \in low .. (low + 19) |-> 2^(j - low)]
             f == [j \in D(width) |-> 2^(j - low)]
             Good == {m \in 0 .. width : IsFiniteSet(D(m)) /\ SumFunctionOnSet(g, D(m)) = n % Pow[m]}
  <1>1. \A k \in 0 .. 19 : low + k \in low .. (low + 19) /\ (low + k) - low = k
    OBVIOUS
  <1>2. \A k \in 0 .. 19 : g[low + k] = Pow[k] /\ g[low + k] \in Int
    <2>1. \A k \in 0 .. 19 : g[low + k] = 2^k
      BY <1>1
    <2>2. \A k \in 0 .. 19 : k \in 0 .. 20
      OBVIOUS
    <2> HIDE DEF g
    <2>. QED
      BY <2>1, <2>2, PowPower, PowNat
  <1>3. 0 \in Good
    <2>1. D(0) = {}
      OBVIOUS
    <2>2. n % 1 = 0
      BY RemainderIs
    <2>3. SumFunctionOnSet(g, {}) = 0 /\ IsFiniteSet({})
      BY SumEmpty, FS_EmptySet
    <2>4. 0 \in 0 .. width /\ n % Pow[0] = 0
      BY <2>2, PowStart
    <2> HIDE DEF D, g
    <2>. QED
      BY <2>1, <2>3, <2>4
  <1>4. ASSUME NEW m \in 0 .. (width - 1), m \in Good
        PROVE  m + 1 \in Good
    <2>1. m \in 0 .. 19 /\ m + 1 \in 0 .. width /\ m \in 0 .. 20
      OBVIOUS
    <2>2. IsFiniteSet(D(m)) /\ SumFunctionOnSet(g, D(m)) = n % Pow[m]
      BY <1>4
    <2>3. n % Pow[m + 1] = (n % Pow[m]) + Pow[m] * ((n \div Pow[m]) % 2)
      <3>1. Pow[m + 1] = Pow[m] * 2 /\ Pow[m] \in Nat \ {0}
        BY <2>1, PowDouble, PowNat
      <3>. QED
        BY <3>1, NextBit
    <2>4. n \div Pow[m] = n \div 2^m
      BY <2>1, PowPower
    <2>5. CASE One(m)
      <3>1. D(m + 1) = D(m) \cup {low + m}
        <4>1. {k \in 0 .. ((m + 1) - 1) : One(k)} = {k \in 0 .. (m - 1) : One(k)} \cup {m}
          <5>1. \A k : k \in 0 .. ((m + 1) - 1) <=> k \in 0 .. (m - 1) \/ k = m
            BY <2>1
          <5> HIDE DEF One
          <5>. QED
            BY <2>5, <5>1
        <4> HIDE DEF One
        <4>. QED
          BY <4>1
      <3>2. low + m \notin D(m)
        BY <2>1
      <3>3. \A j \in D(m) \cup {low + m} : g[j] \in Int
        <4>1. \A j \in D(m) : \E k \in 0 .. 19 : j = low + k
          BY <2>1
        <4> HIDE DEF D, g
        <4>. QED
          BY <1>2, <2>1, <4>1
      <3> HIDE DEF D, g
      <3>4. /\ IsFiniteSet(D(m) \cup {low + m})
            /\ SumFunctionOnSet(g, D(m) \cup {low + m}) = g[low + m] + SumFunctionOnSet(g, D(m))
        BY <2>2, <3>2, <3>3, SumAdd
      <3>5. n % Pow[m + 1] = (n % Pow[m]) + Pow[m]
        <4>1. (n \div Pow[m]) % 2 = 1
          BY <2>4, <2>5
        <4>. QED
          BY <2>1, <2>3, <4>1, PowNat
      <3>6. n % Pow[m] \in Nat /\ Pow[m] \in Nat /\ g[low + m] = Pow[m]
        BY <1>2, <2>1, PowNat
      <3>7. SumFunctionOnSet(g, D(m + 1)) = n % Pow[m + 1]
        <4>1. SumFunctionOnSet(g, D(m + 1)) = Pow[m] + (n % Pow[m])
          BY <2>2, <3>1, <3>4, <3>6
        <4>. QED
          BY <3>5, <3>6, <4>1
      <3>. QED
        BY <2>1, <3>1, <3>4, <3>7
    <2>6. CASE ~One(m)
      <3>1. D(m + 1) = D(m)
        <4>1. {k \in 0 .. ((m + 1) - 1) : One(k)} = {k \in 0 .. (m - 1) : One(k)}
          <5>1. \A k : k \in 0 .. ((m + 1) - 1) <=> k \in 0 .. (m - 1) \/ k = m
            BY <2>1
          <5> HIDE DEF One
          <5>. QED
            BY <2>6, <5>1
        <4> HIDE DEF One
        <4>. QED
          BY <4>1
      <3>2. n % Pow[m + 1] = n % Pow[m]
        <4>1. n \div Pow[m] \in Int
          BY <2>1, PowNat
        <4>2. (n \div Pow[m]) % 2 # 1
          BY <2>4, <2>6
        <4>3. (n \div Pow[m]) % 2 = 0
          BY <4>1, <4>2
        <4>. QED
          BY <2>1, <2>3, <4>3, PowNat
      <3> HIDE DEF D, g
      <3>. QED
        BY <2>1, <2>2, <3>1, <3>2
    <2> HIDE DEF One
    <2>. QED
      BY <2>5, <2>6
  <1>5. width \in Good
    <2>1. width \in 0 .. width /\ width \in Nat
      OBVIOUS
    <2> HIDE DEF Good
    <2>. QED
      BY <1>3, <1>4, <2>1, ReachesAll
  <1>6. ValueOf(h, low, width) = SumFunctionOnSet(f, D(width))
    BY DEF ValueOf, BitsOf, SumFunction
  <1>7. SumFunctionOnSet(f, D(width)) = SumFunctionOnSet(g, D(width))
    <2>1. \A j \in D(width) : \E k \in 0 .. 19 : j = low + k
      OBVIOUS
    <2>2. \A j \in D(width) : g[j] \in Int
      <3> HIDE DEF g, D
      <3>. QED
        BY <1>2, <2>1
    <2>3. \A j \in D(width) : f[j] = g[j]
      BY <1>1, <2>1
    <2> HIDE DEF f, g, D
    <2>4. \A j \in D(width) : f[j] \in Int /\ f[j] = g[j]
      BY <2>2, <2>3
    <2>5. IsFiniteSet(D(width))
      BY <1>5
    <2>. QED
      BY <2>4, <2>5, SumSame
  <1>. QED
    BY <1>5, <1>6, <1>7

-----------------------------------------------------------------------------
(* The compiler's layout, field by field.                                  *)

CAcc == [end : Nat, align : {1, 4, 8}, ptrs : Seq(Nat)]
CStart == [end |-> 0, align |-> 1, ptrs |-> <<>>]

\* g[k] is the layout of the first k fields of s.
CWalk(s, g) == g = [k \in 0 .. Len(s) |-> IF k = 0 THEN CStart ELSE CStep(g[k-1], s[k])]

LEMMA LetterSizes ==
  /\ format_string_letter_to_size("c") = 1 /\ format_string_letter_to_size("i") = 4
  /\ format_string_letter_to_size("l") = 8 /\ format_string_letter_to_size("*") = 8
  /\ \A c \in Letters : format_string_letter_to_size(c) \in {1, 4, 8}
  /\ \A c : c \in Letters <=> c = "c" \/ c = "i" \/ c = "l" \/ c = "*"
  BY DEF format_string_letter_to_size, Letters

LEMMA Rounded ==
  ASSUME NEW x, NEW n, x \in Nat, n \in {1, 4, 8}
  PROVE  /\ RoundUp(x, n) \in Nat /\ x <= RoundUp(x, n) /\ RoundUp(x, n) < x + n
         /\ RoundUp(x, n) % n = 0
         /\ x % n = 0 => RoundUp(x, n) = x
  <1>1. CASE n = 1
    BY <1>1 DEF RoundUp
  <1>2. CASE n = 4
    BY <1>2 DEF RoundUp
  <1>3. CASE n = 8
    BY <1>3 DEF RoundUp
  <1>. QED
    BY <1>1, <1>2, <1>3

LEMMA CStepType ==
  ASSUME NEW a \in CAcc, NEW c \in Letters
  PROVE  /\ CStep(a, c) \in CAcc
         /\ CStep(a, c).end =
              RoundUp(a.end, format_string_letter_to_size(c)) + format_string_letter_to_size(c)
         /\ CStep(a, c).ptrs =
              IF c = "*" THEN Append(a.ptrs, RoundUp(a.end, 8)) ELSE a.ptrs
         /\ CStep(a, c).align = IF format_string_letter_to_size(c) > a.align
                                  THEN format_string_letter_to_size(c) ELSE a.align
  <1> DEFINE n == format_string_letter_to_size(c)
             at == RoundUp(a.end, n)
  <1>1. a.end \in Nat /\ a.align \in {1, 4, 8} /\ a.ptrs \in Seq(Nat)
    BY DEF CAcc
  <1>2. n \in {1, 4, 8} /\ (c = "*" => n = 8)
    BY LetterSizes
  <1>3. at \in Nat
    BY <1>1, <1>2, Rounded
  <1>4. Append(a.ptrs, at) \in Seq(Nat)
    BY <1>1, <1>3, AppendProperties
  <1>5. CStep(a, c) = [end |-> at + n,
                       align |-> IF n > a.align THEN n ELSE a.align,
                       ptrs |-> IF c = "*" THEN Append(a.ptrs, at) ELSE a.ptrs]
    BY DEF CStep
  <1> HIDE DEF n, at
  <1>6. CStep(a, c) \in CAcc
    BY <1>1, <1>2, <1>3, <1>4, <1>5 DEF CAcc
  <1>. QED
    BY <1>2, <1>5, <1>6 DEF n, at

LEMMA CWalkFacts ==
  ASSUME NEW s, s \in Seq(Letters), NEW g, CWalk(s, g)
  PROVE  /\ Len(s) \in Nat
         /\ g[0] = CStart
         /\ \A k \in 1 .. Len(s) : s[k] \in Letters /\ g[k] = CStep(g[k-1], s[k])
         /\ \A k \in 0 .. Len(s) : g[k] \in CAcc
  <1> DEFINE n == Len(s)
             Good == {k \in 0 .. n : g[k] \in CAcc}
  <1>1. n \in Nat /\ \A k \in 1 .. n : s[k] \in Letters
    BY LenProperties, ElementOfSeq
  <1>2. \A k \in 0 .. n : g[k] = IF k = 0 THEN CStart ELSE CStep(g[k-1], s[k])
    BY DEF CWalk
  <1> HIDE DEF n
  <1>3. g[0] = CStart
    BY <1>1, <1>2
  <1>4. \A k \in 1 .. n : g[k] = CStep(g[k-1], s[k])
    BY <1>1, <1>2
  <1>5. 0 \in Good
    <2>1. <<>> \in Seq(Nat)
      BY EmptySeq
    <2>2. CStart \in CAcc
      BY <2>1 DEF CStart, CAcc
    <2>. QED
      BY <1>1, <1>3, <2>2
  <1>6. ASSUME NEW k \in 0 .. (n - 1), k \in Good
        PROVE  k + 1 \in Good
    <2>1. k + 1 \in 1 .. n /\ k + 1 \in 0 .. n /\ (k + 1) - 1 = k
      BY <1>1
    <2>2. g[k + 1] = CStep(g[k], s[k + 1]) /\ s[k + 1] \in Letters /\ g[k] \in CAcc
      BY <1>1, <1>4, <1>6, <2>1
    <2>. QED
      BY <2>1, <2>2, CStepType
  <1>7. \A k \in 0 .. n : k \in Good
    <2> HIDE DEF Good
    <2>. QED
      BY <1>1, <1>5, <1>6, ReachesAll
  <1>. QED
    BY <1>1, <1>3, <1>4, <1>7 DEF n

LEMMA CWalkExists ==
  ASSUME NEW s, s \in Seq(Letters)
  PROVE  \E g : CWalk(s, g)
  <1> DEFINE n == Len(s)
             F == [k \in 1 .. n |-> [a \in CAcc |-> CStep(a, s[k])]]
  <1>1. n \in Nat /\ \A k \in 1 .. n : s[k] \in Letters
    BY LenProperties, ElementOfSeq
  <1>2. \A k \in 1 .. n : \A a \in CAcc : F[k][a] = CStep(a, s[k]) /\ F[k][a] \in CAcc
    BY <1>1, CStepType
  <1>3. CStart \in CAcc
    <2>1. <<>> \in Seq(Nat)
      BY EmptySeq
    <2>. QED
      BY <2>1 DEF CStart, CAcc
  <1> HIDE DEF n, F
  <1>4. PICK g \in [0 .. n -> CAcc] : Runs(F, CStart, n, g)
    BY <1>1, <1>2, <1>3, RunExists
  <1>5. g = [k \in 0 .. n |-> IF k = 0 THEN CStart ELSE F[k][g[k-1]]]
    BY <1>4 DEF Runs
  <1>6. \A k \in 0 .. n : k # 0 => F[k][g[k-1]] = CStep(g[k-1], s[k])
    <2>1. \A k \in 0 .. n : k # 0 => k \in 1 .. n /\ k - 1 \in 0 .. n
      BY <1>1
    <2>2. \A k \in 0 .. n : g[k] \in CAcc
      OBVIOUS
    <2>. QED
      BY <1>2, <2>1, <2>2
  <1>7. g = [k \in 0 .. n |-> IF k = 0 THEN CStart ELSE CStep(g[k-1], s[k])]
    BY <1>5, <1>6
  <1>. QED
    BY <1>7 DEF CWalk, n

LEMMA CLayoutWalks ==
  ASSUME NEW s, s \in Seq(Letters)
  PROVE  \E g : CWalk(s, g) /\ CLayout(s) = g[Len(s)]
  <1> DEFINE g == CHOOSE h : CWalk(s, h)
  <1>1. CWalk(s, g)
    BY CWalkExists
  <1>2. CLayout(s) = g[Len(s)]
    BY DEF CLayout, CWalk, CStart
  <1>. QED
    BY <1>1, <1>2

\* The fields of the beginning of a string.
LEMMA Beginning ==
  ASSUME NEW S, NEW s, s \in Seq(S), NEW k, k \in 0 .. Len(s)
  PROVE  /\ SubSeq(s, 1, k) \in Seq(S) /\ Len(SubSeq(s, 1, k)) = k
         /\ k \in Nat /\ DOMAIN SubSeq(s, 1, k) = 1 .. k
         /\ \A j \in 1 .. k : SubSeq(s, 1, k)[j] = s[j] /\ j \in 1 .. Len(s)
  <1>1. Len(s) \in Nat /\ \A j \in 1 .. Len(s) : s[j] \in S
    BY LenProperties, ElementOfSeq
  <1>2. k \in Nat /\ \A j \in 1 .. k : j \in 1 .. Len(s)
    BY <1>1
  <1>3. \A j \in 1 .. k : s[j] \in S
    BY <1>1, <1>2
  <1> DEFINE t == SubSeq(s, 1, k)
  <1>4. t \in Seq(S) /\ Len(t) = k /\ \A j \in 1 .. k : t[j] = s[j]
    BY <1>2, <1>3, SubSeqProperties
  <1>5. DOMAIN t = 1 .. k
    BY <1>4, LenProperties
  <1>. QED
    BY <1>2, <1>4, <1>5

LEMMA CPrefix ==
  ASSUME NEW s, s \in Seq(Letters), NEW g, CWalk(s, g), NEW k, k \in 0 .. Len(s)
  PROVE  CLayout(SubSeq(s, 1, k)) = g[k]
  <1> DEFINE t == SubSeq(s, 1, k)
  <1>1. t \in Seq(Letters) /\ Len(t) = k /\ k \in Nat
        /\ \A j \in 1 .. k : t[j] = s[j] /\ j \in 1 .. Len(s)
    BY Beginning
  <1> HIDE DEF t
  <1>2. PICK f : CWalk(t, f) /\ CLayout(t) = f[Len(t)]
    BY <1>1, CLayoutWalks
  <1>3. f[0] = CStart /\ \A j \in 1 .. k : f[j] = CStep(f[j-1], t[j])
    BY <1>1, <1>2, CWalkFacts
  <1>4. g[0] = CStart /\ \A j \in 1 .. Len(s) : g[j] = CStep(g[j-1], s[j])
    BY CWalkFacts
  <1> DEFINE Good == {j \in 0 .. k : f[j] = g[j]}
  <1>5. 0 \in Good
    BY <1>1, <1>3, <1>4
  <1>6. ASSUME NEW j \in 0 .. (k - 1), j \in Good
        PROVE  j + 1 \in Good
    <2>1. j + 1 \in 1 .. k /\ j + 1 \in 0 .. k /\ (j + 1) - 1 = j
      BY <1>1
    <2>2. f[j + 1] = CStep(f[j], t[j + 1]) /\ g[j + 1] = CStep(g[j], s[j + 1])
      BY <1>1, <1>3, <1>4, <2>1
    <2>. QED
      BY <1>1, <1>6, <2>1, <2>2
  <1>7. k \in Good
    <2>1. k \in 0 .. k
      BY <1>1
    <2> HIDE DEF Good
    <2>. QED
      BY <1>1, <1>5, <1>6, <2>1, ReachesAll
  <1>. QED
    BY <1>1, <1>2, <1>7 DEF t

-----------------------------------------------------------------------------
(* The layout bits of a header.                                            *)

\* How many of them the first k fields of s take.
LayoutBits(s, k) == required_amount_of_bits(SubSeq(s, 1, k))

LEMMA LayoutBitsNext ==
  ASSUME NEW s, s \in Seq(Letters)
  PROVE  /\ LayoutBits(s, 0) = 0
         /\ \A k \in 0 .. Len(s) : LayoutBits(s, k) \in Nat
         /\ \A k \in 1 .. Len(s) :
              LayoutBits(s, k) = LayoutBits(s, k - 1) + (IF s[k] = "l" THEN 2 ELSE 1)
         /\ LayoutBits(s, Len(s)) = required_amount_of_bits(s)
  <1> DEFINE n == Len(s)
             L(k) == {j \in 1 .. k : s[j] = "l"}
  <1>1. n \in Nat
    BY LenProperties
  <1>2. ASSUME NEW k \in 0 .. n
        PROVE  /\ IsFiniteSet(L(k)) /\ Cardinality(L(k)) \in Nat
               /\ LayoutBits(s, k) = k + Cardinality(L(k))
    <2> DEFINE t == SubSeq(s, 1, k)
    <2>1. Len(t) = k /\ DOMAIN t = 1 .. k /\ \A j \in 1 .. k : t[j] = s[j]
      BY Beginning
    <2>2. {j \in DOMAIN t : t[j] = "l"} = L(k)
      <3> HIDE DEF t
      <3>. QED
        BY <2>1
    <2>3. IsFiniteSet(1 .. k)
      BY FS_Interval
    <2>4. IsFiniteSet(L(k))
      BY <2>3, FS_Subset
    <2>5. Cardinality(L(k)) \in Nat
      BY <2>4, FS_CardinalityType
    <2>6. required_amount_of_bits(t) = k + Cardinality(L(k))
      <3> HIDE DEF t, L
      <3>. QED
        BY <2>1, <2>2 DEF required_amount_of_bits
    <2>. QED
      BY <2>4, <2>5, <2>6 DEF LayoutBits
  <1>3. LayoutBits(s, 0) = 0
    <2>1. L(0) = {}
      OBVIOUS
    <2>2. LayoutBits(s, 0) = 0 + Cardinality(L(0))
      BY <1>1, <1>2
    <2>3. Cardinality({}) = 0
      BY FS_EmptySet
    <2>. QED
      BY <2>1, <2>2, <2>3
  <1>4. ASSUME NEW k \in 1 .. n
        PROVE  LayoutBits(s, k) = LayoutBits(s, k - 1) + (IF s[k] = "l" THEN 2 ELSE 1)
    <2>1. k - 1 \in 0 .. n /\ k \in 0 .. n
      BY <1>1
    <2>2. /\ LayoutBits(s, k) = k + Cardinality(L(k))
          /\ LayoutBits(s, k - 1) = k - 1 + Cardinality(L(k - 1))
          /\ IsFiniteSet(L(k - 1)) /\ Cardinality(L(k - 1)) \in Nat
      BY <1>2, <2>1
    <2>3. \A j : j \in 1 .. k <=> j \in 1 .. (k - 1) \/ j = k
      BY <1>1
    <2>4. CASE s[k] = "l"
      <3>1. L(k) = L(k - 1) \cup {k}
        BY <2>3, <2>4
      <3>2. k \notin L(k - 1)
        OBVIOUS
      <3> HIDE DEF L
      <3>3. Cardinality(L(k)) = Cardinality(L(k - 1)) + 1
        BY <2>2, <3>1, <3>2, FS_AddElement
      <3>. QED
        BY <1>1, <2>2, <2>4, <3>3
    <2>5. CASE s[k] # "l"
      <3>1. L(k) = L(k - 1)
        BY <2>3, <2>5
      <3> HIDE DEF L
      <3>. QED
        BY <1>1, <2>2, <2>5, <3>1
    <2>. QED
      BY <2>4, <2>5
  <1>5. LayoutBits(s, n) = required_amount_of_bits(s)
    <2>1. SubSeq(s, 1, n) = s
      BY SubSeqFull
    <2>. QED
      BY <2>1 DEF LayoutBits
  <1>6. \A k \in 0 .. n : LayoutBits(s, k) \in Nat
    <2> HIDE DEF L
    <2>1. \A k \in 0 .. n : k \in Nat
      BY <1>1
    <2>. QED
      BY <1>2, <2>1
  <1>. QED
    BY <1>3, <1>4, <1>5, <1>6

\* Fields have bits of their own.
LEMMA LayoutBitsRise ==
  ASSUME NEW s, s \in Seq(Letters), NEW k, k \in 0 .. Len(s)
  PROVE  \A i \in 0 .. k : i < k => LayoutBits(s, i) < LayoutBits(s, k)
  <1> DEFINE n == Len(s)
             r(j) == LayoutBits(s, j)
             Good == {j \in 0 .. n : \A i \in 0 .. j : i < j => r(i) < r(j)}
  <1>1. /\ \A j \in 0 .. n : r(j) \in Nat
        /\ \A j \in 1 .. n : r(j) = r(j - 1) + 1 \/ r(j) = r(j - 1) + 2
    BY LayoutBitsNext
  <1>2. n \in Nat
    BY LenProperties
  <1> HIDE DEF r, n
  <1>3. 0 \in Good
    BY <1>2
  <1>4. ASSUME NEW j \in 0 .. (n - 1), j \in Good
        PROVE  j + 1 \in Good
    <2>1. j + 1 \in 1 .. n /\ j + 1 \in 0 .. n /\ j \in 0 .. n /\ (j + 1) - 1 = j
      BY <1>2
    <2>2. r(j) < r(j + 1) /\ r(j) \in Nat /\ r(j + 1) \in Nat
      BY <1>1, <2>1
    <2>3. ASSUME NEW i \in 0 .. (j + 1), i < j + 1
          PROVE  r(i) < r(j + 1)
      <3>1. CASE i = j
        BY <2>2, <3>1
      <3>2. CASE i # j
        <4>1. i \in 0 .. j /\ i < j /\ i \in 0 .. n
          BY <1>2, <2>3, <3>2
        <4>2. r(i) < r(j) /\ r(i) \in Nat
          BY <1>1, <1>4, <4>1
        <4>. QED
          BY <2>2, <4>2
      <3>. QED
        BY <3>1, <3>2
    <2>. QED
      BY <2>1, <2>3
  <1>5. k \in Good
    <2>1. \A j \in 0 .. n : j \in Good
      <3> HIDE DEF Good
      <3>. QED
        BY <1>2, <1>3, <1>4, ReachesAll
    <2>. QED
      BY <2>1 DEF n
  <1>. QED
    BY <1>5 DEF r

\* The header of a layout that fits: how its bits are read.
LEMMA LayoutHeaderRead ==
  ASSUME NEW s, s \in Seq(Letters), FitsBitvector(required_amount_of_bits(s))
  PROVE  /\ identify_header(LayoutHeader(s)) = "struct"
         /\ FieldCount(LayoutHeader(s)) = required_amount_of_bits(s)
         /\ required_amount_of_bits(s) \in 0 .. 55
         /\ \A k \in 1 .. required_amount_of_bits(s) :
              64 - k \in LayoutHeader(s) <=>
                \E j \in 1 .. Len(s) : s[j] = "*" /\ LayoutBits(s, j - 1) + 1 = k
  <1> DEFINE h == LayoutHeader(s)
             r == required_amount_of_bits(s)
  <1>1. r \in 0 .. 55
    <2>1. r = LayoutBits(s, Len(s)) /\ Len(s) \in 0 .. Len(s)
      BY LayoutBitsNext, LenProperties
    <2>2. r \in Nat
      BY <2>1, LayoutBitsNext
    <2> HIDE DEF r
    <2>3. r <= 55
      BY DEF FitsBitvector, MAX_BITVECTOR_LAYOUT_SIZE, r
    <2>. QED
      BY <2>2, <2>3
  <1> DEFINE P == PointerBits(s)
             B == BitsOf(r, 3, 6)
  <1>2. h = (P \ (0 .. 8)) \cup B \cup {0, 1, 2}
    BY DEF LayoutHeader
  <1>3. B \subseteq 3 .. 8
    BY DEF BitsOf
  <1>4. P = {63 - LayoutBits(s, j - 1) : j \in {j \in 1 .. Len(s) : s[j] = "*"}}
    <2>1. DOMAIN s = 1 .. Len(s)
      BY LenProperties
    <2>. QED
      BY <2>1 DEF PointerBits, LayoutBits
  <1>5. \A x : x \in P <=> \E j \in 1 .. Len(s) : s[j] = "*" /\ x = 63 - LayoutBits(s, j - 1)
    <2> HIDE DEF P
    <2>. QED
      BY <1>4
  <1>6. \A j \in 1 .. Len(s) : LayoutBits(s, j - 1) \in Nat
    <2>1. \A j \in 1 .. Len(s) : j - 1 \in 0 .. Len(s)
      BY LenProperties
    <2>. QED
      BY <2>1, LayoutBitsNext
  <1> HIDE DEF h, r, P, B
  <1>7. h \cap (3 .. (3 + 6 - 1)) = B
    <2>1. \A j \in 3 .. (3 + 6 - 1) : j \in 0 .. 8 /\ j \notin {0, 1, 2}
      OBVIOUS
    <2>2. 3 .. (3 + 6 - 1) = 3 .. 8
      OBVIOUS
    <2>. QED
      BY <1>2, <1>3, <2>1, <2>2, Zenon
  <1>8. ValueOf(h, 3, 6) = r % Pow[6]
    <2>1. h \cap (3 .. (3 + 6 - 1)) = BitsOf(r, 3, 6)
      BY <1>7 DEF B
    <2>2. r \in Nat /\ 6 \in 0 .. 20 /\ 3 \in Nat
      BY <1>1
    <2>. QED
      BY <2>1, <2>2, BitsRead
  <1>9. FieldCount(h) = r
    <2>1. r % 64 = r
      BY <1>1
    <2>. QED
      BY <1>8, <2>1, PowSix DEF FieldCount
  <1>10. identify_header(h) = "struct"
    <2>1. 0 \in h /\ 1 \in h /\ 2 \in h
      BY <1>2
    <2>. QED
      BY <2>1 DEF identify_header
  <1>11. ASSUME NEW k \in 1 .. r
         PROVE  64 - k \in h <=> \E j \in 1 .. Len(s) : s[j] = "*" /\ LayoutBits(s, j - 1) + 1 = k
    <2>1. k \in 1 .. 55 /\ 64 - k \in 9 .. 63
      BY <1>1
    <2>2. 64 - k \in h <=> 64 - k \in P
      BY <1>2, <1>3, <2>1
    <2>3. \A m \in Nat : 64 - k = 63 - m <=> m + 1 = k
      BY <2>1
    <2>. QED
      BY <1>5, <1>6, <2>2, <2>3
  <1>. QED
    BY <1>1, <1>9, <1>10, <1>11 DEF h, r

-----------------------------------------------------------------------------
(* Reading the layout bits of a header.                                    *)

BAcc == [offset : Nat, ptrs : Seq(Nat)]
BStart == [offset |-> 0, ptrs |-> <<>>]

\* b[k] is what interpret_bitvector has after k layout bits.
BWalk(h, b) ==
  b = [k \in 0 .. 63 |-> IF k = 0 THEN BStart ELSE BitvectorStep(b[k-1], (64 - k) \in h)]

LEMMA BStepType ==
  ASSUME NEW a \in BAcc, NEW h, NEW m
  PROVE  /\ BitvectorStep(a, m \in h) \in BAcc
         /\ m \in h => BitvectorStep(a, m \in h) =
              [offset |-> (IF a.offset % 8 = 0 THEN a.offset ELSE a.offset + 4) + 8,
               ptrs |-> Append(a.ptrs, IF a.offset % 8 = 0 THEN a.offset ELSE a.offset + 4)]
         /\ m \notin h => BitvectorStep(a, m \in h) = [offset |-> a.offset + 4, ptrs |-> a.ptrs]
  <1> DEFINE at == IF a.offset % 8 = 0 THEN a.offset ELSE a.offset + 4
             b == BitvectorStep(a, m \in h)
  <1>1. a.offset \in Nat /\ a.ptrs \in Seq(Nat) /\ a = [offset |-> a.offset, ptrs |-> a.ptrs]
    BY DEF BAcc
  <1>2. at \in Nat
    BY <1>1
  <1>3. Append(a.ptrs, at) \in Seq(Nat)
    BY <1>1, <1>2, AppendProperties
  <1>4. m \in h => b = [offset |-> at + 8, ptrs |-> Append(a.ptrs, at)]
    BY DEF BitvectorStep, WORD_SIZE, HALF_WORD_SIZE
  <1>5. m \notin h => b = [a EXCEPT !.offset = a.offset + 4]
    BY DEF BitvectorStep, HALF_WORD_SIZE
  <1> HIDE DEF at, b
  <1>6. m \notin h => b = [offset |-> a.offset + 4, ptrs |-> a.ptrs]
    BY <1>1, <1>5
  <1>7. b \in BAcc
    <2>1. CASE m \in h
      <3>1. at + 8 \in Nat /\ b = [offset |-> at + 8, ptrs |-> Append(a.ptrs, at)]
        BY <1>2, <1>4, <2>1
      <3>. QED
        BY <1>3, <3>1 DEF BAcc
    <2>2. CASE m \notin h
      BY <1>1, <1>6, <2>2 DEF BAcc
    <2>. QED
      BY <2>1, <2>2
  <1>. QED
    BY <1>4, <1>6, <1>7 DEF at, b

LEMMA BWalkExists ==
  ASSUME NEW h
  PROVE  \E b : BWalk(h, b)
  <1> DEFINE F == [k \in 1 .. 63 |-> [a \in BAcc |-> BitvectorStep(a, (64 - k) \in h)]]
             N == 63
  <1>1. \A k \in 1 .. N : \A a \in BAcc : F[k][a] = BitvectorStep(a, (64 - k) \in h) /\ F[k][a] \in BAcc
    <2>1. \A k \in 1 .. 63 : \A a \in BAcc : BitvectorStep(a, (64 - k) \in h) \in BAcc
      BY BStepType
    <2>. QED
      BY <2>1
  <1>2. BStart \in BAcc
    <2>1. <<>> \in Seq(Nat)
      BY EmptySeq
    <2>. QED
      BY <2>1 DEF BStart, BAcc
  <1>3. N = 63 /\ N \in Nat
    OBVIOUS
  <1> HIDE DEF N, F
  <1>4. PICK b \in [0 .. N -> BAcc] : Runs(F, BStart, N, b)
    BY <1>1, <1>2, <1>3, RunExists
  <1>5. b = [k \in 0 .. N |-> IF k = 0 THEN BStart ELSE F[k][b[k-1]]]
    BY <1>4 DEF Runs
  <1>6. \A k \in 0 .. N : k # 0 => F[k][b[k-1]] = BitvectorStep(b[k-1], (64 - k) \in h)
    <2>1. \A k \in 0 .. N : k # 0 => k \in 1 .. N /\ k - 1 \in 0 .. N
      BY <1>3
    <2>2. \A k \in 0 .. N : b[k] \in BAcc
      OBVIOUS
    <2>. QED
      BY <1>1, <2>1, <2>2
  <1>7. b = [k \in 0 .. N |-> IF k = 0 THEN BStart ELSE BitvectorStep(b[k-1], (64 - k) \in h)]
    BY <1>5, <1>6
  <1>8. BWalk(h, b)
    BY <1>3, <1>7 DEF BWalk
  <1>. QED
    BY <1>8

LEMMA BitvectorWalks ==
  ASSUME NEW h
  PROVE  \E b : /\ b[0] = BStart
                /\ \A k \in 1 .. 63 : b[k] = BitvectorStep(b[k-1], (64 - k) \in h)
                /\ interpret_bitvector(h) = b[FieldCount(h)].ptrs
  <1> DEFINE b == CHOOSE f : BWalk(h, f)
  <1>1. BWalk(h, b)
    BY BWalkExists
  <1>2. interpret_bitvector(h) = b[FieldCount(h)].ptrs
    BY DEF interpret_bitvector, BWalk, BStart
  <1> HIDE DEF b
  <1>3. \A k \in 0 .. 63 : b[k] = IF k = 0 THEN BStart ELSE BitvectorStep(b[k-1], (64 - k) \in h)
    BY <1>1 DEF BWalk
  <1>4. b[0] = BStart
    BY <1>3
  <1>5. \A k \in 1 .. 63 : b[k] = BitvectorStep(b[k-1], (64 - k) \in h)
    BY <1>3
  <1>. QED
    BY <1>2, <1>4, <1>5

LEMMA FoursInEight ==
  ASSUME NEW e, e \in Nat, e % 4 = 0, e % 8 # 0
  PROVE  e % 8 = 4
  <1> DEFINE q == e \div 8
             r == e % 8
             t == e \div 4
  <1>1. e = 8 * q + r /\ q \in Nat /\ r \in 0 .. 7
    OBVIOUS
  <1>2. e = 4 * t /\ t \in Nat
    OBVIOUS
  <1> HIDE DEF q, r, t
  <1>3. r = 4 * (t - 2 * q)
    BY <1>1, <1>2
  <1>4. r # 0
    BY DEF r
  <1>5. r = 4
    BY <1>1, <1>2, <1>3, <1>4
  <1>. QED
    BY <1>5 DEF r

\* The bits of the fields of a struct are read as these fields.
LEMMA StructFound ==
  ASSUME NEW s, s \in Seq(Letters), \A k \in 1 .. Len(s) : s[k] # "c",
         FitsBitvector(required_amount_of_bits(s)), LongsAligned(s)
  PROVE  interpret_bitvector(LayoutHeader(s)) = CLayout(s).ptrs
  <1> DEFINE n == Len(s)
             h == LayoutHeader(s)
             p == [j \in 0 .. n |-> LayoutBits(s, j)]
  <1>1. n \in Nat /\ DOMAIN s = 1 .. n
    BY LenProperties
  <1>2. PICK g : CWalk(s, g) /\ CLayout(s) = g[n]
    BY CLayoutWalks
  <1>3. /\ g[0] = CStart
        /\ \A k \in 1 .. n : s[k] \in Letters /\ g[k] = CStep(g[k-1], s[k])
        /\ \A k \in 0 .. n : g[k] \in CAcc
    BY <1>2, CWalkFacts
  <1>4. PICK b : /\ b[0] = BStart
                 /\ \A k \in 1 .. 63 : b[k] = BitvectorStep(b[k-1], (64 - k) \in h)
                 /\ interpret_bitvector(h) = b[FieldCount(h)].ptrs
    BY BitvectorWalks
  <1>5. /\ p[0] = 0 /\ p[n] = required_amount_of_bits(s)
        /\ \A k \in 0 .. n : p[k] \in Nat
        /\ \A k \in 1 .. n : p[k] = p[k - 1] + (IF s[k] = "l" THEN 2 ELSE 1)
    <2>1. \A k \in 1 .. n : k - 1 \in 0 .. n /\ k \in 0 .. n
      BY <1>1
    <2>2. 0 \in 0 .. n /\ n \in 0 .. n
      BY <1>1
    <2>. QED
      BY <2>1, <2>2, LayoutBitsNext
  <1>6. \A k \in 0 .. n : \A i \in 0 .. k : i < k => p[i] < p[k]
    <2>1. \A k \in 0 .. n : \A i \in 0 .. k : i \in 0 .. n
      BY <1>1
    <2>. QED
      BY <2>1, LayoutBitsRise
  <1>7. /\ FieldCount(h) = p[n]
        /\ p[n] \in 0 .. 55
        /\ \A k \in 1 .. p[n] :
             64 - k \in h <=> \E j \in 1 .. n : s[j] = "*" /\ p[j - 1] + 1 = k
    <2>1. \A j \in 1 .. n : j - 1 \in 0 .. n
      BY <1>1
    <2>. QED
      BY <1>5, <2>1, LayoutHeaderRead
  <1>a. p[n] \in Nat /\ p[n] <= 55
    <2> DEFINE r == required_amount_of_bits(s)
    <2>1. r \in 0 .. 55
      BY LayoutHeaderRead
    <2>2. p[n] = r
      BY <1>5
    <2> HIDE DEF p, n, r
    <2>. QED
      BY <2>1, <2>2
  <1>8. \A k \in 1 .. n : s[k] = "l" => g[k-1].end % 8 = 0
    <2>1. ASSUME NEW k \in 1 .. n, s[k] = "l"
          PROVE  g[k-1].end % 8 = 0
      <3>1. k - 1 \in 0 .. n
        BY <1>1
      <3>2. CLayout(SubSeq(s, 1, k - 1)) = g[k-1]
        BY <1>2, <3>1, CPrefix
      <3>. QED
        BY <1>1, <2>1, <3>2 DEF LongsAligned, WORD_SIZE
    <2>. QED
      BY <2>1
  <1>9. \A k \in 1 .. n : s[k] # "c"
    OBVIOUS
  <1> HIDE DEF n, h, p
  <1> DEFINE Same(j) == /\ b[p[j]] = [offset |-> g[j].end, ptrs |-> g[j].ptrs]
                        /\ g[j].end % 4 = 0
             Good == {j \in 0 .. n : Same(j)}
  <1>10. 0 \in Good
    <2>1. g[0].end = 0 /\ g[0].ptrs = <<>>
      BY <1>3 DEF CStart
    <2>2. b[p[0]] = [offset |-> 0, ptrs |-> <<>>]
      BY <1>4, <1>5 DEF BStart
    <2>3. 0 \in 0 .. n /\ 0 % 4 = 0
      BY <1>1
    <2>. QED
      BY <2>1, <2>2, <2>3
  <1>11. ASSUME NEW j \in 0 .. (n - 1), j \in Good
         PROVE  j + 1 \in Good
    <2> DEFINE e == g[j].end
               q == p[j]
    <2>1. j + 1 \in 1 .. n /\ j + 1 \in 0 .. n /\ j \in 0 .. n /\ (j + 1) - 1 = j /\ j \in Nat
      BY <1>1
    <2>2. /\ s[j+1] \in Letters /\ g[j+1] = CStep(g[j], s[j+1]) /\ g[j] \in CAcc
          /\ s[j+1] # "c"
      BY <1>3, <1>9, <2>1
    <2>3. b[q] = [offset |-> e, ptrs |-> g[j].ptrs] /\ e % 4 = 0 /\ e \in Nat /\ g[j].ptrs \in Seq(Nat)
      BY <1>11, <2>2 DEF CAcc
    <2>4. b[q] \in BAcc /\ b[q].offset = e /\ b[q].ptrs = g[j].ptrs
      BY <2>3 DEF BAcc
    <2>5. q \in Nat /\ p[j+1] = q + (IF s[j+1] = "l" THEN 2 ELSE 1) /\ p[j+1] <= p[n] /\ p[j+1] \in Nat
      <3>1. p[j+1] <= p[n]
        <4>1. CASE j + 1 = n
          <5>1. p[j+1] = p[n]
            BY <4>1
          <5>. QED
            BY <1>a, <5>1
        <4>2. CASE j + 1 # n
          <5>1. j + 1 < n /\ n \in 0 .. n
            BY <1>1, <2>1, <4>2
          <5>2. p[j+1] < p[n]
            BY <1>6, <2>1, <5>1
          <5>. QED
            BY <1>5, <1>a, <2>1, <5>1, <5>2
        <4>. QED
          BY <4>1, <4>2
      <3>. QED
        BY <1>5, <2>1, <3>1
    <2>6. q + 1 \in 1 .. p[n] /\ q + 1 \in 1 .. 63 /\ (q + 1) - 1 = q
      <3>1. q + 1 <= p[j+1]
        BY <2>5
      <3> HIDE DEF q
      <3>. QED
        BY <1>a, <2>5, <3>1
    <2>7. b[q+1] = BitvectorStep(b[q], (64 - (q + 1)) \in h)
      BY <1>4, <2>6
    <2>8. \A i \in 1 .. n : p[i - 1] = q => i = j + 1
      <3>1. ASSUME NEW i \in 1 .. n, p[i - 1] = q, i # j + 1
            PROVE  FALSE
        <4>1. i - 1 \in 0 .. n /\ i - 1 # j
          BY <1>1, <2>1, <3>1
        <4>2. CASE i - 1 < j
          <5>1. i - 1 \in 0 .. j
            BY <2>1, <4>1, <4>2
          <5>2. p[i - 1] < q
            BY <1>6, <2>1, <4>2, <5>1
          <5>. QED
            BY <2>5, <3>1, <5>2
        <4>3. CASE i - 1 > j
          <5>1. j \in 0 .. (i - 1) /\ j < i - 1
            BY <2>1, <4>1, <4>3
          <5>2. q < p[i - 1]
            BY <1>6, <4>1, <5>1
          <5>. QED
            BY <2>5, <3>1, <5>2
        <4>. QED
          BY <2>1, <4>1, <4>2, <4>3
      <3>. QED
        BY <3>1
    <2>9. 64 - (q + 1) \in h <=> s[j+1] = "*"
      <3>1. \A i \in 1 .. n : p[i - 1] \in Nat
        <4>1. \A i \in 1 .. n : i - 1 \in 0 .. n
          BY <1>1
        <4>. QED
          BY <1>5, <4>1
      <3>2. \A i \in 1 .. n : p[i - 1] + 1 = q + 1 <=> p[i - 1] = q
        BY <2>5, <3>1
      <3>3. p[(j + 1) - 1] = q
        BY <2>1
      <3>. QED
        <4>1. 64 - (q + 1) \in h <=> \E i \in 1 .. n : s[i] = "*" /\ p[i - 1] + 1 = q + 1
          BY <1>7, <2>6
        <4> HIDE DEF q
        <4>2. 64 - (q + 1) \in h <=> \E i \in 1 .. n : s[i] = "*" /\ p[i - 1] = q
          BY <3>2, <4>1
        <4>. QED
          BY <2>1, <2>8, <3>3, <4>2
    <2> HIDE DEF e, q
    <2>10. CASE s[j+1] = "*"
      <3> DEFINE at == IF e % 8 = 0 THEN e ELSE e + 4
      <3>1. RoundUp(e, 8) = at
        <4>1. CASE e % 8 = 0
          BY <2>3, <4>1, Rounded
        <4>2. CASE e % 8 # 0
          <5>1. e % 8 = 4
            BY <2>3, <4>2, FoursInEight
          <5>2. (e + 8 - 1) \div 8 = (e \div 8) + 1
            BY <2>3, <5>1
          <5>3. e = 8 * (e \div 8) + 4 /\ e \div 8 \in Nat
            BY <2>3, <5>1
          <5>. QED
            BY <2>3, <4>2, <5>2, <5>3 DEF RoundUp
        <4>. QED
          BY <4>1, <4>2
      <3>2. b[q+1] = [offset |-> at + 8, ptrs |-> Append(g[j].ptrs, at)]
        <4>1. 64 - (q + 1) \in h
          BY <2>9, <2>10
        <4>2. b[q+1] = [offset |-> (IF b[q].offset % 8 = 0 THEN b[q].offset ELSE b[q].offset + 4) + 8,
                        ptrs |-> Append(b[q].ptrs,
                                   IF b[q].offset % 8 = 0 THEN b[q].offset ELSE b[q].offset + 4)]
          BY <2>4, <2>7, <4>1, BStepType
        <4>. QED
          BY <2>4, <4>2
      <3>3. g[j+1].end = at + 8 /\ g[j+1].ptrs = Append(g[j].ptrs, at)
        <4>1. format_string_letter_to_size(s[j+1]) = 8
          BY <2>10, LetterSizes
        <4>2. /\ CStep(g[j], s[j+1]).end = RoundUp(e, 8) + 8
              /\ CStep(g[j], s[j+1]).ptrs = Append(g[j].ptrs, RoundUp(e, 8))
          <5>1. CStep(g[j], s[j+1]).end = RoundUp(e, 8) + 8
            BY <2>2, <4>1, CStepType DEF e
          <5>2. CStep(g[j], s[j+1]).ptrs = Append(g[j].ptrs, RoundUp(e, 8))
            BY <2>2, <2>10, CStepType DEF e
          <5>. QED
            BY <5>1, <5>2
        <4>. QED
          BY <2>2, <3>1, <4>2
      <3>4. (at + 8) % 4 = 0
        BY <2>3
      <3>5. p[j+1] = q + 1
        BY <2>5, <2>10
      <3> HIDE DEF at
      <3>. QED
        BY <2>1, <3>2, <3>3, <3>4, <3>5
    <2>11. CASE s[j+1] = "i"
      <3>1. RoundUp(e, 4) = e
        BY <2>3, Rounded
      <3>2. b[q+1] = [offset |-> e + 4, ptrs |-> g[j].ptrs]
        BY <2>4, <2>7, <2>9, <2>11, BStepType
      <3>3. g[j+1].end = e + 4 /\ g[j+1].ptrs = g[j].ptrs
        <4>1. format_string_letter_to_size(s[j+1]) = 4
          BY <2>11, LetterSizes
        <4>2. /\ CStep(g[j], s[j+1]).end = RoundUp(e, 4) + 4
              /\ CStep(g[j], s[j+1]).ptrs = g[j].ptrs
          BY <2>2, <2>11, <4>1, CStepType DEF e
        <4>. QED
          BY <2>2, <3>1, <4>2
      <3>4. (e + 4) % 4 = 0
        BY <2>3
      <3>5. p[j+1] = q + 1
        BY <2>5, <2>11
      <3>. QED
        BY <2>1, <3>2, <3>3, <3>4, <3>5
    <2>12. CASE s[j+1] = "l"
      <3>1. e % 8 = 0 /\ RoundUp(e, 8) = e
        <4>1. e % 8 = 0
          BY <1>8, <2>1, <2>12 DEF e
        <4>. QED
          BY <2>3, <4>1, Rounded
      <3>2. b[q+1] = [offset |-> e + 4, ptrs |-> g[j].ptrs]
        BY <2>4, <2>7, <2>9, <2>12, BStepType
      <3>3. p[j+1] = q + 2 /\ q + 2 \in 1 .. p[n] /\ q + 2 \in 1 .. 63 /\ (q + 2) - 1 = q + 1
        BY <1>a, <2>5, <2>12
      <3>4. b[q+2] = BitvectorStep(b[q+1], (64 - (q + 2)) \in h)
        BY <1>4, <3>3
      <3>5. 64 - (q + 2) \notin h
        <4>1. ASSUME NEW i \in 1 .. n, p[i - 1] + 1 = q + 2
              PROVE  FALSE
          <5>1. i - 1 \in 0 .. n /\ p[i - 1] \in Nat
            <6>1. i - 1 \in 0 .. n
              BY <1>1
            <6>. QED
              BY <1>5, <6>1
          <5>2. p[i - 1] = q + 1
            BY <2>5, <4>1, <5>1
          <5>3. CASE i - 1 = j
            BY <2>5, <5>2, <5>3 DEF q
          <5>4. CASE i - 1 < j
            <6>1. i - 1 \in 0 .. j
              BY <2>1, <5>1, <5>4
            <6>2. p[i - 1] < q
              BY <1>6, <2>1, <5>4, <6>1 DEF q
            <6>. QED
              BY <2>5, <5>2, <6>2
          <5>5. CASE i - 1 = j + 1
            BY <2>5, <3>3, <5>2, <5>5
          <5>6. CASE i - 1 > j + 1
            <6>1. j + 1 \in 0 .. (i - 1) /\ j + 1 < i - 1
              BY <2>1, <5>1, <5>6
            <6>2. p[j+1] < p[i - 1]
              BY <1>6, <5>1, <6>1
            <6>. QED
              BY <2>5, <3>3, <5>2, <6>2
          <5>. QED
            BY <2>1, <5>1, <5>3, <5>4, <5>5, <5>6
        <4>. QED
          BY <1>7, <3>3, <4>1
      <3>6. b[q+1] \in BAcc /\ b[q+1].offset = e + 4 /\ b[q+1].ptrs = g[j].ptrs
        BY <2>3, <3>2 DEF BAcc
      <3>7. b[q+2] = [offset |-> (e + 4) + 4, ptrs |-> g[j].ptrs]
        BY <3>4, <3>5, <3>6, BStepType
      <3>8. g[j+1].end = e + 8 /\ g[j+1].ptrs = g[j].ptrs
        <4>1. format_string_letter_to_size(s[j+1]) = 8
          BY <2>12, LetterSizes
        <4>2. /\ CStep(g[j], s[j+1]).end = RoundUp(e, 8) + 8
              /\ CStep(g[j], s[j+1]).ptrs = g[j].ptrs
          BY <2>2, <2>12, <4>1, CStepType DEF e
        <4>. QED
          BY <2>2, <3>1, <4>2
      <3>9. (e + 8) % 4 = 0 /\ (e + 4) + 4 = e + 8
        BY <2>3
      <3>. QED
        BY <2>1, <3>3, <3>7, <3>8, <3>9
    <2>. QED
      BY <2>2, <2>10, <2>11, <2>12, LetterSizes
  <1>12. n \in Good
    <2>1. n \in 0 .. n
      BY <1>1
    <2> HIDE DEF Good
    <2>. QED
      BY <1>1, <1>10, <1>11, <2>1, ReachesAll
  <1>13. b[p[n]] = [offset |-> g[n].end, ptrs |-> g[n].ptrs]
    BY <1>12
  <1>. QED
    BY <1>2, <1>4, <1>7, <1>13 DEF h

-----------------------------------------------------------------------------
(* What a format string expands to, and the headers that are made of it.   *)

Coefficients == [n : Nat, letter : Letters]

LEMMA FormatsAre == Formats \subseteq Seq(Coefficients)
  BY FormatsAssumption DEF Coefficients

LEMMA ExpandFacts ==
  ASSUME NEW fs, fs \in Seq(Coefficients)
  PROVE  /\ Expand(fs) \in Seq(Letters)
         /\ Len(Expand(fs)) \in Nat /\ DOMAIN Expand(fs) = 1 .. Len(Expand(fs))
         /\ ~HasPointers(fs) => \A k \in 1 .. Len(Expand(fs)) : Expand(fs)[k] # "*"
         /\ ~HasChars(fs) => \A k \in 1 .. Len(Expand(fs)) : Expand(fs)[k] # "c"
  <1> DEFINE ss == [k \in DOMAIN fs |-> [i \in 1 .. fs[k].n |-> fs[k].letter]]
             s == FlattenSeq(ss)
             N == Len(fs)
  <1>1. N \in Nat /\ DOMAIN fs = 1 .. N /\ \A k \in 1 .. N : fs[k] \in Coefficients
    BY LenProperties, ElementOfSeq
  <1>2. \A k \in 1 .. N : fs[k].n \in Nat /\ fs[k].letter \in Letters
    BY <1>1 DEF Coefficients
  <1> HIDE DEF N
  <1>3. \A k \in 1 .. N : ss[k] \in Seq(Letters) /\ ss[k] = [i \in 1 .. fs[k].n |-> fs[k].letter]
    <2>1. ASSUME NEW k \in 1 .. N
          PROVE  [i \in 1 .. fs[k].n |-> fs[k].letter] \in Seq(Letters)
      <3>1. [i \in 1 .. fs[k].n |-> fs[k].letter] \in [1 .. fs[k].n -> Letters]
        BY <1>2
      <3>. QED
        BY <1>2, <3>1, SeqDef
    <2>. QED
      BY <1>1, <2>1
  <1>4. ss \in Seq(Seq(Letters)) /\ Len(ss) = N
    <2>1. ss \in [1 .. N -> Seq(Letters)]
      BY <1>1, <1>3
    <2> HIDE DEF ss
    <2>2. ss \in Seq(Seq(Letters))
      BY <1>1, <2>1, SeqDef
    <2>3. DOMAIN ss = 1 .. N /\ DOMAIN ss = 1 .. Len(ss) /\ Len(ss) \in Nat
      BY <2>1, <2>2, LenProperties
    <2>. QED
      BY <1>1, <2>2, <2>3
  <1> HIDE DEF ss
  <1>5. s \in Seq(Letters) /\ \A x : x \in ToSet(s) <=> \E k \in 1 .. N : x \in ToSet(ss[k])
    BY <1>4, FlattenHas
  <1> HIDE DEF s
  <1>6. Len(s) \in Nat /\ DOMAIN s = 1 .. Len(s)
    BY <1>5, LenProperties
  <1>7. \A k \in 1 .. Len(s) : \E j \in 1 .. N : s[k] = fs[j].letter
    <2>1. ASSUME NEW k \in 1 .. Len(s)
          PROVE  \E j \in 1 .. N : s[k] = fs[j].letter
      <3>1. s[k] \in ToSet(s)
        BY <1>6 DEF ToSet
      <3>2. PICK j \in 1 .. N : s[k] \in ToSet(ss[j])
        BY <1>5, <3>1
      <3>3. s[k] = fs[j].letter
        BY <1>3, <3>2 DEF ToSet
      <3>. QED
        BY <3>3
    <2>. QED
      BY <2>1
  <1>8. Expand(fs) = s
    BY DEF Expand, s, ss
  <1>9. ~HasPointers(fs) => \A k \in 1 .. Len(s) : s[k] # "*"
    BY <1>1, <1>7 DEF HasPointers
  <1>10. ~HasChars(fs) => \A k \in 1 .. Len(s) : s[k] # "c"
    BY <1>1, <1>7 DEF HasChars
  <1>. QED
    BY <1>5, <1>6, <1>8, <1>9, <1>10

LEMMA OfCharsLength ==
  ASSUME NEW b \in Nat
  PROVE  OfChars(b) \in Seq(Coefficients) /\ Len(Expand(OfChars(b))) = b
  <1> DEFINE fs == OfChars(b)
             t == [i \in 1 .. fs[1].n |-> fs[1].letter]
             ss == [k \in DOMAIN fs |-> [i \in 1 .. fs[k].n |-> fs[k].letter]]
  <1>1. fs = <<[n |-> b, letter |-> "c"]>> /\ Len(fs) = 1 /\ fs[1] = [n |-> b, letter |-> "c"]
    BY DEF OfChars
  <1>2. fs \in Seq(Coefficients)
    <2>1. [n |-> b, letter |-> "c"] \in Coefficients
      BY DEF Coefficients, Letters
    <2>. QED
      BY <1>1, <2>1
  <1>3. DOMAIN fs = 1 .. 1
    BY <1>1, <1>2, LenProperties
  <1> HIDE DEF fs
  <1>4. t = [i \in 1 .. b |-> "c"] /\ t \in [1 .. b -> Letters]
    BY <1>1 DEF Letters
  <1>5. t \in Seq(Letters) /\ Len(t) = b
    <2> HIDE DEF t
    <2>. QED
      BY <1>4, SequenceIs
  <1>6. ss \in [1 .. 1 -> Seq(Letters)] /\ ss[1] = t
    <2>1. ss = [k \in 1 .. 1 |-> [i \in 1 .. fs[k].n |-> fs[k].letter]]
      BY <1>3
    <2>2. \A k \in 1 .. 1 : ss[k] = t
      BY <2>1
    <2>3. ss = [k \in 1 .. 1 |-> ss[k]]
      BY <2>1, Zenon
    <2> HIDE DEF t, ss
    <2>4. 1 \in 1 .. 1
      OBVIOUS
    <2>. QED
      BY <1>5, <2>2, <2>3, <2>4, Zenon
  <1> HIDE DEF ss, t
  <1>7. ss \in Seq(Seq(Letters)) /\ Len(ss) = 1
    BY <1>6, 1 \in Nat, SequenceIs
  <1>8. Len(FlattenSeq(ss)) = Len(t)
    <2> DEFINE L == Lengths(ss)
    <2>1. Len(FlattenSeq(ss)) = SumFunctionOnSet(L, 1 .. 1) /\ L[1] = Len(t)
      BY <1>6, <1>7, FlattenLength
    <2>2. 1 .. 1 = {} \cup {1} /\ 1 \notin {} /\ IsFiniteSet({}) /\ SumFunctionOnSet(L, {}) = 0
      BY SumEmpty, FS_EmptySet
    <2> HIDE DEF L
    <2>3. \A x \in {} \cup {1} : L[x] \in Int
      BY <1>5, <2>1
    <2>4. SumFunctionOnSet(L, {} \cup {1}) = L[1] + SumFunctionOnSet(L, {})
      BY <2>2, <2>3, SumAdd
    <2>. QED
      BY <1>5, <2>1, <2>2, <2>4
  <1>9. Expand(fs) = FlattenSeq(ss)
    BY DEF Expand, ss
  <1>. QED
    BY <1>2, <1>5, <1>8, <1>9 DEF fs

\* A header tells its kind.
LEMMA HeaderKinds ==
  /\ identify_header({}) = "format" /\ identify_header(StringHeader) = "format"
  /\ \A bytes : identify_header(header_creation_raw(bytes)) = "raw"
  /\ \A bytes \in Nat :
       bytes < Pow[20] => size_of_raw_allocation(header_creation_raw(bytes)) = bytes
  <1>1. identify_header({}) = "format" /\ identify_header(StringHeader) = "format"
    BY DEF identify_header, StringHeader
  <1>2. ASSUME NEW bytes
        PROVE  identify_header(header_creation_raw(bytes)) = "raw"
    <2>1. 2 \notin BitsOf(bytes, 3, 20)
      BY DEF BitsOf
    <2>2. 0 \in header_creation_raw(bytes) /\ 1 \in header_creation_raw(bytes)
          /\ 2 \notin header_creation_raw(bytes)
      BY <2>1 DEF header_creation_raw
    <2>. QED
      BY <2>2 DEF identify_header
  <1>3. ASSUME NEW bytes \in Nat, bytes < Pow[20]
        PROVE  size_of_raw_allocation(header_creation_raw(bytes)) = bytes
    <2> DEFINE B == BitsOf(bytes, 3, 20)
               h == header_creation_raw(bytes)
    <2>1. B \subseteq 3 .. 22
      BY DEF BitsOf
    <2>2. h = {0, 1} \cup B
      BY DEF header_creation_raw
    <2> HIDE DEF B, h
    <2>3. h \cap (3 .. (3 + 20 - 1)) = B
      <3>1. \A j \in 3 .. (3 + 20 - 1) : j \notin {0, 1}
        OBVIOUS
      <3>2. 3 .. (3 + 20 - 1) = 3 .. 22
        OBVIOUS
      <3>. QED
        BY <2>1, <2>2, <3>1, <3>2
    <2>4. ValueOf(h, 3, 20) = bytes % Pow[20]
      <3>1. h \cap (3 .. (3 + 20 - 1)) = BitsOf(bytes, 3, 20)
        BY <2>3 DEF B
      <3>2. bytes \in Nat /\ 20 \in 0 .. 20 /\ 3 \in Nat
        OBVIOUS
      <3>. QED
        BY <3>1, <3>2, BitsRead
    <2>5. bytes % Pow[20] = bytes
      <3> DEFINE m == Pow[20]
      <3>1. m \in Nat \ {0} /\ bytes \in 0 .. (m - 1) /\ bytes = m * 0 + bytes
        BY <1>3, PowTwenty
      <3> HIDE DEF m
      <3>2. bytes % m = bytes
        BY <3>1, RemainderIs
      <3>. QED
        BY <3>2 DEF m
    <2>. QED
      BY <2>4, <2>5, PowTwenty DEF size_of_raw_allocation, h
  <1>. QED
    BY <1>1, <1>2, <1>3

-----------------------------------------------------------------------------
(* The object that has been allocated.                                     *)

SizeOf(s, h) ==
  IF identify_header(h) = "raw" THEN size_of_raw_allocation(h) ELSE size_of_struct_allocation(h, s)

\* The format string that its header, its size and its expansion are made of.
AllocatedFrom(fs) ==
  /\ fs \in Seq(Coefficients)
  /\ Len(Expand(fs)) < MAX_ALLOC_SIZE
  /\ expanded = Expand(fs)
  /\ header = header_creation_layout(fs)
  /\ size = SizeOf(expanded, header)

LayoutInv ==
  /\ status \in {"none", "abort"} => header = {}
  /\ status = "allocated" => \E fs : AllocatedFrom(fs)
  /\ status \in {"none", "abort", "allocated"}

LEMMA LayoutInductive == Spec => []LayoutInv
  <1>1. Init => LayoutInv
    BY DEF Init, LayoutInv
  <1>2. ASSUME LayoutInv, [Next]_vars
        PROVE  LayoutInv'
    <2>1. ASSUME NEW fs, fs \in Seq(Coefficients), Len(Expand(fs)) < MAX_ALLOC_SIZE, Allocated(fs)
          PROVE  LayoutInv'
      <3>1. AllocatedFrom(fs)'
        BY <2>1 DEF AllocatedFrom, Allocated, SizeOf
      <3>2. status' = "allocated"
        BY <2>1 DEF Allocated
      <3>. QED
        BY <3>1, <3>2 DEF LayoutInv
    <2>2. ASSUME NEW fs \in Formats, h_alloc_struct(fs)
          PROVE  LayoutInv'
      <3>1. fs \in Seq(Coefficients)
        BY FormatsAre
      <3>2. Len(Expand(fs)) < MAX_ALLOC_SIZE /\ Allocated(fs)
        BY <2>2, BufferAssumption DEF h_alloc_struct
      <3>. QED
        BY <2>1, <3>1, <3>2
    <2>3. ASSUME NEW bytes \in DataSizes, h_alloc_data(bytes)
          PROVE  LayoutInv'
      <3>1. bytes \in Nat /\ bytes < 2040
        BY DataSizesAssumption
      <3>2. OfChars(bytes) \in Seq(Coefficients) /\ Len(Expand(OfChars(bytes))) < MAX_ALLOC_SIZE
        BY <3>1, OfCharsLength DEF MAX_ALLOC_SIZE
      <3>. QED
        BY <2>1, <2>3, <3>2 DEF h_alloc_data
    <2>4. ASSUME NEW fs, AllocStops(fs)
          PROVE  LayoutInv'
      BY <1>2, <2>4 DEF AllocStops, LayoutInv
    <2>5. CASE UNCHANGED vars
      <3>1. ASSUME NEW fs, AllocatedFrom(fs)
            PROVE  AllocatedFrom(fs)'
        BY <2>5, <3>1 DEF vars, AllocatedFrom
      <3>2. status' = status /\ header' = header
        BY <2>5 DEF vars
      <3>. QED
        BY <1>2, <3>1, <3>2 DEF LayoutInv
    <2>. QED
      BY <1>2, <2>2, <2>3, <2>4, <2>5 DEF Next
  <1>. QED
    BY <1>1, <1>2, PTL DEF Spec

\* The header of an allocated object by its kind.
LEMMA AllocatedKinds ==
  ASSUME NEW fs, AllocatedFrom(fs)
  PROVE  /\ expanded \in Seq(Letters) /\ Len(expanded) \in Nat /\ Len(expanded) < 2040
         /\ DOMAIN expanded = 1 .. Len(expanded)
         /\ \/ /\ identify_header(header) = "raw"
               /\ \A k \in 1 .. Len(expanded) : expanded[k] # "*"
               /\ header = header_creation_raw(
                             expanded_format_string_required_space_for_data_alloc(expanded))
            \/ /\ identify_header(header) = "struct"
               /\ \A k \in 1 .. Len(expanded) : expanded[k] # "c"
               /\ FitsBitvector(required_amount_of_bits(expanded))
               /\ header = LayoutHeader(expanded)
            \/ identify_header(header) = "format"
  <1>1. fs \in Seq(Coefficients) /\ expanded = Expand(fs) /\ header = header_creation_layout(fs)
    BY DEF AllocatedFrom
  <1>2. Len(expanded) \in Nat /\ Len(expanded) < 2040
    BY <1>1, ExpandFacts DEF AllocatedFrom, MAX_ALLOC_SIZE
  <1>3. expanded \in Seq(Letters) /\ DOMAIN expanded = 1 .. Len(expanded)
    BY <1>1, ExpandFacts
  <1>4. CASE ~HasPointers(fs)
    <2>1. \A k \in 1 .. Len(expanded) : expanded[k] # "*"
      BY <1>1, <1>4, ExpandFacts
    <2>2. header = header_creation_raw(
                     expanded_format_string_required_space_for_data_alloc(expanded))
      BY <1>1, <1>4 DEF header_creation_layout
    <2>3. identify_header(header) = "raw"
      BY <2>2, HeaderKinds
    <2>. QED
      BY <1>2, <1>3, <2>1, <2>2, <2>3
  <1>5. CASE HasPointers(fs) /\ ~HasChars(fs) /\ FitsBitvector(required_amount_of_bits(expanded))
    <2>1. \A k \in 1 .. Len(expanded) : expanded[k] # "c"
      BY <1>1, <1>5, ExpandFacts
    <2>2. header = LayoutHeader(expanded)
      BY <1>1, <1>5 DEF header_creation_layout
    <2>3. identify_header(header) = "struct"
      BY <1>3, <1>5, <2>2, LayoutHeaderRead
    <2>. QED
      BY <1>2, <1>3, <1>5, <2>1, <2>2, <2>3
  <1>6. CASE HasPointers(fs) /\ ~(~HasChars(fs) /\ FitsBitvector(required_amount_of_bits(expanded)))
    <2>1. header = StringHeader
      BY <1>1, <1>6 DEF header_creation_layout
    <2>. QED
      BY <1>2, <1>3, <2>1, HeaderKinds
  <1>. QED
    BY <1>4, <1>5, <1>6

\* The collector finds the pointers of a struct with a layout in its header.
THEOREM LayoutPointersFound == Spec => []PointersFound
  <1>1. LayoutInv => PointersFound
    <2> SUFFICES ASSUME LayoutInv, identify_header(header) = "struct", LongsAligned(expanded)
                 PROVE  header_interpretation(header, expanded) = CLayout(expanded).ptrs
      BY DEF PointersFound
    <2>1. status = "allocated"
      BY HeaderKinds DEF LayoutInv
    <2>2. PICK fs : AllocatedFrom(fs)
      BY <2>1 DEF LayoutInv
    <2>3. /\ expanded \in Seq(Letters)
          /\ \A k \in 1 .. Len(expanded) : expanded[k] # "c"
          /\ FitsBitvector(required_amount_of_bits(expanded))
          /\ header = LayoutHeader(expanded)
      BY <2>2, AllocatedKinds
    <2>4. interpret_bitvector(header) = CLayout(expanded).ptrs
      BY <2>3, StructFound
    <2>. QED
      BY <2>4 DEF header_interpretation
  <1>. QED
    BY <1>1, LayoutInductive, PTL

-----------------------------------------------------------------------------
(* The room that the compiler's layout takes.                              *)

\* Rounding does not pass a multiple of eight.
LEMMA RoundFits ==
  ASSUME NEW x, NEW n, NEW top, x \in Nat, n \in {1, 4, 8}, top \in Nat, top % 8 = 0, x <= top
  PROVE  RoundUp(x, n) <= top
  <1>1. PICK t \in Nat : top = 8 * t
    <2>1. top = 8 * (top \div 8) + (top % 8) /\ top \div 8 \in Nat
      OBVIOUS
    <2>. QED
      BY <2>1
  <1>2. CASE n = 1
    BY <1>2 DEF RoundUp
  <1>3. CASE n = 4
    <2>1. (x + 4 - 1) \div 4 <= 2 * t
      BY <1>1
    <2>. QED
      BY <1>1, <1>3, <2>1 DEF RoundUp
  <1>4. CASE n = 8
    <2>1. (x + 8 - 1) \div 8 <= t
      BY <1>1
    <2>. QED
      BY <1>1, <1>4, <2>1 DEF RoundUp
  <1>. QED
    BY <1>2, <1>3, <1>4

LEMMA CSizeFits ==
  ASSUME NEW s, s \in Seq(Letters), NEW top, top \in Nat, top % 8 = 0, CLayout(s).end <= top
  PROVE  CSize(s) <= top /\ CSize(s) \in Nat
  <1>1. CLayout(s) \in CAcc
    <2>1. PICK g : CWalk(s, g) /\ CLayout(s) = g[Len(s)]
      BY CLayoutWalks
    <2>2. Len(s) \in 0 .. Len(s)
      BY LenProperties
    <2>. QED
      BY <2>1, <2>2, CWalkFacts
  <1>2. CLayout(s).end \in Nat /\ CLayout(s).align \in {1, 4, 8}
    BY <1>1 DEF CAcc
  <1>. QED
    BY <1>2, RoundFits, Rounded DEF CSize

\* A field takes no more than a word.
LEMMA WordPerField ==
  ASSUME NEW s, s \in Seq(Letters)
  PROVE  CLayout(s).end <= 8 * Len(s) /\ CLayout(s).end \in Nat /\ Len(s) \in Nat
  <1> DEFINE n == Len(s)
  <1>1. PICK g : CWalk(s, g) /\ CLayout(s) = g[n]
    BY CLayoutWalks
  <1>2. /\ n \in Nat
        /\ g[0] = CStart
        /\ \A k \in 1 .. n : s[k] \in Letters /\ g[k] = CStep(g[k-1], s[k])
        /\ \A k \in 0 .. n : g[k] \in CAcc
    BY <1>1, CWalkFacts
  <1> HIDE DEF n
  <1> DEFINE Good == {k \in 0 .. n : g[k].end <= 8 * k}
  <1>3. 0 \in Good
    BY <1>2 DEF CStart
  <1>4. ASSUME NEW k \in 0 .. (n - 1), k \in Good
        PROVE  k + 1 \in Good
    <2> DEFINE w == format_string_letter_to_size(s[k+1])
    <2>1. k + 1 \in 1 .. n /\ k + 1 \in 0 .. n /\ k \in 0 .. n /\ (k + 1) - 1 = k /\ k \in Nat
      BY <1>2
    <2>2. s[k+1] \in Letters /\ g[k+1] = CStep(g[k], s[k+1]) /\ g[k] \in CAcc
      BY <1>2, <2>1
    <2>3. g[k].end \in Nat /\ g[k].end <= 8 * k /\ w \in {1, 4, 8}
      BY <1>4, <2>2, LetterSizes DEF CAcc
    <2>4. g[k+1].end = RoundUp(g[k].end, w) + w
      BY <2>2, CStepType
    <2>5. RoundUp(g[k].end, w) <= 8 * k /\ RoundUp(g[k].end, w) \in Nat
      <3>1. 8 * k \in Nat /\ (8 * k) % 8 = 0
        BY <2>1
      <3>. QED
        BY <2>3, <3>1, RoundFits, Rounded
    <2> HIDE DEF w
    <2>6. RoundUp(g[k].end, w) + w <= 8 * (k + 1)
      BY <2>1, <2>3, <2>5
    <2>. QED
      BY <2>1, <2>4, <2>6
  <1>5. n \in Good
    <2>1. n \in 0 .. n
      BY <1>2
    <2> HIDE DEF Good
    <2>. QED
      BY <1>2, <1>3, <1>4, <2>1, ReachesAll
  <1>6. g[n] \in CAcc
    <2>1. n \in 0 .. n
      BY <1>2
    <2>. QED
      BY <1>2, <2>1
  <1>7. g[n].end \in Nat
    BY <1>6 DEF CAcc
  <1>. QED
    BY <1>1, <1>2, <1>5, <1>7 DEF n

\* Fields of one size leave no gap.
LEMMA ArrayEnd ==
  ASSUME NEW s, s \in Seq(Letters), NEW c \in Letters, \A k \in 1 .. Len(s) : s[k] = c
  PROVE  CLayout(s).end = Len(s) * format_string_letter_to_size(c)
  <1> DEFINE n == Len(s)
             w == format_string_letter_to_size(c)
  <1>1. PICK g : CWalk(s, g) /\ CLayout(s) = g[n]
    BY CLayoutWalks
  <1>2. /\ n \in Nat
        /\ g[0] = CStart
        /\ \A k \in 1 .. n : g[k] = CStep(g[k-1], c)
        /\ \A k \in 0 .. n : g[k] \in CAcc
    BY <1>1, CWalkFacts
  <1>3. w \in {1, 4, 8}
    BY LetterSizes
  <1> HIDE DEF n
  <1> DEFINE Good == {k \in 0 .. n : g[k].end = k * w}
  <1>4. 0 \in Good
    BY <1>2, <1>3 DEF CStart
  <1>5. ASSUME NEW k \in 0 .. (n - 1), k \in Good
        PROVE  k + 1 \in Good
    <2>1. k + 1 \in 1 .. n /\ k + 1 \in 0 .. n /\ k \in 0 .. n /\ (k + 1) - 1 = k /\ k \in Nat
      BY <1>2
    <2>2. g[k+1] = CStep(g[k], c) /\ g[k] \in CAcc
      BY <1>2, <2>1
    <2>3. g[k].end \in Nat /\ g[k].end = k * w
      BY <1>5, <2>2 DEF CAcc
    <2>4. g[k+1].end = RoundUp(g[k].end, w) + w
      BY <2>2, CStepType
    <2> HIDE DEF w
    <2>5. (k * w) % w = 0 /\ k * w + w = (k + 1) * w
      <3>1. CASE w = 1
        BY <2>1, <3>1
      <3>2. CASE w = 4
        BY <2>1, <3>2
      <3>3. CASE w = 8
        BY <2>1, <3>3
      <3>. QED
        BY <1>3, <3>1, <3>2, <3>3
    <2>6. RoundUp(g[k].end, w) = g[k].end
      BY <1>3, <2>3, <2>5, Rounded
    <2>7. g[k+1].end = (k + 1) * w
      BY <2>3, <2>4, <2>5, <2>6
    <2>. QED
      BY <2>1, <2>7
  <1>6. n \in Good
    <2>1. n \in 0 .. n
      BY <1>2
    <2> HIDE DEF Good
    <2>. QED
      BY <1>2, <1>4, <1>5, <2>1, ReachesAll
  <1>. QED
    BY <1>1, <1>6 DEF n

-----------------------------------------------------------------------------
(* The room that raw data gets.                                            *)

PAcc == [bytes : Nat, room : {0, 4, 8}]
PStart == [bytes |-> 0, room |-> 8]
PWalk(s, q) == q = [k \in 0 .. Len(s) |-> IF k = 0 THEN [bytes |-> 0, room |-> WORD_SIZE]
                                          ELSE Packed(q[k-1], s[k])]

LEMMA PackedStep ==
  ASSUME NEW a \in PAcc, NEW c \in {"i", "l"}
  PROVE  /\ Packed(a, c) \in PAcc
         /\ (a.bytes + a.room) % 8 = 0 =>
              /\ (Packed(a, c).bytes + Packed(a, c).room) % 8 = 0
              /\ Packed(a, c).bytes =
                   RoundUp(a.bytes, format_string_letter_to_size(c)) + format_string_letter_to_size(c)
  <1> DEFINE x == a.bytes
             y == a.room
             t == (x + y) \div 8
  <1>1. x \in Nat /\ y \in {0, 4, 8}
    BY DEF PAcc
  <1>2. (x + y) % 8 = 0 => x + y = 8 * t /\ t \in Nat
    <2> DEFINE z == x + y
    <2>1. z \in Nat
      BY <1>1
    <2> HIDE DEF z
    <2>2. z % 8 = 0 => z = 8 * (z \div 8) /\ z \div 8 \in Nat
      BY <2>1
    <2>. QED
      BY <2>2 DEF z
  <1>3. CASE c = "i" /\ y # 0
    <2>1. Packed(a, c) = [bytes |-> x + 4, room |-> y - 4]
      BY <1>1, <1>3, LetterSizes DEF Packed
    <2> HIDE DEF x, y, t
    <2>2. (x + y) % 8 = 0 => RoundUp(x, 4) = x /\ (x + 4 + (y - 4)) % 8 = 0
      <3> SUFFICES ASSUME (x + y) % 8 = 0 PROVE RoundUp(x, 4) = x /\ (x + 4 + (y - 4)) % 8 = 0
        OBVIOUS
      <3>1. x % 4 = 0
        BY <1>1, <1>2
      <3>2. x + 4 + (y - 4) = x + y
        BY <1>1
      <3>. QED
        BY <1>1, <3>1, <3>2, Rounded
    <2>3. Packed(a, c) \in PAcc
      BY <1>1, <1>3, <2>1 DEF PAcc
    <2>. QED
      BY <1>3, <2>1, <2>2, <2>3, LetterSizes DEF x, y
  <1>4. CASE c = "i" /\ y = 0
    <2>1. Packed(a, c) = [bytes |-> x + 0 + 4, room |-> 8 - 4]
      BY <1>1, <1>4, LetterSizes DEF Packed, WORD_SIZE
    <2> HIDE DEF x, y, t
    <2>2. (x + y) % 8 = 0 => RoundUp(x, 4) = x /\ (x + 4 + 4) % 8 = 0
      <3> SUFFICES ASSUME (x + y) % 8 = 0 PROVE RoundUp(x, 4) = x /\ (x + 4 + 4) % 8 = 0
        OBVIOUS
      <3>1. x % 4 = 0 /\ x = 8 * t
        BY <1>1, <1>2, <1>4
      <3>. QED
        <4>1. x + 4 + 4 = 8 * (t + 1) /\ t \in Nat
          BY <1>1, <1>2, <3>1
        <4>2. (x + 4 + 4) % 8 = 0
          BY <4>1
        <4>. QED
          BY <1>1, <3>1, <4>2, Rounded
    <2>3. Packed(a, c) \in PAcc
      BY <1>1, <2>1 DEF PAcc
    <2>. QED
      <3>1. Packed(a, c).bytes = x + 4 /\ Packed(a, c).room = 4
        BY <1>1, <2>1
      <3>2. (x + y) % 8 = 0 => (Packed(a, c).bytes + Packed(a, c).room) % 8 = 0
        BY <2>2, <3>1
      <3>3. (x + y) % 8 = 0 => Packed(a, c).bytes = RoundUp(x, 4) + 4
        BY <2>2, <3>1
      <3>. QED
        BY <1>4, <2>3, <3>2, <3>3, LetterSizes DEF x, y
  <1>5. CASE c = "l" /\ y = 8
    <2>1. Packed(a, c) = [bytes |-> x + 8, room |-> 8 - 8]
      BY <1>1, <1>5, LetterSizes DEF Packed
    <2> HIDE DEF x, y, t
    <2>2. (x + y) % 8 = 0 => RoundUp(x, 8) = x /\ (x + 8 + 0) % 8 = 0
      <3> SUFFICES ASSUME (x + y) % 8 = 0 PROVE RoundUp(x, 8) = x /\ (x + 8 + 0) % 8 = 0
        OBVIOUS
      <3>1. x % 8 = 0
        BY <1>1, <1>2, <1>5
      <3>. QED
        BY <1>1, <1>5, <3>1, Rounded
    <2>3. Packed(a, c) \in PAcc
      BY <1>1, <2>1 DEF PAcc
    <2>. QED
      <3>1. Packed(a, c).bytes = x + 8 /\ Packed(a, c).room = 0
        BY <1>1, <2>1
      <3>2. (x + y) % 8 = 0 => (Packed(a, c).bytes + Packed(a, c).room) % 8 = 0
        BY <2>2, <3>1
      <3>3. (x + y) % 8 = 0 => Packed(a, c).bytes = RoundUp(x, 8) + 8
        BY <2>2, <3>1
      <3>. QED
        BY <1>5, <2>3, <3>2, <3>3, LetterSizes DEF x, y
  <1>6. CASE c = "l" /\ y # 8
    <2>1. Packed(a, c) = [bytes |-> x + y + 8, room |-> 8 - 8]
      BY <1>1, <1>6, LetterSizes DEF Packed, WORD_SIZE
    <2> HIDE DEF x, y, t
    <2>2. (x + y) % 8 = 0 => RoundUp(x, 8) = x + y /\ (x + y + 8 + 0) % 8 = 0
      <3> SUFFICES ASSUME (x + y) % 8 = 0
                   PROVE  RoundUp(x, 8) = x + y /\ (x + y + 8 + 0) % 8 = 0
        OBVIOUS
      <3>1. x + y = 8 * t /\ t \in Nat /\ (y = 0 \/ y = 4)
        BY <1>1, <1>2, <1>6
      <3>2. (x + 8 - 1) \div 8 = t
        BY <1>1, <3>1
      <3>. QED
        BY <1>1, <3>1, <3>2 DEF RoundUp
    <2>3. Packed(a, c) \in PAcc
      BY <1>1, <2>1 DEF PAcc
    <2>. QED
      BY <1>1, <1>6, <2>1, <2>2, <2>3, LetterSizes DEF x, y
  <1>. QED
    BY <1>3, <1>4, <1>5, <1>6

LEMMA PWalkExists ==
  ASSUME NEW s, s \in Seq(Letters), \A k \in 1 .. Len(s) : s[k] \in {"i", "l"}
  PROVE  \E q : PWalk(s, q)
  <1> DEFINE n == Len(s)
             F == [k \in 1 .. n |-> [a \in PAcc |-> Packed(a, s[k])]]
  <1>1. n \in Nat /\ \A k \in 1 .. n : s[k] \in {"i", "l"}
    BY LenProperties
  <1>2. \A k \in 1 .. n : \A a \in PAcc : F[k][a] = Packed(a, s[k]) /\ F[k][a] \in PAcc
    BY <1>1, PackedStep
  <1>3. PStart \in PAcc
    BY DEF PStart, PAcc
  <1> HIDE DEF n, F
  <1>4. PICK q \in [0 .. n -> PAcc] : Runs(F, PStart, n, q)
    BY <1>1, <1>2, <1>3, RunExists
  <1>5. q = [k \in 0 .. n |-> IF k = 0 THEN PStart ELSE F[k][q[k-1]]]
    BY <1>4 DEF Runs
  <1>6. \A k \in 0 .. n : k # 0 => F[k][q[k-1]] = Packed(q[k-1], s[k])
    <2>1. \A k \in 0 .. n : k # 0 => k \in 1 .. n /\ k - 1 \in 0 .. n
      BY <1>1
    <2>2. \A k \in 0 .. n : q[k] \in PAcc
      OBVIOUS
    <2>. QED
      BY <1>2, <2>1, <2>2
  <1>7. q = [k \in 0 .. n |-> IF k = 0 THEN PStart ELSE Packed(q[k-1], s[k])]
    BY <1>5, <1>6
  <1>. QED
    BY <1>7 DEF PWalk, PStart, WORD_SIZE, n

\* Ints and longs are packed as the compiler places them.
LEMMA PackedEnd ==
  ASSUME NEW s, s \in Seq(Letters), \A k \in 1 .. Len(s) : s[k] \in {"i", "l"},
         NEW q, PWalk(s, q)
  PROVE  /\ q[Len(s)] \in PAcc
         /\ q[Len(s)].bytes = CLayout(s).end
         /\ (q[Len(s)].bytes + q[Len(s)].room) % 8 = 0
  <1> DEFINE n == Len(s)
  <1>1. PICK g : CWalk(s, g) /\ CLayout(s) = g[n]
    BY CLayoutWalks
  <1>2. /\ n \in Nat
        /\ g[0] = CStart
        /\ \A k \in 1 .. n : s[k] \in Letters /\ g[k] = CStep(g[k-1], s[k])
        /\ \A k \in 0 .. n : g[k] \in CAcc
    BY <1>1, CWalkFacts
  <1>4. \A k \in 0 .. n : q[k] = IF k = 0 THEN PStart ELSE Packed(q[k-1], s[k])
    BY DEF PWalk, PStart, WORD_SIZE
  <1>5. \A k \in 1 .. n : s[k] \in {"i", "l"}
    OBVIOUS
  <1> HIDE DEF n
  <1>6. q[0] = PStart
    BY <1>2, <1>4
  <1>7. \A k \in 1 .. n : q[k] = Packed(q[k-1], s[k])
    BY <1>2, <1>4
  <1> DEFINE Good == {k \in 0 .. n : /\ q[k] \in PAcc
                                     /\ q[k].bytes = g[k].end
                                     /\ (q[k].bytes + q[k].room) % 8 = 0}
  <1>8. 0 \in Good
    <2>1. q[0].bytes = 0 /\ q[0].room = 8 /\ g[0].end = 0 /\ q[0] \in PAcc
      BY <1>2, <1>6 DEF PStart, CStart, PAcc
    <2>2. (0 + 8) % 8 = 0 /\ 0 \in 0 .. n
      BY <1>2
    <2>. QED
      BY <2>1, <2>2
  <1>9. ASSUME NEW k \in 0 .. (n - 1), k \in Good
        PROVE  k + 1 \in Good
    <2> DEFINE w == format_string_letter_to_size(s[k+1])
    <2>1. k + 1 \in 1 .. n /\ k + 1 \in 0 .. n /\ k \in 0 .. n /\ (k + 1) - 1 = k
      BY <1>2
    <2>2. /\ s[k+1] \in Letters /\ s[k+1] \in {"i", "l"}
          /\ g[k+1] = CStep(g[k], s[k+1]) /\ q[k+1] = Packed(q[k], s[k+1])
          /\ g[k] \in CAcc
      BY <1>2, <1>5, <1>7, <2>1
    <2>3. q[k] \in PAcc /\ q[k].bytes = g[k].end /\ (q[k].bytes + q[k].room) % 8 = 0
      BY <1>9
    <2>4. g[k+1].end = RoundUp(g[k].end, w) + w
      BY <2>2, CStepType
    <2>5. q[k+1] \in PAcc /\ (q[k+1].bytes + q[k+1].room) % 8 = 0
      BY <2>2, <2>3, PackedStep
    <2>6. q[k+1].bytes = RoundUp(q[k].bytes, w) + w
      BY <2>2, <2>3, PackedStep
    <2>7. q[k+1].bytes = g[k+1].end
      BY <2>3, <2>4, <2>6
    <2>. QED
      BY <2>1, <2>5, <2>7
  <1>10. n \in Good
    <2>1. n \in 0 .. n
      BY <1>2
    <2> HIDE DEF Good
    <2>. QED
      BY <1>2, <1>8, <1>9, <2>1, ReachesAll
  <1>. QED
    BY <1>1, <1>10 DEF n

\* What is allocated for raw data takes it, and fits the size of a header.
LEMMA RawRoom ==
  ASSUME NEW s, s \in Seq(Letters), Len(s) < 2040,
         \A k \in 1 .. Len(s) : s[k] # "*",
         IsArray(s) \/ \A k \in 1 .. Len(s) : s[k] # "c"
  PROVE  /\ expanded_format_string_required_space_for_data_alloc(s) \in Nat
         /\ expanded_format_string_required_space_for_data_alloc(s) < Pow[20]
         /\ expanded_format_string_required_space_for_data_alloc(s) >= CSize(s)
  <1> DEFINE n == Len(s)
             r == expanded_format_string_required_space_for_data_alloc(s)
             e == CLayout(s).end
  <1>1. e <= 8 * n /\ e \in Nat /\ n \in Nat /\ n < 2040
    BY WordPerField
  <1>2. SUFFICES r \in Nat /\ r % 8 = 0 /\ e <= r /\ r < e + 8
    <2>1. CSize(s) <= r
      BY <1>2, CSizeFits
    <2>2. CSize(s) \in Nat
      BY <1>2, CSizeFits
    <2>3. r < Pow[20]
      <3>1. Pow[20] \in Nat /\ Pow[20] > 16400
        BY PowTwenty
      <3> HIDE DEF r, n, e
      <3>. QED
        BY <1>1, <1>2, <3>1
    <2>. QED
      BY <1>2, <2>1, <2>2, <2>3
  <1>3. CASE IsArray(s)
    <2> DEFINE w == format_string_letter_to_size(s[1])
    <2>1. DOMAIN s = 1 .. n /\ n > 1
      BY <1>3, LenProperties DEF IsArray
    <2>2. s[1] \in Letters /\ \A k \in 1 .. n : s[k] = s[1]
      BY <1>1, <1>3, <2>1, ElementOfSeq DEF IsArray
    <2>3. e = n * w
      BY <2>2, ArrayEnd
    <2>4. r = RoundUp(n * w, 8)
      BY <1>3 DEF expanded_format_string_required_space_for_data_alloc, WORD_SIZE
    <2> HIDE DEF e, n, r, w
    <2>. QED
      BY <1>1, <2>3, <2>4, Rounded
  <1>4. CASE ~IsArray(s)
    <2>1. \A k \in 1 .. n : s[k] \in {"i", "l"}
      BY <1>4, ElementOfSeq, LetterSizes
    <2> DEFINE q == CHOOSE f : PWalk(s, f)
               x == q[n].bytes
               y == q[n].room
    <2>2. /\ PWalk(s, q)
          /\ q[n] \in PAcc /\ x = e /\ (x + y) % 8 = 0
      <3>1. PWalk(s, q)
        BY <2>1, PWalkExists
      <3> HIDE DEF q
      <3>. QED
        BY <2>1, <3>1, PackedEnd
    <2>3. r = IF y # 8 THEN x + y ELSE x
      BY <1>4 DEF expanded_format_string_required_space_for_data_alloc, PWalk, WORD_SIZE
    <2>4. y \in {0, 4, 8}
      <3> HIDE DEF q
      <3>. QED
        BY <2>2 DEF PAcc
    <2> HIDE DEF e, n, r, x, y
    <2>5. CASE y # 8
      BY <1>1, <2>2, <2>3, <2>4, <2>5
    <2>6. CASE y = 8
      <3>1. x % 8 = 0
        BY <1>1, <2>2, <2>6
      <3>. QED
        BY <1>1, <2>2, <2>3, <2>6, <3>1
    <2>. QED
      BY <2>5, <2>6
  <1>. QED
    BY <1>3, <1>4

\* An object is as large as its struct, so that the client's stores stay inside.
THEOREM LayoutSizeCovers == Spec => []SizeCovers
  <1>1. LayoutInv => SizeCovers
    <2> SUFFICES ASSUME LayoutInv, status = "allocated",
                        identify_header(header) # "raw" \/ IsArray(expanded) \/ "c" \notin Range(expanded)
                 PROVE  size >= CSize(expanded)
      BY DEF SizeCovers
    <2>1. PICK fs : AllocatedFrom(fs)
      BY DEF LayoutInv
    <2>2. size = SizeOf(expanded, header)
      BY <2>1 DEF AllocatedFrom
    <2>3. expanded \in Seq(Letters) /\ DOMAIN expanded = 1 .. Len(expanded)
          /\ Len(expanded) \in Nat /\ Len(expanded) < 2040
      BY <2>1, AllocatedKinds
    <2> DEFINE n == Len(expanded)
    <2>4. CSize(expanded) <= 8 * n /\ CSize(expanded) \in Nat
      <3>1. CLayout(expanded).end <= 8 * n /\ n \in Nat
        BY <2>3, WordPerField
      <3> DEFINE top == 8 * n
      <3>2. top \in Nat /\ top % 8 = 0 /\ CLayout(expanded).end <= top
        BY <3>1
      <3> HIDE DEF top
      <3>3. CSize(expanded) <= top /\ CSize(expanded) \in Nat
        BY <2>3, <3>2, CSizeFits
      <3>. QED
        BY <3>3 DEF top
    <2>5. CASE identify_header(header) = "format"
      <3>1. size = n * 8
        BY <2>2, <2>5 DEF SizeOf, size_of_struct_allocation, WORD_SIZE
      <3> HIDE DEF n
      <3>. QED
        BY <2>3, <2>4, <3>1 DEF n
    <2>6. CASE identify_header(header) = "struct"
      <3> DEFINE r == required_amount_of_bits(expanded)
      <3>1. header = LayoutHeader(expanded) /\ FitsBitvector(r)
        BY <2>1, <2>6, AllocatedKinds
      <3>2. size = r * 8
        BY <2>2, <2>3, <2>6, <3>1, LayoutHeaderRead DEF SizeOf, size_of_struct_allocation, WORD_SIZE
      <3>3. r >= n /\ r \in Nat /\ n \in Nat
        <4> DEFINE S == {k \in DOMAIN expanded : expanded[k] = "l"}
        <4>1. IsFiniteSet(S)
          <5>1. IsFiniteSet(1 .. n)
            BY <2>3, FS_Interval
          <5>. QED
            BY <2>3, <5>1, FS_Subset
        <4>2. Cardinality(S) \in Nat
          BY <4>1, FS_CardinalityType
        <4>3. r = n + Cardinality(S)
          BY DEF required_amount_of_bits
        <4> HIDE DEF r, S, n
        <4>. QED
          BY <2>3, <4>2, <4>3 DEF n
      <3> HIDE DEF r, n
      <3>. QED
        BY <2>4, <3>2, <3>3
    <2>7. CASE identify_header(header) = "raw"
      <3> DEFINE r == expanded_format_string_required_space_for_data_alloc(expanded)
      <3>1. header = header_creation_raw(r) /\ \A k \in 1 .. n : expanded[k] # "*"
        BY <2>1, <2>7, AllocatedKinds
      <3>2. IsArray(expanded) \/ \A k \in 1 .. n : expanded[k] # "c"
        BY <2>3, <2>7 DEF Range
      <3>3. r \in Nat /\ r < Pow[20] /\ r >= CSize(expanded)
        BY <2>3, <3>1, <3>2, RawRoom
      <3>4. size = size_of_raw_allocation(header)
        BY <2>2, <2>7 DEF SizeOf
      <3> HIDE DEF r
      <3>5. size = r
        BY <3>1, <3>3, <3>4, HeaderKinds
      <3>. QED
        BY <3>3, <3>5
    <2>. QED
      BY <2>1, <2>5, <2>6, <2>7, AllocatedKinds
  <1>. QED
    BY <1>1, LayoutInductive, PTL

-----------------------------------------------------------------------------
(* Reading a format string.                                                *)

FAcc == [offset : Nat, room : 0 .. 8, ptrs : Seq(Nat)]
FStart == [offset |-> 0, room |-> 8, ptrs |-> <<>>]

\* f[k] is what interpret_format_string has after k letters.
FWalk(s, f) == f = [k \in 0 .. Len(s) |-> IF k = 0 THEN [offset |-> 0, room |-> WORD_SIZE, ptrs |-> <<>>]
                                          ELSE FormatStep(f[k-1], s[k])]

LEMMA FormatStepType ==
  ASSUME NEW a \in FAcc, NEW c \in Letters
  PROVE  /\ FormatStep(a, c) \in FAcc
         /\ c = "*" => FormatStep(a, c) =
              [offset |-> a.offset + 8, room |-> 8, ptrs |-> Append(a.ptrs, a.offset)]
         /\ c # "*" => FormatStep(a, c).ptrs = a.ptrs
         /\ c # "*" /\ format_string_letter_to_size(c) <= a.room =>
              /\ FormatStep(a, c).offset = a.offset + format_string_letter_to_size(c)
              /\ FormatStep(a, c).room = a.room - format_string_letter_to_size(c)
  <1> DEFINE n == format_string_letter_to_size(c)
             b == FormatStep(a, c)
  <1>1. a.offset \in Nat /\ a.room \in 0 .. 8 /\ a.ptrs \in Seq(Nat)
        /\ a = [offset |-> a.offset, room |-> a.room, ptrs |-> a.ptrs]
    BY DEF FAcc
  <1>2. n \in {1, 4, 8}
    BY LetterSizes
  <1>3. c = "*" => b = [offset |-> a.offset + 8, room |-> 8, ptrs |-> Append(a.ptrs, a.offset)]
    BY DEF FormatStep, WORD_SIZE
  <1>4. c # "*" /\ n > a.room => b = [a EXCEPT !.offset = a.offset + a.room, !.room = 8]
    BY DEF FormatStep, WORD_SIZE
  <1>5. c # "*" /\ ~(n > a.room) => b = [a EXCEPT !.offset = a.offset + n, !.room = a.room - n]
    BY DEF FormatStep
  <1> HIDE DEF n, b
  <1>6. c # "*" /\ n > a.room => b = [offset |-> a.offset + a.room, room |-> 8, ptrs |-> a.ptrs]
    BY <1>1, <1>4
  <1>7. c # "*" /\ ~(n > a.room) => b = [offset |-> a.offset + n, room |-> a.room - n, ptrs |-> a.ptrs]
    BY <1>1, <1>5
  <1>8. b \in FAcc
    <2>1. CASE c = "*"
      <3>1. Append(a.ptrs, a.offset) \in Seq(Nat) /\ a.offset + 8 \in Nat /\ 8 \in 0 .. 8
        BY <1>1, AppendProperties
      <3>. QED
        BY <1>3, <2>1, <3>1 DEF FAcc
    <2>2. CASE c # "*" /\ n > a.room
      <3>1. a.offset + a.room \in Nat /\ 8 \in 0 .. 8
        BY <1>1
      <3>. QED
        BY <1>1, <1>6, <2>2, <3>1 DEF FAcc
    <2>3. CASE c # "*" /\ ~(n > a.room)
      <3>1. a.offset + n \in Nat /\ a.room - n \in 0 .. 8
        BY <1>1, <1>2, <2>3
      <3>. QED
        BY <1>1, <1>7, <2>3, <3>1 DEF FAcc
    <2>. QED
      BY <2>1, <2>2, <2>3
  <1>9. c # "*" => b.ptrs = a.ptrs
    BY <1>2, <1>1, <1>6, <1>7
  <1>10. c # "*" /\ n <= a.room => b.offset = a.offset + n /\ b.room = a.room - n
    BY <1>1, <1>2, <1>7
  <1>. QED
    BY <1>3, <1>8, <1>9, <1>10 DEF n, b

LEMMA FWalkExists ==
  ASSUME NEW s, s \in Seq(Letters)
  PROVE  \E f : FWalk(s, f)
  <1> DEFINE n == Len(s)
             F == [k \in 1 .. n |-> [a \in FAcc |-> FormatStep(a, s[k])]]
  <1>1. n \in Nat /\ \A k \in 1 .. n : s[k] \in Letters
    BY LenProperties, ElementOfSeq
  <1>2. \A k \in 1 .. n : \A a \in FAcc : F[k][a] = FormatStep(a, s[k]) /\ F[k][a] \in FAcc
    BY <1>1, FormatStepType
  <1>3. FStart \in FAcc
    <2>1. <<>> \in Seq(Nat)
      BY EmptySeq
    <2>. QED
      BY <2>1 DEF FStart, FAcc
  <1> HIDE DEF n, F
  <1>4. PICK f \in [0 .. n -> FAcc] : Runs(F, FStart, n, f)
    BY <1>1, <1>2, <1>3, RunExists
  <1>5. f = [k \in 0 .. n |-> IF k = 0 THEN FStart ELSE F[k][f[k-1]]]
    BY <1>4 DEF Runs
  <1>6. \A k \in 0 .. n : k # 0 => F[k][f[k-1]] = FormatStep(f[k-1], s[k])
    <2>1. \A k \in 0 .. n : k # 0 => k \in 1 .. n /\ k - 1 \in 0 .. n
      BY <1>1
    <2>2. \A k \in 0 .. n : f[k] \in FAcc
      OBVIOUS
    <2>. QED
      BY <1>2, <2>1, <2>2
  <1>7. f = [k \in 0 .. n |-> IF k = 0 THEN FStart ELSE FormatStep(f[k-1], s[k])]
    BY <1>5, <1>6
  <1>. QED
    BY <1>7 DEF FWalk, FStart, WORD_SIZE, n

LEMMA FWalkFacts ==
  ASSUME NEW s, s \in Seq(Letters)
  PROVE  \E f : /\ f[0] = FStart
                /\ \A k \in 1 .. Len(s) : f[k] = FormatStep(f[k-1], s[k])
                /\ \A k \in 0 .. Len(s) : f[k] \in FAcc
                /\ interpret_format_string(s) = f[Len(s)].ptrs
  <1> DEFINE f == CHOOSE h : FWalk(s, h)
             n == Len(s)
  <1>1. FWalk(s, f)
    BY FWalkExists
  <1>2. interpret_format_string(s) = f[n].ptrs
    BY DEF interpret_format_string, FWalk
  <1>3. n \in Nat /\ \A k \in 1 .. n : s[k] \in Letters
    BY LenProperties, ElementOfSeq
  <1> HIDE DEF f
  <1>4. \A k \in 0 .. n : f[k] = IF k = 0 THEN FStart ELSE FormatStep(f[k-1], s[k])
    BY <1>1 DEF FWalk, FStart, WORD_SIZE
  <1> HIDE DEF n
  <1>5. f[0] = FStart
    BY <1>3, <1>4
  <1>6. \A k \in 1 .. n : f[k] = FormatStep(f[k-1], s[k])
    BY <1>3, <1>4
  <1> DEFINE Good == {k \in 0 .. n : f[k] \in FAcc}
  <1>7. 0 \in Good
    <2>1. <<>> \in Seq(Nat)
      BY EmptySeq
    <2>2. FStart \in FAcc
      BY <2>1 DEF FStart, FAcc
    <2>. QED
      BY <1>3, <1>5, <2>2
  <1>8. ASSUME NEW k \in 0 .. (n - 1), k \in Good
        PROVE  k + 1 \in Good
    <2>1. k + 1 \in 1 .. n /\ k + 1 \in 0 .. n /\ (k + 1) - 1 = k
      BY <1>3
    <2>2. f[k+1] = FormatStep(f[k], s[k+1]) /\ s[k+1] \in Letters /\ f[k] \in FAcc
      BY <1>3, <1>6, <1>8, <2>1
    <2>. QED
      BY <2>1, <2>2, FormatStepType
  <1>9. \A k \in 0 .. n : k \in Good
    <2> HIDE DEF Good
    <2>. QED
      BY <1>3, <1>7, <1>8, ReachesAll
  <1>. QED
    BY <1>2, <1>5, <1>6, <1>9 DEF n

-----------------------------------------------------------------------------
(* The bytes of fields.                                                    *)

LEMMA FieldBytesNext ==
  ASSUME NEW s, s \in Seq(Letters)
  PROVE  /\ \A i \in 1 .. (Len(s) + 1) : FieldBytes(s, i, i - 1) = 0
         /\ \A i \in 1 .. (Len(s) + 1) : \A j \in (i - 1) .. Len(s) : FieldBytes(s, i, j) \in Nat
         /\ \A j \in 1 .. Len(s) : \A i \in 1 .. j :
              FieldBytes(s, i, j) = FieldBytes(s, i, j - 1) + format_string_letter_to_size(s[j])
         /\ \A j \in 0 .. Len(s) : \A k \in j .. Len(s) : \A i \in 1 .. (j + 1) :
              /\ FieldBytes(s, i, j) <= FieldBytes(s, i, k)
              /\ FieldBytes(s, i, k) = FieldBytes(s, i, j) + FieldBytes(s, j + 1, k)
  <1> DEFINE n == Len(s)
             F == [k \in 1 .. n |-> format_string_letter_to_size(s[k])]
             B(i, j) == SumFunctionOnSet(F, i .. j)
  <1>1. n \in Nat
    BY LenProperties
  <1>2. \A k \in 1 .. n : F[k] \in Nat /\ F[k] = format_string_letter_to_size(s[k])
    <2>1. \A k \in 1 .. n : s[k] \in Letters
      BY ElementOfSeq
    <2>2. \A k \in 1 .. n : format_string_letter_to_size(s[k]) \in {1, 4, 8}
      BY <2>1, LetterSizes
    <2>. QED
      BY <2>2
  <1> HIDE DEF F
  <1>3. ASSUME NEW i \in 1 .. (n + 1), NEW j \in (i - 1) .. n
        PROVE  FieldBytes(s, i, j) = B(i, j) /\ B(i, j) \in Nat /\ IsFiniteSet(i .. j)
    <2> DEFINE G == [k \in i .. j |-> format_string_letter_to_size(s[k])]
    <2>1. FieldBytes(s, i, j) = SumFunctionOnSet(G, i .. j)
      BY DEF FieldBytes, SumFunction
    <2>2. \A k \in i .. j : k \in 1 .. n
      BY <1>1
    <2>3. IsFiniteSet(i .. j)
      BY <1>1, FS_Interval
    <2>4. \A k \in i .. j : G[k] \in Int /\ G[k] = F[k]
      BY <1>2, <2>2
    <2> HIDE DEF G
    <2>5. SumFunctionOnSet(G, i .. j) = B(i, j)
      BY <2>3, <2>4, SumSame
    <2>6. B(i, j) \in Nat
      BY <1>2, <2>2, <2>3, SumNat
    <2>. QED
      BY <2>1, <2>3, <2>5, <2>6
  <1> HIDE DEF B
  <1>4. ASSUME NEW i \in 1 .. (n + 1)
        PROVE  FieldBytes(s, i, i - 1) = 0
    <2>1. i - 1 \in (i - 1) .. n /\ i .. (i - 1) = {}
      BY <1>1
    <2>2. B(i, i - 1) = 0
      BY <2>1, SumEmpty DEF B
    <2>. QED
      BY <1>3, <2>1, <2>2
  <1>5. ASSUME NEW j \in 1 .. n, NEW i \in 1 .. j
        PROVE  FieldBytes(s, i, j) = FieldBytes(s, i, j - 1) + format_string_letter_to_size(s[j])
    <2>1. i \in 1 .. (n + 1) /\ j - 1 \in (i - 1) .. n /\ j \in (i - 1) .. n
      BY <1>1
    <2>2. i .. j = (i .. (j - 1)) \cup {j} /\ j \notin i .. (j - 1)
      BY <1>1
    <2>3. IsFiniteSet(i .. (j - 1)) /\ B(i, j - 1) \in Nat
      BY <1>3, <2>1
    <2>4. \A k \in (i .. (j - 1)) \cup {j} : F[k] \in Int
      <3>1. \A k \in (i .. (j - 1)) \cup {j} : k \in 1 .. n
        BY <1>1
      <3>. QED
        BY <1>2, <3>1
    <2>5. SumFunctionOnSet(F, (i .. (j - 1)) \cup {j}) = F[j] + SumFunctionOnSet(F, i .. (j - 1))
      BY <2>2, <2>3, <2>4, SumAdd
    <2>6. B(i, j) = F[j] + B(i, j - 1)
      BY <2>2, <2>5 DEF B
    <2>7. F[j] \in Nat
      BY <1>2
    <2>8. FieldBytes(s, i, j) = B(i, j) /\ FieldBytes(s, i, j - 1) = B(i, j - 1)
      BY <1>3, <2>1
    <2>. QED
      BY <1>2, <2>3, <2>6, <2>7, <2>8
  <1>6. ASSUME NEW j \in 0 .. n, NEW k \in j .. n, NEW i \in 1 .. (j + 1)
        PROVE  /\ FieldBytes(s, i, j) <= FieldBytes(s, i, k)
               /\ FieldBytes(s, i, k) = FieldBytes(s, i, j) + FieldBytes(s, j + 1, k)
    <2>1. /\ i \in 1 .. (n + 1) /\ j \in (i - 1) .. n /\ k \in (i - 1) .. n
          /\ j + 1 \in 1 .. (n + 1) /\ k \in ((j + 1) - 1) .. n
      BY <1>1
    <2>2. i .. k = (i .. j) \cup ((j + 1) .. k) /\ (i .. j) \cap ((j + 1) .. k) = {}
      BY <1>1
    <2>3. \A x \in (i .. j) \cup ((j + 1) .. k) : F[x] \in Int
      <3>1. \A x \in (i .. j) \cup ((j + 1) .. k) : x \in 1 .. n
        BY <1>1
      <3>. QED
        BY <1>2, <3>1
    <2>4. /\ FieldBytes(s, i, j) = B(i, j) /\ B(i, j) \in Nat /\ IsFiniteSet(i .. j)
          /\ FieldBytes(s, i, k) = B(i, k) /\ B(i, k) \in Nat
      BY <1>3, <2>1
    <2>5. /\ FieldBytes(s, j + 1, k) = B(j + 1, k) /\ B(j + 1, k) \in Nat
          /\ IsFiniteSet((j + 1) .. k)
      BY <1>3, <2>1
    <2>6. SumFunctionOnSet(F, (i .. j) \cup ((j + 1) .. k))
            = SumFunctionOnSet(F, i .. j) + SumFunctionOnSet(F, (j + 1) .. k)
      BY <2>2, <2>3, <2>4, <2>5, SumUnion
    <2>7. B(i, k) = B(i, j) + B(j + 1, k)
      BY <2>2, <2>6 DEF B
    <2>. QED
      BY <2>4, <2>5, <2>7
  <1>7. \A i \in 1 .. (n + 1) : \A j \in (i - 1) .. n : FieldBytes(s, i, j) \in Nat
    BY <1>3
  <1>. QED
    BY <1>4, <1>5, <1>6, <1>7

-----------------------------------------------------------------------------
(* The pointers that a format string tells of.                             *)

\* The last pointer of s before field k is field m, or m is 0 and there is none.
LastPointer(s, m, k) ==
  /\ m \in 0 .. (k - 1)
  /\ m # 0 => s[m] = "*"
  /\ \A j \in (m + 1) .. (k - 1) : s[j] # "*"

\* Between them there is nothing, or a word.
LEMMA BetweenPointers ==
  ASSUME NEW s, s \in Seq(Letters), WordsBetweenPointers(s),
         NEW k, k \in 1 .. Len(s), s[k] = "*", NEW m, LastPointer(s, m, k)
  PROVE  /\ FieldBytes(s, m + 1, k - 1) \in {0, 8}
         /\ CLayout(SubSeq(s, 1, k - 1)).end = FieldBytes(s, 1, k - 1)
  <1> DEFINE P == {j \in DOMAIN s : s[j] = "*"}
             before == {0} \cup {j \in P : j < k}
  <1>1. Len(s) \in Nat /\ DOMAIN s = 1 .. Len(s)
    BY LenProperties
  <1>2. k \in P
    BY <1>1
  <1>3. m \in before /\ \A j \in before : j \in Nat /\ m >= j
    <2>1. m \in 0 .. (k - 1) /\ m \in Int
      BY <1>1 DEF LastPointer
    <2>2. m \in before
      BY <1>1, <2>1 DEF LastPointer
    <2>3. ASSUME NEW j \in before
          PROVE  j \in Nat /\ m >= j
      <3>1. CASE j = 0
        BY <2>1, <3>1
      <3>2. CASE j # 0
        <4>1. j \in 1 .. (k - 1) /\ s[j] = "*"
          BY <1>1, <3>2
        <4>2. j \notin (m + 1) .. (k - 1)
          BY <4>1 DEF LastPointer
        <4>. QED
          BY <1>1, <2>1, <4>1, <4>2
      <3>. QED
        BY <3>1, <3>2
    <2>. QED
      BY <2>2, <2>3
  <1>4. Max(before) = m
    <2> DEFINE x == Max(before)
    <2> HIDE DEF before
    <2>1. x \in before /\ \A j \in before : x >= j
      BY <1>3 DEF Max
    <2>2. x \in Nat /\ m \in Nat /\ x >= m /\ m >= x
      BY <1>3, <2>1
    <2> HIDE DEF x
    <2>3. x = m
      BY <2>2
    <2>. QED
      BY <2>3 DEF x
  <1>5. /\ FieldBytes(s, Max(before) + 1, k - 1) \in {0, WORD_SIZE}
        /\ CLayout(SubSeq(s, 1, k - 1)).end = FieldBytes(s, 1, k - 1)
    BY <1>2 DEF WordsBetweenPointers
  <1>. QED
    BY <1>4, <1>5 DEF WORD_SIZE

\* After a field there is a first pointer, if there is one at all.
LEMMA NextPointer ==
  ASSUME NEW s, NEW n, n \in Nat, NEW k, k \in 0 .. n, \E j \in (k + 1) .. n : s[j] = "*"
  PROVE  \E p \in (k + 1) .. n : s[p] = "*" /\ \A j \in (k + 1) .. (p - 1) : s[j] # "*"
  <1> DEFINE B == {j \in (k + 1) .. n : s[j] = "*"}
  <1>1. B \subseteq Nat /\ B # {}
    OBVIOUS
  <1> HIDE DEF B
  <1>2. PICK p \in B : \A j \in B : p <= j
    BY <1>1, LeastNumber
  <1>3. p \in (k + 1) .. n /\ s[p] = "*"
    BY <1>2 DEF B
  <1>4. ASSUME NEW j \in (k + 1) .. (p - 1), s[j] = "*"
        PROVE  FALSE
    <2>1. j \in (k + 1) .. n /\ ~(p <= j)
      BY <1>3
    <2>2. j \in B
      BY <1>4, <2>1 DEF B
    <2>. QED
      BY <1>2, <2>1, <2>2
  <1>. QED
    BY <1>3, <1>4

LEMMA FormatFound ==
  ASSUME NEW s, s \in Seq(Letters), WordsBetweenPointers(s)
  PROVE  interpret_format_string(s) = CLayout(s).ptrs
  <1> DEFINE n == Len(s)
             B(i, j) == FieldBytes(s, i, j)
             w(k) == format_string_letter_to_size(s[k])
  <1>1. n \in Nat
    BY LenProperties
  <1>2. PICK g : CWalk(s, g) /\ CLayout(s) = g[n]
    BY CLayoutWalks
  <1>3. /\ g[0] = CStart
        /\ \A k \in 1 .. n : s[k] \in Letters /\ g[k] = CStep(g[k-1], s[k])
        /\ \A k \in 0 .. n : g[k] \in CAcc
    BY <1>2, CWalkFacts
  <1>4. PICK f : /\ f[0] = FStart
                 /\ \A k \in 1 .. n : f[k] = FormatStep(f[k-1], s[k])
                 /\ \A k \in 0 .. n : f[k] \in FAcc
                 /\ interpret_format_string(s) = f[n].ptrs
    BY FWalkFacts
  <1>5. ASSUME NEW k \in 1 .. n, s[k] = "*", NEW m, LastPointer(s, m, k)
        PROVE  /\ B(m + 1, k - 1) \in {0, 8}
               /\ g[k-1].end = B(1, k - 1)
    <2>1. B(m + 1, k - 1) \in {0, 8} /\ CLayout(SubSeq(s, 1, k - 1)).end = B(1, k - 1)
      BY <1>5, BetweenPointers
    <2>2. k - 1 \in 0 .. n
      BY <1>1
    <2>3. CLayout(SubSeq(s, 1, k - 1)) = g[k-1]
      BY <1>2, <2>2, CPrefix
    <2>. QED
      BY <2>1, <2>3
  <1>6. /\ \A i \in 1 .. (n + 1) : B(i, i - 1) = 0
        /\ \A i \in 1 .. (n + 1) : \A j \in (i - 1) .. n : B(i, j) \in Nat
        /\ \A j \in 1 .. n : \A i \in 1 .. j : B(i, j) = B(i, j - 1) + w(j)
        /\ \A j \in 0 .. n : \A k \in j .. n : \A i \in 1 .. (j + 1) :
             B(i, j) <= B(i, k) /\ B(i, k) = B(i, j) + B(j + 1, k)
    BY FieldBytesNext
  <1>7. \A k \in 1 .. n : w(k) \in {1, 4, 8} /\ (s[k] = "*" => w(k) = 8)
    BY <1>3, LetterSizes
  <1> DEFINE
        \* After k fields: the last pointer was field m, and its word was full.
        At(k, m) == /\ LastPointer(s, m, k + 1)
                    /\ B(1, m) % 8 = 0
                    /\ f[k].offset = B(1, k)
                    /\ f[k].room = 8 - B(m + 1, k)
        More(k) == \E j \in (k + 1) .. n : s[j] = "*"
        Same(k) == f[k].ptrs = g[k].ptrs /\ (More(k) => \E m : At(k, m))
        Good == {k \in 0 .. n : Same(k)}
  <1>8. 0 \in Good
    <2>1. f[0].ptrs = g[0].ptrs
      BY <1>3, <1>4 DEF CStart, FStart
    <2>2. At(0, 0)
      <3>1. LastPointer(s, 0, 0 + 1)
        BY DEF LastPointer
      <3>2. 1 \in 1 .. (n + 1) /\ 1 - 1 = 0 /\ 0 + 1 = 1
        BY <1>1
      <3>3. B(1, 0) = 0
        BY <1>6, <3>2
      <3>4. f[0].offset = 0 /\ f[0].room = 8
        BY <1>4 DEF FStart
      <3> HIDE DEF B
      <3>5. B(0 + 1, 0) = 0
        BY <3>2, <3>3
      <3>. QED
        BY <3>1, <3>3, <3>4, <3>5
    <2>3. 0 \in 0 .. n
      BY <1>1
    <2> HIDE DEF At
    <2>. QED
      BY <2>1, <2>2, <2>3
  <1>9. ASSUME NEW k \in 0 .. (n - 1), k \in Good
        PROVE  k + 1 \in Good
    <2>1. k + 1 \in 1 .. n /\ k + 1 \in 0 .. n /\ k \in 0 .. n /\ (k + 1) - 1 = k /\ k \in Nat
      BY <1>1
    <2>2. /\ s[k+1] \in Letters /\ g[k+1] = CStep(g[k], s[k+1]) /\ g[k] \in CAcc
          /\ f[k+1] = FormatStep(f[k], s[k+1]) /\ f[k] \in FAcc
      BY <1>3, <1>4, <2>1
    <2>3. f[k].ptrs = g[k].ptrs /\ (More(k) => \E m : At(k, m))
      BY <1>9
    <2>4. g[k].end \in Nat /\ f[k].offset \in Nat /\ f[k].room \in 0 .. 8
      BY <2>2 DEF CAcc, FAcc
    <2>5. More(k + 1) => More(k)
      <3>1. \A j \in ((k + 1) + 1) .. n : j \in (k + 1) .. n
        BY <1>1
      <3>. QED
        BY <3>1
    <2>6. CASE s[k+1] = "*"
      <3>1. More(k)
        <4>1. k + 1 \in (k + 1) .. n
          BY <2>1
        <4>. QED
          BY <2>6, <4>1
      <3>2. PICK m : At(k, m)
        BY <2>3, <3>1
      <3>3. LastPointer(s, m, k + 1) /\ B(1, m) % 8 = 0 /\ f[k].offset = B(1, k)
        BY <3>2
      <3>4. m \in 0 .. k
        BY <2>1, <3>3 DEF LastPointer
      <3>5. B(m + 1, k) \in {0, 8} /\ g[k].end = B(1, k)
        BY <1>5, <2>1, <2>6, <3>3
      <3>6. B(1, k) = B(1, m) + B(m + 1, k) /\ B(1, m) \in Nat
        <4>1. m \in 0 .. n /\ k \in m .. n /\ 1 \in 1 .. (m + 1) /\ 1 \in 1 .. (n + 1) /\ m \in (1 - 1) .. n
          BY <1>1, <2>1, <3>4
        <4>. QED
          BY <1>6, <4>1
      <3> DEFINE x == B(1, k)
      <3>7. x % 8 = 0 /\ x \in Nat
        <4> DEFINE a == B(1, m)
                   b == B(m + 1, k)
        <4>1. x = a + b /\ a \in Nat /\ a % 8 = 0 /\ b \in {0, 8}
          BY <3>3, <3>5, <3>6
        <4> HIDE DEF x, a, b
        <4>. QED
          BY <4>1
      <3>8. f[k+1] = [offset |-> x + 8, room |-> 8, ptrs |-> Append(f[k].ptrs, x)]
        BY <2>2, <2>6, <3>3, FormatStepType
      <3>9. g[k+1].ptrs = Append(g[k].ptrs, RoundUp(g[k].end, 8))
        <4>1. CStep(g[k], s[k+1]).ptrs = Append(g[k].ptrs, RoundUp(g[k].end, 8))
          BY <2>2, <2>6, CStepType
        <4>. QED
          BY <2>2, <4>1
      <3>10. RoundUp(g[k].end, 8) = x
        <4>1. g[k].end = x
          BY <3>5
        <4> HIDE DEF x
        <4>. QED
          BY <3>7, <4>1, Rounded
      <3>11. f[k+1].ptrs = g[k+1].ptrs
        BY <2>3, <3>8, <3>9, <3>10
      <3>12. At(k + 1, k + 1)
        <4>1. LastPointer(s, k + 1, (k + 1) + 1)
          <5>1. k + 1 \in 0 .. (((k + 1) + 1) - 1) /\ ((k + 1) + 1) .. (((k + 1) + 1) - 1) = {}
            BY <2>1
          <5>. QED
            BY <2>6, <5>1 DEF LastPointer
        <4>2. B(1, k + 1) = x + 8
          <5>1. 1 \in 1 .. (k + 1) /\ w(k + 1) = 8
            BY <1>7, <2>1, <2>6
          <5>2. B(1, k + 1) = B(1, (k + 1) - 1) + w(k + 1)
            BY <1>6, <2>1, <5>1
          <5>3. B(1, (k + 1) - 1) = x
            BY <2>1
          <5> HIDE DEF x, B, w
          <5>. QED
            BY <5>1, <5>2, <5>3
        <4>3. B((k + 1) + 1, k + 1) = 0
          <5>1. (k + 1) + 1 \in 1 .. (n + 1) /\ ((k + 1) + 1) - 1 = k + 1
            BY <1>1, <2>1
          <5>2. B((k + 1) + 1, ((k + 1) + 1) - 1) = 0
            BY <1>6, <5>1
          <5>. QED
            BY <5>1, <5>2
        <4>4. (x + 8) % 8 = 0 /\ 8 = 8 - 0
          <5> HIDE DEF x
          <5>. QED
            BY <3>7
        <4>5. f[k+1].offset = x + 8 /\ f[k+1].room = 8
          BY <3>8
        <4> HIDE DEF x, B
        <4>. QED
          BY <4>1, <4>2, <4>3, <4>4, <4>5
      <3> HIDE DEF At, More, B, x
      <3>. QED
        BY <2>1, <3>11, <3>12
    <2>7. CASE s[k+1] # "*"
      <3>1. f[k+1].ptrs = g[k+1].ptrs
        BY <2>2, <2>3, <2>7, FormatStepType, CStepType
      <3>2. ASSUME More(k + 1)
            PROVE  \E m : At(k + 1, m)
        <4>1. PICK m : At(k, m)
          BY <2>3, <2>5, <3>2
        <4>2. /\ LastPointer(s, m, k + 1) /\ B(1, m) % 8 = 0
              /\ f[k].offset = B(1, k) /\ f[k].room = 8 - B(m + 1, k)
          BY <4>1
        <4>3. m \in 0 .. k /\ (m # 0 => s[m] = "*") /\ \A j \in (m + 1) .. k : s[j] # "*"
          BY <2>1, <4>2 DEF LastPointer
        <4>4. LastPointer(s, m, (k + 1) + 1)
          <5>1. m \in 0 .. (((k + 1) + 1) - 1)
            BY <2>1, <4>3
          <5>2. \A j \in (m + 1) .. (((k + 1) + 1) - 1) : j \in (m + 1) .. k \/ j = k + 1
            BY <2>1, <4>3
          <5>. QED
            BY <2>7, <4>3, <5>1, <5>2 DEF LastPointer
        <4>5. PICK p \in ((k + 1) + 1) .. n : s[p] = "*" /\ \A j \in ((k + 1) + 1) .. (p - 1) : s[j] # "*"
          <5> DEFINE q == k + 1
          <5>1. q \in 0 .. n /\ \E j \in (q + 1) .. n : s[j] = "*"
            BY <2>1, <3>2
          <5> HIDE DEF q, n
          <5>2. \E r \in (q + 1) .. n : s[r] = "*" /\ \A j \in (q + 1) .. (r - 1) : s[j] # "*"
            BY <1>1, <5>1, NextPointer
          <5>. QED
            BY <5>2 DEF q
        <4>6. LastPointer(s, m, p)
          <5>1. m \in 0 .. (p - 1)
            BY <2>1, <4>3, <4>5
          <5>2. \A j \in (m + 1) .. (p - 1) : j \in (m + 1) .. k \/ j = k + 1 \/ j \in ((k + 1) + 1) .. (p - 1)
            BY <2>1, <4>3, <4>5
          <5>. QED
            BY <2>7, <4>3, <4>5, <5>1, <5>2 DEF LastPointer
        <4>7. p \in 1 .. n
          BY <1>1, <2>1, <4>5
        <4>8. B(m + 1, p - 1) \in {0, 8}
          BY <1>5, <4>5, <4>6, <4>7
        <4>9. B(m + 1, k + 1) <= B(m + 1, p - 1)
          <5>1. p - 1 \in (k + 1) .. n /\ m + 1 \in 1 .. ((k + 1) + 1)
            BY <1>1, <2>1, <4>3, <4>5
          <5>. QED
            BY <1>6, <2>1, <5>1
        <4> DEFINE a == B(m + 1, k)
                   v == w(k + 1)
                   x == B(1, k)
        <4>10. B(m + 1, k + 1) = a + v /\ a \in Nat
          <5>1. m + 1 \in 1 .. (k + 1) /\ m + 1 \in 1 .. (n + 1) /\ k \in ((m + 1) - 1) .. n
            BY <1>1, <2>1, <4>3
          <5>2. B(m + 1, k + 1) = B(m + 1, (k + 1) - 1) + w(k + 1)
            BY <1>6, <2>1, <5>1
          <5>. QED
            BY <1>6, <2>1, <5>1, <5>2
        <4>11. B(1, k + 1) = x + v /\ x \in Nat
          <5>1. 1 \in 1 .. (k + 1) /\ 1 \in 1 .. (n + 1) /\ k \in (1 - 1) .. n
            BY <1>1, <2>1
          <5>2. B(1, k + 1) = B(1, (k + 1) - 1) + w(k + 1)
            BY <1>6, <2>1, <5>1
          <5>. QED
            BY <1>6, <2>1, <5>1, <5>2
        <4>12. v \in {1, 4, 8}
          BY <1>7, <2>1
        <4>13. v <= f[k].room
          <5> DEFINE b == B(m + 1, p - 1)
                     c == B(m + 1, k + 1)
          <5>1. c <= b /\ b \in {0, 8} /\ c = a + v /\ f[k].room = 8 - a
            BY <4>2, <4>8, <4>9, <4>10
          <5>2. a \in Nat /\ v \in {1, 4, 8}
            BY <4>10, <4>12
          <5> HIDE DEF a, b, c, v
          <5>. QED
            BY <5>1, <5>2
        <4>14. f[k+1].offset = f[k].offset + v /\ f[k+1].room = f[k].room - v
          BY <2>2, <2>7, <4>13, FormatStepType
        <4>15. f[k+1].room = 8 - (a + v)
          <5>1. f[k+1].room = (8 - a) - v
            BY <4>2, <4>14
          <5>2. a \in Int /\ v \in Int
            BY <4>10, <4>12
          <5> HIDE DEF a, v
          <5>. QED
            BY <5>1, <5>2
        <4>16. f[k+1].offset = B(1, k + 1)
          BY <4>2, <4>11, <4>14
        <4>17. f[k+1].room = 8 - B(m + 1, k + 1)
          BY <4>10, <4>15
        <4>18. At(k + 1, m)
          BY <4>2, <4>4, <4>16, <4>17
        <4>. QED
          BY <4>18
      <3> HIDE DEF At, More
      <3>. QED
        BY <2>1, <3>1, <3>2
    <2>. QED
      BY <2>6, <2>7
  <1>10. n \in Good
    <2>1. n \in 0 .. n
      BY <1>1
    <2> HIDE DEF Good
    <2>. QED
      BY <1>1, <1>8, <1>9, <2>1, ReachesAll
  <1>11. f[n].ptrs = g[n].ptrs
    BY <1>10
  <1>. QED
    BY <1>2, <1>4, <1>11

\* The collector finds the pointers of a struct whose header points to its format
\* string, as long as the other fields come in whole words.
THEOREM LayoutFormatPointersFound == Spec => []FormatPointersFound
  <1>1. LayoutInv => FormatPointersFound
    <2> SUFFICES ASSUME LayoutInv, status = "allocated", identify_header(header) = "format",
                        WordsBetweenPointers(expanded)
                 PROVE  header_interpretation(header, expanded) = CLayout(expanded).ptrs
      BY DEF FormatPointersFound
    <2>1. PICK fs : AllocatedFrom(fs)
      BY DEF LayoutInv
    <2>2. expanded \in Seq(Letters)
      BY <2>1, ExpandFacts DEF AllocatedFrom
    <2>3. interpret_format_string(expanded) = CLayout(expanded).ptrs
      BY <2>2, FormatFound
    <2>. QED
      BY <2>3 DEF header_interpretation
  <1>. QED
    BY <1>1, LayoutInductive, PTL

=============================================================================
