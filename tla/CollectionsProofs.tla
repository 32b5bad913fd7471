-------------------------- MODULE CollectionsProofs --------------------------
(***************************************************************************)
(* Proofs about the containers of the demo, for any links, any contents    *)
(* and histories of calls of any length.                                   *)
(*                                                                         *)
(* A list in memory is described by the addresses of its links: IsChain    *)
(* says that s is the sequence of the links that following next_link from  *)
(* l goes through.  A memory has at most one such sequence, so every loop  *)
(* over the list is an induction along it, and each call becomes an        *)
(* operation on sequences: an element more, an element less, a suffix      *)
(* skipped.                                                                *)
(*                                                                         *)
(* A table is described by what its buckets hold.  While the client does   *)
(* what the code supports, each bucket is a sequence that Below orders;    *)
(* what the search finds in it is shown by induction along it, and what a  *)
(* call makes of the table by what it makes of one bucket (Affects) while  *)
(* the others stay (Swaps).                                                *)
(***************************************************************************)
EXTENDS Collections, FoldTheorems

-----------------------------------------------------------------------------
(* Walking along links.                                                    *)

\* The i-th link of s, none after the last.
LinkAt(s, i) == IF i <= Len(s) THEN s[i] ELSE L!NULL

\* In memory lk the links from l on are s.
IsChain(lk, l, s) ==
  /\ s \in Seq(DOMAIN lk)
  /\ l = LinkAt(s, 1)
  /\ \A i \in 1 .. Len(s) : lk[s[i]].next = LinkAt(s, i + 1)

LEMMA ChainFacts ==
  ASSUME NEW lk, NEW l, NEW s, IsChain(lk, l, s)
  PROVE  /\ s \in Seq(DOMAIN lk)
         /\ Len(s) \in Nat
         /\ DOMAIN s = 1 .. Len(s)
         /\ \A i \in 1 .. Len(s) : s[i] \in DOMAIN lk
         /\ l = LinkAt(s, 1)
         /\ \A i \in 1 .. Len(s) : lk[s[i]].next = LinkAt(s, i + 1)
         /\ ToSet(s) \subseteq DOMAIN lk
         /\ \A x : x \in ToSet(s) <=> \E i \in 1 .. Len(s) : x = s[i]
  <1>1. s \in Seq(DOMAIN lk) /\ l = LinkAt(s, 1)
        /\ \A i \in 1 .. Len(s) : lk[s[i]].next = LinkAt(s, i + 1)
    BY DEF IsChain
  <1>2. Len(s) \in Nat /\ DOMAIN s = 1 .. Len(s) /\ \A i \in 1 .. Len(s) : s[i] \in DOMAIN lk
    BY <1>1, LenProperties, ElementOfSeq
  <1>3. ToSet(s) \subseteq DOMAIN lk /\ \A x : x \in ToSet(s) <=> \E i \in 1 .. Len(s) : x = s[i]
    BY <1>2 DEF ToSet
  <1>. QED
    BY <1>1, <1>2, <1>3

\* No link comes twice: the way from it to the end would have two lengths.
LEMMA ChainInjective ==
  ASSUME NEW lk, NEW l, NEW s, IsChain(lk, l, s), L!NULL \notin DOMAIN lk,
         NEW i \in 1 .. Len(s), NEW j \in 1 .. Len(s), s[i] = s[j]
  PROVE  i = j
  <1>1. Len(s) \in Nat /\ (\A k \in 1 .. Len(s) : s[k] \in DOMAIN lk)
        /\ \A k \in 1 .. Len(s) : lk[s[k]].next = LinkAt(s, k + 1)
    BY ChainFacts
  <1>2. ASSUME NEW a \in 1 .. Len(s), NEW b \in 1 .. Len(s), s[a] = s[b], a < b
        PROVE  FALSE
    <2> DEFINE n == Len(s)
               m == n + 1 - b
               Good == {k \in 0 .. m : LinkAt(s, a + k) = LinkAt(s, b + k)}
    <2>1. n \in Nat /\ a \in 1 .. n /\ b \in 1 .. n /\ m \in 1 .. n
      BY <1>1, <1>2
    <2>2. 0 \in Good
      <3>1. a + 0 = a /\ b + 0 = b /\ a <= n /\ b <= n /\ 0 \in 0 .. m
        BY <2>1
      <3>. QED
        BY <1>2, <3>1 DEF LinkAt
    <2>3. ASSUME NEW k \in 0 .. (m - 1), k \in Good
          PROVE  k + 1 \in Good
      <3>1. /\ a + k \in 1 .. n /\ b + k \in 1 .. n /\ a + k <= n /\ b + k <= n
            /\ a + (k + 1) = (a + k) + 1 /\ b + (k + 1) = (b + k) + 1 /\ k + 1 \in 0 .. m
        BY <1>2, <2>1
      <3>2. LinkAt(s, a + k) = LinkAt(s, b + k)
        BY <2>3
      <3>3. s[a + k] = s[b + k]
        BY <3>1, <3>2 DEF LinkAt
      <3>4. LinkAt(s, (a + k) + 1) = LinkAt(s, (b + k) + 1)
        BY <1>1, <3>1, <3>3
      <3>. QED
        BY <3>1, <3>4
    <2>4. m \in Good
      <3>1. m \in Nat /\ m \in 0 .. m
        BY <2>1
      <3> HIDE DEF Good, m
      <3>. QED
        BY <2>2, <2>3, <3>1, ReachesAll
    <2>5. LinkAt(s, a + m) = LinkAt(s, b + m)
      BY <2>4
    <2>6. a + m \in 1 .. n /\ a + m <= n /\ ~(b + m <= n)
      BY <1>2, <2>1
    <2>7. LinkAt(s, b + m) = L!NULL /\ LinkAt(s, a + m) = s[a + m]
      BY <2>6 DEF LinkAt
    <2>. QED
      BY <1>1, <2>5, <2>6, <2>7
  <1>3. ~(i < j) /\ ~(j < i)
    BY <1>2
  <1>. QED
    BY <1>1, <1>3

LEMMA ChainFits ==
  ASSUME NEW lk, NEW l, NEW s, IsChain(lk, l, s), DOMAIN lk \subseteq Links
  PROVE  /\ L!NULL \notin DOMAIN lk
         /\ L!Cardinality(Links) \in Nat
         /\ Len(s) \in 0 .. L!Cardinality(Links)
  <1> DEFINE n == Len(s)
  <1>1. L!NULL \notin DOMAIN lk /\ IsFiniteSet(Links)
    BY LinksAssumption DEF L!IsFiniteSet, IsFiniteSet
  <1>2. n \in Nat /\ DOMAIN s = 1 .. n /\ \A i \in 1 .. n : s[i] \in Links
    BY ChainFacts
  <1>3. s \in [1 .. n -> Links]
    <2>1. s = [i \in 1 .. n |-> s[i]]
      BY <1>2, ChainFacts, LenProperties
    <2> HIDE DEF n
    <2>. QED
      BY <1>2, <2>1
  <1>4. s \in Injection(1 .. n, Links)
    <2>1. \A i, j \in 1 .. n : s[i] = s[j] => i = j
      BY <1>1, ChainInjective
    <2> HIDE DEF n
    <2>. QED
      BY <1>3, <2>1 DEF Injection, IsInjective
  <1>5. Cardinality(1 .. n) <= Cardinality(Links)
    BY <1>1, <1>4, FS_Injection
  <1>6. Cardinality(1 .. n) = n
    BY <1>2, FS_Interval
  <1>7. Cardinality(Links) \in Nat
    BY <1>1, FS_CardinalityType
  <1>8. L!Cardinality(Links) = Cardinality(Links)
    BY DEF L!Cardinality, Cardinality
  <1>. QED
    BY <1>1, <1>2, <1>5, <1>6, <1>7, <1>8

\* FromIn returns it.
LEMMA ChainIs ==
  ASSUME NEW lk, NEW l, NEW s, IsChain(lk, l, s), DOMAIN lk \subseteq Links
  PROVE  L!FromIn(lk, l) = s
  <1> DEFINE n == Len(s)
             N == L!Cardinality(Links)
             IsTo(f) == f = [k \in L!Steps |->
               IF k = 0 THEN l
               ELSE LET before == f[k-1] IN IF before = L!NULL THEN L!NULL ELSE lk[before].next]
             to == CHOOSE f : IsTo(f)
             g == [k \in 0 .. N |-> LinkAt(s, k + 1)]
             ends == {k \in L!Steps : to[k] = L!NULL}
  <1>1. /\ n \in Nat /\ n <= N /\ N \in Nat /\ L!NULL \notin DOMAIN lk /\ l = LinkAt(s, 1)
        /\ \A i \in 1 .. n : s[i] \in DOMAIN lk /\ lk[s[i]].next = LinkAt(s, i + 1)
    BY ChainFacts, ChainFits
  <1>2. L!Steps = 0 .. N /\ N \in Nat
    BY <1>1 DEF L!Steps
  <1>3. \A k \in 0 .. N : k # 0 =>
          LinkAt(s, k + 1) = IF LinkAt(s, k) = L!NULL THEN L!NULL ELSE lk[LinkAt(s, k)].next
    <2> SUFFICES ASSUME NEW k \in 0 .. N, k # 0
                 PROVE  LinkAt(s, k + 1) =
                          IF LinkAt(s, k) = L!NULL THEN L!NULL ELSE lk[LinkAt(s, k)].next
      OBVIOUS
    <2>1. CASE k <= n
      <3>1. k \in 1 .. n
        BY <1>1, <1>2, <2>1
      <3>2. LinkAt(s, k) = s[k]
        BY <2>1 DEF LinkAt
      <3>. QED
        BY <1>1, <3>1, <3>2
    <2>2. CASE ~(k <= n)
      <3>1. ~(k + 1 <= n)
        BY <1>1, <1>2, <2>2
      <3>. QED
        BY <2>2, <3>1 DEF LinkAt
    <2>. QED
      BY <2>1, <2>2
  <1> HIDE DEF N
  <1>4. IsTo(g)
    <2>1. g[0] = l /\ 0 + 1 = 1
      BY <1>1, <1>2
    <2>2. \A k \in 0 .. N : k # 0 => k - 1 \in 0 .. N /\ (k - 1) + 1 = k
      BY <1>2
    <2>3. \A k \in 0 .. N : k # 0 => g[k - 1] = LinkAt(s, k)
      BY <2>2
    <2>4. \A k \in 0 .. N : g[k] = LinkAt(s, k + 1)
      OBVIOUS
    <2>5. \A k \in 0 .. N : g[k] =
            IF k = 0 THEN l
            ELSE IF g[k - 1] = L!NULL THEN L!NULL ELSE lk[g[k - 1]].next
      <3> HIDE DEF g
      <3>. QED
        BY <1>3, <2>1, <2>3, <2>4
    <2>6. g = [k \in 0 .. N |-> g[k]]
      OBVIOUS
    <2> HIDE DEF g
    <2>. QED
      BY <1>2, <2>5, <2>6
  <1>5. IsTo(to)
    <2> HIDE DEF IsTo, g
    <2>. QED
      BY <1>4
  <1>6. /\ to[0] = l
        /\ \A k \in 0 .. N : k # 0 => to[k] =
             IF to[k - 1] = L!NULL THEN L!NULL ELSE lk[to[k - 1]].next
    <2> HIDE DEF to
    <2>1. \A k \in 0 .. N : to[k] =
            IF k = 0 THEN l
            ELSE IF to[k - 1] = L!NULL THEN L!NULL ELSE lk[to[k - 1]].next
      BY <1>2, <1>5
    <2>2. 0 \in 0 .. N
      BY <1>2
    <2>. QED
      BY <2>1, <2>2
  <1> HIDE DEF to, g, IsTo
  <1>7. \A k \in 0 .. N : to[k] = LinkAt(s, k + 1)
    <2> DEFINE Good == {k \in 0 .. N : to[k] = LinkAt(s, k + 1)}
    <2>1. 0 \in Good
      BY <1>1, <1>2, <1>6
    <2>2. ASSUME NEW k \in 0 .. (N - 1), k \in Good
          PROVE  k + 1 \in Good
      <3>1. k + 1 \in 0 .. N /\ k + 1 # 0 /\ (k + 1) - 1 = k
        BY <1>2
      <3>2. to[k] = LinkAt(s, k + 1)
        BY <2>2
      <3>. QED
        BY <1>3, <1>6, <3>1, <3>2
    <2>3. \A k \in 0 .. N : k \in Good
      <3> HIDE DEF Good
      <3>. QED
        BY <1>2, <2>1, <2>2, ReachesAll
    <2>. QED
      BY <2>3
  <1>8. L!Steps \ ends = 0 .. (n - 1)
    <2>1. ASSUME NEW k \in 0 .. N
          PROVE  to[k] = L!NULL <=> ~(k <= n - 1)
      <3>1. CASE k <= n - 1
        <4>1. k + 1 \in 1 .. n /\ k + 1 <= n
          BY <1>1, <3>1
        <4>. QED
          BY <1>1, <1>7, <3>1, <4>1 DEF LinkAt
      <3>2. CASE ~(k <= n - 1)
        <4>1. ~(k + 1 <= n)
          BY <1>1, <1>2, <3>2
        <4>. QED
          BY <1>7, <3>2, <4>1 DEF LinkAt
      <3>. QED
        BY <3>1, <3>2
    <2>2. \A k : k \in 0 .. (n - 1) <=> k \in 0 .. N /\ k <= n - 1
      BY <1>1, <1>2
    <2> HIDE DEF n
    <2>. QED
      BY <1>2, <2>1, <2>2
  <1>9. {k + 1 : k \in L!Steps \ ends} = 1 .. n
    <2>1. \A i : i \in 1 .. n <=> \E k \in 0 .. (n - 1) : i = k + 1
      <3>1. \A i \in 1 .. n : i - 1 \in 0 .. (n - 1) /\ i = (i - 1) + 1
        BY <1>1
      <3>2. \A k \in 0 .. (n - 1) : k + 1 \in 1 .. n
        BY <1>1
      <3>. QED
        BY <3>1, <3>2
    <2> HIDE DEF n, ends
    <2>. QED
      BY <1>8, <2>1
  <1>10. L!FromIn(lk, l) = [i \in {k + 1 : k \in L!Steps \ ends} |-> to[i - 1]]
    BY DEF L!FromIn, to, IsTo
  <1>11. \A i \in 1 .. n : to[i - 1] = s[i]
    <2>1. \A i \in 1 .. n : i - 1 \in 0 .. N /\ (i - 1) + 1 = i /\ i <= n
      BY <1>1, <1>2
    <2>. QED
      BY <1>7, <2>1 DEF LinkAt
  <1>12. s = [i \in 1 .. n |-> s[i]]
    BY ChainFacts, LenProperties
  <1> HIDE DEF n, ends
  <1>. QED
    BY <1>9, <1>10, <1>11, <1>12
\* The rest of a chain is one, and so is a chain of which nothing has changed.
LEMMA ChainRest ==
  ASSUME NEW lk, NEW l, NEW s, IsChain(lk, l, s), NEW i \in 1 .. (Len(s) + 1)
  PROVE  /\ IsChain(lk, LinkAt(s, i), SubSeq(s, i, Len(s)))
         /\ \A x : x \in ToSet(SubSeq(s, i, Len(s))) <=> \E j \in i .. Len(s) : x = s[j]
         /\ Len(SubSeq(s, i, Len(s))) = Len(s) + 1 - i
         /\ \A k \in 1 .. (Len(s) + 1 - i) : SubSeq(s, i, Len(s))[k] = s[i + k - 1]
  <1> DEFINE n == Len(s)
             t == SubSeq(s, i, n)
             D == DOMAIN lk
  <1>1. /\ n \in Nat /\ i \in 1 .. (n + 1)
        /\ \A k \in 1 .. n : s[k] \in D /\ lk[s[k]].next = LinkAt(s, k + 1)
    BY ChainFacts
  <1>2. /\ t \in Seq(D) /\ Len(t) = n - i + 1
        /\ \A k \in 1 .. (n - i + 1) : t[k] = s[i + k - 1]
    <2>1. \A k \in i .. n : s[k] \in D
      BY <1>1
    <2>2. i \in Int /\ n \in Int
      BY <1>1
    <2> HIDE DEF n, D
    <2>3. /\ t \in Seq(D) /\ Len(t) = IF i <= n THEN n - i + 1 ELSE 0
          /\ \A k \in 1 .. (n - i + 1) : t[k] = s[i + k - 1]
      BY <2>1, <2>2, SubSeqProperties
    <2> HIDE DEF t
    <2>. QED
      BY <1>1, <2>3
  <1> HIDE DEF t
  <1>3. \A k \in 1 .. (n - i + 2) : LinkAt(t, k) = LinkAt(s, i + k - 1)
    <2> SUFFICES ASSUME NEW k \in 1 .. (n - i + 2)
                 PROVE  LinkAt(t, k) = LinkAt(s, i + k - 1)
      OBVIOUS
    <2>1. CASE k <= n - i + 1
      <3>1. k \in 1 .. (n - i + 1) /\ i + k - 1 <= n
        BY <1>1, <2>1
      <3>. QED
        BY <1>2, <2>1, <3>1 DEF LinkAt
    <2>2. CASE ~(k <= n - i + 1)
      <3>1. ~(i + k - 1 <= n)
        BY <1>1, <2>2
      <3>. QED
        BY <1>2, <2>2, <3>1 DEF LinkAt
    <2>. QED
      BY <2>1, <2>2
  <1>4. LinkAt(s, i) = LinkAt(t, 1)
    <2>1. 1 \in 1 .. (n - i + 2) /\ i + 1 - 1 = i
      BY <1>1
    <2>. QED
      BY <1>3, <2>1
  <1>5. ASSUME NEW k \in 1 .. Len(t)
        PROVE  lk[t[k]].next = LinkAt(t, k + 1)
    <2>1. /\ k \in 1 .. (n - i + 1) /\ i + k - 1 \in 1 .. n /\ k + 1 \in 1 .. (n - i + 2)
          /\ i + (k + 1) - 1 = (i + k - 1) + 1
      BY <1>1, <1>2
    <2>. QED
      BY <1>1, <1>2, <1>3, <2>1
  <1>6. IsChain(lk, LinkAt(s, i), t)
    BY <1>2, <1>4, <1>5 DEF IsChain
  <1>7. \A x : x \in ToSet(t) <=> \E j \in i .. n : x = s[j]
    <2>1. \A x : x \in ToSet(t) <=> \E k \in 1 .. (n - i + 1) : x = t[k]
      <3>1. Len(t) = n - i + 1
        BY <1>2
      <3> HIDE DEF n
      <3>. QED
        BY <1>6, <3>1, ChainFacts
    <2>2. \A k \in 1 .. (n - i + 1) : i + k - 1 \in i .. n
      BY <1>1
    <2>3. \A j \in i .. n : j - i + 1 \in 1 .. (n - i + 1) /\ i + (j - i + 1) - 1 = j
      BY <1>1
    <2> HIDE DEF n
    <2>4. ASSUME NEW x, NEW j \in i .. n, x = s[j]
          PROVE  \E k \in 1 .. (n - i + 1) : x = t[k]
      BY <1>2, <2>3, <2>4
    <2>5. ASSUME NEW x, NEW k \in 1 .. (n - i + 1), x = t[k]
          PROVE  \E j \in i .. n : x = s[j]
      BY <1>2, <2>2, <2>5
    <2>. QED
      BY <2>1, <2>4, <2>5
  <1>8. Len(t) = n + 1 - i /\ \A k \in 1 .. (n + 1 - i) : t[k] = s[i + k - 1]
    BY <1>1, <1>2
  <1>. QED
    BY <1>6, <1>7, <1>8 DEF t

LEMMA ChainKept ==
  ASSUME NEW lk, NEW l, NEW s, IsChain(lk, l, s), NEW lk2,
         \A x \in ToSet(s) : x \in DOMAIN lk2 /\ lk2[x].next = lk[x].next
  PROVE  IsChain(lk2, l, s)
  <1>1. /\ Len(s) \in Nat /\ DOMAIN s = 1 .. Len(s) /\ s \in Seq(DOMAIN lk) /\ l = LinkAt(s, 1)
        /\ \A i \in 1 .. Len(s) : lk[s[i]].next = LinkAt(s, i + 1)
        /\ \A i \in 1 .. Len(s) : s[i] \in ToSet(s)
    BY ChainFacts
  <1>2. s \in Seq(DOMAIN lk2)
    <2>1. \A i \in 1 .. Len(s) : s[i] \in DOMAIN lk2
      BY <1>1
    <2>2. s = [i \in 1 .. Len(s) |-> s[i]]
      BY <1>1, LenProperties
    <2> DEFINE n == Len(s)
               D == DOMAIN lk2
    <2>3. n \in Nat
      BY <1>1
    <2> HIDE DEF n, D
    <2>4. s \in [1 .. n -> D]
      BY <2>1, <2>2 DEF n, D
    <2>. QED
      BY <2>3, <2>4, SequenceIs DEF D
  <1>. QED
    BY <1>1, <1>2 DEF IsChain

\* A chain whose i-th link is made to lead to another chain.
LEMMA ChainSpliced ==
  ASSUME NEW lk, NEW l, NEW s, IsChain(lk, l, s), NEW i \in 1 .. Len(s),
         NEW lk2, DOMAIN lk \subseteq DOMAIN lk2,
         \A j \in 1 .. (i - 1) : lk2[s[j]].next = lk[s[j]].next,
         NEW t, IsChain(lk2, lk2[s[i]].next, t)
  PROVE  /\ IsChain(lk2, l, SubSeq(s, 1, i) \o t)
         /\ Len(SubSeq(s, 1, i) \o t) = i + Len(t)
         /\ \A j \in 1 .. (i + Len(t)) :
              (SubSeq(s, 1, i) \o t)[j] = IF j <= i THEN s[j] ELSE t[j - i]
  <1> DEFINE n == Len(s)
             m == Len(t)
             D == DOMAIN lk2
             a == SubSeq(s, 1, i)
             r == a \o t
  <1>1. /\ n \in Nat /\ i \in 1 .. n /\ l = LinkAt(s, 1)
        /\ \A k \in 1 .. n : s[k] \in D /\ lk[s[k]].next = LinkAt(s, k + 1)
    BY ChainFacts
  <1>2. /\ m \in Nat /\ t \in Seq(D) /\ lk2[s[i]].next = LinkAt(t, 1)
        /\ \A k \in 1 .. m : lk2[t[k]].next = LinkAt(t, k + 1)
    BY ChainFacts
  <1>3. a \in Seq(D) /\ Len(a) = i /\ \A k \in 1 .. i : a[k] = s[k]
    <2>1. \A k \in 1 .. i : s[k] \in D
      BY <1>1
    <2>2. i \in Int /\ 1 \in Int
      BY <1>1
    <2> HIDE DEF D
    <2>3. /\ a \in Seq(D) /\ Len(a) = IF 1 <= i THEN i - 1 + 1 ELSE 0
          /\ \A k \in 1 .. (i - 1 + 1) : a[k] = s[1 + k - 1]
      BY <2>1, <2>2, SubSeqProperties
    <2> HIDE DEF a
    <2>. QED
      BY <1>1, <2>3
  <1> HIDE DEF a, D
  <1>4. /\ r \in Seq(D) /\ Len(r) = i + m
        /\ \A k \in 1 .. (i + m) : r[k] = IF k <= i THEN s[k] ELSE t[k - i]
    <2>1. /\ r \in Seq(D) /\ Len(r) = Len(a) + Len(t)
          /\ \A k \in 1 .. (Len(a) + Len(t)) :
               r[k] = IF k <= Len(a) THEN a[k] ELSE t[k - Len(a)]
      BY <1>2, <1>3, ConcatProperties
    <2>2. \A k \in 1 .. (i + m) : k <= i => k \in 1 .. i
      BY <1>1, <1>2
    <2> HIDE DEF r
    <2>. QED
      BY <1>3, <2>1, <2>2
  <1> HIDE DEF r, n, m
  <1>5. l = LinkAt(r, 1)
    <2>1. 1 \in 1 .. (i + m) /\ 1 <= i /\ 1 <= n /\ 1 <= i + m
      BY <1>1, <1>2
    <2>. QED
      BY <1>1, <1>4, <2>1 DEF LinkAt, n
  <1>6. ASSUME NEW k \in 1 .. (i + m)
        PROVE  lk2[r[k]].next = LinkAt(r, k + 1)
    <2>1. CASE k < i
      <3>1. /\ k \in 1 .. (i - 1) /\ k \in 1 .. n /\ k <= i /\ k + 1 <= i /\ k + 1 \in 1 .. (i + m)
            /\ k + 1 <= i + m /\ k + 1 <= n
        BY <1>1, <1>2, <2>1
      <3>2. r[k] = s[k] /\ r[k + 1] = s[k + 1]
        BY <1>4, <3>1
      <3>3. lk2[s[k]].next = LinkAt(s, k + 1)
        BY <1>1, <3>1 DEF n
      <3>. QED
        BY <1>4, <3>1, <3>2, <3>3 DEF LinkAt, n
    <2>2. CASE k = i
      <3>1. k <= i /\ ~(k + 1 <= i) /\ (k + 1) - i = 1 /\ k + 1 = i + 1
        BY <1>1, <2>2
      <3>2. r[k] = s[i]
        BY <1>4, <2>2, <3>1
      <3>3. LinkAt(r, k + 1) = LinkAt(t, 1)
        <4>1. CASE m = 0
          <5>1. ~(k + 1 <= i + m) /\ ~(1 <= m)
            BY <1>1, <2>2, <4>1
          <5>. QED
            BY <1>4, <5>1 DEF LinkAt, m
        <4>2. CASE m # 0
          <5>1. k + 1 \in 1 .. (i + m) /\ k + 1 <= i + m /\ 1 <= m
            BY <1>1, <1>2, <2>2, <4>2
          <5>. QED
            BY <1>4, <3>1, <5>1 DEF LinkAt, m
        <4>. QED
          BY <4>1, <4>2
      <3>. QED
        BY <1>2, <3>2, <3>3
    <2>3. CASE k > i
      <3>1. /\ ~(k <= i) /\ ~(k + 1 <= i) /\ k - i \in 1 .. m /\ (k + 1) - i = (k - i) + 1
            /\ k + 1 <= i + m <=> (k - i) + 1 <= m
        BY <1>1, <1>2, <2>3
      <3>2. r[k] = t[k - i]
        BY <1>4, <3>1
      <3>3. LinkAt(r, k + 1) = LinkAt(t, (k - i) + 1)
        <4>1. CASE k + 1 <= i + m
          <5>1. k + 1 \in 1 .. (i + m)
            BY <4>1
          <5>. QED
            BY <1>4, <3>1, <4>1, <5>1 DEF LinkAt, m
        <4>2. CASE ~(k + 1 <= i + m)
          BY <1>4, <3>1, <4>2 DEF LinkAt, m
        <4>. QED
          BY <4>1, <4>2
      <3>. QED
        BY <1>2, <3>1, <3>2, <3>3 DEF m
    <2>. QED
      BY <1>1, <1>2, <2>1, <2>2, <2>3
  <1>7. IsChain(lk2, l, r)
    BY <1>4, <1>5, <1>6 DEF IsChain, D
  <1>. QED
    BY <1>4, <1>7 DEF r, a, m
-----------------------------------------------------------------------------
(* The memory of a list: every way through it comes to an end.             *)

Mem(lk) ==
  /\ DOMAIN lk \subseteq Links
  /\ lk \in [DOMAIN lk -> [element : Keys, next : DOMAIN lk \cup {L!NULL}]]
  /\ \A l \in DOMAIN lk \cup {L!NULL} : \E s : IsChain(lk, l, s)

LEMMA MemChain ==
  ASSUME NEW lk, Mem(lk), NEW l \in DOMAIN lk \cup {L!NULL}
  PROVE  /\ L!NULL \notin DOMAIN lk
         /\ IsChain(lk, l, L!FromIn(lk, l))
         /\ \A s : IsChain(lk, l, s) => s = L!FromIn(lk, l)
  <1>1. L!NULL \notin DOMAIN lk /\ DOMAIN lk \subseteq Links
    BY LinksAssumption DEF Mem
  <1>2. \A s : IsChain(lk, l, s) => L!FromIn(lk, l) = s
    BY <1>1, ChainIs
  <1>. QED
    BY <1>1, <1>2 DEF Mem

LEMMA MemFacts ==
  ASSUME NEW lk, Mem(lk), NEW l \in DOMAIN lk \cup {L!NULL}
  PROVE  /\ L!NULL \notin DOMAIN lk
         /\ L!FromIn(lk, l) \in Seq(DOMAIN lk)
         /\ Len(L!FromIn(lk, l)) \in Nat
         /\ DOMAIN L!FromIn(lk, l) = 1 .. Len(L!FromIn(lk, l))
         /\ \A i \in 1 .. Len(L!FromIn(lk, l)) : L!FromIn(lk, l)[i] \in DOMAIN lk
         /\ l = LinkAt(L!FromIn(lk, l), 1)
         /\ \A i \in 1 .. Len(L!FromIn(lk, l)) :
              lk[L!FromIn(lk, l)[i]].next = LinkAt(L!FromIn(lk, l), i + 1)
         /\ \A i, j \in 1 .. Len(L!FromIn(lk, l)) :
              L!FromIn(lk, l)[i] = L!FromIn(lk, l)[j] => i = j
         /\ \A x : x \in ToSet(L!FromIn(lk, l)) <=>
              \E i \in 1 .. Len(L!FromIn(lk, l)) : x = L!FromIn(lk, l)[i]
  <1> DEFINE s == L!FromIn(lk, l)
  <1>1. L!NULL \notin DOMAIN lk /\ IsChain(lk, l, s)
    BY MemChain
  <1> HIDE DEF s
  <1>2. /\ s \in Seq(DOMAIN lk) /\ Len(s) \in Nat /\ DOMAIN s = 1 .. Len(s)
        /\ \A i \in 1 .. Len(s) : s[i] \in DOMAIN lk
        /\ l = LinkAt(s, 1)
        /\ \A i \in 1 .. Len(s) : lk[s[i]].next = LinkAt(s, i + 1)
        /\ \A x : x \in ToSet(s) <=> \E i \in 1 .. Len(s) : x = s[i]
    BY <1>1, ChainFacts
  <1>3. \A i, j \in 1 .. Len(s) : s[i] = s[j] => i = j
    BY <1>1, ChainInjective
  <1>. QED
    BY <1>1, <1>2, <1>3 DEF s

LEMMA NoChain ==
  ASSUME NEW lk, Mem(lk)
  PROVE  L!FromIn(lk, L!NULL) = <<>>
  <1> DEFINE D == DOMAIN lk
  <1>1. <<>> \in Seq(D) /\ Len(<<>>) = 0
    BY EmptySeq
  <1>2. IsChain(lk, L!NULL, <<>>)
    BY <1>1 DEF IsChain, LinkAt
  <1>. QED
    BY <1>2, MemChain

LEMMA EmptyMem == Mem(<<>>) /\ DOMAIN <<>> = {}
  <1>1. DOMAIN <<>> = {}
    OBVIOUS
  <1>2. <<>> \in Seq({}) /\ Len(<<>>) = 0
    BY EmptySeq
  <1>3. IsChain(<<>>, L!NULL, <<>>)
    BY <1>1, <1>2 DEF IsChain, LinkAt
  <1>. QED
    BY <1>1, <1>3 DEF Mem

\* A link that was added leads to what its next leads to.
Makes(lk, f, v, q, lk2) ==
  lk2 = [m \in DOMAIN lk \cup {f} |-> IF m = f THEN [element |-> v, next |-> q] ELSE lk[m]]

Linked(lk, f, v, q, lk2) ==
  /\ Mem(lk2)
  /\ DOMAIN lk2 = DOMAIN lk \cup {f}
  /\ \A l \in DOMAIN lk \cup {L!NULL} : L!FromIn(lk2, l) = L!FromIn(lk, l)
  /\ Inserts(L!FromIn(lk, q), L!FromIn(lk2, f), 1, f)
  /\ lk2[f].element = v
  /\ \A m \in DOMAIN lk : lk2[m] = lk[m]

LEMMA MadeMem ==
  ASSUME NEW lk, Mem(lk), NEW f \in Links \ DOMAIN lk, NEW v \in Keys,
         NEW q \in DOMAIN lk \cup {L!NULL},
         NEW lk2, Makes(lk, f, v, q, lk2)
  PROVE  Linked(lk, f, v, q, lk2)
  <1> DEFINE D == DOMAIN lk
             alone == [m \in {f} |-> [next |-> L!NULL]]
             one == <<f>>
             t == L!FromIn(lk, q)
             r == SubSeq(one, 1, 1) \o t
  <1>1. D \subseteq Links /\ f \notin D /\ f # L!NULL /\ L!NULL \notin D
    BY LinksAssumption DEF Mem
  <1>2. lk \in [D -> [element : Keys, next : D \cup {L!NULL}]]
    BY DEF Mem
  <1>3. DOMAIN lk2 = D \cup {f} /\ lk2[f] = [element |-> v, next |-> q] /\ \A m \in D : lk2[m] = lk[m]
        /\ lk2 = [a \in D \cup {f} |-> IF a = f THEN [element |-> v, next |-> q] ELSE lk[a]]
    BY <1>1 DEF Makes
  <1>4. ASSUME NEW l \in D \cup {L!NULL}
        PROVE  IsChain(lk2, l, L!FromIn(lk, l))
    <2> DEFINE s == L!FromIn(lk, l)
    <2>1. IsChain(lk, l, s)
      BY MemChain
    <2> HIDE DEF s
    <2>2. ToSet(s) \subseteq D
      BY <2>1, ChainFacts
    <2>3. IsChain(lk2, l, s)
      BY <1>3, <2>1, <2>2, ChainKept
    <2>. QED
      BY <2>3 DEF s
  <1>5. IsChain(alone, f, one)
    <2>1. one \in Seq({f}) /\ Len(one) = 1 /\ one[1] = f
      OBVIOUS
    <2>2. DOMAIN alone = {f} /\ alone[f].next = L!NULL
      OBVIOUS
    <2> HIDE DEF one, alone
    <2>. QED
      BY <2>1, <2>2 DEF IsChain, LinkAt
  <1>6. /\ IsChain(lk2, f, r) /\ Len(r) = 1 + Len(t)
        /\ \A j \in 1 .. (1 + Len(t)) : r[j] = IF j = 1 THEN f ELSE t[j - 1]
    <2>1. Len(one) = 1 /\ one[1] = f /\ DOMAIN alone = {f} /\ Len(t) \in Nat
      BY MemFacts
    <2>2. lk2[one[1]].next = q
      BY <1>3, <2>1
    <2>3. IsChain(lk2, lk2[one[1]].next, t)
      BY <1>4, <2>2
    <2>4. 1 \in 1 .. Len(one) /\ \A j \in 1 .. (1 - 1) : lk2[one[j]].next = alone[one[j]].next
      BY <2>1
    <2>5. DOMAIN alone \subseteq DOMAIN lk2
      BY <1>3, <2>1
    <2> HIDE DEF one, t, alone
    <2>6. /\ IsChain(lk2, f, r) /\ Len(r) = 1 + Len(t)
          /\ \A j \in 1 .. (1 + Len(t)) : r[j] = IF j <= 1 THEN one[j] ELSE t[j - 1]
      BY <1>5, <2>3, <2>4, <2>5, ChainSpliced
    <2>7. \A j \in 1 .. (1 + Len(t)) : j <= 1 <=> j = 1
      BY <2>1
    <2>. QED
      BY <2>1, <2>6, <2>7
  <1> HIDE DEF r, alone, one, t
  <1>7. Mem(lk2)
    <2>1. \A m \in D \cup {f} : lk2[m] \in [element : Keys, next : (D \cup {f}) \cup {L!NULL}]
      <3>1. \A m \in D : lk2[m] \in [element : Keys, next : (D \cup {f}) \cup {L!NULL}]
        BY <1>2, <1>3
      <3>2. lk2[f] \in [element : Keys, next : (D \cup {f}) \cup {L!NULL}]
        <4>1. v \in Keys /\ q \in (D \cup {f}) \cup {L!NULL}
          OBVIOUS
        <4>2. lk2[f] = [element |-> v, next |-> q]
          BY <1>3
        <4> HIDE DEF D
        <4>. QED
          BY <4>1, <4>2
      <3>. QED
        BY <3>1, <3>2
    <2>3. lk2 \in [D \cup {f} -> [element : Keys, next : (D \cup {f}) \cup {L!NULL}]]
      <3> DEFINE R == [element : Keys, next : (D \cup {f}) \cup {L!NULL}]
      <3>1. \A m \in D \cup {f} : lk2[m] \in R
        BY <2>1
      <3> HIDE DEF R, D
      <3>2. lk2 = [m \in D \cup {f} |-> lk2[m]]
        <4> DEFINE g == [m \in D \cup {f} |-> IF m = f THEN [element |-> v, next |-> q] ELSE lk[m]]
        <4>1. g = [m \in D \cup {f} |-> g[m]]
          OBVIOUS
        <4>2. lk2 = g
          BY Zenon DEF Makes, D
        <4> HIDE DEF g
        <4>. QED
          BY <4>1, <4>2
      <3>3. lk2 \in [D \cup {f} -> R]
        BY <3>1, <3>2
      <3>. QED
        BY <3>3 DEF R
    <2>2. \A l \in (D \cup {f}) \cup {L!NULL} : \E s : IsChain(lk2, l, s)
      BY <1>4, <1>6
    <2> HIDE DEF D
    <2>. QED
      BY <1>1, <1>3, <2>2, <2>3 DEF Mem
  <1>8. \A l \in D \cup {L!NULL} : L!FromIn(lk2, l) = L!FromIn(lk, l)
    <2>1. \A l \in D \cup {L!NULL} : l \in DOMAIN lk2 \cup {L!NULL}
      BY <1>3
    <2> HIDE DEF D
    <2>. QED
      BY <1>4, <1>7, <2>1, MemChain
  <1>9. L!FromIn(lk2, f) = r
    <2>1. f \in DOMAIN lk2 \cup {L!NULL}
      BY <1>3
    <2>. QED
      BY <1>6, <1>7, <2>1, MemChain
  <1>10. Inserts(t, r, 1, f)
    <2>1. Len(t) \in Nat
      BY MemFacts DEF t
    <2>2. \A j \in 1 .. (1 + Len(t)) : ~(j < 1)
      BY <2>1
    <2>3. 1 + Len(t) = Len(t) + 1
      BY <2>1
    <2>. QED
      BY <1>6, <2>2, <2>3 DEF Inserts
  <1>11. lk2[f].element = v
    BY <1>3
  <1>. QED
    BY <1>3, <1>7, <1>8, <1>9, <1>10, <1>11 DEF t, Linked

\* r is the first i elements of s, then t; in memory lk2 the links from l on are.
Over(r, s, i, t) ==
  /\ Len(r) = i + Len(t)
  /\ \A j \in 1 .. (i + Len(t)) : r[j] = IF j <= i THEN s[j] ELSE t[j - i]
LeadsOver(lk2, l, s, i, t) == \E r : IsChain(lk2, l, r) /\ Over(r, s, i, t)

\* The chain through a link that is made to lead elsewhere.
LEMMA RedirectedChain ==
  ASSUME NEW lk, NEW lk2, DOMAIN lk2 = DOMAIN lk, NEW p,
         \A m \in DOMAIN lk : m # p => lk2[m] = lk[m],
         NEW t, IsChain(lk2, lk2[p].next, t),
         NEW l, NEW s, IsChain(lk, l, s), NEW i, i \in Nat, i \in 1 .. Len(s), s[i] = p,
         \A j, k \in 1 .. Len(s) : s[j] = s[k] => j = k
  PROVE  LeadsOver(lk2, l, s, i, t)
  <1>1. Len(s) \in Nat /\ \A j \in 1 .. Len(s) : s[j] \in DOMAIN lk
    BY ChainFacts
  <1>2. \A j \in 1 .. (i - 1) : lk2[s[j]].next = lk[s[j]].next
    <2>1. \A j \in 1 .. (i - 1) : j \in 1 .. Len(s) /\ j # i
      BY <1>1
    <2>. QED
      BY <1>1, <2>1
  <1>3. IsChain(lk2, lk2[s[i]].next, t) /\ DOMAIN lk \subseteq DOMAIN lk2
    OBVIOUS
  <1> DEFINE r == SubSeq(s, 1, i) \o t
  <1>4. /\ IsChain(lk2, l, r) /\ Len(r) = i + Len(t)
        /\ \A j \in 1 .. (i + Len(t)) : r[j] = IF j <= i THEN s[j] ELSE t[j - i]
    BY <1>2, <1>3, ChainSpliced
  <1> HIDE DEF r
  <1>. QED
    BY <1>4 DEF LeadsOver, Over

\* lk2 is [lk EXCEPT ![p].next = q].
Redirects(lk, p, q, lk2) ==
  /\ lk2 \in [DOMAIN lk -> [element : Keys, next : DOMAIN lk \cup {L!NULL}]]
  /\ \A m \in DOMAIN lk : m # p => lk2[m] = lk[m]
  /\ lk2[p].next = q /\ lk2[p].element = lk[p].element

LEMMA ExceptRedirects ==
  ASSUME NEW lk, Mem(lk), NEW p \in DOMAIN lk, NEW q \in DOMAIN lk \cup {L!NULL}
  PROVE  Redirects(lk, p, q, [lk EXCEPT ![p].next = q])
  BY DEF Mem, Redirects

\* A link that is made to lead elsewhere, from where there is no way back to it.
LEMMA RedirectedMem ==
  ASSUME NEW lk, Mem(lk), NEW p \in DOMAIN lk, NEW q \in DOMAIN lk \cup {L!NULL},
         p \notin ToSet(L!FromIn(lk, q)),
         NEW lk2, Redirects(lk, p, q, lk2)
  PROVE  /\ Mem(lk2)
         /\ DOMAIN lk2 = DOMAIN lk
         /\ \A m \in DOMAIN lk : lk2[m].element = lk[m].element
         /\ \A l \in DOMAIN lk \cup {L!NULL} :
              p \notin ToSet(L!FromIn(lk, l)) => L!FromIn(lk2, l) = L!FromIn(lk, l)
         /\ \A l \in DOMAIN lk \cup {L!NULL} : \A i \in 1 .. Len(L!FromIn(lk, l)) :
              L!FromIn(lk, l)[i] = p =>
                Over(L!FromIn(lk2, l), L!FromIn(lk, l), i, L!FromIn(lk, q))
  <1> DEFINE D == DOMAIN lk
             t == L!FromIn(lk, q)
  <1>1. D \subseteq Links /\ L!NULL \notin D
        /\ lk \in [D -> [element : Keys, next : D \cup {L!NULL}]]
    BY LinksAssumption DEF Mem
  <1>2. /\ DOMAIN lk2 = D
        /\ \A m \in D : m # p => lk2[m] = lk[m]
        /\ lk2[p].next = q /\ lk2[p].element = lk[p].element
        /\ lk2 \in [D -> [element : Keys, next : D \cup {L!NULL}]]
    BY DEF Redirects
  <1>3. ASSUME NEW l \in D \cup {L!NULL}, p \notin ToSet(L!FromIn(lk, l))
        PROVE  IsChain(lk2, l, L!FromIn(lk, l))
    <2> DEFINE s == L!FromIn(lk, l)
    <2>1. IsChain(lk, l, s)
      BY MemChain
    <2>2. p \notin ToSet(s)
      BY <1>3
    <2> HIDE DEF s
    <2>3. ToSet(s) \subseteq D
      BY <2>1, ChainFacts
    <2>4. IsChain(lk2, l, s)
      BY <1>2, <2>1, <2>2, <2>3, ChainKept
    <2>. QED
      BY <2>4 DEF s
  <1>4. IsChain(lk2, q, t) /\ Len(t) \in Nat
    BY <1>3, MemFacts
  <1> HIDE DEF t
  <1>5. ASSUME NEW l \in D \cup {L!NULL}, NEW i \in 1 .. Len(L!FromIn(lk, l)),
               L!FromIn(lk, l)[i] = p
        PROVE  LeadsOver(lk2, l, L!FromIn(lk, l), i, t)
    <2> DEFINE s == L!FromIn(lk, l)
    <2>1. IsChain(lk, l, s)
      BY MemChain
    <2>2. Len(s) \in Nat /\ \A j, k \in 1 .. Len(s) : s[j] = s[k] => j = k
      BY MemFacts
    <2>3. i \in 1 .. Len(s)
      OBVIOUS
    <2>4. s[i] = p
      BY <1>5
    <2>5. i \in Nat
      BY <2>2, <2>3
    <2>6. \A j, k \in 1 .. Len(s) : s[j] = s[k] => j = k
      BY <2>2
    <2> HIDE DEF s
    <2>7. IsChain(lk2, lk2[p].next, t)
      BY <1>2, <1>4
    <2>8. DOMAIN lk2 = DOMAIN lk
      BY <1>2
    <2>9. \A m \in DOMAIN lk : m # p => lk2[m] = lk[m]
      BY <1>2
    <2>10. LeadsOver(lk2, l, s, i, t)
      BY <2>1, <2>3, <2>4, <2>5, <2>6, <2>7, <2>8, <2>9, RedirectedChain
    <2>. QED
      BY <2>10 DEF s
  <1>6. Mem(lk2)
    <2>1. ASSUME NEW l \in D \cup {L!NULL}
          PROVE  \E s : IsChain(lk2, l, s)
      <3>1. CASE p \notin ToSet(L!FromIn(lk, l))
        BY <1>3, <3>1
      <3>2. CASE p \in ToSet(L!FromIn(lk, l))
        <4>1. \A x : x \in ToSet(L!FromIn(lk, l)) <=>
                \E i \in 1 .. Len(L!FromIn(lk, l)) : x = L!FromIn(lk, l)[i]
          BY MemFacts
        <4>2. PICK i \in 1 .. Len(L!FromIn(lk, l)) : L!FromIn(lk, l)[i] = p
          BY <3>2, <4>1
        <4>. QED
          BY <1>5, <4>2 DEF LeadsOver
      <3>. QED
        BY <3>1, <3>2
    <2> HIDE DEF D
    <2>. QED
      BY <1>1, <1>2, <2>1 DEF Mem
  <1>7. \A l \in D \cup {L!NULL} : \A s : IsChain(lk2, l, s) => s = L!FromIn(lk2, l)
    BY <1>2, <1>6, MemChain
  <1>8. ASSUME NEW l \in D \cup {L!NULL}, NEW i \in 1 .. Len(L!FromIn(lk, l)),
               L!FromIn(lk, l)[i] = p
        PROVE  Over(L!FromIn(lk2, l), L!FromIn(lk, l), i, t)
    <2>1. PICK r : IsChain(lk2, l, r) /\ Over(r, L!FromIn(lk, l), i, t)
      BY <1>5, <1>8 DEF LeadsOver
    <2>2. r = L!FromIn(lk2, l)
      BY <1>7, <2>1
    <2>. QED
      BY <2>1, <2>2
  <1>9. \A l \in D \cup {L!NULL} :
          p \notin ToSet(L!FromIn(lk, l)) => L!FromIn(lk2, l) = L!FromIn(lk, l)
    BY <1>3, <1>7
  <1>10. \A m \in D : lk2[m].element = lk[m].element
    BY <1>2
  <1>. QED
    BY <1>2, <1>6, <1>8, <1>9, <1>10 DEF t

\* What the list and its iterator lead to stays as it is.
Keeps(lk, F, lk2) == lk2 = L!Restrict(lk, UNION {L!ToSet(L!FromIn(lk, l)) : l \in F})

LEMMA KeptMem ==
  ASSUME NEW lk, Mem(lk), NEW F, F \subseteq DOMAIN lk \cup {L!NULL},
         NEW lk2, Keeps(lk, F, lk2)
  PROVE  /\ Mem(lk2)
         /\ F \subseteq DOMAIN lk2 \cup {L!NULL}
         /\ DOMAIN lk2 \subseteq DOMAIN lk
         /\ \A l \in DOMAIN lk2 \cup {L!NULL} : L!FromIn(lk2, l) = L!FromIn(lk, l)
         /\ \A m \in DOMAIN lk2 : lk2[m] = lk[m]
  <1> DEFINE D == DOMAIN lk
             E == UNION {ToSet(L!FromIn(lk, l)) : l \in F}
  <1>1. D \subseteq Links /\ L!NULL \notin D
        /\ lk \in [D -> [element : Keys, next : D \cup {L!NULL}]]
    BY LinksAssumption DEF Mem
  <1>2. lk2 = [m \in E |-> lk[m]]
    <2>1. \A s : L!ToSet(s) = ToSet(s)
      BY DEF L!ToSet, ToSet
    <2>2. UNION {L!ToSet(L!FromIn(lk, l)) : l \in F} = E
      BY <2>1
    <2> HIDE DEF E
    <2>. QED
      BY <2>2 DEF L!Restrict, Keeps
  <1>3. \A x : x \in E <=> \E l \in F : x \in ToSet(L!FromIn(lk, l))
    OBVIOUS
  <1> HIDE DEF E
  <1>4. E \subseteq D
    <2> SUFFICES ASSUME NEW x \in E PROVE x \in D
      OBVIOUS
    <2>1. PICK l \in F : x \in ToSet(L!FromIn(lk, l))
      BY <1>3
    <2>2. IsChain(lk, l, L!FromIn(lk, l))
      BY MemChain
    <2>3. ToSet(L!FromIn(lk, l)) \subseteq D
      BY <2>2, ChainFacts
    <2>. QED
      BY <2>1, <2>3
  <1>5. DOMAIN lk2 = E /\ \A m \in E : lk2[m] = lk[m]
    BY <1>2
  <1>6. ASSUME NEW x \in E
        PROVE  lk[x].next \in E \cup {L!NULL} /\ \E s : IsChain(lk, x, s) /\ ToSet(s) \subseteq E
    <2>1. PICK l \in F : x \in ToSet(L!FromIn(lk, l))
      BY <1>3
    <2> DEFINE s == L!FromIn(lk, l)
    <2>2. IsChain(lk, l, s) /\ ToSet(s) \subseteq E
      BY <1>3, MemChain
    <2>3. x \in ToSet(s)
      BY <2>1
    <2> HIDE DEF s
    <2>4. /\ Len(s) \in Nat /\ \A i \in 1 .. Len(s) : lk[s[i]].next = LinkAt(s, i + 1) /\ s[i] \in ToSet(s)
      BY <2>2, ChainFacts
    <2>5. PICK i \in 1 .. Len(s) : x = s[i]
      BY <2>2, <2>3, ChainFacts
    <2>6. lk[x].next \in E \cup {L!NULL}
      <3>1. CASE i + 1 <= Len(s)
        <4>1. i + 1 \in 1 .. Len(s)
          BY <2>4, <3>1
        <4>. QED
          BY <2>2, <2>4, <2>5, <3>1, <4>1 DEF LinkAt
      <3>2. CASE ~(i + 1 <= Len(s))
        BY <2>4, <2>5, <3>2 DEF LinkAt
      <3>. QED
        BY <3>1, <3>2
    <2>7. /\ IsChain(lk, LinkAt(s, i), SubSeq(s, i, Len(s)))
          /\ \A y : y \in ToSet(SubSeq(s, i, Len(s))) <=> \E j \in i .. Len(s) : y = s[j]
      <3>1. i \in 1 .. (Len(s) + 1)
        BY <2>4
      <3>. QED
        BY <2>2, <3>1, ChainRest
    <2>8. LinkAt(s, i) = x
      BY <2>4, <2>5 DEF LinkAt
    <2>9. \A j \in i .. Len(s) : j \in 1 .. Len(s)
      BY <2>4
    <2>10. ToSet(SubSeq(s, i, Len(s))) \subseteq E
      BY <2>2, <2>4, <2>7, <2>9
    <2>. QED
      BY <2>6, <2>7, <2>8, <2>10
  <1>7. ASSUME NEW l \in E \cup {L!NULL}
        PROVE  IsChain(lk2, l, L!FromIn(lk, l))
    <2> DEFINE s == L!FromIn(lk, l)
    <2>1. l \in D \cup {L!NULL}
      BY <1>4
    <2>2. IsChain(lk, l, s)
      BY <2>1, MemChain
    <2>3. ToSet(s) \subseteq E
      <3>1. CASE l \in E
        <4>1. PICK r : IsChain(lk, l, r) /\ ToSet(r) \subseteq E
          BY <1>6, <3>1
        <4>. QED
          BY <2>1, <4>1, MemChain
      <3>2. CASE l = L!NULL
        <4>1. s = <<>>
          BY <3>2, NoChain
        <4>. QED
          BY <4>1 DEF ToSet
      <3>. QED
        BY <3>1, <3>2
    <2> HIDE DEF s
    <2>4. IsChain(lk2, l, s)
      BY <1>5, <2>2, <2>3, ChainKept
    <2>. QED
      BY <2>4 DEF s
  <1>8. Mem(lk2)
    <2>1. lk2 \in [E -> [element : Keys, next : E \cup {L!NULL}]]
      <3>1. \A m \in E : lk[m] \in [element : Keys, next : E \cup {L!NULL}]
        BY <1>1, <1>4, <1>6
      <3>. QED
        BY <1>2, <3>1
    <2>. QED
      BY <1>1, <1>4, <1>5, <1>7, <2>1 DEF Mem
  <1>9. F \subseteq E \cup {L!NULL}
    <2> SUFFICES ASSUME NEW l \in F, l # L!NULL
                 PROVE  l \in E
      OBVIOUS
    <2> DEFINE s == L!FromIn(lk, l)
    <2>1. Len(s) \in Nat /\ l = LinkAt(s, 1) /\ \A i \in 1 .. Len(s) : s[i] \in ToSet(s)
      BY MemFacts
    <2>2. ToSet(s) \subseteq E
      BY <1>3
    <2> HIDE DEF s
    <2>3. 1 <= Len(s) /\ l = s[1]
      BY <2>1 DEF LinkAt
    <2>4. 1 \in 1 .. Len(s)
      BY <2>1, <2>3
    <2>. QED
      BY <2>1, <2>2, <2>3, <2>4
  <1>10. \A l \in E \cup {L!NULL} : L!FromIn(lk2, l) = L!FromIn(lk, l)
    BY <1>5, <1>7, <1>8, MemChain
  <1>. QED
    BY <1>4, <1>5, <1>8, <1>9, <1>10
-----------------------------------------------------------------------------
(* A list as a sequence with a position.                                   *)

\* What the links of c hold, and where on c the link l is.
ItemsOf(lk, c) == [i \in DOMAIN c |-> lk[c[i]].element]
PosOf(c, l) == IF l \in ToSet(c) THEN CHOOSE i \in DOMAIN c : c[i] = l ELSE 0

Injective(c) == \A i, j \in 1 .. Len(c) : c[i] = c[j] => i = j

LEMMA PosFacts ==
  ASSUME NEW D, NEW c \in Seq(D), Injective(c), NEW l
  PROVE  /\ PosOf(c, l) \in 0 .. Len(c)
         /\ \A i \in 1 .. Len(c) : c[i] = l => PosOf(c, l) = i
         /\ PosOf(c, l) # 0 => PosOf(c, l) \in 1 .. Len(c) /\ c[PosOf(c, l)] = l
         /\ (\A i \in 1 .. Len(c) : c[i] # l) => PosOf(c, l) = 0
  <1> DEFINE p == CHOOSE i \in DOMAIN c : c[i] = l
  <1>1. Len(c) \in Nat /\ DOMAIN c = 1 .. Len(c)
    BY LenProperties
  <1>2. l \in ToSet(c) <=> \E i \in 1 .. Len(c) : c[i] = l
    BY <1>1 DEF ToSet
  <1>3. CASE l \in ToSet(c)
    <2>1. \E i \in DOMAIN c : c[i] = l
      BY <1>1, <1>2, <1>3
    <2>2. p \in DOMAIN c /\ c[p] = l
      BY <2>1
    <2>3. PosOf(c, l) = p
      BY <1>3 DEF PosOf
    <2> HIDE DEF p
    <2>4. p \in 1 .. Len(c) /\ p \in 0 .. Len(c) /\ p # 0
      BY <1>1, <2>2
    <2>5. \A i \in 1 .. Len(c) : c[i] = l => i = p
      BY <2>2, <2>4 DEF Injective
    <2>. QED
      BY <2>2, <2>3, <2>4, <2>5
  <1>4. CASE l \notin ToSet(c)
    <2>1. PosOf(c, l) = 0
      BY <1>4 DEF PosOf
    <2>2. 0 \in 0 .. Len(c) /\ \A i \in 1 .. Len(c) : c[i] # l
      BY <1>1, <1>2, <1>4
    <2>. QED
      BY <2>1, <2>2
  <1>. QED
    BY <1>3, <1>4

LEMMA ItemsFacts ==
  ASSUME NEW D, NEW c \in Seq(D), NEW lk, \A l \in D : lk[l].element \in Keys
  PROVE  /\ ItemsOf(lk, c) \in Seq(Keys)
         /\ Len(ItemsOf(lk, c)) = Len(c)
         /\ \A i \in 1 .. Len(c) : ItemsOf(lk, c)[i] = lk[c[i]].element
  <1> DEFINE n == Len(c)
             t == ItemsOf(lk, c)
  <1>1. n \in Nat /\ DOMAIN c = 1 .. n /\ \A i \in 1 .. n : c[i] \in D
    BY LenProperties, ElementOfSeq
  <1>2. t = [i \in 1 .. n |-> lk[c[i]].element]
    BY <1>1 DEF ItemsOf
  <1> HIDE DEF n, t
  <1>3. t \in [1 .. n -> Keys]
    BY <1>1, <1>2
  <1>4. t \in Seq(Keys) /\ Len(t) = n
    BY <1>1, <1>3, SequenceIs
  <1>. QED
    BY <1>2, <1>4 DEF n, t

LEMMA InsertedItems ==
  ASSUME NEW D, NEW c \in Seq(D), NEW E, NEW d \in Seq(E), NEW p \in 1 .. (Len(c) + 1), NEW f \in E,
         Inserts(c, d, p, f),
         NEW lk, \A l \in D : lk[l].element \in Keys,
         NEW lk2, \A l \in E : lk2[l].element \in Keys,
         \A i \in 1 .. Len(c) : lk2[c[i]].element = lk[c[i]].element
  PROVE  ItemsOf(lk2, d) = InsertAt(ItemsOf(lk, c), p, lk2[f].element)
  <1> DEFINE n == Len(c)
             s == ItemsOf(lk, c)
             t == ItemsOf(lk2, d)
             v == lk2[f].element
             r == InsertAt(s, p, v)
  <1>1. n \in Nat /\ p \in 1 .. (n + 1) /\ v \in Keys
    BY LenProperties
  <1>2. s \in Seq(Keys) /\ Len(s) = n /\ \A i \in 1 .. n : s[i] = lk[c[i]].element
    BY ItemsFacts
  <1>3. t \in Seq(Keys) /\ Len(t) = Len(d) /\ \A i \in 1 .. Len(d) : t[i] = lk2[d[i]].element
    BY ItemsFacts
  <1>4. Len(d) = n + 1 /\ \A i \in 1 .. (n + 1) : d[i] = IF i < p THEN c[i] ELSE IF i = p THEN f ELSE c[i - 1]
    BY DEF Inserts
  <1> HIDE DEF s, t
  <1>5. /\ r \in Seq(Keys) /\ Len(r) = n + 1
        /\ \A i \in 1 .. (n + 1) : r[i] = IF i < p THEN s[i] ELSE IF i = p THEN v ELSE s[i - 1]
    <2>1. Len(s) = n /\ p \in 1 .. (Len(s) + 1) /\ s \in Seq(Keys) /\ v \in Keys
      BY <1>1, <1>2
    <2> HIDE DEF n, v
    <2>2. r \in Seq(Keys) /\ Inserts(s, r, p, v)
      BY <2>1, InsertedIs
    <2> HIDE DEF r
    <2>. QED
      BY <2>1, <2>2 DEF Inserts
  <1> HIDE DEF n, r
  <1>6. ASSUME NEW i \in 1 .. (n + 1)
        PROVE  t[i] = r[i]
    <2>1. t[i] = lk2[d[i]].element
      BY <1>3, <1>4
    <2>2. CASE i < p
      <3>1. i \in 1 .. n
        BY <1>1, <2>2
      <3>2. d[i] = c[i] /\ r[i] = s[i]
        BY <1>4, <1>5, <2>2
      <3>. QED
        BY <1>2, <2>1, <3>1, <3>2 DEF n
    <2>3. CASE i = p
      <3>1. ~(i < p)
        BY <1>1, <2>3
      <3>2. d[i] = f /\ r[i] = v
        BY <1>4, <1>5, <2>3, <3>1
      <3>. QED
        BY <2>1, <3>2
    <2>4. CASE i > p
      <3>1. ~(i < p) /\ i # p /\ i - 1 \in 1 .. n
        BY <1>1, <2>4
      <3>2. d[i] = c[i - 1] /\ r[i] = s[i - 1]
        BY <1>4, <1>5, <3>1
      <3>. QED
        BY <1>2, <2>1, <3>1, <3>2 DEF n
    <2>. QED
      BY <1>1, <2>2, <2>3, <2>4
  <1> HIDE DEF v
  <1>7. t = r
    <2>1. Len(t) = n + 1 /\ \A i \in 1 .. Len(t) : t[i] = r[i]
      BY <1>3, <1>4, <1>6
    <2>. QED
      BY <1>3, <1>5, <2>1, SameSequence
  <1>. QED
    BY <1>7 DEF t, r, s, v

LEMMA InsertedPos ==
  ASSUME NEW D, NEW c \in Seq(D), Injective(c), NEW E, NEW d \in Seq(E), Injective(d),
         NEW p \in 1 .. (Len(c) + 1), NEW f, Inserts(c, d, p, f), NEW l, l # f
  PROVE  PosOf(d, l) = IF PosOf(c, l) >= p THEN PosOf(c, l) + 1 ELSE PosOf(c, l)
  <1> DEFINE n == Len(c)
             x == PosOf(c, l)
             y == PosOf(d, l)
  <1>1. n \in Nat /\ p \in 1 .. (n + 1)
    BY LenProperties
  <1>2. /\ x \in 0 .. n
        /\ x # 0 => x \in 1 .. n /\ c[x] = l
        /\ \A i \in 1 .. n : c[i] = l => x = i
    BY PosFacts
  <1>3. /\ \A i \in 1 .. Len(d) : d[i] = l => y = i
        /\ (\A i \in 1 .. Len(d) : d[i] # l) => y = 0
    BY PosFacts
  <1>4. Len(d) = n + 1 /\ \A i \in 1 .. (n + 1) : d[i] = IF i < p THEN c[i] ELSE IF i = p THEN f ELSE c[i - 1]
    BY DEF Inserts
  <1> HIDE DEF n, x, y
  <1>5. CASE x = 0
    <2>1. ASSUME NEW i \in 1 .. (n + 1)
          PROVE  d[i] # l
      <3>1. CASE i < p
        <4>1. i \in 1 .. n /\ d[i] = c[i]
          BY <1>1, <1>4, <3>1
        <4>2. i # 0
          BY <1>1
        <4>. QED
          BY <1>2, <1>5, <4>1, <4>2
      <3>2. CASE i = p
        BY <1>1, <1>4, <3>2
      <3>3. CASE i > p
        <4>1. ~(i < p) /\ i # p /\ i - 1 \in 1 .. n
          BY <1>1, <3>3
        <4>2. d[i] = c[i - 1]
          BY <1>4, <4>1
        <4>3. i - 1 # 0
          BY <4>1
        <4>. QED
          BY <1>2, <1>5, <4>1, <4>2, <4>3
      <3>. QED
        BY <1>1, <3>1, <3>2, <3>3
    <2>2. y = 0
      BY <1>3, <1>4, <2>1
    <2>3. ~(x >= p)
      BY <1>1, <1>5
    <2>. QED
      BY <1>5, <2>2, <2>3 DEF x, y
  <1>6. CASE x # 0 /\ x >= p
    <2>1. x + 1 \in 1 .. (n + 1) /\ ~(x + 1 < p) /\ x + 1 # p /\ (x + 1) - 1 = x
      BY <1>1, <1>2, <1>6
    <2>2. d[x + 1] = l
      BY <1>2, <1>4, <1>6, <2>1
    <2>3. y = x + 1
      BY <1>3, <1>4, <2>1, <2>2
    <2>. QED
      BY <1>6, <2>3 DEF x, y
  <1>7. CASE x # 0 /\ ~(x >= p)
    <2>1. x \in 1 .. (n + 1) /\ x < p
      BY <1>1, <1>2, <1>7
    <2>2. d[x] = l
      BY <1>2, <1>4, <1>7, <2>1
    <2>3. y = x
      BY <1>3, <1>4, <2>1, <2>2
    <2>. QED
      BY <1>7, <2>3 DEF x, y
  <1>. QED
    BY <1>5, <1>6, <1>7

LEMMA RemovedItems ==
  ASSUME NEW D, NEW c \in Seq(D), NEW E, NEW d \in Seq(E), NEW p \in 1 .. Len(c),
         Removes(c, d, p),
         NEW lk, \A l \in D : lk[l].element \in Keys,
         NEW lk2, \A l \in E : lk2[l].element \in Keys,
         \A l \in E : lk2[l].element = lk[l].element
  PROVE  ItemsOf(lk2, d) = RemoveAt(ItemsOf(lk, c), p)
  <1> DEFINE n == Len(c)
             s == ItemsOf(lk, c)
             t == ItemsOf(lk2, d)
             r == RemoveAt(s, p)
  <1>1. n \in Nat /\ p \in 1 .. n /\ \A i \in 1 .. Len(d) : d[i] \in E
    BY LenProperties, ElementOfSeq
  <1>2. s \in Seq(Keys) /\ Len(s) = n /\ \A i \in 1 .. n : s[i] = lk[c[i]].element
    BY ItemsFacts
  <1>3. t \in Seq(Keys) /\ Len(t) = Len(d) /\ \A i \in 1 .. Len(d) : t[i] = lk2[d[i]].element
    BY ItemsFacts
  <1>4. Len(d) = n - 1 /\ \A i \in 1 .. (n - 1) : d[i] = IF i < p THEN c[i] ELSE c[i + 1]
    BY DEF Removes
  <1> HIDE DEF s, t
  <1>5. /\ r \in Seq(Keys) /\ Len(r) = n - 1
        /\ \A i \in 1 .. (n - 1) : r[i] = IF i < p THEN s[i] ELSE s[i + 1]
    <2>1. Len(s) = n /\ p \in 1 .. Len(s) /\ s \in Seq(Keys)
      BY <1>1, <1>2
    <2> HIDE DEF n
    <2>2. r \in Seq(Keys) /\ Removes(s, r, p)
      BY <2>1, RemovedIs
    <2> HIDE DEF r
    <2>. QED
      BY <2>1, <2>2 DEF Removes
  <1> HIDE DEF n, r
  <1>6. ASSUME NEW i \in 1 .. (n - 1)
        PROVE  t[i] = r[i]
    <2>1. t[i] = lk[d[i]].element
      BY <1>1, <1>3, <1>4
    <2>2. CASE i < p
      <3>1. i \in 1 .. n
        BY <1>1
      <3>2. d[i] = c[i] /\ r[i] = s[i]
        BY <1>4, <1>5, <2>2
      <3>. QED
        BY <1>2, <2>1, <3>1, <3>2
    <2>3. CASE ~(i < p)
      <3>1. i + 1 \in 1 .. n
        BY <1>1
      <3>2. d[i] = c[i + 1] /\ r[i] = s[i + 1]
        BY <1>4, <1>5, <2>3
      <3>. QED
        BY <1>2, <2>1, <3>1, <3>2
    <2>. QED
      BY <2>2, <2>3
  <1>7. t = r
    <2>1. Len(t) = n - 1 /\ \A i \in 1 .. Len(t) : t[i] = r[i]
      BY <1>3, <1>4, <1>6
    <2>. QED
      BY <1>3, <1>5, <2>1, SameSequence
  <1>. QED
    BY <1>7 DEF t, r, s

LEMMA RemovedPos ==
  ASSUME NEW D, NEW c \in Seq(D), Injective(c), NEW E, NEW d \in Seq(E), Injective(d),
         NEW p \in 1 .. Len(c), Removes(c, d, p), NEW l
  PROVE  PosOf(d, l) = IF PosOf(c, l) = p THEN 0
                       ELSE IF PosOf(c, l) > p THEN PosOf(c, l) - 1 ELSE PosOf(c, l)
  <1> DEFINE n == Len(c)
             x == PosOf(c, l)
             y == PosOf(d, l)
  <1>1. n \in Nat /\ p \in 1 .. n
    BY LenProperties
  <1>2. /\ x \in 0 .. n
        /\ x # 0 => x \in 1 .. n /\ c[x] = l
        /\ \A i \in 1 .. n : c[i] = l => x = i
    BY PosFacts
  <1>3. /\ \A i \in 1 .. Len(d) : d[i] = l => y = i
        /\ (\A i \in 1 .. Len(d) : d[i] # l) => y = 0
    BY PosFacts
  <1>4. Len(d) = n - 1 /\ \A i \in 1 .. (n - 1) : d[i] = IF i < p THEN c[i] ELSE c[i + 1]
    BY DEF Removes
  <1> HIDE DEF n, x, y
  <1>5. CASE x = 0 \/ x = p
    <2>1. ASSUME NEW i \in 1 .. (n - 1)
          PROVE  d[i] # l
      <3>1. CASE i < p
        <4>1. i \in 1 .. n /\ d[i] = c[i] /\ i # 0 /\ i # p
          BY <1>1, <1>4, <3>1
        <4>. QED
          BY <1>2, <1>5, <4>1
      <3>2. CASE ~(i < p)
        <4>1. i + 1 \in 1 .. n /\ i + 1 # 0 /\ i + 1 # p
          BY <1>1, <3>2
        <4>2. d[i] = c[i + 1]
          BY <1>4, <3>2
        <4>. QED
          BY <1>2, <1>5, <4>1, <4>2
      <3>. QED
        BY <3>1, <3>2
    <2>2. y = 0
      BY <1>3, <1>4, <2>1
    <2>3. ~(0 > p)
      BY <1>1
    <2>. QED
      BY <1>5, <2>2, <2>3 DEF x, y
  <1>6. CASE x # 0 /\ x > p
    <2>1. x - 1 \in 1 .. (n - 1) /\ ~(x - 1 < p) /\ x # p /\ (x - 1) + 1 = x
      BY <1>1, <1>2, <1>6
    <2>2. d[x - 1] = l
      BY <1>2, <1>4, <1>6, <2>1
    <2>3. y = x - 1
      BY <1>3, <1>4, <2>1, <2>2
    <2>. QED
      BY <1>6, <2>1, <2>3 DEF x, y
  <1>7. CASE x # 0 /\ x < p
    <2>1. x \in 1 .. (n - 1) /\ x # p /\ ~(x > p)
      BY <1>1, <1>2, <1>7
    <2>2. d[x] = l
      BY <1>2, <1>4, <1>7, <2>1
    <2>3. y = x
      BY <1>3, <1>4, <2>1, <2>2
    <2>. QED
      BY <2>1, <2>3 DEF x, y
  <1>. QED
    BY <1>1, <1>2, <1>5, <1>6, <1>7
-----------------------------------------------------------------------------
(* The invariant of the list.                                              *)

LastOf(c) == IF c = <<>> THEN L!NULL ELSE c[Len(c)]
Intact(ls, c) == ls.size = Len(c) /\ ls.last = LastOf(c)

\* The parts of the state that an operation finds, and those that it leaves.
Listed(ls, lk, cur, mis) ==
  /\ Mem(lk)
  /\ ls \in [first : DOMAIN lk \cup {L!NULL}, last : DOMAIN lk \cup {L!NULL}, size : Nat]
  /\ cur \in DOMAIN lk \cup {L!NULL}
  /\ mis \in BOOLEAN
  /\ ~mis => Intact(ls, L!FromIn(lk, ls.first))

ListInv == Listed(list, link, current, misplaced)

LEMMA ListInvNext == ListInv' <=> Listed(list', link', current', misplaced')
  BY DEF ListInv, Listed, Mem, IsChain, LinkAt, Intact, LastOf, L!FromIn, L!Steps, L!NULL

LEMMA ChainNow == L!Chain = L!FromIn(link, list.first)
  BY DEF L!Chain

LEMMA ChainNext == (L!Chain)' = L!FromIn(link', list'.first)
  BY DEF L!Chain, L!FromIn, L!Steps, L!NULL

LEMMA ItemsNow == L!Items = ItemsOf(link, L!FromIn(link, list.first))
  BY ChainNow DEF L!Items, ItemsOf

LEMMA ItemsNext == (L!Items)' = ItemsOf(link', L!FromIn(link', list'.first))
  <1>1. (L!Items)' = [i \in DOMAIN (L!Chain)' |-> link'[(L!Chain)'[i]].element]
    BY DEF L!Items
  <1>. QED
    BY <1>1, ChainNext DEF ItemsOf

LEMMA PosNow == L!At = PosOf(L!FromIn(link, list.first), current)
  BY ChainNow DEF L!At, PosOf, L!ToSet, ToSet

LEMMA PosNext == (L!At)' = PosOf(L!FromIn(link', list'.first), current')
  <1>1. (L!At)' = IF current' \in L!ToSet((L!Chain)')
                  THEN CHOOSE i \in DOMAIN (L!Chain)' : (L!Chain)'[i] = current' ELSE 0
    BY DEF L!At, L!ToSet
  <1>. QED
    BY <1>1, ChainNext DEF PosOf, L!ToSet, ToSet

\* What the contract says of a step, in terms of the chains before and after it.
LEMMA ContractOf ==
  ASSUME NEW s, s = ItemsOf(link, L!FromIn(link, list.first)),
         NEW a, a = PosOf(L!FromIn(link, list.first), current),
         NEW t, t = ItemsOf(link', L!FromIn(link', list'.first)),
         NEW b, b = PosOf(L!FromIn(link', list'.first), current'),
         misplaced = FALSE, misplaced' = FALSE
  PROVE  /\ \A p \in 1 .. (Len(s) + 1), v \in Keys :
              t = InsertAt(s, p, v) /\ b = (IF a >= p THEN a + 1 ELSE a) => L!Contract!Next
         /\ \A p \in 1 .. Len(s) :
              t = RemoveAt(s, p) /\ b = (IF a = p THEN 0 ELSE IF a > p THEN a - 1 ELSE a)
                => L!Contract!Next
         /\ t = <<>> /\ b = 0 => L!Contract!Next
         /\ t = s /\ b \in 0 .. Len(s) /\ (b \in {1, a + 1} \/ a = 0) => L!Contract!Next
         /\ s = <<>> /\ a = 0 /\ t \in Seq(Keys) /\ b = 0 => L!Contract!Next
  <1> DEFINE it == IF misplaced THEN <<>> ELSE L!Items
             at == IF misplaced THEN 0 ELSE L!At
  <1>1. s = it /\ a = at
    BY ItemsNow, PosNow
  <1>2. t = it' /\ b = at'
    <2>1. it' = IF misplaced' THEN <<>> ELSE (L!Items)'
      OBVIOUS
    <2>2. at' = IF misplaced' THEN 0 ELSE (L!At)'
      OBVIOUS
    <2>. QED
      BY <2>1, <2>2, ItemsNext, PosNext
  <1>3. \A p, v : L!Contract!Add(p, v) <=>
          it' = InsertAt(it, p, v) /\ at' = IF at >= p THEN at + 1 ELSE at
    BY DEF L!Contract!Add, L!Contract!InsertAt, InsertAt
  <1>4. \A p : L!Contract!Take(p) <=>
          it' = RemoveAt(it, p) /\ at' = IF at = p THEN 0 ELSE IF at > p THEN at - 1 ELSE at
    BY DEF L!Contract!Take, L!Contract!RemoveAt, RemoveAt
  <1>5. L!Contract!Move <=>
          it' = it /\ at' \in 0 .. Len(it) /\ (at' \in {1, at + 1} \/ at = 0)
    BY DEF L!Contract!Move
  <1>6. L!Contract!Begin <=> it = <<>> /\ at = 0 /\ it' \in Seq(Keys) /\ at' = 0
    BY DEF L!Contract!Begin
  <1>7. L!Contract!Operation <=>
          \/ \E p \in 1 .. (Len(it) + 1), v \in Keys : L!Contract!Add(p, v)
          \/ \E p \in 1 .. Len(it) : L!Contract!Take(p)
          \/ it' = <<>> /\ at' = 0
          \/ L!Contract!Move
    BY DEF L!Contract!Operation
  <1>8. L!Contract!Operation \/ L!Contract!Begin => L!Contract!Next
    BY DEF L!Contract!Next
  <1> HIDE DEF it, at
  <1>9. \A p \in 1 .. (Len(s) + 1), v \in Keys :
          t = InsertAt(s, p, v) /\ b = (IF a >= p THEN a + 1 ELSE a) => L!Contract!Next
    BY <1>1, <1>2, <1>3, <1>7, <1>8
  <1>10. \A p \in 1 .. Len(s) :
           t = RemoveAt(s, p) /\ b = (IF a = p THEN 0 ELSE IF a > p THEN a - 1 ELSE a)
             => L!Contract!Next
    BY <1>1, <1>2, <1>4, <1>7, <1>8
  <1>11. t = <<>> /\ b = 0 => L!Contract!Next
    BY <1>2, <1>7, <1>8
  <1>12. t = s /\ b \in 0 .. Len(s) /\ (b \in {1, a + 1} \/ a = 0) => L!Contract!Next
    BY <1>1, <1>2, <1>5, <1>7, <1>8
  <1>13. s = <<>> /\ a = 0 /\ t \in Seq(Keys) /\ b = 0 => L!Contract!Next
    BY <1>1, <1>2, <1>6, <1>8
  <1>. QED
    BY <1>9, <1>10, <1>11, <1>12, <1>13

LEMMA Becomes ==
  ASSUME NEW ls, NEW lk, NEW cur, L!Become(ls, lk, cur), Listed(ls, lk, cur, misplaced')
  PROVE  /\ ListInv'
         /\ list' = ls /\ current' = cur
         /\ L!FromIn(link', list'.first) = L!FromIn(lk, ls.first)
         /\ \A m \in DOMAIN link' : m \in DOMAIN lk /\ link'[m] = lk[m]
  <1> DEFINE F == {ls.first, ls.last, cur}
  <1>1. list' = ls /\ current' = cur
        /\ link' = L!Restrict(lk, UNION {L!ToSet(L!FromIn(lk, l)) : l \in F})
    BY DEF L!Become
  <1>2. Mem(lk) /\ F \subseteq DOMAIN lk \cup {L!NULL} /\ ls.size \in Nat
        /\ ls = [first |-> ls.first, last |-> ls.last, size |-> ls.size]
    BY DEF Listed
  <1> HIDE DEF F
  <1>3. /\ Mem(link')
        /\ F \subseteq DOMAIN link' \cup {L!NULL}
        /\ DOMAIN link' \subseteq DOMAIN lk
        /\ \A l \in DOMAIN link' \cup {L!NULL} : L!FromIn(link', l) = L!FromIn(lk, l)
        /\ \A m \in DOMAIN link' : link'[m] = lk[m]
    <2>1. link' = L!Restrict(lk, UNION {L!ToSet(L!FromIn(lk, l)) : l \in F})
      BY <1>1
    <2>2. Mem(lk)
      BY <1>2
    <2>3. F \subseteq DOMAIN lk \cup {L!NULL}
      BY <1>2
    <2> DEFINE lk2 == link'
    <2>4. Keeps(lk, F, lk2)
      BY <2>1 DEF Keeps
    <2> HIDE DEF lk2
    <2>5. /\ Mem(lk2)
          /\ F \subseteq DOMAIN lk2 \cup {L!NULL}
          /\ DOMAIN lk2 \subseteq DOMAIN lk
          /\ \A l \in DOMAIN lk2 \cup {L!NULL} : L!FromIn(lk2, l) = L!FromIn(lk, l)
          /\ \A m \in DOMAIN lk2 : lk2[m] = lk[m]
      BY <2>2, <2>3, <2>4, KeptMem
    <2>. QED
      BY <2>5 DEF lk2
  <1>4. ls.first \in F /\ ls.last \in F /\ cur \in F
    BY DEF F
  <1>5. L!FromIn(link', list'.first) = L!FromIn(lk, ls.first)
    BY <1>1, <1>3, <1>4
  <1>6. ls \in [first : DOMAIN link' \cup {L!NULL}, last : DOMAIN link' \cup {L!NULL}, size : Nat]
    BY <1>2, <1>3, <1>4
  <1>7. Listed(list', link', current', misplaced')
    BY <1>1, <1>3, <1>4, <1>5, <1>6 DEF Listed
  <1>. QED
    BY <1>1, <1>3, <1>5, <1>7, ListInvNext
\* What Listed says of a chain.
LEMMA ListedChain ==
  ASSUME NEW ls, NEW lk, NEW cur, NEW mis, Listed(ls, lk, cur, mis)
  PROVE  /\ Mem(lk) /\ L!NULL \notin DOMAIN lk
         /\ L!FromIn(lk, ls.first) \in Seq(DOMAIN lk)
         /\ Injective(L!FromIn(lk, ls.first))
         /\ \A m \in DOMAIN lk : lk[m].element \in Keys /\ lk[m].next \in DOMAIN lk \cup {L!NULL}
         /\ ls.first \in DOMAIN lk \cup {L!NULL} /\ ls.last \in DOMAIN lk \cup {L!NULL}
         /\ ls.size \in Nat /\ cur \in DOMAIN lk \cup {L!NULL}
         /\ ls = [first |-> ls.first, last |-> ls.last, size |-> ls.size]
  <1>1. /\ Mem(lk) /\ ls.first \in DOMAIN lk \cup {L!NULL} /\ ls.last \in DOMAIN lk \cup {L!NULL}
        /\ ls.size \in Nat /\ cur \in DOMAIN lk \cup {L!NULL}
        /\ ls = [first |-> ls.first, last |-> ls.last, size |-> ls.size]
    BY DEF Listed
  <1>2. L!NULL \notin DOMAIN lk /\ L!FromIn(lk, ls.first) \in Seq(DOMAIN lk)
    BY <1>1, MemFacts
  <1>3. Injective(L!FromIn(lk, ls.first))
    BY <1>1, MemFacts DEF Injective
  <1>4. \A m \in DOMAIN lk : lk[m].element \in Keys /\ lk[m].next \in DOMAIN lk \cup {L!NULL}
    BY <1>1 DEF Mem
  <1>. QED
    BY <1>1, <1>2, <1>3, <1>4

LEMMA Adds ==
  ASSUME ListInv, misplaced = FALSE, misplaced' = FALSE,
         NEW ls, NEW lk, L!Become(ls, lk, current), Listed(ls, lk, current, misplaced'),
         NEW f \in DOMAIN lk \ DOMAIN link, NEW v \in Keys, lk[f].element = v,
         NEW p \in 1 .. (Len(L!FromIn(link, list.first)) + 1),
         Inserts(L!FromIn(link, list.first), L!FromIn(lk, ls.first), p, f),
         \A m \in DOMAIN link : m \in DOMAIN lk /\ lk[m].element = link[m].element
  PROVE  ListInv' /\ L!Contract!Next
  <1> DEFINE c == L!FromIn(link, list.first)
             d == L!FromIn(lk, ls.first)
             lk2 == link'
             D == DOMAIN link
             E == DOMAIN lk2
             a == PosOf(c, current)
             b == PosOf(d, current)
             s == ItemsOf(link, c)
             t == ItemsOf(lk2, d)
  <1>1. /\ ListInv' /\ current' = current /\ L!FromIn(link', list'.first) = d
        /\ \A m \in E : m \in DOMAIN lk /\ lk2[m] = lk[m]
    BY Becomes
  <1>2. /\ c \in Seq(D) /\ Injective(c) /\ current \in D \cup {L!NULL}
        /\ \A m \in D : link[m].element \in Keys
    BY ListedChain DEF ListInv
  <1>3. /\ d \in Seq(E) /\ Injective(d) /\ \A m \in E : lk2[m].element \in Keys
    <2>1. Listed(list', link', current', misplaced')
      BY <1>1, ListInvNext
    <2>2. /\ L!FromIn(link', list'.first) \in Seq(E) /\ Injective(L!FromIn(link', list'.first))
          /\ \A m \in E : lk2[m].element \in Keys
      BY <2>1, ListedChain
    <2>. QED
      BY <1>1, <2>2
  <1>4. f # current
    <2>1. f # L!NULL
      BY ListedChain
    <2>. QED
      BY <1>2, <2>1
  <1>5. Inserts(c, d, p, f)
    OBVIOUS
  <1>6. p \in 1 .. (Len(c) + 1) /\ Len(c) \in Nat
    BY <1>2, LenProperties
  <1> HIDE DEF c, d, lk2, D, E
  <1>7. \A i \in 1 .. Len(d) : d[i] \in E
    BY <1>3, ElementOfSeq
  <1>8. f \in E
    <2>1. d[p] = f /\ p \in 1 .. Len(d)
      BY <1>5, <1>6 DEF Inserts
    <2>. QED
      BY <1>7, <2>1
  <1>9. \A i \in 1 .. Len(c) : c[i] \in E /\ c[i] \in D
    <2> SUFFICES ASSUME NEW i \in 1 .. Len(c)
                 PROVE  c[i] \in E
      BY <1>2, ElementOfSeq
    <2>1. CASE i < p
      <3>1. i \in 1 .. (Len(c) + 1)
        BY <1>6
      <3>2. d[i] = c[i] /\ Len(d) = Len(c) + 1
        BY <1>5, <2>1, <3>1 DEF Inserts
      <3>. QED
        BY <1>7, <3>1, <3>2
    <2>2. CASE ~(i < p)
      <3>1. i + 1 \in 1 .. (Len(c) + 1) /\ ~(i + 1 < p) /\ i + 1 # p /\ (i + 1) - 1 = i
        BY <1>6, <2>2
      <3>2. d[i + 1] = c[i] /\ Len(d) = Len(c) + 1
        BY <1>5, <3>1 DEF Inserts
      <3>. QED
        BY <1>7, <3>1, <3>2
    <2>. QED
      BY <2>1, <2>2
  <1>10. \A i \in 1 .. Len(c) : lk2[c[i]].element = link[c[i]].element
    <2>1. \A m \in D : lk[m].element = link[m].element
      BY DEF D
    <2>. QED
      BY <1>1, <1>9, <2>1
  <1>11. lk2[f].element = v
    BY <1>1, <1>8
  <1>12. t = InsertAt(s, p, v)
    <2>1. t = InsertAt(s, p, lk2[f].element)
      BY <1>2, <1>3, <1>5, <1>6, <1>8, <1>10, InsertedItems
    <2>. QED
      BY <1>11, <2>1
  <1>13. b = IF a >= p THEN a + 1 ELSE a
    BY <1>2, <1>3, <1>4, <1>5, <1>6, InsertedPos
  <1>14. Len(s) = Len(c)
    BY <1>2, ItemsFacts
  <1>15. /\ s = ItemsOf(link, L!FromIn(link, list.first))
         /\ a = PosOf(L!FromIn(link, list.first), current)
         /\ t = ItemsOf(link', L!FromIn(link', list'.first))
         /\ b = PosOf(L!FromIn(link', list'.first), current')
    BY <1>1 DEF c, lk2
  <1> HIDE DEF a, b, s, t
  <1>16. p \in 1 .. (Len(s) + 1)
    BY <1>6, <1>14
  <1>17. L!Contract!Next
    BY <1>12, <1>13, <1>15, <1>16, ContractOf
  <1>. QED
    BY <1>1, <1>17

LEMMA Takes ==
  ASSUME ListInv, misplaced = FALSE, misplaced' = FALSE,
         NEW ls, NEW lk, L!Become(ls, lk, current), Listed(ls, lk, current, misplaced'),
         NEW p \in 1 .. Len(L!FromIn(link, list.first)),
         Removes(L!FromIn(link, list.first), L!FromIn(lk, ls.first), p),
         DOMAIN lk = DOMAIN link, \A m \in DOMAIN link : lk[m].element = link[m].element
  PROVE  ListInv' /\ L!Contract!Next
  <1> DEFINE c == L!FromIn(link, list.first)
             d == L!FromIn(lk, ls.first)
             lk2 == link'
             D == DOMAIN link
             E == DOMAIN lk2
             a == PosOf(c, current)
             b == PosOf(d, current)
             s == ItemsOf(link, c)
             t == ItemsOf(lk2, d)
  <1>1. /\ ListInv' /\ current' = current /\ L!FromIn(link', list'.first) = d
        /\ \A m \in E : m \in DOMAIN lk /\ lk2[m] = lk[m]
    BY Becomes
  <1>2. c \in Seq(D) /\ Injective(c) /\ \A m \in D : link[m].element \in Keys
    BY ListedChain DEF ListInv
  <1>3. /\ d \in Seq(E) /\ Injective(d) /\ \A m \in E : lk2[m].element \in Keys
    <2>1. Listed(list', link', current', misplaced')
      BY <1>1, ListInvNext
    <2>2. /\ L!FromIn(link', list'.first) \in Seq(E) /\ Injective(L!FromIn(link', list'.first))
          /\ \A m \in E : lk2[m].element \in Keys
      BY <2>1, ListedChain
    <2>. QED
      BY <1>1, <2>2
  <1>4. \A m \in E : lk2[m].element = link[m].element
    BY <1>1
  <1>5. Removes(c, d, p)
    OBVIOUS
  <1>6. p \in 1 .. Len(c) /\ Len(c) \in Nat
    BY <1>2, LenProperties
  <1> HIDE DEF c, d, lk2, D, E
  <1>7. t = RemoveAt(s, p)
    BY <1>2, <1>3, <1>4, <1>5, <1>6, RemovedItems
  <1>8. b = IF a = p THEN 0 ELSE IF a > p THEN a - 1 ELSE a
    BY <1>2, <1>3, <1>5, <1>6, RemovedPos
  <1>9. Len(s) = Len(c)
    BY <1>2, ItemsFacts
  <1>10. /\ s = ItemsOf(link, L!FromIn(link, list.first))
         /\ a = PosOf(L!FromIn(link, list.first), current)
         /\ t = ItemsOf(link', L!FromIn(link', list'.first))
         /\ b = PosOf(L!FromIn(link', list'.first), current')
    BY <1>1 DEF c, lk2
  <1> HIDE DEF a, b, s, t
  <1>11. p \in 1 .. Len(s)
    BY <1>6, <1>9
  <1>12. L!Contract!Next
    BY <1>7, <1>8, <1>10, <1>11, ContractOf
  <1>. QED
    BY <1>1, <1>12
-----------------------------------------------------------------------------
(* The operations of the list.                                             *)

\* e is what follows in c from i on.
Rest(c, i, e) ==
  /\ Len(e) = Len(c) + 1 - i
  /\ \A k \in 1 .. (Len(c) + 1 - i) : e[k] = c[i + k - 1]
  /\ \A x : x \in ToSet(e) <=> \E j \in i .. Len(c) : x = c[j]

LEMMA RestIs ==
  ASSUME NEW lk, Mem(lk), NEW l \in DOMAIN lk \cup {L!NULL},
         NEW i \in 1 .. (Len(L!FromIn(lk, l)) + 1)
  PROVE  /\ LinkAt(L!FromIn(lk, l), i) \in DOMAIN lk \cup {L!NULL}
         /\ Rest(L!FromIn(lk, l), i, L!FromIn(lk, LinkAt(L!FromIn(lk, l), i)))
  <1> DEFINE c == L!FromIn(lk, l)
             q == LinkAt(c, i)
             e == L!FromIn(lk, q)
             t == SubSeq(c, i, Len(c))
  <1>1. IsChain(lk, l, c) /\ Len(c) \in Nat /\ \A j \in 1 .. Len(c) : c[j] \in DOMAIN lk
    BY MemChain, MemFacts
  <1>a. i \in 1 .. (Len(c) + 1)
    OBVIOUS
  <1> HIDE DEF c
  <1>2. q \in DOMAIN lk \cup {L!NULL}
    <2>1. CASE i <= Len(c)
      <3>1. i \in 1 .. Len(c)
        BY <1>1, <1>a, <2>1
      <3>. QED
        BY <1>1, <2>1, <3>1 DEF LinkAt
    <2>2. CASE ~(i <= Len(c))
      BY <2>2 DEF LinkAt
    <2>. QED
      BY <2>1, <2>2
  <1>3. /\ IsChain(lk, q, t)
        /\ \A x : x \in ToSet(t) <=> \E j \in i .. Len(c) : x = c[j]
        /\ Len(t) = Len(c) + 1 - i
        /\ \A k \in 1 .. (Len(c) + 1 - i) : t[k] = c[i + k - 1]
    <2>1. i \in Nat
      BY <1>1, <1>a
    <2>. QED
      BY <1>1, <1>a, <2>1, ChainRest
  <1> HIDE DEF t, q
  <1>4. e = t
    BY <1>2, <1>3, MemChain
  <1> HIDE DEF e
  <1>5. Rest(c, i, e)
    BY <1>3, <1>4 DEF Rest
  <1>. QED
    BY <1>2, <1>5 DEF e, q, c

\* The list as an operation finds it.
LEMMA Found ==
  ASSUME ListInv, misplaced = FALSE, NEW c, c = L!FromIn(link, list.first)
  PROVE  /\ Mem(link) /\ L!NULL \notin DOMAIN link
         /\ c \in Seq(DOMAIN link) /\ Len(c) \in Nat /\ DOMAIN c = 1 .. Len(c)
         /\ \A i \in 1 .. Len(c) : c[i] \in DOMAIN link /\ link[c[i]].next = LinkAt(c, i + 1)
         /\ Injective(c)
         /\ list.first \in DOMAIN link \cup {L!NULL} /\ list.first = LinkAt(c, 1)
         /\ list.last \in DOMAIN link \cup {L!NULL} /\ list.last = LastOf(c)
         /\ list.size = Len(c)
         /\ current \in DOMAIN link \cup {L!NULL}
         /\ \A m \in DOMAIN link : link[m].element \in Keys /\ link[m].next \in DOMAIN link \cup {L!NULL}
         /\ list = [first |-> list.first, last |-> list.last, size |-> list.size]
  <1>1. Listed(list, link, current, misplaced)
    BY DEF ListInv
  <1>2. /\ Mem(link) /\ L!NULL \notin DOMAIN link /\ c \in Seq(DOMAIN link) /\ Injective(c)
        /\ list.first \in DOMAIN link \cup {L!NULL} /\ list.last \in DOMAIN link \cup {L!NULL}
        /\ current \in DOMAIN link \cup {L!NULL}
        /\ \A m \in DOMAIN link : link[m].element \in Keys /\ link[m].next \in DOMAIN link \cup {L!NULL}
        /\ list = [first |-> list.first, last |-> list.last, size |-> list.size]
    BY <1>1, ListedChain
  <1>3. /\ Len(c) \in Nat /\ DOMAIN c = 1 .. Len(c) /\ list.first = LinkAt(c, 1)
        /\ \A i \in 1 .. Len(c) : c[i] \in DOMAIN link /\ link[c[i]].next = LinkAt(c, i + 1)
    BY <1>2, MemFacts
  <1>4. list.size = Len(c) /\ list.last = LastOf(c)
    BY <1>1 DEF Listed, Intact
  <1>. QED
    BY <1>2, <1>3, <1>4

LEMMA EmptyIs ==
  ASSUME NEW S, NEW c \in Seq(S)
  PROVE  c = <<>> <=> Len(c) = 0
  BY EmptySeq

LEMMA FreshIs ==
  ASSUME L!Room
  PROVE  L!Fresh \in Links \ DOMAIN link
  BY DEF L!Room, L!Fresh

\* What create_link makes of the memory.
LEMMA NewLinkIs ==
  ASSUME Mem(link), L!Room, NEW v \in Keys, NEW q \in DOMAIN link \cup {L!NULL}
  PROVE  /\ Linked(link, L!Fresh, v, q, L!NewLink(L!Fresh, v, q))
         /\ L!Fresh # L!NULL /\ L!Fresh \notin DOMAIN link
  <1> DEFINE f == L!Fresh
             made == L!NewLink(f, v, q)
  <1>1. f \in Links \ DOMAIN link
    BY FreshIs
  <1>2. Makes(link, f, v, q, made)
    BY DEF L!NewLink, L!WithLink, Makes
  <1> HIDE DEF f, made
  <1>3. Linked(link, f, v, q, made)
    BY <1>1, <1>2, MadeMem
  <1>4. f # L!NULL /\ f \notin DOMAIN link
    BY <1>1, LinksAssumption
  <1>. QED
    BY <1>3, <1>4 DEF f, made

\* The first link of a list: append, prepend and insert are the same.
LEMMA FirstLink ==
  ASSUME ListInv, misplaced = FALSE, misplaced' = FALSE, L!Room, NEW v \in Keys, list.size = 0,
         NEW ls, ls = [first |-> L!Fresh, last |-> L!Fresh, size |-> 1],
         L!Become(ls, L!NewLink(L!Fresh, v, L!NULL), current)
  PROVE  ListInv' /\ L!Contract!Next
  <1> DEFINE f == L!Fresh
             lk == L!NewLink(f, v, L!NULL)
             c == L!FromIn(link, list.first)
             d == L!FromIn(lk, f)
  <1>1. /\ Len(c) = 0 /\ current \in DOMAIN link \cup {L!NULL} /\ Mem(link)
    BY Found
  <1>2. /\ Mem(lk) /\ f # L!NULL /\ f \notin DOMAIN link
        /\ DOMAIN lk = DOMAIN link \cup {f}
        /\ Inserts(L!FromIn(link, L!NULL), d, 1, f)
        /\ lk[f].element = v
        /\ \A m \in DOMAIN link : lk[m] = link[m]
    <2>1. L!NULL \in DOMAIN link \cup {L!NULL}
      OBVIOUS
    <2>2. Linked(link, f, v, L!NULL, lk) /\ f # L!NULL /\ f \notin DOMAIN link
      BY <1>1, <2>1, NewLinkIs
    <2> HIDE DEF f, lk
    <2>. QED
      BY <2>2 DEF Linked
  <1>3. Len(L!FromIn(link, L!NULL)) = 0
    <2>1. L!FromIn(link, L!NULL) = <<>>
      BY <1>1, NoChain
    <2>. QED
      BY <2>1
  <1> HIDE DEF f, lk, c, d
  <1>4. Len(d) = 1 /\ d[1] = f
    BY <1>2, <1>3 DEF Inserts
  <1>5. Inserts(c, d, 1, f)
    <2>1. \A i \in 1 .. (Len(c) + 1) : i = 1 /\ ~(i < 1)
      BY <1>1
    <2>. QED
      BY <1>1, <1>4, <2>1 DEF Inserts
  <1>6. ls.first = f /\ ls.last = f /\ ls.size = 1
        /\ ls = [first |-> f, last |-> f, size |-> 1]
    BY DEF f
  <1>7. Intact(ls, d)
    <2>1. d # <<>>
      BY <1>4
    <2>. QED
      BY <1>4, <1>6, <2>1 DEF Intact, LastOf
  <1>8. d = L!FromIn(lk, ls.first)
    BY <1>6 DEF d
  <1>9. Listed(ls, lk, current, misplaced')
    <2>1. ls \in [first : DOMAIN lk \cup {L!NULL}, last : DOMAIN lk \cup {L!NULL}, size : Nat]
      BY <1>2, <1>6
    <2>2. current \in DOMAIN lk \cup {L!NULL}
      BY <1>1, <1>2
    <2>. QED
      BY <1>2, <1>7, <1>8, <2>1, <2>2 DEF Listed
  <1>10. L!Become(ls, lk, current)
    BY DEF lk, f
  <1>11. Inserts(L!FromIn(link, list.first), L!FromIn(lk, ls.first), 1, f)
    BY <1>5, <1>8 DEF c
  <1>12. 1 \in 1 .. (Len(L!FromIn(link, list.first)) + 1)
    BY <1>1 DEF c
  <1>13. \A m \in DOMAIN link : m \in DOMAIN lk /\ lk[m].element = link[m].element
    BY <1>2
  <1>14. f \in DOMAIN lk \ DOMAIN link /\ lk[f].element = v
    BY <1>2
  <1>. QED
    BY <1>9, <1>10, <1>11, <1>12, <1>13, <1>14, Adds

LEMMA AppendStep ==
  ASSUME ListInv, misplaced = FALSE, NEW v \in Keys, L!AppendItem(v)
  PROVE  ListInv' /\ L!Contract!Next
  <1> DEFINE f == L!Fresh
             made == L!NewLink(f, v, L!NULL)
             lk == [made EXCEPT ![list.last].next = f]
             c == L!FromIn(link, list.first)
             n == Len(c)
             d == L!FromIn(lk, list.first)
             ls == [L!Created(f) EXCEPT !.last = f]
             e == L!FromIn(made, f)
  <1>1. /\ L!Room /\ misplaced' = FALSE
        /\ L!Become(ls, IF list.size > 0 THEN lk ELSE made, current)
    BY DEF L!AppendItem
  <1>2. CASE list.size = 0
    <2>1. ls = [first |-> f, last |-> f, size |-> 1]
      BY <1>2 DEF L!Created
    <2>2. L!Become(ls, made, current)
      BY <1>1, <1>2
    <2> HIDE DEF ls
    <2>. QED
      BY <1>1, <1>2, <2>1, <2>2, FirstLink
  <1>3. CASE list.size # 0
    <2>1. /\ Mem(link) /\ n \in Nat /\ \A i \in 1 .. n : c[i] \in DOMAIN link
          /\ list.size = n /\ list.last = LastOf(c) /\ c \in Seq(DOMAIN link)
          /\ list.first \in DOMAIN link \cup {L!NULL}
          /\ current \in DOMAIN link \cup {L!NULL}
      BY Found
    <2>2. /\ Mem(made) /\ f # L!NULL /\ f \notin DOMAIN link
          /\ DOMAIN made = DOMAIN link \cup {f}
          /\ L!FromIn(made, list.first) = c
          /\ Inserts(L!FromIn(link, L!NULL), e, 1, f)
          /\ made[f].element = v
          /\ \A m \in DOMAIN link : made[m] = link[m]
      <3>1. L!NULL \in DOMAIN link \cup {L!NULL}
        OBVIOUS
      <3>2. Linked(link, f, v, L!NULL, made) /\ f # L!NULL /\ f \notin DOMAIN link
        BY <1>1, <2>1, <3>1, NewLinkIs
      <3> HIDE DEF f, made
      <3>. QED
        BY <2>1, <3>2 DEF Linked
    <2>3. Len(L!FromIn(link, L!NULL)) = 0
      <3>1. L!FromIn(link, L!NULL) = <<>>
        BY <2>1, NoChain
      <3>. QED
        BY <3>1
    <2>4. ls = [first |-> list.first, last |-> f, size |-> n + 1]
      BY <1>3, <2>1 DEF L!Created
    <2>5. n \in 1 .. n /\ list.last = c[n]
      BY <1>3, <2>1, EmptyIs DEF LastOf
    <2>6. list.size > 0
      BY <2>1, <2>5
    <2>7. L!Become(ls, lk, current)
      BY <1>1, <2>6
    <2> DEFINE p == list.last
    <2>8. p \in DOMAIN made /\ p # f /\ p = c[n]
      BY <2>1, <2>2, <2>5
    <2>9. Redirects(made, p, f, lk)
      <3>1. f \in DOMAIN made \cup {L!NULL}
        BY <2>2
      <3> HIDE DEF f, made, p
      <3>2. Redirects(made, p, f, [made EXCEPT ![p].next = f])
        BY <2>2, <2>8, <3>1, ExceptRedirects
      <3>. QED
        BY <3>2 DEF p
    <2> HIDE DEF made, lk, c, d, ls, e, p, f
    <2>10. Len(e) = 1 /\ e[1] = f
      BY <2>2, <2>3 DEF Inserts
    <2>11. p \notin ToSet(e)
      <3>1. f \in DOMAIN made \cup {L!NULL}
        BY <2>2
      <3>2. \A x : x \in ToSet(e) <=> \E i \in 1 .. Len(e) : x = e[i]
        BY <2>2, <3>1, MemFacts DEF e
      <3>3. \A i \in 1 .. 1 : i = 1
        OBVIOUS
      <3>. QED
        BY <2>8, <2>10, <3>2, <3>3
    <2>12. /\ Mem(lk) /\ DOMAIN lk = DOMAIN made
           /\ \A m \in DOMAIN made : lk[m].element = made[m].element
           /\ \A l \in DOMAIN made \cup {L!NULL} : \A i \in 1 .. Len(L!FromIn(made, l)) :
                L!FromIn(made, l)[i] = p => Over(L!FromIn(lk, l), L!FromIn(made, l), i, e)
      <3>1. f \in DOMAIN made \cup {L!NULL}
        BY <2>2
      <3>. QED
        BY <2>2, <2>8, <2>9, <2>11, <3>1, RedirectedMem DEF e
    <2>13. Over(d, c, n, e)
      <3>1. list.first \in DOMAIN made \cup {L!NULL}
        BY <2>1, <2>2
      <3>2. L!FromIn(made, list.first) = c
        BY <2>2
      <3>. QED
        BY <2>5, <2>8, <2>12, <3>1, <3>2 DEF d
    <2> HIDE DEF n
    <2>14. Len(d) = n + 1 /\ d[n + 1] = f /\ \A j \in 1 .. n : d[j] = c[j]
      <3>1. /\ n + 1 \in 1 .. (n + 1) /\ ~(n + 1 <= n) /\ (n + 1) - n = 1
            /\ \A j \in 1 .. n : j \in 1 .. (n + 1) /\ j <= n
        BY <2>1
      <3>. QED
        BY <2>10, <2>13, <3>1 DEF Over
    <2>15. Inserts(c, d, n + 1, f)
      <3>1. \A i \in 1 .. (n + 1) : i < n + 1 => i \in 1 .. n
        BY <2>1
      <3>2. \A i \in 1 .. (n + 1) : ~(i < n + 1) => i = n + 1
        BY <2>1
      <3>. QED
        BY <2>14, <3>1, <3>2 DEF Inserts, n
    <2>16. ls.first = list.first /\ ls.last = f /\ ls.size = n + 1
      BY <2>4
    <2>17. Intact(ls, d)
      <3>1. d # <<>>
        BY <2>1, <2>14
      <3>. QED
        BY <2>14, <2>16, <3>1 DEF Intact, LastOf
    <2>18. d = L!FromIn(lk, ls.first)
      BY <2>16 DEF d
    <2>19. Listed(ls, lk, current, misplaced')
      <3>1. ls \in [first : DOMAIN lk \cup {L!NULL}, last : DOMAIN lk \cup {L!NULL}, size : Nat]
        BY <2>1, <2>2, <2>4, <2>12
      <3>2. current \in DOMAIN lk \cup {L!NULL}
        BY <2>1, <2>2, <2>12
      <3>. QED
        BY <1>1, <2>12, <2>17, <2>18, <3>1, <3>2 DEF Listed
    <2>20. Inserts(L!FromIn(link, list.first), L!FromIn(lk, ls.first), n + 1, f)
      BY <2>15, <2>18 DEF c
    <2>21. n + 1 \in 1 .. (Len(L!FromIn(link, list.first)) + 1)
      BY <2>1 DEF c, n
    <2>22. \A m \in DOMAIN link : m \in DOMAIN lk /\ lk[m].element = link[m].element
      BY <2>2, <2>12
    <2>23. f \in DOMAIN lk \ DOMAIN link /\ lk[f].element = v
      BY <2>2, <2>12
    <2> DEFINE k == n + 1
    <2> HIDE DEF k
    <2>24. Inserts(L!FromIn(link, list.first), L!FromIn(lk, ls.first), k, f)
           /\ k \in 1 .. (Len(L!FromIn(link, list.first)) + 1)
      BY <2>20, <2>21 DEF k
    <2>. QED
      BY <1>1, <2>7, <2>19, <2>22, <2>23, <2>24, Adds
  <1>. QED
    BY <1>2, <1>3
LEMMA PrependStep ==
  ASSUME ListInv, misplaced = FALSE, NEW v \in Keys, L!Prepend(v)
  PROVE  ListInv' /\ L!Contract!Next
  <1> DEFINE f == L!Fresh
             lk == L!NewLink(f, v, list.first)
             c == L!FromIn(link, list.first)
             n == Len(c)
             d == L!FromIn(lk, f)
             ls == [L!Created(f) EXCEPT !.first = f]
  <1>1. L!Room /\ misplaced' = FALSE /\ L!Become(ls, lk, current)
    BY DEF L!Prepend
  <1>2. /\ Mem(link) /\ n \in Nat /\ \A i \in 1 .. n : c[i] \in DOMAIN link
        /\ list.size = n /\ list.last = LastOf(c) /\ c \in Seq(DOMAIN link)
        /\ list.first \in DOMAIN link \cup {L!NULL}
        /\ list.last \in DOMAIN link \cup {L!NULL}
        /\ current \in DOMAIN link \cup {L!NULL}
    BY Found
  <1>3. /\ Mem(lk) /\ f # L!NULL /\ f \notin DOMAIN link
        /\ DOMAIN lk = DOMAIN link \cup {f}
        /\ Inserts(c, d, 1, f)
        /\ lk[f].element = v
        /\ \A m \in DOMAIN link : lk[m] = link[m]
    <2>1. Linked(link, f, v, list.first, lk) /\ f # L!NULL /\ f \notin DOMAIN link
      BY <1>1, <1>2, NewLinkIs
    <2> HIDE DEF f, lk
    <2>. QED
      BY <2>1 DEF Linked
  <1>4. /\ ls.first = f /\ ls.last = (IF n = 0 THEN f ELSE list.last) /\ ls.size = n + 1
        /\ ls = [first |-> ls.first, last |-> ls.last, size |-> ls.size]
    BY <1>2 DEF L!Created
  <1>5. c = <<>> <=> n = 0
    BY <1>2, EmptyIs
  <1> HIDE DEF f, lk, c, d, ls
  <1>6. ls.last = LastOf(d) /\ Len(d) = n + 1
    <2>1. Len(d) = n + 1 /\ d # <<>>
      BY <1>2, <1>3 DEF Inserts
    <2>2. CASE n = 0
      <3>1. 1 \in 1 .. (n + 1) /\ n + 1 = 1
        BY <2>2
      <3>2. d[1] = f
        BY <1>3, <3>1 DEF Inserts
      <3>. QED
        BY <1>4, <2>1, <2>2, <3>1, <3>2 DEF LastOf
    <2>3. CASE n # 0
      <3>1. n + 1 \in 1 .. (n + 1) /\ ~(n + 1 < 1) /\ n + 1 # 1 /\ (n + 1) - 1 = n
        BY <1>2, <2>3
      <3>2. d[n + 1] = c[n]
        BY <1>3, <3>1 DEF Inserts
      <3>. QED
        BY <1>2, <1>4, <1>5, <2>1, <2>3, <3>2 DEF LastOf
    <2>. QED
      BY <2>1, <2>2, <2>3
  <1>7. d = L!FromIn(lk, ls.first)
    BY <1>4 DEF d
  <1>8. Listed(ls, lk, current, misplaced')
    <2>1. ls \in [first : DOMAIN lk \cup {L!NULL}, last : DOMAIN lk \cup {L!NULL}, size : Nat]
      BY <1>2, <1>3, <1>4
    <2>2. current \in DOMAIN lk \cup {L!NULL}
      BY <1>2, <1>3
    <2>3. Intact(ls, d)
      BY <1>4, <1>6 DEF Intact
    <2>. QED
      BY <1>1, <1>3, <1>7, <2>1, <2>2, <2>3 DEF Listed
  <1>9. Inserts(L!FromIn(link, list.first), L!FromIn(lk, ls.first), 1, f)
    BY <1>3, <1>7 DEF c
  <1>10. 1 \in 1 .. (Len(L!FromIn(link, list.first)) + 1)
    BY <1>2 DEF c
  <1>11. \A m \in DOMAIN link : m \in DOMAIN lk /\ lk[m].element = link[m].element
    BY <1>3
  <1>12. f \in DOMAIN lk \ DOMAIN link /\ lk[f].element = v
    BY <1>3
  <1>. QED
    BY <1>1, <1>8, <1>9, <1>10, <1>11, <1>12, Adds

LEMMA InsertFirstStep ==
  ASSUME ListInv, misplaced = FALSE, NEW v \in Keys, L!InsertFirst(v)
  PROVE  ListInv' /\ L!Contract!Next
  <1> DEFINE c == L!FromIn(link, list.first)
             ls == [first |-> L!Fresh, last |-> L!Fresh, size |-> L!Created(L!Fresh).size]
  <1>1. /\ L!Room /\ misplaced' = FALSE /\ list.first = L!NULL
        /\ L!Become(ls, L!NewLink(L!Fresh, v, L!NULL), current)
    BY DEF L!InsertFirst
  <1>2. list.size = 0
    <2>1. Mem(link) /\ list.size = Len(c)
      BY Found
    <2>2. c = <<>>
      BY <1>1, <2>1, NoChain
    <2>. QED
      BY <2>1, <2>2
  <1>3. ls = [first |-> L!Fresh, last |-> L!Fresh, size |-> 1]
    BY <1>2 DEF L!Created
  <1> HIDE DEF ls
  <1>. QED
    BY <1>1, <1>2, <1>3, FirstLink

LEMMA RemoveHeadStep ==
  ASSUME ListInv, misplaced = FALSE, L!RemoveHead
  PROVE  ListInv' /\ L!Contract!Next
  <1> DEFINE c == L!FromIn(link, list.first)
             n == Len(c)
             q == LinkAt(c, 2)
             d == L!FromIn(link, q)
             ls == L!Destroyed([list EXCEPT !.first = link[list.first].next])
  <1>1. misplaced' = FALSE /\ list.size > 0 /\ L!Become(ls, link, current)
    BY DEF L!RemoveHead
  <1>2. /\ Mem(link) /\ n \in Nat
        /\ \A i \in 1 .. n : c[i] \in DOMAIN link /\ link[c[i]].next = LinkAt(c, i + 1)
        /\ list.size = n /\ list.last = LastOf(c) /\ c \in Seq(DOMAIN link)
        /\ list.first \in DOMAIN link \cup {L!NULL} /\ list.first = LinkAt(c, 1)
        /\ list.last \in DOMAIN link \cup {L!NULL}
        /\ current \in DOMAIN link \cup {L!NULL}
        /\ list = [first |-> list.first, last |-> list.last, size |-> list.size]
    BY Found
  <1>3. 1 \in 1 .. n /\ n > 0 /\ 2 \in 1 .. (n + 1)
    BY <1>1, <1>2
  <1>4. link[list.first].next = q
    <2>1. list.first = c[1]
      BY <1>2, <1>3 DEF LinkAt
    <2>2. link[c[1]].next = LinkAt(c, 1 + 1)
      BY <1>2, <1>3
    <2>. QED
      BY <2>1, <2>2
  <1>5. /\ ls.first = (IF n = 1 THEN L!NULL ELSE q) /\ ls.last = (IF n = 1 THEN L!NULL ELSE list.last)
        /\ ls.size = n - 1
        /\ ls = [first |-> ls.first, last |-> ls.last, size |-> ls.size]
    <2>1. /\ [list EXCEPT !.first = link[list.first].next].first = q
          /\ [list EXCEPT !.first = link[list.first].next].last = list.last
          /\ [list EXCEPT !.first = link[list.first].next].size = n
      BY <1>2, <1>4
    <2> DEFINE w == [list EXCEPT !.first = link[list.first].next]
    <2>2. w.first = q /\ w.last = list.last /\ w.size = n
      BY <2>1
    <2>3. ls = L!Destroyed(w)
      OBVIOUS
    <2> HIDE DEF w, q, n, ls
    <2>4. L!Destroyed(w) = [first |-> IF w.size = 1 THEN 0 ELSE w.first,
                            last  |-> IF w.size = 1 THEN 0 ELSE w.last,
                            size  |-> w.size - 1] /\ L!NULL = 0
      BY DEF L!Destroyed, L!NULL
    <2>. QED
      BY <2>2, <2>3, <2>4
  <1> HIDE DEF n
  <1>6. /\ q \in DOMAIN link \cup {L!NULL}
        /\ Len(d) = n - 1
        /\ \A k \in 1 .. (n - 1) : d[k] = c[k + 1]
    <2>1. Len(c) + 1 - 2 = n - 1 /\ \A k \in 1 .. (n - 1) : 2 + k - 1 = k + 1
      BY <1>2 DEF n
    <2>2. 2 \in Nat /\ 2 \in 1 .. (Len(c) + 1)
      BY <1>3 DEF n
    <2>3. Mem(link) /\ list.first \in DOMAIN link \cup {L!NULL}
      BY <1>2
    <2>4. q \in DOMAIN link \cup {L!NULL} /\ Rest(c, 2, d)
      BY <2>2, <2>3, RestIs
    <2> HIDE DEF c, q, d
    <2>. QED
      BY <2>1, <2>4 DEF Rest
  <1>7. c = <<>> <=> n = 0
    BY <1>2, EmptyIs DEF n
  <1> HIDE DEF c, q, d, ls
  <1>8. Removes(c, d, 1)
    <2>1. \A k \in 1 .. (n - 1) : ~(k < 1)
      BY <1>2
    <2>. QED
      BY <1>6, <2>1 DEF Removes, n
  <1>9. d = L!FromIn(link, ls.first)
    <2>1. n = 1 => q = L!NULL
      BY DEF q, LinkAt, n
    <2>. QED
      BY <1>5, <2>1 DEF d
  <1>10. ls.last = LastOf(d) /\ Len(d) = n - 1
    <2>1. d \in Seq(DOMAIN link)
      BY <1>2, <1>6, MemFacts DEF d
    <2>2. d = <<>> <=> n = 1
      BY <1>2, <1>6, <2>1, EmptyIs
    <2>3. n # 1 => n - 1 \in 1 .. (n - 1) /\ (n - 1) + 1 = n
      BY <1>2, <1>3
    <2>4. CASE n = 1
      BY <1>5, <1>6, <2>2, <2>4 DEF LastOf
    <2>5. CASE n # 1
      <3>1. d[n - 1] = c[n]
        BY <1>6, <2>3, <2>5
      <3>2. list.last = c[n]
        BY <1>2, <1>3, <1>7 DEF LastOf, n
      <3>3. LastOf(d) = d[n - 1]
        BY <1>6, <2>2, <2>5 DEF LastOf
      <3>. QED
        BY <1>5, <1>6, <2>5, <3>1, <3>2, <3>3
    <2>. QED
      BY <1>6, <2>4, <2>5
  <1>11. Listed(ls, link, current, misplaced')
    <2>1. ls \in [first : DOMAIN link \cup {L!NULL}, last : DOMAIN link \cup {L!NULL}, size : Nat]
      <3>1. n - 1 \in Nat
        BY <1>2, <1>3
      <3>. QED
        BY <1>2, <1>5, <1>6, <3>1
    <2>2. Intact(ls, d)
      BY <1>5, <1>10 DEF Intact
    <2>. QED
      BY <1>1, <1>2, <1>9, <2>1, <2>2 DEF Listed
  <1>12. Removes(L!FromIn(link, list.first), L!FromIn(link, ls.first), 1)
    BY <1>8, <1>9 DEF c
  <1>13. 1 \in 1 .. Len(L!FromIn(link, list.first))
    BY <1>3 DEF c, n
  <1> DEFINE lk == link
  <1>14. DOMAIN lk = DOMAIN link /\ \A m \in DOMAIN link : lk[m].element = link[m].element
    OBVIOUS
  <1>15. Listed(ls, lk, current, misplaced') /\ L!Become(ls, lk, current)
         /\ Removes(L!FromIn(link, list.first), L!FromIn(lk, ls.first), 1)
    BY <1>1, <1>11, <1>12
  <1> HIDE DEF lk
  <1>. QED
    BY <1>1, <1>13, <1>14, <1>15, Takes
\* A link between two links of the chain, and a link that is passed over.
LEMMA CardinalityOfLinks == Cardinality(Links) \in Nat /\ L!Steps = 0 .. Cardinality(Links)
  <1>1. Cardinality(Links) \in Nat
    BY LinksAssumption, FS_CardinalityType
  <1>2. L!Steps = 0 .. Cardinality(Links)
    BY DEF L!Steps, L!Cardinality, Cardinality
  <1>. QED
    BY <1>1, <1>2

\* e is f, then what follows in c after i.
Follows(c, i, f, e) ==
  /\ Len(e) = (Len(c) - i) + 1
  /\ \A k \in 1 .. ((Len(c) - i) + 1) : e[k] = IF k = 1 THEN f ELSE c[i + k - 1]
  /\ \A x : (\E k \in 1 .. Len(e) : x = e[k]) => x = f \/ \E j \in (i + 1) .. Len(c) : x = c[j]

LEMMA NextOnes ==
  ASSUME NEW c, Len(c) \in Nat, NEW i, i \in Nat, i \in 1 .. Len(c),
         NEW g, Rest(c, i + 1, g), NEW f, NEW e, Inserts(g, e, 1, f)
  PROVE  Follows(c, i, f, e)
  <1> DEFINE n == Len(c)
  <1>1. Len(g) = n - i /\ \A k \in 1 .. (n - i) : g[k] = c[i + k]
    <2>1. n + 1 - (i + 1) = n - i
      OBVIOUS
    <2>2. \A k \in 1 .. (n - i) : (i + 1) + k - 1 = i + k
      OBVIOUS
    <2>. QED
      BY <2>1, <2>2 DEF Rest
  <1>2. n - i \in Nat /\ (n - i) + 1 \in Nat
    OBVIOUS
  <1> HIDE DEF n
  <1>3. /\ Len(e) = (n - i) + 1
        /\ \A k \in 1 .. ((n - i) + 1) : e[k] = IF k = 1 THEN f ELSE c[i + k - 1]
    <2>1. Len(e) = (n - i) + 1
      BY <1>1 DEF Inserts
    <2>2. ASSUME NEW k \in 1 .. ((n - i) + 1)
          PROVE  e[k] = IF k = 1 THEN f ELSE c[i + k - 1]
      <3>1. ~(k < 1) /\ (k # 1 => k - 1 \in 1 .. (n - i) /\ i + (k - 1) = i + k - 1)
        BY <1>2
      <3>2. e[k] = IF k < 1 THEN g[k] ELSE IF k = 1 THEN f ELSE g[k - 1]
        BY <1>1 DEF Inserts
      <3>3. k # 1 => g[k - 1] = c[i + (k - 1)]
        BY <1>1, <3>1
      <3>. QED
        BY <3>1, <3>2, <3>3
    <2>. QED
      BY <2>1, <2>2
  <1>4. ASSUME NEW x, NEW k \in 1 .. Len(e), x = e[k], x # f
        PROVE  \E j \in (i + 1) .. Len(c) : x = c[j]
    <2>1. k \in 1 .. ((n - i) + 1)
      BY <1>3
    <2>2. x = c[i + k - 1] /\ k # 1
      BY <1>3, <1>4, <2>1
    <2>3. i + k - 1 \in (i + 1) .. Len(c)
      BY <2>1, <2>2 DEF n
    <2>. QED
      BY <2>2, <2>3
  <1>. QED
    BY <1>3, <1>4 DEF n, Follows

LEMMA SplicedIn ==
  ASSUME NEW c, Len(c) \in Nat, NEW i, i \in Nat, i \in 1 .. Len(c),
         NEW g, Rest(c, i + 1, g), NEW f, NEW e, Inserts(g, e, 1, f), NEW d, Over(d, c, i, e)
  PROVE  Inserts(c, d, i + 1, f)
  <1> DEFINE n == Len(c)
  <1>3. /\ Len(e) = (n - i) + 1
        /\ \A k \in 1 .. ((n - i) + 1) : e[k] = IF k = 1 THEN f ELSE c[i + k - 1]
    <2>1. Follows(c, i, f, e)
      BY NextOnes
    <2>. QED
      BY <2>1 DEF Follows
  <1> HIDE DEF n
  <1>4. Inserts(c, d, i + 1, f)
    <2>1. Len(d) = n + 1
      <3>1. Len(d) = i + ((n - i) + 1) /\ n \in Nat
        BY <1>3 DEF Over, n
      <3>. QED
        BY <3>1
    <2>2. ASSUME NEW j \in 1 .. (n + 1)
          PROVE  d[j] = IF j < i + 1 THEN c[j] ELSE IF j = i + 1 THEN f ELSE c[j - 1]
      <3>1. n \in Nat /\ j \in Nat
        BY DEF n
      <3>2. j \in 1 .. (i + Len(e))
        <4>1. i + ((n - i) + 1) = n + 1
          BY <3>1
        <4>. QED
          BY <1>3, <4>1
      <3>3. d[j] = IF j <= i THEN c[j] ELSE e[j - i]
        BY <3>2 DEF Over
      <3>4. j <= i <=> j < i + 1
        BY <3>1
      <3>5. CASE j <= i
        BY <3>3, <3>4, <3>5
      <3>6. CASE ~(j <= i)
        <4>1. j - i \in 1 .. ((n - i) + 1) /\ (j - i = 1 <=> j = i + 1) /\ i + (j - i) - 1 = j - 1
          BY <3>1, <3>6
        <4>2. e[j - i] = IF j - i = 1 THEN f ELSE c[i + (j - i) - 1]
          BY <1>3, <4>1
        <4>. QED
          BY <3>3, <3>4, <3>6, <4>1, <4>2
      <3>. QED
        BY <3>5, <3>6
    <2>. QED
      BY <2>1, <2>2 DEF Inserts, n
  <1>. QED
    BY <1>4

LEMMA SplicedOut ==
  ASSUME NEW c, Len(c) \in Nat, NEW i, i \in Nat, i \in 1 .. (Len(c) - 1),
         NEW g, Rest(c, i + 2, g), NEW d, Over(d, c, i, g)
  PROVE  Removes(c, d, i + 1)
  <1> DEFINE n == Len(c)
  <1>1. Len(g) = n - i - 1 /\ \A k \in 1 .. (n - i - 1) : g[k] = c[i + k + 1]
    <2>1. n + 1 - (i + 2) = n - i - 1
      OBVIOUS
    <2>2. \A k \in 1 .. (n - i - 1) : (i + 2) + k - 1 = i + k + 1
      OBVIOUS
    <2>. QED
      BY <2>1, <2>2 DEF Rest
  <1>2. i + (n - i - 1) = n - 1
    OBVIOUS
  <1>3. n \in Nat /\ i \in 1 .. (n - 1)
    OBVIOUS
  <1> HIDE DEF n
  <1>4. Len(d) = n - 1
    BY <1>1, <1>2 DEF Over
  <1>5. ASSUME NEW j \in 1 .. (n - 1)
        PROVE  d[j] = IF j < i + 1 THEN c[j] ELSE c[j + 1]
    <2>1. d[j] = IF j <= i THEN c[j] ELSE g[j - i]
      BY <1>1, <1>2 DEF Over
    <2>2. j <= i <=> j < i + 1
      BY <1>3
    <2>3. CASE j <= i
      BY <2>1, <2>2, <2>3
    <2>4. CASE ~(j <= i)
      <3>1. j - i \in 1 .. (n - i - 1) /\ i + (j - i) + 1 = j + 1
        BY <1>3, <2>4
      <3>2. g[j - i] = c[i + (j - i) + 1]
        BY <1>1, <3>1
      <3>. QED
        BY <2>1, <2>2, <2>4, <3>1, <3>2
    <2>. QED
      BY <2>3, <2>4
  <1>. QED
    BY <1>4, <1>5 DEF Removes, n

LEMMA InsertMiddleStep ==
  ASSUME ListInv, misplaced = FALSE, NEW index \in L!Steps, NEW v \in Keys,
         L!InsertMiddle(index, v)
  PROVE  ListInv' /\ L!Contract!Next
  <1> DEFINE f == L!Fresh
             c == L!FromIn(link, list.first)
             n == Len(c)
             i == index + 1
             p == c[i]
             q == LinkAt(c, i + 1)
             g == L!FromIn(link, q)
             made == L!NewLink(f, v, q)
             e == L!FromIn(made, f)
             lk == [made EXCEPT ![p].next = f]
             ls == L!Created(f)
             d == L!FromIn(lk, list.first)
  <1>0. index \in Nat
    BY CardinalityOfLinks DEF L!Steps
  <1>1. /\ Mem(link) /\ n \in Nat
        /\ \A k \in 1 .. n : c[k] \in DOMAIN link /\ link[c[k]].next = LinkAt(c, k + 1)
        /\ list.size = n /\ list.last = LastOf(c) /\ c \in Seq(DOMAIN link) /\ Injective(c)
        /\ list.first \in DOMAIN link \cup {L!NULL}
        /\ list.last \in DOMAIN link \cup {L!NULL}
        /\ current \in DOMAIN link \cup {L!NULL}
    BY Found
  <1>2. i \in Nat /\ i \in 1 .. n /\ L!Room /\ index < n
    <2>1. 0 < index /\ index < list.size /\ L!Room
      BY DEF L!InsertMiddle
    <2>2. index < n
      BY <1>1, <2>1
    <2> HIDE DEF n
    <2>. QED
      BY <1>0, <1>1, <2>1, <2>2
  <1>3. p \in DOMAIN link /\ link[p].next = q
    BY <1>1, <1>2
  <1>4. L!Become(ls, lk, current) /\ misplaced' = (index = n - 1)
    <2>1. L!Chain[index + 1] = p
      BY ChainNow
    <2>2. link[L!Chain[index + 1]].next = q
      BY <1>3, <2>1
    <2>3. L!Become(ls, [L!NewLink(f, v, link[L!Chain[index + 1]].next)
                          EXCEPT ![L!Chain[index + 1]].next = f], current)
          /\ misplaced' = (misplaced \/ index = list.size - 1)
      BY DEF L!InsertMiddle
    <2> HIDE DEF p, q, f, ls
    <2>4. lk = [L!NewLink(f, v, link[L!Chain[index + 1]].next)
                          EXCEPT ![L!Chain[index + 1]].next = f]
      BY <2>1, <2>2
    <2> HIDE DEF lk
    <2>. QED
      BY <1>1, <2>3, <2>4
  <1>5. q \in DOMAIN link \cup {L!NULL} /\ Rest(c, i + 1, g)
    <2>1. i + 1 \in 1 .. (Len(L!FromIn(link, list.first)) + 1)
      BY <1>1, <1>2
    <2> DEFINE k == i + 1
    <2>2. k \in 1 .. (Len(L!FromIn(link, list.first)) + 1)
      BY <2>1
    <2> HIDE DEF k, i
    <2>3. /\ LinkAt(c, k) \in DOMAIN link \cup {L!NULL}
          /\ Rest(c, k, L!FromIn(link, LinkAt(c, k)))
      BY <1>1, <2>2, RestIs
    <2>. QED
      BY <2>3 DEF k
  <1>6. /\ Mem(made) /\ f # L!NULL /\ f \notin DOMAIN link
        /\ DOMAIN made = DOMAIN link \cup {f}
        /\ L!FromIn(made, list.first) = c
        /\ Inserts(g, e, 1, f)
        /\ made[f].element = v
        /\ \A m \in DOMAIN link : made[m] = link[m]
    <2>1. Linked(link, f, v, q, made) /\ f # L!NULL /\ f \notin DOMAIN link
      BY <1>1, <1>2, <1>5, NewLinkIs
    <2> HIDE DEF f, made, q
    <2>. QED
      BY <1>1, <2>1 DEF Linked
  <1>7. ls = [first |-> list.first, last |-> list.last, size |-> n + 1]
    BY <1>1, <1>2 DEF L!Created
  <1>8. ls.first = list.first /\ ls.last = list.last /\ ls.size = n + 1
    BY <1>7
  <1>9. Redirects(made, p, f, lk)
    <2>1. f \in DOMAIN made \cup {L!NULL} /\ p \in DOMAIN made
      BY <1>3, <1>6
    <2> HIDE DEF f, made, p
    <2>. QED
      BY <1>6, <2>1, ExceptRedirects
  <1>10. p # f
    BY <1>3, <1>6
  <1>11. i = n <=> index = n - 1
    BY <1>0, <1>1
  <1>12. p = c[i]
    OBVIOUS
  <1> HIDE DEF f, c, p, q, g, made, e, lk, ls, d, i
  <1>13. \A j \in (i + 1) .. n : p # c[j]
    <2> SUFFICES ASSUME NEW j \in (i + 1) .. n
                 PROVE  p # c[j]
      OBVIOUS
    <2>1. j \in 1 .. n /\ j # i
      BY <1>1, <1>2
    <2>. QED
      BY <1>1, <1>2, <1>12, <2>1 DEF Injective
  <1>14. ASSUME NEW h, Over(h, c, i, e)
         PROVE  Inserts(c, h, i + 1, f)
    BY <1>1, <1>2, <1>5, <1>6, <1>14, SplicedIn
  <1>15. p \notin ToSet(e)
    <2>1. f \in DOMAIN made \cup {L!NULL}
      BY <1>6
    <2>2. \A x : x \in ToSet(e) <=> \E k \in 1 .. Len(e) : x = e[k]
      BY <1>6, <2>1, MemFacts DEF e
    <2>3. \A x : (\E k \in 1 .. Len(e) : x = e[k]) => x = f \/ \E j \in (i + 1) .. n : x = c[j]
      <3>1. Follows(c, i, f, e)
        BY <1>1, <1>2, <1>5, <1>6, NextOnes
      <3>. QED
        BY <3>1 DEF Follows, n
    <2>. QED
      BY <1>10, <1>13, <2>2, <2>3
  <1>16. /\ Mem(lk) /\ DOMAIN lk = DOMAIN made
         /\ \A m \in DOMAIN made : lk[m].element = made[m].element
         /\ \A l \in DOMAIN made \cup {L!NULL} : \A k \in 1 .. Len(L!FromIn(made, l)) :
              L!FromIn(made, l)[k] = p => Over(L!FromIn(lk, l), L!FromIn(made, l), k, e)
    <2>1. f \in DOMAIN made \cup {L!NULL}
      BY <1>6
    <2>2. p \in DOMAIN made
      BY <1>3, <1>6
    <2>. QED
      BY <1>6, <1>9, <1>15, <2>1, <2>2, RedirectedMem DEF e
  <1>17. Over(d, c, i, e)
    <2>1. list.first \in DOMAIN made \cup {L!NULL}
      BY <1>1, <1>6
    <2>2. L!FromIn(made, list.first) = c
      BY <1>6
    <2>. QED
      BY <1>2, <1>12, <1>16, <2>1, <2>2 DEF d
  <1>18. Inserts(c, d, i + 1, f)
    BY <1>14, <1>17
  <1>19. d = L!FromIn(lk, ls.first)
    BY <1>8 DEF d
  <1>20. ~misplaced' => Intact(ls, d)
    <2>1. Len(d) = n + 1
      BY <1>18 DEF Inserts, n
    <2>2. CASE i # n
      <3>1. /\ n + 1 \in 1 .. (n + 1) /\ ~(n + 1 < i + 1) /\ n + 1 # i + 1 /\ (n + 1) - 1 = n
        BY <1>1, <1>2, <2>2
      <3>2. d[n + 1] = c[n]
        BY <1>18, <3>1 DEF Inserts, n
      <3>3. list.last = c[n]
        <4>1. n # 0
          BY <1>1, <1>2
        <4>2. c # <<>>
          BY <4>1 DEF n
        <4>. QED
          BY <1>1, <4>2 DEF LastOf, n
      <3>4. d # <<>>
        BY <1>1, <2>1
      <3>. QED
        BY <1>8, <2>1, <3>2, <3>3, <3>4 DEF Intact, LastOf
    <2>. QED
      BY <1>4, <1>11, <2>2
  <1>21. Listed(ls, lk, current, misplaced')
    <2>1. ls \in [first : DOMAIN lk \cup {L!NULL}, last : DOMAIN lk \cup {L!NULL}, size : Nat]
      BY <1>1, <1>6, <1>7, <1>16
    <2>2. current \in DOMAIN lk \cup {L!NULL}
      BY <1>1, <1>6, <1>16
    <2>3. misplaced' \in BOOLEAN
      BY <1>4
    <2>. QED
      BY <1>16, <1>19, <1>20, <2>1, <2>2, <2>3 DEF Listed
  <1>22. CASE misplaced'
    <2>1. ListInv'
      BY <1>4, <1>21, Becomes
    <2>2. L!Contract!Next
      BY <1>22 DEF L!Contract!Next
    <2>. QED
      BY <2>1, <2>2
  <1>23. CASE ~misplaced'
    <2> DEFINE k == i + 1
    <2>1. Inserts(L!FromIn(link, list.first), L!FromIn(lk, ls.first), k, f)
      BY <1>18, <1>19 DEF c
    <2>2. k \in 1 .. (Len(L!FromIn(link, list.first)) + 1)
      BY <1>1, <1>2 DEF c, n
    <2> HIDE DEF k
    <2>3. \A m \in DOMAIN link : m \in DOMAIN lk /\ lk[m].element = link[m].element
      BY <1>6, <1>16
    <2>4. f \in DOMAIN lk \ DOMAIN link /\ lk[f].element = v
      BY <1>6, <1>16
    <2>5. misplaced' = FALSE
      BY <1>4, <1>23
    <2>. QED
      BY <1>4, <1>21, <2>1, <2>2, <2>3, <2>4, <2>5, Adds
  <1>. QED
    BY <1>22, <1>23
LEMMA RemoveLaterStep ==
  ASSUME ListInv, misplaced = FALSE, NEW index \in L!Steps, L!RemoveLater(index)
  PROVE  ListInv' /\ L!Contract!Next
  <1> DEFINE c == L!FromIn(link, list.first)
             n == Len(c)
             i == index
             p == c[i]
             q == LinkAt(c, i + 2)
             g == L!FromIn(link, q)
             lk == [link EXCEPT ![p].next = q]
             last == L!LastAfter(p, q)
             ls == L!Destroyed([list EXCEPT !.last = last])
             d == L!FromIn(lk, list.first)
  <1>1. /\ Mem(link) /\ n \in Nat /\ L!NULL \notin DOMAIN link
        /\ \A k \in 1 .. n : c[k] \in DOMAIN link /\ link[c[k]].next = LinkAt(c, k + 1)
        /\ list.size = n /\ list.last = LastOf(c) /\ c \in Seq(DOMAIN link) /\ Injective(c)
        /\ list.first \in DOMAIN link \cup {L!NULL}
        /\ list.last \in DOMAIN link \cup {L!NULL}
        /\ current \in DOMAIN link \cup {L!NULL}
        /\ list = [first |-> list.first, last |-> list.last, size |-> list.size]
    BY Found
  <1>2. i \in Nat /\ 0 < i /\ i < n
    BY <1>1, CardinalityOfLinks DEF L!RemoveLater
  <1>3. /\ i \in 1 .. n /\ i + 1 \in 1 .. n /\ i + 2 \in 1 .. (n + 1) /\ i \in 1 .. (n - 1)
        /\ (i + 1) + 1 = i + 2 /\ n # 1 /\ (i + 1 = n <=> i + 2 > n) /\ n - 1 \in Nat
    BY <1>1, <1>2
  <1>4. p \in DOMAIN link /\ c[i + 1] \in DOMAIN link /\ link[c[i + 1]].next = q
    <2>1. link[c[i + 1]].next = LinkAt(c, (i + 1) + 1)
      BY <1>1, <1>3
    <2>. QED
      BY <1>1, <1>3, <2>1
  <1>5. L!Become(ls, lk, current) /\ misplaced' = FALSE
    <2>1. L!Chain[index] = p /\ L!Chain[index + 1] = c[i + 1]
      BY ChainNow
    <2>2. link[L!Chain[index + 1]].next = q
      BY <1>4, <2>1
    <2>3. L!Become(L!Destroyed([list EXCEPT !.last = L!LastAfter(L!Chain[index], link[L!Chain[index + 1]].next)]),
                   [link EXCEPT ![L!Chain[index]].next = link[L!Chain[index + 1]].next], current)
          /\ misplaced' = misplaced
      BY DEF L!RemoveLater
    <2> HIDE DEF p, q
    <2>4. lk = [link EXCEPT ![L!Chain[index]].next = link[L!Chain[index + 1]].next]
      BY <2>1, <2>2
    <2>5. ls = L!Destroyed([list EXCEPT !.last = L!LastAfter(L!Chain[index], link[L!Chain[index + 1]].next)])
      BY <2>1, <2>2
    <2> HIDE DEF lk, ls
    <2>. QED
      BY <2>3, <2>4, <2>5
  <1>6. /\ ls.first = list.first /\ ls.last = last /\ ls.size = n - 1
        /\ ls = [first |-> ls.first, last |-> ls.last, size |-> ls.size]
    <2> DEFINE w == [list EXCEPT !.last = last]
    <2> HIDE DEF last
    <2>1. w.first = list.first /\ w.last = last /\ w.size = n
      BY <1>1
    <2>2. ls = L!Destroyed(w)
      OBVIOUS
    <2> HIDE DEF w, n, ls
    <2>3. L!Destroyed(w) = [first |-> IF w.size = 1 THEN 0 ELSE w.first,
                            last  |-> IF w.size = 1 THEN 0 ELSE w.last,
                            size  |-> w.size - 1]
      BY DEF L!Destroyed, L!NULL
    <2>. QED
      BY <1>3, <2>1, <2>2, <2>3
  <1>7. last = IF i + 1 = n THEN p ELSE list.last
    <2>1. q = L!NULL <=> i + 1 = n
      <3>1. CASE i + 1 = n
        BY <1>3, <3>1 DEF LinkAt
      <3>2. CASE i + 1 # n
        <4>1. i + 2 <= n /\ i + 2 \in 1 .. n
          BY <1>1, <1>2, <3>2
        <4>2. q = c[i + 2]
          BY <4>1 DEF LinkAt
        <4>. QED
          BY <1>1, <3>2, <4>1, <4>2
      <3>. QED
        BY <3>1, <3>2
    <2> HIDE DEF p, q
    <2>2. last = IF q = L!NULL THEN p ELSE list.last
      BY DEF L!LastAfter, L!NULL
    <2>. QED
      BY <2>1, <2>2
  <1>8. q \in DOMAIN link \cup {L!NULL} /\ Rest(c, i + 2, g)
    <2> DEFINE k == i + 2
    <2>1. k \in 1 .. (Len(L!FromIn(link, list.first)) + 1)
      BY <1>3
    <2> HIDE DEF k, i
    <2>2. /\ LinkAt(c, k) \in DOMAIN link \cup {L!NULL}
          /\ Rest(c, k, L!FromIn(link, LinkAt(c, k)))
      BY <1>1, <2>1, RestIs
    <2>. QED
      BY <2>2 DEF k
  <1>9. p = c[i]
    OBVIOUS
  <1>10. Redirects(link, p, q, lk)
    <2> HIDE DEF p, q
    <2>. QED
      BY <1>1, <1>4, <1>8, ExceptRedirects
  <1> HIDE DEF c, p, q, g, lk, ls, d, i, last
  <1>11. \A j \in (i + 2) .. n : p # c[j]
    <2> SUFFICES ASSUME NEW j \in (i + 2) .. n
                 PROVE  p # c[j]
      OBVIOUS
    <2>1. j \in 1 .. n /\ j # i
      BY <1>1, <1>2
    <2>. QED
      BY <1>1, <1>3, <1>9, <2>1 DEF Injective
  <1>12. p \notin ToSet(g)
    <2>1. \A x : x \in ToSet(g) <=> \E j \in (i + 2) .. n : x = c[j]
      BY <1>8 DEF Rest, n
    <2>. QED
      BY <1>11, <2>1
  <1>13. /\ Mem(lk) /\ DOMAIN lk = DOMAIN link
         /\ \A m \in DOMAIN link : lk[m].element = link[m].element
         /\ \A l \in DOMAIN link \cup {L!NULL} : \A k \in 1 .. Len(L!FromIn(link, l)) :
              L!FromIn(link, l)[k] = p => Over(L!FromIn(lk, l), L!FromIn(link, l), k, g)
    BY <1>1, <1>4, <1>8, <1>10, <1>12, RedirectedMem DEF g
  <1>14. Over(d, c, i, g)
    <2>1. L!FromIn(link, list.first) = c
      BY DEF c
    <2>. QED
      BY <1>1, <1>3, <1>9, <1>13, <2>1 DEF d
  <1>15. Removes(c, d, i + 1)
    <2>1. i \in 1 .. (Len(c) - 1) /\ Len(c) \in Nat
      BY <1>1, <1>3 DEF n
    <2>. QED
      BY <1>2, <1>8, <1>14, <2>1, SplicedOut
  <1>16. d = L!FromIn(lk, ls.first)
    BY <1>6 DEF d
  <1>17. Intact(ls, d)
    <2>1. Len(d) = n - 1
      BY <1>15 DEF Removes, n
    <2>2. n - 1 \in 1 .. (n - 1) /\ (n - 1) + 1 = n /\ n - 1 # 0
      BY <1>1, <1>2
    <2>3. d # <<>>
      BY <2>1, <2>2
    <2>4. d[n - 1] = IF i + 1 = n THEN c[n - 1] ELSE c[n]
      <3>1. d[n - 1] = IF n - 1 < i + 1 THEN c[n - 1] ELSE c[(n - 1) + 1]
        BY <1>15, <2>2 DEF Removes, n
      <3>2. n - 1 < i + 1 <=> i + 1 = n
        BY <1>1, <1>2
      <3>. QED
        BY <2>2, <3>1, <3>2
    <2>5. list.last = c[n]
      <3>1. n # 0
        BY <1>1, <1>2
      <3>2. c # <<>>
        BY <3>1 DEF n
      <3>. QED
        BY <1>1, <3>2 DEF LastOf, n
    <2>6. i + 1 = n => p = c[n - 1]
      <3>1. i + 1 = n => i = n - 1
        BY <1>2
      <3>. QED
        BY <1>9, <3>1
    <2>. QED
      BY <1>6, <1>7, <2>1, <2>3, <2>4, <2>5, <2>6 DEF Intact, LastOf
  <1>18. Listed(ls, lk, current, misplaced')
    <2>1. last \in DOMAIN lk \cup {L!NULL}
      BY <1>1, <1>4, <1>7, <1>13
    <2>2. ls \in [first : DOMAIN lk \cup {L!NULL}, last : DOMAIN lk \cup {L!NULL}, size : Nat]
      BY <1>1, <1>3, <1>6, <1>13, <2>1
    <2>3. current \in DOMAIN lk \cup {L!NULL}
      BY <1>1, <1>13
    <2>. QED
      BY <1>5, <1>13, <1>16, <1>17, <2>2, <2>3 DEF Listed
  <1> DEFINE k == i + 1
  <1>19. Removes(L!FromIn(link, list.first), L!FromIn(lk, ls.first), k)
    BY <1>15, <1>16 DEF c
  <1>20. k \in 1 .. Len(L!FromIn(link, list.first))
    BY <1>3 DEF c, n
  <1> HIDE DEF k
  <1>. QED
    BY <1>5, <1>13, <1>18, <1>19, <1>20, Takes

\* The list without its links: linked_list_clear.
LEMMA ClearStep ==
  ASSUME ListInv, misplaced = FALSE, L!Clear
  PROVE  ListInv' /\ L!Contract!Next
  <1> DEFINE c == L!FromIn(link, list.first)
             n == Len(c)
             ls == [first |-> IF n = list.size THEN L!NULL ELSE list.first,
                    last  |-> IF n = list.size THEN L!NULL ELSE list.last,
                    size  |-> list.size - n]
  <1>1. /\ Mem(link) /\ n \in Nat /\ list.size = n /\ current \in DOMAIN link \cup {L!NULL}
    BY Found
  <1>2. misplaced' = FALSE /\ L!Become(ls, link, current)
    BY ChainNow DEF L!Clear, L!NULL
  <1>3. ls = [first |-> L!NULL, last |-> L!NULL, size |-> 0]
    BY <1>1
  <1> HIDE DEF ls, n, c
  <1>4. L!FromIn(link, ls.first) = <<>>
    BY <1>1, <1>3, NoChain
  <1>5. Listed(ls, link, current, misplaced')
    <2>1. Intact(ls, <<>>)
      BY <1>3 DEF Intact, LastOf
    <2>2. ls \in [first : DOMAIN link \cup {L!NULL}, last : DOMAIN link \cup {L!NULL}, size : Nat]
      BY <1>3
    <2>. QED
      BY <1>1, <1>2, <1>4, <2>1, <2>2 DEF Listed
  <1>6. ListInv' /\ L!FromIn(link', list'.first) = <<>>
    BY <1>2, <1>4, <1>5, Becomes
  <1> DEFINE s == ItemsOf(link, L!FromIn(link, list.first))
             a == PosOf(L!FromIn(link, list.first), current)
             t == ItemsOf(link', L!FromIn(link', list'.first))
             b == PosOf(L!FromIn(link', list'.first), current')
  <1>7. t = <<>> /\ b = 0
    BY <1>6 DEF ItemsOf, PosOf, ToSet
  <1>8. /\ s = ItemsOf(link, L!FromIn(link, list.first))
        /\ a = PosOf(L!FromIn(link, list.first), current)
        /\ t = ItemsOf(link', L!FromIn(link', list'.first))
        /\ b = PosOf(L!FromIn(link', list'.first), current')
    OBVIOUS
  <1> HIDE DEF s, a, t, b
  <1>9. L!Contract!Next
    BY <1>2, <1>7, <1>8, ContractOf
  <1>. QED
    BY <1>6, <1>9
\* A step of the iterator.
LEMMA Moves ==
  ASSUME ListInv, misplaced = FALSE, misplaced' = FALSE,
         NEW cur \in DOMAIN link \cup {L!NULL}, L!Become(list, link, cur),
         \/ PosOf(L!FromIn(link, list.first), cur)
              \in {1, PosOf(L!FromIn(link, list.first), current) + 1}
         \/ PosOf(L!FromIn(link, list.first), current) = 0
  PROVE  ListInv' /\ L!Contract!Next
  <1> DEFINE c == L!FromIn(link, list.first)
             lk2 == link'
             D == DOMAIN link
             E == DOMAIN lk2
             a == PosOf(c, current)
             b == PosOf(c, cur)
             s == ItemsOf(link, c)
             t == ItemsOf(lk2, c)
  <1>1. Listed(list, link, cur, misplaced')
    BY DEF ListInv, Listed
  <1>2. /\ ListInv' /\ current' = cur /\ L!FromIn(link', list'.first) = c
        /\ \A m \in E : m \in DOMAIN link /\ lk2[m] = link[m]
    <2> DEFINE ls == list
               lk == link
    <2>1. Listed(ls, lk, cur, misplaced') /\ L!Become(ls, lk, cur)
      BY <1>1
    <2> HIDE DEF ls, lk
    <2>2. /\ ListInv' /\ current' = cur /\ L!FromIn(link', list'.first) = L!FromIn(lk, ls.first)
          /\ \A m \in DOMAIN link' : m \in DOMAIN lk /\ link'[m] = lk[m]
      BY <2>1, Becomes
    <2>. QED
      BY <2>2 DEF ls, lk
  <1>3. c \in Seq(D) /\ Injective(c) /\ \A m \in D : link[m].element \in Keys
    BY ListedChain DEF ListInv
  <1>4. c \in Seq(E) /\ \A m \in E : lk2[m].element \in Keys
    <2>1. Listed(list', link', current', misplaced')
      BY <1>2, ListInvNext
    <2>2. /\ L!FromIn(link', list'.first) \in Seq(E)
          /\ \A m \in E : lk2[m].element \in Keys
      BY <2>1, ListedChain
    <2>. QED
      BY <1>2, <2>2
  <1>5. b \in {1, a + 1} \/ a = 0
    OBVIOUS
  <1> HIDE DEF c, lk2, D, E
  <1>6. s \in Seq(Keys) /\ Len(s) = Len(c) /\ \A i \in 1 .. Len(c) : s[i] = link[c[i]].element
    BY <1>3, ItemsFacts
  <1>7. t \in Seq(Keys) /\ Len(t) = Len(c) /\ \A i \in 1 .. Len(c) : t[i] = lk2[c[i]].element
    BY <1>4, ItemsFacts
  <1>8. t = s
    <2>1. \A i \in 1 .. Len(c) : c[i] \in E
      BY <1>4, ElementOfSeq
    <2>2. \A i \in 1 .. Len(s) : t[i] = s[i]
      BY <1>2, <1>6, <1>7, <2>1
    <2>. QED
      BY <1>6, <1>7, <2>2, SeqEqual
  <1>9. b \in 0 .. Len(s)
    BY <1>3, <1>6, PosFacts
  <1>10. /\ s = ItemsOf(link, L!FromIn(link, list.first))
         /\ a = PosOf(L!FromIn(link, list.first), current)
         /\ t = ItemsOf(link', L!FromIn(link', list'.first))
         /\ b = PosOf(L!FromIn(link', list'.first), current')
    BY <1>2 DEF c, lk2
  <1> HIDE DEF a, b, s, t
  <1>11. L!Contract!Next
    BY <1>5, <1>8, <1>9, <1>10, ContractOf
  <1>. QED
    BY <1>2, <1>11

LEMMA ResetStep ==
  ASSUME ListInv, misplaced = FALSE, L!Reset
  PROVE  ListInv' /\ L!Contract!Next
  <1> DEFINE c == L!FromIn(link, list.first)
             cur == list.first
  <1>1. L!Become(list, link, cur) /\ misplaced' = FALSE
    BY DEF L!Reset
  <1>2. /\ Len(c) \in Nat /\ c \in Seq(DOMAIN link) /\ Injective(c)
        /\ cur \in DOMAIN link \cup {L!NULL} /\ cur = LinkAt(c, 1)
    BY Found
  <1> HIDE DEF c, cur
  <1>3. PosOf(c, cur) \in {1, PosOf(c, current) + 1} \/ PosOf(c, current) = 0
    <2>1. CASE Len(c) = 0
      <3>1. PosOf(c, current) \in 0 .. 0
        BY <1>2, <2>1, PosFacts
      <3>. QED
        BY <3>1
    <2>2. CASE Len(c) # 0
      <3>1. 1 \in 1 .. Len(c) /\ c[1] = cur
        BY <1>2, <2>2 DEF LinkAt
      <3>2. PosOf(c, cur) = 1
        BY <1>2, <3>1, PosFacts
      <3>. QED
        BY <3>2
    <2>. QED
      BY <2>1, <2>2
  <1>. QED
    BY <1>1, <1>2, <1>3, Moves DEF c

LEMMA AdvanceStep ==
  ASSUME ListInv, misplaced = FALSE, L!Advance
  PROVE  ListInv' /\ L!Contract!Next
  <1> DEFINE c == L!FromIn(link, list.first)
             cur == link[current].next
             a == PosOf(c, current)
  <1>1. L!Become(list, link, cur) /\ misplaced' = FALSE /\ current # L!NULL /\ cur # L!NULL
    BY DEF L!Advance, L!HasNext, L!NULL
  <1>2. /\ Len(c) \in Nat /\ c \in Seq(DOMAIN link) /\ Injective(c)
        /\ \A i \in 1 .. Len(c) : link[c[i]].next = LinkAt(c, i + 1)
        /\ current \in DOMAIN link \cup {L!NULL}
        /\ \A m \in DOMAIN link : link[m].next \in DOMAIN link \cup {L!NULL}
    BY Found
  <1>3. cur \in DOMAIN link \cup {L!NULL}
    BY <1>1, <1>2
  <1>4. a # 0 => a \in 1 .. Len(c) /\ c[a] = current
    BY <1>2, PosFacts
  <1>5. a # 0 => cur = LinkAt(c, a + 1)
    BY <1>2, <1>4
  <1> HIDE DEF c, cur, a
  <1>6. PosOf(c, cur) \in {1, a + 1} \/ a = 0
    <2> SUFFICES ASSUME a # 0
                 PROVE  PosOf(c, cur) = a + 1
      OBVIOUS
    <2>1. a + 1 \in 1 .. Len(c) /\ c[a + 1] = cur
      <3>1. a + 1 <= Len(c)
        BY <1>1, <1>5 DEF LinkAt
      <3>2. a + 1 \in 1 .. Len(c)
        BY <1>2, <1>4, <3>1
      <3>. QED
        BY <1>5, <3>1, <3>2 DEF LinkAt
    <2>. QED
      BY <1>2, <2>1, PosFacts
  <1>. QED
    BY <1>1, <1>3, <1>6, Moves DEF c, a

\* The empty list of linked_list_create.
LEMMA EmptyListed ==
  ASSUME NEW ls, ls = L!Empty, NEW lk, lk = <<>>
  PROVE  /\ Listed(ls, lk, L!NULL, FALSE)
         /\ ItemsOf(lk, L!FromIn(lk, ls.first)) = <<>>
         /\ PosOf(L!FromIn(lk, ls.first), L!NULL) = 0
  <1>1. Mem(lk) /\ DOMAIN lk = {}
    BY EmptyMem
  <1>2. ls = [first |-> L!NULL, last |-> L!NULL, size |-> 0]
    BY DEF L!Empty, L!NULL
  <1>3. L!FromIn(lk, ls.first) = <<>>
    BY <1>1, <1>2, NoChain
  <1>4. Listed(ls, lk, L!NULL, FALSE)
    <2>1. Intact(ls, <<>>)
      BY <1>2 DEF Intact, LastOf
    <2>2. ls \in [first : DOMAIN lk \cup {L!NULL}, last : DOMAIN lk \cup {L!NULL}, size : Nat]
      BY <1>2
    <2>. QED
      BY <1>1, <1>3, <2>1, <2>2 DEF Listed
  <1>5. ItemsOf(lk, <<>>) = <<>> /\ PosOf(<<>>, L!NULL) = 0
    BY DEF ItemsOf, PosOf, ToSet
  <1> DEFINE d == L!FromIn(lk, ls.first)
  <1>6. d = <<>>
    BY <1>3
  <1> HIDE DEF d
  <1>7. ItemsOf(lk, d) = <<>> /\ PosOf(d, L!NULL) = 0
    BY <1>5, <1>6
  <1>. QED
    BY <1>4, <1>7 DEF d

LEMMA CreateStep ==
  ASSUME L!ListCreate
  PROVE  ListInv /\ L!Contract!Init
  <1>1. list = L!Empty /\ link = <<>> /\ current = L!NULL /\ misplaced = FALSE
    BY DEF L!ListCreate, L!NULL
  <1>2. /\ Listed(list, link, L!NULL, FALSE)
        /\ ItemsOf(link, L!FromIn(link, list.first)) = <<>>
        /\ PosOf(L!FromIn(link, list.first), L!NULL) = 0
    BY <1>1, EmptyListed
  <1>3. L!Items = <<>> /\ L!At = 0
    BY <1>1, <1>2, ItemsNow, PosNow
  <1>. QED
    BY <1>1, <1>2, <1>3 DEF ListInv, L!Contract!Init

LEMMA RenewStep ==
  ASSUME ListInv, misplaced = TRUE, L!ListRenewed
  PROVE  ListInv' /\ L!Contract!Next
  <1>1. list' = L!Empty /\ link' = <<>> /\ current' = L!NULL /\ misplaced' = FALSE
    BY DEF L!ListRenewed, L!NULL
  <1>2. /\ Listed(list', link', L!NULL, FALSE)
        /\ ItemsOf(link', L!FromIn(link', list'.first)) = <<>>
        /\ PosOf(L!FromIn(link', list'.first), L!NULL) = 0
    BY <1>1, EmptyListed
  <1>3. ListInv'
    BY <1>1, <1>2, ListInvNext
  <1>4. (L!Items)' = <<>> /\ (L!At)' = 0
    BY <1>1, <1>2, ItemsNext, PosNext
  <1>5. L!Contract!Begin
    BY <1>1, <1>4 DEF L!Contract!Begin
  <1>. QED
    BY <1>1, <1>3, <1>5 DEF L!Contract!Next

\* Every operation of the list.
LEMMA ListStep ==
  ASSUME ListInv, misplaced = FALSE, L!ListNext
  PROVE  ListInv' /\ L!Contract!Next
  <1>1. CASE \E v \in Keys : L!AppendItem(v) \/ L!Prepend(v)
    BY <1>1, AppendStep, PrependStep
  <1>2. ASSUME NEW index \in L!Steps, NEW v \in Keys, L!Insert(index, v)
        PROVE  ListInv' /\ L!Contract!Next
    <2>1. L!InsertFirst(v) \/ L!Prepend(v) \/ L!AppendItem(v) \/ L!InsertMiddle(index, v)
      BY <1>2 DEF L!Insert
    <2>. QED
      BY <2>1, InsertFirstStep, PrependStep, AppendStep, InsertMiddleStep
  <1>3. CASE L!RemoveHead
    BY <1>3, RemoveHeadStep
  <1>4. ASSUME NEW index \in L!Steps, L!RemoveLater(index)
        PROVE  ListInv' /\ L!Contract!Next
    BY <1>4, RemoveLaterStep
  <1>5. CASE L!Clear
    BY <1>5, ClearStep
  <1>6. CASE L!Reset
    BY <1>6, ResetStep
  <1>7. CASE L!Advance
    BY <1>7, AdvanceStep
  <1>. QED
    BY <1>1, <1>2, <1>3, <1>4, <1>5, <1>6, <1>7 DEF L!ListNext
-----------------------------------------------------------------------------
(* The entries of a table.                                                 *)

Pairs == [key : Keys, value : Values]
Rows(B) == [i \in 1 .. NoBuckets |-> B[i - 1]]
EntriesIn(B) == FlattenSeq(Rows(B))

LEMMA RowsAre ==
  ASSUME NEW B \in [BucketIds -> Seq(Pairs)]
  PROVE  /\ Rows(B) \in Seq(Seq(Pairs)) /\ Len(Rows(B)) = NoBuckets
         /\ \A i \in 1 .. NoBuckets : i - 1 \in BucketIds /\ Rows(B)[i] = B[i - 1]
         /\ \A b \in BucketIds : b + 1 \in 1 .. NoBuckets /\ (b + 1) - 1 = b
  <1> DEFINE S == Seq(Pairs)
             n == NoBuckets
  <1>1. n \in Nat
    BY ContentsAssumption
  <1>2. \A i \in 1 .. n : i - 1 \in BucketIds
    BY <1>1 DEF BucketIds
  <1>3. \A b \in BucketIds : b + 1 \in 1 .. n /\ (b + 1) - 1 = b
    BY <1>1 DEF BucketIds
  <1>4. \A i \in 1 .. n : Rows(B)[i] = B[i - 1]
    BY DEF Rows
  <1> HIDE DEF S, n
  <1>5. Rows(B) \in [1 .. n -> S]
    BY <1>2 DEF Rows, S, n
  <1>6. Rows(B) \in Seq(S) /\ Len(Rows(B)) = n
    BY <1>1, <1>5, SequenceIs
  <1>. QED
    BY <1>2, <1>3, <1>4, <1>6 DEF S, n

LEMMA EntriesFacts ==
  ASSUME NEW B \in [BucketIds -> Seq(Pairs)]
  PROVE  /\ EntriesIn(B) \in Seq(Pairs) /\ Len(EntriesIn(B)) \in Nat
         /\ \A e : e \in ToSet(EntriesIn(B)) <=>
              \E b \in BucketIds : \E i \in 1 .. Len(B[b]) : e = B[b][i]
  <1> DEFINE rows == Rows(B)
             n == NoBuckets
  <1>1. /\ rows \in Seq(Seq(Pairs)) /\ Len(rows) = n
        /\ \A i \in 1 .. n : i - 1 \in BucketIds /\ rows[i] = B[i - 1]
        /\ \A b \in BucketIds : b + 1 \in 1 .. n /\ (b + 1) - 1 = b
    BY RowsAre
  <1> HIDE DEF rows, n
  <1>2. /\ FlattenSeq(rows) \in Seq(Pairs)
        /\ \A x : x \in ToSet(FlattenSeq(rows)) <=> \E k \in 1 .. n : x \in ToSet(rows[k])
    BY <1>1, FlattenHas
  <1>3. \A b \in BucketIds : \A x : x \in ToSet(B[b]) <=> \E i \in 1 .. Len(B[b]) : x = B[b][i]
    <2> SUFFICES ASSUME NEW b \in BucketIds
                 PROVE  \A x : x \in ToSet(B[b]) <=> \E i \in 1 .. Len(B[b]) : x = B[b][i]
      OBVIOUS
    <2>1. B[b] \in Seq(Pairs)
      OBVIOUS
    <2>2. DOMAIN B[b] = 1 .. Len(B[b])
      BY <2>1, LenProperties
    <2>. QED
      BY <2>2 DEF ToSet
  <1>4. FlattenSeq(rows) = EntriesIn(B)
    BY DEF rows, EntriesIn
  <1>5. \A x : x \in ToSet(EntriesIn(B)) <=> \E b \in BucketIds : x \in ToSet(B[b])
    BY <1>1, <1>2, <1>4
  <1>6. Len(EntriesIn(B)) \in Nat
    BY <1>2, <1>4, LenProperties
  <1>. QED
    BY <1>2, <1>3, <1>4, <1>5, <1>6

\* One bucket changes.
LEMMA EntriesChange ==
  ASSUME NEW B \in [BucketIds -> Seq(Pairs)], NEW B2 \in [BucketIds -> Seq(Pairs)],
         NEW h \in BucketIds, \A b \in BucketIds : b # h => B2[b] = B[b]
  PROVE  /\ Len(EntriesIn(B2)) = Len(EntriesIn(B)) - Len(B[h]) + Len(B2[h])
         /\ Len(EntriesIn(B)) >= Len(B[h])
  <1> DEFINE r == Rows(B)
             r2 == Rows(B2)
             n == NoBuckets
             S == 1 .. n
             y == h + 1
  <1>1. /\ r \in Seq(Seq(Pairs)) /\ Len(r) = n
        /\ \A i \in 1 .. n : i - 1 \in BucketIds /\ r[i] = B[i - 1]
        /\ y \in S /\ y - 1 = h
    BY RowsAre
  <1>2. /\ r2 \in Seq(Seq(Pairs)) /\ Len(r2) = n
        /\ \A i \in 1 .. n : r2[i] = B2[i - 1]
    BY RowsAre
  <1>3. n \in Nat /\ h \in Nat
    BY ContentsAssumption DEF BucketIds
  <1> HIDE DEF r, r2, n
  <1>4. /\ \A k \in S : Lengths(r)[k] = Len(r[k]) /\ Len(r[k]) \in Nat
        /\ Len(FlattenSeq(r)) = SumFunctionOnSet(Lengths(r), S)
    BY <1>1, FlattenLength
  <1>5. /\ \A k \in S : Lengths(r2)[k] = Len(r2[k]) /\ Len(r2[k]) \in Nat
        /\ Len(FlattenSeq(r2)) = SumFunctionOnSet(Lengths(r2), S)
    BY <1>2, FlattenLength
  <1>6. IsFiniteSet(S)
    BY <1>3, FS_Interval
  <1>7. \A k \in S : k # y => r2[k] = r[k]
    BY <1>1, <1>2, <1>3
  <1> DEFINE f == Lengths(r)
             g == Lengths(r2)
  <1> HIDE DEF S, y
  <1>a. \A k \in S : f[k] = Len(r[k]) /\ g[k] = Len(r2[k]) /\ Len(r[k]) \in Nat /\ Len(r2[k]) \in Nat
    BY <1>4, <1>5
  <1>8. /\ \A k \in S : f[k] \in Int /\ g[k] \in Int /\ f[k] \in Nat
        /\ \A k \in S : k # y => g[k] = f[k]
    <2> HIDE DEF f, g
    <2>1. ASSUME NEW k \in S
          PROVE  f[k] \in Nat /\ g[k] \in Nat
      BY <1>a
    <2>2. ASSUME NEW k \in S, k # y
          PROVE  g[k] = f[k]
      <3>1. r2[k] = r[k]
        BY <1>7, <2>2
      <3>. QED
        BY <1>a, <3>1
    <2>3. \A x : x \in Nat => x \in Int
      OBVIOUS
    <2>. QED
      BY <2>1, <2>2, <2>3
  <1>9. f[y] = Len(B[h]) /\ g[y] = Len(B2[h])
    <2>1. y \in 1 .. n
      BY <1>1 DEF S
    <2>2. r[y] = B[h] /\ r2[y] = B2[h]
      BY <1>1, <1>2, <2>1
    <2>. QED
      BY <1>1, <1>a, <2>2
  <1> HIDE DEF f, g
  <1>10. DifferAt(f, g, S, y)
    BY <1>8 DEF DifferAt
  <1>11. SumFunctionOnSet(g, S) = SumFunctionOnSet(f, S) - f[y] + g[y]
    BY <1>1, <1>6, <1>10, SumChange
  <1>12. SumFunctionOnSet(f, S) >= f[y]
    <2>1. NatOn(f, S)
      BY <1>8 DEF NatOn
    <2>. QED
      BY <1>1, <1>6, <2>1, SumAtLeast
  <1>13. EntriesIn(B) = FlattenSeq(r) /\ EntriesIn(B2) = FlattenSeq(r2)
    BY DEF r, r2, EntriesIn
  <1>. QED
    BY <1>4, <1>5, <1>9, <1>11, <1>12, <1>13 DEF f, g

LEMMA EntriesNone ==
  ASSUME NEW B \in [BucketIds -> Seq(Pairs)], \A b \in BucketIds : B[b] = <<>>
  PROVE  Len(EntriesIn(B)) = 0
  <1>1. EntriesIn(B) \in Seq(Pairs) /\ Len(EntriesIn(B)) \in Nat
    BY EntriesFacts
  <1>2. \A e : e \notin ToSet(EntriesIn(B))
    <2>1. \A b \in BucketIds : Len(B[b]) = 0
      OBVIOUS
    <2>2. \A b \in BucketIds : 1 .. Len(B[b]) = {}
      BY <2>1
    <2>3. \A e : e \in ToSet(EntriesIn(B)) <=>
            \E b \in BucketIds : \E i \in 1 .. Len(B[b]) : e = B[b][i]
      BY EntriesFacts
    <2>. QED
      BY <2>2, <2>3
  <1>3. CASE Len(EntriesIn(B)) # 0
    <2>1. 1 \in 1 .. Len(EntriesIn(B)) /\ DOMAIN EntriesIn(B) = 1 .. Len(EntriesIn(B))
      BY <1>1, <1>3, LenProperties
    <2>2. EntriesIn(B)[1] \in ToSet(EntriesIn(B))
      BY <2>1 DEF ToSet
    <2>. QED
      BY <1>2, <2>2
  <1>. QED
    BY <1>3
-----------------------------------------------------------------------------
(* Keys in their buckets.                                                  *)

IdIn(kd, ct, k) == IF kd = "merch" THEN k ELSE ct[k]
TextIn(kd, ct, k) == IF kd = "merch" THEN Prefix[ct[k]] ELSE ct[k]
HashIn(ct, k) == (IF ct[k] < 0 THEN -ct[k] ELSE ct[k]) % NoBuckets

\* What the search relies on: a precedes b in a bucket.
Below(kd, ct, a, b) ==
  IF kd = "int" THEN ct[a] < ct[b] ELSE TextIn(kd, ct, a) # TextIn(kd, ct, b)

Ordered(kd, ct, s) == \A i, j \in 1 .. Len(s) : i < j => Below(kd, ct, s[i].key, s[j].key)
Housed(B, kd, ct) ==
  \A b \in BucketIds :
    /\ \A i \in 1 .. Len(B[b]) : HashIn(ct, B[b][i].key) = b
    /\ Ordered(kd, ct, B[b])

\* The bucket s holds v for x, and some bucket does.
InRow(kd, ct, s, x, v) == \E i \in 1 .. Len(s) : s[i].value = v /\ IdIn(kd, ct, s[i].key) = x
Held(B, kd, ct) ==
  [x \in Ids |-> {v \in Values : \E b \in BucketIds : InRow(kd, ct, B[b], x, v)}]

\* The entry at q is the only one for x in s; none is.
Alone(kd, ct, s, q, x) ==
  /\ q \in 1 .. Len(s) /\ IdIn(kd, ct, s[q].key) = x
  /\ \A i \in 1 .. Len(s) : i # q => IdIn(kd, ct, s[i].key) # x
Without(kd, ct, s, x) == \A i \in 1 .. Len(s) : IdIn(kd, ct, s[i].key) # x

\* t holds V for x, and what s holds for all others.
Affects(kd, ct, s, x, V, t) ==
  /\ \A v : InRow(kd, ct, t, x, v) <=> v \in V
  /\ \A y, v : y # x => (InRow(kd, ct, t, y, v) <=> InRow(kd, ct, s, y, v))

\* t is s with the value v at q.
Replaces(s, q, v, t) ==
  /\ Len(t) = Len(s)
  /\ \A i \in 1 .. Len(s) : t[i].key = s[i].key /\ t[i].value = IF i = q THEN v ELSE s[i].value

LEMMA ReplacedRow ==
  ASSUME NEW kd, NEW ct, NEW s, NEW q, NEW v, NEW t, Replaces(s, q, v, t),
         NEW x, Alone(kd, ct, s, q, x)
  PROVE  Affects(kd, ct, s, x, {v}, t)
  <1>1. Len(t) = Len(s) /\ q \in 1 .. Len(s)
    BY DEF Replaces, Alone
  <1>2. \A i \in 1 .. Len(s) : IdIn(kd, ct, t[i].key) = IdIn(kd, ct, s[i].key)
    BY DEF Replaces
  <1>3. \A i \in 1 .. Len(s) : IdIn(kd, ct, s[i].key) = x <=> i = q
    BY DEF Alone
  <1>4. t[q].value = v /\ \A i \in 1 .. Len(s) : i # q => t[i].value = s[i].value
    BY <1>1 DEF Replaces
  <1>5. \A w : InRow(kd, ct, t, x, w) <=> w \in {v}
    BY <1>1, <1>2, <1>3, <1>4 DEF InRow
  <1>6. \A y, w : y # x => (InRow(kd, ct, t, y, w) <=> InRow(kd, ct, s, y, w))
    BY <1>1, <1>2, <1>3, <1>4 DEF InRow
  <1>. QED
    BY <1>5, <1>6 DEF Affects

\* Where the elements of s come to in t, if one is added or taken.
LEMMA InsertsWhere ==
  ASSUME NEW s, Len(s) \in Nat, NEW q \in 1 .. (Len(s) + 1), NEW e, NEW t, Inserts(s, t, q, e)
  PROVE  /\ q \in 1 .. Len(t) /\ t[q] = e
         /\ \A i \in 1 .. Len(s) : \E j \in 1 .. Len(t) :
              t[j] = s[i] /\ j # q /\ j = IF i < q THEN i ELSE i + 1
         /\ \A j \in 1 .. Len(t) : j = q \/ \E i \in 1 .. Len(s) :
              t[j] = s[i] /\ i = IF j < q THEN j ELSE j - 1
  <1> DEFINE n == Len(s)
  <1>1. n \in Nat /\ Len(t) = n + 1 /\ q \in 1 .. (n + 1)
        /\ \A i \in 1 .. (n + 1) : t[i] = IF i < q THEN s[i] ELSE IF i = q THEN e ELSE s[i - 1]
    BY DEF Inserts
  <1> HIDE DEF n
  <1>2. q \in 1 .. Len(t) /\ t[q] = e
    <2>1. ~(q < q)
      BY <1>1
    <2>. QED
      BY <1>1, <2>1
  <1>3. ASSUME NEW i \in 1 .. n
        PROVE  \E j \in 1 .. Len(t) : t[j] = s[i] /\ j # q /\ j = IF i < q THEN i ELSE i + 1
    <2>1. CASE i < q
      <3>1. i \in 1 .. (n + 1) /\ i # q
        BY <1>1, <2>1
      <3>2. t[i] = s[i]
        BY <1>1, <2>1, <3>1
      <3>. QED
        BY <1>1, <2>1, <3>1, <3>2
    <2>2. CASE ~(i < q)
      <3>1. i + 1 \in 1 .. (n + 1) /\ i + 1 # q /\ ~(i + 1 < q) /\ (i + 1) - 1 = i
        BY <1>1, <2>2
      <3>2. t[i + 1] = s[i]
        BY <1>1, <3>1
      <3>. QED
        BY <1>1, <2>2, <3>1, <3>2
    <2>. QED
      BY <2>1, <2>2
  <1>4. ASSUME NEW j \in 1 .. (n + 1), j # q
        PROVE  \E i \in 1 .. n : t[j] = s[i] /\ i = IF j < q THEN j ELSE j - 1
    <2>1. CASE j < q
      <3>1. j \in 1 .. n
        BY <1>1, <2>1
      <3>2. t[j] = s[j]
        BY <1>1, <2>1
      <3>. QED
        BY <2>1, <3>1, <3>2
    <2>2. CASE ~(j < q)
      <3>1. j - 1 \in 1 .. n
        BY <1>1, <1>4, <2>2
      <3>2. t[j] = s[j - 1]
        BY <1>1, <1>4, <2>2
      <3>. QED
        BY <2>2, <3>1, <3>2
    <2>. QED
      BY <2>1, <2>2
  <1>. QED
    BY <1>1, <1>2, <1>3, <1>4 DEF n

LEMMA RemovesWhere ==
  ASSUME NEW s, Len(s) \in Nat, NEW q \in 1 .. Len(s), NEW t, Removes(s, t, q)
  PROVE  /\ \A i \in 1 .. Len(s) : i = q \/ \E j \in 1 .. Len(t) : t[j] = s[i]
         /\ \A j \in 1 .. Len(t) : \E i \in 1 .. Len(s) :
              t[j] = s[i] /\ i # q /\ i = IF j < q THEN j ELSE j + 1
  <1> DEFINE n == Len(s)
  <1>1. n \in Nat /\ Len(t) = n - 1 /\ q \in 1 .. n
        /\ \A i \in 1 .. (n - 1) : t[i] = IF i < q THEN s[i] ELSE s[i + 1]
    BY DEF Removes
  <1> HIDE DEF n
  <1>2. ASSUME NEW i \in 1 .. n, i # q
        PROVE  \E j \in 1 .. (n - 1) : t[j] = s[i]
    <2>1. CASE i < q
      <3>1. i \in 1 .. (n - 1)
        BY <1>1, <2>1
      <3>2. t[i] = s[i]
        BY <1>1, <2>1, <3>1
      <3>. QED
        BY <3>1, <3>2
    <2>2. CASE ~(i < q)
      <3>1. i - 1 \in 1 .. (n - 1) /\ ~(i - 1 < q) /\ (i - 1) + 1 = i
        BY <1>1, <1>2, <2>2
      <3>2. t[i - 1] = s[i]
        BY <1>1, <3>1
      <3>. QED
        BY <3>1, <3>2
    <2>. QED
      BY <2>1, <2>2
  <1>3. ASSUME NEW j \in 1 .. (n - 1)
        PROVE  \E i \in 1 .. n : t[j] = s[i] /\ i # q /\ i = IF j < q THEN j ELSE j + 1
    <2>1. CASE j < q
      <3>1. j \in 1 .. n /\ j # q
        BY <1>1, <2>1
      <3>2. t[j] = s[j]
        BY <1>1, <2>1
      <3>. QED
        BY <2>1, <3>1, <3>2
    <2>2. CASE ~(j < q)
      <3>1. j + 1 \in 1 .. n /\ j + 1 # q
        BY <1>1, <2>2
      <3>2. t[j] = s[j + 1]
        BY <1>1, <2>2
      <3>. QED
        BY <2>2, <3>1, <3>2
    <2>. QED
      BY <2>1, <2>2
  <1>. QED
    BY <1>1, <1>2, <1>3 DEF n

LEMMA InsertedRow ==
  ASSUME NEW kd, NEW ct, NEW s, Len(s) \in Nat, NEW q \in 1 .. (Len(s) + 1), NEW e,
         NEW t, Inserts(s, t, q, e), NEW x, IdIn(kd, ct, e.key) = x, Without(kd, ct, s, x)
  PROVE  Affects(kd, ct, s, x, {e.value}, t)
  <1>1. /\ q \in 1 .. Len(t) /\ t[q] = e
        /\ \A i \in 1 .. Len(s) : \E j \in 1 .. Len(t) : t[j] = s[i]
        /\ \A j \in 1 .. Len(t) : j = q \/ \E i \in 1 .. Len(s) : t[j] = s[i]
    BY InsertsWhere
  <1>2. \A w : InRow(kd, ct, t, x, w) <=> w \in {e.value}
    <2> SUFFICES ASSUME NEW w
                 PROVE  InRow(kd, ct, t, x, w) <=> w = e.value
      OBVIOUS
    <2>1. ASSUME NEW j \in 1 .. Len(t), t[j].value = w, IdIn(kd, ct, t[j].key) = x
          PROVE  w = e.value
      <3>1. j = q
        BY <1>1, <2>1 DEF Without
      <3>. QED
        BY <1>1, <2>1, <3>1
    <2>. QED
      BY <1>1, <2>1 DEF InRow
  <1>3. \A y, w : y # x => (InRow(kd, ct, t, y, w) <=> InRow(kd, ct, s, y, w))
    <2> SUFFICES ASSUME NEW y, NEW w, y # x
                 PROVE  InRow(kd, ct, t, y, w) <=> InRow(kd, ct, s, y, w)
      OBVIOUS
    <2>1. ASSUME NEW j \in 1 .. Len(t), t[j].value = w, IdIn(kd, ct, t[j].key) = y
          PROVE  InRow(kd, ct, s, y, w)
      <3>1. j # q
        BY <1>1, <2>1
      <3>2. PICK i \in 1 .. Len(s) : t[j] = s[i]
        BY <1>1, <3>1
      <3>. QED
        BY <2>1, <3>2 DEF InRow
    <2>2. ASSUME NEW i \in 1 .. Len(s), s[i].value = w, IdIn(kd, ct, s[i].key) = y
          PROVE  InRow(kd, ct, t, y, w)
      <3>1. PICK j \in 1 .. Len(t) : t[j] = s[i]
        BY <1>1
      <3>. QED
        BY <2>2, <3>1 DEF InRow
    <2>. QED
      BY <2>1, <2>2 DEF InRow
  <1>. QED
    BY <1>2, <1>3 DEF Affects

LEMMA RemovedRow ==
  ASSUME NEW kd, NEW ct, NEW s, Len(s) \in Nat, NEW q \in 1 .. Len(s),
         NEW t, Removes(s, t, q), NEW x, Alone(kd, ct, s, q, x)
  PROVE  Affects(kd, ct, s, x, {}, t)
  <1>1. /\ \A i \in 1 .. Len(s) : i = q \/ \E j \in 1 .. Len(t) : t[j] = s[i]
        /\ \A j \in 1 .. Len(t) : \E i \in 1 .. Len(s) : t[j] = s[i] /\ i # q
    BY RemovesWhere
  <1>2. \A w : ~InRow(kd, ct, t, x, w)
    <2> SUFFICES ASSUME NEW j \in 1 .. Len(t), IdIn(kd, ct, t[j].key) = x
                 PROVE  FALSE
      BY DEF InRow
    <2>1. PICK i \in 1 .. Len(s) : t[j] = s[i] /\ i # q
      BY <1>1
    <2>. QED
      BY <2>1 DEF Alone
  <1>3. \A y, w : y # x => (InRow(kd, ct, t, y, w) <=> InRow(kd, ct, s, y, w))
    <2> SUFFICES ASSUME NEW y, NEW w, y # x
                 PROVE  InRow(kd, ct, t, y, w) <=> InRow(kd, ct, s, y, w)
      OBVIOUS
    <2>1. ASSUME NEW j \in 1 .. Len(t), t[j].value = w, IdIn(kd, ct, t[j].key) = y
          PROVE  InRow(kd, ct, s, y, w)
      <3>1. PICK i \in 1 .. Len(s) : t[j] = s[i]
        BY <1>1
      <3>. QED
        BY <2>1, <3>1 DEF InRow
    <2>2. ASSUME NEW i \in 1 .. Len(s), s[i].value = w, IdIn(kd, ct, s[i].key) = y
          PROVE  InRow(kd, ct, t, y, w)
      <3>1. i # q
        BY <2>2 DEF Alone
      <3>2. PICK j \in 1 .. Len(t) : t[j] = s[i]
        BY <1>1, <3>1
      <3>. QED
        BY <2>2, <3>2 DEF InRow
    <2>. QED
      BY <2>1, <2>2 DEF InRow
  <1>. QED
    BY <1>2, <1>3 DEF Affects

LEMMA ReplacedOrder ==
  ASSUME NEW kd, NEW ct, NEW s, NEW q, NEW v, NEW t, Replaces(s, q, v, t), Ordered(kd, ct, s)
  PROVE  Ordered(kd, ct, t)
  <1>1. Len(t) = Len(s) /\ \A i \in 1 .. Len(s) : t[i].key = s[i].key
    BY DEF Replaces
  <1>. QED
    BY <1>1 DEF Ordered

LEMMA InsertedOrder ==
  ASSUME NEW kd, NEW ct, NEW s, Len(s) \in Nat, NEW q \in 1 .. (Len(s) + 1), NEW e,
         NEW t, Inserts(s, t, q, e), Ordered(kd, ct, s),
         \A i \in 1 .. Len(s) : IF i < q THEN Below(kd, ct, s[i].key, e.key)
                                ELSE Below(kd, ct, e.key, s[i].key)
  PROVE  Ordered(kd, ct, t)
  <1>1. /\ q \in 1 .. Len(t) /\ t[q] = e
        /\ \A j \in 1 .. Len(t) : j = q \/ \E i \in 1 .. Len(s) :
              t[j] = s[i] /\ i = IF j < q THEN j ELSE j - 1
    BY InsertsWhere
  <1>2. Len(t) \in Nat /\ q \in Nat
    BY DEF Inserts
  <1> SUFFICES ASSUME NEW j \in 1 .. Len(t), NEW k \in 1 .. Len(t), j < k
               PROVE  Below(kd, ct, t[j].key, t[k].key)
    BY DEF Ordered
  <1>3. CASE j = q
    <2>1. k # q
      BY <1>2, <1>3
    <2>2. PICK i \in 1 .. Len(s) : t[k] = s[i] /\ i = IF k < q THEN k ELSE k - 1
      BY <1>1, <2>1
    <2>3. ~(i < q)
      BY <1>2, <1>3, <2>2
    <2>. QED
      BY <1>1, <1>3, <2>2, <2>3
  <1>4. CASE k = q
    <2>1. j # q
      BY <1>2, <1>4
    <2>2. PICK i \in 1 .. Len(s) : t[j] = s[i] /\ i = IF j < q THEN j ELSE j - 1
      BY <1>1, <2>1
    <2>3. i < q
      BY <1>2, <1>4, <2>2
    <2>. QED
      BY <1>1, <1>4, <2>2, <2>3
  <1>5. CASE j # q /\ k # q
    <2>1. PICK a \in 1 .. Len(s) : t[j] = s[a] /\ a = IF j < q THEN j ELSE j - 1
      BY <1>1, <1>5
    <2>2. PICK b \in 1 .. Len(s) : t[k] = s[b] /\ b = IF k < q THEN k ELSE k - 1
      BY <1>1, <1>5
    <2>3. a < b
      BY <1>2, <1>5, <2>1, <2>2
    <2>. QED
      BY <2>1, <2>2, <2>3 DEF Ordered
  <1>. QED
    BY <1>3, <1>4, <1>5

LEMMA RemovedOrder ==
  ASSUME NEW kd, NEW ct, NEW s, Len(s) \in Nat, NEW q \in 1 .. Len(s),
         NEW t, Removes(s, t, q), Ordered(kd, ct, s)
  PROVE  Ordered(kd, ct, t)
  <1>1. \A j \in 1 .. Len(t) : \E i \in 1 .. Len(s) :
          t[j] = s[i] /\ i = IF j < q THEN j ELSE j + 1
    BY RemovesWhere
  <1>2. Len(t) \in Int /\ q \in Nat
    BY DEF Removes
  <1> SUFFICES ASSUME NEW j \in 1 .. Len(t), NEW k \in 1 .. Len(t), j < k
               PROVE  Below(kd, ct, t[j].key, t[k].key)
    BY DEF Ordered
  <1>3. PICK a \in 1 .. Len(s) : t[j] = s[a] /\ a = IF j < q THEN j ELSE j + 1
    BY <1>1
  <1>4. PICK b \in 1 .. Len(s) : t[k] = s[b] /\ b = IF k < q THEN k ELSE k + 1
    BY <1>1
  <1>5. a < b
    BY <1>2, <1>3, <1>4
  <1>. QED
    BY <1>3, <1>4, <1>5 DEF Ordered
-----------------------------------------------------------------------------
(* The invariant of the table.                                             *)

Stored(B, sz, kd, ct, as) ==
  /\ B \in [BucketIds -> Seq(Pairs)]
  /\ sz = Len(EntriesIn(B))
  /\ kd \in Kinds
  /\ ct \in [Keys -> Contents]
  /\ as \in BOOLEAN
  /\ ~as => Housed(B, kd, ct)

TableInv == Stored(buckets, size, kind, content, astray)

LEMMA TableInvNext == TableInv' <=> Stored(buckets', size', kind', content', astray')
  BY DEF TableInv, Stored, Housed, Ordered, Below, TextIn, HashIn, EntriesIn, Rows, Pairs, BucketIds

LEMMA EntriesNow == Entries = EntriesIn(buckets)
  BY DEF Entries, EntriesIn, Rows

\* The keys as the operations see them.
LEMMA KeysNow ==
  ASSUME TableInv, NEW k \in Keys
  PROVE  /\ Hash(k) = HashIn(content, k) /\ Hash(k) \in BucketIds
         /\ content[k] \in Contents /\ content[k] \in Int /\ Prefix[content[k]] \in Int
         /\ Text(k) = TextIn(kind, content, k) /\ Text(k) \in Int
         /\ Id(k) = IdIn(kind, content, k) /\ Id(k) \in Ids
  <1>1. content \in [Keys -> Contents]
    BY DEF TableInv, Stored
  <1>2. content[k] \in Contents /\ content[k] \in Int /\ Prefix[content[k]] \in Int
    BY <1>1, ContentsAssumption
  <1>3. Hash(k) = HashIn(content, k)
    BY DEF Hash, HashIn
  <1>4. Hash(k) \in BucketIds
    <2> DEFINE a == IF content[k] < 0 THEN -content[k] ELSE content[k]
               n == NoBuckets
    <2>1. a \in Nat
      BY <1>2
    <2>2. n \in Nat /\ n > 0
      BY ContentsAssumption
    <2> HIDE DEF a, n
    <2>3. (a % n) \in 0 .. (n - 1)
      BY <2>1, <2>2
    <2>. QED
      BY <2>3 DEF a, n, Hash, BucketIds
  <1>5. Text(k) = TextIn(kind, content, k)
    BY DEF Text, TextIn
  <1>6. Text(k) \in Int
    BY <1>2 DEF Text
  <1>7. Id(k) = IdIn(kind, content, k) /\ Id(k) \in Ids
    BY <1>2 DEF Id, IdIn, Ids
  <1>. QED
    BY <1>2, <1>3, <1>4, <1>5, <1>6, <1>7

\* Keys that stand for the same are sought in the same bucket, and a key that
\* precedes another stands for something else.
LEMMA SameId ==
  ASSUME TableInv, NEW a \in Keys, NEW k \in Keys,
         IdIn(kind, content, a) = IdIn(kind, content, k)
  PROVE  HashIn(content, a) = HashIn(content, k) /\ Eq(a, k)
  BY DEF IdIn, HashIn, Eq

LEMMA BelowDiffers ==
  ASSUME TableInv, NEW a \in Keys, NEW k \in Keys,
         Below(kind, content, a, k) \/ Below(kind, content, k, a)
  PROVE  IdIn(kind, content, a) # IdIn(kind, content, k)
  <1>1. content[a] \in Int /\ content[k] \in Int
    BY KeysNow
  <1>2. CASE kind = "int"
    BY <1>1, <1>2 DEF Below, IdIn
  <1>3. CASE kind # "int"
    BY <1>3 DEF Below, IdIn, TextIn
  <1>. QED
    BY <1>2, <1>3

\* The search in the bucket s of k stops behind p entries.
Sought(s, k, p) ==
  /\ s \in Seq(Pairs) /\ Len(s) \in Nat /\ p \in 0 .. Len(s)
  /\ \A i \in 1 .. p : ~Comp(s[i].key, k)
  /\ p < Len(s) => Comp(s[p + 1].key, k)

LEMMA Search ==
  ASSUME TableInv, NEW k \in Keys
  PROVE  Sought(buckets[Hash(k)], k, Previous(k))
  <1> DEFINE s == buckets[Hash(k)]
             p == Previous(k)
             n == Len(s)
             ends == {i \in DOMAIN s : Comp(s[i].key, k)}
  <1>1. s \in Seq(Pairs)
    BY KeysNow DEF TableInv, Stored
  <1>2. p = IF ends = {} THEN n ELSE Min(ends) - 1
    BY DEF Previous
  <1> HIDE DEF s, p
  <1>3. n \in Nat /\ DOMAIN s = 1 .. n
    BY <1>1, LenProperties
  <1>4. ends = {i \in 1 .. n : Comp(s[i].key, k)}
    BY <1>3
  <1> HIDE DEF n, ends
  <1>5. CASE ends = {}
    <2>1. p = n
      BY <1>2, <1>5
    <2>2. \A i \in 1 .. p : ~Comp(s[i].key, k)
      BY <1>4, <1>5, <2>1
    <2>3. p \in 0 .. n /\ ~(p < n)
      BY <1>3, <2>1
    <2>. QED
      BY <1>1, <1>3, <2>2, <2>3 DEF Sought, s, p, n
  <1>6. CASE ends # {}
    <2> DEFINE m == Min(ends)
    <2>1. ends \subseteq Nat
      BY <1>3, <1>4
    <2>2. \E x \in ends : \A y \in ends : x <= y
      BY <1>6, <2>1, LeastNumber
    <2>3. m \in ends /\ \A y \in ends : m <= y
      BY <2>2 DEF Min
    <2>4. p = m - 1
      BY <1>2, <1>6
    <2> HIDE DEF m
    <2>5. m \in 1 .. n /\ Comp(s[m].key, k)
      BY <1>4, <2>3
    <2>6. p \in 0 .. n /\ p + 1 = m
      BY <1>3, <2>4, <2>5
    <2>7. \A i \in 1 .. p : i \in 1 .. n /\ ~(m <= i)
      BY <1>3, <2>4, <2>5
    <2>8. \A i \in 1 .. p : ~Comp(s[i].key, k)
      BY <1>4, <2>3, <2>7
    <2>. QED
      BY <1>1, <1>3, <2>5, <2>6, <2>8 DEF Sought, s, p, n
  <1>. QED
    BY <1>5, <1>6

LEMMA RowKeys ==
  ASSUME NEW s \in Seq(Pairs)
  PROVE  /\ Len(s) \in Nat
         /\ \A i \in 1 .. Len(s) : s[i] \in Pairs /\ s[i].key \in Keys /\ s[i].value \in Values
  <1>1. Len(s) \in Nat /\ \A i \in 1 .. Len(s) : s[i] \in Pairs
    BY LenProperties, ElementOfSeq
  <1>2. \A e \in Pairs : e.key \in Keys /\ e.value \in Values
    BY DEF Pairs
  <1>. QED
    BY <1>1, <1>2

\* What the search finds is the only entry for its key.
LEMMA FoundAlone ==
  ASSUME TableInv, astray = FALSE, NEW k \in Keys, HasKey(k)
  PROVE  Alone(kind, content, buckets[Hash(k)], Previous(k) + 1, Id(k))
  <1> DEFINE s == buckets[Hash(k)]
             p == Previous(k)
             q == p + 1
             n == Len(s)
  <1>1. Sought(s, k, p) /\ p < n /\ Eq(s[q].key, k)
    BY Search DEF HasKey
  <1>2. s \in Seq(Pairs) /\ n \in Nat /\ q \in 1 .. n
    BY <1>1 DEF Sought
  <1>3. \A i \in 1 .. n : s[i].key \in Keys
    BY <1>2, RowKeys
  <1>4. Ordered(kind, content, s)
    <2>1. Housed(buckets, kind, content) /\ Hash(k) \in BucketIds
      BY KeysNow DEF TableInv, Stored
    <2>. QED
      BY <2>1 DEF Housed
  <1> DEFINE a == s[q].key
  <1>5. IdIn(kind, content, a) = Id(k)
    BY <1>1 DEF Eq, IdIn, Id
  <1> HIDE DEF s, p, q
  <1>6. ASSUME NEW i \in 1 .. n, i # q
        PROVE  IdIn(kind, content, s[i].key) # Id(k)
    <2>1. i < q \/ q < i
      BY <1>2, <1>6
    <2>2. Below(kind, content, s[i].key, s[q].key) \/ Below(kind, content, s[q].key, s[i].key)
      BY <1>2, <1>4, <2>1 DEF Ordered
    <2>3. s[i].key \in Keys /\ s[q].key \in Keys
      BY <1>2, <1>3
    <2>. QED
      BY <1>5, <2>2, <2>3, BelowDiffers
  <1>7. Alone(kind, content, s, q, Id(k))
    BY <1>2, <1>5, <1>6 DEF Alone
  <1>. QED
    BY <1>7 DEF s, p, q

\* Where the search finds nothing, and no other key is like k to it, every
\* entry before the place that it stops at precedes k, and k those behind.
LEMMA MissingPlace ==
  ASSUME TableInv, astray = FALSE, NEW k \in Keys, ~HasKey(k), ~Alike(k),
         NEW i \in 1 .. Len(buckets[Hash(k)])
  PROVE  IF i < Previous(k) + 1 THEN Below(kind, content, buckets[Hash(k)][i].key, k)
                                ELSE Below(kind, content, k, buckets[Hash(k)][i].key)
  <1> DEFINE s == buckets[Hash(k)]
             p == Previous(k)
             q == p + 1
             n == Len(s)
  <1>1. Sought(s, k, p) /\ (p < n => ~Eq(s[q].key, k))
    BY Search DEF HasKey
  <1>2. ~(kind = "merch" /\ \E j \in DOMAIN s : s[j].key # k /\ Text(s[j].key) = Text(k))
    BY DEF Alike
  <1>3. Ordered(kind, content, s)
    <2>1. Housed(buckets, kind, content) /\ Hash(k) \in BucketIds
      BY KeysNow DEF TableInv, Stored
    <2>. QED
      BY <2>1 DEF Housed
  <1>4. i \in 1 .. n
    OBVIOUS
  <1> HIDE DEF s, p
  <1>5. /\ s \in Seq(Pairs) /\ n \in Nat /\ p \in 0 .. n /\ DOMAIN s = 1 .. n
        /\ \A j \in 1 .. p : ~Comp(s[j].key, k)
        /\ p < n => Comp(s[q].key, k)
    BY <1>1, LenProperties DEF Sought
  <1>6. \A j \in 1 .. n : s[j].key \in Keys
    BY <1>5, RowKeys
  <1> DEFINE a == s[i].key
             b == s[q].key
  <1>7. /\ content[a] \in Int /\ content[k] \in Int
        /\ Text(a) = TextIn(kind, content, a) /\ Text(k) = TextIn(kind, content, k)
    BY <1>4, <1>6, KeysNow
  <1>8. CASE i < q
    <2>1. i \in 1 .. p
      BY <1>4, <1>5, <1>8
    <2>2. ~Comp(a, k)
      BY <1>5, <2>1
    <2> HIDE DEF a
    <2>3. Below(kind, content, a, k)
      BY <1>7, <2>2 DEF Comp, Below
    <2>. QED
      BY <1>8, <2>3 DEF a, s, p
  <1>9. CASE ~(i < q)
    <2>1. p < n /\ q \in 1 .. n
      BY <1>4, <1>5, <1>9
    <2>2. Comp(b, k) /\ ~Eq(b, k)
      BY <1>1, <1>5, <2>1
    <2>3. content[b] \in Int /\ b \in Keys
      BY <1>6, <2>1, KeysNow
    <2>4. kind = "int"
      <3>1. CASE kind = "merch"
        <4>1. Text(b) = Text(k) /\ b # k
          BY <2>2, <3>1 DEF Comp, Eq
        <4>. QED
          BY <1>2, <1>5, <2>1, <3>1, <4>1
      <3>2. CASE kind # "merch" /\ kind # "int"
        <4>. QED
          BY <2>2, <3>2 DEF Comp, Eq, Text
      <3>. QED
        BY <3>1, <3>2
    <2>5. i = q \/ Below(kind, content, b, a)
      <3>1. i = q \/ q < i
        BY <1>4, <1>5, <1>9
      <3>. QED
        BY <1>3, <1>4, <2>1, <3>1 DEF Ordered
    <2>6. i = q => a = b
      OBVIOUS
    <2> HIDE DEF a, b, q
    <2>7. content[k] < content[b]
      BY <1>7, <2>2, <2>3, <2>4 DEF Comp, Eq
    <2>8. Below(kind, content, k, a)
      BY <1>7, <2>3, <2>4, <2>5, <2>6, <2>7 DEF Below
    <2>. QED
      BY <1>9, <2>8 DEF a, s, p, q
  <1>. QED
    BY <1>8, <1>9

LEMMA MissingWithout ==
  ASSUME TableInv, astray = FALSE, NEW k \in Keys, ~HasKey(k), ~Alike(k)
  PROVE  Without(kind, content, buckets[Hash(k)], Id(k))
  <1> DEFINE s == buckets[Hash(k)]
  <1>1. s \in Seq(Pairs)
    BY KeysNow DEF TableInv, Stored
  <1> SUFFICES ASSUME NEW i \in 1 .. Len(s)
               PROVE  IdIn(kind, content, s[i].key) # Id(k)
    BY DEF Without
  <1>2. Below(kind, content, s[i].key, k) \/ Below(kind, content, k, s[i].key)
    BY MissingPlace
  <1> HIDE DEF s
  <1>3. s[i].key \in Keys
    BY <1>1, RowKeys
  <1>4. Id(k) = IdIn(kind, content, k)
    BY KeysNow
  <1>. QED
    BY <1>2, <1>3, <1>4, BelowDiffers
-----------------------------------------------------------------------------
(* The operations of the table.                                            *)

LEMMA HeldRow ==
  ASSUME NEW B \in [BucketIds -> Seq(Pairs)], NEW kd, NEW ct, NEW x, NEW b \in BucketIds, NEW v,
         InRow(kd, ct, B[b], x, v)
  PROVE  v \in Values
  <1> DEFINE s == B[b]
  <1>1. s \in Seq(Pairs)
    OBVIOUS
  <1>2. PICK i \in 1 .. Len(s) : s[i].value = v
    BY DEF InRow
  <1> HIDE DEF s
  <1>. QED
    BY <1>1, <1>2, RowKeys

LEMMA MapNow ==
  ASSUME TableInv
  PROVE  MapOf = Held(buckets, kind, content)
  <1>1. buckets \in [BucketIds -> Seq(Pairs)]
    BY DEF TableInv, Stored
  <1>2. \A e : e \in ToSet(Entries) <=> \E b \in BucketIds : \E i \in 1 .. Len(buckets[b]) : e = buckets[b][i]
    BY <1>1, EntriesFacts, EntriesNow
  <1> DEFINE M(x) == {Lookup(k) : k \in {k \in Keys : Id(k) = x /\ HasKey(k)}}
             N(x) == {e.value : e \in {e \in ToSet(Entries) : Id(e.key) = x}}
             P(x) == {v \in Values : \E b \in BucketIds : InRow(kind, content, buckets[b], x, v)}
  <1>3. \A k : Id(k) = IdIn(kind, content, k)
    BY DEF Id, IdIn
  <1>4. ASSUME NEW x
        PROVE  N(x) = P(x)
    <2>1. ASSUME NEW v \in N(x)
          PROVE  v \in P(x)
      <3>1. PICK e \in ToSet(Entries) : Id(e.key) = x /\ v = e.value
        BY <2>1
      <3>2. PICK b \in BucketIds : \E i \in 1 .. Len(buckets[b]) : e = buckets[b][i]
        BY <1>2, <3>1
      <3>3. InRow(kind, content, buckets[b], x, v)
        BY <1>3, <3>1, <3>2 DEF InRow
      <3>4. v \in Values
        BY <1>1, <3>3, HeldRow
      <3>. QED
        BY <3>3, <3>4
    <2>2. ASSUME NEW v \in P(x)
          PROVE  v \in N(x)
      <3>1. PICK b \in BucketIds : InRow(kind, content, buckets[b], x, v)
        BY <2>2
      <3>2. PICK i \in 1 .. Len(buckets[b]) :
              buckets[b][i].value = v /\ IdIn(kind, content, buckets[b][i].key) = x
        BY <3>1 DEF InRow
      <3> DEFINE e == buckets[b][i]
      <3>3. e \in ToSet(Entries)
        BY <1>2
      <3>4. Id(e.key) = x /\ e.value = v
        BY <1>3, <3>2
      <3> HIDE DEF e
      <3>. QED
        BY <3>3, <3>4
    <2>. QED
      BY <2>1, <2>2
  <1>5. ASSUME NEW x, NEW v \in M(x)
        PROVE  v \in P(x)
    <2>1. PICK k \in Keys : Id(k) = x /\ HasKey(k) /\ v = Lookup(k)
      BY <1>5
    <2> DEFINE s == buckets[Hash(k)]
               q == Previous(k) + 1
    <2>2. /\ Hash(k) \in BucketIds /\ s \in Seq(Pairs) /\ Len(s) \in Nat
          /\ Previous(k) \in 0 .. Len(s) /\ Previous(k) < Len(s)
          /\ Eq(s[q].key, k) /\ v = s[q].value
      BY <2>1, KeysNow, Search DEF Sought, HasKey, Lookup
    <2>3. q \in 1 .. Len(s)
      BY <2>2
    <2>4. IdIn(kind, content, s[q].key) = x
      BY <2>1, <2>2 DEF Eq, Id, IdIn
    <2> HIDE DEF q
    <2>5. InRow(kind, content, s, x, v)
      BY <2>2, <2>3, <2>4 DEF InRow
    <2>6. v \in Values
      BY <1>1, <2>2, <2>5, HeldRow
    <2>. QED
      BY <2>2, <2>5, <2>6
  <1>6. MapOf = [x \in Ids |-> M(x) \cup N(x)]
    BY DEF MapOf
  <1>7. Held(buckets, kind, content) = [x \in Ids |-> P(x)]
    BY DEF Held
  <1>8. \A x : M(x) \cup N(x) = P(x)
    <2> HIDE DEF M, N, P
    <2>. QED
      BY <1>4, <1>5
  <1> HIDE DEF M, N, P
  <1>. QED
    BY <1>6, <1>7, <1>8

LEMMA HeldNext == Held(buckets, kind, content)' = Held(buckets', kind', content')
  BY DEF Held, InRow, IdIn, Ids, BucketIds

LEMMA MapAlways == TableInv => MapOf = Held(buckets, kind, content)
  BY MapNow

LEMMA MapNext ==
  ASSUME TableInv'
  PROVE  MapOf' = Held(buckets', kind', content')
  <1>1. (TableInv => MapOf = Held(buckets, kind, content))'
    BY MapAlways, PTL
  <1>2. MapOf' = Held(buckets, kind, content)'
    BY <1>1
  <1>. QED
    BY <1>2, HeldNext

\* B with the bucket t at h.
Swaps(B, h, t, B2) ==
  /\ B2 \in [BucketIds -> Seq(Pairs)]
  /\ B2[h] = t
  /\ \A b \in BucketIds : b # h => B2[b] = B[b]

LEMMA ExceptSwaps ==
  ASSUME NEW B \in [BucketIds -> Seq(Pairs)], NEW h \in BucketIds, NEW t \in Seq(Pairs)
  PROVE  Swaps(B, h, t, [B EXCEPT ![h] = t])
  <1> DEFINE S == Seq(Pairs)
  <1>1. B \in [BucketIds -> S] /\ t \in S
    OBVIOUS
  <1> HIDE DEF S
  <1>2. [B EXCEPT ![h] = t] \in [BucketIds -> S]
    BY <1>1
  <1>. QED
    BY <1>1, <1>2 DEF Swaps, S

LEMMA TableChange ==
  ASSUME TableInv, NEW h \in BucketIds, NEW t, Swaps(buckets, h, t, buckets'),
         size' = size - Len(buckets[h]) + Len(t), kind' = kind, content' = content,
         astray' \in BOOLEAN,
         astray' = FALSE =>
           /\ astray = FALSE /\ Ordered(kind, content, t)
           /\ \A i \in 1 .. Len(t) : HashIn(content, t[i].key) = h
  PROVE  TableInv'
  <1> DEFINE B == buckets
             B2 == buckets'
  <1>1. /\ B \in [BucketIds -> Seq(Pairs)] /\ size = Len(EntriesIn(B))
        /\ astray = FALSE => Housed(B, kind, content)
    BY DEF TableInv, Stored
  <1>2. /\ B2 \in [BucketIds -> Seq(Pairs)] /\ B2[h] = t
        /\ \A b \in BucketIds : b # h => B2[b] = B[b]
    BY DEF Swaps
  <1>3. size' = size - Len(B[h]) + Len(t)
    OBVIOUS
  <1> HIDE DEF B, B2
  <1>4. Len(EntriesIn(B2)) = Len(EntriesIn(B)) - Len(B[h]) + Len(B2[h])
    BY <1>1, <1>2, EntriesChange
  <1>5. size' = Len(EntriesIn(B2))
    BY <1>1, <1>2, <1>3, <1>4
  <1>6. astray' = FALSE => Housed(B2, kind, content)
    BY <1>1, <1>2 DEF Housed
  <1>7. kind \in Kinds /\ content \in [Keys -> Contents]
    BY DEF TableInv, Stored
  <1>8. Stored(B2, size', kind', content', astray')
    BY <1>2, <1>5, <1>6, <1>7 DEF Stored
  <1>. QED
    BY <1>8, TableInvNext DEF B2

\* What a bucket holds for its keys, the table does.
LEMMA MapChange ==
  ASSUME TableInv, astray = FALSE, NEW k \in Keys, NEW t,
         Swaps(buckets, Hash(k), t, buckets'), kind' = kind, content' = content,
         NEW V, V \subseteq Values,
         Affects(kind, content, buckets[Hash(k)], Id(k), V, t)
  PROVE  Held(buckets', kind', content')
           = [Held(buckets, kind, content) EXCEPT ![Id(k)] = V]
  <1> DEFINE B == buckets
             B2 == buckets'
             h == Hash(k)
             x == Id(k)
             G(C, y) == {v \in Values : \E b \in BucketIds : InRow(kind, content, C[b], y, v)}
  <1>1. /\ B \in [BucketIds -> Seq(Pairs)] /\ h \in BucketIds /\ x \in Ids
        /\ h = HashIn(content, k) /\ x = IdIn(kind, content, k) /\ Housed(B, kind, content)
    BY KeysNow DEF TableInv, Stored
  <1>2. B2[h] = t /\ \A b \in BucketIds : b # h => B2[b] = B[b]
    BY DEF Swaps
  <1>3. /\ \A v : InRow(kind, content, t, x, v) <=> v \in V
        /\ \A y, v : y # x => (InRow(kind, content, t, y, v) <=> InRow(kind, content, B[h], y, v))
    BY DEF Affects
  <1> HIDE DEF B, B2, h, x
  <1>4. ASSUME NEW b \in BucketIds, b # h, NEW v
        PROVE  ~InRow(kind, content, B[b], x, v)
    <2> SUFFICES ASSUME NEW i \in 1 .. Len(B[b]), IdIn(kind, content, B[b][i].key) = x
                 PROVE  FALSE
      BY DEF InRow
    <2> DEFINE s == B[b]
               a == s[i].key
    <2>1. s \in Seq(Pairs) /\ i \in 1 .. Len(s)
      BY <1>1
    <2>2. HashIn(content, a) = b
      BY <1>1 DEF Housed
    <2>3. IdIn(kind, content, a) = x
      OBVIOUS
    <2>4. a \in Keys
      <3> HIDE DEF s
      <3>. QED
        BY <2>1, RowKeys
    <2> HIDE DEF a, s
    <2>5. HashIn(content, a) = HashIn(content, k)
      BY <1>1, <2>3, <2>4, SameId
    <2>. QED
      BY <1>1, <1>4, <2>2, <2>5
  <1>5. G(B2, x) = V
    BY <1>1, <1>2, <1>3, <1>4
  <1>6. \A y : y # x => G(B2, y) = G(B, y)
    BY <1>1, <1>2, <1>3
  <1>7. /\ Held(B2, kind, content) = [y \in Ids |-> G(B2, y)]
        /\ Held(B, kind, content) = [y \in Ids |-> G(B, y)]
    BY DEF Held
  <1> HIDE DEF G
  <1>8. Held(B2, kind, content) = [Held(B, kind, content) EXCEPT ![x] = V]
    BY <1>1, <1>5, <1>6, <1>7
  <1>. QED
    BY <1>8 DEF B, B2, x

MapStep == Map!Next \/ (MapOf' = MapOf /\ astray' = astray)

\* The steps of the contract.
LEMMA MapSteps ==
  /\ \A k \in Keys, v \in Values :
       TableInv /\ astray = FALSE /\ astray' = FALSE /\ MapOf' = [MapOf EXCEPT ![Id(k)] = {v}] => MapStep
  /\ \A k \in Keys :
       TableInv /\ astray = FALSE /\ astray' = FALSE /\ MapOf' = [MapOf EXCEPT ![Id(k)] = {}] => MapStep
  /\ MapOf' = [x \in Ids |-> {}] => MapStep
  /\ astray' = TRUE => MapStep
  <1> USE DEF MapStep, Map!Next, Map!Insert, Map!Remove, Map!Empty
  <1>1. ASSUME NEW k \in Keys, NEW v \in Values, TableInv, astray = FALSE, astray' = FALSE,
               MapOf' = [MapOf EXCEPT ![Id(k)] = {v}]
        PROVE  MapStep
    <2> DEFINE x == Id(k)
    <2>1. x \in Ids
      BY <1>1, KeysNow
    <2>2. MapOf' = [MapOf EXCEPT ![x] = {v}]
      BY <1>1
    <2> HIDE DEF x
    <2>3. Map!Insert(x, v)
      BY <2>2
    <2>. QED
      BY <1>1, <2>1, <2>3
  <1>2. ASSUME NEW k \in Keys, TableInv, astray = FALSE, astray' = FALSE,
               MapOf' = [MapOf EXCEPT ![Id(k)] = {}]
        PROVE  MapStep
    <2> DEFINE x == Id(k)
    <2>1. x \in Ids
      BY <1>2, KeysNow
    <2>2. MapOf' = [MapOf EXCEPT ![x] = {}]
      BY <1>2
    <2> HIDE DEF x
    <2>3. Map!Remove(x)
      BY <2>2
    <2>. QED
      BY <1>2, <2>1, <2>3
  <1>3. MapOf' = [x \in Ids |-> {}] => MapStep
    <2>1. (Map!Empty)' <=> MapOf' = [x \in Ids |-> {}]
      BY DEF Ids
    <2>. QED
      BY <2>1
  <1>4. astray' = TRUE => MapStep
    OBVIOUS
  <1>. QED
    BY <1>1, <1>2, <1>3, <1>4
LEMMA InsertStep ==
  ASSUME TableInv, NEW k \in Keys, NEW v \in Values, TableInsert(k, v)
  PROVE  TableInv' /\ MapStep
  <1> DEFINE h == Hash(k)
             s == buckets[h]
             p == Previous(k)
             q == p + 1
             n == Len(s)
             e == [key |-> k, value |-> v]
             t == IF HasKey(k) THEN [s EXCEPT ![q].value = v] ELSE InsertAt(s, q, e)
             x == Id(k)
  <1>1. /\ buckets' = [buckets EXCEPT ![h] = t]
        /\ size' = (IF HasKey(k) THEN size ELSE size + 1)
        /\ astray' = (astray \/ Alike(k)) /\ kind' = kind /\ content' = content
    BY DEF TableInsert, SizeWith
  <1>2. /\ buckets \in [BucketIds -> Seq(Pairs)] /\ astray \in BOOLEAN /\ size = Len(EntriesIn(buckets))
        /\ ~astray => Housed(buckets, kind, content)
    BY DEF TableInv, Stored
  <1>3. /\ h \in BucketIds /\ h = HashIn(content, k) /\ x = IdIn(kind, content, k)
    BY KeysNow
  <1>4. /\ s \in Seq(Pairs) /\ n \in Nat /\ p \in 0 .. n /\ (HasKey(k) => p < n)
    BY Search DEF Sought, HasKey
  <1>5. size \in Nat
    BY <1>2, EntriesFacts
  <1>6. q \in 1 .. (n + 1) /\ (HasKey(k) => q \in 1 .. n)
    BY <1>4
  <1>7. e \in Pairs /\ e.key = k /\ e.value = v
    BY DEF Pairs
  <1>8. HasKey(k) => Replaces(s, q, v, t) /\ t \in Seq(Pairs)
    <2> SUFFICES ASSUME HasKey(k)
                 PROVE  Replaces(s, q, v, t) /\ t \in Seq(Pairs)
      OBVIOUS
    <2> DEFINE u == [s EXCEPT ![q].value = v]
    <2>1. t = u
      OBVIOUS
    <2> HIDE DEF s, q, t
    <2>2. DOMAIN s = 1 .. n /\ \A i \in 1 .. n : s[i] \in Pairs
      BY <1>4, LenProperties, ElementOfSeq
    <2>3. /\ \A i \in 1 .. n : u[i] = IF i = q THEN [s[i] EXCEPT !.value = v] ELSE s[i]
          /\ u = [i \in 1 .. n |-> u[i]]
      BY <2>2
    <2> HIDE DEF u
    <2>4. \A i \in 1 .. n : /\ u[i].key = s[i].key /\ u[i].value = IF i = q THEN v ELSE s[i].value
                            /\ u[i] \in Pairs
      <3> SUFFICES ASSUME NEW i \in 1 .. n
                   PROVE  /\ u[i].key = s[i].key /\ u[i].value = IF i = q THEN v ELSE s[i].value
                          /\ u[i] \in Pairs
        OBVIOUS
      <3>1. s[i] \in [key : Keys, value : Values]
        BY <2>2 DEF Pairs
      <3> DEFINE r == s[i]
      <3>2. [r EXCEPT !.value = v].key = r.key /\ [r EXCEPT !.value = v].value = v
            /\ [r EXCEPT !.value = v] \in [key : Keys, value : Values]
        <4> HIDE DEF r
        <4>. QED
          BY <3>1 DEF r
      <3>. QED
        BY <2>3, <3>1, <3>2 DEF Pairs
    <2>5. u \in [1 .. n -> Pairs]
      BY <2>3, <2>4
    <2>6. u \in Seq(Pairs) /\ Len(u) = n
      BY <1>4, <2>5, SequenceIs
    <2>. QED
      BY <2>1, <2>4, <2>6 DEF Replaces
  <1>9. ~HasKey(k) => Inserts(s, t, q, e) /\ t \in Seq(Pairs)
    <2> DEFINE u == InsertAt(s, q, e)
    <2>1. ~HasKey(k) => t = u
      OBVIOUS
    <2> HIDE DEF s, q, e, u, t
    <2>2. u \in Seq(Pairs) /\ Inserts(s, u, q, e)
      BY <1>4, <1>6, <1>7, InsertedIs DEF u
    <2>. QED
      BY <2>1, <2>2
  <1> HIDE DEF h, s, p, q, e, t, x
  <1>10. t \in Seq(Pairs) /\ Len(t) \in Nat /\ Len(t) = (IF HasKey(k) THEN n ELSE n + 1)
    BY <1>4, <1>8, <1>9, LenProperties DEF Replaces, Inserts
  <1>11. Swaps(buckets, h, t, buckets')
    BY <1>1, <1>2, <1>3, <1>10, ExceptSwaps
  <1>12. size' = size - Len(buckets[h]) + Len(t)
    <2>1. Len(buckets[h]) = n
      BY DEF s
    <2> DEFINE w == Len(t)
    <2>2. w = (IF HasKey(k) THEN n ELSE n + 1)
      BY <1>10
    <2> HIDE DEF w, n
    <2>3. size' = size - n + w
      BY <1>1, <1>4, <1>5, <2>2
    <2>. QED
      BY <2>1, <2>3 DEF w
  <1>13. ASSUME astray' = FALSE
         PROVE  /\ astray = FALSE /\ ~Alike(k)
                /\ Ordered(kind, content, t) /\ Affects(kind, content, s, x, {v}, t)
                /\ \A i \in 1 .. Len(t) : HashIn(content, t[i].key) = h
    <2>1. astray = FALSE /\ ~Alike(k)
      BY <1>1, <1>2, <1>13
    <2>2. Ordered(kind, content, s) /\ \A i \in 1 .. n : HashIn(content, s[i].key) = h
      BY <1>2, <1>3, <2>1 DEF Housed, s
    <2>3. CASE HasKey(k)
      <3>1. Ordered(kind, content, t)
        BY <1>8, <2>2, <2>3, ReplacedOrder
      <3>2. Alone(kind, content, s, q, x)
        BY <2>1, <2>3, FoundAlone DEF s, q, p, x, h
      <3>3. Affects(kind, content, s, x, {v}, t)
        BY <1>8, <2>3, <3>2, ReplacedRow
      <3>4. \A i \in 1 .. Len(t) : HashIn(content, t[i].key) = h
        BY <1>8, <2>2, <2>3 DEF Replaces, HashIn
      <3>. QED
        BY <2>1, <3>1, <3>3, <3>4
    <2>4. CASE ~HasKey(k)
      <3>1. \A i \in 1 .. n : IF i < q THEN Below(kind, content, s[i].key, e.key)
                              ELSE Below(kind, content, e.key, s[i].key)
        <4>1. ASSUME NEW i \in 1 .. n
              PROVE  IF i < q THEN Below(kind, content, s[i].key, k)
                              ELSE Below(kind, content, k, s[i].key)
          BY <2>1, <2>4, MissingPlace DEF s, q, p, h
        <4>. QED
          BY <1>7, <4>1
      <3>2. Ordered(kind, content, t)
        BY <1>4, <1>6, <1>9, <2>2, <2>4, <3>1, InsertedOrder
      <3>3. Without(kind, content, s, x)
        BY <2>1, <2>4, MissingWithout DEF s, x, h
      <3>4. IdIn(kind, content, e.key) = x
        BY <1>3, <1>7
      <3>5. Affects(kind, content, s, x, {e.value}, t)
        BY <1>4, <1>6, <1>9, <2>4, <3>3, <3>4, InsertedRow
      <3>6. /\ t[q] = e
            /\ \A j \in 1 .. Len(t) : j = q \/ \E i \in 1 .. n : t[j] = s[i]
        <4>1. Inserts(s, t, q, e)
          BY <1>9, <2>4
        <4>2. Len(s) \in Nat /\ q \in 1 .. (Len(s) + 1)
          BY <1>4, <1>6
        <4> HIDE DEF n
        <4>3. /\ t[q] = e
              /\ \A j \in 1 .. Len(t) : j = q \/ \E i \in 1 .. Len(s) :
                   t[j] = s[i] /\ i = IF j < q THEN j ELSE j - 1
          BY <4>1, <4>2, InsertsWhere
        <4>. QED
          BY <4>3 DEF n
      <3>7. ASSUME NEW j \in 1 .. Len(t)
            PROVE  HashIn(content, t[j].key) = h
        <4>1. CASE j = q
          BY <1>3, <1>7, <3>6, <4>1
        <4>2. CASE j # q
          <5>1. PICK i \in 1 .. n : t[j] = s[i]
            BY <3>6, <4>2
          <5>. QED
            BY <2>2, <5>1
        <4>. QED
          BY <4>1, <4>2
      <3>. QED
        BY <1>7, <2>1, <3>2, <3>5, <3>7
    <2>. QED
      BY <2>3, <2>4
  <1>14. astray' \in BOOLEAN
    BY <1>1, <1>2 DEF Alike
  <1>15. TableInv'
    BY <1>1, <1>3, <1>11, <1>12, <1>13, <1>14, TableChange
  <1>16. CASE astray' = FALSE
    <2>1. Affects(kind, content, buckets[Hash(k)], Id(k), {v}, t) /\ Swaps(buckets, Hash(k), t, buckets')
      BY <1>11, <1>13, <1>16 DEF s, x, h
    <2>2. {v} \subseteq Values
      OBVIOUS
    <2>3. astray = FALSE
      BY <1>13, <1>16
    <2>4. Held(buckets', kind', content')
           = [Held(buckets, kind, content) EXCEPT ![Id(k)] = {v}]
      BY <1>1, <2>1, <2>2, <2>3, MapChange
    <2>5. MapOf' = [MapOf EXCEPT ![Id(k)] = {v}]
      BY <1>15, <2>4, MapNow, MapNext
    <2>. QED
      BY <1>15, <1>16, <2>3, <2>5, MapSteps
  <1>17. CASE astray' # FALSE
    BY <1>14, <1>15, <1>17, MapSteps
  <1>. QED
    BY <1>16, <1>17

LEMMA RemoveStep ==
  ASSUME TableInv, NEW k \in Keys, TableRemove(k)
  PROVE  TableInv' /\ MapStep
  <1> DEFINE h == Hash(k)
             s == buckets[h]
             q == Previous(k) + 1
             n == Len(s)
             t == RemoveAt(s, q)
             x == Id(k)
  <1>1. /\ buckets' = [buckets EXCEPT ![h] = t] /\ HasKey(k)
        /\ size' = size - 1
        /\ astray' = astray /\ kind' = kind /\ content' = content
    BY DEF TableRemove
  <1>2. /\ buckets \in [BucketIds -> Seq(Pairs)] /\ astray \in BOOLEAN /\ size = Len(EntriesIn(buckets))
        /\ ~astray => Housed(buckets, kind, content)
    BY DEF TableInv, Stored
  <1>3. h \in BucketIds
    BY KeysNow
  <1>4. s \in Seq(Pairs) /\ n \in Nat /\ q \in 1 .. n
    BY <1>1, Search DEF Sought, HasKey
  <1>5. size \in Nat
    BY <1>2, EntriesFacts
  <1> HIDE DEF h, s, q, x
  <1>6. t \in Seq(Pairs) /\ Removes(s, t, q)
    BY <1>4, RemovedIs
  <1> HIDE DEF t
  <1>7. Len(t) = n - 1
    BY <1>6 DEF Removes
  <1>8. Swaps(buckets, h, t, buckets')
    BY <1>1, <1>2, <1>3, <1>6, ExceptSwaps
  <1>9. size' = size - Len(buckets[h]) + Len(t)
    BY <1>1, <1>4, <1>5, <1>7 DEF s
  <1>10. ASSUME astray = FALSE
         PROVE  /\ Ordered(kind, content, t) /\ Affects(kind, content, s, x, {}, t)
                /\ \A i \in 1 .. Len(t) : HashIn(content, t[i].key) = h
    <2>1. Ordered(kind, content, s) /\ \A i \in 1 .. n : HashIn(content, s[i].key) = h
      BY <1>2, <1>3, <1>10 DEF Housed, s
    <2>2. Ordered(kind, content, t)
      BY <1>4, <1>6, <2>1, RemovedOrder
    <2>3. Alone(kind, content, s, q, x)
      BY <1>1, <1>10, FoundAlone DEF s, q, x, h
    <2>4. Affects(kind, content, s, x, {}, t)
      BY <1>4, <1>6, <2>3, RemovedRow
    <2>5. \A j \in 1 .. Len(t) : \E i \in 1 .. n : t[j] = s[i]
      BY <1>4, <1>6, RemovesWhere
    <2>6. ASSUME NEW j \in 1 .. Len(t)
          PROVE  HashIn(content, t[j].key) = h
      <3>1. PICK i \in 1 .. n : t[j] = s[i]
        BY <2>5
      <3>. QED
        BY <2>1, <3>1
    <2>. QED
      BY <2>2, <2>4, <2>6
  <1>11. TableInv'
    BY <1>1, <1>2, <1>3, <1>8, <1>9, <1>10, TableChange
  <1>12. CASE astray = FALSE
    <2>1. Affects(kind, content, buckets[Hash(k)], Id(k), {}, t) /\ Swaps(buckets, Hash(k), t, buckets')
      BY <1>8, <1>10, <1>12 DEF s, x, h
    <2>2. {} \subseteq Values
      OBVIOUS
    <2>3. Held(buckets', kind', content')
           = [Held(buckets, kind, content) EXCEPT ![Id(k)] = {}]
      BY <1>1, <1>12, <2>1, <2>2, MapChange
    <2>4. MapOf' = [MapOf EXCEPT ![Id(k)] = {}]
      BY <1>11, <2>3, MapNow, MapNext
    <2>. QED
      BY <1>1, <1>11, <1>12, <2>4, MapSteps
  <1>13. CASE astray # FALSE
    BY <1>1, <1>2, <1>11, <1>13, MapSteps
  <1>. QED
    BY <1>12, <1>13

\* A table without entries.
LEMMA NoneStored ==
  ASSUME NEW B, B = [b \in BucketIds |-> <<>>], NEW kd \in Kinds, NEW ct \in [Keys -> Contents]
  PROVE  /\ B \in [BucketIds -> Seq(Pairs)] /\ Len(EntriesIn(B)) = 0
         /\ Housed(B, kd, ct) /\ Held(B, kd, ct) = [x \in Ids |-> {}]
  <1>1. \A b \in BucketIds : B[b] = <<>> /\ Len(B[b]) = 0
    OBVIOUS
  <1>2. <<>> \in Seq(Pairs)
    BY EmptySeq
  <1>3. B \in [BucketIds -> Seq(Pairs)]
    BY <1>2
  <1>4. Len(EntriesIn(B)) = 0
    BY <1>1, <1>3, EntriesNone
  <1> HIDE DEF BucketIds
  <1>5. \A b \in BucketIds : 1 .. Len(B[b]) = {}
    BY <1>1
  <1>6. Housed(B, kd, ct)
    BY <1>5 DEF Housed, Ordered
  <1>7. Held(B, kd, ct) = [x \in Ids |-> {}]
    <2>1. \A x, v : \A b \in BucketIds : ~InRow(kd, ct, B[b], x, v)
      BY <1>5 DEF InRow
    <2>. QED
      BY <2>1 DEF Held
  <1>. QED
    BY <1>3, <1>4, <1>6, <1>7

LEMMA TableEmptied ==
  ASSUME TableInv, buckets' = [b \in BucketIds |-> <<>>], size' = 0,
         kind' \in Kinds, content' \in [Keys -> Contents], astray' \in BOOLEAN
  PROVE  TableInv' /\ MapStep
  <1> DEFINE B == buckets'
             kd == kind'
             ct == content'
  <1>1. B = [b \in BucketIds |-> <<>>] /\ kd \in Kinds /\ ct \in [Keys -> Contents]
    OBVIOUS
  <1> HIDE DEF B, kd, ct
  <1>2. /\ B \in [BucketIds -> Seq(Pairs)] /\ Len(EntriesIn(B)) = 0
        /\ Housed(B, kd, ct) /\ Held(B, kd, ct) = [x \in Ids |-> {}]
    BY <1>1, NoneStored
  <1>3. TableInv'
    BY <1>1, <1>2, TableInvNext DEF Stored, B, kd, ct
  <1>4. MapOf' = [x \in Ids |-> {}]
    BY <1>2, <1>3, MapNext DEF B, kd, ct
  <1>. QED
    BY <1>3, <1>4, MapSteps

LEMMA TableClearStep ==
  ASSUME TableInv, TableClear
  PROVE  TableInv' /\ MapStep
  <1>1. /\ kind \in Kinds /\ content \in [Keys -> Contents] /\ astray \in BOOLEAN
        /\ size = Len(EntriesIn(buckets)) /\ buckets \in [BucketIds -> Seq(Pairs)]
    BY DEF TableInv, Stored
  <1>2. /\ buckets' = [b \in BucketIds |-> <<>>] /\ size' = size - Len(EntriesIn(buckets))
        /\ kind' = kind /\ content' = content /\ astray' = astray
    BY EntriesNow DEF TableClear, Destroyed
  <1>3. Len(EntriesIn(buckets)) \in Nat
    BY <1>1, EntriesFacts
  <1>4. size' = 0
    BY <1>1, <1>2, <1>3
  <1>. QED
    BY <1>1, <1>2, <1>4, TableEmptied

\* A key that is not in the table gets another text.
LEMMA RewriteStep ==
  ASSUME TableInv, NEW k \in Keys, NEW c \in Contents, Rewrite(k, c)
  PROVE  TableInv' /\ MapStep
  <1>1. /\ kind = "merch" /\ content' = [content EXCEPT ![k] = c]
        /\ astray' = (astray \/ k \in ToSet(KeysInOrder))
        /\ buckets' = buckets /\ size' = size /\ kind' = kind
    BY DEF Rewrite
  <1>2. /\ buckets \in [BucketIds -> Seq(Pairs)] /\ size = Len(EntriesIn(buckets))
        /\ kind \in Kinds /\ content \in [Keys -> Contents] /\ astray \in BOOLEAN
        /\ ~astray => Housed(buckets, kind, content)
    BY DEF TableInv, Stored
  <1>3. content' \in [Keys -> Contents] /\ \A a \in Keys : a # k => content'[a] = content[a]
    BY <1>1, <1>2
  <1> DEFINE ct == content'
  <1>4. astray' \in BOOLEAN
    BY <1>1, <1>2
  <1>5. ASSUME k \notin ToSet(KeysInOrder), NEW b \in BucketIds, NEW i \in 1 .. Len(buckets[b])
        PROVE  ct[buckets[b][i].key] = content[buckets[b][i].key]
    <2> DEFINE s == buckets[b]
               e == s[i]
    <2>1. e \in ToSet(EntriesIn(buckets)) /\ EntriesIn(buckets) \in Seq(Pairs)
      BY <1>2, EntriesFacts
    <2>2. s \in Seq(Pairs) /\ i \in 1 .. Len(s)
      BY <1>2
    <2> HIDE DEF s
    <2>3. e.key \in Keys
      BY <2>2, RowKeys
    <2> HIDE DEF e
    <2>4. e.key \in ToSet(KeysInOrder)
      <3>1. KeysInOrder = [j \in DOMAIN Entries |-> Entries[j].key] /\ Entries = EntriesIn(buckets)
        BY EntriesNow DEF KeysInOrder
      <3>2. PICK j \in DOMAIN Entries : Entries[j] = e
        BY <2>1, <3>1 DEF ToSet
      <3> DEFINE w == KeysInOrder
      <3>3. w[j] = e.key /\ j \in DOMAIN w
        BY <3>1, <3>2
      <3> HIDE DEF w
      <3>4. e.key \in ToSet(w)
        BY <3>3 DEF ToSet
      <3>. QED
        BY <3>4 DEF w
    <2>5. e.key # k
      BY <1>5, <2>4
    <2>. QED
      BY <1>3, <2>3, <2>5 DEF e, s
  <1>6. ASSUME k \notin ToSet(KeysInOrder), Housed(buckets, kind, content)
        PROVE  Housed(buckets, kind, ct)
    <2> HIDE DEF ct
    <2> SUFFICES ASSUME NEW b \in BucketIds
                 PROVE  /\ \A i \in 1 .. Len(buckets[b]) : HashIn(ct, buckets[b][i].key) = b
                        /\ Ordered(kind, ct, buckets[b])
      BY DEF Housed
    <2> DEFINE s == buckets[b]
    <2>1. \A i \in 1 .. Len(s) : ct[s[i].key] = content[s[i].key]
      BY <1>5, <1>6 DEF ct
    <2>2. (\A i \in 1 .. Len(s) : HashIn(content, s[i].key) = b) /\ Ordered(kind, content, s)
      BY <1>6 DEF Housed
    <2> HIDE DEF s
    <2>3. \A i \in 1 .. Len(s) : HashIn(ct, s[i].key) = b
      BY <2>1, <2>2 DEF HashIn
    <2>4. Ordered(kind, ct, s)
      <3>1. \A i \in 1 .. Len(s) : TextIn(kind, ct, s[i].key) = TextIn(kind, content, s[i].key)
        BY <2>1 DEF TextIn
      <3> SUFFICES ASSUME NEW i \in 1 .. Len(s), NEW j \in 1 .. Len(s), i < j
                   PROVE  Below(kind, ct, s[i].key, s[j].key)
        BY DEF Ordered
      <3>2. Below(kind, content, s[i].key, s[j].key)
        BY <2>2 DEF Ordered
      <3>. QED
        BY <2>1, <3>1, <3>2 DEF Below
    <2>. QED
      BY <2>3, <2>4 DEF s
  <1>7. TableInv'
    <2>1. astray' = FALSE => Housed(buckets, kind, ct)
      BY <1>1, <1>2, <1>6
    <2>. QED
      BY <1>1, <1>2, <1>3, <1>4, <2>1, TableInvNext DEF Stored
  <1>8. Held(buckets, kind, ct) = Held(buckets, kind, content)
    <2>1. \A a : IdIn(kind, ct, a) = IdIn(kind, content, a)
      BY <1>1 DEF IdIn
    <2> HIDE DEF ct
    <2>2. \A b \in BucketIds : \A x, v :
            InRow(kind, ct, buckets[b], x, v) <=> InRow(kind, content, buckets[b], x, v)
      BY <2>1 DEF InRow
    <2>. QED
      BY <2>2 DEF Held
  <1>9. MapOf' = MapOf
    BY <1>1, <1>7, <1>8, MapNow, MapNext
  <1>10. CASE astray' = FALSE
    <2>1. astray' = astray
      BY <1>1, <1>2, <1>10
    <2>. QED
      BY <1>7, <1>9, <2>1 DEF MapStep
  <1>11. CASE astray' # FALSE
    BY <1>4, <1>7, <1>11, MapSteps
  <1>. QED
    BY <1>10, <1>11
-----------------------------------------------------------------------------
(* The list of the keys.                                                   *)

LEMMA LinksChosen ==
  ASSUME NEW n \in Nat, n <= Cardinality(Links)
  PROVE  \E at : at \in Injection(1 .. n, Links)
  <1> DEFINE m == Cardinality(Links)
  <1>1. m \in Nat /\ ExistsBijection(1 .. m, Links)
    BY LinksAssumption, FS_CardinalityType
  <1>2. PICK f : f \in Bijection(1 .. m, Links)
    BY <1>1 DEF ExistsBijection
  <1>3. n <= m
    OBVIOUS
  <1> HIDE DEF m
  <1>4. f \in [1 .. m -> Links] /\ \A a, b \in 1 .. m : f[a] = f[b] => a = b
    BY <1>2 DEF Bijection, Injection, IsInjective
  <1>5. 1 .. n \subseteq 1 .. m
    BY <1>1, <1>3
  <1> DEFINE g == [i \in 1 .. n |-> f[i]]
  <1>6. g \in [1 .. n -> Links] /\ \A a, b \in 1 .. n : g[a] = g[b] => a = b
    BY <1>4, <1>5
  <1> HIDE DEF g
  <1>7. g \in Injection(1 .. n, Links)
    BY <1>6 DEF Injection, IsInjective
  <1>. QED
    BY <1>7

\* The memory of a list that is made in one go: the links at, with elements ks.
Strung(at, ks, lk) ==
  /\ DOMAIN lk = ToSet(at)
  /\ \A i \in 1 .. Len(at) : lk[at[i]] = [element |-> ks[i], next |-> LinkAt(at, i + 1)]

LEMMA StrungMem ==
  ASSUME NEW at \in Seq(Links), Injective(at), NEW ks,
         \A i \in 1 .. Len(at) : ks[i] \in Keys,
         NEW lk, Strung(at, ks, lk), lk = [l \in DOMAIN lk |-> lk[l]]
  PROVE  /\ Mem(lk) /\ LinkAt(at, 1) \in DOMAIN lk \cup {L!NULL}
         /\ LastOf(at) \in DOMAIN lk \cup {L!NULL}
         /\ L!FromIn(lk, LinkAt(at, 1)) = at
  <1> DEFINE n == Len(at)
             D == DOMAIN lk
  <1>1. n \in Nat /\ DOMAIN at = 1 .. n /\ \A i \in 1 .. n : at[i] \in Links
    BY LenProperties, ElementOfSeq
  <1>2. \A l : l \in D <=> \E i \in 1 .. n : l = at[i]
    BY <1>1 DEF Strung, ToSet
  <1>3. \A i \in 1 .. n : lk[at[i]] = [element |-> ks[i], next |-> LinkAt(at, i + 1)]
    BY DEF Strung
  <1>4. \A i \in 1 .. n : ks[i] \in Keys
    OBVIOUS
  <1>5. lk = [l \in D |-> lk[l]]
    OBVIOUS
  <1>6. at \in Seq(D)
    <2>1. at \in [1 .. n -> D]
      <3>1. at = [i \in 1 .. n |-> at[i]]
        BY <1>1, LenProperties
      <3> HIDE DEF n, D
      <3>. QED
        BY <1>2, <3>1
    <2> HIDE DEF n, D
    <2>. QED
      BY <1>1, <2>1, SequenceIs
  <1> HIDE DEF n, D
  <1>7. \A i \in 1 .. (n + 1) : LinkAt(at, i) \in D \cup {L!NULL}
    <2> SUFFICES ASSUME NEW i \in 1 .. (n + 1)
                 PROVE  LinkAt(at, i) \in D \cup {L!NULL}
      OBVIOUS
    <2>1. CASE i <= n
      <3>1. i \in 1 .. n
        BY <1>1, <2>1
      <3>2. LinkAt(at, i) = at[i]
        BY <2>1 DEF LinkAt, n
      <3>. QED
        BY <1>2, <3>1, <3>2
    <2>2. CASE ~(i <= n)
      BY <2>2 DEF LinkAt, n
    <2>. QED
      BY <2>1, <2>2
  <1>8. \A l \in D : lk[l] \in [element : Keys, next : D \cup {L!NULL}]
    <2> SUFFICES ASSUME NEW l \in D
                 PROVE  lk[l] \in [element : Keys, next : D \cup {L!NULL}]
      OBVIOUS
    <2>1. PICK i \in 1 .. n : l = at[i]
      BY <1>2
    <2>2. i + 1 \in 1 .. (n + 1)
      BY <1>1
    <2> DEFINE q == LinkAt(at, i + 1)
    <2>3. q \in D \cup {L!NULL}
      BY <1>7, <2>2
    <2>4. lk[l] = [element |-> ks[i], next |-> q]
      BY <1>3, <2>1
    <2> HIDE DEF q
    <2>. QED
      BY <1>4, <2>3, <2>4
  <1>9. IsChain(lk, LinkAt(at, 1), at)
    <2>1. ASSUME NEW i \in 1 .. n
          PROVE  lk[at[i]].next = LinkAt(at, i + 1)
      <3> DEFINE q == LinkAt(at, i + 1)
      <3>1. lk[at[i]] = [element |-> ks[i], next |-> q]
        BY <1>3
      <3> HIDE DEF q
      <3>2. lk[at[i]].next = q
        BY <3>1
      <3>. QED
        BY <3>2 DEF q
    <2>. QED
      BY <1>6, <2>1 DEF IsChain, D, n
  <1>10. Mem(lk)
    <2>1. \A l \in D \cup {L!NULL} : \E s : IsChain(lk, l, s)
      <3> SUFFICES ASSUME NEW l \in D \cup {L!NULL}
                   PROVE  \E s : IsChain(lk, l, s)
        OBVIOUS
      <3>1. \E i \in 1 .. (n + 1) : l = LinkAt(at, i)
        <4>1. CASE l \in D
          <5>1. PICK i \in 1 .. n : l = at[i]
            BY <1>2, <4>1
          <5>2. i <= n /\ i \in 1 .. (n + 1)
            BY <1>1
          <5>3. l = LinkAt(at, i)
            BY <5>1, <5>2 DEF LinkAt, n
          <5>. QED
            BY <5>2, <5>3
        <4>2. CASE l = L!NULL
          <5>1. n + 1 \in 1 .. (n + 1) /\ ~(n + 1 <= n)
            BY <1>1
          <5>2. LinkAt(at, n + 1) = L!NULL
            BY <5>1 DEF LinkAt, n
          <5>. QED
            BY <4>2, <5>1, <5>2
        <4>. QED
          BY <4>1, <4>2
      <3>2. PICK i \in 1 .. (n + 1) : l = LinkAt(at, i)
        BY <3>1
      <3>3. i \in Nat /\ i \in 1 .. (Len(at) + 1)
        BY <1>1 DEF n
      <3>4. IsChain(lk, LinkAt(at, i), SubSeq(at, i, Len(at)))
        BY <1>9, <3>3, ChainRest
      <3>. QED
        BY <3>2, <3>4
    <2>2. lk \in [D -> [element : Keys, next : D \cup {L!NULL}]]
      BY <1>5, <1>8
    <2>3. D \subseteq Links
      BY <1>1, <1>2
    <2>. QED
      BY <2>1, <2>2, <2>3 DEF Mem, D
  <1>11. LinkAt(at, 1) \in D \cup {L!NULL}
    <2>1. 1 \in 1 .. (n + 1)
      BY <1>1
    <2>. QED
      BY <1>7, <2>1
  <1>12. LastOf(at) \in D \cup {L!NULL}
    <2>1. CASE at = <<>>
      BY <2>1 DEF LastOf
    <2>2. CASE at # <<>>
      <3>1. n # 0
        BY <2>2, EmptyIs DEF n
      <3>2. n \in 1 .. n
        BY <1>1, <3>1
      <3>. QED
        BY <1>2, <2>2, <3>2 DEF LastOf, n
    <2>. QED
      BY <2>1, <2>2
  <1>13. L!FromIn(lk, LinkAt(at, 1)) = at
    BY <1>9, <1>10, <1>11, MemChain DEF D
  <1>. QED
    BY <1>10, <1>11, <1>12, <1>13 DEF D

Unused == list = L!Empty /\ link = <<>> /\ current = L!NULL /\ misplaced = FALSE

LEMMA TakeKeysStep ==
  ASSUME TableInv, ListInv, Unused, TakeKeys
  PROVE  TableInv' /\ ListInv' /\ MapStep /\ L!Contract!Next
  <1> DEFINE n == Len(Entries)
             at == CHOOSE at \in Injection(1 .. n, Links) : TRUE
             lk == link'
             ks == KeysInOrder
  <1>1. /\ n <= Cardinality(Links)
        /\ lk = [l \in ToSet(at) |->
             LET i == CHOOSE i \in 1 .. n : at[i] = l IN
             [element |-> ks[i], next |-> IF i = n THEN L!NULL ELSE at[i + 1]]]
        /\ list' = IF n = 0 THEN list ELSE [first |-> at[1], last |-> at[n], size |-> n]
        /\ current' = L!NULL /\ misplaced' = FALSE
    BY DEF TakeKeys, Unused
  <1>2. /\ kind \in Kinds /\ content \in [Keys -> Contents] /\ astray \in BOOLEAN
        /\ buckets \in [BucketIds -> Seq(Pairs)]
    BY DEF TableInv, Stored
  <1>3. TableInv' /\ MapStep
    <2>1. /\ buckets' = [b \in BucketIds |-> <<>>] /\ size' = 0 /\ astray' = FALSE
          /\ content' = [k \in Keys |-> CHOOSE c \in Contents : TRUE]
          /\ kind' = CHOOSE kd \in Kinds : TRUE
      BY DEF TakeKeys
    <2>2. kind' \in Kinds
      BY <1>2, <2>1
    <2>3. content' \in [Keys -> Contents]
      <3>1. \A k \in Keys : (CHOOSE c \in Contents : TRUE) \in Contents
        <4> SUFFICES ASSUME NEW k \in Keys
                     PROVE  (CHOOSE c \in Contents : TRUE) \in Contents
          OBVIOUS
        <4>1. content[k] \in Contents
          BY <1>2
        <4>. QED
          BY <4>1
      <3>. QED
        BY <2>1, <3>1
    <2>. QED
      BY <2>1, <2>2, <2>3, TableEmptied
  <1>4. Entries \in Seq(Pairs) /\ n \in Nat
    BY <1>2, EntriesFacts, EntriesNow
  <1>5. \A i \in 1 .. n : ks[i] \in Keys
    <2> SUFFICES ASSUME NEW i \in 1 .. n
                 PROVE  ks[i] \in Keys
      OBVIOUS
    <2>1. i \in DOMAIN Entries /\ Entries[i].key \in Keys
      BY <1>4, RowKeys, LenProperties
    <2>. QED
      BY <2>1 DEF KeysInOrder
  <1> HIDE DEF n, ks
  <1>6. at \in Injection(1 .. n, Links)
    <2>1. \E a : a \in Injection(1 .. n, Links)
      BY <1>1, <1>4, LinksChosen
    <2>. QED
      BY <2>1
  <1> HIDE DEF at, lk
  <1>7. at \in [1 .. n -> Links] /\ \A i, j \in 1 .. n : at[i] = at[j] => i = j
    BY <1>6 DEF Injection, IsInjective
  <1>8. at \in Seq(Links) /\ Len(at) = n
    BY <1>4, <1>7, SequenceIs
  <1>9. Injective(at)
    BY <1>7, <1>8 DEF Injective
  <1>10. Strung(at, ks, lk) /\ lk = [l \in DOMAIN lk |-> lk[l]]
    <2> DEFINE S == ToSet(at)
               pos(l) == CHOOSE i \in 1 .. n : at[i] = l
               g == [l \in S |-> [element |-> ks[pos(l)],
                                  next |-> IF pos(l) = n THEN L!NULL ELSE at[pos(l) + 1]]]
    <2>1. lk = g
      BY <1>1
    <2>2. \A i \in 1 .. n : at[i] \in S
      BY <1>7 DEF ToSet
    <2>3. \A i \in 1 .. n : pos(at[i]) = i
      <3> SUFFICES ASSUME NEW i \in 1 .. n
                   PROVE  pos(at[i]) = i
        OBVIOUS
      <3>1. \E j \in 1 .. n : at[j] = at[i]
        OBVIOUS
      <3>2. pos(at[i]) \in 1 .. n /\ at[pos(at[i])] = at[i]
        BY <3>1
      <3> HIDE DEF pos
      <3>. QED
        BY <1>7, <3>2
    <2> HIDE DEF pos, S
    <2>4. \A l \in S : g[l] = [element |-> ks[pos(l)],
                                  next |-> IF pos(l) = n THEN L!NULL ELSE at[pos(l) + 1]]
      OBVIOUS
    <2>5. DOMAIN g = S /\ g = [l \in DOMAIN g |-> g[l]]
      OBVIOUS
    <2> HIDE DEF g
    <2>6. \A i \in 1 .. n : g[at[i]] = [element |-> ks[i], next |-> IF i = n THEN L!NULL ELSE at[i + 1]]
      <3> SUFFICES ASSUME NEW i \in 1 .. n
                   PROVE  g[at[i]] = [element |-> ks[i], next |-> IF i = n THEN L!NULL ELSE at[i + 1]]
        OBVIOUS
      <3>1. at[i] \in S /\ pos(at[i]) = i
        BY <2>2, <2>3
      <3>. QED
        BY <2>4, <3>1
    <2>7. \A i \in 1 .. n : LinkAt(at, i + 1) = IF i = n THEN L!NULL ELSE at[i + 1]
      <3>1. \A i \in 1 .. n : i + 1 <= n <=> i # n
        BY <1>4
      <3>. QED
        BY <1>8, <3>1 DEF LinkAt
    <2>8. \A i \in 1 .. n : g[at[i]] = [element |-> ks[i], next |-> LinkAt(at, i + 1)]
      BY <2>6, <2>7
    <2>. QED
      BY <1>8, <2>1, <2>5, <2>8 DEF Strung, S
  <1>11. /\ Mem(lk) /\ LinkAt(at, 1) \in DOMAIN lk \cup {L!NULL}
         /\ LastOf(at) \in DOMAIN lk \cup {L!NULL}
         /\ L!FromIn(lk, LinkAt(at, 1)) = at
    <2>1. \A i \in 1 .. Len(at) : ks[i] \in Keys
      BY <1>5, <1>8
    <2>. QED
      BY <1>8, <1>9, <1>10, <2>1, StrungMem
  <1>12. list' = [first |-> LinkAt(at, 1), last |-> LastOf(at), size |-> n]
    <2>1. at = <<>> <=> n = 0
      BY <1>8, EmptyIs
    <2>2. CASE n = 0
      <3>1. list' = [first |-> L!NULL, last |-> L!NULL, size |-> 0]
        BY <1>1, <2>2 DEF Unused, L!Empty, L!NULL
      <3>2. LinkAt(at, 1) = L!NULL /\ LastOf(at) = L!NULL
        BY <1>8, <2>1, <2>2 DEF LinkAt, LastOf
      <3>. QED
        BY <2>2, <3>1, <3>2
    <2>3. CASE n # 0
      <3>1. 1 <= n
        BY <1>4, <2>3
      <3>2. LinkAt(at, 1) = at[1] /\ LastOf(at) = at[n]
        BY <1>8, <2>1, <2>3, <3>1 DEF LinkAt, LastOf
      <3>. QED
        BY <1>1, <2>3, <3>2
    <2>. QED
      BY <2>2, <2>3
  <1>13. list'.first = LinkAt(at, 1) /\ list'.last = LastOf(at) /\ list'.size = n
    BY <1>12
  <1> DEFINE a1 == LinkAt(at, 1)
             an == LastOf(at)
  <1>14. list' \in [first : DOMAIN lk \cup {L!NULL}, last : DOMAIN lk \cup {L!NULL}, size : Nat]
    <2>1. a1 \in DOMAIN lk \cup {L!NULL} /\ an \in DOMAIN lk \cup {L!NULL}
      BY <1>11
    <2>2. list' = [first |-> a1, last |-> an, size |-> n]
      BY <1>12
    <2> HIDE DEF a1, an
    <2>. QED
      BY <1>4, <2>1, <2>2
  <1>15. L!FromIn(link', list'.first) = at
    BY <1>11, <1>13 DEF lk
  <1>16. ListInv'
    <2>1. Intact(list', at)
      BY <1>8, <1>13 DEF Intact
    <2>2. Listed(list', link', current', misplaced')
      BY <1>1, <1>11, <1>14, <1>15, <2>1 DEF Listed, lk
    <2>. QED
      BY <2>2, ListInvNext
  <1>17. ItemsOf(link', at) \in Seq(Keys) /\ PosOf(at, current') = 0
    <2> DEFINE D == DOMAIN lk
    <2>1. /\ L!NULL \notin D /\ at \in Seq(D) /\ Injective(at)
          /\ \A m \in D : lk[m].element \in Keys
      <3>1. Listed(list', link', current', misplaced')
        BY <1>16, ListInvNext
      <3>2. /\ L!NULL \notin DOMAIN link' /\ L!FromIn(link', list'.first) \in Seq(DOMAIN link')
            /\ Injective(L!FromIn(link', list'.first))
            /\ \A m \in DOMAIN link' : link'[m].element \in Keys
        BY <3>1, ListedChain
      <3>. QED
        BY <1>15, <3>2 DEF lk
    <2> HIDE DEF D
    <2>2. ItemsOf(lk, at) \in Seq(Keys)
      BY <2>1, ItemsFacts
    <2>3. \A i \in 1 .. Len(at) : at[i] # current'
      BY <1>1, <2>1, ElementOfSeq
    <2>4. PosOf(at, current') = 0
      BY <2>1, <2>3, PosFacts
    <2>. QED
      BY <2>2, <2>4 DEF lk
  <1>18. ItemsOf(link, L!FromIn(link, list.first)) = <<>> /\ PosOf(L!FromIn(link, list.first), current) = 0
    BY EmptyListed DEF Unused
  <1>19. misplaced = FALSE /\ misplaced' = FALSE
    BY <1>1 DEF Unused
  <1> DEFINE s == ItemsOf(link, L!FromIn(link, list.first))
             a == PosOf(L!FromIn(link, list.first), current)
             t == ItemsOf(link', L!FromIn(link', list'.first))
             b == PosOf(L!FromIn(link', list'.first), current')
  <1>20. s = <<>> /\ a = 0 /\ t \in Seq(Keys) /\ b = 0
    BY <1>15, <1>17, <1>18
  <1>21. /\ s = ItemsOf(link, L!FromIn(link, list.first))
         /\ a = PosOf(L!FromIn(link, list.first), current)
         /\ t = ItemsOf(link', L!FromIn(link', list'.first))
         /\ b = PosOf(L!FromIn(link', list'.first), current')
    OBVIOUS
  <1> HIDE DEF s, a, t, b
  <1>22. L!Contract!Next
    BY <1>19, <1>20, <1>21, ContractOf
  <1>. QED
    BY <1>3, <1>16, <1>22
-----------------------------------------------------------------------------
(* The theorems.                                                           *)

\* The client goes on from the table to the list, which is unused until then.
CollectionsInv ==
  /\ TableInv
  /\ ListInv
  /\ phase \in {"table", "list"}
  /\ phase = "table" => Unused

LEMMA UnusedNext == Unused' <=> list' = L!Empty /\ link' = <<>> /\ current' = L!NULL /\ misplaced' = FALSE
  BY DEF Unused, L!Empty, L!NULL

LEMMA CollectionsInit ==
  ASSUME Init
  PROVE  CollectionsInv /\ Map!Init /\ L!Contract!Init
  <1>1. /\ phase = "table" /\ L!ListCreate
        /\ buckets = [b \in BucketIds |-> <<>>] /\ size = 0 /\ kind \in Kinds
        /\ content \in [Keys -> Contents] /\ astray = FALSE
    BY DEF Init, TableCreate
  <1>2. /\ buckets \in [BucketIds -> Seq(Pairs)] /\ Len(EntriesIn(buckets)) = 0
        /\ Housed(buckets, kind, content) /\ Held(buckets, kind, content) = [x \in Ids |-> {}]
    BY <1>1, NoneStored
  <1>3. TableInv
    BY <1>1, <1>2 DEF TableInv, Stored
  <1>4. Map!Init
    BY <1>1, <1>2, <1>3, MapNow DEF Map!Init, Map!Empty
  <1>5. ListInv /\ L!Contract!Init
    BY <1>1, CreateStep
  <1>6. Unused
    BY <1>1 DEF L!ListCreate, Unused, L!NULL
  <1>. QED
    BY <1>1, <1>3, <1>4, <1>5, <1>6 DEF CollectionsInv

\* Steps of the one container leave the other as it is.
LEMMA TableKept ==
  ASSUME TableInv, UNCHANGED tableVars
  PROVE  TableInv' /\ MapStep
  <1>1. buckets' = buckets /\ size' = size /\ kind' = kind /\ content' = content /\ astray' = astray
    BY DEF tableVars
  <1>2. TableInv'
    BY <1>1, TableInvNext DEF TableInv
  <1>3. MapOf' = MapOf
    BY <1>1, <1>2, MapNow, MapNext
  <1>. QED
    BY <1>1, <1>2, <1>3 DEF MapStep

ListStill ==
  /\ (IF misplaced THEN <<>> ELSE L!Items)' = IF misplaced THEN <<>> ELSE L!Items
  /\ (IF misplaced THEN 0 ELSE L!At)' = IF misplaced THEN 0 ELSE L!At
  /\ misplaced' = misplaced

LEMMA ListKept ==
  ASSUME ListInv, list' = list, link' = link, current' = current, misplaced' = misplaced
  PROVE  ListInv' /\ ListStill
  <1>1. ListInv'
    BY ListInvNext DEF ListInv
  <1>2. (L!Items)' = L!Items /\ (L!At)' = L!At
    BY ItemsNow, ItemsNext, PosNow, PosNext
  <1>. QED
    BY <1>1, <1>2 DEF ListStill

LEMMA CollectionsStep ==
  ASSUME CollectionsInv, [Next]_vars
  PROVE  CollectionsInv' /\ MapStep /\ (L!Contract!Next \/ ListStill)
  <1>1. TableInv /\ ListInv /\ phase \in {"table", "list"} /\ (phase = "table" => Unused)
    BY DEF CollectionsInv
  <1>2. ASSUME TableInv', ListInv', phase' = "list"
        PROVE  CollectionsInv'
    BY <1>2 DEF CollectionsInv
  <1>3. CASE phase = "table" /\ TableNext /\ UNCHANGED <<phase, list, link, current, misplaced>>
    <2>1. TableInv' /\ MapStep
      <3>1. ASSUME NEW k \in Keys, NEW v \in Values, TableInsert(k, v)
            PROVE  TableInv' /\ MapStep
        BY <1>1, <3>1, InsertStep
      <3>2. ASSUME NEW k \in Keys, TableRemove(k)
            PROVE  TableInv' /\ MapStep
        BY <1>1, <3>2, RemoveStep
      <3>3. CASE TableClear
        BY <1>1, <3>3, TableClearStep
      <3>4. ASSUME NEW k \in Keys, NEW c \in Contents, Rewrite(k, c)
            PROVE  TableInv' /\ MapStep
        BY <1>1, <3>4, RewriteStep
      <3>. QED
        BY <1>3, <3>1, <3>2, <3>3, <3>4 DEF TableNext
    <2>2. ListInv' /\ ListStill
      BY <1>1, <1>3, ListKept
    <2>3. Unused' /\ phase' = "table"
      BY <1>1, <1>3, UnusedNext DEF Unused
    <2>. QED
      BY <2>1, <2>2, <2>3 DEF CollectionsInv
  <1>4. CASE TakeKeys
    <2>1. phase = "table" /\ phase' = "list"
      BY <1>4 DEF TakeKeys
    <2>2. TableInv' /\ ListInv' /\ MapStep /\ L!Contract!Next
      BY <1>1, <1>4, <2>1, TakeKeysStep
    <2>. QED
      BY <1>2, <2>1, <2>2
  <1>5. CASE phase = "list" /\ ~misplaced /\ L!ListNext /\ UNCHANGED <<tableVars, phase>>
    <2>1. misplaced = FALSE
      BY <1>1, <1>5 DEF ListInv, Listed
    <2>2. ListInv' /\ L!Contract!Next
      BY <1>1, <1>5, <2>1, ListStep
    <2>3. TableInv' /\ MapStep
      BY <1>1, <1>5, TableKept
    <2>. QED
      BY <1>2, <1>5, <2>2, <2>3
  <1>6. CASE Renew
    <2>1. misplaced = TRUE /\ L!ListRenewed /\ UNCHANGED tableVars /\ phase' = phase
      BY <1>1, <1>6 DEF Renew, ListInv, Listed
    <2>2. ListInv' /\ L!Contract!Next
      BY <1>1, <2>1, RenewStep
    <2>3. TableInv' /\ MapStep
      BY <1>1, <2>1, TableKept
    <2>4. phase' = "list"
      BY <1>1, <2>1 DEF Unused
    <2>. QED
      BY <1>2, <2>2, <2>3, <2>4
  <1>7. CASE UNCHANGED vars
    <2>1. /\ UNCHANGED tableVars /\ phase' = phase
          /\ list' = list /\ link' = link /\ current' = current /\ misplaced' = misplaced
      BY <1>7 DEF vars
    <2>2. TableInv' /\ MapStep
      BY <1>1, <2>1, TableKept
    <2>3. ListInv' /\ ListStill
      BY <1>1, <2>1, ListKept
    <2>4. phase' = "table" => Unused'
      BY <1>1, <2>1, UnusedNext DEF Unused
    <2>. QED
      BY <1>1, <2>1, <2>2, <2>3, <2>4 DEF CollectionsInv
  <1>. QED
    BY <1>3, <1>4, <1>5, <1>6, <1>7 DEF Next

\* The inductive invariant: the entries of every bucket are in the order that
\* the search needs, and there are size of them; every way through the memory
\* of the list comes to its end.
THEOREM CollectionsInvariant == Spec => []CollectionsInv
  <1>1. Init => CollectionsInv
    BY CollectionsInit
  <1>2. CollectionsInv /\ [Next]_vars => CollectionsInv'
    BY CollectionsStep
  <1>. QED
    BY <1>1, <1>2, PTL DEF Spec

\* Table and list keep their types; the links of a list refer to links that
\* are there, whichever way they were removed and made again.
THEOREM CollectionsTypeOK == Spec => []TypeOK
  <1>1. CollectionsInv => TypeOK
    <2> SUFFICES ASSUME CollectionsInv
                 PROVE  TypeOK
      OBVIOUS
    <2>1. /\ buckets \in [BucketIds -> Seq([key : Keys, value : Values])]
          /\ kind \in Kinds /\ content \in [Keys -> Contents] /\ astray \in BOOLEAN
          /\ size = Len(EntriesIn(buckets)) /\ buckets \in [BucketIds -> Seq(Pairs)]
      BY DEF CollectionsInv, TableInv, Stored, Pairs
    <2>2. size \in Nat
      BY <2>1, EntriesFacts
    <2>3. L!ListTypeOK
      BY DEF CollectionsInv, ListInv, Listed, Mem, L!ListTypeOK
    <2>4. phase \in {"table", "list"}
      BY DEF CollectionsInv
    <2>. QED
      BY <2>1, <2>2, <2>3, <2>4 DEF TypeOK
  <1>. QED
    BY <1>1, CollectionsInvariant, PTL

\* The first link, the last link and the size of a list agree with its links
\* (linked_list.c), unless linked_list_insert was called with the last index.
THEOREM CollectionsListIntact == Spec => []ListIntact
  <1>1. CollectionsInv => ListIntact
    <2> SUFFICES ASSUME ListInv, misplaced = FALSE
                 PROVE  /\ list.size = Len(L!Chain)
                        /\ list.first = L!NULL <=> list.size = 0
                        /\ list.last = IF L!Chain = <<>> THEN L!NULL ELSE L!Chain[Len(L!Chain)]
      BY DEF CollectionsInv, ListIntact, L!ListIntact, ListInv, Listed
    <2> DEFINE c == L!FromIn(link, list.first)
    <2>1. /\ list.size = Len(c) /\ list.last = LastOf(c) /\ list.first = LinkAt(c, 1)
          /\ Len(c) \in Nat /\ L!NULL \notin DOMAIN link
          /\ \A i \in 1 .. Len(c) : c[i] \in DOMAIN link
      BY Found
    <2> HIDE DEF c
    <2>2. list.first = L!NULL <=> Len(c) = 0
      <3>1. CASE Len(c) = 0
        BY <2>1, <3>1 DEF LinkAt
      <3>2. CASE Len(c) # 0
        <4>1. 1 <= Len(c) /\ 1 \in 1 .. Len(c)
          BY <2>1, <3>2
        <4>. QED
          BY <2>1, <3>2, <4>1 DEF LinkAt
      <3>. QED
        BY <3>1, <3>2
    <2>3. L!Chain = c
      BY ChainNow DEF c
    <2>. QED
      BY <2>1, <2>2, <2>3 DEF LastOf
  <1>. QED
    BY <1>1, CollectionsInvariant, PTL

\* The array of hash_table_values is as long as what is written to it.
THEOREM CollectionsValuesFillArray == Spec => []ValuesFillArray
  <1>1. CollectionsInv => ValuesFillArray
    <2> SUFFICES ASSUME TableInv
                 PROVE  ValuesFillArray
      BY DEF CollectionsInv
    <2>1. size = Len(EntriesIn(buckets)) /\ buckets \in [BucketIds -> Seq(Pairs)]
      BY DEF TableInv, Stored
    <2> DEFINE es == EntriesIn(buckets)
               n == Len(es)
               t == [i \in 1 .. n |-> es[i].value]
    <2>2. es \in Seq(Pairs) /\ n \in Nat /\ DOMAIN es = 1 .. n
      BY <2>1, EntriesFacts, LenProperties
    <2>3. ValuesArray = t
      BY <2>2, EntriesNow DEF ValuesArray
    <2> HIDE DEF es
    <2>4. \A i \in 1 .. n : es[i].value \in Values
      BY <2>2, RowKeys
    <2> HIDE DEF n
    <2>5. t \in [1 .. n -> Values]
      BY <2>4
    <2> HIDE DEF t
    <2>6. Len(t) = n
      BY <2>2, <2>5, SequenceIs
    <2>. QED
      BY <2>1, <2>3, <2>6 DEF ValuesFillArray, n, es
  <1>. QED
    BY <1>1, CollectionsInvariant, PTL

\* linked_list.c and iterator.c do what ListContract says: every operation
\* changes the sequence at one place, and the iterator stays with its element.
THEOREM CollectionsSequenceSpec == Spec => SequenceSpec
  <1> DEFINE it == IF misplaced THEN <<>> ELSE L!Items
             at == IF misplaced THEN 0 ELSE L!At
  <1>1. Init => L!Contract!Init
    BY CollectionsInit
  <1>2. CollectionsInv /\ [Next]_vars => [L!Contract!Next]_<<it, at, misplaced>>
    BY CollectionsStep DEF ListStill
  <1>. QED
    BY <1>1, <1>2, CollectionsInvariant, PTL DEF Spec, SequenceSpec, L!Contract!Spec

\* hash_table.c does what MapContract says: a key finds what was put in for it
\* last, and nothing once it was removed.
THEOREM CollectionsMapSpec == Spec => MapSpec
  <1>1. Init => Map!Init
    BY CollectionsInit
  <1>2. CollectionsInv /\ [Next]_vars => [Map!Next]_<<MapOf, astray>>
    BY CollectionsStep DEF MapStep
  <1>. QED
    BY <1>1, <1>2, CollectionsInvariant, PTL DEF Spec, MapSpec, Map!Spec

=============================================================================
