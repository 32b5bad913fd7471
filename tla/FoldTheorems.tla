----------------------------- MODULE FoldTheorems -----------------------------
(***************************************************************************)
(* What the recursive definitions of the community modules compute.  Sums  *)
(* over finite sets are defined by recursion over the subsets, always      *)
(* leaving out the element that CHOOSE gives; the concatenation of a       *)
(* sequence of sequences by recursion along it.  Then sequences with an    *)
(* element more or less.                                                   *)
(***************************************************************************)
EXTENDS Integers, Functions, FiniteSets, SequencesExt, FiniteSetTheorems, SequenceTheorems,
  WellFoundedInduction, TLAPS

First(s) == CHOOSE x \in s : TRUE

\* What the recursion of a sum of f computes for s from its results g.
Unfolded(f, g, s) == IF s = {} THEN 0 ELSE f[First(s)] + g[s \ {First(s)}]
Computes(f, g, S) == g = [s \in SUBSET S |-> Unfolded(f, g, s)]

-----------------------------------------------------------------------------
(* The recursion has one solution.                                         *)

\* Among sets of parts of a finite set there is a minimal one, and among
\* numbers a least one.
LEMMA MinimalSubset ==
  ASSUME NEW S, IsFiniteSet(S), NEW B, B \subseteq SUBSET S, B # {}
  PROVE  \E T \in B : \A U \in B : U \subseteq T => U = T
  <1>1. B \subseteq FiniteSubsetsOf(S)
    BY FS_Subset DEF FiniteSubsetsOf
  <1>2. IsWellFoundedOn(StrictSubsetOrdering(S), FiniteSubsetsOf(S))
    BY FS_StrictSubsetOrderingWellFounded
  <1>3. PICK T \in B : \A U \in B : ~ (<<U, T>> \in StrictSubsetOrdering(S))
    BY <1>1, <1>2, WFMin
  <1>. QED
    BY <1>3 DEF StrictSubsetOrdering

LEMMA LeastNumber ==
  ASSUME NEW B, B \subseteq Nat, B # {}
  PROVE  \E m \in B : \A n \in B : m <= n
  <1>1. PICK m \in B : \A n \in B : ~ (<<n, m>> \in OpToRel(<, Nat))
    BY NatLessThanWellFounded, WFMin
  <1>2. \A n \in B : ~ (n < m)
    BY <1>1 DEF OpToRel
  <1>. QED
    BY <1>2

LEMMA FirstIn ==
  ASSUME NEW s, s # {}
  PROVE  First(s) \in s
  BY DEF First

\* A solution for the sets of up to n elements, whatever n.
ComputesSmall(f, g, S, n) ==
  \A s \in SUBSET S : Cardinality(s) <= n => g[s] = Unfolded(f, g, s)
LEMMA ComputesUpto ==
  ASSUME NEW f, NEW S, IsFiniteSet(S), NEW n \in Nat
  PROVE  \E g : ComputesSmall(f, g, S, n)
  <1> USE DEF ComputesSmall
  <1> DEFINE Ok(m, g) == \A s \in SUBSET S : Cardinality(s) <= m => g[s] = Unfolded(f, g, s)
             B == {m \in Nat : ~ \E g : Ok(m, g)}
  <1>1. \A s \in SUBSET S : IsFiniteSet(s) /\ Cardinality(s) \in Nat
    BY FS_Subset, FS_CardinalityType
  <1>2. SUFFICES ASSUME B # {} PROVE FALSE
    OBVIOUS
  <1>3. PICK m \in B : \A k \in B : m <= k
    <2>1. B \subseteq Nat
      OBVIOUS
    <2>. QED
      BY <1>2, <2>1, LeastNumber
  <1>4. m # 0
    <2> DEFINE g == [s \in SUBSET S |-> 0]
    <2>1. Ok(0, g)
      <3>1. \A s \in SUBSET S : Cardinality(s) <= 0 => s = {}
        BY <1>1, FS_EmptySet
      <3>. QED
        BY <3>1 DEF Unfolded
    <2>. QED
      BY <2>1
  <1>5. PICK g : Ok(m - 1, g)
    <2>1. m - 1 \in Nat /\ ~(m <= m - 1)
      BY <1>4
    <2>2. m - 1 \notin B
      BY <1>3, <2>1
    <2>. QED
      BY <2>1, <2>2
  <1> DEFINE h == [s \in SUBSET S |->
                    IF Cardinality(s) <= m - 1 THEN g[s] ELSE Unfolded(f, g, s)]
  <1>6. Ok(m, h)
    <2> SUFFICES ASSUME NEW s \in SUBSET S, Cardinality(s) <= m
                 PROVE  h[s] = Unfolded(f, h, s)
      OBVIOUS
    <2>1. CASE s = {}
      <3>1. h[s] = Unfolded(f, g, s)
        BY <1>5
      <3>. QED
        BY <2>1, <3>1 DEF Unfolded
    <2>2. CASE s # {}
      <3> DEFINE r == s \ {First(s)}
      <3>1. r \in SUBSET S /\ Cardinality(r) = Cardinality(s) - 1
        BY <1>1, <2>2, FirstIn, FS_RemoveElement
      <3>2. Cardinality(r) <= m - 1
        BY <1>1, <3>1
      <3> HIDE DEF r
      <3>3. h[r] = g[r]
        BY <3>1, <3>2
      <3>4. Unfolded(f, h, s) = Unfolded(f, g, s)
        BY <2>2, <3>3 DEF Unfolded, r
      <3>5. h[s] = Unfolded(f, g, s)
        BY <1>5
      <3>. QED
        BY <3>4, <3>5
    <2>. QED
      BY <2>1, <2>2
  <1> HIDE DEF h
  <1>. QED
    BY <1>3, <1>6

LEMMA ComputesExists ==
  ASSUME NEW f, NEW S, IsFiniteSet(S)
  PROVE  \E g : Computes(f, g, S)
  <1>1. Cardinality(S) \in Nat
    BY FS_CardinalityType
  <1>2. PICK g : ComputesSmall(f, g, S, Cardinality(S))
    BY <1>1, ComputesUpto
  <1>3. \A s \in SUBSET S : g[s] = Unfolded(f, g, s)
    BY <1>2, FS_Subset DEF ComputesSmall
  <1> DEFINE h == [s \in SUBSET S |-> g[s]]
  <1>4. \A s \in SUBSET S : h[s] = Unfolded(f, h, s)
    <2> SUFFICES ASSUME NEW s \in SUBSET S PROVE h[s] = Unfolded(f, h, s)
      OBVIOUS
    <2>1. s \ {First(s)} \in SUBSET S
      OBVIOUS
    <2>2. Unfolded(f, h, s) = Unfolded(f, g, s)
      BY <2>1 DEF Unfolded
    <2>. QED
      BY <1>3, <2>2
  <1>5. h = [s \in SUBSET S |-> h[s]]
    OBVIOUS
  <1> HIDE DEF h
  <1>6. h = [s \in SUBSET S |-> Unfolded(f, h, s)]
    BY <1>4, <1>5
  <1>. QED
    BY <1>6 DEF Computes

\* The sum is what a solution gives.
LEMMA SumComputes ==
  ASSUME NEW f, NEW S, IsFiniteSet(S)
  PROVE  \E g : Computes(f, g, S) /\ SumFunctionOnSet(f, S) = g[S]
  <1> DEFINE g == CHOOSE h : Computes(f, h, S)
  <1>1. Computes(f, g, S)
    BY ComputesExists
  <1>2. SumFunctionOnSet(f, S) = g[S]
    BY DEF SumFunctionOnSet, FoldFunctionOnSet, MapThenFoldSet, Computes, Unfolded, First
  <1>. QED
    BY <1>1, <1>2

\* Solutions agree.
LEMMA ComputesUnique ==
  ASSUME NEW f, NEW S, IsFiniteSet(S), NEW T \in SUBSET S,
         NEW g, Computes(f, g, S), NEW h, Computes(f, h, T)
  PROVE  g[T] = h[T]
  <1>1. /\ \A s \in SUBSET S : g[s] = Unfolded(f, g, s)
        /\ \A s \in SUBSET T : h[s] = Unfolded(f, h, s)
    <2>1. \A s \in SUBSET S : g[s] = Unfolded(f, g, s)
      BY DEF Computes
    <2>2. \A s \in SUBSET T : h[s] = Unfolded(f, h, s)
      BY DEF Computes
    <2>. QED
      BY <2>1, <2>2
  <1> DEFINE B == {s \in SUBSET T : g[s] # h[s]}
  <1>2. SUFFICES ASSUME B # {} PROVE FALSE
    OBVIOUS
  <1>3. PICK s \in B : \A u \in B : u \subseteq s => u = s
    <2>1. IsFiniteSet(T) /\ B \subseteq SUBSET T
      BY FS_Subset
    <2> HIDE DEF B
    <2>. QED
      BY <1>2, <2>1, MinimalSubset
  <1>4. s # {}
    BY <1>1 DEF Unfolded
  <1>5. s \ {First(s)} \notin B
    BY <1>3, <1>4, FirstIn
  <1>. QED
    BY <1>1, <1>4, <1>5 DEF Unfolded

-----------------------------------------------------------------------------
(* The laws.                                                               *)

LEMMA SumEmpty ==
  ASSUME NEW f
  PROVE  SumFunctionOnSet(f, {}) = 0
  <1>1. PICK g : Computes(f, g, {}) /\ SumFunctionOnSet(f, {}) = g[{}]
    BY SumComputes, FS_EmptySet
  <1>. QED
    BY <1>1 DEF Computes, Unfolded

LEMMA SumFirst ==
  ASSUME NEW f, NEW S, IsFiniteSet(S), S # {}
  PROVE  SumFunctionOnSet(f, S) = f[First(S)] + SumFunctionOnSet(f, S \ {First(S)})
  <1> DEFINE T == S \ {First(S)}
  <1>1. IsFiniteSet(T) /\ T \in SUBSET S
    BY FS_Subset
  <1>2. PICK g : Computes(f, g, S) /\ SumFunctionOnSet(f, S) = g[S]
    BY SumComputes
  <1>3. PICK h : Computes(f, h, T) /\ SumFunctionOnSet(f, T) = h[T]
    BY <1>1, SumComputes
  <1>4. g[T] = h[T]
    BY <1>1, <1>2, <1>3, ComputesUnique
  <1>5. g[S] = Unfolded(f, g, S)
    BY <1>2 DEF Computes
  <1>. QED
    BY <1>2, <1>3, <1>4, <1>5 DEF Unfolded

LEMMA SumInt ==
  ASSUME NEW f, NEW S, IsFiniteSet(S), \A x \in S : f[x] \in Int
  PROVE  SumFunctionOnSet(f, S) \in Int
  <1> DEFINE B == {s \in SUBSET S : SumFunctionOnSet(f, s) \notin Int}
  <1>1. SUFFICES ASSUME B # {} PROVE FALSE
    OBVIOUS
  <1>2. PICK s \in B : \A u \in B : u \subseteq s => u = s
    <2>1. B \subseteq SUBSET S
      OBVIOUS
    <2> HIDE DEF B
    <2>. QED
      BY <1>1, <2>1, MinimalSubset
  <1>3. s # {} /\ IsFiniteSet(s)
    <2>1. s # {}
      BY SumEmpty
    <2>. QED
      BY <2>1, FS_Subset
  <1>4. First(s) \in s /\ s \ {First(s)} \notin B
    BY <1>2, <1>3, FirstIn
  <1>5. f[First(s)] \in Int /\ SumFunctionOnSet(f, s \ {First(s)}) \in Int
    BY <1>4
  <1>. QED
    BY <1>3, <1>5, SumFirst

LEMMA SumNat ==
  ASSUME NEW f, NEW S, IsFiniteSet(S), \A x \in S : f[x] \in Nat
  PROVE  SumFunctionOnSet(f, S) \in Nat
  <1> DEFINE B == {s \in SUBSET S : SumFunctionOnSet(f, s) \notin Nat}
  <1>1. SUFFICES ASSUME B # {} PROVE FALSE
    OBVIOUS
  <1>2. PICK s \in B : \A u \in B : u \subseteq s => u = s
    <2>1. B \subseteq SUBSET S
      OBVIOUS
    <2> HIDE DEF B
    <2>. QED
      BY <1>1, <2>1, MinimalSubset
  <1>3. s # {} /\ IsFiniteSet(s)
    <2>1. s # {}
      BY SumEmpty
    <2>. QED
      BY <2>1, FS_Subset
  <1>4. First(s) \in s /\ s \ {First(s)} \notin B
    BY <1>2, <1>3, FirstIn
  <1>5. f[First(s)] \in Nat /\ SumFunctionOnSet(f, s \ {First(s)}) \in Nat
    BY <1>4
  <1>. QED
    BY <1>3, <1>5, SumFirst

\* Any element may be taken out first.
LEMMA SumTake ==
  ASSUME NEW f, NEW S, IsFiniteSet(S), \A x \in S : f[x] \in Int, NEW y \in S
  PROVE  SumFunctionOnSet(f, S) = f[y] + SumFunctionOnSet(f, S \ {y})
  <1> DEFINE Off(s) == \E z \in s : SumFunctionOnSet(f, s) # f[z] + SumFunctionOnSet(f, s \ {z})
             B == {s \in SUBSET S : Off(s)}
  <1>1. SUFFICES ASSUME B # {} PROVE FALSE
    OBVIOUS
  <1>2. PICK s \in B : \A u \in B : u \subseteq s => u = s
    <2>1. B \subseteq SUBSET S
      OBVIOUS
    <2> HIDE DEF B
    <2>. QED
      BY <1>1, <2>1, MinimalSubset
  <1>3. PICK z \in s : SumFunctionOnSet(f, s) # f[z] + SumFunctionOnSet(f, s \ {z})
    OBVIOUS
  <1> DEFINE x == First(s)
  <1>4. /\ x \in s
        /\ SumFunctionOnSet(f, s) = f[x] + SumFunctionOnSet(f, s \ {x})
    BY <1>3, FirstIn, SumFirst, FS_Subset
  <1> HIDE DEF x
  <1>5. z # x
    BY <1>3, <1>4
  <1>6. ~Off(s \ {x}) /\ ~Off(s \ {z})
    <2>1. s \ {x} \in SUBSET S /\ s \ {z} \in SUBSET S /\ s \ {x} # s /\ s \ {z} # s
      BY <1>4
    <2>. QED
      BY <1>2, <2>1
  <1>7. /\ SumFunctionOnSet(f, s \ {x}) = f[z] + SumFunctionOnSet(f, (s \ {x}) \ {z})
        /\ SumFunctionOnSet(f, s \ {z}) = f[x] + SumFunctionOnSet(f, (s \ {z}) \ {x})
    BY <1>4, <1>5, <1>6
  <1>8. (s \ {x}) \ {z} = (s \ {z}) \ {x}
    OBVIOUS
  <1>9. f[x] \in Int /\ f[z] \in Int /\ SumFunctionOnSet(f, (s \ {z}) \ {x}) \in Int
    <2>1. (s \ {z}) \ {x} \in SUBSET S
      OBVIOUS
    <2>2. IsFiniteSet((s \ {z}) \ {x})
      BY <2>1, FS_Subset
    <2>. QED
      BY <1>4, <2>1, <2>2, SumInt
  <1>. QED
    <2> DEFINE a == SumFunctionOnSet(f, (s \ {z}) \ {x})
    <2>1. f[x] + (f[z] + a) = f[z] + (f[x] + a)
      BY <1>9
    <2>. QED
      BY <1>3, <1>4, <1>7, <1>8, <2>1

LEMMA SumAdd ==
  ASSUME NEW f, NEW S, IsFiniteSet(S), NEW y, y \notin S, \A x \in S \cup {y} : f[x] \in Int
  PROVE  /\ IsFiniteSet(S \cup {y})
         /\ SumFunctionOnSet(f, S \cup {y}) = f[y] + SumFunctionOnSet(f, S)
  <1>1. IsFiniteSet(S \cup {y})
    BY FS_AddElement
  <1>2. (S \cup {y}) \ {y} = S
    OBVIOUS
  <1>. QED
    BY <1>1, <1>2, SumTake

\* Induction: a property of sums that is lost at some part of S is lost at one
\* to which it extends from a part with one element less.
LEMMA FirstFailure ==
  ASSUME NEW S, IsFiniteSet(S), NEW Good, {} \in Good, S \notin Good
  PROVE  \E s \in SUBSET S, y \in S :
           y \notin s /\ IsFiniteSet(s) /\ s \in Good /\ s \cup {y} \notin Good
  <1> DEFINE B == {s \in SUBSET S : s \notin Good}
  <1>1. B \subseteq SUBSET S /\ S \in B
    OBVIOUS
  <1>2. PICK s \in B : \A u \in B : u \subseteq s => u = s
    <2> HIDE DEF B
    <2>. QED
      BY <1>1, MinimalSubset
  <1>3. PICK y \in s : TRUE
    BY <1>2
  <1> DEFINE r == s \ {y}
  <1>4. r \in SUBSET S /\ y \in S /\ y \notin r /\ r \cup {y} = s
    BY <1>3
  <1>5. r \in Good
    <2>1. r # s /\ r \subseteq s
      BY <1>3
    <2> HIDE DEF r
    <2>. QED
      BY <1>2, <1>4, <2>1
  <1>6. IsFiniteSet(r)
    BY <1>4, FS_Subset
  <1>7. r \cup {y} \notin Good
    BY <1>2, <1>4
  <1>. QED
    BY <1>4, <1>5, <1>6, <1>7

LEMMA SumSame ==
  ASSUME NEW f, NEW g, NEW S, IsFiniteSet(S), \A x \in S : f[x] \in Int /\ f[x] = g[x]
  PROVE  SumFunctionOnSet(f, S) = SumFunctionOnSet(g, S)
  <1> DEFINE Good == {s \in SUBSET S : SumFunctionOnSet(f, s) = SumFunctionOnSet(g, s)}
  <1>1. SUFFICES ASSUME S \notin Good PROVE FALSE
    OBVIOUS
  <1>2. {} \in Good
    BY SumEmpty
  <1>3. PICK s \in SUBSET S, y \in S :
          y \notin s /\ IsFiniteSet(s) /\ s \in Good /\ s \cup {y} \notin Good
    <2> HIDE DEF Good
    <2>. QED
      BY <1>1, <1>2, FirstFailure
  <1>4. SumFunctionOnSet(f, s \cup {y}) = f[y] + SumFunctionOnSet(f, s)
    BY <1>3, SumAdd
  <1>5. SumFunctionOnSet(g, s \cup {y}) = g[y] + SumFunctionOnSet(g, s)
    <2>1. \A x \in s \cup {y} : g[x] \in Int
      OBVIOUS
    <2>. QED
      BY <1>3, <2>1, SumAdd
  <1>. QED
    BY <1>3, <1>4, <1>5

\* One summand changes.
DifferAt(f, g, S, y) ==
  \A x \in S : f[x] \in Int /\ g[x] \in Int /\ (x # y => f[x] = g[x])
LEMMA SumChange ==
  ASSUME NEW f, NEW g, NEW S, IsFiniteSet(S), NEW y \in S, DifferAt(f, g, S, y)
  PROVE  SumFunctionOnSet(g, S) = SumFunctionOnSet(f, S) - f[y] + g[y]
  <1> USE DEF DifferAt
  <1> DEFINE T == S \ {y}
  <1>1. IsFiniteSet(T)
    BY FS_Subset
  <1>2. SumFunctionOnSet(f, T) = SumFunctionOnSet(g, T) /\ SumFunctionOnSet(f, T) \in Int
    BY <1>1, SumSame, SumInt
  <1>3. SumFunctionOnSet(f, S) = f[y] + SumFunctionOnSet(f, T)
    BY SumTake
  <1>4. SumFunctionOnSet(g, S) = g[y] + SumFunctionOnSet(g, T)
    BY SumTake
  <1> HIDE DEF T
  <1>5. f[y] \in Int /\ g[y] \in Int
    OBVIOUS
  <1>. QED
    BY <1>2, <1>3, <1>4, <1>5

NatOn(f, S) == \A x \in S : f[x] \in Nat

LEMMA SumAtLeast ==
  ASSUME NEW f, NEW S, IsFiniteSet(S), NatOn(f, S), NEW y \in S
  PROVE  SumFunctionOnSet(f, S) >= f[y]
  <1> DEFINE T == S \ {y}
  <1>1. IsFiniteSet(T) /\ \A x \in S : f[x] \in Nat /\ f[x] \in Int
    BY FS_Subset DEF NatOn
  <1>2. SumFunctionOnSet(f, S) = f[y] + SumFunctionOnSet(f, T)
    BY <1>1, SumTake
  <1> HIDE DEF T
  <1>3. T \subseteq S
    BY DEF T
  <1>4. SumFunctionOnSet(f, T) \in Nat
    BY <1>1, <1>3, SumNat
  <1>. QED
    BY <1>1, <1>2, <1>4

LEMMA SumUnion ==
  ASSUME NEW f, NEW S, IsFiniteSet(S), NEW T, IsFiniteSet(T), S \cap T = {},
         \A x \in S \cup T : f[x] \in Int
  PROVE  SumFunctionOnSet(f, S \cup T) = SumFunctionOnSet(f, S) + SumFunctionOnSet(f, T)
  <1> DEFINE Good == {s \in SUBSET S :
               SumFunctionOnSet(f, s \cup T) = SumFunctionOnSet(f, s) + SumFunctionOnSet(f, T)}
  <1>1. SUFFICES ASSUME S \notin Good PROVE FALSE
    OBVIOUS
  <1>2. {} \in Good
    <2>1. SumFunctionOnSet(f, T) \in Int
      BY SumInt
    <2>2. {} \cup T = T
      OBVIOUS
    <2>. QED
      BY <2>1, <2>2, SumEmpty
  <1>3. PICK s \in SUBSET S, y \in S :
          y \notin s /\ IsFiniteSet(s) /\ s \in Good /\ s \cup {y} \notin Good
    <2> HIDE DEF Good
    <2>. QED
      BY <1>1, <1>2, FirstFailure
  <1>4. SumFunctionOnSet(f, s \cup {y}) = f[y] + SumFunctionOnSet(f, s)
    BY <1>3, SumAdd
  <1>5. SumFunctionOnSet(f, (s \cup T) \cup {y}) = f[y] + SumFunctionOnSet(f, s \cup T)
    <2>1. IsFiniteSet(s \cup T) /\ y \notin s \cup T /\ \A x \in (s \cup T) \cup {y} : f[x] \in Int
      BY <1>3, FS_Union
    <2>. QED
      BY <2>1, SumAdd
  <1>6. (s \cup {y}) \cup T = (s \cup T) \cup {y}
    OBVIOUS
  <1>7. /\ f[y] \in Int /\ SumFunctionOnSet(f, s) \in Int /\ SumFunctionOnSet(f, T) \in Int
    BY <1>3, SumInt
  <1>8. SumFunctionOnSet(f, s \cup T) = SumFunctionOnSet(f, s) + SumFunctionOnSet(f, T)
    BY <1>3
  <1>9. SumFunctionOnSet(f, (s \cup {y}) \cup T)
          = SumFunctionOnSet(f, s \cup {y}) + SumFunctionOnSet(f, T)
    <2>1. SumFunctionOnSet(f, (s \cup {y}) \cup T)
            = f[y] + (SumFunctionOnSet(f, s) + SumFunctionOnSet(f, T))
      BY <1>5, <1>6, <1>8
    <2>2. \A a, b, c \in Int : a + (b + c) = (a + b) + c
      OBVIOUS
    <2>. QED
      BY <1>4, <1>7, <2>1, <2>2
  <1>. QED
    BY <1>3, <1>9

\* A part of a sum of natural numbers is no larger.
LEMMA SumPart ==
  ASSUME NEW f, NEW S, IsFiniteSet(S), NEW T \in SUBSET S, \A x \in S : f[x] \in Nat
  PROVE  SumFunctionOnSet(f, T) <= SumFunctionOnSet(f, S)
  <1>1. IsFiniteSet(T) /\ IsFiniteSet(S \ T) /\ T \cup (S \ T) = S /\ T \cap (S \ T) = {}
    BY FS_Subset
  <1>2. \A x \in T \cup (S \ T) : f[x] \in Int
    OBVIOUS
  <1>3. SumFunctionOnSet(f, T) \in Nat /\ SumFunctionOnSet(f, S \ T) \in Nat
    BY <1>1, SumNat
  <1>4. SumFunctionOnSet(f, S) = SumFunctionOnSet(f, T) + SumFunctionOnSet(f, S \ T)
    BY <1>1, <1>2, SumUnion
  <1>5. \A a, b \in Nat : a <= a + b
    OBVIOUS
  <1>. QED
    BY <1>3, <1>4, <1>5

LEMMA SumZero ==
  ASSUME NEW f, NEW S, IsFiniteSet(S), \A x \in S : f[x] = 0
  PROVE  SumFunctionOnSet(f, S) = 0
  <1> DEFINE Good == {s \in SUBSET S : SumFunctionOnSet(f, s) = 0}
  <1>1. SUFFICES ASSUME S \notin Good PROVE FALSE
    OBVIOUS
  <1>2. {} \in Good
    BY SumEmpty
  <1>3. PICK s \in SUBSET S, y \in S :
          y \notin s /\ IsFiniteSet(s) /\ s \in Good /\ s \cup {y} \notin Good
    <2> HIDE DEF Good
    <2>. QED
      BY <1>1, <1>2, FirstFailure
  <1>4. SumFunctionOnSet(f, s \cup {y}) = f[y] + SumFunctionOnSet(f, s)
    BY <1>3, SumAdd
  <1>. QED
    BY <1>3, <1>4

\* Two sums with the same summands, which h matches.
LEMMA SumMatched ==
  ASSUME NEW f, NEW S, IsFiniteSet(S), NEW g, NEW T, NEW h,
         \A x \in S : f[x] \in Int /\ h[x] \in T /\ g[h[x]] = f[x],
         \A x, y \in S : h[x] = h[y] => x = y,
         \A z \in T : \E x \in S : h[x] = z
  PROVE  IsFiniteSet(T) /\ SumFunctionOnSet(f, S) = SumFunctionOnSet(g, T)
  <1> DEFINE Image(s) == {h[x] : x \in s}
             Good == {s \in SUBSET S : /\ IsFiniteSet(Image(s))
                                       /\ SumFunctionOnSet(f, s) = SumFunctionOnSet(g, Image(s))}
  <1>1. Image(S) = T
    OBVIOUS
  <1>2. SUFFICES ASSUME S \notin Good PROVE FALSE
    BY <1>1
  <1>3. {} \in Good
    <2>1. Image({}) = {}
      OBVIOUS
    <2>. QED
      BY <2>1, SumEmpty, FS_EmptySet
  <1>4. PICK s \in SUBSET S, y \in S :
          y \notin s /\ IsFiniteSet(s) /\ s \in Good /\ s \cup {y} \notin Good
    <2> HIDE DEF Good
    <2>. QED
      BY <1>2, <1>3, FirstFailure
  <1>5. SumFunctionOnSet(f, s \cup {y}) = f[y] + SumFunctionOnSet(f, s)
    BY <1>4, SumAdd
  <1>6. /\ IsFiniteSet(Image(s)) /\ SumFunctionOnSet(f, s) = SumFunctionOnSet(g, Image(s))
    BY <1>4
  <1>7. h[y] \notin Image(s) /\ \A z \in Image(s) \cup {h[y]} : g[z] \in Int
    BY <1>4
  <1>8. Image(s \cup {y}) = Image(s) \cup {h[y]}
    OBVIOUS
  <1>9. /\ IsFiniteSet(Image(s) \cup {h[y]})
        /\ SumFunctionOnSet(g, Image(s) \cup {h[y]}) = g[h[y]] + SumFunctionOnSet(g, Image(s))
    <2> HIDE DEF Image
    <2>. QED
      BY <1>6, <1>7, SumAdd
  <1>10. s \cup {y} \in Good
    <2>1. g[h[y]] = f[y] /\ s \cup {y} \in SUBSET S
      OBVIOUS
    <2>2. /\ IsFiniteSet(Image(s \cup {y}))
          /\ SumFunctionOnSet(f, s \cup {y}) = SumFunctionOnSet(g, Image(s \cup {y}))
      <3> HIDE DEF Image
      <3>. QED
        BY <1>5, <1>6, <1>8, <1>9, <2>1
    <2>. QED
      BY <2>1, <2>2
  <1>. QED
    BY <1>4, <1>10

LEMMA SumPlus ==
  ASSUME NEW f, NEW g, NEW h, NEW S, IsFiniteSet(S),
         \A x \in S : f[x] \in Int /\ g[x] \in Int /\ h[x] = f[x] + g[x]
  PROVE  SumFunctionOnSet(h, S) = SumFunctionOnSet(f, S) + SumFunctionOnSet(g, S)
  <1> DEFINE Good == {s \in SUBSET S :
               SumFunctionOnSet(h, s) = SumFunctionOnSet(f, s) + SumFunctionOnSet(g, s)}
  <1>1. SUFFICES ASSUME S \notin Good PROVE FALSE
    OBVIOUS
  <1>2. {} \in Good
    BY SumEmpty
  <1>3. PICK s \in SUBSET S, y \in S :
          y \notin s /\ IsFiniteSet(s) /\ s \in Good /\ s \cup {y} \notin Good
    <2> HIDE DEF Good
    <2>. QED
      BY <1>1, <1>2, FirstFailure
  <1>4. SumFunctionOnSet(f, s \cup {y}) = f[y] + SumFunctionOnSet(f, s)
    BY <1>3, SumAdd
  <1>5. SumFunctionOnSet(g, s \cup {y}) = g[y] + SumFunctionOnSet(g, s)
    BY <1>3, SumAdd
  <1>6. SumFunctionOnSet(h, s \cup {y}) = h[y] + SumFunctionOnSet(h, s)
    <2>1. \A x \in s \cup {y} : h[x] \in Int
      OBVIOUS
    <2>. QED
      BY <1>3, <2>1, SumAdd
  <1>7. /\ SumFunctionOnSet(f, s) \in Int /\ SumFunctionOnSet(g, s) \in Int
        /\ f[y] \in Int /\ g[y] \in Int /\ h[y] = f[y] + g[y]
    BY <1>3, SumInt
  <1>8. SumFunctionOnSet(h, s) = SumFunctionOnSet(f, s) + SumFunctionOnSet(g, s)
    BY <1>3
  <1>9. SumFunctionOnSet(h, s \cup {y})
          = SumFunctionOnSet(f, s \cup {y}) + SumFunctionOnSet(g, s \cup {y})
    BY <1>4, <1>5, <1>6, <1>7, <1>8
  <1>. QED
    BY <1>3, <1>9

LEMMA SumTimes ==
  ASSUME NEW f, NEW a \in Int, NEW g, NEW S, IsFiniteSet(S),
         \A x \in S : f[x] \in Int /\ g[x] = f[x] * a
  PROVE  SumFunctionOnSet(g, S) = SumFunctionOnSet(f, S) * a
  <1> DEFINE Good == {s \in SUBSET S : SumFunctionOnSet(g, s) = SumFunctionOnSet(f, s) * a}
  <1>1. SUFFICES ASSUME S \notin Good PROVE FALSE
    OBVIOUS
  <1>2. {} \in Good
    <2>1. 0 * a = 0
      OBVIOUS
    <2>. QED
      BY <2>1, SumEmpty
  <1>3. PICK s \in SUBSET S, y \in S :
          y \notin s /\ IsFiniteSet(s) /\ s \in Good /\ s \cup {y} \notin Good
    <2> HIDE DEF Good
    <2>. QED
      BY <1>1, <1>2, FirstFailure
  <1>4. SumFunctionOnSet(f, s \cup {y}) = f[y] + SumFunctionOnSet(f, s)
    BY <1>3, SumAdd
  <1>5. SumFunctionOnSet(g, s \cup {y}) = g[y] + SumFunctionOnSet(g, s)
    <2>1. \A x \in s \cup {y} : g[x] \in Int
      OBVIOUS
    <2>. QED
      BY <1>3, <2>1, SumAdd
  <1>6. SumFunctionOnSet(f, s) \in Int /\ f[y] \in Int /\ g[y] = f[y] * a
    BY <1>3, SumInt
  <1>7. SumFunctionOnSet(g, s) = SumFunctionOnSet(f, s) * a
    BY <1>3
  <1>8. \A b, c \in Int : b * a + c * a = (b + c) * a
    OBVIOUS
  <1>9. SumFunctionOnSet(g, s \cup {y}) = SumFunctionOnSet(f, s \cup {y}) * a
    BY <1>4, <1>5, <1>6, <1>7, <1>8
  <1>. QED
    BY <1>3, <1>9

\* The summands in groups: c names the group of each, g has their sums.
Grouped(S, c, m) == {x \in S : c[x] = m}

LEMMA SumGrouped ==
  ASSUME NEW f, NEW S, IsFiniteSet(S), NEW c, NEW g, NEW M, IsFiniteSet(M),
         \A x \in S : f[x] \in Int /\ c[x] \in M,
         \A m \in M : g[m] = SumFunctionOnSet(f, Grouped(S, c, m))
  PROVE  SumFunctionOnSet(f, S) = SumFunctionOnSet(g, M)
  <1> DEFINE In(T) == {x \in S : c[x] \in T}
             Group(m) == Grouped(S, c, m)
             Good == {T \in SUBSET M : SumFunctionOnSet(f, In(T)) = SumFunctionOnSet(g, T)}
  <1>1. In(M) = S /\ In({}) = {}
    OBVIOUS
  <1>2. SUFFICES ASSUME M \notin Good PROVE FALSE
    BY <1>1
  <1>3. {} \in Good
    BY <1>1, SumEmpty
  <1>4. PICK T \in SUBSET M, m \in M :
          m \notin T /\ IsFiniteSet(T) /\ T \in Good /\ T \cup {m} \notin Good
    <2> HIDE DEF Good
    <2>. QED
      BY <1>2, <1>3, FirstFailure
  <1>5. In(T \cup {m}) = In(T) \cup Group(m) /\ In(T) \cap Group(m) = {}
    BY <1>4 DEF Grouped
  <1>6. /\ IsFiniteSet(In(T)) /\ IsFiniteSet(Group(m))
        /\ \A x \in In(T) \cup Group(m) : f[x] \in Int
    <2>1. In(T) \in SUBSET S /\ Group(m) \in SUBSET S
      BY DEF Grouped
    <2> HIDE DEF In, Group
    <2>. QED
      BY <2>1, FS_Subset
  <1> HIDE DEF In
  <1>7. SumFunctionOnSet(f, In(T \cup {m})) = SumFunctionOnSet(f, In(T)) + g[m]
    <2>1. g[m] = SumFunctionOnSet(f, Group(m))
      OBVIOUS
    <2> DEFINE U == In(T)
               V == Group(m)
    <2>2. /\ IsFiniteSet(U) /\ IsFiniteSet(V) /\ U \cap V = {}
          /\ \A x \in U \cup V : f[x] \in Int
      BY <1>5, <1>6
    <2> HIDE DEF U, V, Group
    <2>3. SumFunctionOnSet(f, U \cup V) = SumFunctionOnSet(f, U) + SumFunctionOnSet(f, V)
      BY <2>2, SumUnion
    <2>. QED
      BY <1>5, <2>1, <2>3 DEF U, V
  <1>8. \A x \in M : g[x] \in Int
    <2> SUFFICES ASSUME NEW x \in M PROVE g[x] \in Int
      OBVIOUS
    <2>1. Group(x) \in SUBSET S
      BY DEF Grouped
    <2>2. IsFiniteSet(Group(x)) /\ \A y \in Group(x) : f[y] \in Int
      BY <2>1, FS_Subset
    <2>. QED
      BY <2>2, SumInt
  <1>9. SumFunctionOnSet(g, T \cup {m}) = g[m] + SumFunctionOnSet(g, T)
    BY <1>4, <1>8, SumAdd
  <1>10. SumFunctionOnSet(g, T) \in Int /\ g[m] \in Int
    BY <1>4, <1>8, SumInt
  <1>11. SumFunctionOnSet(f, In(T)) = SumFunctionOnSet(g, T)
    BY <1>4
  <1>12. SumFunctionOnSet(f, In(T \cup {m})) = SumFunctionOnSet(g, T \cup {m})
    BY <1>7, <1>9, <1>10, <1>11
  <1>. QED
    BY <1>4, <1>12

-----------------------------------------------------------------------------
(* Bounds.                                                                 *)

LEMMA TimesMono ==
  ASSUME NEW a \in Nat, NEW b \in Nat, NEW d \in Nat, a <= b
  PROVE  a * d <= b * d
  <1>1. PICK c \in Nat : b = a + c
    <2>1. b - a \in Nat /\ b = a + (b - a)
      OBVIOUS
    <2>. QED
      BY <2>1
  <1>2. b * d = a * d + c * d
    BY <1>1
  <1>3. c * d \in Nat
    OBVIOUS
  <1>. QED
    BY <1>2, <1>3

\* A sum of values below or above a bound.
LEMMA SumBounds ==
  ASSUME NEW f, NEW S, IsFiniteSet(S), NEW a \in Nat, \A x \in S : f[x] \in Int
  PROVE  /\ Cardinality(S) \in Nat
         /\ (\A x \in S : f[x] <= a) => SumFunctionOnSet(f, S) <= Cardinality(S) * a
         /\ (\A x \in S : f[x] >= a) => SumFunctionOnSet(f, S) >= Cardinality(S) * a
  <1> DEFINE const == [x \in S |-> a]
             low == [x \in S |-> a - f[x]]
             high == [x \in S |-> f[x] - a]
  <1>1. Cardinality(S) \in Nat
    BY FS_CardinalityType
  <1>2. SumFunctionOnSet(const, S) = Cardinality(S) * a
    <2> DEFINE Good == {T \in SUBSET S : SumFunctionOnSet(const, T) = Cardinality(T) * a}
    <2>1. {} \in Good
      BY SumEmpty, FS_EmptySet
    <2>2. ASSUME NEW T \in SUBSET S, NEW y \in S, y \notin T, IsFiniteSet(T), T \in Good
          PROVE  T \cup {y} \in Good
      <3>1. \A x \in T \cup {y} : const[x] \in Int
        OBVIOUS
      <3>2. SumFunctionOnSet(const, T \cup {y}) = const[y] + SumFunctionOnSet(const, T)
        <4> HIDE DEF const
        <4>. QED
          BY <2>2, <3>1, SumAdd
      <3>3. Cardinality(T \cup {y}) = Cardinality(T) + 1 /\ Cardinality(T) \in Nat
        BY <2>2, FS_AddElement, FS_CardinalityType
      <3>4. const[y] = a /\ SumFunctionOnSet(const, T) = Cardinality(T) * a
        BY <2>2
      <3>5. (Cardinality(T) + 1) * a = Cardinality(T) * a + a
        BY <3>3
      <3> HIDE DEF const
      <3>. QED
        BY <2>2, <3>2, <3>3, <3>4, <3>5
    <2>3. S \in Good
      <3>. SUFFICES ASSUME S \notin Good PROVE FALSE
        OBVIOUS
      <3>1. PICK T \in SUBSET S, y \in S :
              y \notin T /\ IsFiniteSet(T) /\ T \in Good /\ T \cup {y} \notin Good
        <4> HIDE DEF Good
        <4>. QED
          BY <2>1, FirstFailure
      <3> HIDE DEF Good
      <3>. QED
        BY <2>2, <3>1
    <2>. QED
      BY <2>3
  <1>3. SumFunctionOnSet(f, S) \in Int /\ Cardinality(S) * a \in Int
    BY <1>1, SumInt
  <1>4. ASSUME \A x \in S : f[x] <= a
        PROVE  SumFunctionOnSet(f, S) <= Cardinality(S) * a
    <2>1. \A x \in S : f[x] \in Int /\ low[x] \in Int /\ low[x] \in Nat /\ const[x] = f[x] + low[x]
      BY <1>4
    <2> HIDE DEF const, low
    <2>2. SumFunctionOnSet(const, S) = SumFunctionOnSet(f, S) + SumFunctionOnSet(low, S)
      BY <2>1, SumPlus
    <2>3. SumFunctionOnSet(low, S) \in Nat
      BY <2>1, SumNat
    <2>. QED
      BY <1>2, <1>3, <2>2, <2>3
  <1>5. ASSUME \A x \in S : f[x] >= a
        PROVE  SumFunctionOnSet(f, S) >= Cardinality(S) * a
    <2>1. \A x \in S : const[x] \in Int /\ high[x] \in Int /\ high[x] \in Nat /\ f[x] = const[x] + high[x]
      BY <1>5
    <2> HIDE DEF const, high
    <2>2. SumFunctionOnSet(f, S) = SumFunctionOnSet(const, S) + SumFunctionOnSet(high, S)
      BY <2>1, SumPlus
    <2>3. SumFunctionOnSet(high, S) \in Nat
      BY <2>1, SumNat
    <2>. QED
      BY <1>2, <1>3, <2>2, <2>3
  <1>. QED
    BY <1>1, <1>4, <1>5

-----------------------------------------------------------------------------
(* Recursion along numbers.                                                *)

\* Induction up to n.
LEMMA ReachesAll ==
  ASSUME NEW n \in Nat, NEW Good, 0 \in Good, \A k \in 0 .. (n - 1) : k \in Good => k + 1 \in Good
  PROVE  \A k \in 0 .. n : k \in Good
  <1> DEFINE B == {k \in 0 .. n : k \notin Good}
  <1>1. SUFFICES ASSUME B # {} PROVE FALSE
    OBVIOUS
  <1>2. PICK m \in B : \A k \in B : m <= k
    <2>1. B \subseteq Nat
      OBVIOUS
    <2> HIDE DEF B
    <2>. QED
      BY <1>1, <2>1, LeastNumber
  <1>3. m # 0 /\ m - 1 \in 0 .. (n - 1) /\ ~(m <= m - 1)
    BY <1>2
  <1>4. m - 1 \in Good
    BY <1>2, <1>3
  <1>5. (m - 1) + 1 = m
    BY <1>2
  <1>. QED
    BY <1>2, <1>3, <1>4, <1>5

\* f runs through n steps from a: the k-th of them takes x to F[k][x].
Runs(F, a, n, f) ==
  n \in Nat /\ f = [k \in 0 .. n |-> IF k = 0 THEN a ELSE F[k][f[k-1]]]

LEMMA RunStep ==
  ASSUME NEW F, NEW a, NEW n, NEW f, Runs(F, a, n, f)
  PROVE  /\ n \in Nat
         /\ DOMAIN f = 0 .. n
         /\ f[0] = a
         /\ \A k \in 1 .. n : f[k] = F[k][f[k-1]]
  <1>1. \A k \in 0 .. n : f[k] = IF k = 0 THEN a ELSE F[k][f[k-1]]
    BY DEF Runs
  <1>2. n \in Nat /\ DOMAIN f = 0 .. n
    BY DEF Runs
  <1>. QED
    BY <1>1, <1>2

LEMMA RunExists ==
  ASSUME NEW A, NEW a \in A, NEW n \in Nat, NEW F, \A k \in 1 .. n : \A x \in A : F[k][x] \in A
  PROVE  \E f \in [0 .. n -> A] : Runs(F, a, n, f)
  <1> DEFINE Ok(m, f) == f[0] = a /\ \A k \in 1 .. m : f[k] = F[k][f[k-1]]
             Good == {m \in 0 .. n : \E f \in [0 .. m -> A] : Ok(m, f)}
  <1>1. 0 \in Good
    <2> DEFINE f == [k \in 0 .. 0 |-> a]
    <2>1. f \in [0 .. 0 -> A] /\ Ok(0, f)
      OBVIOUS
    <2> HIDE DEF f, Ok
    <2>. QED
      BY <2>1
  <1>2. ASSUME NEW m \in 0 .. (n - 1), m \in Good
        PROVE  m + 1 \in Good
    <2>1. PICK f \in [0 .. m -> A] : Ok(m, f)
      BY <1>2
    <2> DEFINE g == [k \in 0 .. (m + 1) |-> IF k = m + 1 THEN F[m + 1][f[m]] ELSE f[k]]
    <2>2. F[m + 1][f[m]] \in A
      OBVIOUS
    <2>3. g \in [0 .. (m + 1) -> A]
      BY <2>2
    <2>4. \A k \in 0 .. m : g[k] = f[k]
      OBVIOUS
    <2>5. g[m + 1] = F[m + 1][f[m]] /\ m \in 0 .. m /\ 0 \in 0 .. m
      OBVIOUS
    <2> HIDE DEF g
    <2>6. ASSUME NEW k \in 1 .. (m + 1)
          PROVE  g[k] = F[k][g[k-1]]
      <3>1. CASE k = m + 1
        <4>1. k - 1 = m
          BY <3>1
        <4>. QED
          BY <2>4, <2>5, <3>1, <4>1
      <3>2. CASE k # m + 1
        <4>1. k \in 1 .. m /\ k \in 0 .. m /\ k - 1 \in 0 .. m
          BY <3>2
        <4>. QED
          BY <2>1, <2>4, <4>1
      <3>. QED
        BY <3>1, <3>2
    <2>7. Ok(m + 1, g)
      BY <2>1, <2>4, <2>5, <2>6
    <2>8. m + 1 \in 0 .. n
      OBVIOUS
    <2> HIDE DEF Ok
    <2>. QED
      BY <2>3, <2>7, <2>8
  <1>3. n \in Good
    <2>1. n \in 0 .. n
      OBVIOUS
    <2> HIDE DEF Good
    <2>. QED
      BY <1>1, <1>2, <2>1, ReachesAll
  <1>4. PICK f \in [0 .. n -> A] : Ok(n, f)
    BY <1>3
  <1>5. \A k \in 0 .. n : f[k] = IF k = 0 THEN a ELSE F[k][f[k-1]]
    BY <1>4
  <1>6. f = [k \in 0 .. n |-> f[k]]
    OBVIOUS
  <1>7. Runs(F, a, n, f)
    BY <1>5, <1>6 DEF Runs
  <1>. QED
    BY <1>7

\* Runs agree as far as both go, if their steps do.
LEMMA RunsAgree ==
  ASSUME NEW F, NEW G, NEW a, NEW m, NEW n, m <= n,
         NEW f, Runs(F, a, m, f), NEW g, Runs(G, a, n, g),
         \A k \in 1 .. m : F[k][f[k-1]] = G[k][f[k-1]]
  PROVE  \A k \in 0 .. m : f[k] = g[k]
  <1> DEFINE Good == {k \in 0 .. m : f[k] = g[k]}
  <1>1. /\ f[0] = a /\ \A k \in 1 .. m : f[k] = F[k][f[k-1]]
        /\ g[0] = a /\ \A k \in 1 .. n : g[k] = G[k][g[k-1]]
    <2>1. f[0] = a /\ \A k \in 1 .. m : f[k] = F[k][f[k-1]]
      BY RunStep
    <2>2. g[0] = a /\ \A k \in 1 .. n : g[k] = G[k][g[k-1]]
      BY RunStep
    <2>. QED
      BY <2>1, <2>2
  <1> m \in Nat /\ n \in Nat
    BY DEF Runs
  <1>2. 0 \in Good
    BY <1>1
  <1>3. ASSUME NEW k \in 0 .. (m - 1), k \in Good
        PROVE  k + 1 \in Good
    <2>1. k + 1 \in 1 .. m /\ k + 1 \in 1 .. n /\ k + 1 \in 0 .. m /\ (k + 1) - 1 = k
      OBVIOUS
    <2>2. f[k + 1] = F[k + 1][f[k]] /\ g[k + 1] = G[k + 1][g[k]] /\ F[k + 1][f[k]] = G[k + 1][f[k]]
      BY <1>1, <2>1
    <2>. QED
      BY <1>3, <2>1, <2>2
  <1>4. \A k \in 0 .. m : k \in Good
    <2> HIDE DEF Good
    <2>. QED
      BY <1>2, <1>3, ReachesAll
  <1>. QED
    BY <1>4

-----------------------------------------------------------------------------
(* Functions over an interval are sequences.                               *)

LEMMA SequenceIs ==
  ASSUME NEW b \in Nat, NEW S, NEW t \in [1 .. b -> S]
  PROVE  t \in Seq(S) /\ Len(t) = b
  <1>1. t \in Seq(S)
    BY SeqDef
  <1>2. DOMAIN t = 1 .. b /\ DOMAIN t = 1 .. Len(t) /\ Len(t) \in Nat
    BY <1>1, LenProperties
  <1>3. \A x, y \in Nat : 1 .. x = 1 .. y => x = y
    <2> SUFFICES ASSUME NEW x \in Nat, NEW y \in Nat, 1 .. x = 1 .. y, x < y
                 PROVE  FALSE
      OBVIOUS
    <2>1. y \in 1 .. y /\ y \notin 1 .. x
      OBVIOUS
    <2>. QED
      BY <2>1
  <1>. QED
    BY <1>1, <1>2, <1>3

-----------------------------------------------------------------------------
(* Sequences with an element more or less.                                 *)

\* d is c with e at position p; d is c without its element at position p.
Inserts(c, d, p, e) ==
  /\ Len(d) = Len(c) + 1
  /\ \A i \in 1 .. (Len(c) + 1) : d[i] = IF i < p THEN c[i] ELSE IF i = p THEN e ELSE c[i - 1]
Removes(c, d, p) ==
  /\ Len(d) = Len(c) - 1
  /\ \A i \in 1 .. (Len(c) - 1) : d[i] = IF i < p THEN c[i] ELSE c[i + 1]

LEMMA InsertedIs ==
  ASSUME NEW S, NEW s \in Seq(S), NEW e \in S, NEW p \in 1 .. (Len(s) + 1)
  PROVE  InsertAt(s, p, e) \in Seq(S) /\ Inserts(s, InsertAt(s, p, e), p, e)
  <1> DEFINE n == Len(s)
             a == SubSeq(s, 1, p - 1)
             b == <<e>>
             c == SubSeq(s, p, n)
             r == InsertAt(s, p, e)
  <1>1. n \in Nat /\ p \in 1 .. (n + 1) /\ \A i \in 1 .. n : s[i] \in S
    BY LenProperties, ElementOfSeq
  <1>2. a \in Seq(S) /\ Len(a) = p - 1 /\ \A i \in 1 .. (p - 1) : a[i] = s[i]
    <2>1. \A i \in 1 .. (p - 1) : s[i] \in S
      BY <1>1
    <2> HIDE DEF n
    <2>2. 1 \in Int /\ p - 1 \in Int
      BY <1>1
    <2>3. /\ a \in Seq(S) /\ Len(a) = IF 1 <= p - 1 THEN (p - 1) - 1 + 1 ELSE 0
          /\ \A i \in 1 .. ((p - 1) - 1 + 1) : a[i] = s[1 + i - 1]
      BY <2>1, <2>2, SubSeqProperties
    <2> HIDE DEF a
    <2>. QED
      BY <1>1, <2>3
  <1>3. b \in Seq(S) /\ Len(b) = 1 /\ b[1] = e
    OBVIOUS
  <1>4. c \in Seq(S) /\ Len(c) = n + 1 - p /\ \A i \in 1 .. (n + 1 - p) : c[i] = s[p + i - 1]
    <2>1. \A i \in p .. n : s[i] \in S
      BY <1>1
    <2>2. p \in Int /\ n \in Int
      BY <1>1
    <2> HIDE DEF n
    <2>3. /\ c \in Seq(S) /\ Len(c) = IF p <= n THEN n - p + 1 ELSE 0
          /\ \A i \in 1 .. (n - p + 1) : c[i] = s[p + i - 1]
      BY <2>1, <2>2, SubSeqProperties
    <2> HIDE DEF c
    <2>. QED
      BY <1>1, <2>3
  <1>5. r = (a \o b) \o c
    BY DEF InsertAt
  <1> HIDE DEF a, b, c, r, n
  <1>6. /\ a \o b \in Seq(S) /\ Len(a \o b) = p
        /\ \A i \in 1 .. p : (a \o b)[i] = IF i <= p - 1 THEN a[i] ELSE b[i - (p - 1)]
    <2>1. /\ a \o b \in Seq(S) /\ Len(a \o b) = Len(a) + Len(b)
          /\ \A i \in 1 .. (Len(a) + Len(b)) :
               (a \o b)[i] = IF i <= Len(a) THEN a[i] ELSE b[i - Len(a)]
      BY <1>2, <1>3, ConcatProperties
    <2>2. Len(a) + Len(b) = p
      BY <1>1, <1>2, <1>3
    <2>. QED
      BY <1>2, <2>1, <2>2
  <1>7. /\ r \in Seq(S) /\ Len(r) = n + 1
        /\ \A i \in 1 .. (n + 1) : r[i] = IF i <= p THEN (a \o b)[i] ELSE c[i - p]
    <2> DEFINE d == a \o b
    <2>1. /\ d \o c \in Seq(S) /\ Len(d \o c) = Len(d) + Len(c)
          /\ \A i \in 1 .. (Len(d) + Len(c)) :
               (d \o c)[i] = IF i <= Len(d) THEN d[i] ELSE c[i - Len(d)]
      <3>1. d \in Seq(S)
        BY <1>6
      <3> HIDE DEF d
      <3>. QED
        BY <1>4, <3>1, ConcatProperties
    <2>2. Len(d) = p
      BY <1>6
    <2> HIDE DEF d
    <2>3. Len(d) + Len(c) = n + 1
      BY <1>1, <1>4, <2>2
    <2>. QED
      BY <1>5, <2>1, <2>2, <2>3 DEF d
  <1>8. ASSUME NEW i \in 1 .. (n + 1)
        PROVE  r[i] = IF i < p THEN s[i] ELSE IF i = p THEN e ELSE s[i - 1]
    <2>1. CASE i < p
      <3>1. i \in 1 .. (p - 1) /\ i \in 1 .. p /\ i <= p /\ i <= p - 1
        BY <1>1, <2>1
      <3>. QED
        BY <1>2, <1>6, <1>7, <2>1, <3>1
    <2>2. CASE i = p
      <3>1. i \in 1 .. p /\ i <= p /\ ~(i <= p - 1) /\ i - (p - 1) = 1 /\ ~(i < p)
        BY <1>1, <2>2
      <3>. QED
        BY <1>3, <1>6, <1>7, <2>2, <3>1
    <2>3. CASE i > p
      <3>1. /\ ~(i <= p) /\ ~(i < p) /\ i # p /\ i - p \in 1 .. (n + 1 - p)
            /\ p + (i - p) - 1 = i - 1
        BY <1>1, <2>3
      <3>. QED
        BY <1>4, <1>7, <3>1
    <2>. QED
      BY <1>1, <2>1, <2>2, <2>3
  <1>. QED
    BY <1>7, <1>8 DEF r, n, Inserts

LEMMA RemovedIs ==
  ASSUME NEW S, NEW s \in Seq(S), NEW p \in 1 .. Len(s)
  PROVE  RemoveAt(s, p) \in Seq(S) /\ Removes(s, RemoveAt(s, p), p)
  <1> DEFINE n == Len(s)
             a == SubSeq(s, 1, p - 1)
             c == SubSeq(s, p + 1, n)
             r == RemoveAt(s, p)
  <1>1. n \in Nat /\ p \in 1 .. n /\ \A i \in 1 .. n : s[i] \in S
    BY LenProperties, ElementOfSeq
  <1>2. a \in Seq(S) /\ Len(a) = p - 1 /\ \A i \in 1 .. (p - 1) : a[i] = s[i]
    <2>1. \A i \in 1 .. (p - 1) : s[i] \in S
      BY <1>1
    <2> HIDE DEF n
    <2>2. 1 \in Int /\ p - 1 \in Int
      BY <1>1
    <2>3. /\ a \in Seq(S) /\ Len(a) = IF 1 <= p - 1 THEN (p - 1) - 1 + 1 ELSE 0
          /\ \A i \in 1 .. ((p - 1) - 1 + 1) : a[i] = s[1 + i - 1]
      BY <2>1, <2>2, SubSeqProperties
    <2> HIDE DEF a
    <2>. QED
      BY <1>1, <2>3
  <1>3. c \in Seq(S) /\ Len(c) = n - p /\ \A i \in 1 .. (n - p) : c[i] = s[p + i]
    <2>1. \A i \in (p + 1) .. n : s[i] \in S
      BY <1>1
    <2>2. p + 1 \in Int /\ n \in Int
      BY <1>1
    <2> HIDE DEF n
    <2>3. /\ c \in Seq(S) /\ Len(c) = IF p + 1 <= n THEN n - (p + 1) + 1 ELSE 0
          /\ \A i \in 1 .. (n - (p + 1) + 1) : c[i] = s[(p + 1) + i - 1]
      BY <2>1, <2>2, SubSeqProperties
    <2> HIDE DEF c
    <2>. QED
      BY <1>1, <2>3
  <1>4. r = a \o c
    BY DEF RemoveAt
  <1> HIDE DEF a, c, r, n
  <1>5. /\ r \in Seq(S) /\ Len(r) = n - 1
        /\ \A i \in 1 .. (n - 1) : r[i] = IF i <= p - 1 THEN a[i] ELSE c[i - (p - 1)]
    <2>1. /\ a \o c \in Seq(S) /\ Len(a \o c) = Len(a) + Len(c)
          /\ \A i \in 1 .. (Len(a) + Len(c)) :
               (a \o c)[i] = IF i <= Len(a) THEN a[i] ELSE c[i - Len(a)]
      BY <1>2, <1>3, ConcatProperties
    <2>2. Len(a) + Len(c) = n - 1
      BY <1>1, <1>2, <1>3
    <2>. QED
      BY <1>2, <1>4, <2>1, <2>2
  <1>6. ASSUME NEW i \in 1 .. (n - 1)
        PROVE  r[i] = IF i < p THEN s[i] ELSE s[i + 1]
    <2>1. CASE i < p
      <3>1. i \in 1 .. (p - 1) /\ i <= p - 1
        BY <1>1, <2>1
      <3>. QED
        BY <1>2, <1>5, <2>1, <3>1
    <2>2. CASE ~(i < p)
      <3>1. ~(i <= p - 1) /\ i - (p - 1) \in 1 .. (n - p) /\ p + (i - (p - 1)) = i + 1
        BY <1>1, <2>2
      <3>. QED
        BY <1>3, <1>5, <2>2, <3>1
    <2>. QED
      BY <2>1, <2>2
  <1>. QED
    BY <1>5, <1>6 DEF r, n, Removes

\* A sequence is known by its elements.
LEMMA SameSequence ==
  ASSUME NEW S, NEW s \in Seq(S), NEW T, NEW t \in Seq(T), Len(s) = Len(t),
         \A i \in 1 .. Len(s) : s[i] = t[i]
  PROVE  s = t
  <1>1. DOMAIN s = 1 .. Len(s) /\ DOMAIN t = 1 .. Len(t)
    BY LenProperties
  <1>2. s = [i \in 1 .. Len(s) |-> s[i]] /\ t = [i \in 1 .. Len(t) |-> t[i]]
    BY <1>1, LenProperties
  <1>. QED
    BY <1>2

-----------------------------------------------------------------------------
(* Concatenations.                                                         *)

\* f[k] is the concatenation of the first k sequences of ss.
Joins(S, ss, f) ==
  /\ f \in [0 .. Len(ss) -> Seq(S)]
  /\ f[0] = <<>>
  /\ \A k \in 1 .. Len(ss) : f[k] = f[k-1] \o ss[k]

LEMMA FlattenJoins ==
  ASSUME NEW S, NEW ss \in Seq(Seq(S))
  PROVE  \E f : Joins(S, ss, f) /\ FlattenSeq(ss) = f[Len(ss)]
  <1> DEFINE n == Len(ss)
             F == [k \in 1 .. n |-> [x \in Seq(S) |-> x \o ss[k]]]
             Flat(g) == g = [i \in 1 .. n |-> IF i = 1 THEN ss[i] ELSE g[i-1] \o ss[i]]
             h == CHOOSE g : Flat(g)
  <1>1. n \in Nat /\ \A k \in 1 .. n : ss[k] \in Seq(S)
    BY LenProperties, ElementOfSeq
  <1>2. \A k \in 1 .. n : \A x \in Seq(S) : F[k][x] = x \o ss[k] /\ x \o ss[k] \in Seq(S)
    BY <1>1, ConcatProperties
  <1>3. <<>> \in Seq(S)
    BY EmptySeq
  <1>4. PICK f \in [0 .. n -> Seq(S)] : Runs(F, <<>>, n, f)
    <2>1. \A k \in 1 .. n : \A x \in Seq(S) : F[k][x] \in Seq(S)
      BY <1>2
    <2> HIDE DEF F, n
    <2>. QED
      BY <1>1, <1>3, <2>1, RunExists
  <1>5. f[0] = <<>> /\ \A k \in 1 .. n : f[k] = F[k][f[k-1]]
    <2>1. \A k \in 0 .. n : f[k] = IF k = 0 THEN <<>> ELSE F[k][f[k-1]]
      <3> HIDE DEF F, n
      <3>. QED
        BY <1>4 DEF Runs
    <2>2. 0 \in 0 .. n /\ \A k \in 1 .. n : k \in 0 .. n /\ k # 0
      BY <1>1
    <2> HIDE DEF F, n
    <2>. QED
      BY <2>1, <2>2
  <1>6. \A k \in 1 .. n : k - 1 \in 0 .. n
    BY <1>1
  <1>7. \A k \in 1 .. n : f[k] = f[k-1] \o ss[k] /\ f[k-1] \in Seq(S)
    <2> HIDE DEF F, n
    <2>. QED
      BY <1>2, <1>5, <1>6
  <1>8. Joins(S, ss, f)
    BY <1>5, <1>7 DEF Joins
  <1>9. CASE n = 0
    <2>1. ss = <<>>
      BY <1>9, EmptySeq
    <2>2. FlattenSeq(ss) = ss
      BY <1>9 DEF FlattenSeq
    <2>. QED
      BY <1>5, <1>8, <1>9, <2>1, <2>2
  <1>10. CASE n # 0
    <2>1. FlattenSeq(ss) = h[n]
      BY <1>10 DEF FlattenSeq
    <2>2. f[1] = ss[1]
      <3>1. 1 \in 1 .. n /\ 1 - 1 = 0
        BY <1>1, <1>10
      <3>2. ss[1] \in Seq(S)
        BY <1>1, <3>1
      <3>3. f[1] = f[0] \o ss[1]
        BY <1>7, <3>1
      <3>4. f[1] = <<>> \o ss[1]
        BY <1>5, <3>3
      <3>. QED
        BY <3>2, <3>4, ConcatEmptySeq
    <2>3. \E g : Flat(g)
      <3> DEFINE g == [i \in 1 .. n |-> f[i]]
      <3>1. \A i \in 1 .. n : g[i] = IF i = 1 THEN ss[i] ELSE g[i-1] \o ss[i]
        <4> SUFFICES ASSUME NEW i \in 1 .. n, i # 1
                     PROVE  g[i] = g[i-1] \o ss[i]
          BY <2>2
        <4>1. i - 1 \in 1 .. n
          BY <1>1
        <4>. QED
          BY <1>7, <4>1
      <3>2. g = [i \in 1 .. n |-> g[i]]
        OBVIOUS
      <3> HIDE DEF g
      <3>3. Flat(g)
        BY <3>1, <3>2
      <3>. QED
        BY <3>3
    <2>4. Flat(h)
      <3> HIDE DEF Flat
      <3>. QED
        BY <2>3
    <2>5. \A i \in 1 .. n : h[i] = IF i = 1 THEN ss[i] ELSE h[i-1] \o ss[i]
      <3> HIDE DEF h
      <3>. QED
        BY <2>4
    <2> HIDE DEF h, Flat, F
    <2> DEFINE Good == {0} \cup {i \in 1 .. n : h[i] = f[i]}
    <2>6. ASSUME NEW i \in 0 .. (n - 1), i \in Good
          PROVE  i + 1 \in Good
      <3>1. i + 1 \in 1 .. n /\ (i + 1) - 1 = i
        BY <1>1
      <3>2. CASE i = 0
        <4>1. h[1] = f[1]
          BY <2>2, <2>5, <3>1, <3>2
        <4>. QED
          BY <3>1, <3>2, <4>1
      <3>3. CASE i # 0
        <4>1. h[i] = f[i] /\ i + 1 # 1
          BY <2>6, <3>3
        <4>2. f[i + 1] = f[i] \o ss[i + 1]
          BY <1>7, <3>1
        <4>3. h[i + 1] = h[i] \o ss[i + 1]
          BY <2>5, <3>1, <4>1
        <4>. QED
          BY <3>1, <4>1, <4>2, <4>3
      <3>. QED
        BY <3>2, <3>3
    <2>7. n \in Good
      <3>1. 0 \in Good /\ n \in 0 .. n
        BY <1>1
      <3> HIDE DEF Good, n
      <3>. QED
        BY <1>1, <2>6, <3>1, ReachesAll
    <2>8. h[n] = f[n]
      BY <1>10, <2>7
    <2>. QED
      BY <1>8, <2>1, <2>8
  <1>. QED
    BY <1>9, <1>10

LEMMA JoinsUnique ==
  ASSUME NEW S, NEW ss, Len(ss) \in Nat, NEW f, Joins(S, ss, f), NEW g, Joins(S, ss, g)
  PROVE  f[Len(ss)] = g[Len(ss)]
  <1> DEFINE n == Len(ss)
             Good == {k \in 0 .. n : f[k] = g[k]}
  <1>1. 0 \in Good
    BY DEF Joins
  <1>2. ASSUME NEW k \in 0 .. (n - 1), k \in Good
        PROVE  k + 1 \in Good
    <2>1. k + 1 \in 1 .. n /\ k + 1 \in 0 .. n /\ (k + 1) - 1 = k
      OBVIOUS
    <2>. QED
      BY <1>2, <2>1 DEF Joins
  <1>3. n \in Good
    <2>1. n \in 0 .. n /\ n \in Nat
      OBVIOUS
    <2> HIDE DEF Good, n
    <2>. QED
      BY <1>1, <1>2, <2>1, ReachesAll
  <1>. QED
    BY <1>3

\* What is in a concatenation.
LEMMA JoinedSet ==
  ASSUME NEW S, NEW s \in Seq(S), NEW t \in Seq(S)
  PROVE  /\ s \o t \in Seq(S)
         /\ \A x : x \in ToSet(s \o t) <=> x \in ToSet(s) \/ x \in ToSet(t)
  <1> DEFINE m == Len(s)
             n == Len(t)
             u == s \o t
  <1>1. /\ m \in Nat /\ n \in Nat /\ u \in Seq(S) /\ Len(u) = m + n
        /\ DOMAIN s = 1 .. m /\ DOMAIN t = 1 .. n /\ DOMAIN u = 1 .. (m + n)
    BY LenProperties, ConcatProperties
  <1>2. \A i \in 1 .. (m + n) : u[i] = IF i <= m THEN s[i] ELSE t[i - m]
    BY ConcatProperties
  <1>3. \A i \in 1 .. m : i \in 1 .. (m + n) /\ i <= m
    BY <1>1
  <1>4. \A j \in 1 .. n : m + j \in 1 .. (m + n) /\ ~(m + j <= m) /\ (m + j) - m = j
    BY <1>1
  <1>5. \A i \in 1 .. (m + n) : ~(i <= m) => i - m \in 1 .. n
    BY <1>1
  <1>6. \A i \in 1 .. (m + n) : i <= m => i \in 1 .. m
    BY <1>1
  <1> HIDE DEF m, n, u
  <1>7. ASSUME NEW x, x \in ToSet(u)
        PROVE  x \in ToSet(s) \/ x \in ToSet(t)
    <2>1. PICK i \in 1 .. (m + n) : x = u[i]
      BY <1>1, <1>7 DEF ToSet
    <2>. QED
      BY <1>1, <1>2, <1>5, <1>6, <2>1 DEF ToSet
  <1>8. ASSUME NEW x, x \in ToSet(s)
        PROVE  x \in ToSet(u)
    <2>1. PICK i \in 1 .. m : x = s[i]
      BY <1>1, <1>8 DEF ToSet
    <2>. QED
      BY <1>1, <1>2, <1>3, <2>1 DEF ToSet
  <1>9. ASSUME NEW x, x \in ToSet(t)
        PROVE  x \in ToSet(u)
    <2>1. PICK j \in 1 .. n : x = t[j]
      BY <1>1, <1>9 DEF ToSet
    <2>. QED
      BY <1>1, <1>2, <1>4, <2>1 DEF ToSet
  <1>. QED
    BY <1>1, <1>7, <1>8, <1>9 DEF u

LEMMA FlattenHas ==
  ASSUME NEW S, NEW ss \in Seq(Seq(S))
  PROVE  /\ FlattenSeq(ss) \in Seq(S)
         /\ \A x : x \in ToSet(FlattenSeq(ss)) <=> \E k \in 1 .. Len(ss) : x \in ToSet(ss[k])
  <1> DEFINE n == Len(ss)
  <1>1. n \in Nat /\ \A k \in 1 .. n : ss[k] \in Seq(S)
    BY LenProperties, ElementOfSeq
  <1>2. PICK f : Joins(S, ss, f) /\ FlattenSeq(ss) = f[n]
    BY FlattenJoins
  <1>3. f \in [0 .. n -> Seq(S)] /\ f[0] = <<>> /\ \A k \in 1 .. n : f[k] = f[k-1] \o ss[k]
    BY <1>2 DEF Joins
  <1> DEFINE Good == {k \in 0 .. n : \A x : x \in ToSet(f[k]) <=> \E j \in 1 .. k : x \in ToSet(ss[j])}
  <1>4. 0 \in Good
    BY <1>1, <1>3 DEF ToSet
  <1>5. ASSUME NEW k \in 0 .. (n - 1), k \in Good
        PROVE  k + 1 \in Good
    <2>1. k + 1 \in 1 .. n /\ k + 1 \in 0 .. n /\ k \in 0 .. n /\ (k + 1) - 1 = k
      BY <1>1
    <2>2. f[k + 1] = f[k] \o ss[k + 1] /\ f[k] \in Seq(S) /\ ss[k + 1] \in Seq(S)
      BY <1>1, <1>3, <2>1
    <2>3. \A x : x \in ToSet(f[k + 1]) <=> x \in ToSet(f[k]) \/ x \in ToSet(ss[k + 1])
      BY <2>2, JoinedSet
    <2>4. \A j \in 1 .. (k + 1) : j \in 1 .. k \/ j = k + 1
      OBVIOUS
    <2>5. k + 1 \in 1 .. (k + 1) /\ \A j \in 1 .. k : j \in 1 .. (k + 1)
      OBVIOUS
    <2>6. \A x : x \in ToSet(f[k]) <=> \E j \in 1 .. k : x \in ToSet(ss[j])
      BY <1>5
    <2>7. \A x : x \in ToSet(f[k + 1]) <=> \E j \in 1 .. (k + 1) : x \in ToSet(ss[j])
      BY <2>3, <2>4, <2>5, <2>6
    <2>. QED
      BY <2>1, <2>7
  <1>6. n \in Good
    <2>1. n \in 0 .. n
      BY <1>1
    <2> HIDE DEF Good, n
    <2>. QED
      BY <1>1, <1>4, <1>5, <2>1, ReachesAll
  <1>7. f[n] \in Seq(S)
    BY <1>1, <1>3
  <1>8. \A x : x \in ToSet(f[n]) <=> \E j \in 1 .. n : x \in ToSet(ss[j])
    BY <1>6
  <1>9. \A x : x \in ToSet(FlattenSeq(ss)) <=> \E k \in 1 .. Len(ss) : x \in ToSet(ss[k])
    <2> HIDE DEF Good
    <2>. QED
      BY <1>2, <1>8
  <1>10. FlattenSeq(ss) \in Seq(S)
    BY <1>2, <1>7
  <1>. QED
    BY <1>9, <1>10

Lengths(ss) == [k \in 1 .. Len(ss) |-> Len(ss[k])]

LEMMA FlattenLength ==
  ASSUME NEW S, NEW ss \in Seq(Seq(S))
  PROVE  /\ \A k \in 1 .. Len(ss) : Lengths(ss)[k] = Len(ss[k]) /\ Len(ss[k]) \in Nat
         /\ Len(FlattenSeq(ss)) = SumFunctionOnSet(Lengths(ss), 1 .. Len(ss))
  <1> DEFINE n == Len(ss)
             L == Lengths(ss)
  <1>1. n \in Nat /\ \A k \in 1 .. n : ss[k] \in Seq(S)
    BY LenProperties, ElementOfSeq
  <1>2. \A k \in 1 .. n : L[k] = Len(ss[k]) /\ Len(ss[k]) \in Nat
    BY <1>1, LenProperties DEF Lengths
  <1>3. PICK f : Joins(S, ss, f) /\ FlattenSeq(ss) = f[n]
    BY FlattenJoins
  <1>4. f \in [0 .. n -> Seq(S)] /\ f[0] = <<>> /\ \A k \in 1 .. n : f[k] = f[k-1] \o ss[k]
    BY <1>3 DEF Joins
  <1> HIDE DEF n, L
  <1> DEFINE Good == {k \in 0 .. n : Len(f[k]) = SumFunctionOnSet(L, 1 .. k)}
  <1>5. 0 \in Good
    <2>1. 1 .. 0 = {} /\ Len(<<>>) = 0 /\ 0 \in 0 .. n
      BY <1>1
    <2>. QED
      BY <1>4, <2>1, SumEmpty
  <1>6. ASSUME NEW k \in 0 .. (n - 1), k \in Good
        PROVE  k + 1 \in Good
    <2>1. k + 1 \in 1 .. n /\ k + 1 \in 0 .. n /\ k \in 0 .. n /\ (k + 1) - 1 = k
      BY <1>1
    <2>2. f[k + 1] = f[k] \o ss[k + 1] /\ f[k] \in Seq(S) /\ ss[k + 1] \in Seq(S)
      BY <1>1, <1>4, <2>1
    <2>3. Len(f[k + 1]) = Len(f[k]) + Len(ss[k + 1]) /\ Len(f[k]) \in Nat
      BY <2>2, ConcatProperties, LenProperties
    <2>4. SumFunctionOnSet(L, 1 .. (k + 1)) = L[k + 1] + SumFunctionOnSet(L, 1 .. k)
      <3>1. 1 .. (k + 1) = (1 .. k) \cup {k + 1} /\ k + 1 \notin 1 .. k
        OBVIOUS
      <3>2. IsFiniteSet(1 .. k)
        BY <2>1, FS_Interval
      <3>3. \A j \in (1 .. k) \cup {k + 1} : L[j] \in Int
        <4>1. \A j \in 1 .. (k + 1) : j \in 1 .. n
          BY <1>1, <2>1
        <4>. QED
          BY <1>2, <3>1, <4>1
      <3>. QED
        BY <3>1, <3>2, <3>3, SumAdd
    <2>5. Len(f[k]) = SumFunctionOnSet(L, 1 .. k) /\ L[k + 1] = Len(ss[k + 1])
      BY <1>2, <1>6, <2>1
    <2>6. Len(f[k + 1]) = SumFunctionOnSet(L, 1 .. (k + 1))
      BY <1>2, <2>1, <2>3, <2>4, <2>5
    <2>. QED
      BY <2>1, <2>6
  <1>7. n \in Good
    <2>1. n \in 0 .. n
      BY <1>1
    <2> HIDE DEF Good
    <2>. QED
      BY <1>1, <1>5, <1>6, <2>1, ReachesAll
  <1>8. Len(FlattenSeq(ss)) = SumFunctionOnSet(L, 1 .. n)
    BY <1>3, <1>7
  <1>. QED
    BY <1>2, <1>8 DEF n, L

=============================================================================
