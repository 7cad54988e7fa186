------------------------- MODULE AutoBlacklistProofs -------------------------
(* Proofs about the access counters, for any addresses, buckets, entries and number of slots.  *)
EXTENDS AutoBlacklist, FiniteSetTheorems, SequenceTheorems, WellFoundedInduction, TLAPS

-----------------------------------------------------------------------------
(* Induction, without operators as parameters: G is the set of those that are good.            *)

LEMMA Least ==
    ASSUME NEW S \in SUBSET Nat, S # {}
    PROVE  \E x \in S : \A y \in S : x <= y
<1>1. PICK R : R = OpToRel(<, Nat)
  OBVIOUS
<1>2. \A x, y \in Nat : <<x, y>> \in R <=> x < y
  BY <1>1 DEF OpToRel
<1>3. IsWellFoundedOn(R, Nat)
  BY <1>1, NatLessThanWellFounded
<1>4. PICK x \in S : \A y \in S : ~ (<<y, x>> \in R)
  BY <1>3, WFMin, Zenon
<1>5. \A y \in S : ~(y < x)
  BY <1>2, <1>4
<1> QED
  BY <1>5

LEMMA NatSet ==
    ASSUME NEW G \in SUBSET Nat, 0 \in G, \A n \in G : n + 1 \in G
    PROVE  \A n \in Nat : n \in G
<1> SUFFICES ASSUME Nat \ G # {} PROVE FALSE
  OBVIOUS
<1>1. PICK m \in Nat \ G : \A n \in Nat \ G : m <= n
  BY Least
<1>2. m - 1 \in Nat /\ m - 1 \in G
  BY <1>1
<1> QED
  BY <1>1, <1>2

\* Induction over the subsets of a finite set: from the sets with one element less.
LEMMA SubsetInduction ==
    ASSUME NEW S, IsFiniteSet(S), NEW G \in SUBSET (SUBSET S), {} \in G,
           \A T \in SUBSET S : T # {} /\ (\A x \in T : T \ {x} \in G) => T \in G
    PROVE  \A T \in SUBSET S : T \in G
<1> DEFINE H == {n \in Nat : \A T \in SUBSET S : Cardinality(T) = n => T \in G}
<1>1. \A T \in SUBSET S : IsFiniteSet(T) /\ Cardinality(T) \in Nat
  BY FS_Subset, FS_CardinalityType
<1>2. 0 \in H
  BY <1>1, FS_EmptySet
<1>3. ASSUME NEW n \in H PROVE n + 1 \in H
  <2> SUFFICES ASSUME NEW T \in SUBSET S, Cardinality(T) = n + 1 PROVE T \in G
    OBVIOUS
  <2>1. n \in Nat /\ IsFiniteSet(T)
    BY <1>1
  <2>2. T # {}
    BY <2>1, FS_EmptySet
  <2>3. ASSUME NEW x \in T PROVE Cardinality(T \ {x}) = n
    <3>1. Cardinality(T \ {x}) = Cardinality(T) - 1
      BY <2>1, FS_RemoveElement
    <3> QED
      BY <2>1, <3>1
  <2>4. \A x \in T : T \ {x} \in G
    BY <2>3
  <2> QED
    BY <2>2, <2>4
<1>4. \A n \in Nat : n \in H
  <2> HIDE DEF H
  <2>1. H \in SUBSET Nat
    BY DEF H
  <2> QED
    BY <1>2, <1>3, <2>1, NatSet
<1> QED
  BY <1>1, <1>4

Element(s) == CHOOSE x \in s : TRUE
\* g is the function that the definition of SumFunctionOnSet(f, S) stands for.
Sums(f, S, g) ==
    g = [s \in SUBSET S |-> IF s = {} THEN 0 ELSE f[Element(s)] + g[s \ {Element(s)}]]

LEMMA ElementIn == \A s : s # {} => Element(s) \in s
BY DEF Element

LEMMA SumIs ==
    ASSUME NEW f, NEW S, \E g : Sums(f, S, g)
    PROVE  \E g : Sums(f, S, g) /\ SumFunctionOnSet(f, S) = g[S]
BY DEF SumFunctionOnSet, FoldFunctionOnSet, MapThenFoldSet, Sums, Element

LEMMA SumExists ==
    ASSUME NEW f, NEW S, IsFiniteSet(S)
    PROVE  \E g : Sums(f, S, g)
<1> DEFINE E(g, s) == IF s = {} THEN 0 ELSE f[Element(s)] + g[s \ {Element(s)}]
           H == {n \in Nat : \E g : \A s \in SUBSET S : Cardinality(s) <= n => g[s] = E(g, s)}
<1>1. \A T \in SUBSET S : IsFiniteSet(T) /\ Cardinality(T) \in Nat
  BY FS_Subset, FS_CardinalityType
<1>2. \A s \in SUBSET S : s # {} => /\ s \ {Element(s)} \in SUBSET S
                                    /\ Cardinality(s \ {Element(s)}) = Cardinality(s) - 1
  BY <1>1, ElementIn, FS_RemoveElement
<1>3. 0 \in H
  <2> DEFINE g == [s \in SUBSET S |-> 0]
  <2>1. \A s \in SUBSET S : Cardinality(s) <= 0 => s = {}
    BY <1>1, FS_EmptySet
  <2>2. \A s \in SUBSET S : Cardinality(s) <= 0 => g[s] = E(g, s)
    BY <2>1
  <2> QED
    BY <2>2
<1>4. \A n \in H : n + 1 \in H
  <2> SUFFICES ASSUME NEW n \in H PROVE n + 1 \in H
    OBVIOUS
  <2>1. PICK g : \A s \in SUBSET S : Cardinality(s) <= n => g[s] = E(g, s)
    OBVIOUS
  <2> DEFINE h == [s \in SUBSET S |-> IF Cardinality(s) <= n THEN g[s] ELSE E(g, s)]
  <2>2. \A s \in SUBSET S : h[s] = E(g, s)
    BY <2>1
  <2>3. \A s \in SUBSET S : s # {} /\ Cardinality(s) <= n + 1 =>
            h[s \ {Element(s)}] = g[s \ {Element(s)}]
    BY <1>1, <1>2
  <2>4. \A s \in SUBSET S : Cardinality(s) <= n + 1 => h[s] = E(h, s)
    <3> HIDE DEF h
    <3> QED
      BY <2>2, <2>3
  <2> HIDE DEF h
  <2> QED
    BY <2>4, SMTT(30)
<1>5. Cardinality(S) \in H
  <2> HIDE DEF H
  <2> QED
    BY <1>1, <1>3, <1>4, NatSet DEF H
<1>6. PICK g : \A s \in SUBSET S : Cardinality(s) <= Cardinality(S) => g[s] = E(g, s)
  BY <1>5
<1>7. \A s \in SUBSET S : g[s] = E(g, s)
  BY <1>6, FS_Subset
<1> DEFINE h == [s \in SUBSET S |-> g[s]]
<1>8. \A s \in SUBSET S : h[s] = E(h, s)
  BY <1>7, <1>2
<1>9. h = [s \in SUBSET S |-> E(h, s)]
  BY <1>8
<1>10. Sums(f, S, h)
  BY <1>9 DEF Sums
<1> QED
  BY <1>10

\* Two such functions agree where both are defined.
LEMMA SumsAgree ==
    ASSUME NEW f, NEW S, NEW T \in SUBSET S, IsFiniteSet(S), NEW g, NEW h,
           Sums(f, S, g), Sums(f, T, h)
    PROVE  g[T] = h[T]
<1> DEFINE G == {s \in SUBSET T : g[s] = h[s]}
<1>1. {} \in G
  BY DEF Sums
<1>2. ASSUME NEW s \in SUBSET T, s # {}, \A x \in s : s \ {x} \in G PROVE s \in G
  <2>1. g[s \ {Element(s)}] = h[s \ {Element(s)}]
    BY <1>2, ElementIn
  <2>2. g[s] = f[Element(s)] + g[s \ {Element(s)}] /\ h[s] = f[Element(s)] + h[s \ {Element(s)}]
    BY <1>2 DEF Sums
  <2> QED
    BY <2>1, <2>2
<1>3. T \in G
  <2> HIDE DEF G
  <2>1. IsFiniteSet(T) /\ G \in SUBSET (SUBSET T)
    BY FS_Subset DEF G
  <2> QED
    BY <1>1, <1>2, <2>1, SubsetInduction
<1> QED
  BY <1>3

LEMMA SumEmpty == \A f : SumFunctionOnSet(f, {}) = 0
<1> SUFFICES ASSUME NEW f PROVE SumFunctionOnSet(f, {}) = 0
  OBVIOUS
<1>1. PICK g : Sums(f, {}, g) /\ SumFunctionOnSet(f, {}) = g[{}]
  BY SumExists, SumIs, FS_EmptySet
<1> QED
  BY <1>1 DEF Sums

LEMMA SumElement ==
    ASSUME NEW f, NEW S, IsFiniteSet(S), S # {}
    PROVE  SumFunctionOnSet(f, S) = f[Element(S)] + SumFunctionOnSet(f, S \ {Element(S)})
<1> DEFINE T == S \ {Element(S)}
<1>1. PICK g : Sums(f, S, g) /\ SumFunctionOnSet(f, S) = g[S]
  BY SumExists, SumIs
<1>2. IsFiniteSet(T) /\ T \in SUBSET S
  BY FS_Subset
<1>3. PICK h : Sums(f, T, h) /\ SumFunctionOnSet(f, T) = h[T]
  BY <1>2, SumExists, SumIs
<1>4. g[T] = h[T]
  <2> HIDE DEF T
  <2> QED
    BY <1>1, <1>2, <1>3, SumsAgree
<1>5. g[S] = f[Element(S)] + g[T]
  BY <1>1 DEF Sums
<1> QED
  BY <1>1, <1>3, <1>4, <1>5

\* The sum of integers is one, and any of them can be taken out of it.
LEMMA SumAny ==
    ASSUME NEW f, NEW S, IsFiniteSet(S), \A x \in S : f[x] \in Int
    PROVE  /\ SumFunctionOnSet(f, S) \in Int
           /\ \A x \in S : SumFunctionOnSet(f, S) = f[x] + SumFunctionOnSet(f, S \ {x})
<1> DEFINE Sum(T) == SumFunctionOnSet(f, T)
           I == {T \in SUBSET S : Sum(T) \in Int}
           G == {T \in SUBSET S : \A x \in T : Sum(T) = f[x] + Sum(T \ {x})}
<1>1. ASSUME NEW T \in SUBSET S, T # {}
      PROVE  Element(T) \in T /\ Sum(T) = f[Element(T)] + Sum(T \ {Element(T)})
  BY <1>1, FS_Subset, ElementIn, SumElement
<1>2. \A T \in SUBSET S : T \in I
  <2>1. {} \in I
    BY SumEmpty
  <2>2. ASSUME NEW T \in SUBSET S, T # {}, \A x \in T : T \ {x} \in I PROVE T \in I
    <3>1. Element(T) \in T /\ Sum(T) = f[Element(T)] + Sum(T \ {Element(T)})
      BY <1>1, <2>2
    <3>2. f[Element(T)] \in Int /\ Sum(T \ {Element(T)}) \in Int
      BY <3>1, <2>2
    <3>3. Sum(T) \in Int
      BY <3>1, <3>2
    <3> QED
      BY <3>3
  <2>3. I \in SUBSET (SUBSET S)
    OBVIOUS
  <2> HIDE DEF I
  <2> QED
    BY <2>1, <2>2, <2>3, SubsetInduction
<1>3. \A T \in SUBSET S : T \in G
  <2>1. {} \in G
    OBVIOUS
  <2>2. ASSUME NEW T \in SUBSET S, T # {}, \A x \in T : T \ {x} \in G, NEW x \in T
        PROVE  Sum(T) = f[x] + Sum(T \ {x})
    <3> DEFINE y == Element(T)
    <3>1. CASE x = y
      BY <1>1, <2>2, <3>1
    <3>2. CASE x # y
      <4>1. y \in T /\ Sum(T) = f[y] + Sum(T \ {y})
        BY <1>1, <2>2
      <4>2. Sum(T \ {y}) = f[x] + Sum((T \ {y}) \ {x})
        BY <4>1, <2>2, <3>2
      <4>3. Sum(T \ {x}) = f[y] + Sum((T \ {x}) \ {y})
        BY <4>1, <2>2, <3>2
      <4>4. (T \ {x}) \ {y} = (T \ {y}) \ {x}
        OBVIOUS
      <4>5. Sum((T \ {y}) \ {x}) \in Int /\ f[x] \in Int /\ f[y] \in Int
        BY <1>2, <4>1
      <4> DEFINE rest == Sum((T \ {y}) \ {x})
      <4>6. Sum(T) = f[y] + (f[x] + rest) /\ Sum(T \ {x}) = f[y] + rest
        BY <4>1, <4>2, <4>3, <4>4
      <4>7. rest \in Int /\ f[x] \in Int /\ f[y] \in Int
        BY <4>5
      <4> HIDE DEF rest, y
      <4> QED
        BY <4>6, <4>7
    <3> QED
      BY <3>1, <3>2
  <2>3. G \in SUBSET (SUBSET S)
    OBVIOUS
  <2>4. ASSUME NEW T \in SUBSET S, T # {}, \A x \in T : T \ {x} \in G PROVE T \in G
    BY <2>2, <2>4
  <2> HIDE DEF G
  <2> QED
    BY <2>1, <2>3, <2>4, SubsetInduction
<1> QED
  BY <1>2, <1>3

\* Two sums with the same terms.
LEMMA SumSame ==
    ASSUME NEW f, NEW g, NEW S, IsFiniteSet(S),
           \A x \in S : f[x] \in Int /\ g[x] = f[x]
    PROVE  SumFunctionOnSet(f, S) = SumFunctionOnSet(g, S)
<1> DEFINE G == {T \in SUBSET S : SumFunctionOnSet(f, T) = SumFunctionOnSet(g, T)}
<1>1. {} \in G
  BY SumEmpty
<1>2. ASSUME NEW T \in SUBSET S, T # {}, \A x \in T : T \ {x} \in G PROVE T \in G
  <2>1. Element(T) \in T /\ IsFiniteSet(T)
    BY <1>2, ElementIn, FS_Subset
  <2> QED
    <3>1. /\ SumFunctionOnSet(f, T) = f[Element(T)] + SumFunctionOnSet(f, T \ {Element(T)})
          /\ SumFunctionOnSet(g, T) = g[Element(T)] + SumFunctionOnSet(g, T \ {Element(T)})
      BY <1>2, <2>1, SumElement
    <3>2. T \ {Element(T)} \in G /\ f[Element(T)] = g[Element(T)]
      BY <1>2, <2>1
    <3> QED
      BY <3>1, <3>2
<1>3. G \in SUBSET (SUBSET S)
  OBVIOUS
<1>4. S \in G
  <2> HIDE DEF G
  <2> QED
    BY <1>1, <1>2, <1>3, SubsetInduction
<1> QED
  BY <1>4

\* The sum over a set of places is that of the places that moved there.
LEMMA SumMoved ==
    ASSUME NEW f, NEW S, IsFiniteSet(S), NEW g, NEW M, NEW b \in [S -> M],
           \A x \in S : f[x] \in Int /\ g[b[x]] = f[x],
           \A x, y \in S : b[x] = b[y] => x = y,
           \A y \in M : \E x \in S : b[x] = y
    PROVE  SumFunctionOnSet(f, S) = SumFunctionOnSet(g, M)
<1> DEFINE Img(T) == {b[x] : x \in T}
           G == {T \in SUBSET S : SumFunctionOnSet(f, T) = SumFunctionOnSet(g, Img(T))}
<1>1. {} \in G
  <2>1. Img({}) = {}
    OBVIOUS
  <2> QED
    BY <2>1, SumEmpty
<1>2. ASSUME NEW T \in SUBSET S, T # {}, \A x \in T : T \ {x} \in G PROVE T \in G
  <2>1. PICK x \in T : TRUE
    BY <1>2
  <2>2. IsFiniteSet(T) /\ IsFiniteSet(Img(T))
    <3>1. IsFiniteSet(T)
      BY FS_Subset
    <3> DEFINE F == [x1 \in T |-> b[x1]]
    <3>2. F \in Surjection(T, Img(T))
      BY DEF Surjection
    <3> QED
      BY <3>1, <3>2, FS_Surjection, Zenon
  <2>3. Img(T \ {x}) = Img(T) \ {b[x]} /\ b[x] \in Img(T)
    OBVIOUS
  <2>4. SumFunctionOnSet(f, T) = f[x] + SumFunctionOnSet(f, T \ {x})
    BY <2>2, SumAny
  <2>5. \A y \in Img(T) : g[y] \in Int
    OBVIOUS
  <2>6. SumFunctionOnSet(g, Img(T)) = g[b[x]] + SumFunctionOnSet(g, Img(T) \ {b[x]})
    <3> HIDE DEF Img, G
    <3> QED
      BY <2>2, <2>3, <2>5, SumAny
  <2>7. SumFunctionOnSet(f, T \ {x}) = SumFunctionOnSet(g, Img(T \ {x}))
    BY <1>2
  <2> QED
    BY <2>3, <2>4, <2>6, <2>7
<1>3. G \in SUBSET (SUBSET S)
  OBVIOUS
<1>4. S \in G
  <2> HIDE DEF G
  <2> QED
    BY <1>1, <1>2, <1>3, SubsetInduction
<1>5. Img(S) = M
  OBVIOUS
<1> QED
  BY <1>4, <1>5

\* A sum of numbers is one, and 0 only if all of them are.
LEMMA SumNat ==
    ASSUME NEW f, NEW S, IsFiniteSet(S), \A x \in S : f[x] \in Nat
    PROVE  /\ SumFunctionOnSet(f, S) \in Nat
           /\ SumFunctionOnSet(f, S) = 0 <=> \A x \in S : f[x] = 0
<1> DEFINE G == {T \in SUBSET S : /\ SumFunctionOnSet(f, T) \in Nat
                                  /\ SumFunctionOnSet(f, T) = 0 <=> \A x \in T : f[x] = 0}
<1>1. {} \in G
  BY SumEmpty
<1>2. ASSUME NEW T \in SUBSET S, T # {}, \A x \in T : T \ {x} \in G PROVE T \in G
  <2>1. PICK x \in T : TRUE
    BY <1>2
  <2>2. SumFunctionOnSet(f, T) = f[x] + SumFunctionOnSet(f, T \ {x})
    BY FS_Subset, SumAny
  <2>3. f[x] \in Nat /\ SumFunctionOnSet(f, T \ {x}) \in Nat
    BY <1>2
  <2>4. SumFunctionOnSet(f, T \ {x}) = 0 <=> \A y \in T \ {x} : f[y] = 0
    BY <1>2
  <2>5. (\A y \in T : f[y] = 0) <=> f[x] = 0 /\ \A y \in T \ {x} : f[y] = 0
    OBVIOUS
  <2> QED
    BY <2>2, <2>3, <2>4, <2>5
<1>3. G \in SUBSET (SUBSET S)
  OBVIOUS
<1>4. S \in G
  <2> HIDE DEF G
  <2> QED
    BY <1>1, <1>2, <1>3, SubsetInduction
<1> QED
  BY <1>4

\* Part of the terms are set to 0.
LEMMA SumCleared ==
    ASSUME NEW f, NEW g, NEW S, IsFiniteSet(S), NEW C \in SUBSET S,
           \A x \in S : f[x] \in Int,
           \A x \in C : g[x] = 0, \A x \in S \ C : g[x] = f[x]
    PROVE  SumFunctionOnSet(g, S) = SumFunctionOnSet(f, S) - SumFunctionOnSet(f, C)
<1> DEFINE G == {T \in SUBSET S :
                  SumFunctionOnSet(g, T) = SumFunctionOnSet(f, T) - SumFunctionOnSet(f, T \cap C)}
<1>1. {} \in G
  <2>1. {} \cap C = {}
    OBVIOUS
  <2> QED
    BY <2>1, SumEmpty
<1>2. ASSUME NEW T \in SUBSET S, T # {}, \A x \in T : T \ {x} \in G PROVE T \in G
  <2>1. PICK x \in T : TRUE
    BY <1>2
  <2>2. IsFiniteSet(T) /\ IsFiniteSet(T \ {x}) /\ IsFiniteSet(T \cap C)
           /\ IsFiniteSet((T \ {x}) \cap C)
    BY FS_Subset
  <2>3. \A y \in S : g[y] \in Int
    OBVIOUS
  <2>4. /\ SumFunctionOnSet(f, T) = f[x] + SumFunctionOnSet(f, T \ {x})
        /\ SumFunctionOnSet(g, T) = g[x] + SumFunctionOnSet(g, T \ {x})
    <3> HIDE DEF G
    <3> QED
      BY <2>2, <2>3, SumAny
  <2>5. /\ SumFunctionOnSet(f, T \ {x}) \in Int /\ SumFunctionOnSet(f, (T \ {x}) \cap C) \in Int
        /\ f[x] \in Int
    BY <2>2, SumAny
  <2>6. SumFunctionOnSet(g, T \ {x})
          = SumFunctionOnSet(f, T \ {x}) - SumFunctionOnSet(f, (T \ {x}) \cap C)
    BY <1>2
  <2> DEFINE F == SumFunctionOnSet(f, T \ {x})
             C1 == SumFunctionOnSet(f, (T \ {x}) \cap C)
             C2 == SumFunctionOnSet(f, T \cap C)
  <2>7. SumFunctionOnSet(f, T) = f[x] + F /\ SumFunctionOnSet(g, T) = g[x] + (F - C1)
    BY <2>4, <2>6
  <2>8. F \in Int /\ C1 \in Int /\ f[x] \in Int
    BY <2>5
  <2>9. CASE x \in C
    <3>1. (T \ {x}) \cap C = (T \cap C) \ {x} /\ x \in T \cap C
      BY <2>9
    <3>2. C2 = f[x] + C1
      BY <2>2, <3>1, SumAny
    <3>3. g[x] = 0
      BY <2>9
    <3> HIDE DEF G, F, C1, C2
    <3>4. SumFunctionOnSet(g, T) = SumFunctionOnSet(f, T) - C2
      BY <2>7, <2>8, <3>2, <3>3
    <3> QED
      BY <3>4 DEF G, C2
  <2>10. CASE x \notin C
    <3>1. C2 = C1
      <4>1. (T \ {x}) \cap C = T \cap C
        BY <2>10
      <4> QED
        BY <4>1
    <3>2. g[x] = f[x]
      BY <2>10
    <3> HIDE DEF G, F, C1, C2
    <3>3. SumFunctionOnSet(g, T) = SumFunctionOnSet(f, T) - C2
      BY <2>7, <2>8, <3>1, <3>2
    <3> QED
      BY <3>3 DEF G, C2
  <2> QED
    BY <2>9, <2>10
<1>3. G \in SUBSET (SUBSET S)
  OBVIOUS
<1>4. S \in G
  <2> HIDE DEF G
  <2> QED
    BY <1>1, <1>2, <1>3, SubsetInduction
<1>5. S \cap C = C
  OBVIOUS
<1> QED
  BY <1>4, <1>5

\* One term is increased.
LEMMA SumIncreased ==
    ASSUME NEW f, NEW g, NEW S, IsFiniteSet(S), NEW x \in S,
           \A y \in S : f[y] \in Int,
           g[x] = f[x] + 1, \A y \in S \ {x} : g[y] = f[y]
    PROVE  SumFunctionOnSet(g, S) = SumFunctionOnSet(f, S) + 1
<1>1. IsFiniteSet(S \ {x})
  BY FS_Subset
<1>2. SumFunctionOnSet(g, S \ {x}) = SumFunctionOnSet(f, S \ {x})
  BY <1>1, SumSame
<1>3. SumFunctionOnSet(f, S \ {x}) \in Int
  BY <1>1, SumAny
<1>4. \A y \in S : g[y] \in Int
  OBVIOUS
<1>5. SumFunctionOnSet(g, S) = g[x] + SumFunctionOnSet(g, S \ {x})
  BY <1>4, SumAny
<1>6. SumFunctionOnSet(f, S) = f[x] + SumFunctionOnSet(f, S \ {x})
  BY SumAny
<1> QED
  BY <1>2, <1>3, <1>5, <1>6

-----------------------------------------------------------------------------
(* Lists of entries.                                                                           *)

LEMMA EmptyList == ToSet(<<>>) = {} /\ IsInjective(<<>>) /\ \A X : <<>> \in Seq(X)
BY DEF ToSet, IsInjective

LEMMA Pushed ==
    ASSUME NEW X, NEW q \in Seq(X), NEW x \in X
    PROVE  /\ <<x>> \o q \in Seq(X) /\ <<x>> \o q # <<>> /\ Head(<<x>> \o q) = x
           /\ ToSet(<<x>> \o q) = ToSet(q) \cup {x}
           /\ IsInjective(q) /\ x \notin ToSet(q) => IsInjective(<<x>> \o q)
<1> DEFINE r == <<x>> \o q
<1>1. /\ r \in Seq(X) /\ Len(r) = Len(q) + 1 /\ r[1] = x
      /\ \A i \in 1 .. Len(q) : r[i + 1] = q[i]
  OBVIOUS
<1>2. \A i \in 1 .. Len(r) : i = 1 \/ (i - 1 \in 1 .. Len(q) /\ r[i] = q[i - 1])
  BY <1>1
<1>3. ToSet(r) = ToSet(q) \cup {x}
  <2> HIDE DEF r
  <2>1. ToSet(r) \subseteq ToSet(q) \cup {x}
    BY <1>1, <1>2 DEF ToSet
  <2>2. x \in ToSet(r)
    BY <1>1 DEF ToSet
  <2>3. ToSet(q) \subseteq ToSet(r)
    <3> SUFFICES ASSUME NEW i \in 1 .. Len(q) PROVE q[i] \in ToSet(r)
      BY DEF ToSet
    <3>1. i + 1 \in DOMAIN r /\ r[i + 1] = q[i]
      BY <1>1
    <3> QED
      BY <3>1 DEF ToSet
  <2> QED
    BY <2>1, <2>2, <2>3
<1>4. IsInjective(q) /\ x \notin ToSet(q) => IsInjective(r)
  <2> HIDE DEF r
  <2> SUFFICES ASSUME IsInjective(q), x \notin ToSet(q), NEW i \in 1 .. Len(r), NEW j \in 1 .. Len(r),
                      r[i] = r[j]
               PROVE  i = j
    BY <1>1 DEF IsInjective
  <2>1. \A m \in 1 .. Len(q) : q[m] # x
    BY DEF ToSet
  <2>2. i = 1 <=> j = 1
    BY <1>1, <1>2, <2>1
  <2>3. CASE i # 1
    <3>1. i - 1 \in DOMAIN q /\ j - 1 \in DOMAIN q /\ q[i - 1] = q[j - 1]
      BY <1>2, <2>2, <2>3
    <3>2. i - 1 = j - 1
      BY <3>1 DEF IsInjective
    <3> QED
      BY <3>2
  <2> QED
    BY <2>2, <2>3
<1>5. r # <<>> /\ Head(r) = x
  <2> HIDE DEF r
  <2> QED
    BY <1>1
<1> QED
  BY <1>1, <1>3, <1>4, <1>5

LEMMA Appended ==
    ASSUME NEW X, NEW q \in Seq(X), NEW x \in X
    PROVE  /\ Append(q, x) \in Seq(X) /\ Append(q, x) # <<>>
           /\ Head(Append(q, x)) = IF q = <<>> THEN x ELSE Head(q)
           /\ ToSet(Append(q, x)) = ToSet(q) \cup {x}
           /\ IsInjective(q) /\ x \notin ToSet(q) => IsInjective(Append(q, x))
<1> DEFINE r == Append(q, x)
<1>1. /\ r \in Seq(X) /\ Len(r) = Len(q) + 1 /\ r[Len(q) + 1] = x
      /\ \A i \in 1 .. Len(q) : r[i] = q[i]
  OBVIOUS
<1>2. \A i \in 1 .. Len(r) : i = Len(q) + 1 \/ (i \in 1 .. Len(q) /\ r[i] = q[i])
  BY <1>1
<1>3. ToSet(r) = ToSet(q) \cup {x}
  <2> HIDE DEF r
  <2>1. ToSet(r) \subseteq ToSet(q) \cup {x}
    BY <1>1, <1>2 DEF ToSet
  <2>2. x \in ToSet(r)
    BY <1>1 DEF ToSet
  <2>3. ToSet(q) \subseteq ToSet(r)
    BY <1>1 DEF ToSet
  <2> QED
    BY <2>1, <2>2, <2>3
<1>4. IsInjective(q) /\ x \notin ToSet(q) => IsInjective(r)
  <2> HIDE DEF r
  <2> QED
    BY <1>1, <1>2 DEF ToSet, IsInjective
<1>5. r # <<>> /\ Head(r) = IF q = <<>> THEN x ELSE Head(q)
  <2> HIDE DEF r
  <2> QED
    BY <1>1
<1> QED
  BY <1>1, <1>3, <1>4, <1>5

LEMMA Popped ==
    ASSUME NEW X, NEW q \in Seq(X), q # <<>>, IsInjective(q)
    PROVE  /\ Head(q) \in X /\ Head(q) \in ToSet(q) /\ Tail(q) \in Seq(X)
           /\ ToSet(Tail(q)) = ToSet(q) \ {Head(q)} /\ IsInjective(Tail(q))
<1>1. /\ Tail(q) \in Seq(X) /\ Len(Tail(q)) = Len(q) - 1 /\ Len(q) >= 1
      /\ \A i \in 1 .. Len(q) - 1 : Tail(q)[i] = q[i + 1]
      /\ Head(q) = q[1] /\ q[1] \in X
  OBVIOUS
<1>2. q[1] \in ToSet(q)
  BY <1>1 DEF ToSet
<1>3. ToSet(Tail(q)) = ToSet(q) \ {q[1]}
  <2>1. ToSet(Tail(q)) \subseteq ToSet(q) \ {q[1]}
    <3> SUFFICES ASSUME NEW i \in 1 .. Len(q) - 1 PROVE q[i + 1] \in ToSet(q) \ {q[1]}
      BY <1>1 DEF ToSet
    <3>1. i + 1 \in DOMAIN q /\ 1 \in DOMAIN q /\ i + 1 # 1
      BY <1>1
    <3> QED
      BY <3>1 DEF ToSet, IsInjective
  <2>2. ToSet(q) \ {q[1]} \subseteq ToSet(Tail(q))
    <3> SUFFICES ASSUME NEW i \in 1 .. Len(q), i # 1 PROVE q[i] \in ToSet(Tail(q))
      BY DEF ToSet
    <3>1. i - 1 \in DOMAIN Tail(q) /\ Tail(q)[i - 1] = q[i]
      BY <1>1
    <3> QED
      BY <3>1 DEF ToSet
  <2> QED
    BY <2>1, <2>2
<1>4. IsInjective(Tail(q))
  <2> SUFFICES ASSUME NEW i \in 1 .. Len(q) - 1, NEW j \in 1 .. Len(q) - 1, q[i + 1] = q[j + 1]
               PROVE  i = j
    BY <1>1 DEF IsInjective
  <2>1. i + 1 \in DOMAIN q /\ j + 1 \in DOMAIN q
    OBVIOUS
  <2> QED
    BY <2>1 DEF IsInjective
<1> QED
  BY <1>1, <1>2, <1>3, <1>4

LEMMA Reversed ==
    ASSUME NEW X, NEW q \in Seq(X)
    PROVE  /\ Reverse(q) \in Seq(X) /\ ToSet(Reverse(q)) = ToSet(q)
           /\ IsInjective(q) => IsInjective(Reverse(q))
<1> DEFINE r == Reverse(q)
<1>1. r \in Seq(X) /\ Len(r) = Len(q) /\ \A i \in 1 .. Len(q) : r[i] = q[Len(q) - i + 1]
  BY DEF Reverse
<1> HIDE DEF r
<1>2. \A i \in 1 .. Len(q) : Len(q) - i + 1 \in 1 .. Len(q) /\ r[Len(q) - i + 1] = q[i]
  BY <1>1
<1>3. ToSet(r) = ToSet(q)
  <2>1. ToSet(r) \subseteq ToSet(q)
    <3> SUFFICES ASSUME NEW i \in 1 .. Len(q) PROVE r[i] \in ToSet(q)
      BY <1>1, SMTT(30) DEF ToSet
    <3>1. Len(q) - i + 1 \in DOMAIN q /\ r[i] = q[Len(q) - i + 1]
      BY <1>1, <1>2
    <3> QED
      BY <3>1 DEF ToSet
  <2>2. ToSet(q) \subseteq ToSet(r)
    <3> SUFFICES ASSUME NEW i \in 1 .. Len(q) PROVE q[i] \in ToSet(r)
      BY DEF ToSet
    <3>1. Len(q) - i + 1 \in DOMAIN r /\ q[i] = r[Len(q) - i + 1]
      BY <1>1, <1>2
    <3> QED
      BY <3>1 DEF ToSet
  <2> QED
    BY <2>1, <2>2
<1>4. IsInjective(q) => IsInjective(r)
  <2> SUFFICES ASSUME IsInjective(q), NEW i \in 1 .. Len(q), NEW j \in 1 .. Len(q), r[i] = r[j]
               PROVE  i = j
    BY <1>1 DEF IsInjective
  <2>1. Len(q) - i + 1 = Len(q) - j + 1
    <3>1. /\ Len(q) - i + 1 \in DOMAIN q /\ Len(q) - j + 1 \in DOMAIN q
          /\ q[Len(q) - i + 1] = q[Len(q) - j + 1]
      BY <1>1, <1>2
    <3> QED
      BY <3>1 DEF IsInjective
  <2> QED
    BY <2>1
<1> QED
  BY <1>1, <1>3, <1>4 DEF r

\* What expiring() keeps of a list, or takes out of it.
LEMMA OnlyFacts ==
    ASSUME NEW X, NEW q \in Seq(X), NEW T
    PROVE  /\ Only(q, T) \in Seq(X) /\ ToSet(Only(q, T)) = ToSet(q) \cap T
           /\ IsInjective(q) => IsInjective(Only(q, T))
           /\ q # <<>> /\ Head(q) \in T => Only(q, T) # <<>> /\ Head(Only(q, T)) = Head(q)
<1> DEFINE E(g, n) == IF n = 0 THEN <<>>
                      ELSE IF q[n] \in T THEN Append(g[n - 1], q[n]) ELSE g[n - 1]
           Is(g) == g = [n \in 0 .. Len(q) |-> E(g, n)]
<1>1. \E g : Is(g)
  <2> DEFINE H == {n \in Nat : \E g : \A i \in 0 .. Len(q) : i <= n => g[i] = E(g, i)}
  <2>1. 0 \in H
    <3> DEFINE g == [i \in 0 .. Len(q) |-> <<>>]
    <3>1. \A i \in 0 .. Len(q) : i <= 0 => g[i] = E(g, i)
      OBVIOUS
    <3> QED
      BY <3>1
  <2>2. ASSUME NEW n \in H PROVE n + 1 \in H
    <3>1. PICK g : \A i \in 0 .. Len(q) : i <= n => g[i] = E(g, i)
      OBVIOUS
    <3> DEFINE h == [i \in 0 .. Len(q) |-> IF i <= n THEN g[i] ELSE E(g, i)]
    <3>2. \A i \in 0 .. Len(q) : h[i] = E(g, i)
      BY <3>1
    <3>3. \A i \in 0 .. Len(q) : i # 0 /\ i <= n + 1 => h[i - 1] = g[i - 1]
      OBVIOUS
    <3> HIDE DEF h
    <3>4. \A i \in 0 .. Len(q) : i <= n + 1 => h[i] = E(h, i)
      BY <3>2, <3>3
    <3> QED
      BY <3>4
  <2>3. Len(q) \in H
    <3> HIDE DEF H
    <3>1. H \in SUBSET Nat
      BY DEF H
    <3> QED
      BY <2>1, <2>2, <3>1, NatSet
  <2>4. PICK g : \A i \in 0 .. Len(q) : i <= Len(q) => g[i] = E(g, i)
    BY <2>3
  <2> DEFINE h == [i \in 0 .. Len(q) |-> g[i]]
  <2>5. \A i \in 0 .. Len(q) : h[i] = E(h, i)
    BY <2>4
  <2>6. h = [n \in 0 .. Len(q) |-> E(h, n)]
    BY <2>5
  <2> HIDE DEF h
  <2> QED
    BY <2>6
<1>2. PICK g : Is(g) /\ Only(q, T) = g[Len(q)]
  BY <1>1 DEF Only
<1>3. \A n \in 0 .. Len(q) : g[n] = E(g, n)
  BY <1>2
<1> DEFINE Upto(n) == {q[i] : i \in 1 .. n}
           Good(n) == /\ g[n] \in Seq(X) /\ ToSet(g[n]) = Upto(n) \cap T
                      /\ IsInjective(q) => IsInjective(g[n])
                      /\ n # 0 /\ q[1] \in T => g[n] # <<>> /\ Head(g[n]) = q[1]
                      /\ g[n] # <<>> => n # 0
           H == {n \in Nat : n <= Len(q) => Good(n)}
<1>4. 0 \in H
  <2>1. g[0] = <<>>
    BY <1>3
  <2>2. Upto(0) = {}
    OBVIOUS
  <2> HIDE DEF Upto
  <2> QED
    BY <2>1, <2>2, EmptyList
<1>5. ASSUME NEW n \in H PROVE n + 1 \in H
  <2> SUFFICES ASSUME n + 1 <= Len(q) PROVE Good(n + 1)
    OBVIOUS
  <2>1. Good(n) /\ n \in Nat /\ q[n + 1] \in X
    OBVIOUS
  <2>2. Upto(n + 1) = Upto(n) \cup {q[n + 1]}
    <3>1. 1 .. n + 1 = (1 .. n) \cup {n + 1}
      BY <2>1
    <3> QED
      BY <3>1
  <2>3. IsInjective(q) => q[n + 1] \notin Upto(n)
    <3> SUFFICES ASSUME IsInjective(q), NEW i \in 1 .. n, q[i] = q[n + 1] PROVE FALSE
      OBVIOUS
    <3>1. i \in DOMAIN q /\ n + 1 \in DOMAIN q /\ i # n + 1
      BY <2>1
    <3> QED
      BY <3>1 DEF IsInjective
  <2>4. CASE q[n + 1] \in T
    <3>1. g[n + 1] = Append(g[n], q[n + 1])
      <4>1. n + 1 \in 0 .. Len(q) /\ n + 1 # 0 /\ (n + 1) - 1 = n
        BY <2>1
      <4>2. g[n + 1] = E(g, n + 1)
        BY <1>3, <4>1
      <4> HIDE DEF H
      <4> QED
        BY <2>4, <4>1, <4>2
    <3> HIDE DEF Upto, H
    <3>2. n = 0 => g[n] = <<>>
      BY <2>1
    <3> QED
      BY <2>1, <2>2, <2>3, <2>4, <3>1, <3>2, Appended, SMTT(30)
  <2>5. CASE q[n + 1] \notin T
    <3>1. g[n + 1] = g[n]
      BY <1>3, <2>1, <2>5
    <3> HIDE DEF Upto, H
    <3> QED
      BY <2>1, <2>2, <2>5, <3>1
  <2> QED
    BY <2>4, <2>5
<1>6. Len(q) \in H
  <2> HIDE DEF H
  <2>1. H \in SUBSET Nat
    BY DEF H
  <2> QED
    BY <1>4, <1>5, <2>1, NatSet
<1>7. Upto(Len(q)) = ToSet(q)
  BY DEF ToSet
<1>8. q # <<>> => Len(q) # 0 /\ Head(q) = q[1]
  OBVIOUS
<1>9. Good(Len(q))
  BY <1>6
<1> HIDE DEF Upto
<1> QED
  BY <1>2, <1>7, <1>8, <1>9

-----------------------------------------------------------------------------
(* The ring of time slots.                                                                     *)

LEMMA Multiple ==
    ASSUME NEW R \in Nat \ {0}, NEW x \in Int, x >= 1
    PROVE  R * x >= R
OBVIOUS

LEMMA DivMod ==
    ASSUME NEW R \in Nat \ {0}, NEW t \in Nat
    PROVE  (t % R) \in 0 .. R - 1 /\ (t \div R) \in Nat /\ t = (R * (t \div R)) + (t % R)
OBVIOUS

LEMMA ModOf ==
    ASSUME NEW R \in Nat \ {0}, NEW q \in Int, NEW r \in 0 .. R - 1
    PROVE  ((R * q) + r) % R = r
OBVIOUS

\* How far place j is behind the place of t.
LEMMA Distance ==
    ASSUME NEW t \in Nat, NEW j \in Index
    PROVE  /\ IndexOf(t) \in Index
           /\ WindowSlot(t, j) = IF j <= IndexOf(t) THEN (t - IndexOf(t)) + j
                                 ELSE ((t - IndexOf(t)) - Reserved) + j
<1> DEFINE a == t % Reserved
<1>1. Reserved \in Nat \ {0} /\ a \in 0 .. Reserved - 1 /\ j \in 0 .. Reserved - 1
  BY ConstantsAssumption, DivMod DEF Index
<1> HIDE DEF a
<1>2. CASE j <= a
  <2>1. (a + Reserved) - j = (Reserved * 1) + (a - j) /\ a - j \in 0 .. Reserved - 1
    BY <1>1, <1>2
  <2>2. ((a + Reserved) - j) % Reserved = a - j
    BY <1>1, <2>1, ModOf
  <2> QED
    BY <1>1, <1>2, <2>2 DEF a, WindowSlot, IndexOf, Index
<1>3. CASE j > a
  <2>1. (a + Reserved) - j = (Reserved * 0) + ((a + Reserved) - j)
        /\ (a + Reserved) - j \in 0 .. Reserved - 1
    BY <1>1, <1>3
  <2>2. ((a + Reserved) - j) % Reserved = (a + Reserved) - j
    BY <1>1, <2>1, ModOf
  <2> QED
    BY <1>1, <1>3, <2>2 DEF a, WindowSlot, IndexOf, Index
<1> QED
  BY <1>1, <1>2, <1>3

\* The slots of the window that ends with t, each in its place ...
LEMMA InWindow ==
    ASSUME NEW t \in Nat, t >= Reserved, NEW j \in Index
    PROVE  /\ WindowSlot(t, j) \in Nat
           /\ t - Reserved < WindowSlot(t, j) /\ WindowSlot(t, j) <= t
           /\ IndexOf(WindowSlot(t, j)) = j
<1> DEFINE a == t % Reserved
           q == t \div Reserved
<1>1. Reserved \in Nat \ {0} /\ a \in 0 .. Reserved - 1 /\ j \in 0 .. Reserved - 1
  BY ConstantsAssumption, DivMod DEF Index
<1>2. q \in Nat /\ t = (Reserved * q) + a
  BY ConstantsAssumption, DivMod
<1>3. WindowSlot(t, j) = IF j <= a THEN (t - a) + j ELSE ((t - a) - Reserved) + j
  BY Distance DEF IndexOf
<1> HIDE DEF a, q
<1>4. t - Reserved < WindowSlot(t, j) /\ WindowSlot(t, j) <= t /\ WindowSlot(t, j) \in Nat
  <2>1. CASE j <= a
    BY <1>1, <1>2, <1>3, <2>1
  <2>2. CASE j > a
    BY <1>1, <1>3, <2>2
  <2> QED
    BY <1>1, <2>1, <2>2
<1>5. CASE j <= a
  <2>1. WindowSlot(t, j) = (Reserved * q) + j
    BY <1>1, <1>2, <1>3, <1>5
  <2>2. ((Reserved * q) + j) % Reserved = j
    BY <1>1, <1>2, ModOf
  <2> QED
    BY <1>4, <2>1, <2>2 DEF IndexOf
<1>6. CASE j > a
  <2>1. Reserved * (q - 1) = (Reserved * q) - Reserved
    BY <1>1, <1>2
  <2>2. WindowSlot(t, j) = (Reserved * (q - 1)) + j
    BY <1>1, <1>2, <1>3, <1>6, <2>1
  <2>3. ((Reserved * (q - 1)) + j) % Reserved = j
    <3>1. q - 1 \in Int
      BY <1>2
    <3> QED
      BY <1>1, <3>1, ModOf
  <2> QED
    BY <1>4, <2>2, <2>3 DEF IndexOf
<1> QED
  BY <1>1, <1>4, <1>5, <1>6

\* ... and no other.
LEMMA PlaceOf ==
    ASSUME NEW t \in Nat, NEW s \in Nat, t - Reserved < s, s <= t
    PROVE  IndexOf(s) \in Index /\ WindowSlot(t, IndexOf(s)) = s
<1> DEFINE a == t % Reserved
           q == t \div Reserved
           b == s % Reserved
           u == s \div Reserved
<1>1. Reserved \in Nat \ {0} /\ a \in 0 .. Reserved - 1 /\ b \in 0 .. Reserved - 1
  BY ConstantsAssumption, DivMod
<1>2. q \in Nat /\ t = (Reserved * q) + a /\ u \in Nat /\ s = (Reserved * u) + b
  BY ConstantsAssumption, DivMod
<1>3. b \in Index /\ IndexOf(s) = b
  BY <1>1 DEF Index, IndexOf
<1>4. WindowSlot(t, b) = IF b <= a THEN (t - a) + b ELSE ((t - a) - Reserved) + b
  BY <1>3, Distance DEF IndexOf
<1> HIDE DEF a, q, b, u
<1>5. Reserved * (q - u) = (t - s) - (a - b)
  BY <1>1, <1>2
<1>6. Reserved * (u - q) = (s - t) - (b - a)
  BY <1>1, <1>2
<1>7. q - u < 2 /\ u - q < 1
  <2>1. ASSUME q - u >= 2 PROVE FALSE
    <3>1. Reserved * ((q - u) - 1) >= Reserved
      BY <1>1, <1>2, <2>1, Multiple
    <3>2. Reserved * ((q - u) - 1) = (Reserved * (q - u)) - Reserved
      BY <1>1, <1>2
    <3> QED
      BY <1>1, <1>2, <1>5, <3>1, <3>2
  <2>2. ASSUME u - q >= 1 PROVE FALSE
    <3>1. Reserved * (u - q) >= Reserved
      BY <1>1, <1>2, <2>2, Multiple
    <3> QED
      BY <1>1, <1>2, <1>6, <3>1
  <2> QED
    BY <1>2, <2>1, <2>2
<1>8. CASE q = u
  <2>1. t - s = a - b
    BY <1>1, <1>2, <1>8
  <2> QED
    BY <1>1, <1>2, <1>3, <1>4, <2>1
<1>9. CASE q = u + 1
  <2>1. Reserved * (q - u) = Reserved
    BY <1>1, <1>2, <1>9
  <2>2. t - s = Reserved + (a - b)
    BY <1>1, <1>2, <1>5, <2>1
  <2> QED
    BY <1>1, <1>2, <1>3, <1>4, <2>2
<1> QED
  BY <1>2, <1>7, <1>8, <1>9

-----------------------------------------------------------------------------
(* The inductive invariant.  The first part holds whether or not the threads raced.            *)

TypedLists ==
    /\ chain \in [Bucket -> Seq(Entry)]
    /\ free_list \in Seq(Entry) /\ release_pool \in Seq(Entry)

TypedFields ==
    /\ ipaddr \in [Entry -> Ip \cup {None}]
    /\ counter \in [Entry -> Int]
    /\ access_count \in [Entry -> [Index -> Slot]]

InCall == pc \in {"slot", "storeSlot", "counter", "storeCounter", "return"}

TypedCall ==
    /\ pc \in {"idle", "search", "slot", "storeSlot", "counter", "storeCounter", "return"}
    /\ pc # "idle" => ip \in Ip
    /\ slot_index \in Nat /\ loaded \in Int
    /\ pc = "storeSlot" => loaded \in Nat
    /\ entry \in Entry \cup {None}
    /\ InCall => entry \in Entry

TypedRest ==
    /\ now \in 0 .. MaxTime
    /\ k \in -1 .. HashSize /\ sweep_slot \in Nat
    /\ accesses \in [Ip -> [0 .. MaxTime -> Nat]]

\* The flags: the provers want them apart.
Flags == raced \in BOOLEAN /\ crossed \in BOOLEAN

\* EntryInOneList, without the set of lists.
Apart ==
    /\ \A b \in Bucket : IsInjective(chain[b])
    /\ IsInjective(free_list) /\ IsInjective(release_pool)
    /\ \A b, c \in Bucket : b # c => ToSet(chain[b]) \cap ToSet(chain[c]) = {}
    /\ \A b \in Bucket : ToSet(chain[b]) \cap (ToSet(free_list) \cup ToSet(release_pool)) = {}
    /\ ToSet(free_list) \cap ToSet(release_pool) = {}

\* Every entry of the table is in the bucket of its address.
Home == \A b \in Bucket : \A e \in ToSet(chain[b]) : ipaddr[e] \in Ip /\ HashIndex(ipaddr[e]) = b

\* The entry that find_and_increase() read before it had the lock can be freed since, but
\* is not allocated again: only find_and_increase() allocates.
Held ==
    pc = "search" /\ entry # None =>
        entry \in ToSet(chain[HashIndex(ip)]) \cup ToSet(free_list) \cup ToSet(release_pool)

Listed ==
    /\ TypedLists /\ TypedFields /\ TypedCall /\ TypedRest /\ Flags
    /\ Apart /\ Home /\ Held

-----------------------------------------------------------------------------
(* Steps in the lists.                                                                         *)

LEMMA ConstantFacts ==
    /\ Reserved \in Nat \ {0} /\ HashSize \in Nat \ {0} /\ MaxTime \in Nat /\ MaxTime >= Reserved
    /\ None \notin Entry /\ None \notin Ip
    /\ \A p \in Ip : HashIndex(p) \in Bucket
    /\ Index = 0 .. Reserved - 1 /\ IsFiniteSet(Index)
    /\ \A t \in Nat : IndexOf(t) \in Index
<1>1. ASSUME NEW p \in Ip PROVE HashIndex(p) \in Bucket
  BY ConstantsAssumption, DivMod DEF HashIndex, Bucket
<1>2. ASSUME NEW t \in Nat PROVE IndexOf(t) \in Index
  BY ConstantsAssumption, DivMod DEF IndexOf, Index
<1>3. IsFiniteSet(0 .. Reserved - 1)
  BY ConstantsAssumption, FS_Interval
<1> QED
  BY <1>1, <1>2, <1>3, ConstantsAssumption DEF Index

LEMMA WindowSlotInt ==
    ASSUME NEW t \in Nat, NEW j \in Index
    PROVE  WindowSlot(t, j) \in Int
<1>1. IndexOf(t) \in Nat /\ j \in Nat /\ Reserved \in Nat
  BY ConstantFacts
<1> QED
  BY <1>1, Distance

LEMMA ClearedTyped ==
    ASSUME TypedFields, NEW e \in Entry, NEW t \in Nat
    PROVE  Cleared(e, t) \in [Index -> Slot] /\ CountLeft(e, t) \in Int
<1>1. Cleared(e, t) \in [Index -> Slot]
  <2> SUFFICES ASSUME NEW j \in Index
               PROVE  (IF j \in Outdated(e, t) THEN [slot_index |-> WindowSlot(t, j), counter |-> 0]
                       ELSE access_count[e][j]) \in Slot
    BY DEF Cleared
  <2>1. access_count[e][j] \in Slot
    BY DEF TypedFields
  <2>2. [slot_index |-> WindowSlot(t, j), counter |-> 0] \in Slot
    BY WindowSlotInt DEF Slot
  <2> QED
    BY <2>1, <2>2
<1>2. CountLeft(e, t) \in Int
  <2> DEFINE f == [j \in Outdated(e, t) |-> access_count[e][j].counter]
  <2>1. IsFiniteSet(Outdated(e, t)) /\ Outdated(e, t) \subseteq Index
    BY ConstantFacts, FS_Subset DEF Outdated
  <2>2. \A j \in Outdated(e, t) : f[j] \in Int
    BY <2>1 DEF TypedFields, Slot
  <2>3. DOMAIN f = Outdated(e, t)
    OBVIOUS
  <2>4. SumFunctionOnSet(f, DOMAIN f) \in Int
    <3> HIDE DEF f
    <3> QED
      BY <2>1, <2>2, <2>3, SumAny
  <2>5. counter[e] \in Int
    BY DEF TypedFields
  <2>6. CountLeft(e, t) = counter[e] - SumFunctionOnSet(f, DOMAIN f)
    BY DEF CountLeft, SumFunction
  <2> HIDE DEF f
  <2> QED
    BY <2>4, <2>5, <2>6
<1> QED
  BY <1>1, <1>2

\* The entries that the search of find_and_increase() passes.
LEMMA WalkTyped ==
    ASSUME Listed, pc = "search"
    PROVE  Walk(entry) \in Seq(Entry)
<1> DEFINE lists == {chain[HashIndex(ip)], free_list, release_pool}
           list == CHOOSE s \in lists : Contains(s, entry)
           from == CHOOSE j \in 1 .. Len(list) : list[j] = entry
<1>1. CASE entry = None
  BY <1>1 DEF Walk
<1>2. CASE entry # None
  <2>1. HashIndex(ip) \in Bucket
    BY ConstantFacts DEF Listed, TypedCall
  <2>2. lists \subseteq Seq(Entry)
    BY <2>1 DEF Listed, TypedLists
  <2>3. \E s \in lists : Contains(s, entry)
    <3>1. PICK s \in lists : entry \in ToSet(s)
      BY <1>2 DEF Listed, Held
    <3>2. s \in Seq(Entry)
      BY <2>2
    <3>3. Contains(s, entry)
      BY <3>1, <3>2 DEF ToSet, Contains
    <3> QED
      BY <3>3
  <2>4. list \in lists /\ Contains(list, entry)
    <3> HIDE DEF lists
    <3> QED
      BY <2>3
  <2>5. list \in Seq(Entry)
    BY <2>2, <2>4
  <2>6. from \in 1 .. Len(list)
    <3> HIDE DEF list
    <3> QED
      BY <2>4 DEF Contains
  <2>7. SubSeq(list, from, Len(list)) \in Seq(Entry)
    <3> HIDE DEF list, from
    <3> QED
      BY <2>5, <2>6
  <2>8. Walk(entry) = SubSeq(list, from, Len(list))
    BY <1>2 DEF Walk
  <2> QED
    BY <2>7, <2>8
<1> QED
  BY <1>1, <1>2

LEMMA FirstMatch ==
    ASSUME Listed, pc = "search", Matches # {}
    PROVE  /\ Min(Matches) \in DOMAIN Walk(entry)
           /\ Walk(entry)[Min(Matches)] \in Entry
           /\ ipaddr[Walk(entry)[Min(Matches)]] = ip
<1>1. Walk(entry) \in Seq(Entry)
  BY WalkTyped
<1>2. Matches \in SUBSET Nat
  BY <1>1 DEF Matches
<1>3. Min(Matches) \in Matches
  BY <1>2, Least DEF Min
<1>4. Min(Matches) \in DOMAIN Walk(entry) /\ ipaddr[Walk(entry)[Min(Matches)]] = ip
  BY <1>3 DEF Matches
<1> QED
  BY <1>1, <1>4

LEMMA ListedInit == Init => Listed
<1> SUFFICES ASSUME Init PROVE Listed
  OBVIOUS
<1>1. TypedLists /\ Apart /\ Home /\ Held
  BY EmptyList DEF Init, TypedLists, Apart, Home, Held
<1>2. TypedFields
  BY DEF Init, TypedFields, Slot
<1>3. TypedCall /\ TypedRest
  BY ConstantFacts DEF Init, TypedCall, TypedRest, InCall
<1>4. Flags
  BY Zenon DEF Init, Flags
<1> QED
  BY <1>1, <1>2, <1>3, <1>4 DEF Listed

\* A step that leaves the lists alone.
LEMMA SameLists ==
    ASSUME Listed, UNCHANGED <<chain, release_pool, free_list, ipaddr>>
    PROVE  TypedLists' /\ Apart' /\ Home'
BY DEF Listed, TypedLists, Apart, Home

LEMMA ListedFindBegin ==
    ASSUME Listed, NEW p \in Ip, FindBegin(p)
    PROVE  Listed'
<1> USE DEF FindBegin, entries, sweep
<1>1. TypedLists' /\ Apart' /\ Home'
  BY SameLists
<1>2. entry' # None => entry' \in ToSet(chain[HashIndex(p)]) /\ entry' \in Entry
  <2>1. HashIndex(p) \in Bucket
    BY ConstantFacts
  <2>2. chain[HashIndex(p)] \in Seq(Entry) /\ IsInjective(chain[HashIndex(p)])
    BY <2>1 DEF Listed, TypedLists, Apart
  <2> QED
    BY <2>2, Popped
<1>3. Held'
  BY <1>2 DEF Held
<1>4. TypedFields' /\ TypedRest'
  BY DEF Listed, TypedFields, TypedRest
<1>5. TypedCall'
  BY <1>2 DEF Listed, TypedCall, TypedRest, InCall
<1>6. Flags'
  BY Zenon DEF Listed, Flags
<1> QED
  BY <1>1, <1>3, <1>4, <1>5, <1>6 DEF Listed

LEMMA ListedFindKnown ==
    ASSUME Listed, FindKnown
    PROVE  Listed'
<1> DEFINE e == Walk(entry)[Min(Matches)]
<1>1. e \in Entry /\ slot_index \in Nat
  BY FirstMatch DEF FindKnown, Listed, TypedCall
<1>2. /\ Cleared(e, slot_index) \in [Index -> Slot] /\ CountLeft(e, slot_index) \in Int
  BY <1>1, ClearedTyped DEF Listed
<1>3. /\ entry' = e /\ pc' = "slot" /\ UNCHANGED <<chain, release_pool, free_list, ipaddr>>
      /\ UNCHANGED <<now, ip, slot_index, loaded, k, sweep_slot, accesses>>
      /\ UNCHANGED <<raced, crossed>>
  BY DEF FindKnown, sweep
<1>4. \/ /\ access_count' = [access_count EXCEPT ![e] = Cleared(e, slot_index)]
         /\ counter' = [counter EXCEPT ![e] = CountLeft(e, slot_index)]
      \/ UNCHANGED <<access_count, counter>>
  BY DEF FindKnown
<1>5. pc = "search"
  BY DEF FindKnown
<1> HIDE DEF e
<1>6. TypedLists' /\ Apart' /\ Home'
  BY <1>3, SameLists
<1>7. TypedFields'
  BY <1>1, <1>2, <1>3, <1>4 DEF Listed, TypedFields
<1>8. TypedCall' /\ TypedRest' /\ Held'
  BY <1>1, <1>3, <1>5 DEF Listed, TypedCall, TypedRest, Held, InCall
<1>9. Flags'
  BY <1>3, Zenon DEF Listed, Flags
<1> QED
  BY <1>6, <1>7, <1>8, <1>9 DEF Listed

\* allocate_new_entry() returns an entry that is in no list any more.
LEMMA Allocated ==
    ASSUME Listed, NEW e \in Allocatable,
           release_pool' = IF release_pool # <<>> THEN Tail(release_pool) ELSE <<>>
    PROVE  /\ e \in Entry /\ e \notin ToSet(free_list) /\ e \notin ToSet(release_pool')
           /\ \A b \in Bucket : e \notin ToSet(chain[b])
           /\ release_pool' \in Seq(Entry) /\ IsInjective(release_pool')
           /\ ToSet(release_pool') \subseteq ToSet(release_pool)
<1>1. release_pool \in Seq(Entry) /\ IsInjective(release_pool)
  BY DEF Listed, TypedLists, Apart
<1>2. CASE release_pool # <<>>
  <2>1. e = Head(release_pool) /\ release_pool' = Tail(release_pool)
    BY <1>2 DEF Allocatable
  <2>2. e \in Entry /\ e \in ToSet(release_pool) /\ release_pool' \in Seq(Entry)
        /\ IsInjective(release_pool') /\ ToSet(release_pool') = ToSet(release_pool) \ {e}
    BY <1>1, <1>2, <2>1, Popped
  <2> QED
    BY <2>2 DEF Listed, Apart
<1>3. CASE release_pool = <<>>
  BY <1>3, EmptyList DEF Allocatable
<1> QED
  BY <1>2, <1>3

LEMMA FreshTyped ==
    ASSUME Listed
    PROVE  FreshSlots \in [Index -> Slot]
<1> SUFFICES ASSUME NEW j \in Index
             PROVE  [slot_index |-> WindowSlot(slot_index, j), counter |-> 0] \in Slot
  BY DEF FreshSlots
<1> QED
  BY WindowSlotInt DEF Listed, TypedCall, Slot

LEMMA ListedFindNew ==
    ASSUME Listed, FindNew
    PROVE  Listed'
<1> DEFINE h == HashIndex(ip)
<1>1. PICK e \in Allocatable :
          /\ entry' = e
          /\ release_pool' = IF release_pool # <<>> THEN Tail(release_pool) ELSE <<>>
          /\ ipaddr' = [ipaddr EXCEPT ![e] = ip]
          /\ counter' = [counter EXCEPT ![e] = 0]
          /\ access_count' = [access_count EXCEPT ![e] = FreshSlots]
          /\ chain' = [chain EXCEPT ![h] = <<e>> \o @]
  BY DEF FindNew
<1>2. /\ e \in Entry /\ e \notin ToSet(free_list) /\ e \notin ToSet(release_pool')
      /\ \A b \in Bucket : e \notin ToSet(chain[b])
      /\ release_pool' \in Seq(Entry) /\ IsInjective(release_pool')
      /\ ToSet(release_pool') \subseteq ToSet(release_pool)
  BY <1>1, Allocated
<1>3. pc = "search" /\ pc' = "slot" /\ ip \in Ip /\ h \in Bucket
      /\ UNCHANGED <<free_list, now, ip, slot_index, loaded, k, sweep_slot, accesses>>
      /\ UNCHANGED <<raced, crossed>>
  BY ConstantFacts DEF FindNew, sweep, Listed, TypedCall
<1>4. chain[h] \in Seq(Entry) /\ IsInjective(chain[h]) /\ e \notin ToSet(chain[h])
  BY <1>2, <1>3 DEF Listed, TypedLists, Apart
<1> DEFINE new == <<e>> \o chain[h]
<1>5. new \in Seq(Entry) /\ ToSet(new) = ToSet(chain[h]) \cup {e} /\ IsInjective(new)
  BY <1>2, <1>4, Pushed
<1>6. chain' = [chain EXCEPT ![h] = new]
  BY <1>1
<1>7. FreshSlots \in [Index -> Slot]
  BY FreshTyped
<1> HIDE DEF h, new
<1>8. TypedLists'
  BY <1>2, <1>3, <1>5, <1>6 DEF Listed, TypedLists
<1>9. \A b \in Bucket : chain'[b] = IF b = h THEN new ELSE chain[b]
  BY <1>6 DEF Listed, TypedLists
<1>10. Apart'
  <2>1. \A b \in Bucket : IsInjective(chain'[b])
    BY <1>5, <1>9 DEF Listed, Apart
  <2>2. IsInjective(free_list') /\ IsInjective(release_pool')
    BY <1>2, <1>3 DEF Listed, Apart
  <2>3. \A b \in Bucket : ToSet(chain'[b]) = IF b = h THEN ToSet(chain[b]) \cup {e} ELSE ToSet(chain[b])
    BY <1>5, <1>9
  <2>4. ASSUME NEW b \in Bucket, NEW c \in Bucket, b # c
        PROVE  ToSet(chain'[b]) \cap ToSet(chain'[c]) = {}
    <3>1. ToSet(chain[b]) \cap ToSet(chain[c]) = {} /\ e \notin ToSet(chain[b]) /\ e \notin ToSet(chain[c])
      BY <1>2, <2>4 DEF Listed, Apart
    <3> QED
      BY <2>3, <2>4, <3>1
  <2>5. ASSUME NEW b \in Bucket
        PROVE  ToSet(chain'[b]) \cap (ToSet(free_list') \cup ToSet(release_pool')) = {}
    BY <1>2, <1>3, <2>3 DEF Listed, Apart
  <2>6. ToSet(free_list') \cap ToSet(release_pool') = {}
    BY <1>2, <1>3 DEF Listed, Apart
  <2> QED
    BY <2>1, <2>2, <2>4, <2>5, <2>6 DEF Apart
<1>11. Home'
  <2> SUFFICES ASSUME NEW b \in Bucket, NEW f \in ToSet(chain'[b])
               PROVE  ipaddr'[f] \in Ip /\ HashIndex(ipaddr'[f]) = b
    BY DEF Home
  <2>1. CASE f = e
    <3>1. b = h
      BY <1>2, <1>9, <2>1
    <3> QED
      BY <1>1, <1>2, <1>3, <2>1, <3>1 DEF Listed, TypedFields, h
  <2>2. CASE f # e
    <3>1. f \in ToSet(chain[b])
      BY <1>5, <1>9, <2>2
    <3>2. f \in Entry
      BY <3>1 DEF Listed, TypedLists, ToSet
    <3>3. ipaddr'[f] = ipaddr[f]
      BY <1>1, <2>2, <3>2 DEF Listed, TypedFields
    <3> QED
      BY <3>1, <3>3 DEF Listed, Home
  <2> QED
    BY <2>1, <2>2
<1>12. TypedFields'
  BY <1>1, <1>2, <1>3, <1>7 DEF Listed, TypedFields
<1>13. TypedCall' /\ TypedRest' /\ Held'
  BY <1>1, <1>2, <1>3 DEF Listed, TypedCall, TypedRest, Held, InCall
<1>14. Flags'
  BY <1>3, Zenon DEF Listed, Flags
<1> QED
  BY <1>8, <1>10, <1>11, <1>12, <1>13, <1>14 DEF Listed

LEMMA ListedStoreSlot ==
    ASSUME Listed, StoreSlot
    PROVE  Listed'
<1> DEFINE i == IndexOf(slot_index)
<1>1. entry \in Entry /\ i \in Index /\ loaded + 1 \in Nat
  BY ConstantFacts DEF StoreSlot, Listed, TypedCall, InCall
<1>2. access_count[entry] \in [Index -> Slot] /\ access_count[entry][i] \in Slot
  BY <1>1 DEF Listed, TypedFields
<1> DEFINE s == [access_count[entry][i] EXCEPT !.counter = loaded + 1]
<1>3. s \in Slot
  BY <1>1, <1>2 DEF Slot
<1>4. access_count' = [access_count EXCEPT ![entry] = [@ EXCEPT ![i] = s]]
  BY DEF StoreSlot
<1> HIDE DEF i, s
<1>5. TypedFields'
  <2> DEFINE slots == [access_count[entry] EXCEPT ![i] = s]
  <2>1. slots \in [Index -> Slot]
    BY <1>1, <1>2, <1>3
  <2>2. access_count' = [access_count EXCEPT ![entry] = slots]
    BY <1>4
  <2> HIDE DEF slots
  <2>3. access_count' \in [Entry -> [Index -> Slot]]
    BY <1>1, <2>1, <2>2 DEF Listed, TypedFields
  <2> QED
    BY <2>3 DEF StoreSlot, Listed, TypedFields
<1>6. TypedLists' /\ Apart' /\ Home'
  BY SameLists DEF StoreSlot, sweep
<1>7. TypedCall' /\ TypedRest' /\ Held'
  BY DEF StoreSlot, sweep, Listed, TypedCall, TypedRest, Held, InCall
<1>8. Flags'
  BY Zenon DEF StoreSlot, sweep, Listed, Flags
<1> QED
  BY <1>5, <1>6, <1>7, <1>8 DEF Listed

LEMMA ListedStoreCounter ==
    ASSUME Listed, StoreCounter, slot_index <= now
    PROVE  Listed'
<1>1. entry \in Entry /\ ip \in Ip /\ slot_index \in 0 .. MaxTime
  BY ConstantFacts DEF StoreCounter, Listed, TypedCall, TypedRest, InCall
<1>2. TypedFields'
  BY <1>1 DEF StoreCounter, Listed, TypedFields, TypedCall
<1>3. accesses' \in [Ip -> [0 .. MaxTime -> Nat]]
  <2> DEFINE row == [accesses[ip] EXCEPT ![slot_index] = @ + 1]
  <2>1. row \in [0 .. MaxTime -> Nat]
    <3> DEFINE old == accesses[ip]
    <3>1. old \in [0 .. MaxTime -> Nat]
      BY <1>1 DEF Listed, TypedRest
    <3> HIDE DEF old
    <3>2. [old EXCEPT ![slot_index] = @ + 1] \in [0 .. MaxTime -> Nat]
      BY <1>1, <3>1
    <3> QED
      BY <3>2 DEF old
  <2>2. accesses' = [accesses EXCEPT ![ip] = row]
    BY DEF StoreCounter
  <2> HIDE DEF row
  <2> QED
    BY <1>1, <2>1, <2>2 DEF Listed, TypedRest
<1>4. TypedCall' /\ TypedRest' /\ Held'
  BY <1>1, <1>3 DEF StoreCounter, sweep, Listed, TypedCall, TypedRest, Held, InCall
<1>5. TypedLists' /\ Apart' /\ Home'
  BY SameLists DEF StoreCounter, sweep
<1>6. Flags'
  BY Zenon DEF StoreCounter, sweep, Listed, Flags
<1> QED
  BY <1>2, <1>4, <1>5, <1>6 DEF Listed

\* Steps that change nothing but where the threads are, and what they have read.
LEMMA ListedReading ==
    ASSUME Listed, LoadSlot \/ LoadCounter \/ Return \/ SweepBegin \/ SweepEnd \/ Tick
    PROVE  Listed'
<1>1. UNCHANGED <<chain, release_pool, free_list, ipaddr, counter, access_count, accesses>>
  BY DEF LoadSlot, LoadCounter, Return, SweepBegin, SweepEnd, Tick, entries, sweep
<1>2. TypedLists' /\ Apart' /\ Home' /\ TypedFields'
  BY <1>1, SameLists DEF Listed, TypedFields
<1>3. CASE LoadSlot
  <2>1. access_count[entry][IndexOf(slot_index)] \in Slot
    BY <1>3, ConstantFacts DEF LoadSlot, Listed, TypedFields, TypedCall, InCall
  <2>2. loaded' \in Nat
    BY <1>3, <2>1 DEF LoadSlot, Slot
  <2>3. TypedCall' /\ TypedRest' /\ Held'
    BY <1>3, <2>2 DEF LoadSlot, Listed, TypedCall, TypedRest, Held, InCall, entries, sweep
  <2>4. Flags'
    BY <1>3, Zenon DEF LoadSlot, Listed, Flags
  <2> QED
    BY <1>2, <2>3, <2>4 DEF Listed
<1>4. CASE LoadCounter
  <2>1. loaded' \in Int
    BY <1>4 DEF LoadCounter, Listed, TypedFields, TypedCall, InCall
  <2>2. TypedCall' /\ TypedRest' /\ Held'
    BY <1>4, <2>1 DEF LoadCounter, Listed, TypedCall, TypedRest, Held, InCall, entries, sweep
  <2>3. Flags'
    BY <1>4, Zenon DEF LoadCounter, Listed, Flags
  <2> QED
    BY <1>2, <2>2, <2>3 DEF Listed
<1>5. CASE Return
  <2>1. TypedCall' /\ TypedRest' /\ Held'
    BY <1>5 DEF Return, Listed, TypedCall, TypedRest, Held, InCall, entries, sweep
  <2>2. Flags'
    BY <1>5, Zenon DEF Return, Listed, Flags
  <2> QED
    BY <1>2, <2>1, <2>2 DEF Listed
<1>6. CASE SweepBegin
  <2>1. TypedCall' /\ Held'
    BY <1>1, <1>6 DEF SweepBegin, call, Listed, TypedCall, Held, InCall
  <2>3. TypedRest'
    BY <1>1, <1>6, ConstantsAssumption DEF SweepBegin, call, Listed, TypedRest
  <2>2. Flags'
    BY <1>6, Zenon DEF SweepBegin, Listed, Flags, call
  <2> QED
    BY <1>2, <2>1, <2>2, <2>3 DEF Listed
<1>7. CASE SweepEnd
  <2>1. TypedCall' /\ Held'
    BY <1>1, <1>7 DEF SweepEnd, call, Listed, TypedCall, Held, InCall
  <2>3. TypedRest'
    BY <1>1, <1>7, ConstantsAssumption DEF SweepEnd, call, Listed, TypedRest
  <2>2. Flags'
    BY <1>7, Zenon DEF SweepEnd, Listed, Flags, call
  <2> QED
    BY <1>2, <2>1, <2>2, <2>3 DEF Listed
<1>8. CASE Tick
  <2>1. TypedCall' /\ Held'
    BY <1>1, <1>8 DEF Tick, sweep, Listed, TypedCall, Held, InCall
  <2>3. TypedRest'
    BY <1>1, <1>8, ConstantsAssumption DEF Tick, sweep, Listed, TypedRest
  <2>2. Flags'
    BY <1>8, Zenon DEF Tick, Listed, Flags
  <2> QED
    BY <1>2, <2>1, <2>2, <2>3 DEF Listed
<1> QED
  BY <1>3, <1>4, <1>5, <1>6, <1>7, <1>8

\* The lists after the sweep of a bucket.
LEMMA SweptLists ==
    ASSUME Listed, SweepBucket
    PROVE  /\ k \in Bucket /\ free_list = <<>> /\ chain'[k] \in Seq(Entry)
           /\ \A b \in Bucket : b # k => chain'[b] = chain[b]
           /\ ToSet(chain'[k]) = ToSet(chain[k]) \ Expired(k)
           /\ ToSet(free_list') = Expired(k) /\ Expired(k) \subseteq ToSet(chain[k])
           /\ free_list' \in Seq(Entry) /\ IsInjective(free_list') /\ IsInjective(chain'[k])
           /\ chain[k] # <<>> /\ Head(chain[k]) \notin Expired(k) =>
                chain'[k] # <<>> /\ Head(chain'[k]) = Head(chain[k])
<1> DEFINE all == ToSet(chain[k])
           kept == Only(chain[k], all \ Expired(k))
           gone == Only(chain[k], Expired(k))
<1>1. k \in Bucket /\ free_list = <<>> /\ free_list' = Reverse(gone)
      /\ chain' = [chain EXCEPT ![k] = kept]
  BY DEF SweepBucket
<1>2. chain[k] \in Seq(Entry) /\ IsInjective(chain[k])
  BY <1>1 DEF Listed, TypedLists, Apart
<1>3. /\ kept \in Seq(Entry) /\ ToSet(kept) = all \cap (all \ Expired(k)) /\ IsInjective(kept)
      /\ chain[k] # <<>> /\ Head(chain[k]) \in all \ Expired(k) =>
            kept # <<>> /\ Head(kept) = Head(chain[k])
  BY <1>2, OnlyFacts
<1>4. gone \in Seq(Entry) /\ ToSet(gone) = all \cap Expired(k) /\ IsInjective(gone)
  BY <1>2, OnlyFacts
<1>5. free_list' \in Seq(Entry) /\ ToSet(free_list') = all \cap Expired(k) /\ IsInjective(free_list')
  <2> HIDE DEF gone, all
  <2> QED
    BY <1>1, <1>4, Reversed
<1>6. Expired(k) \subseteq all
  BY DEF Expired
<1>7. chain[k] # <<>> => Head(chain[k]) \in all
  BY <1>2, Popped
<1> HIDE DEF kept, gone
<1>8. chain'[k] = kept /\ \A b \in Bucket : b # k => chain'[b] = chain[b]
  BY <1>1 DEF Listed, TypedLists
<1> HIDE DEF all
<1> QED
  BY <1>1, <1>3, <1>5, <1>6, <1>7, <1>8 DEF all

LEMMA ListedSweepBucket ==
    ASSUME Listed, SweepBucket
    PROVE  Listed'
<1>1. /\ k \in Bucket /\ free_list = <<>> /\ chain'[k] \in Seq(Entry)
      /\ \A b \in Bucket : b # k => chain'[b] = chain[b]
      /\ ToSet(chain'[k]) = ToSet(chain[k]) \ Expired(k)
      /\ ToSet(free_list') = Expired(k) /\ Expired(k) \subseteq ToSet(chain[k])
      /\ free_list' \in Seq(Entry) /\ IsInjective(free_list') /\ IsInjective(chain'[k])
  BY SweptLists
<1>2. DOMAIN chain' = Bucket
  BY DEF SweepBucket, Listed, TypedLists
<1>3. /\ UNCHANGED <<release_pool, ipaddr, accesses, now, pc, ip, slot_index, entry, loaded, sweep_slot>>
      /\ UNCHANGED crossed /\ k' = k + 1
  BY DEF SweepBucket, call
<1>4. \E f : chain' = [b \in Bucket |-> f[b]]
  BY ZenonT(30) DEF SweepBucket, Listed, TypedLists
<1>5. TypedLists'
  BY <1>1, <1>3, <1>4 DEF Listed, TypedLists
<1>6. Apart'
  BY <1>1, <1>3, ZenonT(30) DEF Listed, Apart
<1>7. Home'
  BY <1>1, <1>3 DEF Listed, Home
<1>8. Held'
  <2> SUFFICES ASSUME pc = "search", entry # None
               PROVE  entry \in ToSet(chain'[HashIndex(ip)]) \cup ToSet(free_list')
                                 \cup ToSet(release_pool)
    BY <1>3 DEF Held
  <2>1. HashIndex(ip) \in Bucket
    BY ConstantFacts DEF Listed, TypedCall
  <2>2. ToSet(free_list) = {}
    BY <1>1, EmptyList
  <2>3. entry \in ToSet(chain[HashIndex(ip)]) \cup ToSet(release_pool)
    BY <2>2 DEF Listed, Held
  <2> QED
    BY <1>1, <2>1, <2>3
<1>9. TypedFields'
  <2> DEFINE all == ToSet(chain[k])
  <2>1. all \subseteq Entry
    BY <1>1 DEF Listed, TypedLists, ToSet
  <2>2. sweep_slot \in Nat
    BY DEF Listed, TypedRest
  <2>3. \A e \in Entry : Cleared(e, sweep_slot) \in [Index -> Slot] /\ CountLeft(e, sweep_slot) \in Int
    BY <2>2, ClearedTyped DEF Listed
  <2>4. \A e \in Entry : access_count[e] \in [Index -> Slot] /\ counter[e] \in Int
    BY DEF Listed, TypedFields
  <2>5. access_count' \in [Entry -> [Index -> Slot]] /\ counter' \in [Entry -> Int]
    BY <2>3, <2>4 DEF SweepBucket
  <2> QED
    BY <1>3, <2>5 DEF Listed, TypedFields
<1>10. TypedCall' /\ TypedRest'
  <2>1. TypedCall'
    BY <1>3 DEF Listed, TypedCall, InCall
  <2>2. k' \in -1 .. HashSize
    BY <1>1, <1>3, ConstantsAssumption DEF Bucket
  <2> QED
    BY <1>3, <2>1, <2>2 DEF Listed, TypedRest
<1>11. Flags'
  BY Zenon DEF SweepBucket, call, Listed, Flags
<1> QED
  BY <1>5, <1>6, <1>7, <1>8, <1>9, <1>10, <1>11 DEF Listed

LEMMA ListedFreeEntry ==
    ASSUME Listed, FreeEntry
    PROVE  Listed'
<1> DEFINE e == Head(free_list)
<1>1. free_list \in Seq(Entry) /\ IsInjective(free_list) /\ free_list # <<>>
      /\ release_pool \in Seq(Entry) /\ IsInjective(release_pool)
  BY DEF FreeEntry, Listed, TypedLists, Apart
<1>2. /\ e \in Entry /\ e \in ToSet(free_list)
      /\ free_list' \in Seq(Entry) /\ ToSet(free_list') = ToSet(free_list) \ {e}
      /\ IsInjective(free_list')
  BY <1>1, Popped DEF FreeEntry
<1>3. e \notin ToSet(release_pool)
  BY <1>2 DEF Listed, Apart
<1>4. /\ release_pool' \in Seq(Entry) /\ ToSet(release_pool') = ToSet(release_pool) \cup {e}
      /\ IsInjective(release_pool')
  BY <1>1, <1>2, <1>3, Pushed DEF FreeEntry
<1>5. UNCHANGED <<chain, ipaddr, counter, access_count, now, k, sweep_slot, accesses, pc, ip,
                  slot_index, entry, loaded>> /\ UNCHANGED <<raced, crossed>>
  BY DEF FreeEntry, call
<1> HIDE DEF e
<1>6. TypedLists' /\ Apart' /\ Home' /\ Held'
  BY <1>2, <1>4, <1>5 DEF Listed, TypedLists, Apart, Home, Held
<1>7. TypedFields' /\ TypedCall' /\ TypedRest'
  BY <1>5 DEF Listed, TypedFields, TypedCall, TypedRest, InCall
<1>8. Flags'
  BY <1>5, Zenon DEF Listed, Flags
<1> QED
  BY <1>6, <1>7, <1>8 DEF Listed

-----------------------------------------------------------------------------
(* The slots of an entry and their sum.                                                        *)

Total(slots) == SumFunction([j \in Index |-> slots[j].counter])

LEMMA TotalNat ==
    ASSUME NEW a \in [Index -> Slot]
    PROVE  Total(a) \in Nat /\ (Total(a) = 0 <=> \A j \in Index : a[j].counter = 0)
<1> DEFINE f == [j \in Index |-> a[j].counter]
<1>1. IsFiniteSet(Index) /\ \A j \in Index : f[j] \in Nat
  BY ConstantFacts DEF Slot
<1>2. DOMAIN f = Index /\ \A j \in Index : f[j] = a[j].counter
  OBVIOUS
<1>3. Total(a) = SumFunctionOnSet(f, Index)
  BY DEF Total, SumFunction
<1> HIDE DEF f
<1>4. /\ SumFunctionOnSet(f, Index) \in Nat
      /\ SumFunctionOnSet(f, Index) = 0 <=> \A j \in Index : f[j] = 0
  BY <1>1, SumNat
<1> QED
  BY <1>2, <1>3, <1>4

LEMMA TotalIncreased ==
    ASSUME NEW a \in [Index -> Slot], NEW b \in [Index -> Slot], NEW i \in Index,
           b[i].counter = a[i].counter + 1, \A j \in Index \ {i} : b[j].counter = a[j].counter
    PROVE  Total(b) = Total(a) + 1
<1> DEFINE f == [j \in Index |-> a[j].counter]
           g == [j \in Index |-> b[j].counter]
<1>1. /\ IsFiniteSet(Index) /\ \A j \in Index : f[j] \in Int
      /\ g[i] = f[i] + 1 /\ \A j \in Index \ {i} : g[j] = f[j]
  BY ConstantFacts DEF Slot
<1>2. Total(a) = SumFunctionOnSet(f, Index) /\ Total(b) = SumFunctionOnSet(g, Index)
  BY DEF Total, SumFunction
<1> HIDE DEF f, g
<1>3. SumFunctionOnSet(g, Index) = SumFunctionOnSet(f, Index) + 1
  BY <1>1, SumIncreased
<1> QED
  BY <1>2, <1>3

\* What clear_outdated_data() takes from the counter, it takes from the slots.
LEMMA TotalCleared ==
    ASSUME TypedFields, NEW e \in Entry, NEW u \in Nat
    PROVE  CountLeft(e, u) - counter[e] = Total(Cleared(e, u)) - Total(access_count[e])
<1> DEFINE f == [j \in Index |-> access_count[e][j].counter]
           g == [j \in Index |-> Cleared(e, u)[j].counter]
           C == Outdated(e, u)
           d == [j \in C |-> access_count[e][j].counter]
<1>1. /\ IsFiniteSet(Index) /\ C \in SUBSET Index /\ IsFiniteSet(C)
  BY ConstantFacts, FS_Subset DEF Outdated
<1>2. access_count[e] \in [Index -> Slot] /\ counter[e] \in Int
  BY DEF TypedFields
<1>3. \A j \in Index : f[j] \in Int
  BY <1>2 DEF Slot
<1>4. (\A j \in C : g[j] = 0) /\ (\A j \in Index \ C : g[j] = f[j])
  BY <1>1 DEF Cleared
<1>5. \A j \in C : f[j] \in Int /\ d[j] = f[j]
  BY <1>1, <1>3
<1>6. Total(access_count[e]) = SumFunctionOnSet(f, Index) /\ Total(Cleared(e, u)) = SumFunctionOnSet(g, Index)
  BY DEF Total, SumFunction
<1>7. CountLeft(e, u) = counter[e] - SumFunctionOnSet(d, C)
  BY DEF CountLeft, SumFunction
<1> HIDE DEF f, g, C, d
<1>8. SumFunctionOnSet(g, Index) = SumFunctionOnSet(f, Index) - SumFunctionOnSet(f, C)
  BY <1>1, <1>3, <1>4, SumCleared
<1>9. SumFunctionOnSet(f, C) = SumFunctionOnSet(d, C)
  BY <1>1, <1>5, SumSame
<1>10. SumFunctionOnSet(f, C) \in Int /\ SumFunctionOnSet(f, Index) \in Int
  BY <1>1, <1>3, <1>5, SumAny
<1> DEFINE x == SumFunctionOnSet(f, C)
           y == SumFunctionOnSet(f, Index)
           z == SumFunctionOnSet(g, Index)
<1>11. x \in Int /\ y \in Int /\ z = y - x
  BY <1>8, <1>10
<1>12. CountLeft(e, u) = counter[e] - x /\ Total(access_count[e]) = y /\ Total(Cleared(e, u)) = z
  BY <1>6, <1>7, <1>9
<1> HIDE DEF x, y, z
<1> QED
  BY <1>2, <1>11, <1>12

\* The slots that end with n, added up, are the window that ends with n.
LEMMA TotalWindow ==
    ASSUME NEW n \in Reserved .. MaxTime, NEW x \in [0 .. MaxTime -> Nat], NEW a \in [Index -> Slot],
           \A j \in Index : a[j].counter = x[WindowSlot(n, j)]
    PROVE  Total(a) = SumFunctionOnSet(x, {s \in 0 .. MaxTime : n - Reserved < s /\ s <= n})
<1> DEFINE f == [j \in Index |-> a[j].counter]
           b == [j \in Index |-> WindowSlot(n, j)]
           W == {s \in 0 .. MaxTime : n - Reserved < s /\ s <= n}
<1>1. n \in Nat /\ n >= Reserved /\ n <= MaxTime /\ Reserved \in Nat /\ MaxTime \in Nat
  BY ConstantsAssumption
<1>2. \A j \in Index : /\ WindowSlot(n, j) \in Nat /\ n - Reserved < WindowSlot(n, j)
                       /\ WindowSlot(n, j) <= n /\ IndexOf(WindowSlot(n, j)) = j
  BY <1>1, InWindow
<1>3. IsFiniteSet(Index) /\ \A j \in Index : f[j] \in Int /\ x[b[j]] = f[j]
  <2>1. ASSUME NEW j \in Index PROVE f[j] \in Int /\ x[b[j]] = f[j]
    BY DEF Slot
  <2> QED
    BY <2>1, ConstantFacts
<1>4. \A i, j \in Index : b[i] = b[j] => i = j
  BY <1>2
<1>5. b \in [Index -> W] /\ \A s \in W : \E j \in Index : b[j] = s
  <2>1. b \in [Index -> W]
    BY <1>1, <1>2
  <2>2. ASSUME NEW s \in W PROVE \E j \in Index : b[j] = s
    <3>1. IndexOf(s) \in Index /\ WindowSlot(n, IndexOf(s)) = s
      BY <1>1, PlaceOf
    <3> QED
      BY <3>1
  <2> QED
    BY <2>1, <2>2
<1>6. Total(a) = SumFunctionOnSet(f, Index)
  BY DEF Total, SumFunction
<1> HIDE DEF f, b, W
<1>7. SumFunctionOnSet(f, Index) = SumFunctionOnSet(x, W)
  <2>1. \A j \in Index : f[j] \in Int /\ x[b[j]] = f[j]
    BY <1>3
  <2> QED
    <3>1. PICK g : g = x
      OBVIOUS
    <3>2. b \in [Index -> W]
      BY <1>5
    <3>3. \A i, j \in Index : b[i] = b[j] => i = j
      BY <1>4
    <3>4. \A s \in W : \E j \in Index : b[j] = s
      BY <1>5
    <3>5. \A j \in Index : f[j] \in Int /\ g[b[j]] = f[j]
      BY <2>1, <3>1
    <3>6. IsFiniteSet(Index)
      BY <1>3
    <3>7. SumFunctionOnSet(f, Index) = SumFunctionOnSet(g, W)
      BY ONLY <3>2, <3>3, <3>4, <3>5, <3>6, SumMoved
    <3> QED
      BY <3>1, <3>7
<1>8. Total(a) = SumFunctionOnSet(x, W)
  BY <1>6, <1>7
<1> QED
  BY <1>8 DEF W

-----------------------------------------------------------------------------
(* The clocks, whether or not the threads raced.                                               *)

Clock ==
    /\ Reserved <= now
    /\ pc # "idle" => slot_index \in Reserved .. now /\ now <= slot_index + 1
    /\ pc # "idle" /\ ~crossed => now <= slot_index
    /\ k # -1 => sweep_slot \in Reserved .. now
    /\ seen # None => seen.slot_index \in 0 .. now

\* Nothing has been counted in a slot that find_and_increase() has not read from the clock.
Past ==
    \A p \in Ip : \A s \in 0 .. MaxTime :
        s > now \/ (pc # "idle" /\ s > slot_index) => accesses[p][s] = 0

LEMMA ClockInit == Init => Clock /\ Past
BY ConstantsAssumption DEF Init, Clock, Past

LEMMA ClockStep ==
    ASSUME Listed, Clock, Next
    PROVE  Clock'
<1>1. now \in Nat /\ slot_index \in Nat /\ sweep_slot \in Nat /\ k \in Int /\ Reserved \in Nat
  BY ConstantsAssumption DEF Listed, TypedRest, TypedCall
<1>2. ASSUME NEW p \in Ip, FindBegin(p) PROVE Clock'
  BY <1>1, <1>2 DEF FindBegin, entries, sweep, Clock
<1>3. CASE FindKnown
  BY <1>3 DEF FindKnown, sweep, Clock
<1>4. CASE FindNew
  BY <1>4 DEF FindNew, sweep, Clock
<1>5. CASE LoadSlot
  BY <1>5 DEF LoadSlot, sweep, Clock
<1>6. CASE StoreSlot
  BY <1>6 DEF StoreSlot, sweep, Clock
<1>7. CASE LoadCounter
  BY <1>7 DEF LoadCounter, sweep, Clock
<1>8. CASE StoreCounter
  BY <1>8 DEF StoreCounter, sweep, Clock
<1>9. CASE Return
  <2>1. seen'.slot_index \in 0 .. now
    BY <1>1, <1>9 DEF Return, Clock
  <2> QED
    BY <1>9, <2>1 DEF Return, sweep, Clock
<1>10. CASE SweepBegin
  BY <1>1, <1>10 DEF SweepBegin, call, Clock
<1>11. CASE SweepBucket
  <2>1. k # -1
    BY <1>11 DEF SweepBucket, Bucket
  <2> QED
    BY <1>11, <2>1 DEF SweepBucket, call, Clock
<1>12. CASE FreeEntry
  BY <1>12 DEF FreeEntry, call, Clock
<1>13. CASE SweepEnd
  BY <1>13 DEF SweepEnd, call, Clock
<1>14. CASE Tick
  <2>1. /\ now' = now + 1 /\ UNCHANGED <<pc, slot_index, k, sweep_slot, seen>>
        /\ pc # "idle" => ~crossed
    BY <1>14 DEF Tick, sweep
  <2>2. pc # "idle" => now <= slot_index
    BY <2>1 DEF Clock
  <2>3. pc # "idle" => crossed'
    BY <1>14 DEF Tick
  <2>4. pc' # "idle" => slot_index' \in Reserved .. now' /\ now' <= slot_index' + 1
    BY <1>1, <2>1, <2>2 DEF Clock
  <2>5. ~(pc' # "idle" /\ ~crossed')
    BY <2>1, <2>3
  <2>6. Reserved <= now' /\ (k' # -1 => sweep_slot' \in Reserved .. now')
    BY <1>1, <2>1 DEF Clock
  <2>7. seen' # None => seen'.slot_index \in 0 .. now'
    BY <1>1, <2>1 DEF Clock
  <2> QED
    BY <2>4, <2>5, <2>6, <2>7 DEF Clock
<1> QED
  BY <1>2, <1>3, <1>4, <1>5, <1>6, <1>7, <1>8, <1>9, <1>10, <1>11, <1>12, <1>13, <1>14 DEF Next

LEMMA PastStep ==
    ASSUME Listed, Clock, Past, Next
    PROVE  Past'
<1>1. now \in Nat /\ slot_index \in Nat
  BY DEF Listed, TypedRest, TypedCall
<1>2. CASE StoreCounter
  <2>1. ip \in Ip /\ slot_index \in 0 .. MaxTime /\ slot_index <= now
    BY <1>2, ConstantsAssumption DEF StoreCounter, Listed, TypedCall, TypedRest, Clock
  <2>2. UNCHANGED <<now, slot_index>> /\ pc # "idle"
    BY <1>2 DEF StoreCounter
  <2>3. ASSUME NEW p \in Ip, NEW s \in 0 .. MaxTime, s # slot_index
        PROVE  accesses'[p][s] = accesses[p][s]
    BY <1>2, <2>1, <2>3 DEF StoreCounter, Listed, TypedRest
  <2> SUFFICES ASSUME NEW p \in Ip, NEW s \in 0 .. MaxTime, s > now \/ s > slot_index
               PROVE  accesses'[p][s] = 0
    BY <2>2 DEF Past
  <2>4. s # slot_index
    BY <1>1, <2>1
  <2> QED
    BY <2>2, <2>3, <2>4 DEF Past
<1>3. CASE UNCHANGED accesses /\ ~StoreCounter
  <2>1. now' = now \/ now' = now + 1
    BY <1>3 DEF Next, FindBegin, FindKnown, FindNew, LoadSlot, StoreSlot, LoadCounter, Return,
                SweepBegin, SweepBucket, FreeEntry, SweepEnd, Tick
  <2>2. pc' # "idle" => (pc # "idle" /\ slot_index' = slot_index) \/ slot_index' = now
    BY <1>3 DEF Next, FindBegin, FindKnown, FindNew, LoadSlot, StoreSlot, LoadCounter, Return,
                SweepBegin, SweepBucket, FreeEntry, SweepEnd, Tick, call
  <2> SUFFICES ASSUME NEW p \in Ip, NEW s \in 0 .. MaxTime,
                      s > now' \/ (pc' # "idle" /\ s > slot_index')
               PROVE  accesses[p][s] = 0
    BY <1>3 DEF Past
  <2> QED
    BY <1>1, <2>1, <2>2 DEF Past
<1>4. UNCHANGED accesses \/ StoreCounter
  BY DEF Next, FindBegin, FindKnown, FindNew, LoadSlot, StoreSlot, LoadCounter, Return,
         SweepBegin, SweepBucket, FreeEntry, SweepEnd, Tick
<1> QED
  BY <1>2, <1>3, <1>4

\* The other steps leave the lists in order as well.
LEMMA ListedStep ==
    ASSUME Listed, Clock, Next
    PROVE  Listed'
<1>1. StoreCounter => slot_index <= now
  BY DEF StoreCounter, Clock, Listed, TypedRest, TypedCall
<1> QED
  BY <1>1, ListedFindBegin, ListedFindKnown, ListedFindNew, ListedStoreSlot, ListedStoreCounter,
     ListedReading, ListedSweepBucket, ListedFreeEntry DEF Next

-----------------------------------------------------------------------------
(* The table, as long as the threads have not raced.                                           *)

\* The head of the bucket is still the one that was read before the lock was taken.
Searching ==
    pc = "search" =>
        entry = IF chain[HashIndex(ip)] = <<>> THEN None ELSE Head(chain[HashIndex(ip)])

\* The entry that find_and_increase() counts in is the entry of the address.
Calling == InCall => entry \in ToSet(chain[HashIndex(ip)]) /\ ipaddr[entry] = ip

Single == \A b \in Bucket : \A e, f \in ToSet(chain[b]) : ipaddr[e] = ipaddr[f] => e = f

Table == Searching /\ Calling /\ Single

\* The search passes the whole bucket.
LEMMA WalkIsBucket ==
    ASSUME Listed, Searching, pc = "search"
    PROVE  Walk(entry) = chain[HashIndex(ip)]
<1> DEFINE c == chain[HashIndex(ip)]
           lists == {c, free_list, release_pool}
           list == CHOOSE s \in lists : Contains(s, entry)
           from == CHOOSE j \in 1 .. Len(list) : list[j] = entry
<1>1. HashIndex(ip) \in Bucket
  BY ConstantFacts DEF Listed, TypedCall
<1>2. c \in Seq(Entry) /\ IsInjective(c) /\ ToSet(c) \cap (ToSet(free_list) \cup ToSet(release_pool)) = {}
      /\ free_list \in Seq(Entry) /\ release_pool \in Seq(Entry)
  BY <1>1 DEF Listed, TypedLists, Apart
<1>3. entry = IF c = <<>> THEN None ELSE Head(c)
  BY DEF Searching
<1>4. CASE c = <<>>
  BY <1>3, <1>4 DEF Walk
<1>5. CASE c # <<>>
  <2>1. entry = Head(c) /\ entry \in ToSet(c) /\ entry # None
    <3> HIDE DEF c
    <3>1. None \notin Entry
      BY ConstantFacts
    <3>2. Head(c) \in Entry /\ Head(c) \in ToSet(c)
      BY <1>2, <1>5, Popped
    <3> QED
      BY <1>3, <1>5, <3>1, <3>2
  <2>2. Walk(entry) = SubSeq(list, from, Len(list))
    BY <2>1 DEF Walk
  <2>3. \A s \in lists : Contains(s, entry) => entry \in ToSet(s)
    BY <1>2 DEF Contains, ToSet
  <2>4. Contains(c, entry)
    BY <1>2, <2>1 DEF Contains, ToSet
  <2>5. list = c
    <3> HIDE DEF c
    <3>1. \A s \in lists : Contains(s, entry) => s = c
      BY <1>2, <2>1, <2>3
    <3>2. list \in lists /\ Contains(list, entry)
      BY <2>4
    <3> HIDE DEF lists, list
    <3> QED
      BY <3>1, <3>2
  <2>6. from = 1
    <3>1. 1 \in 1 .. Len(c) /\ c[1] = entry
      BY <1>2, <1>5, <2>1
    <3>2. \A j \in 1 .. Len(c) : c[j] = entry => j = 1
      BY <1>2, <3>1 DEF IsInjective
    <3> HIDE DEF c, list
    <3> QED
      BY <2>5, <3>1, <3>2
  <2>7. SubSeq(c, 1, Len(c)) = c
    <3> HIDE DEF c
    <3> QED
      BY <1>2
  <2> HIDE DEF list, from, c
  <2> QED
    BY <2>2, <2>5, <2>6, <2>7 DEF c
<1> QED
  BY <1>4, <1>5

\* So the search finds the entry of the address, if there is one.
LEMMA Found ==
    ASSUME Listed, Searching, pc = "search"
    PROVE  /\ Matches # {} => Walk(entry)[Min(Matches)] \in ToSet(chain[HashIndex(ip)])
           /\ Matches = {} => \A f \in ToSet(chain[HashIndex(ip)]) : ipaddr[f] # ip
<1>1. Walk(entry) = chain[HashIndex(ip)]
  BY WalkIsBucket
<1>2. chain[HashIndex(ip)] \in Seq(Entry)
  BY ConstantFacts DEF Listed, TypedCall, TypedLists
<1>3. ASSUME Matches # {} PROVE Walk(entry)[Min(Matches)] \in ToSet(chain[HashIndex(ip)])
  BY <1>1, <1>3, FirstMatch DEF ToSet
<1>4. ASSUME Matches = {} PROVE \A f \in ToSet(chain[HashIndex(ip)]) : ipaddr[f] # ip
  BY <1>1, <1>4 DEF Matches, ToSet
<1> QED
  BY <1>3, <1>4

LEMMA TableFind ==
    ASSUME Listed, Table, FindKnown
    PROVE  Table'
<1>1. pc = "search" /\ pc' = "slot" /\ Matches # {} /\ entry' = Walk(entry)[Min(Matches)]
      /\ UNCHANGED <<ip, chain, ipaddr>>
  BY DEF FindKnown
<1>2. entry' \in ToSet(chain[HashIndex(ip)]) /\ ipaddr[entry'] = ip
  BY <1>1, Found, FirstMatch DEF Table
<1> QED
  BY <1>1, <1>2 DEF Table, Searching, Calling, Single

LEMMA TableAdd ==
    ASSUME Listed, Table, FindNew
    PROVE  Table' /\ InTable(ip) = {}
<1> DEFINE h == HashIndex(ip)
<1>1. PICK e \in Allocatable :
          /\ entry' = e
          /\ release_pool' = IF release_pool # <<>> THEN Tail(release_pool) ELSE <<>>
          /\ ipaddr' = [ipaddr EXCEPT ![e] = ip]
          /\ chain' = [chain EXCEPT ![h] = <<e>> \o @]
  BY DEF FindNew
<1>2. e \in Entry /\ \A b \in Bucket : e \notin ToSet(chain[b])
  BY <1>1, Allocated
<1>3. pc = "search" /\ pc' = "slot" /\ h \in Bucket /\ UNCHANGED ip /\ Matches = {}
  BY ConstantFacts DEF FindNew, Listed, TypedCall
<1>4. \A f \in ToSet(chain[h]) : ipaddr[f] # ip
  BY <1>3, Found DEF Table
<1>5. \A b \in Bucket : ToSet(chain'[b]) = IF b = h THEN ToSet(chain[b]) \cup {e} ELSE ToSet(chain[b])
  <2>1. chain[h] \in Seq(Entry)
    BY <1>3 DEF Listed, TypedLists
  <2>2. ToSet(<<e>> \o chain[h]) = ToSet(chain[h]) \cup {e}
    BY <1>2, <2>1, Pushed
  <2> HIDE DEF h
  <2> QED
    BY <1>1, <1>3, <2>2 DEF Listed, TypedLists
<1>6. ipaddr'[e] = ip /\ \A b \in Bucket : \A f \in ToSet(chain[b]) : ipaddr'[f] = ipaddr[f]
  <2>1. \A b \in Bucket : \A f \in ToSet(chain[b]) : f \in Entry /\ f # e
    BY <1>2 DEF Listed, TypedLists, ToSet
  <2> QED
    BY <1>1, <1>2, <2>1 DEF Listed, TypedFields
<1>7. Searching' /\ Calling'
  <2>1. entry' \in ToSet(chain'[h]) /\ ipaddr'[entry'] = ip
    <3> HIDE DEF h
    <3>1. ToSet(chain'[h]) = ToSet(chain[h]) \cup {e}
      BY <1>3, <1>5
    <3>2. entry' = e
      BY <1>1
    <3> QED
      BY <1>6, <3>1, <3>2
  <2> QED
    BY <1>3, <2>1 DEF Searching, Calling
<1> HIDE DEF h
<1>8. Single'
  <2> SUFFICES ASSUME NEW b \in Bucket, NEW f \in ToSet(chain'[b]), NEW g \in ToSet(chain'[b]),
                      ipaddr'[f] = ipaddr'[g]
               PROVE  f = g
    BY DEF Single
  <2>1. CASE b # h
    BY <1>5, <1>6, <2>1 DEF Table, Single
  <2>2. CASE b = h
    <3>1. f # e => f \in ToSet(chain[h]) /\ ipaddr'[f] = ipaddr[f] /\ ipaddr[f] # ip
      BY <1>3, <1>4, <1>5, <1>6, <2>2
    <3>2. g # e => g \in ToSet(chain[h]) /\ ipaddr'[g] = ipaddr[g] /\ ipaddr[g] # ip
      BY <1>3, <1>4, <1>5, <1>6, <2>2
    <3> QED
      BY <1>3, <1>6, <3>1, <3>2 DEF Table, Single
  <2> QED
    BY <2>1, <2>2
<1> QED
  BY <1>4, <1>7, <1>8 DEF Table, InTable, h

LEMMA TableSweep ==
    ASSUME Listed, Table, SweepBucket, ~Spoils(k)
    PROVE  Table'
<1>1. /\ k \in Bucket /\ chain'[k] \in Seq(Entry)
      /\ \A b \in Bucket : b # k => chain'[b] = chain[b]
      /\ ToSet(chain'[k]) = ToSet(chain[k]) \ Expired(k)
      /\ chain[k] # <<>> /\ Head(chain[k]) \notin Expired(k) =>
            chain'[k] # <<>> /\ Head(chain'[k]) = Head(chain[k])
  BY SweptLists
<1>2. UNCHANGED <<pc, ip, entry, ipaddr>>
  BY DEF SweepBucket, call
<1>3. pc # "idle" => entry \notin Expired(k)
  BY DEF Spoils
<1>4. pc # "idle" => HashIndex(ip) \in Bucket
  BY ConstantFacts DEF Listed, TypedCall
<1>5. chain[k] = <<>> => chain'[k] = <<>>
  <2>1. chain[k] = <<>> => ToSet(chain'[k]) = {}
    BY <1>1, EmptyList
  <2>2. chain'[k] # <<>> => chain'[k][1] \in ToSet(chain'[k])
    BY <1>1 DEF ToSet
  <2> QED
    BY <2>1, <2>2
<1>6. Searching'
  BY <1>1, <1>2, <1>3, <1>4, <1>5 DEF Searching, Table
<1>7. Calling'
  BY <1>1, <1>2, <1>3, <1>4 DEF Calling, Table, InCall
<1>8. Single'
  <2> SUFFICES ASSUME NEW b \in Bucket, NEW f \in ToSet(chain'[b]), NEW g \in ToSet(chain'[b]),
                      ipaddr[f] = ipaddr[g]
               PROVE  f = g
    BY <1>2 DEF Single
  <2>1. f \in ToSet(chain[b]) /\ g \in ToSet(chain[b])
    BY <1>1
  <2> QED
    BY <2>1 DEF Table, Single
<1> QED
  BY <1>6, <1>7, <1>8 DEF Table

\* Once raced, always raced; only a sweep gets in the way.
LEMMA Unraced ==
    ASSUME Next, ~raced'
    PROVE  ~raced /\ (SweepBucket => ~Spoils(k))
<1>1. SweepBucket \/ raced' = raced
  BY DEF Next, FindBegin, FindKnown, FindNew, LoadSlot, StoreSlot, LoadCounter, StoreCounter,
         Return, SweepBegin, FreeEntry, SweepEnd, Tick
<1>2. SweepBucket => raced' = (raced \/ Spoils(k))
  BY DEF SweepBucket
<1>3. CASE SweepBucket
  BY <1>2, <1>3, Zenon
<1>4. CASE ~SweepBucket
  <2>1. raced' = raced
    BY <1>1, <1>4
  <2>2. ~raced
    BY <2>1
  <2> QED
    BY <1>4, <2>2
<1> QED
  BY <1>3, <1>4

LEMMA TableStep ==
    ASSUME Listed, Table, Next, ~raced'
    PROVE  Table'
<1>1. SweepBucket => ~Spoils(k)
  BY Unraced
<1>2. Table
  OBVIOUS
<1>3. CASE FindKnown \/ FindNew \/ SweepBucket
  BY <1>1, <1>2, <1>3, TableFind, TableAdd, TableSweep
<1>4. ASSUME NEW p \in Ip, FindBegin(p) PROVE Table'
  BY <1>2, <1>4 DEF FindBegin, entries, Table, Searching, Calling, Single, InCall
<1>5. CASE LoadSlot \/ StoreSlot \/ LoadCounter \/ StoreCounter \/ Return
  BY <1>2, <1>5 DEF LoadSlot, StoreSlot, LoadCounter, StoreCounter, Return, entries,
                    Table, Searching, Calling, Single, InCall
<1>6. CASE SweepBegin \/ FreeEntry \/ SweepEnd \/ Tick
  <2>1. UNCHANGED <<pc, ip, entry, chain, ipaddr>>
    BY <1>6 DEF SweepBegin, FreeEntry, SweepEnd, Tick, entries, call
  <2> QED
    BY <1>2, <2>1 DEF Table, Searching, Calling, Single, InCall
<1> QED
  BY <1>3, <1>4, <1>5, <1>6 DEF Next

-----------------------------------------------------------------------------
(* The counts, as long as the threads have not raced.                                          *)

\* find_and_increase() has counted in the slot, and not yet in the entry.
Halfway(e) == pc \in {"counter", "storeCounter"} /\ e = entry
Ahead(e, s) == IF Halfway(e) /\ s = slot_index THEN 1 ELSE 0
Behind(e) == IF Halfway(e) THEN 1 ELSE 0

\* The slots of the entry are the window that ends with slot t, and nothing was counted since.
TimedAt(e, t) ==
    /\ \A j \in Index : access_count[e][j].slot_index = WindowSlot(t, j)
    /\ \A s \in 0 .. MaxTime : s > t => accesses[ipaddr[e]][s] = 0
    /\ InCall /\ e = entry => slot_index <= t

Timed(e) == \E t \in Reserved .. now : TimedAt(e, t)

\* A slot that is within the window of the clock has counted every access.
Exact(e) ==
    \A j \in Index :
        access_count[e][j].slot_index > now - Reserved =>
            access_count[e][j].counter =
                accesses[ipaddr[e]][access_count[e][j].slot_index] + Ahead(e, access_count[e][j].slot_index)

Summed(e) == counter[e] + Behind(e) = Total(access_count[e])

Counted(e) == Timed(e) /\ Exact(e) /\ Summed(e)

\* What find_and_increase() has loaded is still there when it stores.
Storing ==
    /\ pc \in {"slot", "storeSlot"} => access_count[entry][IndexOf(slot_index)].slot_index = slot_index
    /\ pc = "storeSlot" => loaded = access_count[entry][IndexOf(slot_index)].counter
    /\ pc = "storeCounter" => loaded = counter[entry]

\* An address without an entry has made no access within the window of the clock.
Complete ==
    \A p \in Ip : InTable(p) = {} =>
        \A s \in 0 .. MaxTime : s > now - Reserved => accesses[p][s] = 0

Counts ==
    /\ Storing /\ Complete
    /\ \A b \in Bucket : \A e \in ToSet(chain[b]) : Counted(e)

LEMMA InBucket ==
    ASSUME Listed, NEW b \in Bucket, NEW e \in ToSet(chain[b])
    PROVE  e \in Entry /\ ipaddr[e] \in Ip /\ HashIndex(ipaddr[e]) = b
<1>1. chain[b] \in Seq(Entry)
  BY DEF Listed, TypedLists
<1>2. e \in Entry
  BY <1>1 DEF ToSet
<1> QED
  BY <1>2 DEF Listed, Home

\* A step that does not touch the entry; the clock may move on.
LEMMA CountedSame ==
    ASSUME Listed, NEW e \in Entry, Counted(e), now' = now \/ now' = now + 1,
           access_count'[e] = access_count[e], counter'[e] = counter[e], ipaddr'[e] = ipaddr[e],
           accesses'[ipaddr[e]] = accesses[ipaddr[e]],
           Halfway(e)' <=> Halfway(e),
           (InCall /\ e = entry)' => InCall /\ e = entry /\ slot_index' = slot_index
    PROVE  Counted(e)'
<1>1. now \in Nat /\ Reserved \in Nat /\ \A j \in Index : access_count[e][j].slot_index \in Int
  BY ConstantsAssumption DEF Listed, TypedRest, TypedFields, Slot
<1>2. PICK t \in Reserved .. now : TimedAt(e, t)
  BY DEF Counted, Timed
<1>3. TimedAt(e, t)'
  BY <1>2 DEF TimedAt
<1>4. t \in Reserved .. now'
  BY <1>1
<1>5. Timed(e)'
  BY <1>3, <1>4 DEF Timed
<1>6. Halfway(e) => slot_index' = slot_index
  BY DEF Halfway, InCall
<1>7. \A s : Ahead(e, s)' = Ahead(e, s)
  BY <1>6 DEF Ahead
<1>8. Exact(e)'
  <2> SUFFICES ASSUME NEW j \in Index, access_count[e][j].slot_index > now' - Reserved
               PROVE  access_count[e][j].counter =
                        accesses[ipaddr[e]][access_count[e][j].slot_index]
                          + Ahead(e, access_count[e][j].slot_index)'
    BY DEF Exact
  <2>1. access_count[e][j].slot_index > now - Reserved
    BY <1>1
  <2> QED
    BY <1>7, <2>1 DEF Counted, Exact
<1>9. Summed(e)'
  BY DEF Counted, Summed, Behind
<1> QED
  BY <1>5, <1>8, <1>9 DEF Counted

\* clear_outdated_data() at slot u: find_and_increase() and expiring() do it.
LEMMA CountedCleared ==
    ASSUME Listed, NEW e \in Entry, ipaddr[e] \in Ip, NEW t \in Reserved .. now, NEW u \in Reserved .. now,
           TimedAt(e, t), Exact(e), Summed(e),
           access_count'[e] = Cleared(e, u), counter'[e] = CountLeft(e, u),
           UNCHANGED <<ipaddr, accesses, now, slot_index>>,
           Halfway(e)' <=> Halfway(e),
           \A s \in 0 .. MaxTime : s > u => accesses[ipaddr[e]][s] = 0,
           (InCall /\ e = entry)' => slot_index <= u
    PROVE  Counted(e)'
<1>1. now \in Nat /\ now <= MaxTime /\ MaxTime \in Nat /\ Reserved \in Nat /\ t \in Nat /\ u \in Nat
      /\ t >= Reserved /\ u >= Reserved /\ t <= now /\ u <= now
  BY ConstantsAssumption DEF Listed, TypedRest
<1>2. \A j \in Index : Cleared(e, u)[j].slot_index = WindowSlot(u, j)
  BY DEF Cleared, Outdated
<1>3. Timed(e)'
  BY <1>2 DEF Timed, TimedAt
<1>4. \A s : Ahead(e, s)' = Ahead(e, s)
  BY DEF Ahead
<1>5. Exact(e)'
  <2> SUFFICES ASSUME NEW j \in Index, WindowSlot(u, j) > now - Reserved
               PROVE  Cleared(e, u)[j].counter =
                        accesses[ipaddr[e]][WindowSlot(u, j)] + Ahead(e, WindowSlot(u, j))
    BY <1>2, <1>4 DEF Exact
  <2> DEFINE s == WindowSlot(u, j)
  <2>1. s \in Nat /\ s <= u /\ IndexOf(s) = j
    BY <1>1, InWindow
  <2>2. s \in 0 .. MaxTime
    BY <1>1, <2>1
  <2>3. CASE j \in Outdated(e, u)
    <3>1. Cleared(e, u)[j].counter = 0
      BY <2>3 DEF Cleared
    <3>2. access_count[e][j].slot_index # s
      BY <2>3 DEF Outdated
    <3>3. access_count[e][j].slot_index = WindowSlot(t, j)
      BY DEF TimedAt
    <3> HIDE DEF s
    <3>4. s > t
      <4> SUFFICES ASSUME s <= t PROVE FALSE
        BY <1>1, <2>1
      <4>1. t - Reserved < s
        BY <1>1, <2>1 DEF s
      <4>2. WindowSlot(t, IndexOf(s)) = s
        BY <1>1, <2>1, <4>1, PlaceOf
      <4> QED
        BY <2>1, <3>2, <3>3, <4>2
    <3>5. accesses[ipaddr[e]][s] = 0
      BY <2>2, <3>4 DEF TimedAt
    <3>6. ~(Halfway(e) /\ s = slot_index)
      <4>1. Halfway(e) => slot_index <= t
        BY DEF Halfway, TimedAt, InCall
      <4>2. slot_index \in Nat
        BY DEF Listed, TypedCall
      <4> QED
        BY <1>1, <2>1, <3>4, <4>1, <4>2
    <3> QED
      BY <3>1, <3>5, <3>6 DEF Ahead, s
  <2>4. CASE j \notin Outdated(e, u)
    <3>1. Cleared(e, u)[j] = access_count[e][j] /\ access_count[e][j].slot_index = s
      BY <2>4 DEF Cleared, Outdated
    <3> QED
      BY <3>1 DEF Exact
  <2> QED
    BY <2>3, <2>4
<1>6. Summed(e)'
  <2>1. CountLeft(e, u) - counter[e] = Total(Cleared(e, u)) - Total(access_count[e])
    BY <1>1, TotalCleared DEF Listed
  <2>2. Cleared(e, u) \in [Index -> Slot] /\ CountLeft(e, u) \in Int
    BY <1>1, ClearedTyped DEF Listed
  <2>3. access_count[e] \in [Index -> Slot] /\ counter[e] \in Int
    BY DEF Listed, TypedFields
  <2>4. Total(Cleared(e, u)) \in Nat /\ Total(access_count[e]) \in Nat
    BY <2>2, <2>3, TotalNat
  <2>5. counter[e] + Behind(e) = Total(access_count[e]) /\ Behind(e) \in Int
    BY DEF Summed, Behind
  <2>6. CountLeft(e, u) + Behind(e) = Total(Cleared(e, u))
    BY <2>1, <2>2, <2>3, <2>4, <2>5
  <2>7. Behind(e)' = Behind(e)
    BY DEF Behind
  <2> QED
    BY <2>6, <2>7 DEF Summed
<1> QED
  BY <1>3, <1>5, <1>6 DEF Counted

\* Steps that do not touch the table.
LEMMA CountsSame ==
    ASSUME Listed, Counts, now' = now \/ now' = now + 1,
           UNCHANGED <<chain, ipaddr, counter, access_count, accesses>>,
           \A e \in Entry : Halfway(e)' <=> Halfway(e),
           \A e \in Entry : (InCall /\ e = entry)' => InCall /\ e = entry /\ slot_index' = slot_index
    PROVE  Complete' /\ \A b \in Bucket : \A e \in ToSet(chain'[b]) : Counted(e)'
<1>1. ASSUME NEW b \in Bucket, NEW e \in ToSet(chain[b]) PROVE Counted(e)'
  <2>1. e \in Entry /\ Counted(e)
    BY InBucket DEF Counts
  <2> QED
    BY <2>1, CountedSame
<1>2. Complete'
  <2>1. now \in Nat /\ Reserved \in Nat
    BY ConstantsAssumption DEF Listed, TypedRest
  <2>2. \A s \in 0 .. MaxTime : s > now' - Reserved => s > now - Reserved
    BY <2>1
  <2>3. \A p \in Ip : InTable(p)' = InTable(p)
    BY DEF InTable
  <2> QED
    BY <2>2, <2>3 DEF Counts, Complete
<1> QED
  BY <1>1, <1>2

LEMMA CountsFindKnown ==
    ASSUME Listed, Clock, Past, Table, Counts, FindKnown
    PROVE  Counts'
<1> DEFINE h == HashIndex(ip)
           i == IndexOf(slot_index)
<1>0. PICK e : e = Walk(entry)[Min(Matches)]
  OBVIOUS
<1>1. /\ pc = "search" /\ pc' = "slot" /\ Matches # {} /\ entry' = e
      /\ UNCHANGED <<now, chain, ipaddr, slot_index, accesses>>
  BY <1>0 DEF FindKnown
<1>2. \/ /\ access_count[e][i].slot_index # slot_index
         /\ access_count' = [access_count EXCEPT ![e] = Cleared(e, slot_index)]
         /\ counter' = [counter EXCEPT ![e] = CountLeft(e, slot_index)]
      \/ access_count[e][i].slot_index = slot_index /\ UNCHANGED <<access_count, counter>>
  BY <1>0 DEF FindKnown
<1>3. e \in ToSet(chain[h]) /\ h \in Bucket
  BY <1>0, <1>1, Found, ConstantFacts DEF Table, Listed, TypedCall
<1>4. slot_index \in Reserved .. now /\ slot_index \in Nat /\ i \in Index
  BY <1>1, ConstantFacts DEF Clock, Listed, TypedCall
<1> HIDE DEF h
<1>5. e \in Entry /\ ipaddr[e] \in Ip /\ Counted(e)
  BY <1>3, InBucket DEF Counts
<1>6. PICK t \in Reserved .. now : TimedAt(e, t)
  BY <1>5 DEF Counted, Timed
<1>7. \A f : ~Halfway(f) /\ ~Halfway(f)'
  BY <1>1 DEF Halfway
<1>8. WindowSlot(slot_index, i) = slot_index
  <2>1. Reserved \in Nat \ {0}
    BY ConstantFacts
  <2> QED
    BY <1>4, <2>1, PlaceOf
<1>9. access_count \in [Entry -> [Index -> Slot]] /\ counter \in [Entry -> Int]
  BY DEF Listed, TypedFields
<1>10. Counted(e)' /\ access_count'[e][i].slot_index = slot_index
  <2>1. CASE access_count[e][i].slot_index # slot_index
    <3>1. access_count'[e] = Cleared(e, slot_index) /\ counter'[e] = CountLeft(e, slot_index)
      BY <1>2, <1>5, <1>9, <2>1
    <3>2. \A s \in 0 .. MaxTime : s > slot_index => accesses[ipaddr[e]][s] = 0
      BY <1>1, <1>5 DEF Past
    <3>3. Counted(e)'
      <4>1. Halfway(e)' <=> Halfway(e)
        BY <1>7
      <4>2. slot_index <= slot_index
        BY <1>4
      <4> QED
        BY <1>1, <1>4, <1>5, <1>6, <3>1, <3>2, <4>1, <4>2, CountedCleared DEF Counted
    <3>4. Cleared(e, slot_index)[i].slot_index = WindowSlot(slot_index, i)
      BY <1>4 DEF Cleared, Outdated
    <3> QED
      BY <1>8, <3>1, <3>3, <3>4
  <2>2. CASE access_count[e][i].slot_index = slot_index
    <3>1. UNCHANGED <<access_count, counter>>
      BY <1>2, <2>2
    <3>2. slot_index <= t
      <4>1. WindowSlot(t, i) = slot_index
        BY <1>4, <1>6, <2>2 DEF TimedAt
      <4>2. t \in Nat /\ t >= Reserved
        BY <1>4, ConstantFacts
      <4> QED
        BY <1>4, <4>1, <4>2, InWindow
    <3>3. TimedAt(e, t)'
      BY <1>1, <1>6, <3>1, <3>2 DEF TimedAt
    <3>4. Timed(e)'
      BY <1>1, <3>3 DEF Timed
    <3>5. Exact(e)' /\ Summed(e)'
      BY <1>1, <1>5, <1>7, <3>1 DEF Counted, Exact, Summed, Ahead, Behind
    <3> QED
      BY <2>2, <3>1, <3>4, <3>5 DEF Counted
  <2> QED
    BY <2>1, <2>2
<1>11. ASSUME NEW b \in Bucket, NEW f \in ToSet(chain'[b]) PROVE Counted(f)'
  <2>1. f \in Entry /\ Counted(f)
    BY <1>1, InBucket DEF Counts
  <2>2. CASE f # e
    <3>1. access_count'[f] = access_count[f] /\ counter'[f] = counter[f]
      BY <1>2, <1>9, <2>1, <2>2
    <3> QED
      BY <1>1, <1>7, <2>1, <2>2, <3>1, CountedSame
  <2> QED
    BY <1>10, <2>2
<1>12. Complete'
  BY <1>1 DEF Counts, Complete, InTable
<1>13. Storing'
  BY <1>1, <1>10 DEF Storing
<1> QED
  BY <1>11, <1>12, <1>13 DEF Counts

LEMMA CountsFindNew ==
    ASSUME Listed, Clock, Past, Table, Counts, FindNew
    PROVE  Counts'
<1> DEFINE h == HashIndex(ip)
           i == IndexOf(slot_index)
<1>1. PICK e \in Allocatable :
          /\ entry' = e
          /\ release_pool' = IF release_pool # <<>> THEN Tail(release_pool) ELSE <<>>
          /\ ipaddr' = [ipaddr EXCEPT ![e] = ip]
          /\ counter' = [counter EXCEPT ![e] = 0]
          /\ access_count' = [access_count EXCEPT ![e] = FreshSlots]
          /\ chain' = [chain EXCEPT ![h] = <<e>> \o @]
  BY DEF FindNew
<1>2. e \in Entry /\ \A b \in Bucket : e \notin ToSet(chain[b])
  BY <1>1, Allocated
<1>3. pc = "search" /\ pc' = "slot" /\ h \in Bucket /\ ip \in Ip
      /\ UNCHANGED <<ip, now, slot_index, accesses>>
  BY ConstantFacts DEF FindNew, Listed, TypedCall
<1>4. \A b \in Bucket : ToSet(chain'[b]) = IF b = h THEN ToSet(chain[b]) \cup {e} ELSE ToSet(chain[b])
  <2>1. chain[h] \in Seq(Entry)
    BY <1>3 DEF Listed, TypedLists
  <2>2. ToSet(<<e>> \o chain[h]) = ToSet(chain[h]) \cup {e}
    BY <1>2, <2>1, Pushed
  <2> HIDE DEF h
  <2> QED
    BY <1>1, <1>3, <2>2 DEF Listed, TypedLists
<1>5. /\ ipaddr'[e] = ip /\ counter'[e] = 0 /\ access_count'[e] = FreshSlots
      /\ \A f \in Entry \ {e} : ipaddr'[f] = ipaddr[f] /\ counter'[f] = counter[f]
                                /\ access_count'[f] = access_count[f]
  BY <1>1, <1>2 DEF Listed, TypedFields
<1>6. \A s \in 0 .. MaxTime : s > now - Reserved => accesses[ip][s] = 0
  BY <1>3, TableAdd DEF Counts, Complete
<1>7. slot_index \in Reserved .. now /\ slot_index \in Nat /\ i \in Index
  BY <1>3, ConstantFacts DEF Clock, Listed, TypedCall
<1>8. now \in Nat /\ now <= MaxTime /\ MaxTime \in Nat /\ Reserved \in Nat /\ Reserved # 0
  BY ConstantsAssumption DEF Listed, TypedRest
<1>9. \A f : ~Halfway(f) /\ ~Halfway(f)'
  BY <1>3 DEF Halfway
<1>10. \A j \in Index : FreshSlots[j].slot_index = WindowSlot(slot_index, j) /\ FreshSlots[j].counter = 0
  BY DEF FreshSlots
<1> HIDE DEF h
<1>11. Counted(e)'
  <2>1. \A s \in 0 .. MaxTime : s > slot_index => accesses[ip][s] = 0
    BY <1>3 DEF Past
  <2>2. TimedAt(e, slot_index)'
    BY <1>3, <1>5, <1>7, <1>10, <2>1 DEF TimedAt
  <2>3. Timed(e)'
    BY <1>3, <1>7, <2>2 DEF Timed
  <2>4. ASSUME NEW j \in Index, WindowSlot(slot_index, j) > now - Reserved
        PROVE  accesses[ip][WindowSlot(slot_index, j)] = 0
    <3>1. WindowSlot(slot_index, j) \in 0 .. MaxTime
      BY <1>7, <1>8, InWindow
    <3> QED
      BY <1>6, <2>4, <3>1
  <2>5. Exact(e)'
    BY <1>3, <1>5, <1>9, <1>10, <2>4 DEF Exact, Ahead
  <2>6. Total(FreshSlots) = 0
    BY <1>10, FreshTyped, TotalNat
  <2>7. Summed(e)'
    BY <1>5, <1>9, <2>6 DEF Summed, Behind
  <2> QED
    BY <2>3, <2>5, <2>7 DEF Counted
<1>12. ASSUME NEW b \in Bucket, NEW f \in ToSet(chain'[b]) PROVE Counted(f)'
  <2>1. CASE f # e
    <3>1. f \in ToSet(chain[b])
      BY <1>4, <2>1
    <3>2. f \in Entry /\ Counted(f)
      BY <3>1, InBucket DEF Counts
    <3> QED
      BY <1>1, <1>3, <1>5, <1>9, <2>1, <3>2, CountedSame
  <2> QED
    BY <1>11, <2>1
<1>13. Complete'
  <2> SUFFICES ASSUME NEW p \in Ip, InTable(p)' = {}, NEW s \in 0 .. MaxTime, s > now - Reserved
               PROVE  accesses[p][s] = 0
    BY <1>3 DEF Complete
  <2>1. HashIndex(p) \in Bucket
    BY ConstantFacts
  <2>2. ASSUME NEW f \in InTable(p) PROVE f \in InTable(p)'
    <3>1. f \in ToSet(chain[HashIndex(p)]) /\ ipaddr[f] = p
      BY DEF InTable
    <3>2. f \in Entry /\ f # e /\ f \in ToSet(chain'[HashIndex(p)])
      BY <1>2, <1>4, <2>1, <3>1, InBucket
    <3> QED
      BY <1>5, <3>1, <3>2 DEF InTable
  <2> QED
    BY <2>2 DEF Counts, Complete
<1>14. Storing'
  <2>1. WindowSlot(slot_index, i) = slot_index
    BY <1>7, <1>8, PlaceOf
  <2>2. access_count'[e][i].slot_index = slot_index
    BY <1>5, <1>7, <1>10, <2>1
  <2> QED
    BY <1>1, <1>3, <2>2 DEF Storing
<1> QED
  BY <1>12, <1>13, <1>14 DEF Counts

LEMMA CountsStoreSlot ==
    ASSUME Listed, Clock, Table, Counts, StoreSlot
    PROVE  Counts'
<1> DEFINE i == IndexOf(slot_index)
<1>0. PICK e : e = entry
  OBVIOUS
<1>1. /\ pc = "storeSlot" /\ pc' = "counter"
      /\ access_count' = [access_count EXCEPT ![e][i].counter = loaded + 1]
      /\ UNCHANGED <<now, chain, ipaddr, counter, slot_index, entry, accesses>>
  BY <1>0 DEF StoreSlot
<1>2. e \in ToSet(chain[HashIndex(ip)]) /\ HashIndex(ip) \in Bucket /\ i \in Index /\ slot_index \in Nat
  BY <1>0, <1>1, ConstantFacts DEF Table, Calling, InCall, Listed, TypedCall
<1>3. e \in Entry /\ ipaddr[e] \in Ip /\ Counted(e)
  BY <1>2, InBucket DEF Counts
<1>4. /\ access_count[e][i].slot_index = slot_index /\ loaded = access_count[e][i].counter
      /\ access_count[e] \in [Index -> Slot]
  BY <1>0, <1>1, <1>3 DEF Counts, Storing, Listed, TypedFields
<1>5. /\ access_count'[e][i].slot_index = slot_index
      /\ access_count'[e][i].counter = access_count[e][i].counter + 1
      /\ \A j \in Index \ {i} : access_count'[e][j] = access_count[e][j]
      /\ \A f \in Entry \ {e} : access_count'[f] = access_count[f]
  <2>1. access_count' = [access_count EXCEPT ![e] = [access_count[e] EXCEPT ![i] =
                            [access_count[e][i] EXCEPT !.counter = loaded + 1]]]
    BY <1>1
  <2> DEFINE r == [access_count[e][i] EXCEPT !.counter = loaded + 1]
  <2>2. r.slot_index = slot_index /\ r.counter = access_count[e][i].counter + 1
    BY <1>2, <1>4 DEF Slot
  <2>3. access_count' = [access_count EXCEPT ![e] = [access_count[e] EXCEPT ![i] = r]]
    BY <2>1
  <2> HIDE DEF r, i
  <2>4. access_count'[e] = [access_count[e] EXCEPT ![i] = r]
        /\ \A f \in Entry \ {e} : access_count'[f] = access_count[f]
    BY <1>3, <2>3 DEF Listed, TypedFields
  <2> QED
    BY <1>2, <1>4, <2>2, <2>4
<1>6. \A j \in Index : access_count'[e][j].slot_index = access_count[e][j].slot_index
  BY <1>4, <1>5
<1>7. PICK t \in Reserved .. now : TimedAt(e, t)
  BY <1>3 DEF Counted, Timed
<1>8. Timed(e)'
  <2>1. TimedAt(e, t)'
    BY <1>0, <1>1, <1>6, <1>7 DEF TimedAt, InCall
  <2> QED
    BY <1>1, <2>1 DEF Timed
<1>9. ~Halfway(e) /\ Halfway(e)'
  BY <1>0, <1>1 DEF Halfway
<1>10. \A s : Ahead(e, s) = 0 /\ Ahead(e, s)' = IF s = slot_index THEN 1 ELSE 0
  BY <1>1, <1>9 DEF Ahead
<1> HIDE DEF i
<1>11. Exact(e)'
  <2> SUFFICES ASSUME NEW j \in Index, access_count[e][j].slot_index > now - Reserved
               PROVE  access_count'[e][j].counter =
                        accesses[ipaddr[e]][access_count[e][j].slot_index]
                          + Ahead(e, access_count[e][j].slot_index)'
    BY <1>1, <1>6 DEF Exact
  <2>1. access_count[e][j].counter = accesses[ipaddr[e]][access_count[e][j].slot_index] + 0
    BY <1>3, <1>10 DEF Counted, Exact
  <2>2. CASE j = i
    <3>1. slot_index \in 0 .. MaxTime
      BY <1>1, <1>2, ConstantsAssumption DEF Clock, Listed, TypedRest
    <3>2. accesses[ipaddr[e]][slot_index] \in Nat
      BY <1>3, <3>1 DEF Listed, TypedRest
    <3> QED
      BY <1>4, <1>5, <1>10, <2>1, <2>2, <3>2
  <2>3. CASE j # i
    <3>1. access_count[e][j].slot_index # slot_index
      <4>1. access_count[e][j].slot_index = WindowSlot(t, j)
        BY <1>7 DEF TimedAt
      <4>2. t \in Nat /\ t >= Reserved
        BY ConstantsAssumption
      <4>3. IndexOf(WindowSlot(t, j)) = j
        BY <4>2, InWindow
      <4> QED
        BY <2>3, <4>1, <4>3 DEF i
    <3> QED
      BY <1>5, <1>10, <2>1, <2>3, <3>1
  <2> QED
    BY <2>2, <2>3
<1>12. Summed(e)'
  <2>1. access_count'[e] \in [Index -> Slot]
    BY <1>3, ListedStoreSlot DEF Listed, TypedFields
  <2>2. Total(access_count'[e]) = Total(access_count[e]) + 1
    BY <1>2, <1>4, <1>5, <2>1, TotalIncreased
  <2>3. counter[e] + 0 = Total(access_count[e]) /\ counter[e] \in Int
    BY <1>3, <1>9 DEF Counted, Summed, Behind, Listed, TypedFields
  <2>4. counter[e] + 1 = Total(access_count'[e])
    BY <2>2, <2>3
  <2> QED
    BY <1>1, <1>9, <2>4 DEF Summed, Behind
<1>13. ASSUME NEW b \in Bucket, NEW f \in ToSet(chain'[b]) PROVE Counted(f)'
  <2>1. CASE f # e
    <3>1. f \in Entry /\ Counted(f)
      BY <1>1, InBucket DEF Counts
    <3>2. ~Halfway(f) /\ ~Halfway(f)' /\ ~(f = entry)'
      BY <1>0, <1>1, <2>1 DEF Halfway
    <3> QED
      BY <1>1, <1>5, <2>1, <3>1, <3>2, CountedSame
  <2> QED
    BY <1>8, <1>11, <1>12, <2>1 DEF Counted
<1>14. Complete' /\ Storing'
  BY <1>1 DEF Counts, Complete, InTable, Storing
<1> QED
  BY <1>13, <1>14 DEF Counts

LEMMA CountsStoreCounter ==
    ASSUME Listed, Clock, Table, Counts, StoreCounter
    PROVE  Counts'
<1>0. PICK e : e = entry
  OBVIOUS
<1>1. /\ pc = "storeCounter" /\ pc' = "return" /\ loaded = counter[e]
      /\ counter' = [counter EXCEPT ![e] = loaded + 1]
      /\ accesses' = [accesses EXCEPT ![ip][slot_index] = @ + 1]
      /\ UNCHANGED <<now, chain, ipaddr, access_count, slot_index, entry, ip>>
  BY <1>0 DEF StoreCounter, Counts, Storing
<1>2. e \in ToSet(chain[HashIndex(ip)]) /\ HashIndex(ip) \in Bucket /\ ipaddr[e] = ip /\ ip \in Ip
  BY <1>0, <1>1, ConstantFacts DEF Table, Calling, InCall, Listed, TypedCall
<1>3. e \in Entry /\ Counted(e)
  BY <1>2, InBucket DEF Counts
<1>4. slot_index \in 0 .. MaxTime /\ now \in Nat /\ Reserved \in Nat
  BY <1>1, ConstantsAssumption DEF Clock, Listed, TypedRest, TypedCall
<1>5. accesses[ip] \in [0 .. MaxTime -> Nat]
  BY <1>2 DEF Listed, TypedRest
<1>6. /\ \A p \in Ip \ {ip} : accesses'[p] = accesses[p]
      /\ \A s \in 0 .. MaxTime : accesses'[ip][s] = accesses[ip][s] + (IF s = slot_index THEN 1 ELSE 0)
  <2>1. accesses' = [accesses EXCEPT ![ip] = [accesses[ip] EXCEPT ![slot_index] = accesses[ip][slot_index] + 1]]
    BY <1>1
  <2> DEFINE r == [accesses[ip] EXCEPT ![slot_index] = accesses[ip][slot_index] + 1]
  <2>2. \A s \in 0 .. MaxTime : r[s] = accesses[ip][s] + (IF s = slot_index THEN 1 ELSE 0)
    <3>1. PICK old : old = accesses[ip]
      OBVIOUS
    <3>2. old \in [0 .. MaxTime -> Nat] /\ r = [old EXCEPT ![slot_index] = old[slot_index] + 1]
      BY <1>5, <3>1
    <3> HIDE DEF r
    <3>3. \A s \in 0 .. MaxTime : r[s] = old[s] + (IF s = slot_index THEN 1 ELSE 0)
      BY <1>4, <3>2
    <3> QED
      BY <3>1, <3>3
  <2>3. accesses' = [accesses EXCEPT ![ip] = r]
    BY <2>1
  <2> HIDE DEF r
  <2> QED
    BY <1>2, <2>2, <2>3 DEF Listed, TypedRest
<1>7. counter'[e] = counter[e] + 1 /\ \A f \in Entry \ {e} : counter'[f] = counter[f]
  BY <1>1, <1>3 DEF Listed, TypedFields
<1>8. PICK t \in Reserved .. now : TimedAt(e, t)
  BY <1>3 DEF Counted, Timed
<1>9. slot_index <= t
  BY <1>0, <1>1, <1>8 DEF TimedAt, InCall
<1>10. Halfway(e) /\ ~Halfway(e)'
  BY <1>0, <1>1 DEF Halfway
<1>11. \A s : Ahead(e, s)' = 0 /\ Ahead(e, s) = IF s = slot_index THEN 1 ELSE 0
  BY <1>10 DEF Ahead
<1>12. Timed(e)'
  <2>1. \A s \in 0 .. MaxTime : s > t => accesses'[ip][s] = 0
    BY <1>4, <1>2, <1>6, <1>8, <1>9 DEF TimedAt
  <2>2. TimedAt(e, t)'
    BY <1>1, <1>2, <1>8, <1>9, <2>1 DEF TimedAt
  <2> QED
    BY <1>1, <2>2 DEF Timed
<1>13. Exact(e)'
  <2> SUFFICES ASSUME NEW j \in Index, access_count[e][j].slot_index > now - Reserved
               PROVE  access_count[e][j].counter = accesses'[ip][access_count[e][j].slot_index] + 0
    BY <1>1, <1>2, <1>11 DEF Exact
  <2> DEFINE s == access_count[e][j].slot_index
  <2>1. access_count[e][j].counter = accesses[ip][s] + (IF s = slot_index THEN 1 ELSE 0)
    BY <1>2, <1>3, <1>11 DEF Counted, Exact
  <2>2. s \in 0 .. MaxTime
    <3>1. t \in Nat /\ t >= Reserved /\ t <= MaxTime /\ MaxTime \in Nat
      BY <1>4, ConstantsAssumption DEF Listed, TypedRest
    <3>2. s = WindowSlot(t, j)
      BY <1>8 DEF TimedAt
    <3> QED
      BY <3>1, <3>2, InWindow
  <2>3. accesses'[ip][s] = accesses[ip][s] + (IF s = slot_index THEN 1 ELSE 0) /\ accesses[ip][s] \in Nat
    BY <1>5, <1>6, <2>2
  <2> HIDE DEF s
  <2>4. access_count[e][j].counter = accesses'[ip][s] + 0
    BY <2>1, <2>3
  <2> QED
    BY <2>4 DEF s
<1>14. Summed(e)'
  <2>1. counter[e] + 1 = Total(access_count[e]) /\ counter[e] \in Int
    BY <1>3, <1>10 DEF Counted, Summed, Behind, Listed, TypedFields
  <2> QED
    BY <1>1, <1>7, <1>10, <2>1 DEF Summed, Behind
<1>15. ASSUME NEW b \in Bucket, NEW f \in ToSet(chain'[b]) PROVE Counted(f)'
  <2>1. CASE f # e
    <3>1. f \in Entry /\ Counted(f) /\ ipaddr[f] \in Ip /\ HashIndex(ipaddr[f]) = b /\ f \in ToSet(chain[b])
      BY <1>1, InBucket DEF Counts
    <3>2. ipaddr[f] # ip
      BY <1>2, <2>1, <3>1 DEF Table, Single
    <3>3. ~Halfway(f) /\ ~Halfway(f)' /\ ~(f = entry)'
      BY <1>0, <1>1, <2>1 DEF Halfway
    <3>4. accesses'[ipaddr[f]] = accesses[ipaddr[f]] /\ counter'[f] = counter[f]
      BY <1>6, <1>7, <2>1, <3>1, <3>2
    <3> QED
      BY <1>1, <3>1, <3>3, <3>4, CountedSame
  <2> QED
    BY <1>12, <1>13, <1>14, <2>1 DEF Counted
<1>16. Complete'
  <2> SUFFICES ASSUME NEW p \in Ip, InTable(p) = {}, NEW s \in 0 .. MaxTime, s > now - Reserved
               PROVE  accesses'[p][s] = 0
    BY <1>1 DEF Complete, InTable
  <2>1. p # ip
    BY <1>2 DEF InTable
  <2> QED
    BY <1>6, <2>1 DEF Counts, Complete
<1>17. Storing'
  BY <1>1 DEF Storing
<1> QED
  BY <1>15, <1>16, <1>17 DEF Counts

\* Steps that only read, or that are about the clock and the free list.
LEMMA CountsReading ==
    ASSUME Listed, Table, Counts,
           \/ (\E p \in Ip : FindBegin(p)) \/ LoadSlot \/ LoadCounter \/ Return
           \/ SweepBegin \/ FreeEntry \/ SweepEnd \/ Tick
    PROVE  Counts'
<1>1. UNCHANGED <<chain, ipaddr, counter, access_count, accesses>> /\ (now' = now \/ now' = now + 1)
  BY DEF FindBegin, LoadSlot, LoadCounter, Return, SweepBegin, FreeEntry, SweepEnd, Tick, entries
<1>2. \/ UNCHANGED <<pc, entry, slot_index, loaded>>
      \/ pc = "idle" /\ pc' = "search"
      \/ /\ pc = "slot" /\ pc' = "storeSlot" /\ UNCHANGED <<entry, slot_index>>
         /\ loaded' = access_count[entry][IndexOf(slot_index)].counter
      \/ /\ pc = "counter" /\ pc' = "storeCounter" /\ UNCHANGED <<entry, slot_index>>
         /\ loaded' = counter[entry]
      \/ pc = "return" /\ pc' = "idle" /\ UNCHANGED <<entry, slot_index>>
  BY DEF FindBegin, LoadSlot, LoadCounter, Return, SweepBegin, FreeEntry, SweepEnd, Tick, call
<1>3. \A e \in Entry : Halfway(e)' <=> Halfway(e)
  BY <1>2 DEF Halfway
<1>4. \A e \in Entry : (InCall /\ e = entry)' => InCall /\ e = entry /\ slot_index' = slot_index
  BY <1>2 DEF InCall
<1>5. Complete' /\ \A b \in Bucket : \A e \in ToSet(chain'[b]) : Counted(e)'
  BY <1>1, <1>3, <1>4, CountsSame
<1>6. Storing'
  BY <1>1, <1>2 DEF Counts, Storing
<1> QED
  BY <1>5, <1>6 DEF Counts

\* A sweep that spoils nothing has a clock that is not behind the entries of the bucket.
LEMMA SweepTime ==
    ASSUME Listed, Clock, k \in Bucket, ~Spoils(k), NEW e \in ToSet(chain[k]),
           NEW t \in Reserved .. now, TimedAt(e, t)
    PROVE  t <= sweep_slot
<1>1. t \in Nat /\ sweep_slot \in Nat /\ sweep_slot >= Reserved /\ t >= Reserved /\ Reserved \in Nat \ {0}
  <2>1. k # -1
    BY DEF Bucket
  <2> QED
    BY <2>1, ConstantsAssumption DEF Clock, Listed, TypedRest
<1> SUFFICES ASSUME t > sweep_slot PROVE FALSE
  BY <1>1
<1> DEFINE j == IndexOf(t)
<1>2. j \in Index /\ WindowSlot(t, j) = t
  BY <1>1, PlaceOf
<1>3. WindowSlot(sweep_slot, j) \in Nat /\ WindowSlot(sweep_slot, j) <= sweep_slot
  BY <1>1, <1>2, InWindow
<1>4. access_count[e][j].slot_index = t
  BY <1>2 DEF TimedAt
<1> HIDE DEF j
<1>5. j \in Outdated(e, sweep_slot)
  BY <1>1, <1>2, <1>3, <1>4 DEF Outdated
<1> QED
  BY <1>4, <1>5 DEF Spoils

\* Nor does it drop the slot that find_and_increase() is about to count in.
LEMMA SlotKept ==
    ASSUME Listed, Clock, Table, Counts, k \in Bucket, ~Spoils(k), entry \in ToSet(chain[k]),
           pc \in {"slot", "storeSlot"}
    PROVE  IndexOf(slot_index) \notin Outdated(entry, sweep_slot)
<1> DEFINE i == IndexOf(slot_index)
           w == sweep_slot
<1> SUFFICES ASSUME i \in Outdated(entry, w) PROVE FALSE
  OBVIOUS
<1>1. pc = "slot"
  BY DEF Spoils
<1>2. entry \in Entry /\ Counted(entry)
  BY InBucket DEF Counts
<1>3. PICK t \in Reserved .. now : TimedAt(entry, t)
  BY <1>2 DEF Counted, Timed
<1>4. t <= w
  BY <1>3, SweepTime
<1>5. slot_index <= t /\ slot_index \in Nat /\ now <= slot_index + 1 /\ now \in Nat
  BY <1>1, <1>3 DEF TimedAt, InCall, Clock, Listed, TypedCall, TypedRest
<1>6. w \in Reserved .. now /\ w \in Nat /\ Reserved \in Nat \ {0}
  <2>1. k # -1
    BY DEF Bucket
  <2> QED
    BY <2>1, ConstantsAssumption DEF Clock, Listed, TypedRest
<1>7. access_count[entry][i].slot_index = slot_index
  BY <1>1 DEF Counts, Storing
<1>8. slot_index <= w - Reserved
  <2> SUFFICES ASSUME w - Reserved < slot_index PROVE FALSE
    BY <1>5, <1>6
  <2>1. WindowSlot(w, i) = slot_index
    BY <1>3, <1>4, <1>5, <1>6, PlaceOf
  <2> QED
    BY <1>7, <2>1 DEF Outdated
<1>9. Reserved = 1
  BY <1>5, <1>6, <1>8
<1>10. \A j \in Index : j = 0
  BY <1>9 DEF Index
<1>11. \A j \in Index : Cleared(entry, w)[j].counter = 0
  <2>1. i = 0 /\ i \in Index
    BY <1>10 DEF Outdated
  <2>2. ASSUME NEW j \in Index PROVE j \in Outdated(entry, w)
    BY <1>10, <2>1
  <2> QED
    BY <2>2 DEF Cleared
<1>12. CountLeft(entry, w) = 0
  <2>1. Total(Cleared(entry, w)) = 0
    BY <1>2, <1>6, <1>11, ClearedTyped, TotalNat DEF Listed
  <2>2. CountLeft(entry, w) - counter[entry] = Total(Cleared(entry, w)) - Total(access_count[entry])
    BY <1>2, <1>6, TotalCleared DEF Listed
  <2>3. counter[entry] + 0 = Total(access_count[entry])
    BY <1>1, <1>2 DEF Counted, Summed, Behind, Halfway
  <2>4. CountLeft(entry, w) \in Int /\ counter[entry] \in Int
    BY <1>2, <1>6, ClearedTyped DEF Listed, TypedFields
  <2> QED
    BY <2>1, <2>2, <2>3, <2>4
<1>13. entry \in Expired(k)
  BY <1>12 DEF Expired
<1> QED
  BY <1>1, <1>13 DEF Spoils

\* An entry that is freed has no access within the window of the clock.
LEMMA ExpiredCountsNothing ==
    ASSUME Listed, Clock, Table, Counts, k \in Bucket, ~Spoils(k), NEW e \in Expired(k),
           NEW s \in 0 .. MaxTime, s > now - Reserved
    PROVE  accesses[ipaddr[e]][s] = 0
<1> DEFINE w == sweep_slot
           j == IndexOf(s)
<1>1. e \in ToSet(chain[k]) /\ CountLeft(e, w) = 0
  BY DEF Expired
<1>2. e \in Entry /\ ipaddr[e] \in Ip /\ Counted(e)
  BY <1>1, InBucket DEF Counts
<1>3. PICK t \in Reserved .. now : TimedAt(e, t)
  BY <1>2 DEF Counted, Timed
<1>4. t <= w
  BY <1>1, <1>3, SweepTime
<1>5. w \in Reserved .. now /\ w \in Nat /\ Reserved \in Nat \ {0} /\ now \in Nat /\ s \in Nat /\ t \in Nat
  <2>1. k # -1
    BY DEF Bucket
  <2> QED
    BY <2>1, ConstantsAssumption DEF Clock, Listed, TypedRest
<1>6. ~Halfway(e)
  BY DEF Spoils, Halfway
<1>7. \A i \in Index : Cleared(e, w)[i].counter = 0
  <2>1. CountLeft(e, w) - counter[e] = Total(Cleared(e, w)) - Total(access_count[e])
    BY <1>2, <1>5, TotalCleared DEF Listed
  <2>2. counter[e] + 0 = Total(access_count[e]) /\ counter[e] \in Int
    BY <1>2, <1>6 DEF Counted, Summed, Behind, Listed, TypedFields
  <2>3. Cleared(e, w) \in [Index -> Slot]
    BY <1>2, <1>5, ClearedTyped DEF Listed
  <2>4. Total(Cleared(e, w)) \in Nat
    BY <2>3, TotalNat
  <2>5. Total(Cleared(e, w)) = 0
    BY <1>1, <2>1, <2>2, <2>4
  <2> QED
    BY <2>3, <2>5, TotalNat
<1>8. CASE s > t
  BY <1>3, <1>8 DEF TimedAt
<1>9. CASE s <= t
  <2>1. t - Reserved < s /\ w - Reserved < s /\ s <= w
    BY <1>3, <1>4, <1>5, <1>9
  <2>2. j \in Index /\ WindowSlot(t, j) = s /\ WindowSlot(w, j) = s
    BY <1>5, <1>9, <2>1, PlaceOf
  <2> HIDE DEF j
  <2>3. access_count[e][j].slot_index = s
    BY <1>3, <2>2 DEF TimedAt
  <2>4. access_count[e][j].counter = 0
    <3>1. j \notin Outdated(e, w)
      BY <2>2, <2>3 DEF Outdated
    <3>2. Cleared(e, w)[j] = access_count[e][j]
      BY <2>2, <3>1 DEF Cleared
    <3> QED
      BY <1>7, <2>2, <3>2
  <2>5. access_count[e][j].counter = accesses[ipaddr[e]][s] + 0
    BY <1>2, <1>6, <2>2, <2>3 DEF Counted, Exact, Ahead
  <2>6. accesses[ipaddr[e]][s] \in Nat
    BY <1>2 DEF Listed, TypedRest
  <2> QED
    BY <2>4, <2>5, <2>6
<1> QED
  BY <1>5, <1>8, <1>9

LEMMA CountsSweepBucket ==
    ASSUME Listed, Clock, Table, Counts, SweepBucket, ~Spoils(k)
    PROVE  Counts'
<1>1. /\ k \in Bucket
      /\ \A b \in Bucket : b # k => chain'[b] = chain[b]
      /\ ToSet(chain'[k]) = ToSet(chain[k]) \ Expired(k) /\ Expired(k) \subseteq ToSet(chain[k])
  BY SweptLists
<1>2. UNCHANGED <<now, ipaddr, accesses, pc, ip, slot_index, entry, loaded>>
  BY DEF SweepBucket, call
<1>3. \A f \in Entry :
          /\ f \in ToSet(chain[k]) => /\ access_count'[f] = Cleared(f, sweep_slot)
                                      /\ counter'[f] = CountLeft(f, sweep_slot)
          /\ f \notin ToSet(chain[k]) => access_count'[f] = access_count[f] /\ counter'[f] = counter[f]
  BY DEF SweepBucket
<1>4. \A b \in Bucket : ToSet(chain'[b]) \subseteq ToSet(chain[b])
  BY <1>1
<1>5. sweep_slot \in Reserved .. now
  BY <1>1 DEF Clock, Bucket
<1>6. \A f : Halfway(f)' <=> Halfway(f)
  BY <1>2 DEF Halfway
<1>7. ASSUME NEW b \in Bucket, NEW f \in ToSet(chain'[b]) PROVE Counted(f)'
  <2>1. f \in Entry /\ ipaddr[f] \in Ip /\ Counted(f)
    BY <1>4, InBucket DEF Counts
  <2>2. CASE f \in ToSet(chain[k])
    <3>1. PICK t \in Reserved .. now : TimedAt(f, t)
      BY <2>1 DEF Counted, Timed
    <3>2. t <= sweep_slot
      BY <1>1, <2>2, <3>1, SweepTime
    <3>3. \A s \in 0 .. MaxTime : s > sweep_slot => accesses[ipaddr[f]][s] = 0
      BY <1>5, <3>1, <3>2, ConstantsAssumption DEF TimedAt, Listed, TypedRest
    <3>4. (InCall /\ f = entry)' => slot_index <= sweep_slot
      BY <1>2, <1>5, <3>1, <3>2, ConstantsAssumption DEF TimedAt, InCall, Listed, TypedCall, TypedRest
    <3>5. access_count'[f] = Cleared(f, sweep_slot) /\ counter'[f] = CountLeft(f, sweep_slot)
      BY <1>3, <2>1, <2>2
    <3> QED
      BY <1>2, <1>5, <1>6, <2>1, <3>1, <3>3, <3>4, <3>5, CountedCleared DEF Counted
  <2>3. CASE f \notin ToSet(chain[k])
    <3>1. access_count'[f] = access_count[f] /\ counter'[f] = counter[f]
      BY <1>3, <2>1, <2>3
    <3>2. (InCall /\ f = entry)' => InCall /\ f = entry /\ slot_index' = slot_index
      BY <1>2 DEF InCall
    <3> QED
      BY <1>2, <1>6, <2>1, <3>1, <3>2, CountedSame
  <2> QED
    BY <2>2, <2>3
<1>8. Storing'
  <2> SUFFICES ASSUME pc \in {"slot", "storeSlot", "storeCounter"} PROVE Storing'
    BY <1>2 DEF Storing
  <2>1. entry \in Entry /\ IndexOf(slot_index) \in Index
    BY ConstantFacts DEF Listed, TypedCall, InCall
  <2>2. CASE entry \in ToSet(chain[k])
    <3>1. access_count'[entry] = Cleared(entry, sweep_slot) /\ counter'[entry] = CountLeft(entry, sweep_slot)
      BY <1>3, <2>1, <2>2
    <3>2. pc = "storeCounter" => CountLeft(entry, sweep_slot) = counter[entry]
      BY <2>2 DEF Spoils
    <3>3. pc # "storeCounter" =>
            Cleared(entry, sweep_slot)[IndexOf(slot_index)] = access_count[entry][IndexOf(slot_index)]
      BY <1>1, <2>1, <2>2, SlotKept DEF Cleared
    <3> QED
      BY <1>2, <3>1, <3>2, <3>3 DEF Counts, Storing
  <2>3. CASE entry \notin ToSet(chain[k])
    BY <1>2, <1>3, <2>1, <2>3 DEF Counts, Storing
  <2> QED
    BY <2>2, <2>3
<1>9. Complete'
  <2> SUFFICES ASSUME NEW p \in Ip, InTable(p)' = {}, NEW s \in 0 .. MaxTime, s > now - Reserved
               PROVE  accesses[p][s] = 0
    BY <1>2 DEF Complete
  <2>1. CASE InTable(p) = {}
    BY <2>1 DEF Counts, Complete
  <2>2. CASE InTable(p) # {}
    <3>1. PICK f \in ToSet(chain[HashIndex(p)]) : ipaddr[f] = p
      BY <2>2 DEF InTable
    <3>2. HashIndex(p) \in Bucket
      BY ConstantFacts
    <3>3. f \notin ToSet(chain'[HashIndex(p)])
      BY <1>2, <3>1 DEF InTable
    <3>4. f \in Expired(k)
      BY <1>1, <3>1, <3>2, <3>3
    <3> QED
      BY <1>1, <3>1, <3>4, ExpiredCountsNothing
  <2> QED
    BY <2>1, <2>2
<1> QED
  BY <1>7, <1>8, <1>9 DEF Counts

LEMMA CountsStep ==
    ASSUME Listed, Clock, Past, Table, Counts, Next, ~raced'
    PROVE  Counts'
<1>1. SweepBucket => ~Spoils(k)
  BY Unraced
<1> QED
  BY <1>1, CountsFindKnown, CountsFindNew, CountsStoreSlot, CountsStoreCounter, CountsReading,
     CountsSweepBucket DEF Next

-----------------------------------------------------------------------------
(* What accepting_request() is told.                                                           *)

LEMMA CountsWindowReturn ==
    ASSUME Listed, Clock, Table, Counts, Return, slot_index = now
    PROVE  counter[entry] = Window(ip, now)
<1>1. pc = "return"
  BY DEF Return
<1>2. entry \in ToSet(chain[HashIndex(ip)]) /\ ipaddr[entry] = ip /\ HashIndex(ip) \in Bucket
  BY <1>1, ConstantFacts DEF Table, Calling, InCall, Listed, TypedCall
<1>3. entry \in Entry /\ ip \in Ip /\ Counted(entry)
  BY <1>2, InBucket DEF Counts
<1>4. now \in Reserved .. MaxTime /\ now \in Nat /\ Reserved \in Nat
  BY ConstantsAssumption DEF Clock, Listed, TypedRest
<1>5. TimedAt(entry, now)
  <2>1. PICK t \in Reserved .. now : TimedAt(entry, t)
    BY <1>3 DEF Counted, Timed
  <2>2. t = now
    BY <1>1, <1>4, <2>1 DEF TimedAt, InCall
  <2> QED
    BY <2>1, <2>2
<1>6. ASSUME NEW j \in Index
      PROVE  access_count[entry][j].counter = accesses[ip][WindowSlot(now, j)]
  <2>1. access_count[entry][j].slot_index = WindowSlot(now, j)
    BY <1>5 DEF TimedAt
  <2>2. now - Reserved < WindowSlot(now, j) /\ WindowSlot(now, j) <= now /\ WindowSlot(now, j) \in Nat
    BY <1>4, InWindow
  <2>3. access_count[entry][j].counter = accesses[ip][WindowSlot(now, j)] + 0
    BY <1>1, <1>2, <1>3, <1>4, <2>1, <2>2 DEF Counted, Exact, Ahead, Halfway
  <2>4. accesses[ip][WindowSlot(now, j)] \in Nat
    <3>1. WindowSlot(now, j) \in 0 .. MaxTime
      BY <1>4, <2>2, ConstantsAssumption
    <3> QED
      BY <1>3, <3>1 DEF Listed, TypedRest
  <2> QED
    BY <2>3, <2>4
<1>7. Total(access_count[entry]) = Window(ip, now)
  BY <1>3, <1>4, <1>6, TotalWindow DEF Window, Listed, TypedRest, TypedFields
<1>8. counter[entry] + 0 = Total(access_count[entry]) /\ counter[entry] \in Int
  BY <1>1, <1>3 DEF Counted, Summed, Behind, Halfway, Listed, TypedFields
<1> QED
  BY <1>7, <1>8

LEMMA CountsWindowStep ==
    ASSUME Listed, Clock, ~raced => Table /\ Counts, CountsWindow, Next
    PROVE  CountsWindow'
<1> SUFFICES ASSUME ~raced', seen' # None, pc' = "idle", seen'.slot_index = now'
             PROVE  seen'.counter = Window(seen.ip, now)'
  BY DEF CountsWindow
<1>1. ~raced
  BY Unraced
<1>2. CASE Return
  <2>1. /\ seen'.ip = ip /\ seen'.slot_index = slot_index /\ seen'.counter = counter[entry]
        /\ UNCHANGED <<now, accesses>>
    BY <1>2 DEF Return
  <2>2. counter[entry] = Window(ip, now)
    BY <1>1, <1>2, <2>1, CountsWindowReturn
  <2> QED
    BY <2>1, <2>2 DEF Window
<1>3. CASE ~Return
  <2>1. pc = "idle" /\ UNCHANGED <<seen, accesses>> /\ (now' = now \/ now' = now + 1)
    BY <1>3 DEF Next, FindBegin, FindKnown, FindNew, LoadSlot, StoreSlot, LoadCounter, StoreCounter,
                SweepBegin, SweepBucket, FreeEntry, SweepEnd, Tick, call
  <2>2. seen.slot_index \in 0 .. now /\ now \in Nat
    BY <2>1 DEF Clock, Listed, TypedRest
  <2>3. now' = now
    BY <2>1, <2>2
  <2>4. seen.counter = Window(seen.ip, now)
    BY <1>1, <2>1, <2>3 DEF CountsWindow
  <2> QED
    BY <2>1, <2>3, <2>4 DEF Window
<1> QED
  BY <1>2, <1>3

-----------------------------------------------------------------------------
(* The invariant, and what follows from it.                                                    *)

Inv ==
    /\ Listed /\ Clock /\ Past
    /\ ~raced => Table /\ Counts
    /\ CountsWindow

LEMMA InvInit == Init => Inv
<1> SUFFICES ASSUME Init PROVE Inv
  OBVIOUS
<1>1. Listed /\ Clock /\ Past
  BY ListedInit, ClockInit
<1>2. pc = "idle" /\ seen = None /\ \A b \in Bucket : ToSet(chain[b]) = {}
  BY EmptyList DEF Init
<1>3. Table
  BY <1>2 DEF Table, Searching, Calling, Single, InCall
<1>4. Counts
  <2>1. \A p \in Ip : \A s \in 0 .. MaxTime : accesses[p][s] = 0
    BY DEF Init
  <2> QED
    BY <1>2, <2>1 DEF Counts, Storing, Complete
<1>5. CountsWindow
  BY <1>2 DEF CountsWindow
<1> QED
  BY <1>1, <1>3, <1>4, <1>5 DEF Inv

LEMMA InvSame ==
    ASSUME Inv, UNCHANGED vars
    PROVE  Inv'
<1> USE DEF vars, call, sweep, entries
<1>1. Listed'
  <2>1. TypedLists' /\ Apart' /\ Home'
    BY SameLists DEF Inv
  <2>2. TypedFields' /\ TypedCall' /\ TypedRest' /\ Held'
    BY DEF Inv, Listed, TypedFields, TypedCall, TypedRest, Held, InCall
  <2>3. Flags'
    BY DEF Inv, Listed, Flags
  <2> QED
    BY <2>1, <2>2, <2>3 DEF Listed
<1>2. Clock' /\ Past'
  BY DEF Inv, Clock, Past
<1>3. ASSUME ~raced' PROVE Table' /\ Counts'
  <2>1. ~raced
    BY <1>3
  <2>2. Table /\ Counts /\ Listed
    BY <2>1 DEF Inv
  <2>3. Table'
    BY <2>2 DEF Table, Searching, Calling, Single, InCall
  <2>4. Complete' /\ \A b \in Bucket : \A e \in ToSet(chain'[b]) : Counted(e)'
    BY <2>2, CountsSame DEF Halfway, InCall
  <2>5. Storing'
    BY <2>2 DEF Counts, Storing
  <2> QED
    BY <2>3, <2>4, <2>5 DEF Counts
<1>4. CountsWindow'
  BY DEF Inv, CountsWindow, Window
<1> QED
  BY <1>1, <1>2, <1>3, <1>4 DEF Inv

LEMMA InvNext == Inv /\ [Next]_vars => Inv'
<1>1. ASSUME Inv, Next PROVE Inv'
  <2>1. Listed /\ Clock /\ Past /\ CountsWindow /\ (~raced => Table /\ Counts)
    BY <1>1 DEF Inv
  <2>2. Listed' /\ Clock' /\ Past'
    BY <1>1, <2>1, ListedStep, ClockStep, PastStep
  <2>3. ~raced' => Table' /\ Counts'
    BY <1>1, <2>1, Unraced, TableStep, CountsStep
  <2>4. CountsWindow'
    BY <1>1, <2>1, CountsWindowStep
  <2> QED
    BY <2>2, <2>3, <2>4 DEF Inv
<1> QED
  BY <1>1, InvSame

LEMMA InvLists == Inv => ListsIntact
<1> SUFFICES ASSUME Inv PROVE ListsIntact
  OBVIOUS
<1>1. Listed
  BY DEF Inv
<1>2. TypeOK
  <2>1. \A s \in Lists : s \in Seq(Entry)
    BY <1>1 DEF Lists, Listed, TypedLists
  <2>2. raced \in BOOLEAN
    BY <1>1 DEF Listed, Flags
  <2> QED
    BY <1>1, <2>1, <2>2 DEF TypeOK, Listed, TypedFields, TypedCall, TypedRest
<1>3. OneEntryPerAddress
  BY <1>1 DEF Inv, OneEntryPerAddress, Listed, Home, Table, Single
<1>4. EntryInOneList
  BY <1>1 DEF EntryInOneList, Lists, Listed, Apart
<1> QED
  BY <1>2, <1>3, <1>4 DEF ListsIntact

LEMMA InvActive == Inv => NoActiveEntryFreed
<1> SUFFICES ASSUME Inv, ~raced, NEW p \in Ip, InTable(p) = {} PROVE ~(Window(p, now) > 0)
  BY DEF NoActiveEntryFreed
<1> DEFINE W == {s \in 0 .. MaxTime : now - Reserved < s /\ s <= now}
<1>1. Listed /\ Counts
  BY DEF Inv
<1>2. MaxTime \in Nat /\ now \in Nat /\ Reserved \in Nat
  BY <1>1, ConstantsAssumption DEF Listed, TypedRest
<1>3. IsFiniteSet(W)
  <2>1. IsFiniteSet(0 .. MaxTime)
    BY <1>2, FS_Interval
  <2> QED
    BY <2>1, FS_Subset
<1>4. \A s \in W : accesses[p][s] = 0
  BY <1>1, <1>2 DEF Counts, Complete
<1>5. Window(p, now) = SumFunctionOnSet(accesses[p], W)
  BY DEF Window
<1> HIDE DEF W
<1>6. SumFunctionOnSet(accesses[p], W) = 0
  BY <1>3, <1>4, SumNat
<1> QED
  BY <1>5, <1>6

LEMMA InvCounts == Inv => CountsRight
<1> SUFFICES ASSUME Inv PROVE CountsRight
  OBVIOUS
<1>1. CounterIsSumOfSlots
  <2> SUFFICES ASSUME ~raced, pc = "idle", NEW b \in Bucket, NEW e \in ToSet(chain[b])
               PROVE  counter[e] = SumFunction([j \in Index |-> access_count[e][j].counter])
    BY DEF CounterIsSumOfSlots
  <2>1. Listed /\ Counted(e)
    BY DEF Inv, Counts
  <2>2. counter[e] + 0 = Total(access_count[e])
    BY <2>1 DEF Counted, Summed, Behind, Halfway
  <2>3. counter[e] \in Int
    BY <2>1, InBucket DEF Listed, TypedFields
  <2>4. counter[e] = Total(access_count[e])
    BY <2>2, <2>3
  <2> QED
    BY <2>4 DEF Total
<1> QED
  BY <1>1 DEF CountsRight, Inv

\* Raced or not, every list of auto_blacklist.c stays a list of entries and no entry is in two
\* of them, and without a race an address has one entry: for any number of addresses, buckets,
\* entries and slots.
THEOREM ListsSafe == Spec => []ListsIntact
<1>1. Inv /\ [Next]_vars => Inv'
  BY InvNext
<1> QED
  BY <1>1, InvInit, InvLists, PTL DEF Spec

\* Without a race expiring() never frees the entry of an address that connected within the
\* last RESERVED_ENTRY slots.
THEOREM ActiveSafe == Spec => []NoActiveEntryFreed
<1>1. Inv /\ [Next]_vars => Inv'
  BY InvNext
<1> QED
  BY <1>1, InvInit, InvActive, PTL DEF Spec

\* Without a race the counter of an entry is the sum of its slots, and find_and_increase()
\* returns the number of connections of the address in the window it is asked about.
THEOREM CountsSafe == Spec => []CountsRight
<1>1. Inv /\ [Next]_vars => Inv'
  BY InvNext
<1> QED
  BY <1>1, InvInit, InvCounts, PTL DEF Spec
=============================================================================
