----------------------------- MODULE SumProofs -----------------------------
(***************************************************************************)
(* What a sum over a finite set does when an element comes, goes or        *)
(* changes: the lemmas the books of the till and of the store rest on.     *)
(*                                                                         *)
(* The sum is defined by a recursion over the parts of the set that picks  *)
(* an element at a time (Folds!MapThenFoldSet).  Its recursion equation is *)
(* proved first (SumStep), by an induction whose predicate is a set        *)
(* (PartsInduction), and the rest from it.                                 *)
(*                                                                         *)
(* What sorting rests on stands at the end (PlacesRanked).                 *)
(***************************************************************************)
EXTENDS Sums, Integers, FiniteSets, FiniteSetTheorems, WellFoundedInduction, TLAPS

\* Induction over the numbers, for a set of them.
LEMMA NatSetInduction ==
  ASSUME NEW T, 0 \in T, \A n \in Nat : n \in T => n + 1 \in T
  PROVE  Nat \subseteq T
<1> SUFFICES ASSUME Nat \ T # {} PROVE FALSE
  OBVIOUS
<1>1. PICK m \in Nat \ T : \A k \in Nat \ T : ~(<<k, m>> \in OpToRel(<, Nat))
  BY NatLessThanWellFounded, WFMin
<1>2. \A k \in Nat \ T : ~(k < m)
  BY <1>1 DEF OpToRel
<1>3. m # 0 /\ m - 1 \in Nat
  OBVIOUS
<1>4. m - 1 \in T
  BY <1>2, <1>3
<1> QED
  BY <1>3, <1>4

\* Induction over the parts of a finite set: a part is good when it is empty,
\* or when it is good less any one of its elements.
LEMMA PartsInduction ==
  ASSUME NEW S, IsFiniteSet(S), NEW G, {} \in G,
         \A T \in SUBSET S : T # {} /\ (\A x \in T : T \ {x} \in G) => T \in G
  PROVE  SUBSET S \subseteq G
<1> DEFINE N == {n \in Nat : \A T \in SUBSET S : Cardinality(T) = n => T \in G}
<1>1. 0 \in N
  BY FS_Subset, FS_EmptySet
<1>2. ASSUME NEW n \in Nat, n \in N PROVE n + 1 \in N
  <2> SUFFICES ASSUME NEW T \in SUBSET S, Cardinality(T) = n + 1 PROVE T \in G
    OBVIOUS
  <2>1. IsFiniteSet(T) /\ T # {}
    BY FS_Subset, FS_EmptySet
  <2>2. ASSUME NEW x \in T PROVE T \ {x} \in G
    <3>0. Cardinality(T \ {x}) = Cardinality(T) - 1
      BY <2>1, FS_RemoveElement
    <3>1. Cardinality(T \ {x}) = n
      BY <3>0
    <3> QED
      BY <1>2, <3>1
  <2> QED
    BY <2>1, <2>2
<1> HIDE DEF N
<1>3. Nat \subseteq N
  BY <1>1, <1>2, NatSetInduction
<1> QED
  <2> SUFFICES ASSUME NEW T \in SUBSET S PROVE T \in G
    OBVIOUS
  <2>1. Cardinality(T) \in N
    BY <1>3, FS_Subset, FS_CardinalityType
  <2> QED
    BY <2>1 DEF N

-----------------------------------------------------------------------------
(* The recursion of the sum.                                               *)

\* The element the sum takes next, what it makes of a part, and the function
\* from parts to sums that the recursion chooses.
SumPick(s) == CHOOSE x \in s : TRUE

SumBody(f, g, s) == IF s = {} THEN 0 ELSE f[SumPick(s)] + g[s \ {SumPick(s)}]

SumIter(f, S) == CHOOSE g : g = [s \in SUBSET S |-> SumBody(f, g, s)]

\* The sum is that function at the whole set.
LEMMA SumIsIter ==
  ASSUME NEW f, NEW S
  PROVE  SumOver(f, S) = SumIter(f, S)[S]
BY DEF SumOver, MapThenSumSet, MapThenFoldSet, SumIter, SumBody, SumPick

\* The element taken is one of the part.
LEMMA SumPickIn == ASSUME NEW s, s # {} PROVE SumPick(s) \in s
BY DEF SumPick

\* There is such a function: it is built up over the size of the parts.
LEMMA SumIterExists ==
  ASSUME NEW f, NEW S, IsFiniteSet(S)
  PROVE  \E g : g = [s \in SUBSET S |-> SumBody(f, g, s)]
<1> DEFINE D(n) == {s \in SUBSET S : Cardinality(s) <= n}
           N == {n \in Nat : \E g : g = [s \in D(n) |-> SumBody(f, g, s)]}
<1>1. 0 \in N
  <2> DEFINE g == [s \in D(0) |-> 0]
  <2>1. \A s \in D(0) : s = {}
    BY FS_Subset, FS_EmptySet, FS_CardinalityType
  <2>2. g = [s \in D(0) |-> SumBody(f, g, s)]
    BY <2>1 DEF SumBody
  <2> QED
    BY <2>2
<1>2. ASSUME NEW n \in Nat, n \in N PROVE n + 1 \in N
  <2>1. PICK g : g = [s \in D(n) |-> SumBody(f, g, s)]
    BY <1>2
  <2> DEFINE h == [s \in D(n + 1) |-> SumBody(f, g, s)]
  <2>2. \A s \in D(n) : s \in D(n + 1) /\ h[s] = g[s]
    BY <2>1, FS_Subset, FS_CardinalityType
  <2>3. ASSUME NEW s \in D(n + 1) PROVE SumBody(f, g, s) = SumBody(f, h, s)
    <3>1. CASE s = {}
      BY <3>1 DEF SumBody
    <3>2. CASE s # {}
      <4>1. SumPick(s) \in s /\ IsFiniteSet(s)
        BY <3>2, SumPickIn, FS_Subset
      <4>2. /\ Cardinality(s \ {SumPick(s)}) = Cardinality(s) - 1 /\ Cardinality(s) \in Nat
        BY <4>1, FS_RemoveElement, FS_CardinalityType
      <4>3. s \ {SumPick(s)} \in D(n)
        BY <4>1, <4>2
      <4> QED
        BY <2>2, <4>3 DEF SumBody
    <3> QED
      BY <3>1, <3>2
  <2>4. h = [s \in D(n + 1) |-> SumBody(f, h, s)]
    BY <2>3
  <2> HIDE DEF h
  <2> QED
    BY <2>4
<1> HIDE DEF N
<1>3. Nat \subseteq N
  BY <1>1, <1>2, NatSetInduction
<1>4. Cardinality(S) \in N /\ Cardinality(S) \in Nat
  BY <1>3, FS_CardinalityType
<1>5. D(Cardinality(S)) = SUBSET S
  BY FS_Subset
<1> QED
  BY <1>4, <1>5 DEF N

\* So the one chosen satisfies its equation.
LEMMA SumIterIs ==
  ASSUME NEW f, NEW S, IsFiniteSet(S)
  PROVE  \A s \in SUBSET S : SumIter(f, S)[s] = SumBody(f, SumIter(f, S), s)
<1>1. SumIter(f, S) = [s \in SUBSET S |-> SumBody(f, SumIter(f, S), s)]
  BY SumIterExists DEF SumIter
<1> QED
  BY <1>1

\* The sum of a part does not depend on the set it is part of.
LEMMA SumIterPart ==
  ASSUME NEW f, NEW S, IsFiniteSet(S), NEW T \in SUBSET S
  PROVE  SumIter(f, S)[T] = SumOver(f, T)
<1> DEFINE G == {s \in SUBSET T : SumIter(f, S)[s] = SumIter(f, T)[s]}
<1>0. IsFiniteSet(T) /\ \A s \in SUBSET T : s \in SUBSET S
  BY FS_Subset
<1>1. {} \in G
  BY <1>0, SumIterIs DEF SumBody
<1>2. ASSUME NEW s \in SUBSET T, s # {}, \A x \in s : s \ {x} \in G
      PROVE  s \in G
  <2>1. s \ {SumPick(s)} \in G
    BY <1>2, SumPickIn
  <2> QED
    BY <1>0, <1>2, <2>1, SumIterIs DEF SumBody
<1> HIDE DEF G
<1>3. SUBSET T \subseteq G
  BY <1>0, <1>1, <1>2, PartsInduction
<1>4. T \in G
  BY <1>3
<1> QED
  BY <1>4, SumIsIter DEF G

\* The recursion equation.
LEMMA SumStep ==
  ASSUME NEW f, NEW S, IsFiniteSet(S)
  PROVE  SumOver(f, S) = IF S = {} THEN 0
                         ELSE f[SumPick(S)] + SumOver(f, S \ {SumPick(S)})
<1>1. SumOver(f, S) = SumBody(f, SumIter(f, S), S)
  BY SumIsIter, SumIterIs
<1>2. S \ {SumPick(S)} \in SUBSET S
  OBVIOUS
<1>3. SumIter(f, S)[S \ {SumPick(S)}] = SumOver(f, S \ {SumPick(S)})
  BY <1>2, SumIterPart
<1> QED
  BY <1>1, <1>3 DEF SumBody

\* Nothing adds up to zero.
LEMMA SumEmpty == \A f : SumOver(f, {}) = 0
BY SumStep, FS_EmptySet

\* Integers add up to an integer.
LEMMA SumType ==
  ASSUME NEW f, NEW S, IsFiniteSet(S), \A x \in S : f[x] \in Int
  PROVE  SumOver(f, S) \in Int
<1> DEFINE G == {T \in SUBSET S : SumOver(f, T) \in Int}
<1>1. {} \in G
  BY SumEmpty
<1>2. ASSUME NEW T \in SUBSET S, T # {}, \A x \in T : T \ {x} \in G
      PROVE  T \in G
  <2>1. SumPick(T) \in T /\ IsFiniteSet(T)
    BY <1>2, SumPickIn, FS_Subset
  <2>2. SumOver(f, T \ {SumPick(T)}) \in Int /\ f[SumPick(T)] \in Int
    BY <1>2, <2>1
  <2> QED
    BY <1>2, <2>1, <2>2, SumStep
<1> HIDE DEF G
<1>3. SUBSET S \subseteq G
  BY <1>1, <1>2, PartsInduction
<1> QED
  BY <1>3 DEF G

\* Whichever element is taken out, it is its value the sum loses.
LEMMA SumRemove ==
  ASSUME NEW f, NEW S, IsFiniteSet(S), \A x \in S : f[x] \in Int, NEW x \in S
  PROVE  SumOver(f, S) = f[x] + SumOver(f, S \ {x})
<1> DEFINE G == {T \in SUBSET S : \A y \in T : SumOver(f, T) = f[y] + SumOver(f, T \ {y})}
<1>1. {} \in G
  OBVIOUS
<1>2. ASSUME NEW T \in SUBSET S, T # {}, \A y \in T : T \ {y} \in G
      PROVE  T \in G
  <2> SUFFICES ASSUME NEW y \in T
               PROVE  SumOver(f, T) = f[y] + SumOver(f, T \ {y})
    OBVIOUS
  <2> DEFINE c == SumPick(T)
  <2>1. c \in T /\ IsFiniteSet(T)
    BY <1>2, SumPickIn, FS_Subset
  <2>2. SumOver(f, T) = f[c] + SumOver(f, T \ {c})
    BY <1>2, <2>1, SumStep
  <2>3. CASE y = c
    BY <2>2, <2>3
  <2>4. CASE y # c
    <3>1. y \in T \ {c} /\ c \in T \ {y}
      BY <2>1, <2>4
    <3>2. /\ SumOver(f, T \ {c}) = f[y] + SumOver(f, (T \ {c}) \ {y})
          /\ SumOver(f, T \ {y}) = f[c] + SumOver(f, (T \ {y}) \ {c})
      BY <1>2, <2>1, <3>1
    <3>3. (T \ {c}) \ {y} = (T \ {y}) \ {c}
      OBVIOUS
    <3>4. PICK r \in Int : r = SumOver(f, (T \ {c}) \ {y})
      <4>1. (T \ {c}) \ {y} \in SUBSET T
        OBVIOUS
      <4>2. IsFiniteSet((T \ {c}) \ {y})
        BY <2>1, <4>1, FS_Subset
      <4> QED
        BY <4>2, SumType
    <3>5. PICK a \in Int, b \in Int : a = f[c] /\ b = f[y]
      BY <2>1
    <3>6. SumOver(f, T) = a + (b + r) /\ SumOver(f, T \ {y}) = a + r
      BY <2>2, <3>2, <3>3, <3>4, <3>5
    <3>7. a + (b + r) = b + (a + r)
      OBVIOUS
    <3> QED
      BY <3>5, <3>6, <3>7
  <2> QED
    BY <2>3, <2>4
<1> HIDE DEF G
<1>3. SUBSET S \subseteq G
  BY <1>1, <1>2, PartsInduction
<1>4. S \in G
  BY <1>3
<1> QED
  BY <1>4 DEF G

\* A new element adds its value.
LEMMA SumAdd ==
  ASSUME NEW f, NEW S, IsFiniteSet(S), NEW x, x \notin S,
         \A y \in S \cup {x} : f[y] \in Int
  PROVE  SumOver(f, S \cup {x}) = f[x] + SumOver(f, S)
<1>1. IsFiniteSet(S \cup {x}) /\ x \in S \cup {x} /\ (S \cup {x}) \ {x} = S
  BY FS_AddElement
<1>2. SumOver(f, S \cup {x}) = f[x] + SumOver(f, (S \cup {x}) \ {x})
  BY <1>1, SumRemove
<1> QED
  BY <1>1, <1>2

\* Only the values on the set matter.
LEMMA SumSame ==
  ASSUME NEW f, NEW g, NEW S, IsFiniteSet(S), \A x \in S : f[x] = g[x]
  PROVE  SumOver(f, S) = SumOver(g, S)
<1> DEFINE G == {T \in SUBSET S : SumOver(f, T) = SumOver(g, T)}
<1>1. {} \in G
  BY SumEmpty
<1>2. ASSUME NEW T \in SUBSET S, T # {}, \A x \in T : T \ {x} \in G
      PROVE  T \in G
  <2>1. SumPick(T) \in T /\ IsFiniteSet(T)
    BY <1>2, SumPickIn, FS_Subset
  <2>2. /\ SumOver(f, T \ {SumPick(T)}) = SumOver(g, T \ {SumPick(T)})
        /\ f[SumPick(T)] = g[SumPick(T)]
    BY <1>2, <2>1
  <2> QED
    BY <1>2, <2>1, <2>2, SumStep
<1> HIDE DEF G
<1>3. SUBSET S \subseteq G
  BY <1>1, <1>2, PartsInduction
<1> QED
  BY <1>3 DEF G

\* One value changes.
LEMMA SumChange ==
  ASSUME NEW f, NEW g, NEW S, IsFiniteSet(S), NEW x \in S,
         \A y \in S : f[y] \in Int /\ g[y] \in Int,
         \A y \in S \ {x} : f[y] = g[y]
  PROVE  SumOver(g, S) = SumOver(f, S) + (g[x] - f[x])
<1>1. IsFiniteSet(S \ {x})
  BY FS_RemoveElement
<1>2. SumOver(f, S \ {x}) = SumOver(g, S \ {x}) /\ SumOver(g, S \ {x}) \in Int
  BY <1>1, SumSame, SumType
<1>3. /\ SumOver(f, S) = f[x] + SumOver(f, S \ {x})
      /\ SumOver(g, S) = g[x] + SumOver(g, S \ {x})
  BY SumRemove
<1> QED
  BY <1>2, <1>3

\* Smaller values, a smaller sum.
LEMMA SumLe ==
  ASSUME NEW f, NEW g, NEW S, IsFiniteSet(S),
         \A x \in S : f[x] \in Int /\ g[x] \in Int /\ f[x] <= g[x]
  PROVE  SumOver(f, S) <= SumOver(g, S)
<1> DEFINE G == {T \in SUBSET S : SumOver(f, T) <= SumOver(g, T)}
<1>1. {} \in G
  BY SumEmpty
<1>2. ASSUME NEW T \in SUBSET S, T # {}, \A x \in T : T \ {x} \in G
      PROVE  T \in G
  <2>1. SumPick(T) \in T /\ IsFiniteSet(T) /\ IsFiniteSet(T \ {SumPick(T)})
    BY <1>2, SumPickIn, FS_Subset, FS_RemoveElement
  <2>2. PICK a \in Int, b \in Int : a = SumOver(f, T \ {SumPick(T)}) /\ b = SumOver(g, T \ {SumPick(T)})
    BY <2>1, SumType
  <2>3. a <= b /\ f[SumPick(T)] <= g[SumPick(T)] /\ f[SumPick(T)] \in Int /\ g[SumPick(T)] \in Int
    BY <1>2, <2>1, <2>2
  <2>4. SumOver(f, T) = f[SumPick(T)] + a /\ SumOver(g, T) = g[SumPick(T)] + b
    BY <1>2, <2>1, <2>2, SumStep
  <2> QED
    BY <2>3, <2>4
<1> HIDE DEF G
<1>3. SUBSET S \subseteq G
  BY <1>1, <1>2, PartsInduction
<1> QED
  BY <1>3 DEF G

\* Zeros add up to zero.
LEMMA SumZero ==
  ASSUME NEW f, NEW S, IsFiniteSet(S), \A x \in S : f[x] = 0
  PROVE  SumOver(f, S) = 0
<1> DEFINE G == {T \in SUBSET S : SumOver(f, T) = 0}
<1>1. {} \in G
  BY SumEmpty
<1>2. ASSUME NEW T \in SUBSET S, T # {}, \A x \in T : T \ {x} \in G
      PROVE  T \in G
  <2>1. SumPick(T) \in T /\ IsFiniteSet(T)
    BY <1>2, SumPickIn, FS_Subset
  <2>2. SumOver(f, T \ {SumPick(T)}) = 0 /\ f[SumPick(T)] = 0
    BY <1>2, <2>1
  <2> QED
    BY <1>2, <2>1, <2>2, SumStep
<1> HIDE DEF G
<1>3. SUBSET S \subseteq G
  BY <1>1, <1>2, PartsInduction
<1> QED
  BY <1>3 DEF G

\* Naturals add up to a natural.
LEMMA SumNat ==
  ASSUME NEW f, NEW S, IsFiniteSet(S), \A x \in S : f[x] \in Nat
  PROVE  SumOver(f, S) \in Nat
<1> DEFINE z == [x \in S |-> 0]
<1>1. SumOver(f, S) \in Int
  BY SumType
<1>2. SumOver(z, S) = 0
  BY SumZero
<1>3. SumOver(z, S) <= SumOver(f, S)
  <2>1. \A x \in S : z[x] \in Int /\ f[x] \in Int /\ z[x] <= f[x]
    OBVIOUS
  <2> HIDE DEF z
  <2> QED
    BY <2>1, SumLe
<1> QED
  BY <1>1, <1>2, <1>3

\* The sum of a set is that of a part and that of the rest.
LEMMA SumSplit ==
  ASSUME NEW f, NEW S, IsFiniteSet(S), NEW T \in SUBSET S, \A x \in S : f[x] \in Int
  PROVE  SumOver(f, S) = SumOver(f, T) + SumOver(f, S \ T)
<1> DEFINE R == S \ T
           G == {A \in SUBSET R : SumOver(f, T \cup A) = SumOver(f, T) + SumOver(f, A)}
<1>0. IsFiniteSet(T) /\ IsFiniteSet(R) /\ SumOver(f, T) \in Int
  BY FS_Subset, SumType
<1>1. {} \in G
  <2>1. T \cup {} = T
    OBVIOUS
  <2> QED
    BY <1>0, <2>1, SumEmpty
<1>2. ASSUME NEW A \in SUBSET R, A # {}, \A x \in A : A \ {x} \in G
      PROVE  A \in G
  <2>1. PICK x \in A : TRUE
    BY <1>2
  <2>2. IsFiniteSet(A) /\ IsFiniteSet(A \ {x}) /\ IsFiniteSet(T \cup A)
    BY <1>0, FS_Subset, FS_RemoveElement, FS_Union
  <2>3. SumOver(f, T \cup A) = f[x] + SumOver(f, (T \cup A) \ {x})
    BY <2>2, SumRemove
  <2>4. SumOver(f, A) = f[x] + SumOver(f, A \ {x})
    BY <2>2, SumRemove
  <2>5. (T \cup A) \ {x} = T \cup (A \ {x})
    OBVIOUS
  <2>6. SumOver(f, T \cup (A \ {x})) = SumOver(f, T) + SumOver(f, A \ {x})
    BY <1>2
  <2>7. f[x] \in Int /\ SumOver(f, A \ {x}) \in Int
    BY <2>2, SumType
  <2>8. SumOver(f, T \cup A) = SumOver(f, T) + SumOver(f, A)
    <3>1. PICK a \in Int, b \in Int, c \in Int :
            a = f[x] /\ b = SumOver(f, A \ {x}) /\ c = SumOver(f, T)
      BY <1>0, <2>7
    <3>2. a + (c + b) = c + (a + b)
      OBVIOUS
    <3> QED
      BY <2>3, <2>4, <2>5, <2>6, <3>1, <3>2
  <2> QED
    BY <2>8
<1> HIDE DEF G
<1>3. SUBSET R \subseteq G
  BY <1>0, <1>1, <1>2, PartsInduction
<1>4. R \in G
  BY <1>3
<1>5. T \cup R = S
  OBVIOUS
<1> QED
  BY <1>4, <1>5 DEF G

\* Part of a sum of naturals is at most the whole.
LEMMA SumPart ==
  ASSUME NEW f, NEW S, IsFiniteSet(S), NEW T \in SUBSET S, \A x \in S : f[x] \in Nat
  PROVE  SumOver(f, T) <= SumOver(f, S)
<1>1. IsFiniteSet(T) /\ IsFiniteSet(S \ T)
  BY FS_Subset
<1>2. SumOver(f, T) \in Nat /\ SumOver(f, S \ T) \in Nat
  BY <1>1, SumNat
<1>3. SumOver(f, S) = SumOver(f, T) + SumOver(f, S \ T)
  BY SumSplit
<1> QED
  BY <1>2, <1>3

\* Values taken from elsewhere, each from a place of its own, add up to what is there.
LEMMA SumMap ==
  ASSUME NEW f, NEW g, NEW S, IsFiniteSet(S), NEW h,
         \A x, y \in S : h[x] = h[y] => x = y,
         \A x \in S : f[x] \in Int /\ f[x] = g[h[x]]
  PROVE  SumOver(f, S) = SumOver(g, {h[x] : x \in S})
<1> DEFINE H(T) == {h[x] : x \in T}
           G == {T \in SUBSET S : SumOver(f, T) = SumOver(g, H(T)) /\ IsFiniteSet(H(T))}
<1>1. {} \in G
  <2>1. H({}) = {}
    OBVIOUS
  <2> QED
    BY <2>1, SumEmpty, FS_EmptySet
<1>2. ASSUME NEW T \in SUBSET S, T # {}, \A x \in T : T \ {x} \in G
      PROVE  T \in G
  <2>1. PICK x \in T : T \ {x} \in G
    BY <1>2
  <2>2. IsFiniteSet(T) /\ \A y \in T : f[y] \in Int
    BY FS_Subset
  <2>3. SumOver(f, T) = f[x] + SumOver(f, T \ {x})
    BY <2>2, SumRemove
  <2>4. H(T) = H(T \ {x}) \cup {h[x]} /\ h[x] \notin H(T \ {x})
    OBVIOUS
  <2>5. SumOver(f, T \ {x}) = SumOver(g, H(T \ {x})) /\ IsFiniteSet(H(T \ {x}))
    BY <2>1
  <2>6. \A y \in H(T \ {x}) \cup {h[x]} : g[y] \in Int
    OBVIOUS
  <2> HIDE DEF H, G
  <2>7. SumOver(g, H(T)) = g[h[x]] + SumOver(g, H(T \ {x})) /\ IsFiniteSet(H(T))
    <3>1. PICK K, e : K = H(T \ {x}) /\ e = h[x]
      OBVIOUS
    <3>2. IsFiniteSet(K) /\ e \notin K /\ \A y \in K \cup {e} : g[y] \in Int
      BY <2>4, <2>5, <2>6, <3>1
    <3>3. SumOver(g, K \cup {e}) = g[e] + SumOver(g, K)
      BY <3>2, SumAdd
    <3>4. IsFiniteSet(K \cup {e}) /\ H(T) = K \cup {e}
      BY <2>4, <3>1, <3>2, FS_AddElement
    <3> QED
      BY <3>1, <3>3, <3>4
  <2>8. SumOver(f, T) = SumOver(g, H(T)) /\ IsFiniteSet(H(T))
    BY <2>3, <2>5, <2>7
  <2> QED
    BY <2>8 DEF G
<1> HIDE DEF G
<1>3. SUBSET S \subseteq G
  BY <1>1, <1>2, PartsInduction
<1>4. S \in G
  BY <1>3
<1> QED
  BY <1>4 DEF G

\* The opposite of every value adds up to the opposite.
LEMMA SumNegate ==
  ASSUME NEW f, NEW g, NEW S, IsFiniteSet(S), \A x \in S : f[x] \in Int /\ g[x] = -f[x]
  PROVE  SumOver(g, S) = -SumOver(f, S)
<1> DEFINE G == {T \in SUBSET S : SumOver(g, T) = -SumOver(f, T)}
<1>1. {} \in G
  BY SumEmpty
<1>2. ASSUME NEW T \in SUBSET S, T # {}, \A x \in T : T \ {x} \in G
      PROVE  T \in G
  <2>1. PICK x \in T : T \ {x} \in G
    BY <1>2
  <2>2. IsFiniteSet(T) /\ IsFiniteSet(T \ {x}) /\ \A y \in T : f[y] \in Int /\ g[y] \in Int
    BY FS_Subset
  <2>3. SumOver(f, T) = f[x] + SumOver(f, T \ {x}) /\ SumOver(g, T) = g[x] + SumOver(g, T \ {x})
    BY <2>2, SumRemove
  <2>4. PICK r \in Int : r = SumOver(f, T \ {x})
    BY <2>2, SumType
  <2>5. SumOver(g, T \ {x}) = -r /\ f[x] \in Int /\ g[x] = -f[x]
    BY <2>1, <2>4
  <2>6. SumOver(g, T) = -SumOver(f, T)
    BY <2>3, <2>4, <2>5
  <2> QED
    BY <2>6
<1> HIDE DEF G
<1>3. SUBSET S \subseteq G
  BY <1>1, <1>2, PartsInduction
<1>4. S \in G
  BY <1>3
<1> QED
  BY <1>4 DEF G

-----------------------------------------------------------------------------
(* Ranks.                                                                  *)

\* The rank of a place by what is asked first tells places apart, and every rank is
\* somebody's; places of which the same is asked keep their order.
LEMMA PlacesRanked ==
  ASSUME NEW n \in Nat, NEW w \in [1 .. n -> Nat]
  PROVE  LET upTo(j, k) == w[j] < w[k] \/ (w[j] = w[k] /\ j <= k)
             rank(k)    == Cardinality({j \in 1 .. n : upTo(j, k)})
         IN /\ \A k \in 1 .. n : rank(k) \in 1 .. n
            /\ \A m \in 1 .. n : \E k \in 1 .. n : rank(k) = m
            /\ \A j, k \in 1 .. n : rank(j) = rank(k) => j = k
            /\ \A j, k \in 1 .. n : w[j] = w[k] => (j < k <=> rank(j) < rank(k))
<1> DEFINE S          == 1 .. n
           upTo(j, k) == w[j] < w[k] \/ (w[j] = w[k] /\ j <= k)
           below(k)   == {j \in S : upTo(j, k)}
           rank(k)    == Cardinality(below(k))
           f          == [k \in S |-> rank(k)]
<1>0. IsFiniteSet(S) /\ Cardinality(S) = n
  BY FS_Interval
<1>w. \A k \in S : w[k] \in Nat
  OBVIOUS
<1>1. ASSUME NEW k \in S PROVE IsFiniteSet(below(k)) /\ rank(k) \in S
  <2>1. below(k) \in SUBSET S /\ k \in below(k)
    BY <1>w
  <2>2. IsFiniteSet(below(k)) /\ Cardinality(below(k)) <= n
    BY <1>0, <2>1, FS_Subset
  <2>3. Cardinality(below(k)) \in Nat /\ Cardinality(below(k)) # 0
    BY <2>1, <2>2, FS_CardinalityType, FS_EmptySet
  <2> QED
    BY <2>2, <2>3
<1>2. ASSUME NEW j \in S, NEW k \in S, upTo(j, k), j # k PROVE rank(j) < rank(k)
  <2>1. ASSUME NEW x \in S, upTo(x, j) PROVE upTo(x, k)
    BY <1>2, <1>w, <2>1
  <2>2. below(j) \in SUBSET below(k)
    BY <2>1
  <2>3. k \in below(k) /\ k \notin below(j)
    BY <1>2, <1>w
  <2>4. IsFiniteSet(below(k)) /\ IsFiniteSet(below(j)) /\ below(j) # below(k)
    BY <1>1, <2>3
  <2> HIDE DEF below
  <2>5. rank(j) <= rank(k) /\ rank(j) # rank(k)
    BY <2>2, <2>4, FS_Subset
  <2> QED
    BY <2>4, <2>5, FS_CardinalityType
<1>3. \A j, k \in S : rank(j) = rank(k) => j = k
  <2> SUFFICES ASSUME NEW j \in S, NEW k \in S, rank(j) = rank(k), j # k PROVE FALSE
    OBVIOUS
  <2>1. upTo(j, k) \/ upTo(k, j)
    BY <1>w
  <2>2. rank(j) \in S /\ rank(k) \in S
    BY <1>1
  <2> HIDE DEF rank, upTo
  <2> QED
    BY <1>2, <2>1, <2>2
<1>4. \A j, k \in S : w[j] = w[k] => (j < k <=> rank(j) < rank(k))
  <2> SUFFICES ASSUME NEW j \in S, NEW k \in S, w[j] = w[k] PROVE j < k <=> rank(j) < rank(k)
    OBVIOUS
  <2>1. rank(j) \in S /\ rank(k) \in S
    BY <1>1
  <2>2. CASE j < k
    <3>1. upTo(j, k)
      BY <2>2
    <3> QED
      BY <1>2, <2>2, <3>1
  <2>3. CASE k < j
    <3>1. upTo(k, j)
      BY <2>3
    <3>2. rank(k) < rank(j)
      BY <1>2, <2>3, <3>1
    <3> HIDE DEF rank
    <3> QED
      BY <2>1, <2>3, <3>2
  <2>4. CASE j = k
    <3> HIDE DEF rank
    <3> QED
      BY <2>1, <2>4
  <2> HIDE DEF rank
  <2> QED
    BY <2>2, <2>3, <2>4
<1> HIDE DEF rank
<1>5. f \in Injection(S, S)
  BY <1>1, <1>3 DEF Injection, IsInjective
<1>6. f \in Surjection(S, S)
  <2> HIDE DEF f
  <2> QED
    BY <1>0, <1>5, FS_Injection
<1>7. \A m \in S : \E k \in S : rank(k) = m
  BY <1>6 DEF Surjection
<1> QED
  BY <1>1, <1>3, <1>4, <1>7 DEF rank

=============================================================================
