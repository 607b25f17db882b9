------------------------------ MODULE FiniteSums ------------------------------
(***************************************************************************)
(* What the sums of module Sums do when a set or a function changes, and   *)
(* the induction over finite sets that shows it.                           *)
(***************************************************************************)
EXTENDS Sums, FiniteSetTheorems, WellFoundedInduction, TLAPS

Pick(s) == CHOOSE x \in s : TRUE

(* it is the function that MapThenSumSet iterates, on the sets in D.       *)
Iterates(it, f, D) ==
  it = [s \in D |-> IF s = {} THEN 0 ELSE f[Pick(s)] + it[s \ {Pick(s)}]]

-------------------------------------------------------------------------------
(* Induction without an operator for the induction hypothesis, which the   *)
(* provers could not instantiate: the hypothesis is a set.                 *)

(* Natural numbers are well ordered.                                       *)
LEMMA SmallestElement ==
  ASSUME NEW T \in SUBSET Nat, T # {}
  PROVE  \E n \in T : \A m \in T : n <= m
<1> DEFINE R == OpToRel(<, Nat)
<1>1. IsWellFoundedOn(R, Nat)
  BY NatLessThanWellFounded
<1>2. PICK n \in T : \A m \in T : ~(<<m, n>> \in R)
  BY <1>1, WFMin
<1>3. \A m \in T : ~(m < n)
  BY <1>2 DEF OpToRel
<1>4. QED
  BY <1>3

(* Induction over the natural numbers.                                     *)
LEMMA NumberInduction ==
  ASSUME NEW G, 0 \in G, \A n \in Nat : n \in G => n + 1 \in G
  PROVE  Nat \subseteq G
<1> DEFINE Bad == Nat \ G
<1>1. SUFFICES ASSUME Bad # {} PROVE FALSE
  OBVIOUS
<1>2. PICK n \in Bad : \A m \in Bad : n <= m
  BY <1>1, SmallestElement
<1>3. n \in Nat /\ n # 0 /\ n - 1 \in Nat
  OBVIOUS
<1>4. n - 1 \in G
  BY <1>2, <1>3
<1>5. QED
  BY <1>3, <1>4

(* A family of subsets of a finite set that holds the empty one, and every *)
(* set from which each removal of one element is in it, holds all of them. *)
LEMMA SubsetInduction ==
  ASSUME NEW A, IsFiniteSet(A), NEW G,
         {} \in G,
         \A s \in SUBSET A : s # {} /\ (\A x \in s : s \ {x} \in G) => s \in G
  PROVE  SUBSET A \subseteq G
<1> DEFINE Bad == {s \in SUBSET A : s \notin G}
           T   == {n \in Nat : \E s \in Bad : Cardinality(s) = n}
<1>1. SUFFICES ASSUME Bad # {} PROVE FALSE
  OBVIOUS
<1>2. \A s \in SUBSET A : IsFiniteSet(s) /\ Cardinality(s) \in Nat
  BY FS_Subset, FS_CardinalityType
<1>3. T \in SUBSET Nat /\ T # {}
  BY <1>1, <1>2
<1>4. PICK n \in T : \A m \in T : n <= m
  BY <1>3, SmallestElement
<1>5. PICK s \in Bad : Cardinality(s) = n
  BY <1>4
<1>6. ASSUME NEW x \in s PROVE s \ {x} \in G
  <2>1. IsFiniteSet(s) /\ s \ {x} \in SUBSET A
    BY <1>2
  <2>2. Cardinality(s \ {x}) = n - 1
    BY <1>5, <2>1, FS_RemoveElement
  <2>3. Cardinality(s \ {x}) \notin T
    <3>1. n \in Nat /\ ~(n <= n - 1)
      BY <1>3
    <3>2. QED
      BY <1>4, <2>2, <3>1
  <2>4. QED
    BY <1>2, <2>1, <2>3
<1>7. QED
  BY <1>5, <1>6

-------------------------------------------------------------------------------
(* The recursion that defines the sum has one solution.                    *)

LEMMA PickIn == \A s : s # {} => Pick(s) \in s
BY DEF Pick

LEMMA SumIsIterate ==
  ASSUME NEW f, NEW S
  PROVE  SumOver(f, S) = (CHOOSE it : Iterates(it, f, SUBSET S))[S]
BY DEF SumOver, MapThenSumSet, MapThenFoldSet, Iterates, Pick

LEMMA IterateExists ==
  ASSUME NEW f, NEW S, IsFiniteSet(S)
  PROVE  \E it : Iterates(it, f, SUBSET S)
<1> DEFINE Upto(n) == {s \in SUBSET S : Cardinality(s) <= n}
           G       == {n \in Nat : \E it : Iterates(it, f, Upto(n))}
<1>1. \A s \in SUBSET S : IsFiniteSet(s) /\ Cardinality(s) \in Nat
  BY FS_Subset, FS_CardinalityType
<1>2. 0 \in G
  <2>1. Upto(0) = {{}}
    BY <1>1, FS_EmptySet, SMTT(30)
  <2>2. Iterates([s \in Upto(0) |-> 0], f, Upto(0))
    BY <2>1 DEF Iterates
  <2>3. QED
    BY <2>2
<1>3. ASSUME NEW n \in Nat, n \in G PROVE n + 1 \in G
  <2>1. PICK it : Iterates(it, f, Upto(n))
    BY <1>3
  <2> DEFINE next == [s \in Upto(n + 1) |-> IF s = {} THEN 0 ELSE f[Pick(s)] + it[s \ {Pick(s)}]]
  <2>2. ASSUME NEW s \in Upto(n + 1), s # {}
        PROVE  /\ s \ {Pick(s)} \in Upto(n + 1) /\ s \ {Pick(s)} \in Upto(n)
               /\ next[s \ {Pick(s)}] = it[s \ {Pick(s)}]
    <3> DEFINE r == s \ {Pick(s)}
    <3>1. Cardinality(r) = Cardinality(s) - 1
      BY <1>1, <2>2, PickIn, FS_RemoveElement
    <3>2. r \in Upto(n) /\ r \in Upto(n + 1)
      BY <1>1, <1>3, <3>1
    <3>3. it[r] = IF r = {} THEN 0 ELSE f[Pick(r)] + it[r \ {Pick(r)}]
      BY <2>1, <3>2 DEF Iterates
    <3>4. next[r] = IF r = {} THEN 0 ELSE f[Pick(r)] + it[r \ {Pick(r)}]
      BY <3>2
    <3>5. QED
      BY <3>2, <3>3, <3>4
  <2>3. next = [s \in Upto(n + 1) |-> IF s = {} THEN 0 ELSE f[Pick(s)] + next[s \ {Pick(s)}]]
    <3>1. \A s \in Upto(n + 1) : (IF s = {} THEN 0 ELSE f[Pick(s)] + it[s \ {Pick(s)}])
                           = (IF s = {} THEN 0 ELSE f[Pick(s)] + next[s \ {Pick(s)}])
      BY <2>2
    <3>2. QED
      BY <3>1
  <2>4. Iterates(next, f, Upto(n + 1))
    BY <2>3 DEF Iterates
  <2>5. \E x : Iterates(x, f, Upto(n + 1))
    BY <2>4
  <2>6. n + 1 \in Nat
    OBVIOUS
  <2> HIDE DEF Upto
  <2>7. QED
    BY <2>5, <2>6
<1>4. Nat \subseteq G
  <2> HIDE DEF G
  <2>1. QED
    BY <1>2, <1>3, NumberInduction
<1>5. Cardinality(S) \in Nat /\ Upto(Cardinality(S)) = SUBSET S
  BY <1>1, FS_Subset, FS_CardinalityType
<1>6. QED
  BY <1>4, <1>5

LEMMA IterateUnique ==
  ASSUME NEW f, NEW S, NEW T, NEW i, NEW j, NEW u, IsFiniteSet(u),
         Iterates(i, f, SUBSET S), Iterates(j, f, SUBSET T), u \subseteq S, u \subseteq T
  PROVE  i[u] = j[u]
<1> DEFINE G == {s \in SUBSET u : i[s] = j[s]}
<1>1. {} \in G
  BY DEF Iterates
<1>2. ASSUME NEW s \in SUBSET u, s # {}, \A x \in s : s \ {x} \in G PROVE s \in G
  <2>1. i[s] = f[Pick(s)] + i[s \ {Pick(s)}] /\ j[s] = f[Pick(s)] + j[s \ {Pick(s)}]
    BY <1>2 DEF Iterates
  <2>2. i[s \ {Pick(s)}] = j[s \ {Pick(s)}]
    BY <1>2, PickIn
  <2>3. QED
    BY <2>1, <2>2
<1>3. SUBSET u \subseteq G
  <2> HIDE DEF G
  <2>1. QED
    BY <1>1, <1>2, SubsetInduction
<1>4. QED
  BY <1>3

(* The equation of the sum.                                                *)
LEMMA SumRecursion ==
  ASSUME NEW f, NEW S, IsFiniteSet(S)
  PROVE  SumOver(f, S) = IF S = {} THEN 0 ELSE f[Pick(S)] + SumOver(f, S \ {Pick(S)})
<1> DEFINE Iter(s) == CHOOSE it : Iterates(it, f, SUBSET s)
           r       == S \ {Pick(S)}
<1>1. \A s : IsFiniteSet(s) => Iterates(Iter(s), f, SUBSET s)
  BY IterateExists
<1>2. IsFiniteSet(r)
  BY FS_Subset
<1>3. Iter(S)[S] = IF S = {} THEN 0 ELSE f[Pick(S)] + Iter(S)[r]
  <2>1. Iterates(Iter(S), f, SUBSET S)
    BY <1>1
  <2> DEFINE i == Iter(S)
  <2> HIDE DEF i
  <2>2. QED
    BY <2>1 DEF Iterates, i
<1>4. Iter(S)[r] = Iter(r)[r]
  <2> DEFINE i == Iter(S)
             j == Iter(r)
  <2>1. Iterates(i, f, SUBSET S) /\ Iterates(j, f, SUBSET r)
    BY <1>1, <1>2
  <2>2. r \subseteq S
    OBVIOUS
  <2> HIDE DEF i, j, r
  <2>3. i[r] = j[r]
    BY <1>2, <2>1, <2>2, IterateUnique
  <2>4. QED
    BY <2>3 DEF i, j
<1>5. SumOver(f, S) = Iter(S)[S] /\ SumOver(f, r) = Iter(r)[r]
  BY SumIsIterate
<1>6. QED
  BY <1>3, <1>4, <1>5

-------------------------------------------------------------------------------
(* What proofs use of sums.                                                *)

LEMMA SumEmpty == \A f : SumOver(f, {}) = 0
BY SumRecursion, FS_EmptySet

LEMMA SumInt ==
  ASSUME NEW S, IsFiniteSet(S), NEW f, \A x \in S : f[x] \in Int
  PROVE  SumOver(f, S) \in Int
<1> DEFINE G == {s \in SUBSET S : SumOver(f, s) \in Int}
<1>1. {} \in G
  BY SumEmpty
<1>2. ASSUME NEW s \in SUBSET S, s # {}, \A x \in s : s \ {x} \in G PROVE s \in G
  <2>1. IsFiniteSet(s) /\ Pick(s) \in s
    BY <1>2, FS_Subset, PickIn
  <2>2. SumOver(f, s) = f[Pick(s)] + SumOver(f, s \ {Pick(s)})
    BY <1>2, <2>1, SumRecursion
  <2>3. QED
    BY <1>2, <2>1, <2>2
<1>3. SUBSET S \subseteq G
  <2> HIDE DEF G
  <2>1. QED
    BY <1>1, <1>2, SubsetInduction
<1>4. QED
  BY <1>3

(* Any element may be split off.                                           *)
LEMMA SumRemove ==
  ASSUME NEW S, IsFiniteSet(S), NEW f, \A x \in S : f[x] \in Int, NEW e \in S
  PROVE  SumOver(f, S) = f[e] + SumOver(f, S \ {e})
<1> DEFINE G == {s \in SUBSET S : \A x \in s : SumOver(f, s) = f[x] + SumOver(f, s \ {x})}
<1>1. {} \in G
  OBVIOUS
<1>2. ASSUME NEW s \in SUBSET S, s # {}, \A x \in s : s \ {x} \in G PROVE s \in G
  <2> DEFINE p == Pick(s)
  <2>1. IsFiniteSet(s) /\ p \in s
    BY <1>2, FS_Subset, PickIn
  <2>2. SumOver(f, s) = f[p] + SumOver(f, s \ {p})
    BY <1>2, <2>1, SumRecursion
  <2>3. ASSUME NEW x \in s, x # p PROVE SumOver(f, s) = f[x] + SumOver(f, s \ {x})
    <3> DEFINE r == (s \ {x}) \ {p}
    <3>1. SumOver(f, s \ {p}) = f[x] + SumOver(f, (s \ {p}) \ {x})
      BY <1>2, <2>1, <2>3
    <3>2. SumOver(f, s \ {x}) = f[p] + SumOver(f, r)
      BY <1>2, <2>1, <2>3
    <3>3. (s \ {p}) \ {x} = r
      OBVIOUS
    <3>4. IsFiniteSet(r) /\ \A y \in r : f[y] \in Int
      BY <2>1, FS_Subset
    <3>5. SumOver(f, r) \in Int
      BY <3>4, SumInt
    <3>6. f[x] \in Int /\ f[p] \in Int
      BY <2>1
    <3>7. SumOver(f, s \ {p}) = f[x] + SumOver(f, r)
      BY <3>1, <3>3
    <3> HIDE DEF p, r
    <3>8. QED
      BY <2>2, <3>2, <3>5, <3>6, <3>7
  <2>4. QED
    BY <2>2, <2>3
<1>3. SUBSET S \subseteq G
  <2> HIDE DEF G
  <2>1. QED
    BY <1>1, <1>2, SubsetInduction
<1>4. QED
  BY <1>3

LEMMA SumAdd ==
  ASSUME NEW S, IsFiniteSet(S), NEW f, \A x \in S : f[x] \in Int,
         NEW e, e \notin S, f[e] \in Int
  PROVE  SumOver(f, S \union {e}) = f[e] + SumOver(f, S)
<1>1. IsFiniteSet(S \union {e}) /\ (S \union {e}) \ {e} = S
  BY FS_AddElement
<1>2. QED
  BY <1>1, SumRemove

(* Only the values on the set count.                                       *)
LEMMA SumSame ==
  ASSUME NEW S, IsFiniteSet(S), NEW f, NEW g, \A x \in S : f[x] = g[x]
  PROVE  SumOver(f, S) = SumOver(g, S)
<1> DEFINE G == {s \in SUBSET S : SumOver(f, s) = SumOver(g, s)}
<1>1. {} \in G
  BY SumEmpty
<1>2. ASSUME NEW s \in SUBSET S, s # {}, \A x \in s : s \ {x} \in G PROVE s \in G
  <2>1. IsFiniteSet(s) /\ Pick(s) \in s
    BY <1>2, FS_Subset, PickIn
  <2>2. /\ SumOver(f, s) = f[Pick(s)] + SumOver(f, s \ {Pick(s)})
        /\ SumOver(g, s) = g[Pick(s)] + SumOver(g, s \ {Pick(s)})
    BY <1>2, <2>1, SumRecursion
  <2>3. QED
    BY <1>2, <2>1, <2>2
<1>3. SUBSET S \subseteq G
  <2> HIDE DEF G
  <2>1. QED
    BY <1>1, <1>2, SubsetInduction
<1>4. QED
  BY <1>3

(* One value changes.                                                      *)
LEMMA SumChange ==
  ASSUME NEW S, IsFiniteSet(S), NEW f, NEW g, NEW e \in S,
         \A x \in S : f[x] \in Int, g[e] \in Int, \A x \in S \ {e} : g[x] = f[x]
  PROVE  SumOver(g, S) = SumOver(f, S) - f[e] + g[e]
<1>1. IsFiniteSet(S \ {e})
  BY FS_Subset
<1>2. SumOver(f, S) = f[e] + SumOver(f, S \ {e}) /\ SumOver(g, S) = g[e] + SumOver(g, S \ {e})
  BY SumRemove
<1>3. SumOver(g, S \ {e}) = SumOver(f, S \ {e})
  BY <1>1, SumSame
<1>4. SumOver(f, S \ {e}) \in Int
  BY <1>1, SumInt
<1>5. QED
  BY <1>2, <1>3, <1>4

(* One term grows.                                                         *)
LEMMA SumGrows ==
  ASSUME NEW S, IsFiniteSet(S), NEW f, NEW g, NEW e \in S, NEW n \in Int,
         \A x \in S : f[x] \in Int, g[e] = f[e] + n, \A x \in S \ {e} : g[x] = f[x]
  PROVE  SumOver(g, S) = SumOver(f, S) + n
<1>1. IsFiniteSet(S \ {e}) /\ \A x \in S \ {e} : f[x] = g[x]
  BY FS_Subset
<1>2. \A x \in S : g[x] \in Int
  OBVIOUS
<1>3. SumOver(f, S) = f[e] + SumOver(f, S \ {e}) /\ SumOver(g, S) = g[e] + SumOver(g, S \ {e})
  BY <1>2, SumRemove
<1>4. SumOver(f, S \ {e}) = SumOver(g, S \ {e})
  BY <1>1, SumSame
<1>5. \A x \in S \ {e} : f[x] \in Int
  OBVIOUS
<1>6. SumOver(f, S \ {e}) \in Int
  BY <1>1, <1>5, SumInt
<1>7. QED
  BY <1>3, <1>4, <1>6

(* One term takes the place of another.                                    *)
LEMMA SumReplaced ==
  ASSUME NEW S, IsFiniteSet(S), NEW f, NEW g, NEW a \in S, NEW b \in S, a # b,
         \A x \in S : f[x] \in Nat, g[a] = 0, g[b] = f[a], \A x \in S \ {a, b} : g[x] = f[x]
  PROVE  SumOver(g, S) <= SumOver(f, S)
<1> DEFINE R == (S \ {a}) \ {b}
<1>1. IsFiniteSet(S \ {a}) /\ IsFiniteSet(R) /\ b \in S \ {a} /\ \A x \in R : g[x] = f[x]
  BY FS_Subset
<1>2. (\A x \in S : f[x] \in Int) /\ \A x \in S : g[x] \in Int
  OBVIOUS
<1>3. SumOver(f, S) = f[a] + SumOver(f, S \ {a}) /\ SumOver(g, S) = g[a] + SumOver(g, S \ {a})
  BY <1>2, SumRemove
<1>4. SumOver(f, S \ {a}) = f[b] + SumOver(f, R) /\ SumOver(g, S \ {a}) = g[b] + SumOver(g, R)
  BY <1>1, <1>2, SumRemove
<1>5. SumOver(g, R) = SumOver(f, R) /\ SumOver(f, R) \in Int
  <2>1. \A x \in R : f[x] \in Int
    BY <1>2
  <2> HIDE DEF R
  <2>2. QED
    BY <1>1, <2>1, SumSame, SumInt
<1>6. QED
  BY <1>3, <1>4, <1>5

LEMMA SumMonotone ==
  ASSUME NEW S, IsFiniteSet(S), NEW f, NEW g,
         \A x \in S : f[x] \in Int /\ g[x] \in Int /\ f[x] <= g[x]
  PROVE  SumOver(f, S) <= SumOver(g, S)
<1> DEFINE G == {s \in SUBSET S : SumOver(f, s) <= SumOver(g, s)}
<1>1. {} \in G
  BY SumEmpty
<1>2. ASSUME NEW s \in SUBSET S, s # {}, \A x \in s : s \ {x} \in G PROVE s \in G
  <2> DEFINE p == Pick(s)
             r == s \ {p}
  <2>1. IsFiniteSet(s) /\ p \in s /\ IsFiniteSet(r)
    BY <1>2, FS_Subset, PickIn
  <2>2. SumOver(f, s) = f[p] + SumOver(f, r) /\ SumOver(g, s) = g[p] + SumOver(g, r)
    BY <1>2, <2>1, SumRecursion
  <2>3. SumOver(f, r) \in Int /\ SumOver(g, r) \in Int
    BY <2>1, SumInt
  <2>4. SumOver(f, r) <= SumOver(g, r)
    BY <1>2, <2>1
  <2>5. f[p] \in Int /\ g[p] \in Int /\ f[p] <= g[p]
    BY <2>1
  <2>6. SumOver(f, s) <= SumOver(g, s)
    BY <2>2, <2>3, <2>4, <2>5
  <2>7. QED
    BY <2>6
<1>3. SUBSET S \subseteq G
  <2> HIDE DEF G
  <2>1. QED
    BY <1>1, <1>2, SubsetInduction
<1>4. QED
  BY <1>3

LEMMA SumZero ==
  ASSUME NEW S, IsFiniteSet(S), NEW f, \A x \in S : f[x] = 0
  PROVE  SumOver(f, S) = 0
<1> DEFINE G == {s \in SUBSET S : SumOver(f, s) = 0}
<1>1. {} \in G
  BY SumEmpty
<1>2. ASSUME NEW s \in SUBSET S, s # {}, \A x \in s : s \ {x} \in G PROVE s \in G
  <2>1. IsFiniteSet(s) /\ Pick(s) \in s
    BY <1>2, FS_Subset, PickIn
  <2>2. SumOver(f, s) = f[Pick(s)] + SumOver(f, s \ {Pick(s)})
    BY <1>2, <2>1, SumRecursion
  <2>3. QED
    BY <1>2, <2>1, <2>2
<1>3. SUBSET S \subseteq G
  <2> HIDE DEF G
  <2>1. QED
    BY <1>1, <1>2, SubsetInduction
<1>4. QED
  BY <1>3

(* A sum of naturals is a natural, and bounds each of its terms.           *)
LEMMA SumNat ==
  ASSUME NEW S, IsFiniteSet(S), NEW f, \A x \in S : f[x] \in Nat
  PROVE  SumOver(f, S) \in Nat /\ \A x \in S : f[x] <= SumOver(f, S)
<1> DEFINE z == [x \in S |-> 0]
<1>1. ASSUME NEW s \in SUBSET S PROVE SumOver(f, s) \in Nat
  <2>1. IsFiniteSet(s)
    BY FS_Subset
  <2>2. SumOver(f, s) \in Int
    BY <2>1, SumInt
  <2>3. SumOver(z, s) = 0
    BY <2>1, SumZero
  <2>4. \A x \in s : z[x] \in Int /\ f[x] \in Int /\ z[x] <= f[x]
    OBVIOUS
  <2> HIDE DEF z
  <2>5. SumOver(z, s) <= SumOver(f, s)
    BY <2>1, <2>4, SumMonotone
  <2>6. QED
    BY <2>2, <2>3, <2>5
<1>2. ASSUME NEW x \in S PROVE f[x] <= SumOver(f, S)
  <2>1. SumOver(f, S) = f[x] + SumOver(f, S \ {x})
    BY SumRemove
  <2>2. SumOver(f, S \ {x}) \in Nat
    BY <1>1
  <2>3. QED
    BY <2>1, <2>2
<1>3. QED
  BY <1>1, <1>2

(* Two disjoint sets.                                                      *)
LEMMA SumUnion ==
  ASSUME NEW S, NEW T, IsFiniteSet(S), IsFiniteSet(T), S \cap T = {},
         NEW f, \A x \in S \union T : f[x] \in Int
  PROVE  SumOver(f, S \union T) = SumOver(f, S) + SumOver(f, T)
<1> DEFINE G == {s \in SUBSET S : SumOver(f, s \union T) = SumOver(f, s) + SumOver(f, T)}
<1>1. SumOver(f, T) \in Int
  BY SumInt
<1>2. {} \in G
  <2>1. {} \union T = T
    OBVIOUS
  <2>2. QED
    BY <1>1, <2>1, SumEmpty
<1>3. ASSUME NEW s \in SUBSET S, s # {}, \A x \in s : s \ {x} \in G
      PROVE  s \in G
  <2>1. PICK x \in s : TRUE
    BY <1>3
  <2>2. IsFiniteSet(s) /\ IsFiniteSet(s \union T) /\ IsFiniteSet(s \ {x})
    BY FS_Subset, FS_Union
  <2>3. (s \union T) \ {x} = (s \ {x}) \union T
    OBVIOUS
  <2>4. SumOver(f, s \union T) = f[x] + SumOver(f, (s \ {x}) \union T)
    BY <2>2, <2>3, SumRemove
  <2>5. SumOver(f, s) = f[x] + SumOver(f, s \ {x})
    BY <2>2, SumRemove
  <2>6. f[x] \in Int /\ SumOver(f, s \ {x}) \in Int
    BY <2>2, SumInt
  <2>7. SumOver(f, (s \ {x}) \union T) = SumOver(f, s \ {x}) + SumOver(f, T)
    BY <1>3
  <2>8. QED
    BY <1>1, <2>4, <2>5, <2>6, <2>7
<1>4. SUBSET S \subseteq G
  <2> HIDE DEF G
  <2>1. QED
    BY <1>2, <1>3, SubsetInduction
<1>5. QED
  BY <1>4

(* A part sums up to no more than the whole.                               *)
LEMMA SumSubset ==
  ASSUME NEW S, IsFiniteSet(S), NEW f, \A x \in S : f[x] \in Nat, NEW T \in SUBSET S
  PROVE  SumOver(f, T) <= SumOver(f, S)
<1>1. IsFiniteSet(T) /\ IsFiniteSet(S \ T)
  BY FS_Subset
<1>2. T \cap (S \ T) = {} /\ T \union (S \ T) = S
  OBVIOUS
<1>3. SumOver(f, S) = SumOver(f, T) + SumOver(f, S \ T)
  BY <1>1, <1>2, SumUnion
<1>4. SumOver(f, T) \in Nat /\ SumOver(f, S \ T) \in Nat
  BY <1>1, SumNat
<1>5. QED
  BY <1>3, <1>4

(* Terms in proportion give sums in proportion.                            *)
LEMMA SumScaled ==
  ASSUME NEW S, IsFiniteSet(S), NEW f, NEW g, NEW k \in Int, NEW c \in Int,
         \A x \in S : f[x] \in Int /\ g[x] \in Int /\ k * f[x] <= c * g[x]
  PROVE  k * SumOver(f, S) <= c * SumOver(g, S)
<1> DEFINE G == {s \in SUBSET S : k * SumOver(f, s) <= c * SumOver(g, s)}
<1>1. {} \in G
  BY SumEmpty
<1>2. ASSUME NEW s \in SUBSET S, s # {}, \A x \in s : s \ {x} \in G
      PROVE  s \in G
  <2>1. PICK x \in s : TRUE
    BY <1>2
  <2>2. IsFiniteSet(s) /\ IsFiniteSet(s \ {x})
    BY FS_Subset
  <2>3. SumOver(f, s) = f[x] + SumOver(f, s \ {x}) /\ SumOver(g, s) = g[x] + SumOver(g, s \ {x})
    BY <2>2, SumRemove
  <2>4. SumOver(f, s \ {x}) \in Int /\ SumOver(g, s \ {x}) \in Int
    BY <2>2, SumInt
  <2>5. k * SumOver(f, s) = k * f[x] + k * SumOver(f, s \ {x})
    BY <2>3, <2>4
  <2>6. c * SumOver(g, s) = c * g[x] + c * SumOver(g, s \ {x})
    BY <2>3, <2>4
  <2>7. k * SumOver(f, s \ {x}) <= c * SumOver(g, s \ {x}) /\ k * f[x] <= c * g[x]
    BY <1>2
  <2>8. QED
    BY <2>4, <2>5, <2>6, <2>7
<1>3. SUBSET S \subseteq G
  <2> HIDE DEF G
  <2>1. QED
    BY <1>1, <1>2, SubsetInduction
<1>4. QED
  BY <1>3

(* A sum of terms of at most k, and their average rounded down.            *)
LEMMA SumBounded ==
  ASSUME NEW S, IsFiniteSet(S), NEW k \in Nat, NEW f, \A x \in S : f[x] \in Int /\ f[x] <= k
  PROVE  SumOver(f, S) <= k * Cardinality(S)
<1> DEFINE G == {s \in SUBSET S : SumOver(f, s) <= k * Cardinality(s)}
<1>1. {} \in G
  BY SumEmpty, FS_EmptySet
<1>2. ASSUME NEW s \in SUBSET S, s # {}, \A x \in s : s \ {x} \in G
      PROVE  s \in G
  <2>1. PICK x \in s : TRUE
    BY <1>2
  <2>2. IsFiniteSet(s) /\ IsFiniteSet(s \ {x})
    BY FS_Subset
  <2>3. SumOver(f, s) = f[x] + SumOver(f, s \ {x}) /\ SumOver(f, s \ {x}) \in Int
    BY <2>2, SumRemove, SumInt
  <2>4. Cardinality(s \ {x}) = Cardinality(s) - 1 /\ Cardinality(s) \in Nat
    BY <2>2, FS_RemoveElement, FS_CardinalityType
  <2> DEFINE n == Cardinality(s \ {x})
  <2>5. n \in Int /\ Cardinality(s) = n + 1
    BY <2>4
  <2>6. SumOver(f, s \ {x}) <= k * n /\ f[x] \in Int /\ f[x] <= k
    BY <1>2
  <2> HIDE DEF n
  <2>7. k * (n + 1) = k * n + k /\ k * n \in Int
    BY <2>5
  <2>8. QED
    BY <2>3, <2>5, <2>6, <2>7
<1>3. SUBSET S \subseteq G
  <2> HIDE DEF G
  <2>1. QED
    BY <1>1, <1>2, SubsetInduction
<1>4. QED
  BY <1>3

LEMMA MeanInRange ==
  ASSUME NEW S, IsFiniteSet(S), S # {}, NEW k \in Nat, NEW f, \A x \in S : f[x] \in 0..k
  PROVE  SumOver(f, S) \div Cardinality(S) \in 0..k
<1> DEFINE n == Cardinality(S)
           t == SumOver(f, S)
<1>1. n \in Nat /\ n > 0
  BY FS_CardinalityType, FS_EmptySet
<1>2. t \in Nat
  BY SumNat
<1>3. t <= k * n
  BY SumBounded
<1> HIDE DEF n, t
<1>4. t \div n \in Nat /\ n * (t \div n) <= t
  BY <1>1, <1>2
<1>5. ~(t \div n > k)
  <2>1. SUFFICES ASSUME t \div n >= k + 1 PROVE FALSE
    BY <1>4
  <2>2. n * (t \div n) >= n * (k + 1)
    BY <1>1, <1>4, <2>1
  <2>3. n * (k + 1) = k * n + n
    BY <1>1
  <2>4. k * n \in Int /\ n * (t \div n) \in Int
    BY <1>1, <1>4
  <2>5. QED
    BY <1>1, <1>2, <1>3, <1>4, <2>2, <2>3, <2>4
<1>6. QED
  BY <1>4, <1>5 DEF n, t

(* A share of at most 100% is at most the whole.                           *)
LEMMA ShareOfWhole ==
  ASSUME NEW a \in Nat, NEW b \in Nat, NEW w \in Nat, w > 0, b <= w
  PROVE  (a * b) \div w \in 0..a
<1>1. a * b <= a * w
  OBVIOUS
<1>2. a * b \in Nat
  OBVIOUS
<1> DEFINE n == a * b
<1>3. n \div w \in Nat /\ w * (n \div w) <= n
  BY <1>2
<1> HIDE DEF n
<1>4. w * (n \div w) <= a * w
  BY <1>1, <1>2, <1>3 DEF n
<1>5. n \div w <= a
  BY <1>3, <1>4
<1>6. QED
  BY <1>3, <1>5 DEF n

(* A total shared out in proportion to parts that add up to at most the    *)
(* whole, each share rounded down: the shares come to at most the total.   *)
LEMMA SharesOfTotal ==
  ASSUME NEW S, IsFiniteSet(S), NEW n \in Nat, NEW w \in Nat, w > 0, NEW part, NEW share,
         \A x \in S : part[x] \in Nat /\ share[x] = (n * part[x]) \div w,
         SumOver(part, S) <= w
  PROVE  /\ \A x \in S : share[x] \in Nat
         /\ SumOver(share, S) \in Nat /\ SumOver(share, S) <= n
<1>1. ASSUME NEW x \in S PROVE share[x] \in Nat /\ w * share[x] <= n * part[x]
  <2> DEFINE p == n * part[x]
  <2>1. p \in Nat /\ share[x] = p \div w
    OBVIOUS
  <2> HIDE DEF p
  <2>2. share[x] \in Nat /\ w * share[x] <= p
    BY <2>1
  <2>3. QED
    BY <2>2 DEF p
<1>2. SumOver(share, S) \in Nat /\ SumOver(part, S) \in Nat
  BY <1>1, SumNat
<1>3. \A x \in S : share[x] \in Int /\ part[x] \in Int /\ w * share[x] <= n * part[x]
  BY <1>1
<1>4. w * SumOver(share, S) <= n * SumOver(part, S)
  <2>1. w \in Int /\ n \in Int
    OBVIOUS
  <2>2. QED
    BY <1>3, <2>1, SumScaled
<1>5. ASSUME NEW a \in Nat, NEW b \in Nat, w * a <= n * b, b <= w PROVE a <= n
  <2>1. n * b <= n * w
    BY <1>5
  <2>2. w * a <= w * n
    BY <1>5, <2>1
  <2>3. QED
    BY <2>2
<1>6. QED
  BY <1>1, <1>2, <1>4, <1>5

(* A sum taken group by group.                                             *)
LEMMA SumByGroup ==
  ASSUME NEW K, IsFiniteSet(K), NEW f, \A k \in K : f[k] \in Int,
         NEW I, IsFiniteSet(I), NEW h, \A k \in K : h[k] \in I,
         NEW g, \A x \in I : g[x] = SumOver(f, {k \in K : h[k] = x})
  PROVE  SumOver(g, I) = SumOver(f, K)
<1> DEFINE Members(s) == {k \in K : h[k] \in s}
           G == {s \in SUBSET I : SumOver(g, s) = SumOver(f, Members(s))}
<1>1. {} \in G
  <2>1. Members({}) = {}
    OBVIOUS
  <2>2. QED
    BY <2>1, SumEmpty
<1>2. ASSUME NEW s \in SUBSET I, s # {}, \A x \in s : s \ {x} \in G
      PROVE  s \in G
  <2>1. PICK x \in s : TRUE
    BY <1>2
  <2> DEFINE T == {k \in K : h[k] = x}
  <2>2. IsFiniteSet(s) /\ IsFiniteSet(T) /\ IsFiniteSet(Members(s \ {x}))
    BY FS_Subset
  <2>3. T \union Members(s \ {x}) = Members(s) /\ T \cap Members(s \ {x}) = {}
    OBVIOUS
  <2>4. \A k \in T \union Members(s \ {x}) : f[k] \in Int
    OBVIOUS
  <2>5. SumOver(f, T \union Members(s \ {x})) = SumOver(f, T) + SumOver(f, Members(s \ {x}))
    <3> HIDE DEF T, Members
    <3>1. QED
      BY <2>2, <2>3, <2>4, SumUnion
  <2>6. \A y \in s : g[y] \in Int
    <3> SUFFICES ASSUME NEW y \in s PROVE g[y] \in Int
      OBVIOUS
    <3> DEFINE Y == {k \in K : h[k] = y}
    <3>1. IsFiniteSet(Y) /\ \A k \in Y : f[k] \in Int
      BY FS_Subset
    <3>2. g[y] = SumOver(f, Y)
      OBVIOUS
    <3> HIDE DEF Y
    <3>3. QED
      BY <3>1, <3>2, SumInt
  <2>7. SumOver(g, s) = g[x] + SumOver(g, s \ {x})
    <3> HIDE DEF T, Members
    <3>1. QED
      BY <2>2, <2>6, SumRemove
  <2>8. g[x] = SumOver(f, T) /\ SumOver(g, s \ {x}) = SumOver(f, Members(s \ {x}))
    BY <1>2
  <2>9. QED
    BY <2>3, <2>5, <2>7, <2>8
<1>3. SUBSET I \subseteq G
  <2> HIDE DEF G
  <2>1. QED
    BY <1>1, <1>2, SubsetInduction
<1>4. SumOver(g, I) = SumOver(f, Members(I))
  BY <1>3
<1>5. Members(I) = K
  OBVIOUS
<1>6. QED
  BY <1>4, <1>5

(* Terms added one by one.                                                 *)
LEMMA SumPointwise ==
  ASSUME NEW S, IsFiniteSet(S), NEW f, NEW g, NEW h,
         \A x \in S : f[x] \in Int /\ g[x] \in Int /\ h[x] = f[x] + g[x]
  PROVE  SumOver(h, S) = SumOver(f, S) + SumOver(g, S)
<1> DEFINE G == {s \in SUBSET S : SumOver(h, s) = SumOver(f, s) + SumOver(g, s)}
<1>1. {} \in G
  BY SumEmpty
<1>2. ASSUME NEW s \in SUBSET S, s # {}, \A x \in s : s \ {x} \in G
      PROVE  s \in G
  <2>1. PICK x \in s : TRUE
    BY <1>2
  <2>2. IsFiniteSet(s) /\ IsFiniteSet(s \ {x}) /\ \A y \in s : h[y] \in Int
    BY FS_Subset
  <2>3. /\ SumOver(f, s) = f[x] + SumOver(f, s \ {x}) /\ SumOver(g, s) = g[x] + SumOver(g, s \ {x})
        /\ SumOver(h, s) = h[x] + SumOver(h, s \ {x})
    BY <2>2, SumRemove
  <2>4. SumOver(f, s \ {x}) \in Int /\ SumOver(g, s \ {x}) \in Int
    BY <2>2, SumInt
  <2>5. SumOver(h, s \ {x}) = SumOver(f, s \ {x}) + SumOver(g, s \ {x}) /\ h[x] = f[x] + g[x]
    BY <1>2
  <2>6. f[x] \in Int /\ g[x] \in Int
    OBVIOUS
  <2>7. QED
    BY <2>3, <2>4, <2>5, <2>6
<1>3. SUBSET S \subseteq G
  <2> HIDE DEF G
  <2>1. QED
    BY <1>1, <1>2, SubsetInduction
<1>4. QED
  BY <1>3

(* Zero terms do not count.                                                *)
LEMMA SumPositive ==
  ASSUME NEW S, IsFiniteSet(S), NEW f, \A x \in S : f[x] \in Nat
  PROVE  SumOver(f, {x \in S : f[x] > 0}) = SumOver(f, S)
<1> DEFINE P == {x \in S : f[x] > 0}
           Z == S \ P
<1>1. IsFiniteSet(P) /\ IsFiniteSet(Z) /\ P \cap Z = {} /\ P \union Z = S
  BY FS_Subset
<1>2. \A x \in Z : f[x] = 0
  OBVIOUS
<1>3. \A x \in P \union Z : f[x] \in Int
  OBVIOUS
<1>4. \A x \in P : f[x] \in Int
  OBVIOUS
<1> HIDE DEF P, Z
<1>5. SumOver(f, P \union Z) = SumOver(f, P) + SumOver(f, Z)
  BY <1>1, <1>3, SumUnion
<1>6. SumOver(f, Z) = 0 /\ SumOver(f, P) \in Int
  BY <1>1, <1>2, <1>4, SumZero, SumInt
<1>7. QED
  BY <1>1, <1>5, <1>6 DEF P

(* Two different members.                                                  *)
LEMMA SumPadded ==
  ASSUME NEW S, IsFiniteSet(S), NEW T \in SUBSET S, NEW f, NEW g,
         \A x \in T : f[x] \in Int /\ g[x] = f[x], \A x \in S \ T : g[x] = 0
  PROVE  SumOver(g, S) = SumOver(f, T)
<1>1. IsFiniteSet(T) /\ IsFiniteSet(S \ T) /\ T \cap (S \ T) = {} /\ T \union (S \ T) = S
  BY FS_Subset
<1>2. SumOver(g, S) = SumOver(g, T) + SumOver(g, S \ T)
  BY <1>1, SumUnion
<1>3. SumOver(g, S \ T) = 0
  BY <1>1, SumZero
<1>4. SumOver(g, T) = SumOver(f, T)
  BY <1>1, SumSame
<1>5. SumOver(f, T) \in Int
  BY <1>1, SumInt
<1>6. QED
  BY <1>2, <1>3, <1>4, <1>5

LEMMA TwoMembers ==
  ASSUME NEW S, IsFiniteSet(S), NEW a \in S, NEW b \in S, a # b
  PROVE  Cardinality(S) > 1
<1>1. Cardinality({a}) = 1 /\ IsFiniteSet({a}) /\ {a} \in SUBSET S /\ {a} # S
  BY FS_Singleton
<1>2. Cardinality({a}) <= Cardinality(S) /\ (Cardinality({a}) = Cardinality(S) => {a} = S)
  BY <1>1, FS_Subset
<1>3. Cardinality(S) \in Nat
  BY FS_CardinalityType
<1>4. QED
  BY <1>1, <1>2, <1>3

-------------------------------------------------------------------------------
(* Finite images, and the largest and the smallest element of a set.       *)

(* A function takes finitely many values on a finite set.                  *)
LEMMA FiniteValues ==
  ASSUME NEW S, IsFiniteSet(S), NEW f
  PROVE  IsFiniteSet({f[x] : x \in S})
<1> DEFINE T == {f[x] : x \in S}
           g == [x \in S |-> f[x]]
<1>1. g \in Surjection(S, T)
  BY DEF Surjection
<1>2. QED
  BY <1>1, FS_Surjection

(* The larger of two.                                                      *)
LEMMA MaxPair == \A a, b \in Int : Max({a, b}) = IF a >= b THEN a ELSE b
<1> SUFFICES ASSUME NEW a \in Int, NEW b \in Int
             PROVE  Max({a, b}) = IF a >= b THEN a ELSE b
  OBVIOUS
<1>1. ASSUME NEW m \in {a, b}, \A y \in {a, b} : m >= y
      PROVE  m = IF a >= b THEN a ELSE b
  BY <1>1
<1>2. \E m \in {a, b} : \A y \in {a, b} : m >= y
  <2>1. CASE a >= b
    BY <2>1
  <2>2. CASE ~(a >= b)
    BY <2>2
  <2>3. QED
    BY <2>1, <2>2
<1>3. QED
  BY <1>1, <1>2 DEF Max

(* The smaller of two.                                                     *)
LEMMA MinPair == \A a, b \in Int : Min({a, b}) = IF a <= b THEN a ELSE b
<1> SUFFICES ASSUME NEW a \in Int, NEW b \in Int
             PROVE  Min({a, b}) = IF a <= b THEN a ELSE b
  OBVIOUS
<1>1. ASSUME NEW m \in {a, b}, \A y \in {a, b} : m <= y
      PROVE  m = IF a <= b THEN a ELSE b
  BY <1>1
<1>2. \E m \in {a, b} : \A y \in {a, b} : m <= y
  <2>1. CASE a <= b
    BY <2>1
  <2>2. CASE ~(a <= b)
    BY <2>2
  <2>3. QED
    BY <2>1, <2>2
<1>3. QED
  BY <1>1, <1>2 DEF Min

(* A finite set of integers has a largest element.                         *)
LEMMA MaxIsLargest ==
  ASSUME NEW S \in SUBSET Int, IsFiniteSet(S), S # {}
  PROVE  Max(S) \in S /\ \A y \in S : y <= Max(S)
<1> DEFINE G == {s \in SUBSET S : s # {} => \E m \in s : \A y \in s : m >= y}
<1>1. {} \in G
  OBVIOUS
<1>2. ASSUME NEW s \in SUBSET S, s # {}, \A x \in s : s \ {x} \in G
      PROVE  s \in G
  <2>1. PICK x \in s : TRUE
    BY <1>2
  <2>2. CASE s = {x}
    BY <2>2
  <2>3. CASE s # {x}
    <3>1. PICK m \in s \ {x} : \A y \in s \ {x} : m >= y
      BY <1>2, <2>1, <2>3
    <3>2. \A y \in s : y = x \/ m >= y
      BY <3>1
    <3>3. CASE m >= x
      BY <3>2, <3>3
    <3>4. CASE ~(m >= x)
      BY <3>2, <3>4
    <3>5. QED
      BY <3>3, <3>4
  <2>4. QED
    BY <2>2, <2>3
<1>3. SUBSET S \subseteq G
  <2> HIDE DEF G
  <2>1. QED
    BY <1>1, <1>2, SubsetInduction
<1>4. \E m \in S : \A y \in S : m >= y
  BY <1>3
<1>5. Max(S) \in S /\ \A y \in S : Max(S) >= y
  BY <1>4 DEF Max
<1>6. QED
  BY <1>5

===============================================================================
