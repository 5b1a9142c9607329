---------------------------- MODULE Recurrences ----------------------------
(***************************************************************************)
(* Functions on the naturals, or on their first numbers, that are defined  *)
(* by a recurrence over a set S of values: they exist, and they satisfy it.*)
(* The step of the recurrence is a function, not an operator, so the facts *)
(* can be cited for any definition of that form.  The sum of a function    *)
(* over a finite set is such a recurrence, on the size of the set: the     *)
(* second half of the module says how sums are taken apart.                *)
(***************************************************************************)
EXTENDS Integers, FiniteSets, Functions, FiniteSetTheorems, WellFoundedInduction, TLAPS

\* The numbers 0 .. n map to the first values of the recurrence.
Prefix(S, c, step, n) ==
  {g \in [0 .. n -> S] :
     g[0] = c /\ \A i \in 1 .. n : g[i] = step[<<g[i - 1], i - 1>>]}

\* All the natural numbers map to its values.
Solutions(S, c, step) ==
  {g \in [Nat -> S] :
     g[0] = c /\ \A n \in Nat \ {0} : g[n] = step[<<g[n - 1], n - 1>>]}

(* A set of naturals that is not empty has a least element. *)
THEOREM LeastNatural ==
  ASSUME NEW T, T \subseteq Nat, T # {}
  PROVE  \E x \in T : \A y \in T : x <= y
  <1>1. IsWellFoundedOn(OpToRel(<, Nat), Nat)
    BY NatLessThanWellFounded
  <1>2. PICK x \in T : \A y \in T : ~(<<y, x>> \in OpToRel(<, Nat))
    BY <1>1, WFMin
  <1>3. \A y \in T : ~(y < x)
    BY <1>2 DEF OpToRel
  <1> QED
    BY <1>3

LEMMA PrefixExists ==
  ASSUME NEW S, NEW c \in S, NEW step \in [S \X Nat -> S], NEW n \in Nat
  PROVE  Prefix(S, c, step, n) # {}
  <1> DEFINE T == {k \in Nat : Prefix(S, c, step, k) = {}}
  <1> SUFFICES ASSUME T # {}
               PROVE  FALSE
    OBVIOUS
  <1>1. PICK m \in T : \A k \in T : m <= k
    BY LeastNatural
  <1>2. CASE m = 0
    <2>1. [i \in 0 .. 0 |-> c] \in Prefix(S, c, step, 0)
      BY DEF Prefix
    <2> QED
      BY <1>1, <1>2, <2>1
  <1>3. CASE m # 0
    <2>1. m - 1 \in Nat /\ m - 1 \notin T
      BY <1>1, <1>3
    <2>2. PICK g \in Prefix(S, c, step, m - 1) : TRUE
      BY <2>1
    <2> DEFINE v == step[<<g[m - 1], m - 1>>]
               h == [i \in 0 .. m |-> IF i = m THEN v ELSE g[i]]
    <2>3. /\ g \in [0 .. m - 1 -> S] /\ g[0] = c
          /\ \A i \in 1 .. m - 1 : g[i] = step[<<g[i - 1], i - 1>>]
      BY <2>2 DEF Prefix
    <2>4. v \in S
      <3>1. g[m - 1] \in S
        BY <2>1, <2>3
      <3> QED
        BY <2>1, <3>1
    <2> HIDE DEF v
    <2>5. h \in [0 .. m -> S] /\ h[0] = c
      BY <1>1, <1>3, <2>3, <2>4
    <2>6. \A i \in 1 .. m : h[i] = step[<<h[i - 1], i - 1>>]
      <3> TAKE i \in 1 .. m
      <3>1. CASE i = m
        <4>1. h[i] = v /\ h[i - 1] = g[m - 1]
          BY <1>1, <1>3, <3>1
        <4> QED
          BY <3>1, <4>1 DEF v
      <3>2. CASE i # m
        BY <1>1, <2>3, <3>2
      <3> QED
        BY <3>1, <3>2
    <2>7. h \in Prefix(S, c, step, m)
      BY <2>5, <2>6 DEF Prefix
    <2> QED
      BY <1>1, <2>7
  <1> QED
    BY <1>2, <1>3

LEMMA PrefixesAgree ==
  ASSUME NEW S, NEW c \in S, NEW step \in [S \X Nat -> S], NEW m \in Nat, NEW n \in Nat,
         NEW g \in Prefix(S, c, step, m), NEW h \in Prefix(S, c, step, n),
         NEW i \in Nat, i <= m, i <= n
  PROVE  g[i] = h[i]
  <1> DEFINE T == {k \in Nat : k <= m /\ k <= n /\ g[k] # h[k]}
  <1> SUFFICES ASSUME T # {}
               PROVE  FALSE
    OBVIOUS
  <1>1. PICK k \in T : \A j \in T : k <= j
    BY LeastNatural
  <1>2. /\ g[0] = c /\ h[0] = c
        /\ \A j \in 1 .. m : g[j] = step[<<g[j - 1], j - 1>>]
        /\ \A j \in 1 .. n : h[j] = step[<<h[j - 1], j - 1>>]
    BY DEF Prefix
  <1>3. k # 0
    BY <1>1, <1>2
  <1>4. k - 1 \in Nat /\ k - 1 \notin T
    BY <1>1, <1>3
  <1>5. g[k - 1] = h[k - 1]
    BY <1>1, <1>4
  <1>6. k \in 1 .. m /\ k \in 1 .. n
    BY <1>1, <1>3
  <1> QED
    BY <1>1, <1>2, <1>5, <1>6

(* A recurrence over the naturals has a solution. *)
THEOREM RecurrenceHolds ==
  ASSUME NEW S, NEW c \in S, NEW step \in [S \X Nat -> S]
  PROVE  Solutions(S, c, step) # {}
  <1> DEFINE g(n) == CHOOSE x \in Prefix(S, c, step, n) : TRUE
             f == [n \in Nat |-> g(n)[n]]
  <1>1. \A n \in Nat : g(n) \in Prefix(S, c, step, n)
    BY PrefixExists
  <1> HIDE DEF g
  <1>2. \A n \in Nat :
          /\ g(n) \in [0 .. n -> S] /\ g(n)[0] = c
          /\ \A i \in 1 .. n : g(n)[i] = step[<<g(n)[i - 1], i - 1>>]
    BY <1>1 DEF Prefix
  <1>3. f \in [Nat -> S] /\ f[0] = c
    <2>1. ASSUME NEW n \in Nat
          PROVE  g(n)[n] \in S
      BY <1>2
    <2> QED
      BY <1>2, <2>1
  <1>4. ASSUME NEW n \in Nat \ {0}
        PROVE  f[n] = step[<<f[n - 1], n - 1>>]
    <2>1. n - 1 \in Nat /\ n \in 1 .. n /\ n - 1 <= n
      OBVIOUS
    <2>2. g(n)[n] = step[<<g(n)[n - 1], n - 1>>]
      BY <1>2, <2>1
    <2>3. g(n)[n - 1] = g(n - 1)[n - 1]
      <3>1. n \in Nat /\ g(n) \in Prefix(S, c, step, n) /\ g(n - 1) \in Prefix(S, c, step, n - 1)
        BY <1>1, <2>1
      <3>2. n - 1 <= n - 1
        BY <2>1
      <3> HIDE DEF f
      <3> QED
        BY <2>1, <3>1, <3>2, PrefixesAgree
    <2> QED
      BY <2>1, <2>2, <2>3
  <1>5. f \in Solutions(S, c, step)
    BY <1>3, <1>4 DEF Solutions
  <1> QED
    BY <1>5

-----------------------------------------------------------------------------
(* Sums over finite sets.                                                  *)

(* Among sets of subsets of a finite set there is one that leaves the family as soon as it
   loses an element. *)
LEMMA SmallestSubset ==
  ASSUME NEW S, IsFiniteSet(S), NEW B, B \subseteq SUBSET S, B # {}
  PROVE  \E A \in B : \A x \in A : A \ {x} \notin B
  <1> DEFINE T == {Cardinality(A) : A \in B}
  <1>1. \A A \in B : IsFiniteSet(A) /\ Cardinality(A) \in Nat
    BY FS_Subset, FS_CardinalityType
  <1>2. T \subseteq Nat /\ T # {}
    BY <1>1
  <1>3. PICK n \in T : \A m \in T : n <= m
    <2> HIDE DEF T
    <2> QED
      BY <1>2, LeastNatural
  <1>4. PICK A \in B : n = Cardinality(A)
    BY <1>3
  <1>5. ASSUME NEW x \in A, A \ {x} \in B
        PROVE  FALSE
    <2>1. Cardinality(A \ {x}) = Cardinality(A) - 1
      BY <1>1, <1>4, FS_RemoveElement
    <2>2. Cardinality(A) <= Cardinality(A \ {x})
      BY <1>3, <1>4, <1>5
    <2> QED
      BY <1>1, <1>4, <2>1, <2>2
  <1> QED
    BY <1>4, <1>5

\* The sums of f over the subsets of S, the elements taken in the order of CHOOSE.
PartialSums(f, S) ==
  {g \in [SUBSET S -> Nat] :
     /\ g[{}] = 0
     /\ \A A \in (SUBSET S) \ {{}} :
          g[A] = f[CHOOSE x \in A : TRUE] + g[A \ {CHOOSE x \in A : TRUE}]}

LEMMA PartialSumsExist ==
  ASSUME NEW S, IsFiniteSet(S), NEW f, \A x \in S : f[x] \in Nat
  PROVE  PartialSums(f, S) # {}
  <1> DEFINE first(A) == CHOOSE x \in A : TRUE
             V == [SUBSET S -> Nat]
             zero == [A \in SUBSET S |-> 0]
             next(F) == [A \in SUBSET S |-> IF A = {} THEN 0 ELSE f[first(A)] + F[A \ {first(A)}]]
             step == [t \in V \X Nat |-> next(t[1])]
  <1>1. \A A \in (SUBSET S) \ {{}} : first(A) \in A /\ A \ {first(A)} \in SUBSET S
    OBVIOUS
  <1> HIDE DEF first
  <1>2. zero \in V
    OBVIOUS
  <1>3. \A F \in V : next(F) \in V
    BY <1>1
  <1> HIDE DEF next
  <1>4. step \in [V \X Nat -> V]
    BY <1>3
  <1>5. \A F \in V, n \in Nat : step[<<F, n>>] = next(F)
    OBVIOUS
  <1> HIDE DEF V, zero, step
  <1>6. PICK F \in Solutions(V, zero, step) : TRUE
    BY <1>2, <1>4, RecurrenceHolds
  <1>7. /\ F \in [Nat -> V] /\ F[0] = zero
        /\ \A n \in Nat \ {0} : F[n] = step[<<F[n - 1], n - 1>>]
    BY <1>6 DEF Solutions
  <1>8. \A n \in Nat \ {0} : F[n] = next(F[n - 1])
    <2> TAKE n \in Nat \ {0}
    <2>1. n - 1 \in Nat /\ F[n - 1] \in V
      BY <1>7
    <2> QED
      BY <1>5, <1>7, <2>1
  <1>9. \A A \in SUBSET S : Cardinality(A) \in Nat
    BY FS_Subset, FS_CardinalityType
  <1> DEFINE g == [A \in SUBSET S |-> F[Cardinality(A)][A]]
  <1>10. g \in [SUBSET S -> Nat] /\ g[{}] = 0
    <2>1. \A A \in SUBSET S : F[Cardinality(A)] \in [SUBSET S -> Nat]
      BY <1>7, <1>9 DEF V
    <2>2. F[Cardinality({})][{}] = 0
      BY <1>7, FS_EmptySet DEF zero
    <2> QED
      BY <2>1, <2>2
  <1>11. ASSUME NEW A \in (SUBSET S) \ {{}}
         PROVE  g[A] = f[first(A)] + g[A \ {first(A)}]
    <2>1. IsFiniteSet(A) /\ first(A) \in A /\ A \ {first(A)} \in SUBSET S
      BY <1>1, FS_Subset
    <2>2. Cardinality(A \ {first(A)}) = Cardinality(A) - 1 /\ Cardinality(A) # 0
      BY <2>1, FS_RemoveElement, FS_EmptySet
    <2>3. F[Cardinality(A)] = next(F[Cardinality(A) - 1])
      BY <1>8, <1>9, <2>2
    <2>4. F[Cardinality(A)][A] = f[first(A)] + F[Cardinality(A) - 1][A \ {first(A)}]
      BY <2>3 DEF next
    <2> QED
      BY <2>1, <2>2, <2>4
  <1>12. g \in PartialSums(f, S)
    BY <1>10, <1>11 DEF PartialSums, first
  <1> QED
    BY <1>12

LEMMA PartialSumsAgree ==
  ASSUME NEW S, IsFiniteSet(S), NEW f, NEW T \in SUBSET S, 
         NEW g \in PartialSums(f, S), NEW h \in PartialSums(f, T)
  PROVE  g[T] = h[T]
  <1> DEFINE first(A) == CHOOSE x \in A : TRUE
             B == {A \in SUBSET T : g[A] # h[A]}
  <1> SUFFICES ASSUME B # {}
               PROVE  FALSE
    OBVIOUS
  <1>1. PICK A \in B : \A x \in A : A \ {x} \notin B
    <2>1. IsFiniteSet(T) /\ B \subseteq SUBSET T
      BY FS_Subset
    <2> HIDE DEF B
    <2> QED
      BY <2>1, SmallestSubset
  <1>2. A # {}
    BY <1>1 DEF PartialSums
  <1>3. first(A) \in A
    BY <1>2
  <1> HIDE DEF first
  <1>4. g[A \ {first(A)}] = h[A \ {first(A)}]
    BY <1>1, <1>3
  <1>5. /\ g[A] = f[first(A)] + g[A \ {first(A)}]
        /\ h[A] = f[first(A)] + h[A \ {first(A)}]
    BY <1>1, <1>2 DEF PartialSums, first
  <1> QED
    BY <1>1, <1>4, <1>5

(* SumFunctionOnSet is one of the partial sums of any larger set. *)
LEMMA SumIsPartial ==
  ASSUME NEW S, IsFiniteSet(S), NEW f, \A x \in S : f[x] \in Nat,
         NEW g \in PartialSums(f, S), NEW T \in SUBSET S
  PROVE  SumFunctionOnSet(f, T) = g[T]
  <1> DEFINE Sum(h) == [A \in SUBSET T |-> IF A = {} THEN 0
                           ELSE f[CHOOSE x \in A : TRUE] + h[A \ {CHOOSE x \in A : TRUE}]]
             iter == CHOOSE h : h = Sum(h)
  <1>1. SumFunctionOnSet(f, T) = iter[T]
    BY DEF SumFunctionOnSet, FoldFunctionOnSet, MapThenFoldSet
  <1>2. IsFiniteSet(T) /\ \A x \in T : f[x] \in Nat
    BY FS_Subset
  <1>3. ASSUME NEW h \in PartialSums(f, T)
        PROVE  h = Sum(h)
    <2>1. h \in [SUBSET T -> Nat] /\ h[{}] = 0
      BY DEF PartialSums
    <2>2. \A A \in (SUBSET T) \ {{}} :
            h[A] = f[CHOOSE x \in A : TRUE] + h[A \ {CHOOSE x \in A : TRUE}]
      BY DEF PartialSums
    <2>3. h = [A \in SUBSET T |-> h[A]]
      BY <2>1
    <2>4. \A A \in SUBSET T : h[A] = Sum(h)[A]
      BY <2>1, <2>2
    <2> QED
      BY <2>3, <2>4
  <1>4. iter = Sum(iter)
    <2>1. PICK h \in PartialSums(f, T) : TRUE
      BY <1>2, PartialSumsExist
    <2>2. h = Sum(h)
      BY <1>3
    <2> HIDE DEF Sum
    <2> QED
      BY <2>2
  <1> HIDE DEF iter
  <1>5. iter \in PartialSums(f, T)
    <2> DEFINE first(A) == CHOOSE x \in A : TRUE
    <2>1. DOMAIN iter = SUBSET T /\ iter[{}] = 0
      BY <1>4
    <2>2. \A A \in (SUBSET T) \ {{}} : /\ iter[A] = f[first(A)] + iter[A \ {first(A)}]
                                     /\ first(A) \in A
      BY <1>4
    <2>3. \A A \in SUBSET T : iter[A] \in Nat
      <3> DEFINE B == {A \in SUBSET T : iter[A] \notin Nat}
      <3> SUFFICES ASSUME B # {}
                   PROVE  FALSE
        OBVIOUS
      <3>1. PICK A \in B : \A x \in A : A \ {x} \notin B
        <4>1. B \subseteq SUBSET T
          OBVIOUS
        <4> HIDE DEF B
        <4> QED
          BY <1>2, <4>1, SmallestSubset
      <3>2. A \in SUBSET T /\ iter[A] \notin Nat /\ A # {}
        <4>1. iter[{}] \in Nat
          BY <2>1
        <4> QED
          BY <3>1, <4>1
      <3> HIDE DEF first
      <3>3. first(A) \in A /\ iter[A \ {first(A)}] \in Nat
        BY <2>2, <3>1, <3>2
      <3>4. iter[A] = f[first(A)] + iter[A \ {first(A)}] /\ f[first(A)] \in Nat
        BY <1>2, <2>2, <3>2, <3>3
      <3> QED
        BY <3>2, <3>3, <3>4
    <2>4. iter \in [SUBSET T -> Nat]
      <3>1. iter = [A \in SUBSET T |-> iter[A]]
        BY <1>4
      <3> QED
        BY <2>3, <3>1
    <2> QED
      BY <2>1, <2>2, <2>4 DEF PartialSums
  <1> QED
    BY <1>1, <1>5, PartialSumsAgree

LEMMA SumOfNone ==
  ASSUME NEW f
  PROVE  SumFunctionOnSet(f, {}) = 0
  <1>1. PICK g \in PartialSums(f, {}) : TRUE
    BY FS_EmptySet, PartialSumsExist
  <1>2. SumFunctionOnSet(f, {}) = g[{}]
    BY FS_EmptySet, SumIsPartial
  <1> QED
    BY <1>2 DEF PartialSums

LEMMA SumIsNat ==
  ASSUME NEW S, IsFiniteSet(S), NEW f, \A x \in S : f[x] \in Nat
  PROVE  SumFunctionOnSet(f, S) \in Nat
  <1>1. PICK g \in PartialSums(f, S) : TRUE
    BY PartialSumsExist
  <1>2. SumFunctionOnSet(f, S) = g[S]
    BY SumIsPartial
  <1> QED
    BY <1>2 DEF PartialSums

(* Whichever element is taken out of the sum first, the rest is the sum without it. *)
LEMMA SumTakes ==
  ASSUME NEW S, IsFiniteSet(S), NEW f, \A x \in S : f[x] \in Nat, NEW x \in S
  PROVE  SumFunctionOnSet(f, S) = f[x] + SumFunctionOnSet(f, S \ {x})
  <1>1. PICK g \in PartialSums(f, S) : TRUE
    BY PartialSumsExist
  <1>2. g \in [SUBSET S -> Nat]
    BY <1>1 DEF PartialSums
  <1> DEFINE B == {A \in SUBSET S : \E y \in A : g[A] # f[y] + g[A \ {y}]}
  <1>3. B = {}
    <2> SUFFICES ASSUME B # {}
                 PROVE  FALSE
      OBVIOUS
    <2>1. PICK A \in B : \A y \in A : A \ {y} \notin B
      <3>1. B \subseteq SUBSET S
        OBVIOUS
      <3> HIDE DEF B
      <3> QED
        BY <3>1, SmallestSubset
    <2>2. PICK y \in A : g[A] # f[y] + g[A \ {y}]
      BY <2>1
    <2>3. PICK z \in A : g[A] = f[z] + g[A \ {z}]
      <3> DEFINE z == CHOOSE z \in A : TRUE
      <3>1. z \in A
        BY <2>2
      <3>2. A \in (SUBSET S) \ {{}}
        BY <2>1, <2>2
      <3>3. g[A] = f[z] + g[A \ {z}]
        BY <3>2 DEF PartialSums
      <3> QED
        BY <3>1, <3>3
    <2>4. y # z
      BY <2>2, <2>3
    <2> DEFINE rest == A \ {y, z}
    <2>5. g[A \ {z}] = f[y] + g[rest] /\ g[A \ {y}] = f[z] + g[rest]
      <3>1. (A \ {z}) \ {y} = rest /\ (A \ {y}) \ {z} = rest
        OBVIOUS
      <3>2. g[A \ {z}] = f[y] + g[(A \ {z}) \ {y}] /\ g[A \ {y}] = f[z] + g[(A \ {y}) \ {z}]
        BY <2>1, <2>4
      <3> QED
        BY <3>1, <3>2
    <2>6. f[y] \in Nat /\ f[z] \in Nat /\ g[rest] \in Nat
      BY <1>2, <2>1
    <2> HIDE DEF B, rest
    <2>7. f[z] + (f[y] + g[rest]) = f[y] + (f[z] + g[rest])
      BY <2>6
    <2> QED
      BY <2>2, <2>3, <2>5, <2>7
  <1>4. SumFunctionOnSet(f, S) = g[S] /\ SumFunctionOnSet(f, S \ {x}) = g[S \ {x}]
    BY SumIsPartial
  <1> QED
    BY <1>3, <1>4

(* The sum over two sets with no element in common. *)
LEMMA SumOfBoth ==
  ASSUME NEW S, IsFiniteSet(S), NEW f, \A x \in S : f[x] \in Nat
  PROVE  \A T, U \in SUBSET S : T \cap U = {} =>
           SumFunctionOnSet(f, T \cup U) = SumFunctionOnSet(f, T) + SumFunctionOnSet(f, U)
  <1> SUFFICES ASSUME NEW T \in SUBSET S, NEW U \in SUBSET S, T \cap U = {}
               PROVE  SumFunctionOnSet(f, T \cup U)
                        = SumFunctionOnSet(f, T) + SumFunctionOnSet(f, U)
    OBVIOUS
  <1> DEFINE B == {A \in SUBSET U : SumFunctionOnSet(f, T \cup A)
                                      # SumFunctionOnSet(f, T) + SumFunctionOnSet(f, A)}
  <1>1. \A A \in SUBSET S : IsFiniteSet(A) /\ SumFunctionOnSet(f, A) \in Nat
    BY FS_Subset, SumIsNat
  <1>2. B = {}
    <2> SUFFICES ASSUME B # {}
                 PROVE  FALSE
      OBVIOUS
    <2>1. PICK A \in B : \A x \in A : A \ {x} \notin B
      <3>1. B \subseteq SUBSET U /\ IsFiniteSet(U)
        BY <1>1
      <3> HIDE DEF B
      <3> QED
        BY <3>1, SmallestSubset
    <2>2. A # {}
      <3>1. T \cup {} = T /\ SumFunctionOnSet(f, {}) = 0
        BY SumOfNone
      <3> QED
        BY <1>1, <2>1, <3>1
    <2>3. PICK x \in A : TRUE
      BY <2>2
    <2>4. SumFunctionOnSet(f, A) = f[x] + SumFunctionOnSet(f, A \ {x})
      BY <1>1, SumTakes
    <2>5. SumFunctionOnSet(f, T \cup A) = f[x] + SumFunctionOnSet(f, T \cup (A \ {x}))
      <3>1. (T \cup A) \ {x} = T \cup (A \ {x})
        OBVIOUS
      <3>2. SumFunctionOnSet(f, T \cup A) = f[x] + SumFunctionOnSet(f, (T \cup A) \ {x})
        BY <1>1, SumTakes
      <3> QED
        BY <3>1, <3>2
    <2>6. SumFunctionOnSet(f, T \cup (A \ {x}))
            = SumFunctionOnSet(f, T) + SumFunctionOnSet(f, A \ {x})
      BY <2>1, <2>3
    <2>7. f[x] \in Nat
      BY <2>1, <2>3
    <2>8. SumFunctionOnSet(f, T) \in Nat /\ SumFunctionOnSet(f, A \ {x}) \in Nat
      BY <1>1, <2>1
    <2> HIDE DEF B
    <2>9. SumFunctionOnSet(f, T \cup A) = SumFunctionOnSet(f, T) + SumFunctionOnSet(f, A)
      BY <2>4, <2>5, <2>6, <2>7, <2>8
    <2> QED
      BY <2>1, <2>9 DEF B
  <1> QED
    BY <1>2

(* Sums of sums: when each k of K stands for a part of S, no two parts share an element
   and only zeros are in no part, then the parts add up to the sum over S. *)
THEOREM SumByParts ==
  ASSUME NEW S, IsFiniteSet(S), NEW f, \A x \in S : f[x] \in Nat,
         NEW K, IsFiniteSet(K), NEW part, NEW h,
         \A k \in K : part[k] \in SUBSET S /\ h[k] = SumFunctionOnSet(f, part[k]),
         \A k, l \in K : k # l => part[k] \cap part[l] = {},
         \A x \in S : f[x] # 0 => \E k \in K : x \in part[k]
  PROVE  SumFunctionOnSet(h, K) = SumFunctionOnSet(f, S)
  <1>0. \A T, U \in SUBSET S : T \cap U = {} =>
          SumFunctionOnSet(f, T \cup U) = SumFunctionOnSet(f, T) + SumFunctionOnSet(f, U)
    BY SumOfBoth
  <1> DEFINE parts(L) == UNION {part[k] : k \in L}
             B == {L \in SUBSET K : SumFunctionOnSet(h, L) # SumFunctionOnSet(f, parts(L))}
  <1>1. \A A \in SUBSET S : IsFiniteSet(A) /\ SumFunctionOnSet(f, A) \in Nat
    BY FS_Subset, SumIsNat
  <1>2. \A k \in K : h[k] \in Nat
    BY <1>1
  <1>3. B = {}
    <2> SUFFICES ASSUME B # {}
                 PROVE  FALSE
      OBVIOUS
    <2>1. PICK L \in B : \A k \in L : L \ {k} \notin B
      <3>1. B \subseteq SUBSET K
        OBVIOUS
      <3> HIDE DEF B
      <3> QED
        BY <3>1, SmallestSubset
    <2>2. L # {}
      <3>1. parts({}) = {}
        OBVIOUS
      <3> QED
        BY <2>1, <3>1, SumOfNone
    <2>3. PICK k \in L : TRUE
      BY <2>2
    <2>4. SumFunctionOnSet(h, L) = h[k] + SumFunctionOnSet(h, L \ {k})
      <3>1. IsFiniteSet(L) /\ \A l \in L : h[l] \in Nat
        BY <1>2, <2>1, FS_Subset
      <3> QED
        BY <3>1, SumTakes
    <2>5. parts(L) = part[k] \cup parts(L \ {k}) /\ part[k] \cap parts(L \ {k}) = {}
      BY <2>1, <2>3
    <2>6. part[k] \in SUBSET S /\ parts(L \ {k}) \in SUBSET S
      BY <2>1, <2>3
    <2> HIDE DEF parts
    <2>7. SumFunctionOnSet(f, parts(L))
            = SumFunctionOnSet(f, part[k]) + SumFunctionOnSet(f, parts(L \ {k}))
      BY <1>0, <2>5, <2>6
    <2>8. SumFunctionOnSet(h, L \ {k}) = SumFunctionOnSet(f, parts(L \ {k}))
      BY <2>1, <2>3
    <2> QED
      BY <2>1, <2>3, <2>4, <2>7, <2>8
  <1>4. SumFunctionOnSet(h, K) = SumFunctionOnSet(f, parts(K))
    BY <1>3
  <1>5. parts(K) \in SUBSET S
    OBVIOUS
  <1>6. \A x \in S \ parts(K) : f[x] = 0
    OBVIOUS
  <1> HIDE DEF parts, B
  <1>7. SumFunctionOnSet(f, S) = SumFunctionOnSet(f, parts(K)) + SumFunctionOnSet(f, S \ parts(K))
    <2>1. S = parts(K) \cup (S \ parts(K)) /\ parts(K) \cap (S \ parts(K)) = {}
      BY <1>5
    <2> QED
      BY <1>0, <1>5, <2>1
  <1>8. SumFunctionOnSet(f, S \ parts(K)) = 0
    <2> DEFINE Z == {A \in SUBSET (S \ parts(K)) : SumFunctionOnSet(f, A) # 0}
    <2> SUFFICES ASSUME Z # {}
                 PROVE  FALSE
      OBVIOUS
    <2>1. PICK A \in Z : \A x \in A : A \ {x} \notin Z
      <3>1. Z \subseteq SUBSET S
        OBVIOUS
      <3> HIDE DEF Z
      <3> QED
        BY <3>1, SmallestSubset
    <2>2. PICK x \in A : TRUE
      BY <2>1, SumOfNone
    <2>3. SumFunctionOnSet(f, A) = f[x] + SumFunctionOnSet(f, A \ {x})
      BY <1>1, <2>1, SumTakes
    <2> QED
      BY <1>6, <2>1, <2>2, <2>3
  <1> QED
    BY <1>1, <1>4, <1>5, <1>7, <1>8

(* A sum is positive when one of its terms is. *)
LEMMA SumIsPositive ==
  ASSUME NEW S, IsFiniteSet(S), NEW f, \A x \in S : f[x] \in Nat, NEW x \in S, f[x] > 0
  PROVE  SumFunctionOnSet(f, S) > 0
  <1>1. SumFunctionOnSet(f, S \ {x}) \in Nat
    BY FS_RemoveElement, SumIsNat
  <1> QED
    BY <1>1, SumTakes

(* A sum does not shrink when its terms grow. *)
LEMMA SumIsMonotone ==
  ASSUME NEW S, IsFiniteSet(S), NEW f, NEW g,
         \A x \in S : f[x] \in Nat /\ g[x] \in Nat /\ f[x] <= g[x]
  PROVE  SumFunctionOnSet(f, S) <= SumFunctionOnSet(g, S)
  <1> DEFINE B == {A \in SUBSET S : ~(SumFunctionOnSet(f, A) <= SumFunctionOnSet(g, A))}
  <1> SUFFICES ASSUME B # {}
               PROVE  FALSE
    OBVIOUS
  <1>1. PICK A \in B : \A x \in A : A \ {x} \notin B
    <2>1. B \subseteq SUBSET S
      OBVIOUS
    <2> HIDE DEF B
    <2> QED
      BY <2>1, SmallestSubset
  <1>2. IsFiniteSet(A) /\ A \in SUBSET S
    BY <1>1, FS_Subset
  <1>3. PICK x \in A : TRUE
    BY <1>1, SumOfNone
  <1>4. /\ SumFunctionOnSet(f, A) = f[x] + SumFunctionOnSet(f, A \ {x})
        /\ SumFunctionOnSet(g, A) = g[x] + SumFunctionOnSet(g, A \ {x})
    BY <1>2, SumTakes
  <1>5. /\ SumFunctionOnSet(f, A \ {x}) \in Nat
        /\ SumFunctionOnSet(g, A \ {x}) \in Nat
    BY <1>2, FS_RemoveElement, SumIsNat
  <1>6. SumFunctionOnSet(f, A \ {x}) <= SumFunctionOnSet(g, A \ {x})
    BY <1>1, <1>2
  <1> QED
    BY <1>1, <1>2, <1>4, <1>5, <1>6

=============================================================================
