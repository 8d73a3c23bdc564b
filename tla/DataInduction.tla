--------------------------- MODULE DataInduction ---------------------------
(***************************************************************************)
(* Induction over the natural numbers and over finite sets, stated for a   *)
(* set of values instead of a predicate, so that it can be used with       *)
(* first-order provers, and what follows from it about the operators of    *)
(* the community modules that the models use.                              *)
(***************************************************************************)
EXTENDS FiniteSetTheorems, Functions, TLAPS

\* A set of natural numbers has a least element.
LEMMA LeastNatural ==
  ASSUME NEW T, T \subseteq Nat, T # {}
  PROVE  \E x \in T : \A y \in T : x <= y
<1>1. PICK R : R = OpToRel(<, Nat)
  OBVIOUS
<1>2. IsWellFoundedOn(R, Nat)
  BY <1>1, NatLessThanWellFounded
<1>3. PICK x \in T : \A y \in T : ~(<<y, x>> \in R)
  BY <1>2, WFMin
<1>4. \A y \in T : ~(y < x)
  BY <1>1, <1>3 DEF OpToRel
<1> QED
  BY <1>3, <1>4

\* Induction: a set with 0 and with n+1 for each n in it has all natural numbers.
LEMMA NaturalSet ==
  ASSUME NEW T, 0 \in T, \A n \in Nat : n \in T => n + 1 \in T
  PROVE  Nat \subseteq T
<1> SUFFICES ASSUME Nat \ T # {} PROVE FALSE
  OBVIOUS
<1>1. PICK m \in Nat \ T : \A k \in Nat \ T : m <= k
  BY LeastNatural
<1>2. m - 1 \in Nat /\ m - 1 \in T
  BY <1>1
<1> QED
  BY <1>1, <1>2

\* Induction: a set of sets that has the empty set, and with each subset of S that
\* with one more element of S, has every finite S.
LEMMA FiniteSetSet ==
  ASSUME NEW S, IsFiniteSet(S), NEW T, {} \in T,
         \A U \in SUBSET S : \A x \in S \ U : U \in T => U \cup {x} \in T
  PROVE  S \in T
<1>1. PICK W : W = {n \in Nat : \A U \in SUBSET S : IsFiniteSet(U) /\ Cardinality(U) = n => U \in T}
  OBVIOUS
<1>2. 0 \in W
  BY <1>1, FS_EmptySet
<1>3. ASSUME NEW n \in Nat, n \in W
      PROVE  n + 1 \in W
  <2> SUFFICES ASSUME NEW U \in SUBSET S, IsFiniteSet(U), Cardinality(U) = n + 1
               PROVE  U \in T
    BY <1>1
  <2>1. U # {}
    BY FS_EmptySet
  <2>2. PICK x : x \in U
    BY <2>1
  <2>3. IsFiniteSet(U \ {x}) /\ Cardinality(U \ {x}) = n
    <3>1. IsFiniteSet(U \ {x}) /\ Cardinality(U \ {x}) = Cardinality(U) - 1
      BY <2>2, FS_RemoveElement
    <3>2. Cardinality(U) - 1 = n
      OBVIOUS
    <3> QED
      BY <3>1, <3>2
  <2>4. U \ {x} \in T
    BY <1>1, <1>3, <2>3
  <2>5. U = (U \ {x}) \cup {x} /\ x \in S \ (U \ {x}) /\ U \ {x} \in SUBSET S
    BY <2>2
  <2> QED
    BY <2>4, <2>5
<1>4. Nat \subseteq W
  BY <1>2, <1>3, NaturalSet
<1>5. Cardinality(S) \in Nat
  BY FS_CardinalityType
<1> QED
  BY <1>1, <1>4, <1>5

\* Induction: a set that has each subset of S from which taking any one element
\* leaves a member of it has all subsets of S, when S is finite.
LEMMA SubsetsSet ==
  ASSUME NEW S, IsFiniteSet(S), NEW T,
         \A U \in SUBSET S : (\A x \in U : U \ {x} \in T) => U \in T
  PROVE  SUBSET S \subseteq T
<1>1. PICK W : W = {n \in Nat : \A U \in SUBSET S : IsFiniteSet(U) /\ Cardinality(U) = n => U \in T}
  OBVIOUS
<1>2. 0 \in W
  BY <1>1, FS_EmptySet
<1>3. ASSUME NEW n \in Nat, n \in W
      PROVE  n + 1 \in W
  <2> SUFFICES ASSUME NEW U \in SUBSET S, IsFiniteSet(U), Cardinality(U) = n + 1
               PROVE  U \in T
    BY <1>1
  <2>1. ASSUME NEW x \in U PROVE U \ {x} \in T
    <3>1. IsFiniteSet(U \ {x}) /\ Cardinality(U \ {x}) = Cardinality(U) - 1
      BY FS_RemoveElement
    <3>2. Cardinality(U) - 1 = n
      OBVIOUS
    <3>3. U \ {x} \in SUBSET S
      OBVIOUS
    <3> QED
      BY <1>1, <1>3, <3>1, <3>2, <3>3
  <2> QED
    BY <2>1
<1>4. Nat \subseteq W
  BY <1>2, <1>3, NaturalSet
<1> SUFFICES ASSUME NEW U \in SUBSET S PROVE U \in T
  OBVIOUS
<1>5. IsFiniteSet(U) /\ Cardinality(U) \in Nat
  BY FS_Subset, FS_CardinalityType
<1> QED
  BY <1>1, <1>4, <1>5

-----------------------------------------------------------------------------
(* Sums *)

\* The element of a set that SumFunctionOnSet adds last.
AnyOf(U) == CHOOSE x \in U : TRUE

\* H[U] is the sum of f over U, for each subset U of S, as SumFunctionOnSet has it.
Sums(f, S, H) ==
  H = [U \in SUBSET S |->
         IF U = {} THEN 0
         ELSE f[AnyOf(U)] + H[U \ {AnyOf(U)}]]

\* Sums, for the subsets of S with n elements at most.
Small(S, n) == {U \in SUBSET S : Cardinality(U) <= n}

SumsTo(f, S, n, H) ==
  H = [U \in Small(S, n) |->
         IF U = {} THEN 0
         ELSE f[AnyOf(U)] + H[U \ {AnyOf(U)}]]

\* It is one.
LEMMA AnyOfIn == \A U : U # {} => AnyOf(U) \in U
BY DEF AnyOf

\* The recursion that defines sums has a solution.
LEMMA SumsExist ==
  ASSUME NEW f, NEW S, IsFiniteSet(S)
  PROVE  \E H : Sums(f, S, H)
<1>0. \A U \in SUBSET S : IsFiniteSet(U) /\ Cardinality(U) \in Nat
  BY FS_Subset, FS_CardinalityType
<1>1. PICK T : T = {n \in Nat : \E H : SumsTo(f, S, n, H)}
  OBVIOUS
<1>2. 0 \in T
  <2>1. PICK H : H = [U \in Small(S, 0) |-> 0]
    OBVIOUS
  <2>2. \A U \in Small(S, 0) : U = {}
    BY <1>0, FS_EmptySet DEF Small
  <2>3. SumsTo(f, S, 0, H)
    BY <2>1, <2>2 DEF SumsTo
  <2> QED
    BY <1>1, <2>3
<1>3. ASSUME NEW n \in Nat, n \in T
      PROVE  n + 1 \in T
  <2>1. PICK H : SumsTo(f, S, n, H)
    BY <1>1, <1>3
  <2>2. PICK G : G = [U \in Small(S, n + 1) |->
                        IF U = {} THEN 0
                        ELSE f[AnyOf(U)] + H[U \ {AnyOf(U)}]]
    OBVIOUS
  <2>3. ASSUME NEW U \in Small(S, n)
        PROVE  U \in Small(S, n + 1) /\ G[U] = H[U]
    <3>1. U \in Small(S, n + 1)
      BY <1>0 DEF Small
    <3> QED
      BY <2>1, <2>2, <3>1 DEF SumsTo
  <2>4. ASSUME NEW U \in Small(S, n + 1), NEW x \in U
        PROVE  U \ {x} \in Small(S, n)
    <3>1. U \in SUBSET S /\ IsFiniteSet(U) /\ Cardinality(U) <= n + 1 /\ Cardinality(U) \in Nat
      BY <1>0 DEF Small
    <3>2. Cardinality(U \ {x}) = Cardinality(U) - 1
      BY <3>1, FS_RemoveElement
    <3>3. Cardinality(U \ {x}) <= n
      BY <3>1, <3>2
    <3> QED
      BY <3>1, <3>3 DEF Small
  <2>5. ASSUME NEW U \in Small(S, n + 1), U # {}
        PROVE  G[U \ {AnyOf(U)}] = H[U \ {AnyOf(U)}]
    BY <2>3, <2>4, <2>5, AnyOfIn
  <2>6. SumsTo(f, S, n + 1, G)
    BY <2>2, <2>5 DEF SumsTo
  <2> QED
    BY <1>1, <2>6
<1>4. Cardinality(S) \in T
  BY <1>0, <1>1, <1>2, <1>3, NaturalSet
<1>5. PICK H : SumsTo(f, S, Cardinality(S), H)
  BY <1>1, <1>4
<1>6. Small(S, Cardinality(S)) = SUBSET S
  BY FS_Subset, FS_CardinalityType DEF Small
<1> QED
  BY <1>5, <1>6 DEF SumsTo, Sums

\* The operator of the community module computes such sums.
LEMMA SumIsSums ==
  ASSUME NEW f, NEW S, IsFiniteSet(S)
  PROVE  \E H : Sums(f, S, H) /\ SumFunctionOnSet(f, S) = H[S]
<1> DEFINE H == CHOOSE H : H = [U \in SUBSET S |->
                                 IF U = {} THEN 0
                                 ELSE f[CHOOSE x \in U : TRUE] + H[U \ {CHOOSE x \in U : TRUE}]]
<1>1. H = [U \in SUBSET S |-> IF U = {} THEN 0
                             ELSE f[CHOOSE x \in U : TRUE] + H[U \ {CHOOSE x \in U : TRUE}]]
  <2>1. PICK G : Sums(f, S, G)
    BY SumsExist
  <2> QED
    BY <2>1 DEF Sums, AnyOf
<1>2. SumFunctionOnSet(f, S) = H[S]
  BY Zenon DEF SumFunctionOnSet, FoldFunctionOnSet, MapThenFoldSet
<1> QED
  BY <1>1, <1>2 DEF Sums, AnyOf

\* Sums depend on nothing but the values that are added.
LEMMA SumsAgree ==
  ASSUME NEW S, IsFiniteSet(S), NEW f, NEW g, \A x \in S : f[x] = g[x],
         NEW R, S \subseteq R, NEW H, NEW G, Sums(f, S, H), Sums(g, R, G)
  PROVE  H[S] = G[S]
<1>1. PICK T : T = {U \in SUBSET S : H[U] = G[U]}
  OBVIOUS
<1>2. ASSUME NEW U \in SUBSET S, \A x \in U : U \ {x} \in T
      PROVE  U \in T
  <2>1. CASE U = {}
    BY <1>1, <2>1 DEF Sums
  <2>2. CASE U # {}
    <3>1. PICK x \in U : x = AnyOf(U)
      BY <2>2, AnyOfIn
    <3>2. H[U] = f[x] + H[U \ {x}] /\ G[U] = g[x] + G[U \ {x}]
      BY <2>2, <3>1 DEF Sums
    <3>3. H[U \ {x}] = G[U \ {x}] /\ f[x] = g[x]
      BY <1>1, <1>2
    <3> QED
      BY <1>1, <3>2, <3>3
  <2> QED
    BY <2>1, <2>2
<1>3. SUBSET S \subseteq T
  BY <1>2, SubsetsSet
<1> QED
  BY <1>1, <1>3

\* Sums of natural numbers are natural numbers.
LEMMA SumsNat ==
  ASSUME NEW S, IsFiniteSet(S), NEW f, \A x \in S : f[x] \in Nat, NEW H, Sums(f, S, H)
  PROVE  \A U \in SUBSET S : H[U] \in Nat
<1>1. PICK T : T = {U \in SUBSET S : H[U] \in Nat}
  OBVIOUS
<1>2. ASSUME NEW U \in SUBSET S, \A x \in U : U \ {x} \in T
      PROVE  U \in T
  <2>1. CASE U = {}
    BY <1>1, <2>1 DEF Sums
  <2>2. CASE U # {}
    <3>1. PICK y \in U : y = AnyOf(U)
      BY <2>2, AnyOfIn
    <3>2. H[U] = f[y] + H[U \ {y}]
      BY <2>2, <3>1 DEF Sums
    <3>3. H[U \ {y}] \in Nat /\ f[y] \in Nat
      BY <1>1, <1>2
    <3> QED
      BY <1>1, <3>2, <3>3
  <2> QED
    BY <2>1, <2>2
<1>3. SUBSET S \subseteq T
  BY <1>2, SubsetsSet
<1> QED
  BY <1>1, <1>3

\* A sum of natural numbers can be taken in any order.
LEMMA SumsAnyOrder ==
  ASSUME NEW S, IsFiniteSet(S), NEW f, \A x \in S : f[x] \in Nat, NEW H, Sums(f, S, H)
  PROVE  \A U \in SUBSET S : \A x \in U : H[U] = f[x] + H[U \ {x}]
<1>1. PICK T : T = {U \in SUBSET S : \A x \in U : H[U] = f[x] + H[U \ {x}]}
  OBVIOUS
<1>0. \A U \in SUBSET S : H[U] \in Nat
  BY SumsNat
<1>2. ASSUME NEW U \in SUBSET S, \A x \in U : U \ {x} \in T
      PROVE  U \in T
  <2>1. CASE U = {}
    BY <1>1, <2>1
  <2>2. CASE U # {}
    <3>1. PICK y \in U : y = AnyOf(U)
      BY <2>2, AnyOfIn
    <3>2. H[U] = f[y] + H[U \ {y}]
      BY <2>2, <3>1 DEF Sums
    <3>3. \A x \in U : f[x] \in Nat
      OBVIOUS
    <3>4. ASSUME NEW x \in U, x # y
          PROVE  H[U] = f[x] + H[U \ {x}]
      <4>1. PICK V : V = (U \ {x}) \ {y}
        OBVIOUS
      <4>2. V = (U \ {y}) \ {x}
        BY <4>1
      <4>3. H[U \ {y}] = f[x] + H[V]
        BY <1>1, <1>2, <3>4, <4>2
      <4>4. H[U \ {x}] = f[y] + H[V]
        BY <1>1, <1>2, <3>4, <4>1
      <4>5. x \in U \ {y} /\ V \in SUBSET S
        BY <3>4, <4>1
      <4> QED
        BY <1>0, <3>2, <3>3, <4>3, <4>4, <4>5
    <3> QED
      BY <1>1, <3>2, <3>3, <3>4
  <2> QED
    BY <2>1, <2>2
<1>3. SUBSET S \subseteq T
  BY <1>2, SubsetsSet
<1> QED
  BY <1>1, <1>3

\* A sum over a set does not depend on anything but the values added.
LEMMA SumSame ==
  ASSUME NEW S, IsFiniteSet(S), NEW f, NEW g, \A x \in S : f[x] = g[x]
  PROVE  SumFunctionOnSet(f, S) = SumFunctionOnSet(g, S)
<1>1. PICK H : Sums(f, S, H) /\ SumFunctionOnSet(f, S) = H[S]
  BY SumIsSums
<1>2. PICK G : Sums(g, S, G) /\ SumFunctionOnSet(g, S) = G[S]
  BY SumIsSums
<1> QED
  BY <1>1, <1>2, SumsAgree

\* The sum over no element is 0.
LEMMA SumEmpty == \A f : SumFunctionOnSet(f, {}) = 0
<1> SUFFICES ASSUME NEW f PROVE SumFunctionOnSet(f, {}) = 0
  OBVIOUS
<1>1. PICK H : Sums(f, {}, H) /\ SumFunctionOnSet(f, {}) = H[{}]
  BY SumIsSums, FS_EmptySet
<1> QED
  BY <1>1 DEF Sums

\* A sum of natural numbers is a natural number.
LEMMA SumNat ==
  ASSUME NEW S, IsFiniteSet(S), NEW f, \A x \in S : f[x] \in Nat
  PROVE  SumFunctionOnSet(f, S) \in Nat
<1>1. PICK H : Sums(f, S, H) /\ SumFunctionOnSet(f, S) = H[S]
  BY SumIsSums
<1> QED
  BY <1>1, SumsNat

\* A sum over a set is that over the set without one of its elements, and that.
LEMMA SumWithout ==
  ASSUME NEW S, IsFiniteSet(S), NEW f, \A x \in S : f[x] \in Nat, NEW y \in S
  PROVE  SumFunctionOnSet(f, S) = f[y] + SumFunctionOnSet(f, S \ {y})
<1>1. PICK H : Sums(f, S, H) /\ SumFunctionOnSet(f, S) = H[S]
  BY SumIsSums
<1>2. IsFiniteSet(S \ {y})
  BY FS_Subset
<1>3. PICK G : Sums(f, S \ {y}, G) /\ SumFunctionOnSet(f, S \ {y}) = G[S \ {y}]
  BY <1>2, SumIsSums
<1>4. H[S] = f[y] + H[S \ {y}]
  BY <1>1, SumsAnyOrder
<1>5. H[S \ {y}] = G[S \ {y}]
  <2>1. S \ {y} \subseteq S
    OBVIOUS
  <2>2. PICK R : R = S \ {y}
    OBVIOUS
  <2>3. G[R] = H[R]
    BY <1>1, <1>2, <1>3, <2>1, <2>2, SumsAgree
  <2> QED
    BY <2>2, <2>3
<1> QED
  BY <1>1, <1>3, <1>4, <1>5

\* Adding one more element.
LEMMA SumWith ==
  ASSUME NEW S, IsFiniteSet(S), NEW f, \A x \in S : f[x] \in Nat,
         NEW y, y \notin S, f[y] \in Nat
  PROVE  SumFunctionOnSet(f, S \cup {y}) = SumFunctionOnSet(f, S) + f[y]
<1>1. IsFiniteSet(S \cup {y})
  BY FS_AddElement
<1>2. (S \cup {y}) \ {y} = S
  OBVIOUS
<1>3. SumFunctionOnSet(f, S \cup {y}) = f[y] + SumFunctionOnSet(f, S)
  BY <1>1, <1>2, SumWithout
<1> QED
  BY <1>3, SumNat

\* Changing one of the values that are added.
LEMMA SumChange ==
  ASSUME NEW S, IsFiniteSet(S), NEW y \in S, NEW f, NEW g, NEW n \in Nat,
         \A x \in S : f[x] \in Nat,
         \A x \in S : x # y => g[x] = f[x],
         g[y] = f[y] + n
  PROVE  SumFunctionOnSet(g, S) = SumFunctionOnSet(f, S) + n
<1>1. IsFiniteSet(S \ {y}) /\ \A x \in S : g[x] \in Nat
  BY FS_Subset
<1>2. SumFunctionOnSet(f, S) = f[y] + SumFunctionOnSet(f, S \ {y})
  BY SumWithout
<1>3. SumFunctionOnSet(g, S) = g[y] + SumFunctionOnSet(g, S \ {y})
  BY <1>1, SumWithout
<1>4. SumFunctionOnSet(f, S \ {y}) = SumFunctionOnSet(g, S \ {y})
  BY <1>1, SumSame
<1>5. SumFunctionOnSet(f, S \ {y}) \in Nat
  BY <1>1, SumNat
<1> QED
  BY <1>2, <1>3, <1>4, <1>5

\* No value of a sum exceeds it.
LEMMA SumBound ==
  ASSUME NEW S, IsFiniteSet(S), NEW f, \A x \in S : f[x] \in Nat, NEW y \in S
  PROVE  f[y] <= SumFunctionOnSet(f, S)
<1>1. SumFunctionOnSet(f, S) = f[y] + SumFunctionOnSet(f, S \ {y})
  BY SumWithout
<1>2. SumFunctionOnSet(f, S \ {y}) \in Nat
  BY SumNat, FS_Subset
<1> QED
  BY <1>1, <1>2

-----------------------------------------------------------------------------
(* Counting and adding in turn *)

\* Induction over the numbers up to n.
LEMMA CountingSet ==
  ASSUME NEW n \in Nat, NEW T, 0 \in T, \A r \in 1 .. n : r - 1 \in T => r \in T
  PROVE  \A r \in 0 .. n : r \in T
<1>1. PICK W : W = {k \in Nat : k <= n => k \in T}
  OBVIOUS
<1>2. 0 \in W
  BY <1>1
<1>3. ASSUME NEW k \in Nat, k \in W
      PROVE  k + 1 \in W
  <2> SUFFICES ASSUME k + 1 <= n PROVE k + 1 \in T
    BY <1>1
  <2>1. PICK r : r = k + 1
    OBVIOUS
  <2>2. r \in 1 .. n /\ r - 1 = k /\ k <= n
    BY <2>1
  <2>3. r - 1 \in T
    BY <1>1, <1>3, <2>2
  <2>4. r \in T
    BY <2>2, <2>3
  <2> QED
    BY <2>1, <2>4
<1>4. Nat \subseteq W
  BY <1>2, <1>3, NaturalSet
<1> QED
  BY <1>1, <1>4

\* The sum over one more number.
LEMMA SumNext ==
  ASSUME NEW n \in Nat, NEW f, \A i \in 1 .. n + 1 : f[i] \in Nat
  PROVE  SumFunctionOnSet(f, 1 .. n + 1) = SumFunctionOnSet(f, 1 .. n) + f[n + 1]
<1>1. IsFiniteSet(1 .. n)
  BY FS_Interval
<1>2. PICK y : y = n + 1
  OBVIOUS
<1>3. 1 .. y = (1 .. n) \cup {y} /\ y \notin 1 .. n /\ f[y] \in Nat
  BY <1>2
<1>4. \A i \in 1 .. n : f[i] \in Nat
  OBVIOUS
<1>5. SumFunctionOnSet(f, (1 .. n) \cup {y}) = SumFunctionOnSet(f, 1 .. n) + f[y]
  BY <1>1, <1>3, <1>4, SumWith
<1> QED
  BY <1>2, <1>3, <1>5

\* Adding up two runs of numbers, one after the other.
LEMMA SumConcat ==
  ASSUME NEW m \in Nat, NEW n \in Nat, NEW f, NEW g, NEW h,
         \A i \in 1 .. m + n : f[i] \in Nat,
         \A i \in 1 .. m : g[i] = f[i],
         \A i \in 1 .. n : h[i] = f[m + i]
  PROVE  SumFunctionOnSet(f, 1 .. m + n)
           = SumFunctionOnSet(g, 1 .. m) + SumFunctionOnSet(h, 1 .. n)
<1> DEFINE F(k) == SumFunctionOnSet(f, 1 .. k)
           G    == SumFunctionOnSet(g, 1 .. m)
           K(k) == SumFunctionOnSet(h, 1 .. k)
<1>1. PICK T : T = {k \in 0 .. n : F(m + k) = G + K(k)}
  OBVIOUS
<1>2. IsFiniteSet(1 .. m) /\ \A k \in Nat : IsFiniteSet(1 .. k)
  BY FS_Interval
<1>3. F(m) = G
  BY <1>2, SumSame
<1>4. G \in Nat /\ \A k \in 0 .. n : K(k) \in Nat
  <2>1. \A i \in 1 .. m : g[i] \in Nat
    OBVIOUS
  <2>2. ASSUME NEW k \in 0 .. n PROVE K(k) \in Nat
    <3>1. \A i \in 1 .. k : h[i] \in Nat
      OBVIOUS
    <3> QED
      BY <1>2, <3>1, SumNat
  <2> QED
    BY <1>2, <2>1, <2>2, SumNat
<1>5. \A k \in 0 .. n : k + 1 <= n => /\ F((m + k) + 1) = F(m + k) + f[(m + k) + 1]
                                      /\ K(k + 1) = K(k) + h[k + 1]
  <2> SUFFICES ASSUME NEW k \in 0 .. n, k + 1 <= n
               PROVE  /\ F((m + k) + 1) = F(m + k) + f[(m + k) + 1]
                      /\ K(k + 1) = K(k) + h[k + 1]
    OBVIOUS
  <2>1. F((m + k) + 1) = F(m + k) + f[(m + k) + 1]
    <3>1. PICK j : j = m + k
      OBVIOUS
    <3>2. j \in Nat /\ \A i \in 1 .. j + 1 : f[i] \in Nat
      BY <3>1
    <3>3. F(j + 1) = F(j) + f[j + 1]
      BY <3>2, SumNext
    <3> QED
      BY <3>1, <3>3
  <2>2. \A i \in 1 .. k + 1 : h[i] \in Nat
    OBVIOUS
  <2>3. k \in Nat
    OBVIOUS
  <2> QED
    BY <2>1, <2>2, <2>3, SumNext
<1>6. K(0) = 0
  BY SumEmpty
<1> HIDE DEF F, G, K
<1>7. 0 \in T
  BY <1>1, <1>3, <1>4, <1>6
<1>8. ASSUME NEW r \in 1 .. n, r - 1 \in T
      PROVE  r \in T
  <2>1. PICK k : k = r - 1
    OBVIOUS
  <2>2. k \in 0 .. n /\ k + 1 <= n /\ r = k + 1 /\ (m + k) + 1 = m + r
    BY <2>1
  <2>3. F(m + r) = F(m + k) + f[m + r] /\ K(r) = K(k) + h[r]
    BY <1>5, <2>2
  <2>4. F(m + k) = G + K(k) /\ h[r] = f[m + r] /\ h[r] \in Nat
    <3>1. m + r \in 1 .. m + n
      OBVIOUS
    <3> QED
      BY <1>1, <1>8, <2>1, <3>1
  <2>5. F(m + r) = G + K(r)
    BY <1>4, <2>2, <2>3, <2>4
  <2> QED
    BY <1>1, <2>5
<1>9. \A r \in 0 .. n : r \in T
  BY <1>7, <1>8, CountingSet
<1>10. n \in T
  BY <1>9
<1> QED
  BY <1>1, <1>10 DEF F, G, K

\* A sum of zeros is zero.
LEMMA SumZero ==
  ASSUME NEW S, IsFiniteSet(S), NEW f, \A x \in S : f[x] = 0
  PROVE  SumFunctionOnSet(f, S) = 0
<1>1. PICK H : Sums(f, S, H) /\ SumFunctionOnSet(f, S) = H[S]
  BY SumIsSums
<1>2. PICK T : T = {U \in SUBSET S : H[U] = 0}
  OBVIOUS
<1>3. ASSUME NEW U \in SUBSET S, \A x \in U : U \ {x} \in T
      PROVE  U \in T
  <2>1. CASE U = {}
    BY <1>1, <1>2, <2>1 DEF Sums
  <2>2. CASE U # {}
    <3>1. PICK x \in U : x = AnyOf(U)
      BY <2>2, AnyOfIn
    <3>2. H[U] = f[x] + H[U \ {x}] /\ f[x] = 0 /\ H[U \ {x}] = 0
      BY <1>1, <1>2, <1>3, <2>2, <3>1 DEF Sums
    <3> QED
      BY <1>2, <3>2
  <2> QED
    BY <2>1, <2>2
<1>4. SUBSET S \subseteq T
  BY <1>3, SubsetsSet
<1> QED
  BY <1>1, <1>2, <1>4

=============================================================================
