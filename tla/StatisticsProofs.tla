-------------------------- MODULE StatisticsProofs --------------------------
(***************************************************************************)
(* Proofs about Revision, Screens, Statistics and Cohort: the views of one *)
(* document agree, the committed statistics are those of the committed     *)
(* document, and what a coach is shown agrees with both.                   *)
(*                                                                         *)
(* IInv is the inductive invariant: the histories are sorted and in the    *)
(* past, a plan that the load did not make begins a day of the student's   *)
(* zone, and the statistics are derived from the document they were        *)
(* committed with.  Everything else follows from it, state by state.  The  *)
(* sums are those of finite sets; what they have for a set is found by     *)
(* taking a smallest set for which it fails.                               *)
(***************************************************************************)
EXTENDS Cohort, FiniteSetTheorems, WellFoundedInduction, TLAPS

-----------------------------------------------------------------------------
(* Finite sets.                                                            *)

\* Among the finite sets of which something holds, there is a smallest.
LEMMA SmallestSubset ==
  \A S, F : IsFiniteSet(S) /\ F # {} /\ (\A T \in F : T \in SUBSET S) =>
    \E T \in F : \A U \in F : U \subseteq T => U = T
<1> SUFFICES ASSUME NEW S, NEW F, IsFiniteSet(S), F # {}, \A T \in F : T \in SUBSET S
             PROVE  \E T \in F : \A U \in F : U \subseteq T => U = T
  OBVIOUS
<1>1. IsWellFoundedOn(StrictSubsetOrdering(S), SUBSET S)
  BY FS_StrictSubsetOrderingWellFounded, FS_FiniteSubsetsOfFinite
<1>2. F \subseteq SUBSET S
  OBVIOUS
<1>3. PICK T \in F : \A U \in F : <<U, T>> \notin StrictSubsetOrdering(S)
  BY <1>1, <1>2, WFMin
<1> QED
  BY <1>3 DEF StrictSubsetOrdering

\* Two finite sets without a common element, side by side.
LEMMA DisjointUnion ==
  ASSUME NEW A, IsFiniteSet(A), NEW S \in SUBSET A, NEW T \in SUBSET A, S \cap T = {}
  PROVE  Cardinality(S \cup T) = Cardinality(S) + Cardinality(T)
<1>1. IsFiniteSet(S) /\ IsFiniteSet(T)
  BY FS_Subset
<1>2. Cardinality(S) \in Nat /\ Cardinality(T) \in Nat
  BY <1>1, FS_CardinalityType
<1> QED
  BY <1>1, <1>2, FS_Union, FS_EmptySet

\* What a function has for values on a finite set is finite.
LEMMA FiniteImage ==
  \A f, S : IsFiniteSet(S) /\ DOMAIN f = S => IsFiniteSet({f[x] : x \in S})
<1> SUFFICES ASSUME NEW f, NEW S, IsFiniteSet(S), DOMAIN f = S
             PROVE  IsFiniteSet({f[x] : x \in S})
  OBVIOUS
<1>1. PICK g, T : g = [x \in S |-> f[x]] /\ T = {f[x] : x \in S}
  OBVIOUS
<1>2. g \in Surjection(S, T)
  BY <1>1 DEF Surjection
<1> QED
  BY <1>1, <1>2, FS_Surjection

\* A finite set of numbers has a largest.
LEMMA LargestExists ==
  \A S : IsFiniteSet(S) /\ S # {} /\ S \subseteq Int =>
    Max(S) \in S /\ \A x \in S : Max(S) >= x
<1> SUFFICES ASSUME NEW S, IsFiniteSet(S), S # {}, S \subseteq Int
             PROVE  \E x \in S : \A y \in S : x >= y
  BY DEF Max
<1>1. PICK Upper : Upper = {T \in SUBSET S : \E x \in S : T = {y \in S : y >= x}}
  OBVIOUS
<1>2. Upper # {} /\ \A T \in Upper : T \in SUBSET S
  <2>1. PICK x \in S : TRUE
    OBVIOUS
  <2>2. {y \in S : y >= x} \in Upper
    BY <1>1
  <2> QED
    BY <1>1, <2>2
<1>3. PICK T \in Upper : \A U \in Upper : U \subseteq T => U = T
  BY <1>2, SmallestSubset
<1>4. PICK x \in S : T = {y \in S : y >= x}
  BY <1>1
<1>5. ASSUME NEW y \in S, y > x PROVE FALSE
  <2>1. PICK U : U = {z \in S : z >= y}
    OBVIOUS
  <2>2. x \in Int /\ y \in Int /\ \A z \in S : z \in Int
    OBVIOUS
  <2>3. x \notin U /\ x \in T
    BY <1>4, <1>5, <2>1, <2>2
  <2>4. ASSUME NEW z \in U PROVE z \in T
    <3>1. z \in S /\ z >= y
      BY <2>1
    <3>2. z \in Int /\ z >= x
      BY <1>5, <2>2, <3>1
    <3> QED
      BY <1>4, <3>1, <3>2
  <2>5. U \in Upper
    BY <1>1, <2>1
  <2> QED
    BY <1>3, <2>3, <2>4, <2>5
<1>6. x \in Int /\ \A y \in S : y \in Int
  OBVIOUS
<1> QED
  BY <1>5, <1>6

-----------------------------------------------------------------------------
(* The sum of a function over a finite set.                                *)

Pick(s) == CHOOSE x \in s : TRUE
TotalOver(w, S) == MapThenSumSet(LAMBDA x : w[x], S)

\* The function by which MapThenSumSet is defined, on the subsets of T.
SumsOf(w, T, f) == f = [s \in SUBSET T |-> IF s = {} THEN 0 ELSE w[Pick(s)] + f[s \ {Pick(s)}]]
TheSums(w, T) == CHOOSE f : SumsOf(w, T, f)

\* A sum is what the recursive function of the library has for the whole set.
LEMMA TotalIs == \A w, S : TotalOver(w, S) = TheSums(w, S)[S]
BY Zenon DEF TotalOver, MapThenSumSet, MapThenFoldSet, TheSums, SumsOf, Pick

\* The element that is taken next is one of the set.
LEMMA PickIn == \A s : s # {} => Pick(s) \in s
BY DEF Pick

\* One step of the recursion.
LEMMA SumsStep ==
  \A w, V, h : SumsOf(w, V, h) =>
    \A s \in SUBSET V : h[s] = IF s = {} THEN 0 ELSE w[Pick(s)] + h[s \ {Pick(s)}]
BY Zenon DEF SumsOf

\* On the subsets they share, the sums over two sets are the same.
LEMMA SumsAgree ==
  \A w, T, U, f, g :
    IsFiniteSet(T) /\ U \in SUBSET T /\ SumsOf(w, T, f) /\ SumsOf(w, U, g) =>
      \A s \in SUBSET U : f[s] = g[s]
<1> SUFFICES ASSUME NEW w, NEW T, NEW U, NEW f, NEW g, IsFiniteSet(T), U \in SUBSET T,
                    SumsOf(w, T, f), SumsOf(w, U, g)
             PROVE  \A s \in SUBSET U : f[s] = g[s]
  OBVIOUS
<1>1. PICK Bad : Bad = {s \in SUBSET U : f[s] # g[s]}
  OBVIOUS
<1>2. SUFFICES ASSUME Bad # {} PROVE FALSE
  BY <1>1
<1>3. PICK s \in Bad : \A v \in Bad : v \subseteq s => v = s
  <2>1. \A v \in Bad : v \in SUBSET T
    BY <1>1
  <2> QED
    BY <1>2, <2>1, SmallestSubset
<1>31. s \in SUBSET U /\ s \in SUBSET T /\ f[s] # g[s]
  BY <1>1, <1>3
<1>4. /\ f[s] = IF s = {} THEN 0 ELSE w[Pick(s)] + f[s \ {Pick(s)}]
      /\ g[s] = IF s = {} THEN 0 ELSE w[Pick(s)] + g[s \ {Pick(s)}]
  <2>1. f[s] = IF s = {} THEN 0 ELSE w[Pick(s)] + f[s \ {Pick(s)}]
    <3>1. \A v \in SUBSET T : f[v] = IF v = {} THEN 0 ELSE w[Pick(v)] + f[v \ {Pick(v)}]
      BY SumsStep
    <3> QED
      BY <1>31, <3>1
  <2>2. g[s] = IF s = {} THEN 0 ELSE w[Pick(s)] + g[s \ {Pick(s)}]
    BY <1>31, SumsStep
  <2> QED
    BY <2>1, <2>2
<1>5. s # {} /\ Pick(s) \in s
  BY <1>31, <1>4, PickIn
<1>6. PICK p \in s : p = Pick(s)
  BY <1>5
<1>7. s \ {p} \in SUBSET U /\ s \ {p} \subseteq s /\ s \ {p} # s
  BY <1>31, <1>6
<1>8. f[s \ {p}] = g[s \ {p}]
  BY <1>1, <1>3, <1>7
<1> QED
  BY <1>31, <1>4, <1>6, <1>8

\* The recursion has a solution.
LEMMA SumsExist ==
  \A w, S : IsFiniteSet(S) => SumsOf(w, S, TheSums(w, S))
<1> SUFFICES ASSUME NEW w, NEW S, IsFiniteSet(S) PROVE SumsOf(w, S, TheSums(w, S))
  OBVIOUS
<1>1. PICK Bad : Bad = {T \in SUBSET S : ~\E f : SumsOf(w, T, f)}
  OBVIOUS
<1>2. ASSUME Bad # {} PROVE FALSE
  <2>1. PICK T \in Bad : \A U \in Bad : U \subseteq T => U = T
    <3>1. \A U \in Bad : U \in SUBSET S
      BY <1>1
    <3> QED
      BY <1>2, <3>1, SmallestSubset
  <2>2. T \in SUBSET S /\ ~\E f : SumsOf(w, T, f)
    BY <1>1, <2>1
  <2>3. \A U \in SUBSET T : U # T => SumsOf(w, U, TheSums(w, U))
    <3>1. ASSUME NEW U \in SUBSET T, U # T
          PROVE  \E f : SumsOf(w, U, f)
      <4>1. U \in SUBSET S /\ U \notin Bad
        BY <2>1, <2>2, <3>1
      <4> QED
        BY <1>1, <4>1
    <3> QED
      BY <3>1 DEF TheSums
  <2>4. PICK p : p = Pick(T)
    OBVIOUS
  <2>5. T # {} => p \in T
    BY <2>4, PickIn
  <2> DEFINE top == IF T = {} THEN 0 ELSE w[p] + TheSums(w, T \ {p})[T \ {p}]
             f == [s \in SUBSET T |-> IF s = T THEN top ELSE TheSums(w, s)[s]]
  <2>6. ASSUME NEW s \in SUBSET T
        PROVE  f[s] = IF s = {} THEN 0 ELSE w[Pick(s)] + f[s \ {Pick(s)}]
    <3>1. CASE s = T
      <4>1. CASE T = {}
        BY <3>1, <4>1
      <4>2. CASE T # {}
        <5>1. T \ {p} # T /\ T \ {p} \in SUBSET T
          BY <2>5, <4>2
        <5>2. f[T \ {p}] = TheSums(w, T \ {p})[T \ {p}]
          BY <5>1
        <5> QED
          BY <2>4, <3>1, <4>2, <5>2
      <4> QED
        BY <4>1, <4>2
    <3>2. CASE s # T
      <4>1. SumsOf(w, s, TheSums(w, s)) /\ f[s] = TheSums(w, s)[s]
        BY <2>3, <3>2
      <4>2. TheSums(w, s)[s] = IF s = {} THEN 0 ELSE w[Pick(s)] + TheSums(w, s)[s \ {Pick(s)}]
        <5>1. s \in SUBSET s
          OBVIOUS
        <5> HIDE DEF f
        <5> QED
          BY <4>1, <5>1, SumsStep
      <4>3. CASE s = {}
        BY <4>1, <4>2, <4>3
      <4>4. CASE s # {}
        <5>1. PICK q \in s : q = Pick(s)
          BY <4>4, PickIn
        <5>2. s \ {q} \in SUBSET s /\ s \ {q} # T /\ s \ {q} \in SUBSET T /\ s \in SUBSET S
          BY <2>2, <3>2, <5>1
        <5>3. SumsOf(w, s \ {q}, TheSums(w, s \ {q}))
          BY <2>3, <5>2
        <5>4. TheSums(w, s)[s \ {q}] = TheSums(w, s \ {q})[s \ {q}]
          <6>1. PICK r, fs, fr : r = s \ {q} /\ fs = TheSums(w, s) /\ fr = TheSums(w, r)
            OBVIOUS
          <6>2. SumsOf(w, s, fs) /\ SumsOf(w, r, fr) /\ r \in SUBSET s /\ r \in SUBSET r
            BY <4>1, <5>2, <5>3, <6>1
          <6>3. \A v \in SUBSET r : fs[v] = fr[v]
            BY <2>2, <5>2, <6>2, SumsAgree, FS_Subset
          <6> QED
            BY <6>1, <6>2, <6>3
        <5>5. f[s \ {q}] = TheSums(w, s \ {q})[s \ {q}]
          BY <5>2
        <5> QED
          BY <4>1, <4>2, <4>4, <5>1, <5>4, <5>5
      <4> QED
        BY <4>3, <4>4
    <3> QED
      BY <3>1, <3>2
  <2>7. f = [s \in SUBSET T |-> f[s]]
    OBVIOUS
  <2> HIDE DEF f
  <2>8. f = [s \in SUBSET T |-> IF s = {} THEN 0 ELSE w[Pick(s)] + f[s \ {Pick(s)}]]
    BY <2>6, <2>7
  <2>9. SumsOf(w, T, f)
    BY <2>8 DEF SumsOf
  <2> QED
    BY <2>2, <2>9
<1>3. \E f : SumsOf(w, S, f)
  BY <1>1, <1>2
<1> QED
  BY <1>3 DEF TheSums

\* What there is to know of a sum: of nothing it is 0, and any element may be
\* taken out of it.
LEMMA TotalEmpty == \A w : TotalOver(w, {}) = 0
<1>1. ASSUME NEW w PROVE TotalOver(w, {}) = 0
  <2>1. SumsOf(w, {}, TheSums(w, {})) /\ {} \in SUBSET {}
    BY FS_EmptySet, SumsExist
  <2> QED
    BY <2>1, SumsStep, TotalIs
<1> QED
  BY <1>1

\* A sum is one element and the sum of the others, for the element taken next.
LEMMA TotalPick ==
  \A w, S, p : IsFiniteSet(S) /\ p = Pick(S) /\ S # {} => TotalOver(w, S) = w[p] + TotalOver(w, S \ {p})
<1> SUFFICES ASSUME NEW w, NEW S, IsFiniteSet(S), NEW p, p = Pick(S), S # {}
             PROVE  TotalOver(w, S) = w[p] + TotalOver(w, S \ {p})
  OBVIOUS
<1>1. PICK r : r = S \ {p}
  OBVIOUS
<1>2. r \in SUBSET S /\ IsFiniteSet(r)
  BY <1>1, FS_Subset
<1>3. PICK f, g : f = TheSums(w, S) /\ g = TheSums(w, r)
  OBVIOUS
<1>4. SumsOf(w, S, f) /\ SumsOf(w, r, g)
  BY <1>2, <1>3, SumsExist
<1>5. \A v \in SUBSET r : f[v] = g[v]
  BY <1>2, <1>4, SumsAgree
<1>6. \A v \in SUBSET S : f[v] = IF v = {} THEN 0 ELSE w[Pick(v)] + f[v \ {Pick(v)}]
  <2>1. SumsOf(w, S, f)
    BY <1>4
  <2> QED
    BY Zenon, <2>1 DEF SumsOf
<1>7. f[S] = w[p] + f[r]
  BY <1>1, <1>6
<1> QED
  BY <1>1, <1>3, <1>5, <1>7, TotalIs

\* Natural numbers add up to one, and integers to an integer.
LEMMA TotalNat ==
  \A w, S, N : IsFiniteSet(S) /\ N \in {Nat, Int} /\ (\A x \in S : w[x] \in N) => TotalOver(w, S) \in N
<1> SUFFICES ASSUME NEW w, NEW S, IsFiniteSet(S), NEW N \in {Nat, Int}, \A x \in S : w[x] \in N
             PROVE  TotalOver(w, S) \in N
  OBVIOUS
<1>1. PICK Bad : Bad = {T \in SUBSET S : TotalOver(w, T) \notin N}
  OBVIOUS
<1>2. ASSUME Bad # {} PROVE FALSE
  <2>1. PICK T \in Bad : \A U \in Bad : U \subseteq T => U = T
    <3>1. \A U \in Bad : U \in SUBSET S
      BY <1>1
    <3> QED
      BY <1>2, <3>1, SmallestSubset
  <2>2. T \in SUBSET S /\ TotalOver(w, T) \notin N
    BY <1>1, <2>1
  <2>21. T # {}
    BY <2>2, TotalEmpty
  <2>3. PICK p \in T : p = Pick(T)
    BY <2>21, PickIn
  <2>4. IsFiniteSet(T)
    BY <2>2, FS_Subset
  <2>5. TotalOver(w, T) = w[p] + TotalOver(w, T \ {p})
    BY <2>21, <2>3, <2>4, TotalPick
  <2>6. T \ {p} \in SUBSET S /\ T \ {p} \notin Bad
    BY <2>1, <2>2, <2>3
  <2>7. TotalOver(w, T \ {p}) \in N
    BY <1>1, <2>6
  <2> QED
    BY <2>2, <2>5, <2>7
<1> QED
  BY <1>1, <1>2

\* A sum is one element and the sum of the others, for any element.
LEMMA TotalAdd ==
  ASSUME NEW w, NEW S, IsFiniteSet(S), \A x \in S : w[x] \in Int, NEW x \in S
  PROVE  TotalOver(w, S) = w[x] + TotalOver(w, S \ {x})
<1>1. PICK Bad : Bad = {T \in SUBSET S : \E y \in T : TotalOver(w, T) # w[y] + TotalOver(w, T \ {y})}
  OBVIOUS
<1>2. ASSUME Bad # {} PROVE FALSE
  <2>1. PICK T \in Bad : \A U \in Bad : U \subseteq T => U = T
    <3>1. \A U \in Bad : U \in SUBSET S
      BY <1>1
    <3> QED
      BY <1>2, <3>1, SmallestSubset
  <2>2. T \in SUBSET S
    BY <1>1
  <2>3. PICK y \in T : TotalOver(w, T) # w[y] + TotalOver(w, T \ {y})
    BY <1>1
  <2>4. PICK p \in T : p = Pick(T)
    BY <2>3, PickIn
  <2>5. \A U \in SUBSET T : IsFiniteSet(U)
    BY <2>2, FS_Subset
  <2>6. TotalOver(w, T) = w[p] + TotalOver(w, T \ {p})
    BY <2>3, <2>4, <2>5, TotalPick
  <2>7. p # y
    BY <2>3, <2>6
  <2>8. \A U \in SUBSET T : U # T => \A z \in U : TotalOver(w, U) = w[z] + TotalOver(w, U \ {z})
    BY <1>1, <2>1, <2>2
  <2>9. TotalOver(w, T \ {p}) = w[y] + TotalOver(w, (T \ {p}) \ {y})
    BY <2>4, <2>7, <2>8
  <2>10. TotalOver(w, T \ {y}) = w[p] + TotalOver(w, (T \ {y}) \ {p})
    BY <2>3, <2>7, <2>8
  <2>11. (T \ {p}) \ {y} = (T \ {y}) \ {p} /\ IsFiniteSet((T \ {y}) \ {p})
    BY <2>5
  <2>12. TotalOver(w, (T \ {y}) \ {p}) \in Int /\ w[p] \in Int /\ w[y] \in Int
    <3>1. \A z \in (T \ {y}) \ {p} : w[z] \in Int
      BY <2>2
    <3> QED
      BY <2>2, <2>11, <3>1, TotalNat
  <2>13. PICK a, b, c : a = w[p] /\ b = w[y] /\ c = TotalOver(w, (T \ {y}) \ {p})
    OBVIOUS
  <2>14. TotalOver(w, T) = a + (b + c) /\ w[y] + TotalOver(w, T \ {y}) = b + (a + c)
    BY <2>6, <2>9, <2>10, <2>11, <2>13
  <2>15. a + (b + c) = b + (a + c)
    BY <2>12, <2>13
  <2> QED
    BY <2>3, <2>14, <2>15
<1>3. S \notin Bad
  BY <1>2
<1> QED
  BY <1>1, <1>3

\* The sum depends on what the function is on the set.
LEMMA TotalSame ==
  ASSUME NEW w, NEW v, NEW S, IsFiniteSet(S), \A x \in S : w[x] = v[x]
  PROVE  TotalOver(w, S) = TotalOver(v, S)
<1>1. PICK Bad : Bad = {T \in SUBSET S : TotalOver(w, T) # TotalOver(v, T)}
  OBVIOUS
<1>2. ASSUME Bad # {} PROVE FALSE
  <2>1. PICK T \in Bad : \A U \in Bad : U \subseteq T => U = T
    <3>1. \A U \in Bad : U \in SUBSET S
      BY <1>1
    <3> QED
      BY <1>2, <3>1, SmallestSubset
  <2>2. T \in SUBSET S /\ TotalOver(w, T) # TotalOver(v, T) /\ T # {} /\ IsFiniteSet(T)
    BY <1>1, <2>1, TotalEmpty, FS_Subset
  <2>3. PICK p \in T : p = Pick(T)
    BY <2>2, PickIn
  <2>4. TotalOver(w, T) = w[p] + TotalOver(w, T \ {p}) /\ TotalOver(v, T) = v[p] + TotalOver(v, T \ {p})
    BY <2>2, <2>3, TotalPick
  <2>5. T \ {p} \in SUBSET S /\ T \ {p} \notin Bad
    BY <2>1, <2>2, <2>3
  <2> QED
    BY <1>1, <2>2, <2>4, <2>5
<1> QED
  BY <1>1, <1>2

\* Counting by key: the numbers of those with one of some keys add up to the
\* number of those with any of them.
LEMMA TotalOfCounts ==
  ASSUME NEW A, IsFiniteSet(A), NEW key, NEW D, IsFiniteSet(D), NEW w,
         \A d \in D : w[d] = Cardinality({a \in A : key[a] = d})
  PROVE  TotalOver(w, D) = Cardinality({a \in A : key[a] \in D})
<1>1. PICK Bad : Bad = {T \in SUBSET D : TotalOver(w, T) # Cardinality({a \in A : key[a] \in T})}
  OBVIOUS
<1>2. ASSUME Bad # {} PROVE FALSE
  <2>1. PICK T \in Bad : \A U \in Bad : U \subseteq T => U = T
    <3>1. \A U \in Bad : U \in SUBSET D
      BY <1>1
    <3> QED
      BY <1>2, <3>1, SmallestSubset
  <2>2. T \in SUBSET D /\ TotalOver(w, T) # Cardinality({a \in A : key[a] \in T}) /\ IsFiniteSet(T)
    BY <1>1, <2>1, FS_Subset
  <2>3. T # {}
    <3>1. {a \in A : key[a] \in {}} = {}
      OBVIOUS
    <3> QED
      BY <2>2, <3>1, TotalEmpty, FS_EmptySet
  <2>4. PICK p \in T : p = Pick(T)
    BY <2>3, PickIn
  <2>5. T \ {p} \in SUBSET D /\ T \ {p} \notin Bad
    BY <2>1, <2>2, <2>4
  <2>6. TotalOver(w, T) = Cardinality({a \in A : key[a] = p})
                        + Cardinality({a \in A : key[a] \in T \ {p}})
    <3>1. TotalOver(w, T) = w[p] + TotalOver(w, T \ {p})
      BY <2>2, <2>3, <2>4, TotalPick
    <3>2. w[p] = Cardinality({a \in A : key[a] = p})
      BY <2>2, <2>4
    <3>3. TotalOver(w, T \ {p}) = Cardinality({a \in A : key[a] \in T \ {p}})
      BY <1>1, <2>5
    <3> QED
      BY <3>1, <3>2, <3>3
  <2>7. PICK One, Rest, Both : /\ One = {a \in A : key[a] = p}
                               /\ Rest = {a \in A : key[a] \in T \ {p}}
                               /\ Both = {a \in A : key[a] \in T}
    OBVIOUS
  <2>8. One \in SUBSET A /\ Rest \in SUBSET A /\ One \cap Rest = {} /\ Both = One \cup Rest
    BY <2>4, <2>7
  <2>9. Cardinality(Both) = Cardinality(One) + Cardinality(Rest)
    BY <2>8, DisjointUnion
  <2> QED
    BY <2>2, <2>6, <2>7, <2>9
<1>3. D \notin Bad
  BY <1>2
<1> QED
  BY <1>1, <1>3

-----------------------------------------------------------------------------
(* The same of Total.                                                      *)

\* The sum of a function is the sum over its domain.
LEMMA TotalIsOver == \A f : Total(f) = TotalOver(f, DOMAIN f)
BY Zenon DEF Total, TotalOver

\* Natural numbers add up to one, and integers to an integer.
LEMMA TotalType ==
  \A S, N, f : IsFiniteSet(S) /\ N \in {Nat, Int} /\ f \in [S -> N] => Total(f) \in N
<1> SUFFICES ASSUME NEW S, NEW N \in {Nat, Int}, NEW f \in [S -> N], IsFiniteSet(S)
             PROVE  Total(f) \in N
  OBVIOUS
<1>1. DOMAIN f = S /\ \A x \in S : f[x] \in N
  OBVIOUS
<1>2. Total(f) = TotalOver(f, S)
  BY <1>1, TotalIsOver
<1> QED
  BY <1>1, <1>2, TotalNat

\* A sum of natural numbers is at least each of them.
LEMMA TotalHas ==
  \A S, f : IsFiniteSet(S) /\ f \in [S -> Nat] => \A x \in S : Total(f) >= f[x]
<1> SUFFICES ASSUME NEW S, NEW f \in [S -> Nat], IsFiniteSet(S), NEW x \in S
             PROVE  Total(f) >= f[x]
  OBVIOUS
<1>1. Total(f) = TotalOver(f, S)
  BY TotalIsOver
<1>2. TotalOver(f, S) = f[x] + TotalOver(f, S \ {x})
  <2>1. \A y \in S : f[y] \in Int
    OBVIOUS
  <2> QED
    BY <2>1, TotalAdd
<1>3. TotalOver(f, S \ {x}) \in Nat
  <2>1. IsFiniteSet(S \ {x}) /\ \A y \in S \ {x} : f[y] \in Nat
    BY FS_Subset
  <2> QED
    BY <2>1, TotalNat
<1>4. f[x] \in Nat
  OBVIOUS
<1> QED
  BY <1>1, <1>2, <1>3, <1>4

\* Counting by key, of a function of the keys.
LEMMA TotalCounts ==
  \A A, key, D, f :
    /\ IsFiniteSet(A) /\ IsFiniteSet(D) /\ DOMAIN f = D
    /\ \A d \in D : f[d] = Cardinality({a \in A : key[a] = d})
    => Total(f) = Cardinality({a \in A : key[a] \in D})
<1> SUFFICES ASSUME NEW A, NEW key, NEW D, NEW f, IsFiniteSet(A), IsFiniteSet(D), DOMAIN f = D,
                    \A d \in D : f[d] = Cardinality({a \in A : key[a] = d})
             PROVE  Total(f) = Cardinality({a \in A : key[a] \in D})
  OBVIOUS
<1>1. Total(f) = TotalOver(f, D)
  BY TotalIsOver
<1>2. TotalOver(f, D) = Cardinality({a \in A : key[a] \in D})
  BY TotalOfCounts
<1> QED
  BY <1>1, <1>2

\* A sum of natural numbers is 0 when each of them is.
LEMMA TotalIsZero ==
  \A S, f : IsFiniteSet(S) /\ f \in [S -> Nat] =>
    (Total(f) = 0 <=> \A x \in S : f[x] = 0)
<1> SUFFICES ASSUME NEW S, NEW f \in [S -> Nat], IsFiniteSet(S)
             PROVE  Total(f) = 0 <=> \A x \in S : f[x] = 0
  OBVIOUS
<1>1. ASSUME Total(f) = 0, NEW x \in S PROVE f[x] = 0
  <2>1. Total(f) >= f[x] /\ f[x] \in Nat
    BY TotalHas
  <2> QED
    BY <1>1, <2>1
<1>2. ASSUME \A x \in S : f[x] = 0 PROVE Total(f) = 0
  <2>1. \A d \in S : {a \in {} : f[a] = d} = {}
    OBVIOUS
  <2>2. \A d \in S : f[d] = Cardinality({a \in {} : f[a] = d})
    BY <1>2, <2>1, FS_EmptySet
  <2>3. Total(f) = Cardinality({a \in {} : f[a] \in S})
    BY <2>2, FS_EmptySet, TotalCounts
  <2>4. {a \in {} : f[a] \in S} = {}
    OBVIOUS
  <2> QED
    BY <2>3, <2>4, FS_EmptySet
<1> QED
  BY <1>1, <1>2

-----------------------------------------------------------------------------
(* Days.                                                                   *)

\* Division by a positive number rounds down.
LEMMA DivIs ==
  \A a \in Int, n \in Nat \ {0} :
    a \div n \in Int /\ n * (a \div n) <= a /\ a < n * (a \div n) + n
OBVIOUS

\* A larger integer, times n, is larger by n at least.
LEMMA TimesStep == \A a, b \in Int, n \in Nat \ {0} : a < b => n * a + n <= n * b
OBVIOUS

\* Dividing keeps the order.
LEMMA DivMonotone == \A a, b \in Int, n \in Nat \ {0} : a <= b => a \div n <= b \div n
<1> SUFFICES ASSUME NEW a \in Int, NEW b \in Int, NEW n \in Nat \ {0},
                    a <= b, b \div n < a \div n
             PROVE FALSE
  BY DivIs
<1>1. PICK p \in Int, q \in Int : p = a \div n /\ q = b \div n
  BY DivIs
<1>2. n * p <= a /\ b < n * q + n /\ n * q + n <= n * p
  BY <1>1, DivIs, TimesStep
<1>3. n * p \in Int /\ n * q \in Int
  OBVIOUS
<1> QED
  BY <1>2, <1>3

\* The day of a moment is an integer.
LEMMA DayType == \A ts, z \in Int : localDay(ts, z) \in Int
BY RevisionAssumption, DivIs DEF localDay

\* A later moment is on no earlier day.
LEMMA DayMonotone ==
  \A a, b, z \in Int : a <= b => localDay(a, z) <= localDay(b, z)
<1> SUFFICES ASSUME NEW a \in Int, NEW b \in Int, NEW z \in Int, a <= b
             PROVE  (a + z) \div Day <= (b + z) \div Day
  BY DEF localDay
<1>1. a + z \in Int /\ b + z \in Int /\ a + z <= b + z
  OBVIOUS
<1> QED
  BY <1>1, RevisionAssumption, DivMonotone

-----------------------------------------------------------------------------
(* Histories.                                                              *)

RevisionType == [timestamp : Int, divisor : {1, 2, 4}]
Histories == Seq(RevisionType)

Sorted(h) == \A i, j \in DOMAIN h : i <= j => h[i].timestamp <= h[j].timestamp
Past(h, at) == \A i \in DOMAIN h : h[i].timestamp <= at

\* The length, the places and the entries of a history.
LEMMA HistoryType ==
  \A h \in Histories :
    /\ Len(h) \in Nat /\ DOMAIN h = 1..Len(h) /\ IsFiniteSet(DOMAIN h)
    /\ \A i \in DOMAIN h : h[i] \in RevisionType /\ h[i].timestamp \in Int
<1> SUFFICES ASSUME NEW h \in Histories
             PROVE  /\ Len(h) \in Nat /\ DOMAIN h = 1..Len(h) /\ IsFiniteSet(DOMAIN h)
                    /\ \A i \in DOMAIN h : h[i] \in RevisionType /\ h[i].timestamp \in Int
  OBVIOUS
<1>1. Len(h) \in Nat /\ DOMAIN h = 1..Len(h) /\ \A i \in DOMAIN h : h[i] \in RevisionType
  BY DEF Histories
<1>2. \A r \in RevisionType : r.timestamp \in Int
  BY DEF RevisionType
<1> QED
  BY <1>1, <1>2, FS_Interval

\* Those that stand before an entry when entries are put in the order of time, the
\* entry itself included.
UpTo(h, i) == {j \in DOMAIN h : \/ h[j].timestamp < h[i].timestamp
                                \/ h[j].timestamp = h[i].timestamp /\ j <= i}
Place(h, i) == Cardinality(UpTo(h, i))

\* The place an entry is sorted to is one of the places there are.
LEMMA PlaceType ==
  \A h \in Histories : \A i \in DOMAIN h :
    IsFiniteSet(UpTo(h, i)) /\ i \in UpTo(h, i) /\ Place(h, i) \in DOMAIN h
<1> SUFFICES ASSUME NEW h \in Histories, NEW i \in DOMAIN h
             PROVE  IsFiniteSet(UpTo(h, i)) /\ i \in UpTo(h, i) /\ Place(h, i) \in DOMAIN h
  OBVIOUS
<1>1. Len(h) \in Nat /\ DOMAIN h = 1..Len(h) /\ IsFiniteSet(DOMAIN h) /\ Cardinality(DOMAIN h) = Len(h)
  BY HistoryType, FS_Interval, SMTT(30)
<1>2. UpTo(h, i) \in SUBSET (DOMAIN h) /\ i \in UpTo(h, i)
  BY <1>1, HistoryType DEF UpTo
<1>3. IsFiniteSet(UpTo(h, i)) /\ Cardinality(UpTo(h, i)) <= Len(h)
  BY <1>1, <1>2, FS_Subset
<1>4. Cardinality(UpTo(h, i)) \in Nat /\ Cardinality(UpTo(h, i)) # 0
  BY <1>2, <1>3, FS_CardinalityType, FS_EmptySet
<1> QED
  BY <1>1, <1>2, <1>3, <1>4 DEF Place

\* The places follow the times.
LEMMA PlaceOrder ==
  \A h \in Histories : \A i, j \in DOMAIN h :
    (h[i].timestamp < h[j].timestamp \/ (h[i].timestamp = h[j].timestamp /\ i < j)) =>
      Place(h, i) < Place(h, j)
<1> SUFFICES ASSUME NEW h \in Histories, NEW i \in DOMAIN h, NEW j \in DOMAIN h,
                    h[i].timestamp < h[j].timestamp \/ (h[i].timestamp = h[j].timestamp /\ i < j)
             PROVE  Place(h, i) < Place(h, j)
  OBVIOUS
<1>1. PICK I, J : I = UpTo(h, i) /\ J = UpTo(h, j)
  OBVIOUS
<1>2. \A k \in DOMAIN h : h[k].timestamp \in Int /\ k \in Int
  BY HistoryType
<1>3. I \subseteq J
  BY <1>1, <1>2 DEF UpTo
<1>4. j \in J /\ j \notin I
  BY <1>1, <1>2 DEF UpTo
<1>5. IsFiniteSet(J) /\ IsFiniteSet(I)
  BY <1>1, PlaceType
<1>6. Cardinality(I) <= Cardinality(J) /\ Cardinality(I) # Cardinality(J)
  <2>1. I \in SUBSET J /\ I # J
    BY <1>3, <1>4
  <2> QED
    BY <1>5, <2>1, FS_Subset
<1>7. Cardinality(I) \in Nat /\ Cardinality(J) \in Nat
  BY <1>5, FS_CardinalityType
<1> QED
  BY <1>1, <1>6, <1>7 DEF Place

\* Every place is taken.
LEMMA PlaceTaken ==
  \A h \in Histories : \A k \in DOMAIN h : \E i \in DOMAIN h : Place(h, i) = k
<1> SUFFICES ASSUME NEW h \in Histories, NEW k \in DOMAIN h
             PROVE  \E i \in DOMAIN h : Place(h, i) = k
  OBVIOUS
<1>1. PICK D, f : D = DOMAIN h /\ f = [i \in D |-> Place(h, i)]
  OBVIOUS
<1>2. \A i \in D : f[i] = Place(h, i) /\ f[i] \in D /\ i \in Int /\ h[i].timestamp \in Int
  BY <1>1, PlaceType, HistoryType
<1>3. ASSUME NEW i \in D, NEW j \in D, f[i] = f[j] PROVE i = j
  <2>1. ~(f[i] < f[j]) /\ ~(f[j] < f[i])
    BY <1>1, <1>2, <1>3, HistoryType
  <2> QED
    BY <1>1, <1>2, <2>1, PlaceOrder
<1>4. f \in [D -> D]
  BY <1>1, <1>2
<1>5. f \in Injection(D, D)
  BY <1>3, <1>4 DEF Injection, IsInjective
<1>6. IsFiniteSet(D)
  BY <1>1, HistoryType
<1>7. f \in Surjection(D, D)
  BY <1>5, <1>6, FS_Injection
<1>8. \E i \in D : f[i] = k
  BY <1>1, <1>7 DEF Surjection
<1> QED
  BY <1>1, <1>2, <1>8

\* Sorting gives the same entries, as many, in the order of time.
LEMMA ByTimeSorts ==
  \A h \in Histories :
    /\ ByTime(h) \in Histories /\ Len(ByTime(h)) = Len(h) /\ Sorted(ByTime(h))
    /\ \A at \in Int : Past(h, at) => Past(ByTime(h), at)
<1> SUFFICES ASSUME NEW h \in Histories
             PROVE  /\ ByTime(h) \in Histories /\ Len(ByTime(h)) = Len(h) /\ Sorted(ByTime(h))
                    /\ \A at \in Int : Past(h, at) => Past(ByTime(h), at)
  OBVIOUS
<1>1. PICK from : from = [k \in DOMAIN h |-> CHOOSE i \in DOMAIN h : Place(h, i) = k]
  OBVIOUS
<1>2. \A k \in DOMAIN h : from[k] \in DOMAIN h /\ Place(h, from[k]) = k
  BY <1>1, PlaceTaken
<1>3. PICK s : s = ByTime(h)
  OBVIOUS
<1>4. s = [k \in DOMAIN h |-> h[from[k]]]
  BY <1>1, <1>3 DEF ByTime, Place, UpTo
<1>5. Len(h) \in Nat /\ DOMAIN h = 1..Len(h)
      /\ \A i \in DOMAIN h : h[i] \in RevisionType /\ h[i].timestamp \in Int
  BY HistoryType
<1>6. DOMAIN s = 1..Len(h) /\ \A k \in DOMAIN h : s[k] = h[from[k]] /\ s[k] \in RevisionType
  BY <1>2, <1>4, <1>5
<1>7. s \in Histories /\ Len(s) = Len(h)
  <2>1. s \in [1..Len(h) -> RevisionType]
    BY <1>4, <1>5, <1>6
  <2> QED
    BY <1>5, <2>1 DEF Histories
<1>8. ASSUME NEW i \in DOMAIN s, NEW j \in DOMAIN s, i <= j
      PROVE  s[i].timestamp <= s[j].timestamp
  <2>1. i \in DOMAIN h /\ j \in DOMAIN h /\ i \in Int /\ j \in Int
    BY <1>5, <1>6
  <2>2. ~(Place(h, from[j]) < Place(h, from[i]))
    BY <1>2, <1>8, <2>1
  <2>3. ~(h[from[j]].timestamp < h[from[i]].timestamp)
    BY <1>2, <2>1, <2>2, PlaceOrder
  <2> QED
    BY <1>2, <1>5, <1>6, <2>1, <2>3
<1>9. ASSUME NEW at \in Int, Past(h, at) PROVE Past(s, at)
  BY <1>2, <1>5, <1>6, <1>9 DEF Past
<1> QED
  BY <1>3, <1>7, <1>8, <1>9 DEF Sorted

-----------------------------------------------------------------------------
(* What the student does to a topic.                                       *)

DayStart(date, z) == \E day \in Int : date = startOf(day, z)

TopicType == [history : Histories, plannedAt : Int \cup {None}]
DocType == [topics : [Topics -> TopicType], archived : SUBSET (Topics \cup Above)]

\* A topic whose history is in order and in the past, and one whose plan, if it has
\* one, begins a day.
GoodTopic(v, at) == v \in TopicType /\ Sorted(v.history) /\ Past(v.history, at)
PlanStarts(v, z) == v.plannedAt # None => DayStart(v.plannedAt, z)

\* A topic begins without history and plan.
LEMMA NewTopicIsGood == \A at \in Int : GoodTopic(NewTopic, at)
<1>1. <<>> \in Histories /\ DOMAIN <<>> = {}
  BY DEF Histories
<1> QED
  BY <1>1 DEF GoodTopic, NewTopic, TopicType, Sorted, Past

\* A revision marked now comes last.
LEMMA MarkedIsGood ==
  \A v, at, divisor :
    at \in Int /\ divisor \in {1, 2, 4} /\ GoodTopic(v, at) =>
      GoodTopic(markRevised(v, at, divisor), at)
<1> SUFFICES ASSUME NEW at \in Int, NEW divisor \in {1, 2, 4}, NEW v, GoodTopic(v, at)
             PROVE  GoodTopic(markRevised(v, at, divisor), at)
  OBVIOUS
<1>1. PICK h, r, g : h = v.history /\ r = [timestamp |-> at, divisor |-> divisor] /\ g = Append(h, r)
  OBVIOUS
<1>2. h \in Histories /\ r \in RevisionType /\ Sorted(h) /\ Past(h, at)
  BY <1>1 DEF GoodTopic, TopicType, RevisionType
<1>3. Len(h) \in Nat /\ DOMAIN h = 1..Len(h) /\ \A i \in DOMAIN h : h[i].timestamp \in Int
  BY <1>2, HistoryType
<1>4. g \in Histories /\ DOMAIN g = 1..(Len(h) + 1)
  BY <1>1, <1>2 DEF Histories
<1>5. g[Len(h) + 1] = r /\ \A i \in 1..Len(h) : g[i] = h[i]
  BY <1>1, <1>2 DEF Histories
<1>6. r.timestamp = at
  BY <1>1
<1>7. ASSUME NEW i \in DOMAIN g PROVE g[i].timestamp <= at
  <2>1. CASE i = Len(h) + 1
    BY <1>5, <1>6, <2>1
  <2>2. CASE i # Len(h) + 1
    <3>1. i \in 1..Len(h)
      BY <1>3, <1>4, <2>2
    <3> QED
      BY <1>2, <1>3, <1>5, <3>1 DEF Past
  <2> QED
    BY <2>1, <2>2
<1>8. ASSUME NEW i \in DOMAIN g, NEW j \in DOMAIN g, i <= j
      PROVE  g[i].timestamp <= g[j].timestamp
  <2>1. CASE j = Len(h) + 1
    BY <1>5, <1>6, <1>7, <2>1
  <2>2. CASE j # Len(h) + 1
    <3>1. i \in 1..Len(h) /\ j \in 1..Len(h)
      BY <1>3, <1>4, <1>8, <2>2
    <3> QED
      BY <1>2, <1>3, <1>5, <1>8, <3>1 DEF Sorted
  <2> QED
    BY <2>1, <2>2
<1>9. markRevised(v, at, divisor) = [history |-> g, plannedAt |-> None]
  BY <1>1 DEF markRevised
<1> QED
  BY <1>4, <1>7, <1>8, <1>9 DEF GoodTopic, TopicType, Sorted, Past

\* Deleting a revision leaves the others in order, and the plan alone.
LEMMA DeletedIsGood ==
  \A v, at, i :
    at \in Int /\ GoodTopic(v, at) /\ i \in DOMAIN v.history =>
      GoodTopic(deleteRevision(v, i), at) /\ deleteRevision(v, i).plannedAt = v.plannedAt
<1> SUFFICES ASSUME NEW at \in Int, NEW v, GoodTopic(v, at), NEW i \in DOMAIN v.history
             PROVE  /\ GoodTopic(deleteRevision(v, i), at)
                    /\ deleteRevision(v, i).plannedAt = v.plannedAt
  OBVIOUS
<1>1. PICK h, g : h = v.history /\ g = [j \in 1..(Len(h) - 1) |-> IF j < i THEN h[j] ELSE h[j + 1]]
  OBVIOUS
<1>2. h \in Histories /\ Sorted(h) /\ Past(h, at) /\ v \in TopicType
  BY <1>1 DEF GoodTopic, TopicType
<1>3. /\ Len(h) \in Nat /\ DOMAIN h = 1..Len(h) /\ i \in 1..Len(h)
      /\ \A j \in DOMAIN h : h[j] \in RevisionType /\ h[j].timestamp \in Int
  BY <1>1, <1>2, HistoryType
<1>4. PICK from : from = [j \in 1..(Len(h) - 1) |-> IF j < i THEN j ELSE j + 1]
  OBVIOUS
<1>5. \A j \in 1..(Len(h) - 1) : from[j] \in DOMAIN h /\ from[j] \in Int /\ g[j] = h[from[j]]
  BY <1>1, <1>3, <1>4
<1>6. \A j, k \in 1..(Len(h) - 1) : j <= k => from[j] <= from[k]
  BY <1>3, <1>4
<1>7. g \in Histories /\ DOMAIN g = 1..(Len(h) - 1)
  <2>1. Len(h) - 1 \in Nat /\ g \in [1..(Len(h) - 1) -> RevisionType]
    BY <1>1, <1>3, <1>5
  <2> QED
    BY <2>1 DEF Histories
<1>8. Sorted(g) /\ Past(g, at)
  BY <1>2, <1>5, <1>6, <1>7, ZenonT(30) DEF Sorted, Past
<1>9. deleteRevision(v, i) = [v EXCEPT !.history = g]
  BY <1>1 DEF deleteRevision
<1>10. PICK w : w = deleteRevision(v, i)
  OBVIOUS
<1>11. w.history = g /\ w.plannedAt = v.plannedAt /\ w \in TopicType
  BY <1>2, <1>7, <1>9, <1>10 DEF TopicType
<1> QED
  BY <1>8, <1>10, <1>11 DEF GoodTopic

\* A revision is never moved to the future.
LEMMA ClampedIs ==
  \A ts, at \in Int : Clamped(ts, at) \in Int /\ Clamped(ts, at) <= at
<1> SUFFICES ASSUME NEW ts \in Int, NEW at \in Int
             PROVE  \E x \in {ts, at} : \A y \in {ts, at} : x <= y
  BY DEF Clamped, Min
<1> QED
  OBVIOUS

\* Moving a revision in time puts it where it belongs, and leaves the plan alone.
LEMMA MovedIsGood ==
  \A v, at, i, ts :
    at \in Int /\ ts \in Int /\ GoodTopic(v, at) /\ i \in DOMAIN v.history =>
      /\ GoodTopic(updateRevisionTimestamp(v, i, ts, at), at)
      /\ updateRevisionTimestamp(v, i, ts, at).plannedAt = v.plannedAt
<1> SUFFICES ASSUME NEW at \in Int, NEW ts \in Int, NEW v, GoodTopic(v, at),
                    NEW i \in DOMAIN v.history
             PROVE  /\ GoodTopic(updateRevisionTimestamp(v, i, ts, at), at)
                    /\ updateRevisionTimestamp(v, i, ts, at).plannedAt = v.plannedAt
  OBVIOUS
<1>1. PICK h, c, g, s : /\ h = v.history /\ c = Clamped(ts, at)
                        /\ g = [h EXCEPT ![i].timestamp = c] /\ s = ByTime(g)
  OBVIOUS
<1>2. h \in Histories /\ Past(h, at) /\ v \in TopicType /\ c \in Int /\ c <= at
  BY <1>1, ClampedIs DEF GoodTopic, TopicType
<1>3. /\ Len(h) \in Nat /\ DOMAIN h = 1..Len(h) /\ i \in 1..Len(h)
      /\ \A j \in DOMAIN h : h[j] \in RevisionType /\ h[j].timestamp \in Int
  BY <1>1, <1>2, HistoryType
<1>4. PICK r : r = [h[i] EXCEPT !.timestamp = c]
  OBVIOUS
<1>5. r \in RevisionType /\ r.timestamp = c
  BY <1>2, <1>3, <1>4 DEF RevisionType
<1>6. g = [h EXCEPT ![i] = r]
  BY <1>1, <1>4
<1>7. g \in Histories /\ DOMAIN g = DOMAIN h
  BY <1>2, <1>3, <1>5, <1>6 DEF Histories
<1>8. Past(g, at)
  BY <1>2, <1>3, <1>5, <1>6, <1>7 DEF Past
<1>9. s \in Histories /\ Sorted(s) /\ Past(s, at)
  BY <1>1, <1>7, <1>8, ByTimeSorts
<1>10. updateRevisionTimestamp(v, i, ts, at) = [v EXCEPT !.history = s]
  BY <1>1 DEF updateRevisionTimestamp
<1>11. PICK w : w = updateRevisionTimestamp(v, i, ts, at)
  OBVIOUS
<1>12. w.history = s /\ w.plannedAt = v.plannedAt /\ w \in TopicType
  BY <1>2, <1>9, <1>10, <1>11 DEF TopicType
<1> QED
  BY <1>9, <1>11, <1>12 DEF GoodTopic

\* A plan, given or taken back, does not touch the history.
LEMMA PlannedIsGood ==
  \A v, at, date : GoodTopic(v, at) /\ date \in Int \cup {None} =>
    GoodTopic([v EXCEPT !.plannedAt = date], at) /\ [v EXCEPT !.plannedAt = date].plannedAt = date
<1> SUFFICES ASSUME NEW v, NEW at, NEW date \in Int \cup {None}, GoodTopic(v, at)
             PROVE  /\ GoodTopic([v EXCEPT !.plannedAt = date], at)
                    /\ [v EXCEPT !.plannedAt = date].plannedAt = date
  OBVIOUS
<1>1. PICK w : w = [v EXCEPT !.plannedAt = date]
  OBVIOUS
<1>2. v \in TopicType
  BY DEF GoodTopic
<1>3. w \in TopicType /\ w.plannedAt = date /\ w.history = v.history
  BY <1>1, <1>2 DEF TopicType
<1> QED
  BY <1>1, <1>3 DEF GoodTopic

\* What was in the past stays there.
LEMMA GoodLater ==
  \A v : \A at, later \in Int : GoodTopic(v, at) /\ at <= later => GoodTopic(v, later)
<1> SUFFICES ASSUME NEW v, NEW at \in Int, NEW later \in Int, GoodTopic(v, at), at <= later
             PROVE  GoodTopic(v, later)
  OBVIOUS
<1>1. PICK h : h = v.history
  OBVIOUS
<1>2. h \in Histories /\ Past(h, at)
  BY <1>1 DEF GoodTopic, TopicType
<1>3. Past(h, later)
  BY <1>2, HistoryType DEF Past
<1> QED
  BY <1>1, <1>3 DEF GoodTopic

\* Every date a picker offers is a number, and a plan is the start of its day.
LEMMA StartIsStart ==
  \A date, z \in Int : startOfDay(date, z) \in Int /\ DayStart(startOfDay(date, z), z)
<1> SUFFICES ASSUME NEW date \in Int, NEW z \in Int
             PROVE  startOfDay(date, z) \in Int /\ DayStart(startOfDay(date, z), z)
  OBVIOUS
<1>1. localDay(date, z) \in Int
  BY DayType
<1> QED
  BY <1>1, RevisionAssumption DEF startOfDay, DayStart, startOf

\* What is suggested as the next date is a number, or nothing.
LEMMA SuggestedIsNumber ==
  \A h \in Histories : suggestedNextDate(h) \in Int \cup {None}
<1> SUFFICES ASSUME NEW h \in Histories, h # <<>> PROVE suggestedNextDate(h) \in Int
  BY DEF suggestedNextDate
<1>1. Len(h) \in Nat \ {0} /\ h[Len(h)] \in RevisionType
  BY DEF Histories
<1>2. Last(h).timestamp \in Int /\ Last(h).divisor \in {1, 2, 4}
  BY <1>1 DEF Last, RevisionType
<1>3. nextInterval(Len(h)) \in Nat
  <2>1. Len(LADDER) = 7 /\ \A i \in 1..7 : LADDER[i] \in Nat
    BY DEF LADDER
  <2>2. PICK n \in Nat \ {0} : n = Len(h)
    BY <1>1
  <2>3. CASE n <= 7
    <3>1. nextInterval(n) = LADDER[n] /\ n \in 1..7
      BY <2>1, <2>3 DEF nextInterval
    <3> QED
      BY <2>1, <2>2, <3>1
  <2>4. CASE ~(n <= 7)
    <3>1. nextInterval(n) = LADDER[7]
      BY <2>1, <2>4 DEF nextInterval
    <3> QED
      BY <2>1, <2>2, <3>1
  <2> QED
    BY <2>3, <2>4
<1>4. nextInterval(Len(h)) \div scoreDivisor(Last(h)) \in Int
  BY <1>2, <1>3, DivIs DEF scoreDivisor
<1>5. PICK k \in Int : k = Max({1, nextInterval(Len(h)) \div scoreDivisor(Last(h))})
  <2>1. PICK n \in Int : n = nextInterval(Len(h)) \div scoreDivisor(Last(h))
    BY <1>4
  <2>2. \E x \in {1, n} : \A y \in {1, n} : x >= y
    OBVIOUS
  <2>3. Max({1, n}) \in {1, n}
    BY <2>2 DEF Max
  <2> QED
    BY <2>1, <2>3
<1> QED
  BY <1>2, <1>5, RevisionAssumption DEF suggestedNextDate

-----------------------------------------------------------------------------
(* The invariant: every topic of the student's document is good, the plans *)
(* that the load did not make begin a day, what is stored and what the     *)
(* transactions carry are documents, and the stored statistics are those   *)
(* of the stored document.                                                 *)

TopicsGood == doc \in DocType /\ \A t \in Topics : GoodTopic(doc.topics[t], now)

PlansGood ==
  inherited \subseteq Topics /\ \A t \in Topics \ inherited : PlanStarts(doc.topics[t], zone)

RowsGood ==
  /\ rows = [doc |-> rows.doc, stats |-> rows.stats]
  /\ rows.doc # <<>> => rows.doc = <<rows.doc[1]>> /\ rows.doc[1] \in DocType
  /\ rows.stats # <<>> => rows.doc # <<>>

TxType == [pc : {"idle", "begun", "written", "derived"}, kind : {"put", "recompute"},
           doc : DocType \cup {None}, at : Nat]

TxsGood ==
  /\ txs \in [Txs -> TxType]
  /\ \A x \in Txs : ~Has(x, "idle") =>
       txs[x].doc \in DocType /\ (txs[x].kind = "recompute" => rows.doc # <<>>)

IInv ==
  /\ zone \in Int /\ now \in Nat /\ behind \in BOOLEAN
  /\ TopicsGood /\ PlansGood /\ RowsGood /\ TxsGood
  /\ StatsMatchDocument

\* A new document has only good topics, without plans.
LEMMA NewDocIsGood ==
  NewDoc \in DocType /\ \A t \in Topics : /\ \A at \in Int : GoodTopic(NewDoc.topics[t], at)
                                          /\ NewDoc.topics[t].plannedAt = None
<1>1. NewTopic \in TopicType /\ NewTopic.plannedAt = None
  BY NewTopicIsGood DEF GoodTopic, NewTopic
<1> QED
  BY <1>1, NewTopicIsGood DEF NewDoc, DocType

\* A topic of an old document: without revisions it is new, and with one it has no plan.
OldTopics ==
  {NewTopic} \cup [history : {<<r>> : r \in [timestamp : OldTimes, divisor : Divisors]},
                  plannedAt : {None}]

\* A topic of an old document is good, and loading it plans nothing but what has
\* been revised.
LEMMA OldTopicIsGood ==
  \A v \in OldTopics : \A at \in Int : at >= StartTime =>
    /\ GoodTopic(v, at) /\ v.plannedAt = None
    /\ v.history # <<>> => GoodTopic([v EXCEPT !.plannedAt = suggestedNextDate(v.history)], at)
<1> SUFFICES ASSUME NEW v \in OldTopics, NEW at \in Int, at >= StartTime
             PROVE  /\ GoodTopic(v, at) /\ v.plannedAt = None
                    /\ v.history # <<>> =>
                         GoodTopic([v EXCEPT !.plannedAt = suggestedNextDate(v.history)], at)
  OBVIOUS
<1>1. ASSUME v = NewTopic PROVE GoodTopic(v, at) /\ v.plannedAt = None
  BY <1>1, NewTopicIsGood DEF NewTopic
<1>2. ASSUME v # NewTopic PROVE GoodTopic(v, at) /\ v.plannedAt = None
  <2>1. PICK r \in [timestamp : OldTimes, divisor : Divisors] :
          v = [history |-> <<r>>, plannedAt |-> None]
    BY <1>2 DEF OldTopics
  <2>2. r.timestamp \in OldTimes /\ r.divisor \in Divisors
    BY <2>1
  <2>3. r \in RevisionType /\ r.timestamp \in Int /\ r.timestamp <= at
    <3>1. r.timestamp \in 0..StartTime /\ StartTime \in Nat /\ r.divisor \in {1, 2, 4}
      BY <2>2, StatisticsAssumption
    <3> QED
      BY <2>1, <3>1 DEF RevisionType
  <2>4. PICK h : h = <<r>>
    OBVIOUS
  <2>5. h \in Histories /\ DOMAIN h = {1} /\ h[1] = r
    BY <2>3, <2>4 DEF Histories
  <2>6. Sorted(h) /\ Past(h, at)
    BY <2>3, <2>5 DEF Sorted, Past
  <2>7. v.history = h /\ v.plannedAt = None /\ v \in TopicType
    BY <2>1, <2>4, <2>5 DEF TopicType
  <2> QED
    BY <2>6, <2>7 DEF GoodTopic
<1>3. GoodTopic(v, at) /\ v.plannedAt = None
  BY <1>1, <1>2
<1>4. suggestedNextDate(v.history) \in Int \cup {None}
  BY <1>3, SuggestedIsNumber DEF GoodTopic, TopicType
<1> QED
  BY <1>3, <1>4, PlannedIsGood

\* An old document, and what loading it makes of it.
LEMMA OldDocIsGood ==
  ASSUME NEW old \in OldDocs, NEW at \in Int, at >= StartTime
  PROVE  /\ old \in DocType /\ normalizeData(old) \in DocType
         /\ \A t \in Topics : GoodTopic(normalizeData(old).topics[t], at)
         /\ RevisedIn(old) \subseteq Topics
         /\ \A t \in Topics \ RevisedIn(old) : normalizeData(old).topics[t].plannedAt = None
<1>1. old \in [topics : [Topics -> OldTopics], archived : {{}}]
  BY DEF OldDocs, OldTopics
<1>2. old = [topics |-> old.topics, archived |-> {}]
  BY <1>1
<1>3. \A t \in Topics : old.topics[t] \in OldTopics
  BY <1>1
<1>4. PICK ts : ts = [t \in Topics |->
        IF t \in RevisedIn(old)
        THEN [old.topics[t] EXCEPT !.plannedAt = suggestedNextDate(old.topics[t].history)]
        ELSE old.topics[t]]
  OBVIOUS
<1>5. RevisedIn(old) = {t \in Topics : old.topics[t].history # <<>>}
  BY DEF RevisedIn
<1>6. \A t \in Topics : /\ GoodTopic(old.topics[t], at) /\ GoodTopic(ts[t], at)
                        /\ t \notin RevisedIn(old) => ts[t].plannedAt = None
  BY <1>3, <1>4, <1>5, OldTopicIsGood
<1>7. ts \in [Topics -> TopicType] /\ old.topics \in [Topics -> TopicType]
  <2>1. \A t \in Topics : ts[t] \in TopicType /\ old.topics[t] \in TopicType
    BY <1>6 DEF GoodTopic
  <2>2. old.topics \in [Topics -> OldTopics]
    BY <1>1
  <2>3. old.topics = [t \in Topics |-> old.topics[t]] /\ ts = [t \in Topics |-> ts[t]]
    BY <1>4, <2>2
  <2> QED
    BY <2>1, <2>3
<1>8. PICK d : d = normalizeData(old)
  OBVIOUS
<1>9. d = [topics |-> ts, archived |-> {}]
  <2>1. d = [old EXCEPT !.topics = ts]
    BY <1>4, <1>8 DEF normalizeData
  <2> QED
    BY <1>2, <2>1
<1>10. old \in DocType /\ d \in DocType /\ d.topics = ts
  BY <1>2, <1>7, <1>9 DEF DocType
<1>11. RevisedIn(old) \subseteq Topics
  BY <1>5
<1>12. /\ \A t \in Topics : GoodTopic(d.topics[t], at)
       /\ \A t \in Topics \ RevisedIn(old) : d.topics[t].plannedAt = None
  BY <1>6, <1>10
<1> QED
  BY <1>8, <1>10, <1>11, <1>12

\* The invariant holds initially.
LEMMA InitIInv == Init => IInv
<1> SUFFICES ASSUME Init PROVE IInv
  OBVIOUS
<1>1. /\ zone \in Int /\ now \in Nat /\ now = StartTime /\ behind \in BOOLEAN
      /\ behind = (rows.doc # <<>>)
  BY StatisticsAssumption DEF Init
<1>2. PICK stored0 : /\ TopicsGood /\ PlansGood /\ stored0 \in DocType
                     /\ \/ rows = [doc |-> <<>>, stats |-> <<>>]
                        \/ rows = [doc |-> <<stored0>>, stats |-> <<>>]
  <2>1. CASE doc = NewDoc /\ inherited = {} /\ rows = [doc |-> <<>>, stats |-> <<>>]
    <3>1. TopicsGood
      BY <1>1, <2>1, NewDocIsGood DEF TopicsGood
    <3>2. PlansGood
      BY <2>1, NewDocIsGood DEF PlansGood, PlanStarts
    <3> QED
      BY <2>1, <3>1, <3>2, NewDocIsGood
  <2>2. CASE \E old \in OldDocs : /\ doc = normalizeData(old) /\ inherited = RevisedIn(old)
                                  /\ rows = [doc |-> <<old>>, stats |-> <<>>]
    <3>1. PICK old \in OldDocs : /\ doc = normalizeData(old) /\ inherited = RevisedIn(old)
                                 /\ rows = [doc |-> <<old>>, stats |-> <<>>]
      BY <2>2
    <3>2. now \in Int /\ now >= StartTime
      BY <1>1
    <3>3. /\ old \in DocType /\ doc \in DocType /\ \A t \in Topics : GoodTopic(doc.topics[t], now)
          /\ inherited \subseteq Topics /\ \A t \in Topics \ inherited : doc.topics[t].plannedAt = None
      BY <3>1, <3>2, OldDocIsGood
    <3> QED
      BY <3>1, <3>3 DEF TopicsGood, PlansGood, PlanStarts
  <2> QED
    BY <2>1, <2>2 DEF Init
<1>3. PICK d : d = stored0
  OBVIOUS
<1>4. d \in DocType
  BY <1>2, <1>3
<1>5. /\ rows = [doc |-> <<>>, stats |-> <<>>] \/ rows = [doc |-> <<d>>, stats |-> <<>>]
      /\ behind = (rows.doc # <<>>)
  BY <1>1, <1>2, <1>3
<1>6. RowsGood
  BY <1>4, <1>5 DEF RowsGood
<1>7. TxsGood
  <2>1. NoTx \in TxType /\ NoTx.pc = "idle"
    BY DEF NoTx, TxType
  <2> QED
    BY <2>1 DEF Init, TxsGood, Has
<1>8. StatsMatchDocument
  <2>1. rows.stats = <<>>
    BY <1>5
  <2>2. ~behind => rows.doc = <<>>
    BY Zenon, <1>5
  <2> QED
    BY <2>1, <2>2 DEF StatsMatchDocument
<1> QED
  BY <1>1, <1>2, <1>6, <1>7, <1>8 DEF IInv

\* A step that leaves the service's state alone.
LEMMA ServiceKept ==
  ASSUME RowsGood, TxsGood, StatsMatchDocument, UNCHANGED <<rows, txs, behind>>
  PROVE  RowsGood' /\ TxsGood' /\ StatsMatchDocument'
<1>1. RowsGood'
  BY DEF RowsGood
<1>2. TxsGood'
  BY DEF TxsGood, Has
<1>3. StatsMatchDocument'
  BY DEF StatsMatchDocument
<1> QED
  BY <1>1, <1>2, <1>3

\* An edit that leaves good topics, and plans either as they were or for the start
\* of a day.
LEMMA EditKeeps ==
  ASSUME IInv, NEW d, Edit(d), d \in DocType,
         \A t \in Topics : /\ GoodTopic(d.topics[t], now)
                           /\ \/ d.topics[t].plannedAt = doc.topics[t].plannedAt
                              \/ PlanStarts(d.topics[t], zone)
  PROVE  IInv'
<1>1. /\ doc' = d /\ zone' = zone /\ now' = now /\ rows' = rows /\ txs' = txs /\ behind' = behind
      /\ inherited' = {t \in inherited : d.topics[t].plannedAt = doc.topics[t].plannedAt}
  BY DEF Edit
<1>2. TopicsGood' /\ PlansGood'
  <2>1. TopicsGood'
    BY <1>1 DEF TopicsGood
  <2>2. inherited \subseteq Topics /\ \A t \in Topics \ inherited : PlanStarts(doc.topics[t], zone)
    BY DEF IInv, PlansGood
  <2>3. inherited' \subseteq Topics /\ \A t \in Topics \ inherited' : PlanStarts(d.topics[t], zone)
    BY <1>1, <2>2 DEF PlanStarts
  <2> QED
    BY <1>1, <2>1, <2>3 DEF PlansGood
<1>3. RowsGood' /\ TxsGood' /\ StatsMatchDocument'
  BY <1>1, ServiceKept DEF IInv
<1> QED
  BY <1>1, <1>2, <1>3 DEF IInv

\* An edit of one topic keeps the invariant when the topic is left good.
LEMMA SetTopicKeeps ==
  ASSUME IInv, NEW t \in Topics, NEW v, SetTopic(t, v), GoodTopic(v, now),
         v.plannedAt = doc.topics[t].plannedAt \/ PlanStarts(v, zone)
  PROVE  IInv'
<1>1. PICK d : d = [doc EXCEPT !.topics[t] = v]
  OBVIOUS
<1>2. doc \in DocType /\ v \in TopicType
  BY DEF IInv, TopicsGood, GoodTopic
<1>3. /\ d \in DocType /\ d.topics[t] = v
      /\ \A u \in Topics : u # t => d.topics[u] = doc.topics[u]
  <2>1. PICK ts : ts = [doc.topics EXCEPT ![t] = v]
    OBVIOUS
  <2>2. d = [doc EXCEPT !.topics = ts]
    BY <1>1, <2>1
  <2>3. doc.topics \in [Topics -> TopicType] /\ ts \in [Topics -> TopicType]
    BY <1>2, <2>1 DEF DocType
  <2>4. d \in DocType /\ d.topics = ts
    BY <1>2, <2>2, <2>3 DEF DocType
  <2> QED
    BY <2>1, <2>3, <2>4
<1>4. \A u \in Topics : /\ GoodTopic(d.topics[u], now)
                        /\ \/ d.topics[u].plannedAt = doc.topics[u].plannedAt
                           \/ PlanStarts(d.topics[u], zone)
  BY <1>3 DEF IInv, TopicsGood
<1>5. Edit(d)
  BY <1>1 DEF SetTopic
<1> QED
  BY <1>3, <1>4, <1>5, EditKeeps

\* A student's step at one topic keeps the invariant.
LEMMA StudentKeeps ==
  ASSUME IInv, NEW t \in Topics, StudentStep(t) PROVE IInv'
<1>1. PICK v : v = doc.topics[t]
  OBVIOUS
<1>2. /\ GoodTopic(v, now) /\ now \in Int /\ zone \in Int
      /\ v \in TopicType /\ v.history \in Histories /\ History(t) = v.history
  BY <1>1 DEF IInv, TopicsGood, GoodTopic, TopicType, History
<1>3. CASE \E divisor \in Divisors : Revise(t, divisor)
  <2>1. PICK divisor \in {1, 2, 4} : SetTopic(t, markRevised(v, now, divisor))
    BY <1>1, <1>3, StatisticsAssumption DEF Revise
  <2>2. PICK w : w = markRevised(v, now, divisor)
    OBVIOUS
  <2>3. GoodTopic(w, now) /\ w.plannedAt = None
    BY <1>2, <2>2, MarkedIsGood DEF markRevised
  <2>4. SetTopic(t, w) /\ PlanStarts(w, zone)
    BY <2>1, <2>2, <2>3 DEF PlanStarts
  <2> QED
    BY <2>3, <2>4, SetTopicKeeps
<1>4. CASE DeleteRevision(t)
  <2>1. PICK i \in DOMAIN v.history : SetTopic(t, deleteRevision(v, i))
    BY <1>1, <1>2, <1>4 DEF DeleteRevision
  <2>2. PICK w : w = deleteRevision(v, i)
    OBVIOUS
  <2>3. GoodTopic(w, now) /\ w.plannedAt = doc.topics[t].plannedAt
    BY <1>1, <1>2, <2>2, DeletedIsGood
  <2>4. SetTopic(t, w)
    BY <2>1, <2>2
  <2> QED
    BY <2>3, <2>4, SetTopicKeeps
<1>5. CASE EditRevision(t)
  <2>1. PICK i \in DOMAIN v.history, ts \in 0..MaxTime :
          SetTopic(t, updateRevisionTimestamp(v, i, ts, now))
    BY <1>1, <1>2, <1>5 DEF EditRevision
  <2>2. ts \in Int
    OBVIOUS
  <2>3. PICK w : w = updateRevisionTimestamp(v, i, ts, now)
    OBVIOUS
  <2>4. GoodTopic(w, now) /\ w.plannedAt = doc.topics[t].plannedAt
    BY <1>1, <1>2, <2>2, <2>3, MovedIsGood
  <2>5. SetTopic(t, w)
    BY <2>1, <2>3
  <2> QED
    BY <2>4, <2>5, SetTopicKeeps
<1>6. CASE PlanTopic(t)
  <2>1. PICK date \in Offered(t) : SetTopic(t, [v EXCEPT !.plannedAt = PlannedFor(date)])
    BY <1>1, <1>6 DEF PlanTopic
  <2>2. date \in Int
    <3>1. CASE date \in {startOf(day, zone) : day \in 0..(MaxTime \div Day + 1)}
      <4>1. PICK day \in 0..(MaxTime \div Day + 1) : date = startOf(day, zone)
        BY <3>1
      <4>2. day \in Int
        OBVIOUS
      <4> QED
        BY <1>2, <4>1, <4>2, RevisionAssumption DEF startOf
    <3>2. CASE date \in {suggestedNextDate(History(t))} \ {None}
      BY <1>2, <3>2, SuggestedIsNumber
    <3> QED
      BY <2>1, <3>1, <3>2 DEF Offered
  <2>3. PICK start \in Int : start = PlannedFor(date) /\ DayStart(start, zone)
    BY <1>2, <2>2, StartIsStart DEF PlannedFor
  <2>4. PICK w : w = [v EXCEPT !.plannedAt = start]
    OBVIOUS
  <2>5. GoodTopic(w, now) /\ w.plannedAt = start
    BY <1>2, <2>4, PlannedIsGood
  <2>6. SetTopic(t, w) /\ PlanStarts(w, zone)
    BY <2>1, <2>3, <2>4, <2>5 DEF PlanStarts
  <2> QED
    BY <2>5, <2>6, SetTopicKeeps
<1>7. CASE ClearPlan(t)
  <2>1. SetTopic(t, [v EXCEPT !.plannedAt = None])
    BY <1>1, <1>7 DEF ClearPlan
  <2>2. PICK w : w = [v EXCEPT !.plannedAt = None]
    OBVIOUS
  <2>3. GoodTopic(w, now) /\ w.plannedAt = None
    BY <1>2, <2>2, PlannedIsGood
  <2>4. SetTopic(t, w) /\ PlanStarts(w, zone)
    BY <2>1, <2>2, <2>3 DEF PlanStarts
  <2> QED
    BY <2>3, <2>4, SetTopicKeeps
<1> QED
  BY <1>3, <1>4, <1>5, <1>6, <1>7 DEF StudentStep

\* Planning several topics at once keeps it.
LEMMA PlanTopicsKeeps ==
  ASSUME IInv, PlanTopics PROVE IInv'
<1>1. PICK ts \in SUBSET PlanRows(doc), day \in 0..(MaxTime \div Day + 1) :
        Edit([doc EXCEPT !.topics = [t \in Topics |->
          IF t \in ts THEN [doc.topics[t] EXCEPT !.plannedAt = PlannedFor(startOf(day, zone))]
          ELSE doc.topics[t]]])
  BY DEF PlanTopics
<1>2. zone \in Int /\ day \in Int /\ doc \in DocType /\ \A t \in Topics : GoodTopic(doc.topics[t], now)
  BY DEF IInv, TopicsGood
<1>3. PICK start \in Int : start = PlannedFor(startOf(day, zone)) /\ DayStart(start, zone)
  <2>1. startOf(day, zone) \in Int
    BY <1>2, RevisionAssumption DEF startOf
  <2> QED
    BY <1>2, <2>1, StartIsStart DEF PlannedFor
<1>4. PICK planned : planned = [t \in Topics |-> [doc.topics[t] EXCEPT !.plannedAt = start]]
  OBVIOUS
<1>5. \A t \in Topics : GoodTopic(planned[t], now) /\ planned[t].plannedAt = start
  BY <1>2, <1>3, <1>4, PlannedIsGood
<1>6. PICK topics : topics = [t \in Topics |-> IF t \in ts THEN planned[t] ELSE doc.topics[t]]
  OBVIOUS
<1>7. \A t \in Topics : /\ GoodTopic(topics[t], now)
                        /\ \/ topics[t].plannedAt = doc.topics[t].plannedAt
                           \/ PlanStarts(topics[t], zone)
  BY <1>2, <1>3, <1>5, <1>6 DEF PlanStarts
<1>8. topics \in [Topics -> TopicType]
  BY <1>6, <1>7 DEF GoodTopic
<1>9. PICK d : d = [doc EXCEPT !.topics = topics]
  OBVIOUS
<1>10. d \in DocType /\ d.topics = topics
  BY <1>2, <1>8, <1>9 DEF DocType
<1>11. Edit(d)
  <2>1. topics = [t \in Topics |->
          IF t \in ts THEN [doc.topics[t] EXCEPT !.plannedAt = PlannedFor(startOf(day, zone))]
          ELSE doc.topics[t]]
    BY <1>3, <1>4, <1>6
  <2> QED
    BY <1>1, <1>9, <2>1
<1> QED
  BY <1>7, <1>10, <1>11, EditKeeps

\* Archiving and restoring keep it.
LEMMA ArchiveKeeps ==
  ASSUME IInv, NEW u \in Topics \cup Above, ArchiveOrRestore(u) PROVE IInv'
<1>1. PICK d, a : /\ Edit(d) /\ d = [doc EXCEPT !.archived = a]
                  /\ a = IF u \in doc.archived THEN doc.archived \ {u} ELSE doc.archived \cup {u}
  BY DEF ArchiveOrRestore
<1>2. doc \in DocType /\ \A t \in Topics : GoodTopic(doc.topics[t], now)
  BY DEF IInv, TopicsGood
<1>3. a \in SUBSET (Topics \cup Above)
  BY <1>1, <1>2 DEF DocType
<1>4. d \in DocType /\ d.topics = doc.topics
  BY <1>1, <1>2, <1>3 DEF DocType
<1> QED
  BY <1>1, <1>2, <1>4, EditKeeps

\* The passing of time keeps it.
LEMMA TickKeeps ==
  ASSUME IInv, Tick PROVE IInv'
<1>1. /\ now' = now + 1 /\ UNCHANGED <<doc, zone, inherited, rows, txs, behind>>
      /\ zone \in Int /\ now \in Nat
  BY DEF Tick, IInv
<1>2. TopicsGood' /\ PlansGood'
  <2>1. now \in Int /\ now' \in Int /\ now <= now'
    BY <1>1
  <2>2. \A t \in Topics : GoodTopic(doc.topics[t], now)
    BY DEF IInv, TopicsGood
  <2>3. \A t \in Topics : GoodTopic(doc.topics[t], now')
    BY <2>1, <2>2, GoodLater
  <2>4. PlansGood'
    BY <1>1 DEF IInv, PlansGood
  <2> QED
    BY <1>1, <2>3, <2>4 DEF IInv, TopicsGood
<1>3. RowsGood' /\ TxsGood' /\ StatsMatchDocument'
  BY <1>1, ServiceKept DEF IInv
<1> QED
  BY <1>1, <1>2, <1>3 DEF IInv

\* The transactions: what a step that leaves the student alone has to keep.
LEMMA StudentKept ==
  ASSUME IInv, UNCHANGED <<doc, zone, inherited, now>>
  PROVE  zone' \in Int /\ now' \in Nat /\ TopicsGood' /\ PlansGood'
<1>1. TopicsGood'
  BY DEF IInv, TopicsGood
<1>2. PlansGood'
  BY DEF IInv, PlansGood
<1> QED
  BY <1>1, <1>2 DEF IInv

\* What is said of the committed rows stays true while they stay.
LEMMA RowsKept ==
  ASSUME IInv, UNCHANGED <<rows, behind>>
  PROVE  behind' \in BOOLEAN /\ RowsGood' /\ StatsMatchDocument'
<1>1. RowsGood'
  BY DEF IInv, RowsGood
<1>2. StatsMatchDocument'
  BY DEF IInv, StatsMatchDocument
<1> QED
  BY <1>1, <1>2 DEF IInv

\* The begin of a transaction keeps the invariant.
LEMMA BeginKeeps ==
  ASSUME IInv, NEW x \in Txs, NEW pc \in {"begun", "written"}, NEW kind \in {"put", "recompute"},
         NEW d \in DocType, kind = "recompute" => rows.doc # <<>>, Begin(x, pc, kind, d)
  PROVE  IInv'
<1>1. PICK tx : tx = [pc |-> pc, kind |-> kind, doc |-> d, at |-> now]
  OBVIOUS
<1>2. txs' = [txs EXCEPT ![x] = tx] /\ UNCHANGED <<doc, zone, inherited, now, rows, behind>>
  BY <1>1 DEF Begin
<1>3. tx \in TxType /\ tx.doc = d /\ tx.kind = kind
  BY <1>1 DEF IInv, TxType
<1>4. txs' \in [Txs -> TxType] /\ txs'[x] = tx /\ \A y \in Txs : y # x => txs'[y] = txs[y]
  BY <1>2, <1>3 DEF IInv, TxsGood
<1>5. TxsGood'
  <2>1. ASSUME NEW y \in Txs, txs'[y].pc # "idle"
        PROVE  txs'[y].doc \in DocType /\ (txs'[y].kind = "recompute" => rows.doc # <<>>)
    <3>1. CASE y = x
      BY <1>3, <1>4, <3>1
    <3>2. CASE y # x
      BY <1>4, <2>1, <3>2 DEF IInv, TxsGood, Has
    <3> QED
      BY <3>1, <3>2
  <2> QED
    BY <1>2, <1>4, <2>1 DEF TxsGood, Has
<1> QED
  BY <1>2, <1>5, StudentKept, RowsKept DEF IInv

\* A transaction takes its next step.
LEMMA NextPcKeeps ==
  ASSUME IInv, NEW x \in Txs, NEW pc \in {"written", "derived"}, ~Has(x, "idle"),
         txs' = [txs EXCEPT ![x].pc = pc], UNCHANGED <<doc, zone, inherited, now, rows, behind>>
  PROVE  IInv'
<1>1. PICK tx : tx = [txs[x] EXCEPT !.pc = pc]
  OBVIOUS
<1>2. txs' = [txs EXCEPT ![x] = tx]
  BY <1>1
<1>3. txs[x] \in TxType
  BY DEF IInv, TxsGood
<1>4. tx \in TxType /\ tx.doc = txs[x].doc /\ tx.kind = txs[x].kind
  BY <1>1, <1>3 DEF TxType
<1>5. txs' \in [Txs -> TxType] /\ txs'[x] = tx /\ \A y \in Txs : y # x => txs'[y] = txs[y]
  BY <1>2, <1>4 DEF IInv, TxsGood
<1>6. TxsGood'
  <2>1. ASSUME NEW y \in Txs, txs'[y].pc # "idle"
        PROVE  txs'[y].doc \in DocType /\ (txs'[y].kind = "recompute" => rows.doc # <<>>)
    <3>1. txs[y].pc # "idle" /\ txs'[y].doc = txs[y].doc /\ txs'[y].kind = txs[y].kind
      BY <1>4, <1>5, <2>1 DEF Has
    <3> QED
      BY <3>1 DEF IInv, TxsGood, Has
  <2> QED
    BY <1>5, <2>1 DEF TxsGood, Has
<1> QED
  BY <1>6, StudentKept, RowsKept DEF IInv

\* A transaction that ends, and one that takes others with it, leave the others
\* as they were.
LEMMA CommitKeeps ==
  ASSUME IInv, NEW x \in Txs, Commit(x) PROVE IInv'
<1>1. PICK tx, s, d, D : /\ tx = txs[x] /\ d = tx.doc /\ D = DocOf(x)
                         /\ s = deriveStats(d, tx.at)
  OBVIOUS
<1>2. /\ tx.pc = "derived" /\ rows' = [doc |-> D, stats |-> <<s>>] /\ behind' = (<<d>> # D)
      /\ txs' = [txs EXCEPT ![x] = NoTx] /\ UNCHANGED <<doc, zone, inherited, now>>
  BY <1>1 DEF Commit, Has
<1>3. tx \in TxType /\ d \in DocType /\ (tx.kind = "recompute" => rows.doc # <<>>)
  BY <1>1, <1>2 DEF IInv, TxsGood, Has
<1>4. PICK e \in DocType : D = <<e>>
  <2>1. CASE tx.kind = "put"
    BY <1>1, <1>3, <2>1 DEF DocOf
  <2>2. CASE tx.kind # "put"
    <3>1. D = rows.doc /\ rows.doc # <<>>
      BY <1>1, <1>3, <2>2 DEF DocOf, TxType
    <3> QED
      BY <3>1 DEF IInv, RowsGood
  <2> QED
    BY <2>1, <2>2
<1>5. rows'.doc = <<e>> /\ rows'.doc[1] = e /\ rows'.stats = <<s>> /\ rows'.stats[1] = s
      /\ rows'.doc # <<>> /\ rows'.stats # <<>>
  BY <1>2, <1>4
<1>6. RowsGood'
  BY <1>2, <1>4, <1>5 DEF RowsGood
<1>7. StatsMatchDocument'
  <2>1. s.at = tx.at
    BY <1>1 DEF deriveStats
  <2>2. ~behind' => d = e
    <3>1. <<d>> = <<e>> => d = e
      OBVIOUS
    <3> QED
      BY <1>2, <1>4, <3>1
  <2>3. ~behind' => s = deriveStats(e, s.at)
    BY <1>1, <2>1, <2>2
  <2>4. rows'.stats # <<>> /\ ~behind' => rows'.stats[1] = deriveStats(rows'.doc[1], rows'.stats[1].at)
    BY <1>5, <2>3
  <2> QED
    BY <1>5, <2>4 DEF StatsMatchDocument
<1>8. TxsGood'
  <2>1. NoTx \in TxType /\ NoTx.pc = "idle"
    BY DEF NoTx, TxType
  <2>2. txs' \in [Txs -> TxType] /\ txs'[x] = NoTx /\ \A y \in Txs : y # x => txs'[y] = txs[y]
    BY <1>2, <2>1 DEF IInv, TxsGood
  <2>3. \A y \in Txs : txs'[y].pc # "idle" =>
          txs'[y].doc \in DocType /\ (txs'[y].kind = "recompute" => rows'.doc # <<>>)
    BY <1>5, <2>1, <2>2 DEF IInv, TxsGood, Has
  <2> QED
    BY <2>2, <2>3 DEF TxsGood, Has
<1>9. behind' \in BOOLEAN
  BY <1>2
<1> QED
  BY <1>2, <1>6, <1>7, <1>8, <1>9, StudentKept DEF IInv

\* A failure keeps it, however many transactions it ends.
LEMMA FailKeeps ==
  ASSUME IInv, NEW x \in Txs, Fail(x) PROVE IInv'
<1>1. /\ txs' = [y \in Txs |-> IF y = x \/ (txs[x].kind = "put" /\ txs[y].kind = "put")
                               THEN NoTx ELSE txs[y]]
      /\ UNCHANGED <<doc, zone, inherited, now, rows, behind>>
  BY DEF Fail
<1>2. NoTx \in TxType /\ NoTx.pc = "idle"
  BY DEF NoTx, TxType
<1>3. \A y \in Txs : txs'[y] = NoTx \/ txs'[y] = txs[y]
  BY <1>1
<1>4. TxsGood'
  <2>1. txs' \in [Txs -> TxType]
    BY <1>1, <1>2, <1>3 DEF IInv, TxsGood
  <2>2. \A y \in Txs : txs'[y].pc # "idle" =>
          txs'[y].doc \in DocType /\ (txs'[y].kind = "recompute" => rows'.doc # <<>>)
    BY <1>1, <1>2, <1>3 DEF IInv, TxsGood, Has
  <2> QED
    BY <2>1, <2>2 DEF TxsGood, Has
<1> QED
  BY <1>1, <1>4, StudentKept, RowsKept DEF IInv

\* Every step of a transaction keeps it.
LEMMA TxKeeps ==
  ASSUME IInv, NEW x \in Txs, TxStep(x) PROVE IInv'
<1>1. CASE Put(x)
  <2>1. doc \in DocType
    BY DEF IInv, TopicsGood
  <2> QED
    BY <1>1, <2>1, BeginKeeps DEF Put
<1>2. CASE Recompute(x)
  <2>1. rows.doc # <<>> /\ rows.doc[1] \in DocType
    BY <1>2 DEF Recompute, IInv, RowsGood
  <2> QED
    BY <1>2, <2>1, BeginKeeps DEF Recompute
<1>3. CASE WriteDoc(x)
  BY <1>3, NextPcKeeps DEF WriteDoc, Has
<1>4. CASE WriteStats(x)
  BY <1>4, NextPcKeeps DEF WriteStats, Has
<1>5. CASE Commit(x)
  BY <1>5, CommitKeeps
<1>6. CASE Fail(x)
  BY <1>6, FailKeeps
<1> QED
  BY <1>1, <1>2, <1>3, <1>4, <1>5, <1>6 DEF TxStep

\* The invariant is inductive.
LEMMA NextIInv == IInv /\ [Next]_vars => IInv'
<1> SUFFICES ASSUME IInv, [Next]_vars PROVE IInv'
  OBVIOUS
<1>1. CASE \E t \in Topics : StudentStep(t)
  BY <1>1, StudentKeeps
<1>2. CASE PlanTopics
  BY <1>2, PlanTopicsKeeps
<1>3. CASE \E u \in Topics \cup Above : ArchiveOrRestore(u)
  BY <1>3, ArchiveKeeps
<1>4. CASE Tick
  BY <1>4, TickKeeps
<1>5. CASE \E x \in Txs : TxStep(x)
  BY <1>5, TxKeeps
<1>6. CASE UNCHANGED vars
  <2>1. TxsGood'
    BY <1>6 DEF vars, IInv, TxsGood, Has
  <2> QED
    BY <1>6, <2>1, StudentKept, RowsKept DEF vars, IInv
<1> QED
  BY <1>1, <1>2, <1>3, <1>4, <1>5, <1>6 DEF Next

\* The invariant holds in every reachable state.
LEMMA AlwaysIInv == Spec => []IInv
<1> QED
  BY InitIInv, NextIInv, PTL DEF Spec

\* However revisions are added, deleted and moved, a topic's history is in the
\* order of time and none of it lies in the future (lib/revision/engine.ts:31-60).
LEMMA IInvHistoryOrdered == IInv => HistoryOrdered
<1> SUFFICES ASSUME IInv, NEW t \in Topics
             PROVE  /\ \A i \in 1..(Len(History(t)) - 1) :
                         History(t)[i].timestamp <= History(t)[i + 1].timestamp
                    /\ \A i \in DOMAIN History(t) : History(t)[i].timestamp <= now
  BY DEF HistoryOrdered
<1>1. PICK h : h = History(t)
  OBVIOUS
<1>2. h \in Histories /\ Sorted(h) /\ Past(h, now)
  BY <1>1 DEF IInv, TopicsGood, GoodTopic, TopicType, History
<1>3. Len(h) \in Nat /\ DOMAIN h = 1..Len(h)
  BY <1>2, HistoryType
<1>4. \A i \in 1..(Len(h) - 1) : i \in DOMAIN h /\ i + 1 \in DOMAIN h /\ i <= i + 1
  BY <1>3
<1> QED
  BY <1>1, <1>2, <1>4 DEF Sorted, Past

\* However revisions are added, deleted and moved, to the past or to the future, a
\* topic's history is in the order of time and none of it lies in the future
\* (lib/revision/engine.ts:32-60).
THEOREM HistoriesInOrder == Spec => []HistoryOrdered
<1> QED
  BY AlwaysIInv, IInvHistoryOrdered, PTL

\* The committed statistics are those of the committed document, as of the time of
\* the write, whatever PUTs, recomputations and failures come between the
\* statements of a transaction (appDataStore.ts:13-31, statsStore.ts:6-53).
THEOREM StatisticsMatch == Spec => []StatsMatchDocument
<1>1. IInv => StatsMatchDocument
  BY DEF IInv
<1> QED
  BY AlwaysIInv, <1>1, PTL

-----------------------------------------------------------------------------
(* Badges and plans.                                                       *)

\* The chapters are sets of topics, and finitely many.
LEMMA ChaptersFinite ==
  /\ \A c \in Chapters : c \in SUBSET Topics
  /\ \A d : ChaptersListed(d) \in SUBSET Chapters /\ IsFiniteSet(ChaptersListed(d))
<1>1. Chapters \in SUBSET SUBSET Topics
  BY RevisionAssumption
<1>2. IsFiniteSet(SUBSET Topics)
  BY RevisionAssumption, FS_SUBSET
<1>3. IsFiniteSet(Chapters)
  BY <1>1, <1>2, FS_Subset
<1>4. \A d : ChaptersListed(d) \in SUBSET Chapters
  BY DEF ChaptersListed
<1> QED
  BY <1>1, <1>3, <1>4, FS_Subset

\* A topic is listed under the subject when neither it nor its chapter is archived;
\* and then under that chapter alone.
LEMMA TopicsOfSubjectAre ==
  \A d :
    /\ TopicsOfSubject(d) \in SUBSET Topics
    /\ \A t \in Topics : t \in TopicsOfSubject(d) <=>
         t \notin d.archived /\ \A c \in Chapters : t \in c => c \notin d.archived
    /\ \A t : t \in TopicsOfSubject(d) <=> \E c \in ChaptersListed(d) : t \in TopicsListed(d, c)
    /\ \A c \in ChaptersListed(d) : TopicsListed(d, c) = {t \in TopicsOfSubject(d) : t \in c}
    /\ \A c, e \in ChaptersListed(d) : \A t \in c \cap e : c = e
<1> SUFFICES ASSUME NEW d
             PROVE  /\ TopicsOfSubject(d) \in SUBSET Topics
                    /\ \A t \in Topics : t \in TopicsOfSubject(d) <=>
                         t \notin d.archived /\ \A c \in Chapters : t \in c => c \notin d.archived
                    /\ \A t : t \in TopicsOfSubject(d) <=>
                         \E c \in ChaptersListed(d) : t \in TopicsListed(d, c)
                    /\ \A c \in ChaptersListed(d) :
                         TopicsListed(d, c) = {t \in TopicsOfSubject(d) : t \in c}
                    /\ \A c, e \in ChaptersListed(d) : \A t \in c \cap e : c = e
  OBVIOUS
<1>1. \A t : t \in TopicsOfSubject(d) <=> \E c \in ChaptersListed(d) : t \in TopicsListed(d, c)
  BY DEF TopicsOfSubject
<1>2. /\ \A c : c \in ChaptersListed(d) <=> c \in Chapters /\ c \notin d.archived
      /\ \A c, t : t \in TopicsListed(d, c) <=> t \in c /\ t \notin d.archived
  BY DEF ChaptersListed, TopicsListed
<1>3. /\ \A t \in Topics : \E c \in Chapters : t \in c
      /\ \A c \in Chapters : \A t \in c : t \in Topics
      /\ \A c, e \in Chapters : \A t \in c : t \in e => c = e
  BY RevisionAssumption
<1>4. TopicsOfSubject(d) \in SUBSET Topics
  BY <1>1, <1>2, <1>3
<1>5. ASSUME NEW t \in Topics
      PROVE  t \in TopicsOfSubject(d) <=>
               t \notin d.archived /\ \A c \in Chapters : t \in c => c \notin d.archived
  BY <1>1, <1>2, <1>3
<1>6. ASSUME NEW c \in ChaptersListed(d), NEW t
      PROVE  t \in TopicsListed(d, c) <=> t \in TopicsOfSubject(d) /\ t \in c
  BY <1>1, <1>2
<1>7. \A c, e \in ChaptersListed(d) : \A t \in c \cap e : c = e
  BY <1>2, <1>3
<1> QED
  BY <1>1, <1>4, <1>5, <1>6, <1>7

\* The active topics are finitely many.
LEMMA ActiveFinite ==
  \A d : activeTopics(d) \in SUBSET Topics /\ IsFiniteSet(activeTopics(d))
<1>1. \A d : activeTopics(d) \in SUBSET Topics
  BY TopicsOfSubjectAre DEF activeTopics
<1> QED
  BY <1>1, RevisionAssumption, FS_Subset

\* A set of topics is finite and has a number of elements.
LEMMA TopicsCount == \A S \in SUBSET Topics : IsFiniteSet(S) /\ Cardinality(S) \in Nat
BY RevisionAssumption, FS_Subset, FS_CardinalityType

\* What the badges say of a topic.
Due(v, at, z) == v.plannedAt # None /\ localDay(v.plannedAt, z) = localDay(at, z)
Late(v, at, z) == v.plannedAt # None /\ localDay(v.plannedAt, z) < localDay(at, z)
Ahead(v, at, z) == v.plannedAt # None /\ localDay(v.plannedAt, z) > localDay(at, z)

\* A plan has a day.
LEMMA PlanDayType == \A v \in TopicType : \A z \in Int :
  v.plannedAt # None => v.plannedAt \in Int /\ localDay(v.plannedAt, z) \in Int
BY DayType DEF TopicType

\* The badges of a topic, by its plan and its history.
LEMMA BadgeIs ==
  \A v \in TopicType : \A at, z \in Int :
    /\ (badgeState(v, at, z) = "Overdue") = Late(v, at, z)
    /\ (badgeState(v, at, z) = "DueToday") = Due(v, at, z)
    /\ (badgeState(v, at, z) = "NeverRevised") = (v.plannedAt = None /\ v.history = <<>>)
    /\ (badgeState(v, at, z) = "Unplanned") = (v.plannedAt = None /\ v.history # <<>>)
    /\ inGoodStanding(v, at, z) = Ahead(v, at, z)
<1> SUFFICES ASSUME NEW v \in TopicType, NEW at \in Int, NEW z \in Int
             PROVE  /\ (badgeState(v, at, z) = "Overdue") = Late(v, at, z)
                    /\ (badgeState(v, at, z) = "DueToday") = Due(v, at, z)
                    /\ (badgeState(v, at, z) = "NeverRevised") = (v.plannedAt = None /\ v.history = <<>>)
                    /\ (badgeState(v, at, z) = "Unplanned") = (v.plannedAt = None /\ v.history # <<>>)
                    /\ inGoodStanding(v, at, z) = Ahead(v, at, z)
  OBVIOUS
<1>1. localDay(at, z) \in Int /\ (v.plannedAt # None => localDay(v.plannedAt, z) \in Int)
  BY DayType, PlanDayType
<1>2. PICK b : b = badgeState(v, at, z)
  OBVIOUS
<1>3. CASE v.plannedAt = None
  <2>1. b = IF v.history = <<>> THEN "NeverRevised" ELSE "Unplanned"
    BY <1>2, <1>3 DEF badgeState, nextDueDate
  <2> QED
    BY <1>2, <1>3, <2>1 DEF inGoodStanding, Late, Due, Ahead
<1>4. CASE v.plannedAt # None
  <2>1. PICK diff \in Int : diff = localDay(v.plannedAt, z) - localDay(at, z)
    BY <1>1, <1>4
  <2>2. /\ diff < 0 => b = "Overdue"
        /\ diff = 0 => b = "DueToday"
        /\ diff > 0 => b \in {"RecentlyRevised", "DueTomorrow", "Upcoming"}
    BY <1>2, <1>4, <2>1 DEF badgeState, nextDueDate
  <2>3. /\ Late(v, at, z) = (diff < 0) /\ Due(v, at, z) = (diff = 0) /\ Ahead(v, at, z) = (diff > 0)
    BY <1>1, <1>4, <2>1 DEF Late, Due, Ahead
  <2> QED
    BY <1>2, <1>4, <2>1, <2>2, <2>3 DEF inGoodStanding
<1> QED
  BY <1>3, <1>4

\* The topics with a plan, those with a plan on some days, and the days.
Planned(d) == {t \in activeTopics(d) : d.topics[t].plannedAt # None}
PlannedOn(d, days, z) == {t \in Planned(d) : localDay(d.topics[t].plannedAt, z) \in days}

\* The topics of a document.
LEMMA DocTopics == \A d \in DocType : \A t \in Topics : d.topics[t] \in TopicType
BY DEF DocType

\* The topics due on a day are those planned for it.
LEMMA DueOnIs ==
  \A d, day, z : DueOn(d, day, z) = {t \in Planned(d) : localDay(d.topics[t].plannedAt, z) = day}
BY DEF DueOn, Planned, nextDueDate

\* The plans of some days, counted by the day, are all plans of those days.
LEMMA PlansAddUp ==
  \A d, z, days, f :
    IsFiniteSet(days) /\ DOMAIN f = days /\ (\A day \in days : f[day] = Cardinality(DueOn(d, day, z))) =>
      Total(f) = Cardinality(PlannedOn(d, days, z))
<1> SUFFICES ASSUME NEW d, NEW z, NEW days, NEW f, IsFiniteSet(days), DOMAIN f = days,
                    \A day \in days : f[day] = Cardinality(DueOn(d, day, z))
             PROVE  Total(f) = Cardinality(PlannedOn(d, days, z))
  OBVIOUS
<1>1. PICK A, key : A = Planned(d) /\ key = [t \in A |-> localDay(d.topics[t].plannedAt, z)]
  OBVIOUS
<1>2. A \in SUBSET Topics /\ IsFiniteSet(A)
  BY <1>1, ActiveFinite, TopicsCount DEF Planned
<1>3. \A day \in days : f[day] = Cardinality({a \in A : key[a] = day})
  <2>1. ASSUME NEW day \in days PROVE DueOn(d, day, z) = {a \in A : key[a] = day}
    BY <1>1, DueOnIs
  <2> QED
    BY <2>1
<1>4. Total(f) = Cardinality({a \in A : key[a] \in days})
  BY <1>2, <1>3, TotalCounts
<1>5. {a \in A : key[a] \in days} = PlannedOn(d, days, z)
  BY <1>1 DEF PlannedOn
<1> QED
  BY <1>4, <1>5

\* The days of the stored histogram are finitely many.
LEMMA PlannedDaysFinite ==
  \A d : /\ IsFiniteSet(PlannedDays(d))
         /\ PlannedDays(d) = {localDay(d.topics[t].plannedAt, UTC) : t \in Planned(d)}
<1> SUFFICES ASSUME NEW d
             PROVE  /\ IsFiniteSet(PlannedDays(d))
                    /\ PlannedDays(d) = {localDay(d.topics[t].plannedAt, UTC) : t \in Planned(d)}
  OBVIOUS
<1>1. PlannedDays(d) = {localDay(d.topics[t].plannedAt, UTC) : t \in Planned(d)}
  BY DEF PlannedDays, Planned, nextDueDate
<1>2. PICK f, A : A = Planned(d) /\ f = [t \in A |-> localDay(d.topics[t].plannedAt, UTC)]
  OBVIOUS
<1>3. IsFiniteSet(A) /\ DOMAIN f = A
  BY <1>2, ActiveFinite, TopicsCount DEF Planned
<1>4. IsFiniteSet({f[t] : t \in A})
  BY <1>3, FiniteImage
<1>5. {f[t] : t \in A} = PlannedDays(d)
  BY <1>1, <1>2
<1> QED
  BY <1>1, <1>4, <1>5

\* What dueCounts makes of the histogram of a document: the topics that are due and
\* overdue, by the days of UTC, at the time it is asked for.
DueSet(d, at, z) == {t \in activeTopics(d) : Due(d.topics[t], at, z)}
LateSet(d, at, z) == {t \in activeTopics(d) : Late(d.topics[t], at, z)}

\* The counts of the histogram are the numbers of topics planned for today, and before.
LEMMA DueCountsAre ==
  \A d, s, at : s.due = [day \in PlannedDays(d) |-> Cardinality(DueOn(d, day, UTC))] =>
    /\ dueCounts(s.due, at).dueToday = Cardinality(DueSet(d, at, UTC))
    /\ dueCounts(s.due, at).overdue = Cardinality(LateSet(d, at, UTC))
<1> SUFFICES ASSUME NEW d, NEW at, NEW s,
                    s.due = [day \in PlannedDays(d) |-> Cardinality(DueOn(d, day, UTC))]
             PROVE  /\ dueCounts(s.due, at).dueToday = Cardinality(DueSet(d, at, UTC))
                    /\ dueCounts(s.due, at).overdue = Cardinality(LateSet(d, at, UTC))
  OBVIOUS
<1>1. PICK due, today, days : /\ due = s.due /\ today = localDay(at, UTC) /\ days = PlannedDays(d)
  OBVIOUS
<1>2. /\ DOMAIN due = days /\ IsFiniteSet(days)
      /\ \A day \in days : due[day] = Cardinality(DueOn(d, day, UTC))
  BY <1>1, PlannedDaysFinite
<1>3. ASSUME NEW In \in SUBSET days
      PROVE  Total([day \in In |-> due[day]]) = Cardinality(PlannedOn(d, In, UTC))
  <2>1. PICK f : f = [day \in In |-> due[day]]
    OBVIOUS
  <2>2. IsFiniteSet(In) /\ DOMAIN f = In /\ \A day \in In : f[day] = Cardinality(DueOn(d, day, UTC))
    BY <1>2, <2>1, FS_Subset
  <2> QED
    BY <2>1, <2>2, PlansAddUp
<1>4. PICK Now, Before : Now = {day \in days : day = today} /\ Before = {day \in days : day < today}
  OBVIOUS
<1>5. /\ dueCounts(s.due, at).dueToday = Total([day \in Now |-> due[day]])
      /\ dueCounts(s.due, at).overdue = Total([day \in Before |-> due[day]])
  BY <1>1, <1>2, <1>4 DEF dueCounts
<1>6. PlannedOn(d, Now, UTC) = DueSet(d, at, UTC)
  BY <1>1, <1>4, PlannedDaysFinite DEF PlannedOn, DueSet, Due, Planned
<1>7. PlannedOn(d, Before, UTC) = LateSet(d, at, UTC)
  BY <1>1, <1>4, PlannedDaysFinite DEF PlannedOn, LateSet, Late, Planned
<1> QED
  BY <1>3, <1>4, <1>5, <1>6, <1>7

\* The badges of the queue, as sets of topics.
LEMMA ShownIs ==
  \A d \in DocType : \A at, z \in Int :
    /\ ShownAs(d, {"Overdue"}, at, z) = LateSet(d, at, z)
    /\ ShownAs(d, {"DueToday"}, at, z) = DueSet(d, at, z)
    /\ todayQueue(d, at, z) = LateSet(d, at, z) \cup DueSet(d, at, z)
<1> SUFFICES ASSUME NEW d \in DocType, NEW at \in Int, NEW z \in Int
             PROVE  /\ ShownAs(d, {"Overdue"}, at, z) = LateSet(d, at, z)
                    /\ ShownAs(d, {"DueToday"}, at, z) = DueSet(d, at, z)
                    /\ todayQueue(d, at, z) = LateSet(d, at, z) \cup DueSet(d, at, z)
  OBVIOUS
<1>1. \A t \in activeTopics(d) :
        /\ (badge(d, t, at, z) = "Overdue") = Late(d.topics[t], at, z)
        /\ (badge(d, t, at, z) = "DueToday") = Due(d.topics[t], at, z)
  BY ActiveFinite, DocTopics, BadgeIs DEF badge
<1> QED
  BY <1>1 DEF ShownAs, todayQueue, LateSet, DueSet

\* Days of the student and of UTC, of a plan that begins with the student's day.
LEMMA DaysAtTheEdge ==
  \A date, at, z \in Int : DayStart(date, z) =>
    /\ localDay(date, z) < localDay(at, z) => localDay(date, UTC) < localDay(at, UTC)
    /\ localDay(date, UTC) < localDay(at, UTC) => localDay(date, z) <= localDay(at, z)
    /\ localDay(date, z) <= localDay(at, z) => localDay(date, UTC) <= localDay(at, UTC)
<1> SUFFICES ASSUME NEW date \in Int, NEW at \in Int, NEW z \in Int, DayStart(date, z)
             PROVE  /\ localDay(date, z) < localDay(at, z) => localDay(date, UTC) < localDay(at, UTC)
                    /\ localDay(date, UTC) < localDay(at, UTC) => localDay(date, z) <= localDay(at, z)
                    /\ localDay(date, z) <= localDay(at, z) => localDay(date, UTC) <= localDay(at, UTC)
  OBVIOUS
<1>1. Day \in Nat \ {0}
  BY RevisionAssumption
<1>2. PICK day \in Int : date = day * Day - z
  BY DEF DayStart, startOf
<1>3. PICK m \in Int : m = Day * day /\ date + z = m
  BY <1>1, <1>2
<1>4. localDay(date, z) = day
  <2>1. PICK q \in Int : q = m \div Day /\ Day * q <= m /\ m < Day * q + Day
    BY <1>1, <1>3, DivIs
  <2>2. ~(q < day) /\ ~(day < q)
    <3>1. q < day => Day * q + Day <= m
      BY <1>1, <1>3, TimesStep
    <3>2. day < q => m + Day <= Day * q
      BY <1>1, <1>3, TimesStep
    <3>3. Day * q \in Int
      BY <1>1
    <3> QED
      BY <1>1, <2>1, <3>1, <3>2, <3>3
  <2> QED
    BY <1>3, <2>1, <2>2 DEF localDay
<1>5. PICK L \in Int : L = localDay(at, z) /\ Day * L <= at + z /\ at + z < Day * L + Day
  <2>1. PICK a \in Int : a = at + z
    OBVIOUS
  <2> QED
    BY <1>1, <2>1, DivIs DEF localDay
<1>51. localDay(at, UTC) = at \div Day /\ localDay(date, UTC) = date \div Day
  <2>1. at + 0 = at /\ date + 0 = date
    OBVIOUS
  <2> QED
    BY <2>1 DEF localDay, UTC
<1>6. PICK u \in Int : u = localDay(at, UTC) /\ Day * u <= at /\ at < Day * u + Day
  BY <1>1, <1>51, DivIs
<1>7. PICK e \in Int : e = localDay(date, UTC) /\ Day * e <= date /\ date < Day * e + Day
  BY <1>1, <1>51, DivIs
<1>8. Day * L \in Int /\ Day * u \in Int /\ Day * e \in Int
  BY <1>1
<1>9. ASSUME day < L PROVE e < u
  <2>1. m + Day <= Day * L
    BY <1>1, <1>3, <1>9, TimesStep
  <2>2. ~(u < e) /\ u # e
    <3>1. u < e => Day * u + Day <= Day * e
      BY <1>1, TimesStep
    <3> QED
      BY <1>1, <1>3, <1>5, <1>6, <1>7, <1>8, <2>1, <3>1
  <2> QED
    BY <2>2
<1>10. ASSUME e < u PROVE day <= L
  <2>1. Day * e + Day <= Day * u
    BY <1>1, <1>10, TimesStep
  <2>2. L < day => Day * L + Day <= m
    BY <1>1, <1>3, TimesStep
  <2> QED
    BY <1>1, <1>3, <1>5, <1>6, <1>7, <1>8, <2>1, <2>2
<1>11. ASSUME day <= L PROVE e <= u
  <2>1. date <= at
    <3>1. m <= Day * L
      BY <1>1, <1>3, <1>11
    <3> QED
      BY <1>3, <1>5, <1>8, <3>1
  <2> QED
    BY <1>6, <1>7, <2>1, DayMonotone DEF UTC
<1> QED
  BY <1>4, <1>5, <1>6, <1>7, <1>9, <1>10, <1>11

\* Of any other plan: what is overdue by the days of one zone is not ahead by those
\* of another.
LEMMA DaysOfTwoZones ==
  \A date, at, y, z \in Int :
    localDay(date, y) < localDay(at, y) => localDay(date, z) <= localDay(at, z)
<1> SUFFICES ASSUME NEW date \in Int, NEW at \in Int, NEW y \in Int, NEW z \in Int,
                    localDay(date, y) < localDay(at, y)
             PROVE  date <= at
  BY DayMonotone
<1>1. PICK a \in Int, b \in Int : a = localDay(date, y) /\ b = localDay(at, y)
  BY DayType
<1>2. ~(at <= date)
  <2>1. at <= date => b <= a
    BY <1>1, DayMonotone
  <2> QED
    BY <1>1, <2>1
<1> QED
  BY <1>2

\* Once the student's document is stored, a coach and the student disagree at most
\* about topics due today: what is overdue for the student is due or overdue for the
\* coach, what is overdue for the coach is in the student's queue, and of the plans
\* the student has chosen, what is overdue for the student is so for the coach and all
\* of the queue is due or overdue for the coach, in every zone (stats.ts:1-16, 66-75,
\* cohort.ts:76-82).
LEMMA IInvCoachSees == IInv => CoachSeesTheQueue
<1> SUFFICES ASSUME IInv, rows.stats # <<>>, ~behind, rows.doc = <<doc>>
             PROVE  LET coach == dueCounts(rows.stats[1].due, now)
                        queue == todayQueue(doc, now, zone)
                        overdue == ShownAs(doc, {"Overdue"}, now, zone)
                    IN  /\ Cardinality(overdue) <= coach.dueToday + coach.overdue
                        /\ coach.overdue <= Cardinality(queue)
                        /\ Cardinality(overdue \ inherited) <= coach.overdue
                        /\ Cardinality(queue \ inherited) <= coach.dueToday + coach.overdue
  BY DEF CoachSeesTheQueue
<1>1. /\ doc \in DocType /\ now \in Int /\ zone \in Int
      /\ \A t \in Topics \ inherited : PlanStarts(doc.topics[t], zone)
  BY DEF IInv, TopicsGood, PlansGood
<1>2. PICK s : s = rows.stats[1]
  OBVIOUS
<1>3. s.due = [day \in PlannedDays(doc) |-> Cardinality(DueOn(doc, day, UTC))]
  <2>1. rows.doc[1] = doc
    OBVIOUS
  <2>2. s = deriveStats(doc, s.at)
    BY <1>2, <2>1 DEF IInv, StatsMatchDocument
  <2>3. PICK at : at = s.at
    OBVIOUS
  <2> QED
    BY <2>2, <2>3 DEF deriveStats
<1>4. PICK L, D, CL, CD : /\ L = LateSet(doc, now, zone) /\ D = DueSet(doc, now, zone)
                          /\ CL = LateSet(doc, now, UTC) /\ CD = DueSet(doc, now, UTC)
  OBVIOUS
<1>5. /\ dueCounts(s.due, now).dueToday = Cardinality(CD)
      /\ dueCounts(s.due, now).overdue = Cardinality(CL)
  BY <1>3, <1>4, DueCountsAre
<1>6. \A t \in activeTopics(doc) :
        /\ Late(doc.topics[t], now, zone) => Late(doc.topics[t], now, UTC) \/ Due(doc.topics[t], now, UTC)
        /\ Late(doc.topics[t], now, UTC) => Late(doc.topics[t], now, zone) \/ Due(doc.topics[t], now, zone)
        /\ t \notin inherited =>
             /\ Late(doc.topics[t], now, zone) => Late(doc.topics[t], now, UTC)
             /\ Late(doc.topics[t], now, zone) \/ Due(doc.topics[t], now, zone) =>
                  Late(doc.topics[t], now, UTC) \/ Due(doc.topics[t], now, UTC)
  <2>1. SUFFICES ASSUME NEW t \in activeTopics(doc), NEW v, v = doc.topics[t], v.plannedAt # None
                 PROVE  /\ Late(v, now, zone) => Late(v, now, UTC) \/ Due(v, now, UTC)
                        /\ Late(v, now, UTC) => Late(v, now, zone) \/ Due(v, now, zone)
                        /\ t \notin inherited =>
                             /\ Late(v, now, zone) => Late(v, now, UTC)
                             /\ Late(v, now, zone) \/ Due(v, now, zone) =>
                                  Late(v, now, UTC) \/ Due(v, now, UTC)
    BY DEF Late, Due
  <2>2. v \in TopicType /\ (t \notin inherited => PlanStarts(v, zone))
    BY <1>1, <2>1, ActiveFinite, DocTopics
  <2>3. PICK date \in Int : date = v.plannedAt
    BY <2>1, <2>2 DEF TopicType
  <2>4. UTC \in Int
    BY DEF UTC
  <2>5. PICK a \in Int, b \in Int, A \in Int, B \in Int :
          /\ a = localDay(date, zone) /\ b = localDay(now, zone)
          /\ A = localDay(date, UTC) /\ B = localDay(now, UTC)
    BY <1>1, <2>4, DayType
  <2>6. (a < b => A <= B) /\ (A < B => a <= b)
    BY <1>1, <2>4, <2>5, DaysOfTwoZones
  <2>7. t \notin inherited => (a < b => A < B) /\ (a <= b => A <= B)
    BY <1>1, <2>1, <2>2, <2>3, <2>5, DaysAtTheEdge DEF PlanStarts
  <2>8. /\ (Late(v, now, zone) <=> a < b) /\ (Due(v, now, zone) <=> a = b)
        /\ (Late(v, now, UTC) <=> A < B) /\ (Due(v, now, UTC) <=> A = B)
    BY <2>1, <2>3, <2>5 DEF Late, Due
  <2> QED
    BY <2>6, <2>7, <2>8
<1>7. /\ L \subseteq CL \cup CD /\ CL \subseteq L \cup D /\ L \ inherited \subseteq CL
      /\ (L \cup D) \ inherited \subseteq CL \cup CD /\ CL \cap CD = {}
  <2>1. /\ L \subseteq CL \cup CD /\ CL \subseteq L \cup D /\ L \ inherited \subseteq CL
        /\ (L \cup D) \ inherited \subseteq CL \cup CD
    BY <1>4, <1>6 DEF LateSet, DueSet
  <2>2. ASSUME NEW t \in CL \cap CD PROVE FALSE
    <3>1. PICK a, b : a = localDay(doc.topics[t].plannedAt, UTC) /\ b = localDay(now, UTC)
      OBVIOUS
    <3>2. a < b /\ a = b /\ b \in Int
      BY <1>1, <1>4, <2>2, <3>1, DayType DEF LateSet, DueSet, Late, Due, UTC
    <3> QED
      BY <3>2
  <2> QED
    BY <2>1, <2>2
<1>8. L \in SUBSET Topics /\ D \in SUBSET Topics /\ CL \in SUBSET Topics /\ CD \in SUBSET Topics
  BY <1>4, ActiveFinite DEF LateSet, DueSet
<1>9. /\ Cardinality(L) <= Cardinality(CL \cup CD) /\ Cardinality(CL) <= Cardinality(L \cup D)
      /\ Cardinality(L \ inherited) <= Cardinality(CL)
      /\ Cardinality((L \cup D) \ inherited) <= Cardinality(CL \cup CD)
  BY <1>7, <1>8, TopicsCount, FS_Subset
<1>10. Cardinality(CL \cup CD) = Cardinality(CL) + Cardinality(CD)
  BY <1>7, <1>8, RevisionAssumption, DisjointUnion
<1>11. Cardinality(CL) \in Nat /\ Cardinality(CD) \in Nat
  BY <1>8, TopicsCount
<1>12. ShownAs(doc, {"Overdue"}, now, zone) = L /\ todayQueue(doc, now, zone) = L \cup D
  BY <1>1, <1>4, ShownIs
<1>13. PICK coach : coach = dueCounts(rows.stats[1].due, now)
  OBVIOUS
<1>14. coach.dueToday = Cardinality(CD) /\ coach.overdue = Cardinality(CL)
  BY <1>2, <1>5, <1>13
<1>15. PICK queue, overdue : /\ queue = todayQueue(doc, now, zone) /\ queue = L \cup D
                             /\ overdue = ShownAs(doc, {"Overdue"}, now, zone) /\ overdue = L
  BY <1>12
<1>16. coach.dueToday + coach.overdue = Cardinality(CL \cup CD)
  BY <1>10, <1>11, <1>14
<1>17. /\ Cardinality(overdue) <= coach.dueToday + coach.overdue
       /\ coach.overdue <= Cardinality(queue)
       /\ Cardinality(overdue \ inherited) <= coach.overdue
       /\ Cardinality(queue \ inherited) <= coach.dueToday + coach.overdue
  BY <1>9, <1>14, <1>15, <1>16
<1> QED
  BY <1>13, <1>15, <1>17

\* Once the student's document is stored, the coach's counts by days of UTC bracket
\* the queue the student sees by local days, exactly at its late end for the plans the
\* student has chosen and to within the topics of today for those that the load made
\* (stats.ts:66-75, cohort.ts:76-82, normalize.ts:19-30).
THEOREM CoachAndQueue == Spec => []CoachSeesTheQueue
<1> QED
  BY AlwaysIInv, IInvCoachSees, PTL

-----------------------------------------------------------------------------
(* The revisions of a document, one by one: pairs of a topic and a place   *)
(* in its history.                                                         *)

HistoryIn(d, t) == d.topics[t].history
EntriesOf(d, t) == {t} \X DOMAIN HistoryIn(d, t)
Entries(d) == UNION {EntriesOf(d, t) : t \in activeTopics(d)}
EntryDay(d, p, z) == localDay(d.topics[p[1]].history[p[2]].timestamp, z)

\* The histories of a document.
LEMMA DocHistories ==
  \A d \in DocType : \A t \in Topics : HistoryIn(d, t) \in Histories /\ d.topics[t].history \in Histories
BY DocTopics DEF TopicType, HistoryIn

\* What an entry is made of.
LEMMA EntryIs ==
  \A d : \A p \in Entries(d) :
    p[1] \in activeTopics(d) /\ p[2] \in DOMAIN HistoryIn(d, p[1]) /\ p = <<p[1], p[2]>>
BY DEF Entries, EntriesOf

\* Every place of the history of an active topic is an entry.
LEMMA EntryIn ==
  \A d, t, i : t \in activeTopics(d) /\ i \in DOMAIN HistoryIn(d, t) => <<t, i>> \in Entries(d)
BY DEF Entries, EntriesOf

\* A document has finitely many revisions.
LEMMA EntriesFinite == \A d \in DocType : IsFiniteSet(Entries(d))
<1> SUFFICES ASSUME NEW d \in DocType PROVE IsFiniteSet(Entries(d))
  OBVIOUS
<1>1. PICK A, f : A = activeTopics(d) /\ f = [t \in A |-> EntriesOf(d, t)]
  OBVIOUS
<1>2. IsFiniteSet(A) /\ DOMAIN f = A /\ A \in SUBSET Topics
  BY <1>1, ActiveFinite
<1>3. PICK F : F = {f[t] : t \in A}
  OBVIOUS
<1>4. IsFiniteSet(F)
  BY <1>2, <1>3, FiniteImage
<1>5. \A T \in F : IsFiniteSet(T)
  <2>1. ASSUME NEW t \in A PROVE IsFiniteSet(EntriesOf(d, t))
    <3>1. IsFiniteSet({t}) /\ IsFiniteSet(DOMAIN HistoryIn(d, t))
      BY <1>2, DocHistories, HistoryType, FS_Singleton
    <3> QED
      BY <3>1, FS_Product DEF EntriesOf
  <2> QED
    BY <1>1, <1>3, <2>1
<1>6. UNION F = Entries(d)
  BY <1>1, <1>3 DEF Entries
<1> QED
  BY <1>4, <1>5, <1>6, FS_UNION

\* Some of a document's revisions, counted topic by topic.
LEMMA EntriesAddUp ==
  \A d, B, f :
    /\ d \in DocType /\ B \in SUBSET Entries(d) /\ DOMAIN f = activeTopics(d)
    /\ \A t \in activeTopics(d) : f[t] = Cardinality({i \in DOMAIN HistoryIn(d, t) : <<t, i>> \in B})
    => Total(f) = Cardinality(B)
<1> SUFFICES ASSUME NEW d \in DocType, NEW B \in SUBSET Entries(d), NEW f, DOMAIN f = activeTopics(d),
                    \A t \in activeTopics(d) :
                      f[t] = Cardinality({i \in DOMAIN HistoryIn(d, t) : <<t, i>> \in B})
             PROVE  Total(f) = Cardinality(B)
  OBVIOUS
<1>1. PICK A, key : A = activeTopics(d) /\ key = [p \in B |-> p[1]]
  OBVIOUS
<1>2. IsFiniteSet(A) /\ A \in SUBSET Topics /\ IsFiniteSet(B)
  BY <1>1, ActiveFinite, EntriesFinite, FS_Subset
<1>3. ASSUME NEW t \in A PROVE f[t] = Cardinality({p \in B : key[p] = t})
  <2>1. PICK I, P, g : /\ I = {i \in DOMAIN HistoryIn(d, t) : <<t, i>> \in B}
                       /\ P = {p \in B : key[p] = t} /\ g = [i \in I |-> <<t, i>>]
    OBVIOUS
  <2>2. IsFiniteSet(I)
    <3>1. IsFiniteSet(DOMAIN HistoryIn(d, t)) /\ I \in SUBSET DOMAIN HistoryIn(d, t)
      BY <1>2, <2>1, DocHistories, HistoryType
    <3> QED
      BY <3>1, FS_Subset
  <2>3. \A i \in I : g[i] \in P
    BY <1>1, <2>1
  <2>4. \A i, j \in I : g[i] = g[j] => i = j
    BY <2>1
  <2>5. \A p \in P : \E i \in I : g[i] = p
    <3>1. SUFFICES ASSUME NEW p \in P PROVE \E i \in I : g[i] = p
      OBVIOUS
    <3>2. p \in B /\ p[1] = t /\ p = <<p[1], p[2]>> /\ p[2] \in DOMAIN HistoryIn(d, t)
      BY <1>1, <2>1, EntryIs
    <3>3. p[2] \in I /\ g[p[2]] = p
      BY <2>1, <3>2
    <3> QED
      BY <3>3
  <2>6. g \in Bijection(I, P)
    <3>1. g \in [I -> P]
      BY <2>1, <2>3
    <3> QED
      BY <2>4, <2>5, <3>1 DEF Bijection, Injection, IsInjective, Surjection
  <2>7. Cardinality(P) = Cardinality(I)
    BY <2>2, <2>6, FS_Bijection DEF ExistsBijection
  <2> QED
    BY <1>1, <2>1, <2>7
<1>4. Total(f) = Cardinality({p \in B : key[p] \in A})
  BY <1>1, <1>2, <1>3, TotalCounts
<1>5. {p \in B : key[p] \in A} = B
  BY <1>1, EntryIs
<1> QED
  BY <1>4, <1>5

\* The revisions of a day, of some days, and all of them.
EntriesOn(d, days, z) == {p \in Entries(d) : EntryDay(d, p, z) \in days}

\* The revisions counted for a day are the entries of that day.
LEMMA RevisionsOnIs ==
  \A d \in DocType : \A day, z :
    RevisionsOn(d, day, z) = Cardinality({p \in Entries(d) : EntryDay(d, p, z) = day})
<1> SUFFICES ASSUME NEW d \in DocType, NEW day, NEW z
             PROVE  RevisionsOn(d, day, z) = Cardinality({p \in Entries(d) : EntryDay(d, p, z) = day})
  OBVIOUS
<1>1. PICK B, f : /\ B = {p \in Entries(d) : EntryDay(d, p, z) = day}
                  /\ f = [t \in activeTopics(d) |->
                            Cardinality({i \in DOMAIN d.topics[t].history :
                                           localDay(d.topics[t].history[i].timestamp, z) = day})]
  OBVIOUS
<1>2. ASSUME NEW t \in activeTopics(d)
      PROVE  f[t] = Cardinality({i \in DOMAIN HistoryIn(d, t) : <<t, i>> \in B})
  <2>1. {i \in DOMAIN HistoryIn(d, t) : <<t, i>> \in B} =
          {i \in DOMAIN d.topics[t].history : localDay(d.topics[t].history[i].timestamp, z) = day}
    <3>1. \A i \in DOMAIN HistoryIn(d, t) :
            <<t, i>> \in B <=> localDay(d.topics[t].history[i].timestamp, z) = day
      BY <1>1, EntryIn DEF EntryDay
    <3> QED
      BY <3>1 DEF HistoryIn
  <2> QED
    BY <1>1, <2>1
<1>3. Total(f) = Cardinality(B)
  <2>1. B \in SUBSET Entries(d) /\ DOMAIN f = activeTopics(d)
    BY <1>1
  <2> QED
    BY <1>2, <2>1, EntriesAddUp
<1> QED
  BY <1>1, <1>3 DEF RevisionsOn

\* The revisions of some days, counted by the day, are the entries of those days.
LEMMA RevisionsAddUp ==
  \A d, z, days, f :
    d \in DocType /\ IsFiniteSet(days) /\ DOMAIN f = days /\ (\A day \in days : f[day] = RevisionsOn(d, day, z)) =>
      Total(f) = Cardinality(EntriesOn(d, days, z))
<1> SUFFICES ASSUME NEW d \in DocType, NEW z, NEW days, NEW f, IsFiniteSet(days), DOMAIN f = days,
                    \A day \in days : f[day] = RevisionsOn(d, day, z)
             PROVE  Total(f) = Cardinality(EntriesOn(d, days, z))
  OBVIOUS
<1>1. PICK A, key : A = Entries(d) /\ key = [p \in A |-> EntryDay(d, p, z)]
  OBVIOUS
<1>2. IsFiniteSet(A)
  BY <1>1, EntriesFinite
<1>3. ASSUME NEW day \in days PROVE f[day] = Cardinality({p \in A : key[p] = day})
  <2>1. {p \in A : key[p] = day} = {p \in Entries(d) : EntryDay(d, p, z) = day}
    BY <1>1
  <2> QED
    BY <2>1, RevisionsOnIs
<1>4. Total(f) = Cardinality({p \in A : key[p] \in days})
  BY <1>2, <1>3, TotalCounts
<1>5. {p \in A : key[p] \in days} = EntriesOn(d, days, z)
  BY <1>1 DEF EntriesOn
<1> QED
  BY <1>4, <1>5

\* The lengths of the histories add up to the number of the entries.
LEMMA LengthsAddUp ==
  \A d \in DocType : \A f :
    DOMAIN f = activeTopics(d) /\ (\A t \in activeTopics(d) : f[t] = Len(d.topics[t].history)) =>
      Total(f) = Cardinality(Entries(d))
<1> SUFFICES ASSUME NEW d \in DocType, NEW f, DOMAIN f = activeTopics(d),
                    \A t \in activeTopics(d) : f[t] = Len(d.topics[t].history)
             PROVE  Total(f) = Cardinality(Entries(d))
  OBVIOUS
<1>1. ASSUME NEW t \in activeTopics(d)
      PROVE  f[t] = Cardinality({i \in DOMAIN HistoryIn(d, t) : <<t, i>> \in Entries(d)})
  <2>1. PICK h \in Histories : h = HistoryIn(d, t) /\ h = d.topics[t].history
    BY ActiveFinite, DocHistories DEF HistoryIn
  <2>2. {i \in DOMAIN h : <<t, i>> \in Entries(d)} = DOMAIN h
    BY <2>1, EntryIn
  <2>3. Cardinality(DOMAIN h) = Len(h)
    <3>1. Len(h) \in Nat /\ DOMAIN h = 1..Len(h)
      BY HistoryType
    <3> QED
      BY <3>1, FS_Interval, SMTT(30)
  <2> QED
    BY <2>1, <2>2, <2>3
<1>2. Entries(d) \in SUBSET Entries(d)
  OBVIOUS
<1> QED
  BY <1>1, <1>2, EntriesAddUp

\* The days revised on are the days of the entries, and finitely many.
LEMMA RevisedDaysAre ==
  \A d \in DocType : \A z \in Int :
    /\ revisedDays(d, z) = {EntryDay(d, p, z) : p \in Entries(d)}
    /\ IsFiniteSet(revisedDays(d, z)) /\ revisedDays(d, z) \subseteq Int
<1> SUFFICES ASSUME NEW d \in DocType, NEW z \in Int
             PROVE  /\ revisedDays(d, z) = {EntryDay(d, p, z) : p \in Entries(d)}
                    /\ IsFiniteSet(revisedDays(d, z)) /\ revisedDays(d, z) \subseteq Int
  OBVIOUS
<1>1. ASSUME NEW day \in revisedDays(d, z) PROVE \E p \in Entries(d) : day = EntryDay(d, p, z)
  <2>1. PICK t, i : /\ t \in activeTopics(d) /\ i \in DOMAIN d.topics[t].history
                    /\ day = localDay(d.topics[t].history[i].timestamp, z)
    BY <1>1 DEF revisedDays
  <2>2. <<t, i>> \in Entries(d) /\ day = EntryDay(d, <<t, i>>, z)
    BY <2>1, EntryIn DEF EntryDay, HistoryIn
  <2> QED
    BY <2>2
<1>2. ASSUME NEW p \in Entries(d) PROVE EntryDay(d, p, z) \in revisedDays(d, z) /\ EntryDay(d, p, z) \in Int
  <2>1. PICK t, i : t = p[1] /\ i = p[2] /\ t \in activeTopics(d) /\ i \in DOMAIN d.topics[t].history
    BY EntryIs DEF HistoryIn
  <2>2. EntryDay(d, p, z) = localDay(d.topics[t].history[i].timestamp, z)
    BY <2>1 DEF EntryDay
  <2>3. EntryDay(d, p, z) \in revisedDays(d, z)
    BY <2>1, <2>2, SMTT(30) DEF revisedDays
  <2>4. d.topics[t].history[i].timestamp \in Int
    BY <2>1, ActiveFinite, DocHistories, HistoryType
  <2> QED
    BY <2>2, <2>3, <2>4, DayType
<1>3. revisedDays(d, z) = {EntryDay(d, p, z) : p \in Entries(d)}
  BY <1>1, <1>2
<1>4. IsFiniteSet(revisedDays(d, z))
  <2>1. PICK A, f : A = Entries(d) /\ f = [p \in A |-> EntryDay(d, p, z)]
    OBVIOUS
  <2>2. IsFiniteSet({f[p] : p \in A})
    BY <2>1, EntriesFinite, FiniteImage
  <2>3. {f[p] : p \in A} = revisedDays(d, z)
    BY <1>3, <2>1
  <2> QED
    BY <2>2, <2>3
<1> QED
  BY <1>2, <1>3, <1>4

-----------------------------------------------------------------------------
(* What a coach is shown.                                                  *)

\* The stored statistics, when they are those of the stored document.
LEMMA StoredIs ==
  ASSUME IInv, ~behind
  PROVE  /\ HasStats = HasDoc
         /\ HasDoc => stored \in DocType /\ statsFor = deriveStats(stored, statsFor.at)
<1>1. HasStats = HasDoc
  BY DEF IInv, RowsGood, StatsMatchDocument, HasStats, HasDoc
<1>2. HasDoc => stored \in DocType
  BY DEF IInv, RowsGood, HasDoc, stored
<1>3. HasDoc => statsFor = deriveStats(stored, statsFor.at)
  BY <1>1 DEF IInv, StatsMatchDocument, HasStats, HasDoc, stored, statsFor
<1> QED
  BY <1>1, <1>2, <1>3

\* The days of activity that are shown are the last ones revised on, and the sum is
\* the number of the revisions of those days.
LEMMA ActivityIs ==
  \A d \in DocType : \A first, f :
    /\ DOMAIN f = {day \in revisedDays(d, UTC) : day >= first}
    /\ \A day \in DOMAIN f : f[day] = RevisionsOn(d, day, UTC)
    => /\ Total(f) <= Cardinality(Entries(d))
       /\ Total(f) = Cardinality(Entries(d)) <=> \A day \in revisedDays(d, UTC) : day >= first
<1> SUFFICES ASSUME NEW d \in DocType, NEW first, NEW f,
                    DOMAIN f = {day \in revisedDays(d, UTC) : day >= first},
                    \A day \in DOMAIN f : f[day] = RevisionsOn(d, day, UTC)
             PROVE  /\ Total(f) <= Cardinality(Entries(d))
                    /\ Total(f) = Cardinality(Entries(d)) <=>
                         \A day \in revisedDays(d, UTC) : day >= first
  OBVIOUS
<1>1. PICK days, E : /\ days = {e \in revisedDays(d, UTC) : e >= first}
                     /\ E = EntriesOn(d, days, UTC)
  OBVIOUS
<1>0. UTC \in Int
  BY DEF UTC
<1>2. /\ IsFiniteSet(days)
      /\ revisedDays(d, UTC) = {EntryDay(d, p, UTC) : p \in Entries(d)}
  BY <1>0, <1>1, RevisedDaysAre, FS_Subset
<1>3. DOMAIN f = days /\ \A day \in days : f[day] = RevisionsOn(d, day, UTC)
  BY <1>1
<1>4. Total(f) = Cardinality(E)
  BY <1>1, <1>2, <1>3, RevisionsAddUp
<1>5. E \in SUBSET Entries(d) /\ IsFiniteSet(Entries(d))
  BY <1>1, EntriesFinite DEF EntriesOn
<1>6. /\ Cardinality(E) <= Cardinality(Entries(d))
      /\ Cardinality(E) = Cardinality(Entries(d)) <=> E = Entries(d)
  BY <1>5, FS_Subset
<1>7. E = Entries(d) <=> (\A day \in revisedDays(d, UTC) : day >= first)
  BY <1>1, <1>2 DEF EntriesOn
<1> QED
  BY <1>4, <1>6, <1>7

\* The two ways to a coach's figures, without a document and with one.
LEMMA NothingShown ==
  ASSUME IInv, ~HasStats, ~HasDoc PROVE CoachViewsAgree
<1>1. studentRow(now) = NoFigures
  BY DEF studentRow
<1>2. DOMAIN DrilldownPage(now).topics = {} /\ DrilldownPage(now).empty
  BY DEF DrilldownPage, drilldown, DrilledTopics
<1>31. PICK a : a = activityFor(now)
  OBVIOUS
<1>3. DOMAIN a = {}
  BY <1>31 DEF activityFor
<1>41. PICK page : page = DrilldownPage(now)
  OBVIOUS
<1>4. DOMAIN page.topics = {} /\ page.empty /\ page.activity = a
  BY <1>2, <1>31, <1>41 DEF DrilldownPage
<1>5. \A f : DOMAIN f = {} => Total(f) = 0
  BY TotalIsOver, TotalEmpty
<1>6. Sparkline(page.activity).total = 0
  BY <1>3, <1>4, <1>5 DEF Sparkline
<1>7. Total([t \in DOMAIN page.topics |-> page.topics[t].revisionCount]) = 0
  BY <1>4, <1>5
<1>8. \A state : {t \in DOMAIN page.topics : page.topics[t].state = state} = {}
  BY <1>4
<1>9. {t \in DOMAIN page.topics : page.topics[t].revisionCount > 0} = {}
  BY <1>4
<1>10. PICK row : row = studentRow(now) /\ row = NoFigures
  BY <1>1
<1>11. /\ row.hasData = FALSE /\ row.total = 0 /\ row.completed = 0 /\ row.completionPct = 0
       /\ row.dueToday = 0 /\ row.overdue = 0
  BY <1>10 DEF NoFigures
<1>12. RowStatus(row) = "No data yet"
  BY <1>11 DEF RowStatus
<1>13. summary(now).overdue = 0 /\ summary(now).completionPct = 0
  BY <1>10, <1>11 DEF summary, Percent, Rounded
<1>14. Cardinality({}) = 0
  BY FS_EmptySet
<1>15. PICK shown, listed :
         /\ shown = Sparkline(page.activity).total /\ shown = 0
         /\ listed = Total([t \in DOMAIN page.topics |-> page.topics[t].revisionCount]) /\ listed = 0
  BY <1>6, <1>7
<1>16. /\ row.total = Cardinality(DOMAIN page.topics)
       /\ row.completed = Cardinality({t \in DOMAIN page.topics : page.topics[t].revisionCount > 0})
       /\ row.dueToday = Cardinality({t \in DOMAIN page.topics : page.topics[t].state = "DueToday"})
       /\ row.overdue = Cardinality({t \in DOMAIN page.topics : page.topics[t].state = "Overdue"})
       /\ (RowStatus(row) = "Overdue") =
            ({t \in DOMAIN page.topics : page.topics[t].state = "Overdue"} # {}
             /\ {t \in DOMAIN page.topics : page.topics[t].revisionCount > 0} # {})
  BY <1>4, <1>8, <1>9, <1>11, <1>12, <1>14
<1>17. row.hasData = HasDoc
  BY Zenon, <1>11 DEF HasDoc
<1>18. summary(now).overdue = row.overdue /\ summary(now).completionPct = row.completionPct
  BY <1>11, <1>13
<1>19. shown <= listed /\ ~HasDoc /\ row.total = 0
  BY <1>11, <1>15
<1> QED
  BY <1>10, <1>15, <1>16, <1>17, <1>18, <1>19, <1>41 DEF CoachViewsAgree

\* With the statistics up to date, the coach's views agree.
LEMMA SameShown ==
  ASSUME IInv, ~behind, HasStats, HasDoc PROVE CoachViewsAgree
<1>1. PICK d, s : d = stored /\ s = statsFor
  OBVIOUS
<1>2. d \in DocType /\ s = deriveStats(d, s.at) /\ now \in Int /\ UTC \in Int
  BY <1>1, StoredIs DEF IInv, UTC
<1>3. /\ s.total = Cardinality(activeTopics(d))
      /\ s.completed = Cardinality(activeTopics(d) \ neverRevised(d))
      /\ s.due = [day \in PlannedDays(d) |-> Cardinality(DueOn(d, day, UTC))]
      /\ s.activity = [day \in revisedDays(d, UTC) |-> RevisionsOn(d, day, UTC)]
  <2>1. PICK at : at = s.at
    OBVIOUS
  <2>2. s = deriveStats(d, at)
    BY <1>2, <2>1
  <2> QED
    BY <2>2 DEF deriveStats
<1>4. PICK counts, row : counts = dueCounts(s.due, now) /\ row = studentRow(now) /\ row = RowAsOf(counts)
  BY <1>1 DEF studentRow
<1>5. /\ row.hasData = TRUE /\ row.total = s.total /\ row.completed = s.completed
      /\ row.completionPct = Percent(s.completed, s.total)
      /\ row.dueToday = counts.dueToday /\ row.overdue = counts.overdue
  BY <1>1, <1>4 DEF RowAsOf
<1>6. PICK page, topics : page = DrilldownPage(now) /\ topics = page.topics
  OBVIOUS
<1>7. /\ DOMAIN topics = activeTopics(d)
      /\ \A t \in DOMAIN topics : /\ topics[t].state = badgeState(d.topics[t], now, UTC)
                                  /\ topics[t].revisionCount = Len(d.topics[t].history)
  <2>1. topics = drilldown(now) /\ DrilledTopics = activeTopics(d)
    BY <1>1, <1>6 DEF DrilldownPage, DrilledTopics
  <2> QED
    BY <1>1, <2>1 DEF drilldown
<1>8. PICK late, due : late = LateSet(d, now, UTC) /\ due = DueSet(d, now, UTC)
  OBVIOUS
<1>9. /\ {t \in DOMAIN topics : topics[t].state = "Overdue"} = late
      /\ {t \in DOMAIN topics : topics[t].state = "DueToday"} = due
  <2>1. \A t \in activeTopics(d) :
          /\ (badgeState(d.topics[t], now, UTC) = "Overdue") = Late(d.topics[t], now, UTC)
          /\ (badgeState(d.topics[t], now, UTC) = "DueToday") = Due(d.topics[t], now, UTC)
    BY <1>2, ActiveFinite, DocTopics, BadgeIs
  <2> QED
    BY <1>7, <1>8, <2>1, ZenonT(30) DEF LateSet, DueSet
<1>10. counts.overdue = Cardinality(late) /\ counts.dueToday = Cardinality(due)
  BY <1>3, <1>4, <1>8, DueCountsAre
<1>11. PICK revised : /\ revised = {t \in DOMAIN topics : topics[t].revisionCount > 0}
                      /\ revised = activeTopics(d) \ neverRevised(d)
  <2>1. \A t \in activeTopics(d) : Len(d.topics[t].history) > 0 <=> d.topics[t].history # <<>>
    <3>1. \A h \in Histories : Len(h) > 0 <=> h # <<>>
      BY DEF Histories
    <3> QED
      BY <1>2, <3>1, ActiveFinite, DocHistories
  <2>2. {t \in DOMAIN topics : topics[t].revisionCount > 0} = activeTopics(d) \ neverRevised(d)
    BY <1>7, <2>1 DEF neverRevised
  <2> QED
    BY <2>2
<1>12. /\ late \in SUBSET Topics /\ revised \in SUBSET Topics
  BY <1>8, <1>11, ActiveFinite DEF LateSet
<1>13. /\ row.completed = Cardinality(revised) /\ row.total = Cardinality(DOMAIN topics)
       /\ row.overdue = Cardinality(late) /\ row.dueToday = Cardinality(due)
  BY <1>3, <1>5, <1>7, <1>10, <1>11
<1>14. (RowStatus(row) = "Overdue") = (late # {} /\ revised # {})
  <2>1. /\ row.completed \in Nat /\ row.overdue \in Nat
        /\ (row.completed = 0) = (revised = {}) /\ (row.overdue = 0) = (late = {})
    BY <1>12, <1>13, TopicsCount, FS_EmptySet
  <2> QED
    BY <1>5, <2>1 DEF RowStatus
<1>15. page.empty => row.total = 0
  <2>1. ASSUME page.empty PROVE activeTopics(d) = {}
    <3>1. Subject \in d.archived
      BY <1>1, <1>6, <2>1 DEF DrilldownPage
    <3> QED
      BY <3>1 DEF activeTopics
  <2> QED
    BY <1>3, <1>5, <2>1, FS_EmptySet
<1>16. summary(now).overdue = row.overdue /\ summary(now).completionPct = row.completionPct
  BY <1>4, <1>5 DEF summary
<1>17. PICK a : a = activityFor(now) /\ page.activity = a /\ Sparkline(page.activity).total = Total(a)
  BY <1>6 DEF DrilldownPage, Sparkline
<1>18. PICK first : first = localDay(now, UTC) - (Recent - 1)
  OBVIOUS
<1>19. PICK act : act = s.activity /\ a = [day \in {e \in DOMAIN act : e >= first} |-> act[day]]
  BY <1>1, <1>17, <1>18 DEF activityFor
<1>20. /\ Total(a) <= Cardinality(Entries(d))
       /\ Total(a) = Cardinality(Entries(d)) <=> \A day \in revisedDays(d, UTC) : day >= first
  <2>1. DOMAIN act = revisedDays(d, UTC) /\ \A day \in DOMAIN act : act[day] = RevisionsOn(d, day, UTC)
    BY <1>3, <1>19
  <2>2. DOMAIN a = {day \in revisedDays(d, UTC) : day >= first}
    BY <1>19, <2>1
  <2>3. \A day \in DOMAIN a : a[day] = RevisionsOn(d, day, UTC)
    BY <1>19, <2>1
  <2> QED
    BY <1>2, <2>2, <2>3, ActivityIs
<1>21. Total([t \in DOMAIN topics |-> topics[t].revisionCount]) = Cardinality(Entries(d))
  <2>1. PICK f : f = [t \in DOMAIN topics |-> topics[t].revisionCount]
    OBVIOUS
  <2>2. DOMAIN f = activeTopics(d) /\ \A t \in activeTopics(d) : f[t] = Len(d.topics[t].history)
    BY <1>7, <2>1
  <2> QED
    BY <1>2, <2>1, <2>2, LengthsAddUp
<1>22. (\A day \in revisedDays(d, UTC) : day >= first) =
         (\A day \in revisedDays(d, UTC) : day > localDay(now, UTC) - Recent)
  <2>1. revisedDays(d, UTC) \subseteq Int /\ localDay(now, UTC) \in Int /\ Recent \in Int
    BY <1>2, RevisedDaysAre, DayType, CohortAssumption
  <2>2. \A day \in revisedDays(d, UTC) : day >= first <=> day > localDay(now, UTC) - Recent
    BY <1>18, <2>1
  <2> QED
    BY <2>2
<1>23. PICK shown, listed, Edge :
         /\ shown = Sparkline(page.activity).total
         /\ listed = Total([t \in DOMAIN page.topics |-> page.topics[t].revisionCount])
         /\ Edge = (\A day \in revisedDays(stored, UTC) : day > localDay(now, UTC) - Recent)
  OBVIOUS
<1>24. shown <= listed /\ (shown = listed) = Edge
  BY <1>1, <1>6, <1>17, <1>20, <1>21, <1>22, <1>23
<1>25. /\ row.total = Cardinality(DOMAIN page.topics)
       /\ row.completed = Cardinality({t \in DOMAIN page.topics : page.topics[t].revisionCount > 0})
       /\ row.dueToday = Cardinality({t \in DOMAIN page.topics : page.topics[t].state = "DueToday"})
       /\ row.overdue = Cardinality({t \in DOMAIN page.topics : page.topics[t].state = "Overdue"})
       /\ (RowStatus(row) = "Overdue") =
            ({t \in DOMAIN page.topics : page.topics[t].state = "Overdue"} # {}
             /\ {t \in DOMAIN page.topics : page.topics[t].revisionCount > 0} # {})
  BY <1>6, <1>9, <1>11, <1>13, <1>14
<1>26. row.hasData = HasDoc
  BY <1>5
<1> QED
  BY <1>4, <1>6, <1>15, <1>16, <1>23, <1>24, <1>25, <1>26 DEF CoachViewsAgree

\* A student's row, the totals of the group and the drill-down agree at any time
\* after the write (cohort.ts:70-186, coaching/page.tsx:161-207).
LEMMA IInvCoachViews == IInv => CoachViewsAgree
<1>1. ASSUME IInv, ~behind PROVE CoachViewsAgree
  BY <1>1, StoredIs, NothingShown, SameShown
<1>2. ASSUME behind PROVE CoachViewsAgree
  BY <1>2 DEF CoachViewsAgree
<1> QED
  BY <1>1, <1>2

\* The pages a coach is shown of one student agree, with each other and with the
\* stored document (cohort.ts, DrilldownPage.tsx).
THEOREM CoachViews == Spec => []CoachViewsAgree
<1> QED
  BY AlwaysIInv, IInvCoachViews, PTL

-----------------------------------------------------------------------------
(* Streaks.                                                                *)

\* A run is empty when its last day is missing, and no longer than all the days.
LEMMA RunIs ==
  \A days \in SUBSET Int : \A e \in Int : IsFiniteSet(days) =>
    /\ RunUpTo(e, days) \in Nat /\ RunUpTo(e, days) <= Cardinality(days)
    /\ RunUpTo(e, days) > 0 <=> e \in days
<1> SUFFICES ASSUME NEW days \in SUBSET Int, NEW e \in Int, IsFiniteSet(days)
             PROVE  /\ RunUpTo(e, days) \in Nat /\ RunUpTo(e, days) <= Cardinality(days)
                    /\ RunUpTo(e, days) > 0 <=> e \in days
  OBVIOUS
<1>1. PICK run : run = {x \in days : x <= e /\ (x..e) \subseteq days}
  OBVIOUS
<1>2. run \in SUBSET days /\ RunUpTo(e, days) = Cardinality(run)
  BY <1>1 DEF RunUpTo
<1>3. IsFiniteSet(run) /\ Cardinality(run) <= Cardinality(days)
  BY <1>2, FS_Subset
<1>4. Cardinality(run) \in Nat /\ (Cardinality(run) = 0 <=> run = {})
  BY <1>3, FS_CardinalityType, FS_EmptySet
<1>5. ASSUME e \in days PROVE e \in run
  BY <1>1, <1>5
<1>6. ASSUME NEW x \in run PROVE e \in days
  <2>1. x \in Int /\ x <= e /\ (x..e) \subseteq days
    BY <1>1
  <2>2. e \in x..e
    BY <2>1
  <2> QED
    BY <2>1, <2>2
<1> QED
  BY <1>2, <1>3, <1>4, <1>5, <1>6

\* The longest streak is no longer than the days revised on, and no run is longer.
LEMMA LongestIs ==
  \A d \in DocType : \A z \in Int :
    /\ longestStreak(d, z) \in Nat /\ longestStreak(d, z) <= Cardinality(revisedDays(d, z))
    /\ \A e \in revisedDays(d, z) : RunUpTo(e, revisedDays(d, z)) <= longestStreak(d, z)
<1> SUFFICES ASSUME NEW d \in DocType, NEW z \in Int
             PROVE  /\ longestStreak(d, z) \in Nat /\ longestStreak(d, z) <= Cardinality(revisedDays(d, z))
                    /\ \A e \in revisedDays(d, z) : RunUpTo(e, revisedDays(d, z)) <= longestStreak(d, z)
  OBVIOUS
<1>1. PICK days, f, runs : /\ days = revisedDays(d, z) /\ f = [e \in days |-> RunUpTo(e, days)]
                           /\ runs = {RunUpTo(e, days) : e \in days}
  OBVIOUS
<1>2. IsFiniteSet(days) /\ days \in SUBSET Int
  BY <1>1, RevisedDaysAre
<1>3. IsFiniteSet(runs)
  <2>1. runs = {f[e] : e \in days} /\ DOMAIN f = days
    BY <1>1
  <2> QED
    BY <1>2, <2>1, FiniteImage
<1>4. \A r \in runs : r \in Nat /\ r <= Cardinality(days)
  BY <1>1, <1>2, RunIs
<1>5. PICK all : all = runs \cup {0}
  OBVIOUS
<1>6. IsFiniteSet(all) /\ all # {} /\ all \subseteq Int
  BY <1>3, <1>4, <1>5, FS_AddElement
<1>7. PICK m : m = Max(all)
  OBVIOUS
<1>8. m \in all /\ \A x \in all : m >= x
  BY <1>6, <1>7, LargestExists
<1>9. longestStreak(d, z) = m
  BY <1>1, <1>5, <1>7 DEF longestStreak
<1>10. Cardinality(days) \in Nat
  BY <1>2, FS_CardinalityType
<1>11. m \in Nat /\ m <= Cardinality(days)
  BY <1>4, <1>5, <1>8, <1>10
<1>12. \A e \in days : RunUpTo(e, days) <= m
  <2>1. ASSUME NEW e \in days PROVE RunUpTo(e, days) <= m
    <3>1. PICK r : r = RunUpTo(e, days)
      OBVIOUS
    <3>2. r \in all /\ r \in Int
      BY <1>1, <1>4, <1>5, <3>1
    <3> QED
      BY <1>8, <1>11, <3>1, <3>2
  <2> QED
    BY <2>1
<1> QED
  BY <1>1, <1>9, <1>11, <1>12

\* A current streak is a run that ends today or yesterday.
LEMMA CurrentIs ==
  \A d \in DocType : \A at, z \in Int :
    /\ currentStreak(d, at, z) \in Nat /\ currentStreak(d, at, z) <= longestStreak(d, z)
    /\ currentStreak(d, at, z) > 0 <=>
         revisedDays(d, z) \cap {localDay(at, z) - 1, localDay(at, z)} # {}
<1> SUFFICES ASSUME NEW d \in DocType, NEW at \in Int, NEW z \in Int
             PROVE  /\ currentStreak(d, at, z) \in Nat /\ currentStreak(d, at, z) <= longestStreak(d, z)
                    /\ currentStreak(d, at, z) > 0 <=>
                         revisedDays(d, z) \cap {localDay(at, z) - 1, localDay(at, z)} # {}
  OBVIOUS
<1>1. PICK days, today : days = revisedDays(d, z) /\ today = localDay(at, z)
  OBVIOUS
<1>2. IsFiniteSet(days) /\ days \in SUBSET Int /\ today \in Int /\ today - 1 \in Int
  <2>1. IsFiniteSet(days) /\ days \in SUBSET Int
    BY <1>1, RevisedDaysAre
  <2>2. today \in Int
    BY <1>1, DayType
  <2> QED
    BY <2>1, <2>2
<1>3. PICK last \in Int : /\ currentStreak(d, at, z) = RunUpTo(last, days)
                          /\ last = IF today \in days THEN today ELSE today - 1
  BY <1>1, <1>2 DEF currentStreak
<1>4. RunUpTo(last, days) \in Nat /\ (RunUpTo(last, days) > 0 <=> last \in days)
  BY <1>2, RunIs
<1>5. longestStreak(d, z) \in Nat /\ \A e \in days : RunUpTo(e, days) <= longestStreak(d, z)
  BY <1>1, LongestIs
<1>6. last \in days <=> days \cap {today - 1, today} # {}
  BY <1>3
<1> QED
  BY <1>1, <1>3, <1>4, <1>5, <1>6

-----------------------------------------------------------------------------
(* The home page, the chapter page and the command palette.                *)

\* The two groups of the queue.
LEMMA GroupsAre ==
  \A d \in DocType : \A at, z \in Int :
    /\ QueueGroups(d, at, z).overdue = LateSet(d, at, z)
    /\ QueueGroups(d, at, z).dueToday = DueSet(d, at, z)
    /\ matchingTopics(d, "needs-revision", at, z) = LateSet(d, at, z) \cup DueSet(d, at, z)
<1> SUFFICES ASSUME NEW d \in DocType, NEW at \in Int, NEW z \in Int
             PROVE  /\ QueueGroups(d, at, z).overdue = LateSet(d, at, z)
                    /\ QueueGroups(d, at, z).dueToday = DueSet(d, at, z)
                    /\ matchingTopics(d, "needs-revision", at, z) = LateSet(d, at, z) \cup DueSet(d, at, z)
  OBVIOUS
<1>1. \A t \in activeTopics(d) :
        /\ (badge(d, t, at, z) = "Overdue") = Late(d.topics[t], at, z)
        /\ (badge(d, t, at, z) = "DueToday") = Due(d.topics[t], at, z)
  BY ActiveFinite, DocTopics, BadgeIs DEF badge
<1>2. PICK groups, queue : groups = QueueGroups(d, at, z) /\ queue = todayQueue(d, at, z)
  OBVIOUS
<1>3. /\ groups.overdue = {t \in queue : badge(d, t, at, z) = "Overdue"}
      /\ groups.dueToday = {t \in queue : badge(d, t, at, z) = "DueToday"}
  BY <1>2 DEF QueueGroups
<1>4. queue = {t \in activeTopics(d) : badge(d, t, at, z) \in {"Overdue", "DueToday"}}
  BY <1>2 DEF todayQueue, ShownAs
<1>5. groups.overdue = LateSet(d, at, z) /\ groups.dueToday = DueSet(d, at, z)
  BY <1>1, <1>3, <1>4 DEF LateSet, DueSet
<1>6. matchingTopics(d, "needs-revision", at, z) = queue
  BY <1>4 DEF matchingTopics
<1>7. queue = LateSet(d, at, z) \cup DueSet(d, at, z)
  BY <1>1, <1>4 DEF LateSet, DueSet
<1> QED
  BY <1>2, <1>5, <1>6, <1>7

\* A chip lists the subject when the page of a chapter has a topic under it.
LEMMA ChipsAgree ==
  \A d \in DocType : \A at, z : \A qf \in QUICK_FILTERS \ {"all"} :
    HomeLists(d, qf, FALSE, {}, at, z) <=>
      /\ Subject \notin d.archived
      /\ \E c \in ChaptersListed(d) : topicQuickCounts(d, c, qf, at, z) > 0
<1> SUFFICES ASSUME NEW d \in DocType, NEW at, NEW z, NEW qf \in QUICK_FILTERS \ {"all"}
             PROVE  HomeLists(d, qf, FALSE, {}, at, z) <=>
                      /\ Subject \notin d.archived
                      /\ \E c \in ChaptersListed(d) : topicQuickCounts(d, c, qf, at, z) > 0
  OBVIOUS
<1>1. ASSUME NEW c \in ChaptersListed(d)
      PROVE  topicQuickCounts(d, c, qf, at, z) > 0 <=>
               \E t \in TopicsListed(d, c) : topicMatchesQuick(d.topics[t], qf, at, z)
  <2>1. PICK C : C = {t \in TopicsListed(d, c) : topicMatchesQuick(d.topics[t], qf, at, z)}
    OBVIOUS
  <2>2. topicQuickCounts(d, c, qf, at, z) = Cardinality(C)
    BY <2>1 DEF topicQuickCounts, ChapterLists
  <2>3. C \in SUBSET Topics
    BY <2>1, TopicsOfSubjectAre
  <2>4. IsFiniteSet(C) /\ Cardinality(C) \in Nat
    BY <2>3, TopicsCount
  <2>5. Cardinality(C) = 0 <=> C = {}
    BY <2>4, FS_EmptySet
  <2>6. C # {} <=> \E t \in TopicsListed(d, c) : topicMatchesQuick(d.topics[t], qf, at, z)
    BY <2>1
  <2> QED
    BY <2>2, <2>4, <2>5, <2>6
<1>2. qf # "all"
  OBVIOUS
<1>3. HomeLists(d, qf, FALSE, {}, at, z) <=>
        /\ Subject \notin d.archived
        /\ \E t \in activeTopics(d) : topicMatchesQuick(d.topics[t], qf, at, z)
  BY Zenon, <1>2 DEF HomeLists, subjectMatchesQuick
<1>4. Subject \notin d.archived => activeTopics(d) = TopicsOfSubject(d)
  BY DEF activeTopics
<1>5. \A t : t \in TopicsOfSubject(d) <=> \E c \in ChaptersListed(d) : t \in TopicsListed(d, c)
  BY TopicsOfSubjectAre
<1> QED
  BY <1>1, <1>3, <1>4, <1>5

\* The inline search finds the subject by the titles that the palette finds.
LEMMA SearchesAgree ==
  \A d \in DocType : \A at, z : \A x \in Titles :
    HomeLists(d, "all", TRUE, {x}, at, z) <=> search(d, {x}) # {}
<1> SUFFICES ASSUME NEW d \in DocType, NEW at, NEW z, NEW x \in Titles
             PROVE  HomeLists(d, "all", TRUE, {x}, at, z) <=> search(d, {x}) # {}
  OBVIOUS
<1>1. HomeLists(d, "all", TRUE, {x}, at, z) <=>
        Subject \notin d.archived /\ (x = Subject \/ x \in ChaptersListed(d) \/ x \in TopicsOfSubject(d))
  <2>1. HomeLists(d, "all", TRUE, {x}, at, z) <=> subjectMatchesQuery(d, {x})
    BY DEF HomeLists, subjectMatchesQuick, subjectMatchesQuery
  <2>2. /\ Subject \in {x} <=> x = Subject
        /\ ChaptersListed(d) \cap {x} # {} <=> x \in ChaptersListed(d)
        /\ TopicsOfSubject(d) \cap {x} # {} <=> x \in TopicsOfSubject(d)
    OBVIOUS
  <2> QED
    BY <2>1, <2>2 DEF subjectMatchesQuery
<1>2. search(d, {x}) # {} <=> /\ x \notin d.archived /\ Subject \notin d.archived
                              /\ \A c \in Chapters : x \in c => c \notin d.archived
  BY DEF search
<1>3. \A c \in Chapters : c \in SUBSET Topics
  BY ChaptersFinite
<1>4. CASE x = Subject
  <2>1. \A c \in Chapters : x \notin c
    BY <1>3, <1>4, RevisionAssumption
  <2> QED
    BY <1>1, <1>2, <1>4, <2>1
<1>5. CASE x \in Chapters
  <2>1. x \notin Topics /\ x # Subject
    BY <1>5, RevisionAssumption
  <2>2. x \notin TopicsOfSubject(d) /\ \A c \in Chapters : x \notin c
    BY <1>3, <2>1, TopicsOfSubjectAre
  <2> QED
    BY <1>1, <1>2, <1>5, <2>1, <2>2 DEF ChaptersListed
<1>6. CASE x \in Topics
  <2>1. x # Subject /\ x \notin Chapters
    BY <1>6, RevisionAssumption
  <2>2. x \in TopicsOfSubject(d) <=>
          x \notin d.archived /\ \A c \in Chapters : x \in c => c \notin d.archived
    BY <1>6, TopicsOfSubjectAre
  <2> QED
    BY <1>1, <1>2, <2>1, <2>2 DEF ChaptersListed
<1> QED
  BY <1>4, <1>5, <1>6 DEF Titles, Above

\* The palette finds the active topics.
LEMMA PaletteFindsActive == \A d \in DocType : search(d, Topics) = activeTopics(d)
<1> SUFFICES ASSUME NEW d \in DocType PROVE search(d, Topics) = activeTopics(d)
  OBVIOUS
<1>1. search(d, Topics) =
        {t \in Topics : /\ t \notin d.archived /\ Subject \notin d.archived
                        /\ \A c \in Chapters : t \in c => c \notin d.archived}
  BY DEF search
<1>2. /\ TopicsOfSubject(d) \in SUBSET Topics
      /\ \A t \in Topics : t \in TopicsOfSubject(d) <=>
           t \notin d.archived /\ \A c \in Chapters : t \in c => c \notin d.archived
  BY TopicsOfSubjectAre
<1> QED
  BY <1>1, <1>2 DEF activeTopics

\* HomeAgrees follows from the invariant.
LEMMA IInvHome == IInv => HomeAgrees
<1> SUFFICES ASSUME IInv PROVE HomeAgrees
  OBVIOUS
<1>1. doc \in DocType /\ now \in Int /\ zone \in Int
  BY DEF IInv, TopicsGood
<1>2. PICK groups, streak : groups = QueueGroups(doc, now, zone) /\ streak = StreakCard(doc, now, zone)
  OBVIOUS
<1>3. groups.overdue \cup groups.dueToday = matchingTopics(doc, "needs-revision", now, zone)
  BY <1>1, <1>2, GroupsAre
<1>4. \A qf \in QUICK_FILTERS \ {"all"} :
        HomeLists(doc, qf, FALSE, {}, now, zone) =
          (/\ Subject \notin doc.archived
           /\ \E c \in ChaptersListed(doc) : topicQuickCounts(doc, c, qf, now, zone) > 0)
  <2>1. ASSUME NEW qf \in QUICK_FILTERS \ {"all"}
        PROVE  HomeLists(doc, qf, FALSE, {}, now, zone) \in BOOLEAN
    BY DEF HomeLists, subjectMatchesQuick
  <2> QED
    BY <1>1, <2>1, ChipsAgree
<1>5. \A x \in Titles : HomeLists(doc, "all", TRUE, {x}, now, zone) = (search(doc, {x}) # {})
  <2>1. ASSUME NEW x \in Titles PROVE HomeLists(doc, "all", TRUE, {x}, now, zone) \in BOOLEAN
    BY DEF HomeLists, subjectMatchesQuick
  <2> QED
    BY <1>1, <2>1, SearchesAgree
<1>6. search(doc, Topics) = activeTopics(doc)
  BY <1>1, PaletteFindsActive
<1>7. streak.shown = (revisedDays(doc, zone) \cap {localDay(now, zone) - 1, localDay(now, zone)} # {})
  <2>1. streak.shown = (currentStreak(doc, now, zone) > 0)
    BY <1>2 DEF StreakCard
  <2> QED
    BY <1>1, <2>1, CurrentIs
<1>8. currentStreak(doc, now, zone) <= longestStreak(doc, zone)
  BY <1>1, CurrentIs
<1> QED
  BY <1>2, <1>3, <1>4, <1>5, <1>6, <1>7, <1>8 DEF HomeAgrees

-----------------------------------------------------------------------------
(* The figures of cards and insights.                                      *)

\* Topics are revised when they have a last revision, which is a number.
LEMMA LastIs ==
  \A h \in Histories :
    /\ h = <<>> => lastRevisedAt(h) = None
    /\ h # <<>> => /\ Len(h) \in Nat \ {0} /\ Len(h) \in DOMAIN h /\ 1 \in DOMAIN h
                   /\ lastRevisedAt(h) = h[Len(h)].timestamp /\ lastRevisedAt(h) \in Int
    /\ Len(h) = 0 <=> h = <<>>
<1> SUFFICES ASSUME NEW h \in Histories
             PROVE  /\ h = <<>> => lastRevisedAt(h) = None
                    /\ h # <<>> => /\ Len(h) \in Nat \ {0} /\ Len(h) \in DOMAIN h /\ 1 \in DOMAIN h
                                   /\ lastRevisedAt(h) = h[Len(h)].timestamp /\ lastRevisedAt(h) \in Int
                    /\ Len(h) = 0 <=> h = <<>>
  OBVIOUS
<1>1. Len(h) = 0 <=> h = <<>>
  BY DEF Histories
<1>2. Len(h) \in Nat /\ DOMAIN h = 1..Len(h) /\ \A i \in DOMAIN h : h[i].timestamp \in Int
  BY HistoryType
<1>3. h # <<>> => Len(h) \in Nat \ {0} /\ Len(h) \in DOMAIN h /\ 1 \in DOMAIN h
  BY <1>1, <1>2
<1> QED
  BY <1>1, <1>2, <1>3 DEF lastRevisedAt, Last

\* Of a sorted history the last revision is the latest and the first the earliest.
LEMMA SpanIs ==
  \A h \in Histories : Sorted(h) /\ h # <<>> =>
    /\ lastRevisedAt(h) - h[1].timestamp \in Nat
    /\ \A i \in DOMAIN h : h[i].timestamp <= lastRevisedAt(h)
<1> SUFFICES ASSUME NEW h \in Histories, Sorted(h), h # <<>>
             PROVE  /\ lastRevisedAt(h) - h[1].timestamp \in Nat
                    /\ \A i \in DOMAIN h : h[i].timestamp <= lastRevisedAt(h)
  OBVIOUS
<1>1. /\ Len(h) \in DOMAIN h /\ 1 \in DOMAIN h /\ lastRevisedAt(h) = h[Len(h)].timestamp
      /\ lastRevisedAt(h) \in Int
  BY LastIs
<1>2. Len(h) \in Nat /\ DOMAIN h = 1..Len(h) /\ \A i \in DOMAIN h : h[i].timestamp \in Int
  BY HistoryType
<1>3. \A i \in DOMAIN h : h[i].timestamp <= h[Len(h)].timestamp
  BY <1>1, <1>2 DEF Sorted
<1> QED
  BY <1>1, <1>2, <1>3

\* What a quotient is rounded to lies between its bounds, and is not negative.
LEMMA RoundedIs ==
  \A n \in Nat, of \in Nat \ {0} :
    /\ Rounded(n, of) \in Int /\ Rounded(n, of) >= 0
    /\ 2 * (of * Rounded(n, of)) <= 2 * n + of /\ 2 * n < 2 * (of * Rounded(n, of)) + of
<1> SUFFICES ASSUME NEW n \in Nat, NEW of \in Nat \ {0}
             PROVE  /\ Rounded(n, of) \in Int /\ Rounded(n, of) >= 0
                    /\ 2 * (of * Rounded(n, of)) <= 2 * n + of
                    /\ 2 * n < 2 * (of * Rounded(n, of)) + of
  OBVIOUS
<1>1. PICK a \in Nat, b \in Nat \ {0} : a = 2 * n + of /\ b = 2 * of
  OBVIOUS
<1>2. PICK q : q = Rounded(n, of)
  OBVIOUS
<1>3. q = a \div b
  BY <1>1, <1>2 DEF Rounded
<1>4. q \in Int /\ b * q <= a /\ a < b * q + b /\ 0 \div b = 0
  <2>1. a \in Int /\ a \div b \in Int /\ b * (a \div b) <= a /\ a < b * (a \div b) + b
    <3>1. a \in Int
      BY <1>1
    <3> QED
      BY ONLY <1>1, <3>1, DivIs
  <2>2. 0 \div b = 0
    BY <1>1
  <2> QED
    BY <1>3, <2>1, <2>2
<1>5. q >= 0
  <2>1. 0 \div b <= a \div b
    BY <1>1, DivMonotone
  <2> QED
    BY <1>3, <1>4, <2>1
<1>6. PICK k \in Int : k = of * q /\ b * q = 2 * k
  BY <1>1, <1>4
<1> QED
  BY <1>1, <1>2, <1>4, <1>5, <1>6

\* A mean is an integer, and not negative.
LEMMA InTenthsType == \A n, of \in Nat : InTenths(n, of) \in Int /\ InTenths(n, of) >= 0
<1> SUFFICES ASSUME NEW n \in Nat, NEW of \in Nat PROVE InTenths(n, of) \in Int /\ InTenths(n, of) >= 0
  OBVIOUS
<1>1. CASE of = 0
  BY <1>1 DEF InTenths, Rounded
<1>2. CASE of # 0
  <2>1. PICK m \in Nat : m = 10 * n
    OBVIOUS
  <2> QED
    BY <1>2, <2>1, RoundedIs DEF InTenths
<1> QED
  BY <1>1, <1>2

\* Numbers that are all at least m, or at most m, add up to as much.
LEMMA TotalBounds ==
  \A S, f : \A m \in Int : IsFiniteSet(S) /\ f \in [S -> Int] =>
    /\ (\A x \in S : f[x] >= m) => Total(f) >= m * Cardinality(S)
    /\ (\A x \in S : f[x] <= m) => Total(f) <= m * Cardinality(S)
<1> SUFFICES ASSUME NEW S, NEW f \in [S -> Int], NEW m \in Int, IsFiniteSet(S)
             PROVE  /\ (\A x \in S : f[x] >= m) => TotalOver(f, S) >= m * Cardinality(S)
                    /\ (\A x \in S : f[x] <= m) => TotalOver(f, S) <= m * Cardinality(S)
  BY TotalIsOver
<1>1. PICK Bad : Bad = {T \in SUBSET S :
                    ~ /\ (\A x \in S : f[x] >= m) => TotalOver(f, T) >= m * Cardinality(T)
                      /\ (\A x \in S : f[x] <= m) => TotalOver(f, T) <= m * Cardinality(T)}
  OBVIOUS
<1>2. ASSUME Bad # {} PROVE FALSE
  <2>1. PICK T \in Bad : \A U \in Bad : U \subseteq T => U = T
    <3>1. \A U \in Bad : U \in SUBSET S
      BY <1>1
    <3> QED
      BY <1>2, <3>1, SmallestSubset
  <2>2. T \in SUBSET S /\ IsFiniteSet(T)
    BY <1>1, <2>1, FS_Subset
  <2>3. T # {}
    <3>1. TotalOver(f, {}) = 0 /\ Cardinality({}) = 0 /\ m * 0 = 0
      BY TotalEmpty, FS_EmptySet
    <3>2. {} \notin Bad
      BY <1>1, <3>1
    <3> QED
      BY <2>1, <3>2
  <2>31. PICK p \in T : p = Pick(T)
    BY <2>3, PickIn
  <2>4. PICK U : p = Pick(T) /\ U = T \ {p}
    BY <2>31
  <2>5. U \in SUBSET S /\ U \notin Bad /\ IsFiniteSet(U) /\ f[p] \in Int
    BY <2>1, <2>2, <2>4, FS_Subset
  <2>6. TotalOver(f, T) = f[p] + TotalOver(f, U)
    BY <2>2, <2>3, <2>4, TotalPick
  <2>7. PICK n \in Nat : n = Cardinality(U) /\ Cardinality(T) = n + 1
    <3>1. p \notin U /\ T = U \cup {p} /\ Cardinality(U) \in Nat
      BY <2>4, <2>5, FS_CardinalityType
    <3> QED
      BY <2>5, <3>1, FS_AddElement
  <2>8. PICK a \in Int : a = TotalOver(f, U)
    <3>1. \A x \in U : f[x] \in Int
      BY <2>5
    <3> QED
      BY <2>5, <3>1, TotalNat
  <2>9. PICK k \in Int : k = m * n /\ m * (n + 1) = k + m
    BY <2>7
  <2>10. /\ (\A x \in S : f[x] >= m) => a >= k
         /\ (\A x \in S : f[x] <= m) => a <= k
    BY <1>1, <2>5, <2>7, <2>8, <2>9
  <2>11. /\ (\A x \in S : f[x] >= m) => TotalOver(f, T) >= m * Cardinality(T)
         /\ (\A x \in S : f[x] <= m) => TotalOver(f, T) <= m * Cardinality(T)
    BY <2>2, <2>4, <2>5, <2>6, <2>7, <2>8, <2>9, <2>10
  <2> QED
    BY <1>1, <2>1, <2>11
<1>3. S \notin Bad
  BY <1>2
<1> QED
  BY <1>1, <1>3

\* The rounded mean of some numbers is not above all of them, and not below all.
LEMMA MeanIsBetween ==
  \A S, f, q : IsFiniteSet(S) /\ S # {} /\ f \in [S -> Nat] /\ q = Rounded(Total(f), Cardinality(S)) =>
    (\E x \in S : f[x] <= q) /\ (\E x \in S : f[x] >= q)
<1> SUFFICES ASSUME NEW S, NEW f \in [S -> Nat], NEW q, IsFiniteSet(S), S # {},
                    q = Rounded(Total(f), Cardinality(S))
             PROVE  (\E x \in S : f[x] <= q) /\ (\E x \in S : f[x] >= q)
  OBVIOUS
<1>1. PICK n \in Nat, of \in Nat \ {0} : n = Total(f) /\ of = Cardinality(S)
  <2>1. Total(f) \in Nat
    BY TotalType
  <2>2. Cardinality(S) \in Nat /\ Cardinality(S) # 0
    BY FS_CardinalityType, FS_EmptySet
  <2> QED
    BY <2>1, <2>2
<1>2. q \in Int /\ 2 * (of * q) <= 2 * n + of /\ 2 * n < 2 * (of * q) + of
  BY <1>1, RoundedIs
<1>3. f \in [S -> Int] /\ \A x \in S : f[x] \in Int
  OBVIOUS
<1>4. PICK k \in Int : k = of * q
  BY <1>2
<1>5. ASSUME \A x \in S : ~(f[x] <= q) PROVE FALSE
  <2>1. PICK m \in Int : m = q + 1
    BY <1>2
  <2>2. \A x \in S : f[x] >= m
    BY <1>2, <1>3, <1>5, <2>1
  <2>3. n >= m * of
    BY <1>1, <1>3, <2>2, TotalBounds
  <2>4. m * of = k + of
    BY <1>2, <1>4, <2>1
  <2> QED
    BY <1>2, <1>4, <2>3, <2>4
<1>6. ASSUME \A x \in S : ~(f[x] >= q) PROVE FALSE
  <2>1. PICK m \in Int : m = q - 1
    BY <1>2
  <2>2. \A x \in S : f[x] <= m
    BY <1>2, <1>3, <1>6, <2>1
  <2>3. n <= m * of
    BY <1>1, <1>3, <2>2, TotalBounds
  <2>4. m * of = k - of
    BY <1>2, <1>4, <2>1
  <2> QED
    BY <1>2, <1>4, <2>3, <2>4
<1> QED
  BY <1>5, <1>6

\* The sums of the insights page.
Revised(d) == activeTopics(d) \ neverRevised(d)

\* The topics that were ever revised.
LEMMA RevisedIs ==
  \A d \in DocType : /\ Revised(d) = {t \in activeTopics(d) : d.topics[t].history # <<>>}
                     /\ Revised(d) \in SUBSET Topics
BY ActiveFinite DEF Revised, neverRevised

\* The number of revisions on the insights page is that of the entries.
LEMMA RevisionsAre ==
  \A d \in DocType : \A at, z :
    overallStats(d, at, z).revisions = Cardinality(Entries(d))
<1> SUFFICES ASSUME NEW d \in DocType, NEW at, NEW z
             PROVE  overallStats(d, at, z).revisions = Cardinality(Entries(d))
  OBVIOUS
<1>1. PICK f : f = [t \in activeTopics(d) |-> Len(d.topics[t].history)]
  OBVIOUS
<1>2. Total(f) = Cardinality(Entries(d))
  BY <1>1, LengthsAddUp
<1>3. overallStats(d, at, z).revisions = Total(f)
  BY <1>1 DEF overallStats
<1> QED
  BY <1>2, <1>3

\* There is no entry exactly when no topic was revised.
LEMMA NothingRevised ==
  \A d \in DocType : Cardinality(Entries(d)) = 0 <=> Revised(d) = {}
<1> SUFFICES ASSUME NEW d \in DocType PROVE Cardinality(Entries(d)) = 0 <=> Revised(d) = {}
  OBVIOUS
<1>1. Cardinality(Entries(d)) = 0 <=> Entries(d) = {}
  BY EntriesFinite, FS_EmptySet
<1>2. ASSUME NEW p \in Entries(d) PROVE Revised(d) # {}
  <2>1. PICK t : t = p[1] /\ t \in activeTopics(d) /\ DOMAIN HistoryIn(d, t) # {}
    BY EntryIs
  <2>2. HistoryIn(d, t) # <<>>
    BY <2>1
  <2> QED
    BY <2>1, <2>2, RevisedIs DEF HistoryIn
<1>3. ASSUME NEW t \in Revised(d) PROVE Entries(d) # {}
  <2>1. t \in activeTopics(d) /\ t \in Topics /\ HistoryIn(d, t) # <<>>
    BY RevisedIs DEF HistoryIn
  <2>2. 1 \in DOMAIN HistoryIn(d, t)
    BY <2>1, DocHistories, LastIs
  <2> QED
    BY <2>1, <2>2, EntryIn
<1> QED
  BY <1>1, <1>2, <1>3

\* The mean of the days between revisions is not negative.
LEMMA GapsAre ==
  \A d \in DocType : \A at, z :
    (\A t \in Topics : Sorted(d.topics[t].history)) =>
      LET gap == overallStats(d, at, z).avgDaysBetween IN gap # None => gap >= 0
<1> SUFFICES ASSUME NEW d \in DocType, NEW at, NEW z, \A t \in Topics : Sorted(d.topics[t].history),
                    overallStats(d, at, z).avgDaysBetween # None
             PROVE  overallStats(d, at, z).avgDaysBetween >= 0
  OBVIOUS
<1>1. PICK A, R : A = activeTopics(d) /\ R = A \ neverRevised(d)
  OBVIOUS
<1>2. /\ A \in SUBSET Topics /\ IsFiniteSet(A) /\ R \in SUBSET Topics /\ IsFiniteSet(R)
      /\ \A t \in R : d.topics[t].history # <<>>
  BY <1>1, ActiveFinite, RevisedIs, TopicsCount DEF Revised
<1>3. PICK f, g : /\ f = [t \in A |-> Max({0, Len(d.topics[t].history) - 1})]
                  /\ g = [t \in R |-> lastRevisedAt(d.topics[t].history) - d.topics[t].history[1].timestamp]
  OBVIOUS
<1>4. overallStats(d, at, z).avgDaysBetween =
        IF Total(f) = 0 THEN None ELSE InTenths(Total(g), Total(f) * Day)
  BY <1>1, <1>3 DEF overallStats
<1>5. f \in [A -> Nat]
  <2>1. ASSUME NEW t \in A PROVE Max({0, Len(d.topics[t].history) - 1}) \in Nat
    <3>1. PICK n \in Int : n = Len(d.topics[t].history) - 1
      BY <1>2, DocHistories, HistoryType
    <3>2. PICK S : S = {0, n}
      OBVIOUS
    <3>3. IsFiniteSet(S) /\ S # {} /\ S \subseteq Int
      <4>1. S = {0} \cup {n} /\ IsFiniteSet({0})
        BY <3>2, FS_Singleton
      <4> QED
        BY <3>2, <4>1, FS_AddElement
    <3>4. Max(S) \in S /\ Max(S) >= 0
      BY <3>2, <3>3, LargestExists
    <3> QED
      BY <3>1, <3>2, <3>4
  <2> QED
    BY <1>3, <2>1
<1>6. g \in [R -> Nat]
  <2>1. ASSUME NEW t \in R
        PROVE  lastRevisedAt(d.topics[t].history) - d.topics[t].history[1].timestamp \in Nat
    <3>1. PICK h \in Histories : h = d.topics[t].history /\ Sorted(h) /\ h # <<>>
      BY <1>2, DocHistories
    <3> QED
      BY <3>1, SpanIs
  <2> QED
    BY <1>3, <2>1
<1>7. PICK m \in Nat, n \in Nat : m = Total(f) /\ n = Total(g)
  BY <1>2, <1>5, <1>6, TotalType
<1>8. m * Day \in Nat
  BY RevisionAssumption
<1>9. overallStats(d, at, z).avgDaysBetween = IF m = 0 THEN None ELSE InTenths(n, m * Day)
  BY <1>4, <1>7
<1>10. InTenths(n, m * Day) >= 0
  BY <1>8, InTenthsType
<1> QED
  BY <1>9, <1>10

\* The queue, what is on track, and what is counted twice.
LEMMA BandsAre ==
  \A d \in DocType : \A at, z \in Int :
    /\ overallStats(d, at, z).overdue + overallStats(d, at, z).dueToday =
         Cardinality(todayQueue(d, at, z))
    /\ onTrack(d, at, z) =
         Cardinality(activeTopics(d) \ (todayQueue(d, at, z) \cup neverRevised(d)))
           - Cardinality(todayQueue(d, at, z) \cap neverRevised(d))
<1> SUFFICES ASSUME NEW d \in DocType, NEW at \in Int, NEW z \in Int
             PROVE  /\ overallStats(d, at, z).overdue + overallStats(d, at, z).dueToday =
                         Cardinality(todayQueue(d, at, z))
                    /\ onTrack(d, at, z) =
                         Cardinality(activeTopics(d) \ (todayQueue(d, at, z) \cup neverRevised(d)))
                           - Cardinality(todayQueue(d, at, z) \cap neverRevised(d))
  OBVIOUS
<1>1. PICK A, L, D, Q, N : /\ A = activeTopics(d) /\ L = LateSet(d, at, z) /\ D = DueSet(d, at, z)
                           /\ Q = todayQueue(d, at, z) /\ N = neverRevised(d)
  OBVIOUS
<1>2. A \in SUBSET Topics /\ L \in SUBSET A /\ D \in SUBSET A /\ Q \in SUBSET A /\ N \in SUBSET A
      /\ Q = L \cup D /\ IsFiniteSet(A)
  BY <1>1, ActiveFinite, ShownIs DEF LateSet, DueSet, neverRevised
<1>3. L \cap D = {}
  <2>1. localDay(at, z) \in Int
    BY DayType
  <2> QED
    BY <1>1, <2>1 DEF LateSet, DueSet, Late, Due
<1>4. Cardinality(Q) = Cardinality(L) + Cardinality(D)
  BY <1>2, <1>3, DisjointUnion
<1>5. PICK U : U = Q \cup N
  OBVIOUS
<1>6. Cardinality(U) = Cardinality(Q) + Cardinality(N) - Cardinality(Q \cap N)
  BY <1>2, <1>5, FS_Subset, FS_Union
<1>7. Cardinality(A \ U) = Cardinality(A) - Cardinality(U)
  <2>1. A \cap U = U
    BY <1>2, <1>5
  <2> QED
    BY <1>2, <2>1, FS_Difference
<1>8. /\ Cardinality(A) \in Nat /\ Cardinality(L) \in Nat /\ Cardinality(D) \in Nat
      /\ Cardinality(Q) \in Nat /\ Cardinality(N) \in Nat /\ Cardinality(U) \in Nat
      /\ Cardinality(Q \cap N) \in Nat
  BY <1>2, <1>5, TopicsCount
<1>9. /\ ShownAs(d, {"Overdue"}, at, z) = L /\ ShownAs(d, {"DueToday"}, at, z) = D
  BY <1>1, ShownIs
<1>10. overallStats(d, at, z).overdue = Cardinality(L) /\ overallStats(d, at, z).dueToday = Cardinality(D)
  BY <1>9 DEF overallStats
<1>11. onTrack(d, at, z) = Cardinality(A) - Cardinality(L) - Cardinality(D) - Cardinality(N)
  BY <1>1, <1>9 DEF onTrack
<1> QED
  BY <1>1, <1>4, <1>5, <1>6, <1>7, <1>8, <1>10, <1>11

\* The least revised topics: somebody is among them when anybody was revised, and
\* none of the most revised has fewer revisions.
Count(d, t) == Len(d.topics[t].history)
Latest(d, t) == lastRevisedAt(d.topics[t].history)
Less(d, t, u) == \/ Count(d, t) < Count(d, u)
                 \/ Count(d, t) = Count(d, u) /\ t \in Revised(d) /\ Latest(d, t) > Latest(d, u)
More(d, t, u) == \/ Count(d, t) > Count(d, u)
                 \/ Count(d, t) = Count(d, u) /\ t \in Revised(d) /\ Latest(d, t) > Latest(d, u)

\* The figures by which topics are ranked.
LEMMA CountType ==
  \A d \in DocType : /\ \A t \in Topics : Count(d, t) \in Nat
                     /\ \A t \in Revised(d) : t \in Topics /\ Count(d, t) \in Nat /\ Latest(d, t) \in Int
<1> SUFFICES ASSUME NEW d \in DocType
             PROVE  /\ \A t \in Topics : Count(d, t) \in Nat
                    /\ \A t \in Revised(d) : t \in Topics /\ Count(d, t) \in Nat /\ Latest(d, t) \in Int
  OBVIOUS
<1>1. \A t \in Topics : Count(d, t) \in Nat
  BY DocHistories, HistoryType DEF Count
<1>2. \A t \in Revised(d) : t \in Topics /\ Latest(d, t) \in Int
  BY RevisedIs, DocHistories, LastIs DEF Latest
<1> QED
  BY <1>1, <1>2

\* When anything was revised, something is revised least.
LEMMA SomeoneIsLeast ==
  \A d \in DocType : Revised(d) # {} => \E t \in Revised(d) : \A u \in Revised(d) : ~Less(d, u, t)
<1> SUFFICES ASSUME NEW d \in DocType, Revised(d) # {}
             PROVE  \E t \in Revised(d) : \A u \in Revised(d) : ~Less(d, u, t)
  OBVIOUS
<1>1. PICK R, F : R = Revised(d) /\ F = {T \in SUBSET R : \E t \in R : T = {u \in R : Less(d, u, t)}}
  OBVIOUS
<1>2. IsFiniteSet(R)
  BY <1>1, RevisedIs, TopicsCount
<1>3. \A T \in F : T \in SUBSET R
  BY <1>1
<1>4. F # {}
  <2>1. PICK t \in R : TRUE
    BY <1>1
  <2>2. {u \in R : Less(d, u, t)} \in F
    BY <1>1
  <2> QED
    BY <2>2
<1>5. PICK T \in F : \A U \in F : U \subseteq T => U = T
  BY <1>2, <1>3, <1>4, SmallestSubset
<1>6. PICK t \in R : T = {u \in R : Less(d, u, t)}
  BY <1>1
<1>7. ASSUME NEW u \in R, Less(d, u, t) PROVE FALSE
  <2>1. PICK U : U = {v \in R : Less(d, v, u)}
    OBVIOUS
  <2>2. \A v \in R : Count(d, v) \in Nat /\ Latest(d, v) \in Int
    BY <1>1, CountType
  <2>3. ASSUME NEW v \in U PROVE v \in T
    <3>1. v \in R /\ Less(d, v, u)
      BY <2>1
    <3>2. Less(d, v, t)
      BY <1>1, <1>7, <2>2, <3>1 DEF Less
    <3> QED
      BY <1>6, <3>1, <3>2
  <2>4. u \in T /\ u \notin U
    <3>1. ~Less(d, u, u)
      BY <2>2 DEF Less
    <3> QED
      BY <1>6, <1>7, <2>1, <3>1
  <2>5. U \in F
    BY <1>1, <2>1
  <2> QED
    BY <1>5, <2>3, <2>4, <2>5
<1> QED
  BY <1>1, <1>7

\* The first of each ranking: the topics with none before them.
LEMMA RanksAre ==
  \A d \in DocType :
    /\ topicsByRevisionCount(d, 1).least = {t \in Revised(d) : \A u \in Revised(d) : ~Less(d, u, t)}
    /\ topicsByRevisionCount(d, 1).most =
         {t \in activeTopics(d) : \A u \in activeTopics(d) : ~More(d, u, t)}
<1> SUFFICES ASSUME NEW d \in DocType
             PROVE  /\ topicsByRevisionCount(d, 1).least =
                         {t \in Revised(d) : \A u \in Revised(d) : ~Less(d, u, t)}
                    /\ topicsByRevisionCount(d, 1).most =
                         {t \in activeTopics(d) : \A u \in activeTopics(d) : ~More(d, u, t)}
  OBVIOUS
<1>1. /\ topicsByRevisionCount(d, 1).least =
           {t \in Revised(d) : Cardinality({u \in Revised(d) : Less(d, u, t)}) < 1}
      /\ topicsByRevisionCount(d, 1).most =
           {t \in activeTopics(d) : Cardinality({u \in activeTopics(d) : More(d, u, t)}) < 1}
  BY DEF topicsByRevisionCount, Revised, Less, More, Count, Latest
<1>2. \A S \in SUBSET Topics : Cardinality(S) < 1 <=> S = {}
  <2>1. ASSUME NEW S \in SUBSET Topics PROVE Cardinality(S) < 1 <=> S = {}
    <3>1. IsFiniteSet(S) /\ Cardinality(S) \in Nat
      BY TopicsCount
    <3>2. Cardinality(S) = 0 <=> S = {}
      BY <3>1, FS_EmptySet
    <3> QED
      BY <3>1, <3>2
  <2> QED
    BY <2>1
<1>3. Revised(d) \in SUBSET Topics /\ activeTopics(d) \in SUBSET Topics
  BY RevisedIs, ActiveFinite
<1>4. ASSUME NEW t
      PROVE  Cardinality({u \in Revised(d) : Less(d, u, t)}) < 1 <=> \A u \in Revised(d) : ~Less(d, u, t)
  <2>1. PICK S : S = {u \in Revised(d) : Less(d, u, t)}
    OBVIOUS
  <2>2. S \in SUBSET Topics /\ (S = {} <=> \A u \in Revised(d) : ~Less(d, u, t))
    BY <1>3, <2>1
  <2> QED
    BY <1>2, <2>1, <2>2
<1>5. ASSUME NEW t
      PROVE  Cardinality({u \in activeTopics(d) : More(d, u, t)}) < 1 <=>
               \A u \in activeTopics(d) : ~More(d, u, t)
  <2>1. PICK S : S = {u \in activeTopics(d) : More(d, u, t)}
    OBVIOUS
  <2>2. S \in SUBSET Topics /\ (S = {} <=> \A u \in activeTopics(d) : ~More(d, u, t))
    BY <1>3, <2>1
  <2> QED
    BY <1>2, <2>1, <2>2
<1> QED
  BY <1>1, <1>4, <1>5

\* Cards, rows and the plan dialog list the active topics, unless the subject is
\* archived.
LEMMA AllAreListed ==
  \A d : Subject \notin d.archived =>
    TopicsOfSubject(d) = activeTopics(d) /\ PlanRows(d) = activeTopics(d)
BY DEF activeTopics, PlanRows

\* Ring and figures of the card.
LEMMA CardsAre ==
  \A d \in DocType : \A at, z \in Int : Subject \notin d.archived =>
    /\ SubjectCard(d, at, z).ring = "overdue" <=> QueueGroups(d, at, z).overdue # {}
    /\ SubjectCard(d, at, z).ring = "due" <=>
         QueueGroups(d, at, z).overdue = {} /\ QueueGroups(d, at, z).dueToday # {}
    /\ SubjectCard(d, at, z).stats.pending =
         Cardinality(todayQueue(d, at, z) \cup DefaultChecked(d, at, z))
    /\ SubjectCard(d, at, z).stats.lastRevised = None <=> overallStats(d, at, z).revisions = 0
<1> SUFFICES ASSUME NEW d \in DocType, NEW at \in Int, NEW z \in Int, Subject \notin d.archived
             PROVE  /\ SubjectCard(d, at, z).ring = "overdue" <=> QueueGroups(d, at, z).overdue # {}
                    /\ SubjectCard(d, at, z).ring = "due" <=>
                         QueueGroups(d, at, z).overdue = {} /\ QueueGroups(d, at, z).dueToday # {}
                    /\ SubjectCard(d, at, z).stats.pending =
                         Cardinality(todayQueue(d, at, z) \cup DefaultChecked(d, at, z))
                    /\ SubjectCard(d, at, z).stats.lastRevised = None <=> overallStats(d, at, z).revisions = 0
  OBVIOUS
<1>0. PICK groups, card, stats :
        /\ groups = QueueGroups(d, at, z) /\ card = SubjectCard(d, at, z)
        /\ stats = overallStats(d, at, z)
  OBVIOUS
<1>1. PICK A : /\ A = activeTopics(d) /\ A \in SUBSET Topics
               /\ TopicsOfSubject(d) = A /\ PlanRows(d) = A
  BY AllAreListed, ActiveFinite
<1>2. \A t \in A :
        /\ (badge(d, t, at, z) = "Overdue") = Late(d.topics[t], at, z)
        /\ (badge(d, t, at, z) = "DueToday") = Due(d.topics[t], at, z)
        /\ (badge(d, t, at, z) = "NeverRevised") = (d.topics[t].plannedAt = None /\ d.topics[t].history = <<>>)
        /\ (badge(d, t, at, z) = "Unplanned") = (d.topics[t].plannedAt = None /\ d.topics[t].history # <<>>)
        /\ inGoodStanding(d.topics[t], at, z) = Ahead(d.topics[t], at, z)
  BY <1>1, DocTopics, BadgeIs DEF badge
<1>3. groups.overdue = LateSet(d, at, z) /\ groups.dueToday = DueSet(d, at, z)
  BY <1>0, GroupsAre
<1>4. /\ groups.overdue = {t \in A : badge(d, t, at, z) = "Overdue"}
      /\ groups.dueToday = {t \in A : badge(d, t, at, z) = "DueToday"}
  <2>1. /\ groups.overdue = {t \in A : Late(d.topics[t], at, z)}
        /\ groups.dueToday = {t \in A : Due(d.topics[t], at, z)}
    BY <1>1, <1>3 DEF LateSet, DueSet
  <2> QED
    BY <1>2, <2>1
<1>5. card.ring = subjectStatus(d, at, z)
  BY <1>0 DEF SubjectCard
<1>6. /\ groups.overdue # {} <=> \E t \in A : badge(d, t, at, z) = "Overdue"
      /\ groups.dueToday # {} <=> \E t \in A : badge(d, t, at, z) = "DueToday"
  BY <1>4
<1>7. /\ card.ring = "overdue" <=> groups.overdue # {}
      /\ card.ring = "due" <=> groups.overdue = {} /\ groups.dueToday # {}
  <2>1. card.ring = IF \E t \in A : badge(d, t, at, z) = "Overdue" THEN "overdue"
                    ELSE IF \E t \in A : badge(d, t, at, z) = "DueToday" THEN "due"
                    ELSE IF \E t \in A : badge(d, t, at, z) = "RecentlyRevised" THEN "recent"
                    ELSE "none"
    BY <1>1, <1>5 DEF subjectStatus
  <2>2. CASE groups.overdue # {}
    BY <1>6, <2>1, <2>2
  <2>3. CASE groups.overdue = {} /\ groups.dueToday # {}
    BY <1>6, <2>1, <2>3
  <2>4. CASE groups.overdue = {} /\ groups.dueToday = {}
    <3>1. card.ring \in {"recent", "none"}
      BY <1>6, <2>1, <2>4
    <3> QED
      BY <2>4, <3>1
  <2> QED
    BY <2>2, <2>3, <2>4
<1>8. card.stats.pending = Cardinality(todayQueue(d, at, z) \cup DefaultChecked(d, at, z))
  <2>1. PICK P : P = {t \in A : ~inGoodStanding(d.topics[t], at, z)}
    OBVIOUS
  <2>2. card.stats.pending = Cardinality(P)
    BY <1>0, <1>1, <2>1 DEF SubjectCard, subjectStats
  <2>3. DefaultChecked(d, at, z) = {t \in A : badge(d, t, at, z) \in {"Unplanned", "NeverRevised"}}
    BY <1>1 DEF DefaultChecked
  <2>4. todayQueue(d, at, z) = {t \in A : badge(d, t, at, z) \in {"Overdue", "DueToday"}}
    BY <1>1 DEF todayQueue, ShownAs
  <2>5. P = todayQueue(d, at, z) \cup DefaultChecked(d, at, z)
    BY <2>1, <2>3, <2>4 DEF inGoodStanding, badge
  <2> QED
    BY <2>2, <2>5
<1>9. stats.revisions = 0 <=> Revised(d) = {}
  BY <1>0, RevisionsAre, NothingRevised
<1>10. card.stats.lastRevised = None <=> Revised(d) = {}
  <2>1. PICK S : S = {lastRevisedAt(d.topics[t].history) : t \in A} \ {None}
    OBVIOUS
  <2>2. card.stats.lastRevised = IF S = {} THEN None ELSE Max(S)
    BY <1>0, <1>1, <2>1 DEF SubjectCard, subjectStats
  <2>3. \A t \in A : /\ d.topics[t].history = <<>> => lastRevisedAt(d.topics[t].history) = None
                     /\ d.topics[t].history # <<>> => lastRevisedAt(d.topics[t].history) \in Int
    BY <1>1, DocHistories, LastIs
  <2>4. S \subseteq Int
    BY <2>1, <2>3
  <2>5. S = {} <=> Revised(d) = {}
    <3>1. Revised(d) = {t \in A : d.topics[t].history # <<>>}
      BY <1>1, RevisedIs
    <3>2. \A t \in A : lastRevisedAt(d.topics[t].history) # None <=> d.topics[t].history # <<>>
      BY <2>3, RevisionAssumption
    <3>3. Revised(d) = {t \in A : lastRevisedAt(d.topics[t].history) # None}
      BY <3>1, <3>2
    <3> QED
      BY <2>1, <3>3
  <2>6. IsFiniteSet(S)
    <3>1. PICK f, T : f = [t \in A |-> lastRevisedAt(d.topics[t].history)] /\ T = {f[t] : t \in A}
      OBVIOUS
    <3>2. IsFiniteSet(T)
      <4>1. IsFiniteSet(A) /\ DOMAIN f = A
        BY <1>1, <3>1, TopicsCount
      <4> QED
        BY <3>1, <4>1, FiniteImage
    <3>3. S \in SUBSET T
      BY <2>1, <3>1
    <3> QED
      BY <3>2, <3>3, FS_Subset
  <2>7. S # {} => Max(S) \in Int
    BY <2>4, <2>6, LargestExists
  <2> QED
    BY <2>2, <2>5, <2>7, RevisionAssumption
<1> QED
  BY <1>0, <1>7, <1>8, <1>9, <1>10

\* The rows of the chapters have the active topics between them, each in one row.
LEMMA RowsHaveAll ==
  \A d \in DocType : \A at, z \in Int : Subject \notin d.archived =>
    Total([c \in ChaptersListed(d) |-> ChapterCard(d, c, at, z).topics]) = overallStats(d, at, z).totalTopics
<1> SUFFICES ASSUME NEW d \in DocType, NEW at \in Int, NEW z \in Int, Subject \notin d.archived
             PROVE  Total([c \in ChaptersListed(d) |-> ChapterCard(d, c, at, z).topics]) =
                      overallStats(d, at, z).totalTopics
  OBVIOUS
<1>1. PICK A, D, f : /\ A = activeTopics(d) /\ A = TopicsOfSubject(d) /\ D = ChaptersListed(d)
                     /\ f = [c \in D |-> ChapterCard(d, c, at, z).topics]
  BY AllAreListed
<1>2. \A t \in A : \E c \in D : t \in TopicsListed(d, c)
  BY <1>1, TopicsOfSubjectAre
<1>3. \A c \in D : TopicsListed(d, c) = {t \in A : t \in c}
  BY <1>1, TopicsOfSubjectAre
<1>4. \A c, e \in D : \A t \in A : t \in c /\ t \in e => c = e
  BY <1>1, TopicsOfSubjectAre
<1>5. PICK key : key = [t \in A |-> CHOOSE c \in D : t \in c]
  OBVIOUS
<1>6. \A t \in A : key[t] \in D /\ t \in key[t]
  BY <1>2, <1>3, <1>5
<1>7. ASSUME NEW c \in D PROVE f[c] = Cardinality({t \in A : key[t] = c})
  <2>1. {t \in A : key[t] = c} = TopicsListed(d, c)
    BY <1>3, <1>4, <1>6
  <2> QED
    BY <1>1, <2>1 DEF ChapterCard
<1>8. Total(f) = Cardinality({t \in A : key[t] \in D})
  <2>1. IsFiniteSet(A) /\ IsFiniteSet(D) /\ DOMAIN f = D
    BY <1>1, ActiveFinite, ChaptersFinite
  <2> QED
    BY <1>7, <2>1, TotalCounts
<1>9. {t \in A : key[t] \in D} = A
  BY <1>6
<1>10. overallStats(d, at, z).totalTopics = Cardinality(A)
  BY <1>1 DEF overallStats
<1> QED
  BY <1>1, <1>8, <1>9, <1>10

\* The percentage of a row is a natural number.
LEMMA RowProgressType ==
  \A d \in DocType : \A at, z \in Int : \A c \in ChaptersListed(d) : chapterProgress(d, c, at, z) \in Nat
<1> SUFFICES ASSUME NEW d \in DocType, NEW at \in Int, NEW z \in Int, NEW c \in ChaptersListed(d)
             PROVE  chapterProgress(d, c, at, z) \in Nat
  OBVIOUS
<1>1. PICK T, G : T = TopicsListed(d, c) /\ G = {t \in T : inGoodStanding(d.topics[t], at, z)}
  OBVIOUS
<1>2. T \in SUBSET Topics /\ G \in SUBSET Topics
  BY <1>1, TopicsOfSubjectAre
<1>3. PICK m \in Nat, n \in Nat : m = 100 * Cardinality(G) /\ n = Cardinality(T)
  BY <1>2, TopicsCount
<1>4. chapterProgress(d, c, at, z) = Rounded(m, n)
  BY <1>1, <1>3 DEF chapterProgress, Percent
<1>5. CASE n = 0
  BY <1>4, <1>5 DEF Rounded
<1>6. CASE n # 0
  <2>1. n \in Nat \ {0}
    BY <1>6
  <2>2. Rounded(m, n) \in Int /\ Rounded(m, n) >= 0
    BY <2>1, RoundedIs
  <2> QED
    BY <1>4, <2>2
<1> QED
  BY <1>5, <1>6

\* The percentage of the subject lies between those of the chapters' rows, and that
\* of an only row is the percentage of the gauge.
LEMMA ProgressAgrees ==
  \A d \in DocType : \A at, z \in Int :
    /\ ChaptersListed(d) # {} =>
         /\ \E c \in ChaptersListed(d) : chapterProgress(d, c, at, z) <= subjectProgress(d, at, z)
         /\ \E c \in ChaptersListed(d) : chapterProgress(d, c, at, z) >= subjectProgress(d, at, z)
    /\ Subject \notin d.archived => \A c : ChaptersListed(d) = {c} =>
         chapterProgress(d, c, at, z) = overallStats(d, at, z).completionPct
<1> SUFFICES ASSUME NEW d \in DocType, NEW at \in Int, NEW z \in Int
             PROVE  /\ ChaptersListed(d) # {} =>
                         /\ \E c \in ChaptersListed(d) :
                              chapterProgress(d, c, at, z) <= subjectProgress(d, at, z)
                         /\ \E c \in ChaptersListed(d) :
                              chapterProgress(d, c, at, z) >= subjectProgress(d, at, z)
                    /\ Subject \notin d.archived => \A c : ChaptersListed(d) = {c} =>
                         chapterProgress(d, c, at, z) = overallStats(d, at, z).completionPct
  OBVIOUS
<1>1. ASSUME ChaptersListed(d) # {}
      PROVE  /\ \E c \in ChaptersListed(d) : chapterProgress(d, c, at, z) <= subjectProgress(d, at, z)
             /\ \E c \in ChaptersListed(d) : chapterProgress(d, c, at, z) >= subjectProgress(d, at, z)
  <2>1. PICK D, f : D = ChaptersListed(d) /\ f = [c \in D |-> chapterProgress(d, c, at, z)]
    OBVIOUS
  <2>2. PICK q : q = subjectProgress(d, at, z)
    OBVIOUS
  <2>3. q = Rounded(Total(f), Cardinality(D))
    BY <2>1, <2>2 DEF subjectProgress
  <2>4. IsFiniteSet(D) /\ D # {} /\ f \in [D -> Nat]
    BY <1>1, <2>1, ChaptersFinite, RowProgressType
  <2>5. (\E c \in D : f[c] <= q) /\ (\E c \in D : f[c] >= q)
    BY <2>3, <2>4, MeanIsBetween
  <2> QED
    BY <2>1, <2>2, <2>5
<1>2. ASSUME Subject \notin d.archived, NEW c, ChaptersListed(d) = {c}
      PROVE  chapterProgress(d, c, at, z) = overallStats(d, at, z).completionPct
  <2>1. TopicsListed(d, c) = activeTopics(d)
    BY <1>2, AllAreListed DEF TopicsOfSubject
  <2> QED
    BY <2>1 DEF chapterProgress, overallStats
<1> QED
  BY <1>1, <1>2

\* FiguresAgree follows from the invariant.
LEMMA IInvFigures == IInv => FiguresAgree
<1> SUFFICES ASSUME IInv PROVE FiguresAgree
  OBVIOUS
<1>1. /\ doc \in DocType /\ now \in Int /\ zone \in Int
      /\ \A t \in Topics : Sorted(doc.topics[t].history)
  BY DEF IInv, TopicsGood, GoodTopic
<1>2. PICK stats, ranks, card, row, groups :
        /\ stats = overallStats(doc, now, zone) /\ ranks = topicsByRevisionCount(doc, 1)
        /\ card = SubjectCard(doc, now, zone) /\ groups = QueueGroups(doc, now, zone)
        /\ row = [c \in ChaptersListed(doc) |-> ChapterCard(doc, c, now, zone)]
  OBVIOUS
<1>3. /\ stats.overdue + stats.dueToday = Cardinality(todayQueue(doc, now, zone))
      /\ onTrack(doc, now, zone) =
           Cardinality(activeTopics(doc) \ (todayQueue(doc, now, zone) \cup neverRevised(doc)))
             - Cardinality(todayQueue(doc, now, zone) \cap neverRevised(doc))
  BY <1>1, <1>2, BandsAre
<1>4. stats.avgDaysBetween # None => stats.avgDaysBetween >= 0
  BY <1>1, <1>2, GapsAre
<1>5. /\ ranks.least = {t \in Revised(doc) : \A u \in Revised(doc) : ~Less(doc, u, t)}
      /\ ranks.most = {t \in activeTopics(doc) : \A u \in activeTopics(doc) : ~More(doc, u, t)}
  BY <1>1, <1>2, RanksAre
<1>6. (ranks.least = {}) = (stats.revisions = 0)
  <2>1. stats.revisions = 0 <=> Revised(doc) = {}
    BY <1>1, <1>2, RevisionsAre, NothingRevised
  <2>2. ranks.least = {} <=> Revised(doc) = {}
    BY <1>1, <1>5, SomeoneIsLeast
  <2> QED
    BY <2>1, <2>2
<1>7. ASSUME NEW t \in ranks.most, NEW u \in ranks.least
      PROVE  Len(History(t)) >= Len(History(u))
  <2>1. t \in Topics /\ u \in Topics /\ u \in activeTopics(doc) /\ ~More(doc, u, t)
    BY <1>1, <1>5, ActiveFinite, RevisedIs DEF Revised
  <2>2. Count(doc, t) \in Nat /\ Count(doc, u) \in Nat
    BY <1>1, <2>1, CountType
  <2> QED
    BY <2>1, <2>2 DEF More, Count, History
<1>8. Subject \notin doc.archived =>
        /\ (card.ring = "overdue") = (groups.overdue # {})
        /\ (card.ring = "due") = (groups.overdue = {} /\ groups.dueToday # {})
        /\ card.stats.pending = Cardinality(todayQueue(doc, now, zone) \cup DefaultChecked(doc, now, zone))
        /\ (card.stats.lastRevised = None) = (stats.revisions = 0)
  <2>1. ASSUME Subject \notin doc.archived
        PROVE  /\ card.ring = "overdue" <=> groups.overdue # {}
               /\ card.ring = "due" <=> groups.overdue = {} /\ groups.dueToday # {}
               /\ card.stats.pending = Cardinality(todayQueue(doc, now, zone) \cup DefaultChecked(doc, now, zone))
               /\ card.stats.lastRevised = None <=> stats.revisions = 0
    BY <1>1, <1>2, <2>1, CardsAre
  <2> QED
    BY <2>1
<1>9. /\ card.progress = subjectProgress(doc, now, zone) /\ DOMAIN row = ChaptersListed(doc)
      /\ \A c \in ChaptersListed(doc) : row[c].progress = chapterProgress(doc, c, now, zone)
  BY <1>2 DEF SubjectCard, ChapterCard
<1>10. Subject \notin doc.archived => SubjectCompletion(doc, now, zone) = card.progress
  BY <1>9 DEF SubjectCompletion
<1>11. Subject \notin doc.archived => Total([c \in DOMAIN row |-> row[c].topics]) = stats.totalTopics
  <2>1. [c \in DOMAIN row |-> row[c].topics] =
          [c \in ChaptersListed(doc) |-> ChapterCard(doc, c, now, zone).topics]
    BY <1>2
  <2> QED
    BY <1>1, <1>2, <2>1, RowsHaveAll
<1>12. DOMAIN row # {} => /\ \E c \in DOMAIN row : row[c].progress <= card.progress
                          /\ \E c \in DOMAIN row : row[c].progress >= card.progress
  <2>1. ChaptersListed(doc) # {} =>
          /\ \E c \in ChaptersListed(doc) : chapterProgress(doc, c, now, zone) <= subjectProgress(doc, now, zone)
          /\ \E c \in ChaptersListed(doc) : chapterProgress(doc, c, now, zone) >= subjectProgress(doc, now, zone)
    BY <1>1, ProgressAgrees
  <2> QED
    BY <1>9, <2>1
<1>13. Subject \notin doc.archived =>
         \A c \in Chapters : DOMAIN row = {c} => row[c].progress = stats.completionPct
  <2>1. Subject \notin doc.archived => \A c : ChaptersListed(doc) = {c} =>
          chapterProgress(doc, c, now, zone) = overallStats(doc, now, zone).completionPct
    BY <1>1, ProgressAgrees
  <2> QED
    BY <1>2, <1>9, <2>1
<1> QED
  BY <1>2, <1>3, <1>4, <1>6, <1>7, <1>8, <1>10, <1>11, <1>12, <1>13 DEF FiguresAgree

-----------------------------------------------------------------------------
(* Agenda, week strip and calendar.                                        *)

Done(v, at, z) == v.history # <<>> /\ localDay(lastRevisedAt(v.history), z) = localDay(at, z)
PlanDay(v, z) == localDay(v.plannedAt, z)

\* Where a topic stands, case by case.
LEMMA PlaceIs ==
  \A v \in TopicType : \A at, z \in Int :
    /\ PlaceIn(v, at, z).status \in {"overdue", "completed", "due", "unplanned", "none"}
    /\ PlaceIn(v, at, z).status = "overdue" <=> Late(v, at, z)
    /\ PlaceIn(v, at, z).status = "completed" <=> ~Late(v, at, z) /\ Done(v, at, z)
    /\ PlaceIn(v, at, z).status = "due" <=>
         ~Late(v, at, z) /\ ~Done(v, at, z) /\ v.plannedAt # None
    /\ PlaceIn(v, at, z).status = "none" => v.plannedAt = None /\ v.history = <<>>
    /\ PlaceIn(v, at, z).status \in {"overdue", "due"} => PlaceIn(v, at, z).day = PlanDay(v, z)
    /\ PlaceIn(v, at, z).status = "completed" => PlaceIn(v, at, z).day = localDay(at, z)
    /\ PlaceIn(v, at, z).status \in {"unplanned", "none"} => PlaceIn(v, at, z).day = None
<1> SUFFICES ASSUME NEW v \in TopicType, NEW at \in Int, NEW z \in Int
             PROVE
    /\ PlaceIn(v, at, z).status \in {"overdue", "completed", "due", "unplanned", "none"}
    /\ PlaceIn(v, at, z).status = "overdue" <=> Late(v, at, z)
    /\ PlaceIn(v, at, z).status = "completed" <=> ~Late(v, at, z) /\ Done(v, at, z)
    /\ PlaceIn(v, at, z).status = "due" <=>
         ~Late(v, at, z) /\ ~Done(v, at, z) /\ v.plannedAt # None
    /\ PlaceIn(v, at, z).status = "none" => v.plannedAt = None /\ v.history = <<>>
    /\ PlaceIn(v, at, z).status \in {"overdue", "due"} => PlaceIn(v, at, z).day = PlanDay(v, z)
    /\ PlaceIn(v, at, z).status = "completed" => PlaceIn(v, at, z).day = localDay(at, z)
    /\ PlaceIn(v, at, z).status \in {"unplanned", "none"} => PlaceIn(v, at, z).day = None
  OBVIOUS
<1>1. PICK p, today, due : p = PlaceIn(v, at, z) /\ today = localDay(at, z) /\ due = PlanDay(v, z)
  OBVIOUS
<1>2. badgeState(v, at, z) = "Overdue" <=> Late(v, at, z)
  BY BadgeIs
<1>3. CASE Late(v, at, z)
  <2>1. p = [status |-> "overdue", day |-> due]
    BY <1>1, <1>2, <1>3 DEF PlaceIn, PlanDay
  <2> QED
    BY <1>1, <1>3, <2>1
<1>4. CASE ~Late(v, at, z) /\ Done(v, at, z)
  <2>1. p = [status |-> "completed", day |-> today]
    BY <1>1, <1>2, <1>4 DEF PlaceIn, Done
  <2> QED
    BY <1>1, <1>4, <2>1
<1>5. CASE ~Late(v, at, z) /\ ~Done(v, at, z) /\ v.plannedAt # None
  <2>1. p = [status |-> "due", day |-> due]
    BY <1>1, <1>2, <1>5 DEF PlaceIn, Done, PlanDay, nextDueDate
  <2> QED
    BY <1>1, <1>5, <2>1
<1>6. CASE ~Late(v, at, z) /\ ~Done(v, at, z) /\ v.plannedAt = None
  <2>1. p = [status |-> IF v.history = <<>> THEN "none" ELSE "unplanned", day |-> None]
    BY <1>1, <1>2, <1>6 DEF PlaceIn, Done, nextDueDate
  <2> QED
    BY <1>1, <1>6, <2>1
<1> QED
  BY <1>3, <1>4, <1>5, <1>6

\* A topic revised today has its last revision today.
LEMMA DoneIs ==
  \A v : \A at, z \in Int : GoodTopic(v, at) =>
    (RevisedOn(v, localDay(at, z), z) <=> Done(v, at, z))
<1> SUFFICES ASSUME NEW v, NEW at \in Int, NEW z \in Int, GoodTopic(v, at)
             PROVE  RevisedOn(v, localDay(at, z), z) <=> Done(v, at, z)
  OBVIOUS
<1>1. PICK h, today : h = v.history /\ today = localDay(at, z)
  OBVIOUS
<1>2. h \in Histories /\ Sorted(h) /\ Past(h, at) /\ today \in Int
  BY <1>1, DayType DEF GoodTopic, TopicType
<1>3. ASSUME Done(v, at, z) PROVE RevisedOn(v, today, z)
  <2>1. Len(h) \in DOMAIN h /\ localDay(h[Len(h)].timestamp, z) = today
    BY <1>1, <1>2, <1>3, LastIs DEF Done
  <2> QED
    BY <1>1, <2>1 DEF RevisedOn
<1>4. ASSUME RevisedOn(v, today, z) PROVE Done(v, at, z)
  <2>1. PICK i \in DOMAIN h : localDay(h[i].timestamp, z) = today
    BY <1>1, <1>4 DEF RevisedOn
  <2>2. h # <<>>
    BY <2>1
  <2>3. PICK a \in Int, b \in Int : a = h[i].timestamp /\ b = lastRevisedAt(h) /\ b = h[Len(h)].timestamp
    BY <1>2, <2>2, HistoryType, LastIs
  <2>4. a <= b /\ b <= at
    <3>1. a <= b
      BY <1>2, <2>2, <2>3, SpanIs
    <3>2. b <= at
      BY <1>2, <2>2, <2>3, LastIs DEF Past
    <3> QED
      BY <3>1, <3>2
  <2>5. localDay(a, z) <= localDay(b, z) /\ localDay(b, z) <= localDay(at, z)
    BY <2>3, <2>4, DayMonotone
  <2>6. localDay(b, z) \in Int
    BY DayType
  <2>7. localDay(b, z) = today
    BY <1>1, <1>2, <2>1, <2>3, <2>5, <2>6
  <2> QED
    BY <1>1, <2>2, <2>3, <2>7 DEF Done
<1> QED
  BY <1>1, <1>3, <1>4

\* The same of the topics of the student's document.
Standing(t) == PlaceIn(doc.topics[t], now, zone)
Today == localDay(now, zone)

\* The agenda's case for a topic of the student's document.
LEMMA TopicPlace ==
  ASSUME IInv
  PROVE  /\ doc \in DocType /\ now \in Int /\ zone \in Int /\ Today \in Int
         /\ \A t \in activeTopics(doc) :
              LET v == doc.topics[t] IN
              /\ v \in TopicType /\ t \in Topics
              /\ Standing(t).status \in {"overdue", "completed", "due", "unplanned", "none"}
              /\ Standing(t).status = "overdue" <=> Late(v, now, zone)
              /\ Standing(t).status = "completed" <=> ~Late(v, now, zone) /\ Done(v, now, zone)
              /\ Standing(t).status = "due" <=>
                   ~Late(v, now, zone) /\ ~Done(v, now, zone) /\ v.plannedAt # None
              /\ Standing(t).status = "none" => v.plannedAt = None /\ v.history = <<>>
              /\ Standing(t).status \in {"overdue", "due"} => Standing(t).day = PlanDay(v, zone)
              /\ Standing(t).status = "completed" => Standing(t).day = Today
              /\ Standing(t).status \in {"unplanned", "none"} => Standing(t).day = None
              /\ RevisedOn(v, Today, zone) <=> Done(v, now, zone)
              /\ v.plannedAt # None => PlanDay(v, zone) \in Int
<1>1. doc \in DocType /\ now \in Int /\ zone \in Int /\ Today \in Int
  BY DayType DEF IInv, TopicsGood, Today
<1>2. ASSUME NEW t \in activeTopics(doc), NEW v, v = doc.topics[t]
      PROVE  v \in TopicType /\ t \in Topics /\ GoodTopic(v, now)
  BY <1>2, ActiveFinite DEF IInv, TopicsGood, GoodTopic
<1>3. ASSUME NEW t \in activeTopics(doc)
      PROVE  /\ RevisedOn(doc.topics[t], Today, zone) <=> Done(doc.topics[t], now, zone)
             /\ doc.topics[t].plannedAt # None => PlanDay(doc.topics[t], zone) \in Int
  BY <1>1, <1>2, DoneIs, PlanDayType DEF Today, PlanDay
<1>4. ASSUME NEW t \in activeTopics(doc), NEW v \in TopicType, v = doc.topics[t]
      PROVE  /\ Standing(t).status \in {"overdue", "completed", "due", "unplanned", "none"}
             /\ Standing(t).status = "overdue" <=> Late(v, now, zone)
             /\ Standing(t).status = "completed" <=> ~Late(v, now, zone) /\ Done(v, now, zone)
             /\ Standing(t).status = "due" <=>
                  ~Late(v, now, zone) /\ ~Done(v, now, zone) /\ v.plannedAt # None
             /\ Standing(t).status = "none" => v.plannedAt = None /\ v.history = <<>>
             /\ Standing(t).status \in {"overdue", "due"} => Standing(t).day = PlanDay(v, zone)
             /\ Standing(t).status = "completed" => Standing(t).day = Today
             /\ Standing(t).status \in {"unplanned", "none"} => Standing(t).day = None
  <2>1. Standing(t) = PlaceIn(v, now, zone) /\ Today = localDay(now, zone)
    BY <1>4 DEF Standing, Today
  <2> QED
    BY <1>1, <2>1, PlaceIs, SMTT(30)
<1> QED
  BY <1>1, <1>2, <1>3, <1>4

\* A topic stands under its planned day when it is overdue, which is then earlier
\* than today, or due, which is then not.
LEMMA StandingDay ==
  ASSUME IInv
  PROVE  \A t \in activeTopics(doc) :
           /\ Standing(t).status = "overdue" =>
                /\ Late(doc.topics[t], now, zone)
                /\ Standing(t).day \in Int /\ Standing(t).day < Today
           /\ Standing(t).status = "due" =>
                /\ doc.topics[t].plannedAt # None /\ ~Late(doc.topics[t], now, zone)
                /\ Standing(t).day \in Int /\ Standing(t).day >= Today
                /\ t \in DueOn(doc, Standing(t).day, zone)
           /\ Due(doc.topics[t], now, zone) =>
                /\ Standing(t).status \in {"completed", "due"}
                /\ Standing(t).day = Today
<1> SUFFICES ASSUME NEW t \in activeTopics(doc)
             PROVE  /\ Standing(t).status = "overdue" =>
                         /\ Late(doc.topics[t], now, zone)
                         /\ Standing(t).day \in Int /\ Standing(t).day < Today
                    /\ Standing(t).status = "due" =>
                         /\ doc.topics[t].plannedAt # None /\ ~Late(doc.topics[t], now, zone)
                         /\ Standing(t).day \in Int /\ Standing(t).day >= Today
                         /\ t \in DueOn(doc, Standing(t).day, zone)
                    /\ Due(doc.topics[t], now, zone) =>
                         /\ Standing(t).status \in {"completed", "due"}
                         /\ Standing(t).day = Today
  OBVIOUS
<1>1. PICK v, s, day : v = doc.topics[t] /\ s = Standing(t) /\ day = PlanDay(v, zone)
  OBVIOUS
<1>2. /\ Today \in Int
      /\ s.status = "overdue" <=> Late(v, now, zone)
      /\ s.status = "completed" <=> ~Late(v, now, zone) /\ Done(v, now, zone)
      /\ s.status = "due" <=> ~Late(v, now, zone) /\ ~Done(v, now, zone) /\ v.plannedAt # None
      /\ s.status \in {"overdue", "due"} => s.day = day
      /\ s.status = "completed" => s.day = Today
      /\ v.plannedAt # None => day \in Int
  BY <1>1, TopicPlace
<1>3. /\ Late(v, now, zone) <=> v.plannedAt # None /\ day < Today
      /\ Due(v, now, zone) <=> v.plannedAt # None /\ day = Today
  BY <1>1 DEF Late, Due, PlanDay, Today
<1>4. v.plannedAt # None => t \in DueOn(doc, day, zone)
  BY <1>1 DEF DueOn, nextDueDate, PlanDay
<1>5. s.status = "overdue" => Late(v, now, zone) /\ s.day \in Int /\ s.day < Today
  BY <1>2, <1>3
<1>6. s.status = "due" => /\ v.plannedAt # None /\ ~Late(v, now, zone)
                          /\ s.day \in Int /\ s.day >= Today /\ t \in DueOn(doc, s.day, zone)
  BY <1>2, <1>3, <1>4
<1>7. Due(v, now, zone) => s.status \in {"completed", "due"} /\ s.day = Today
  BY <1>2, <1>3
<1> QED
  BY <1>1, <1>5, <1>6, <1>7

\* What the agenda lists under a day of its horizon.
LEMMA AgendaDayIs ==
  ASSUME IInv
  PROVE  \A day \in Today..(Today + Horizon) : \A t \in activeTopics(doc) :
           t \in AgendaDay(doc, day, now, zone) <=>
             Standing(t).status \in {"completed", "due"} /\ Standing(t).day = day
<1>1. Today \in Int /\ Horizon \in Nat /\ Today = localDay(now, zone)
  BY TopicPlace, RevisionAssumption DEF Today
<1> QED
  BY <1>1 DEF AgendaDay, Standing

\* The overdue bucket, and the queue.
LEMMA QueueIs ==
  ASSUME IInv
  PROVE  /\ AgendaOverdue(doc, now, zone) = LateSet(doc, now, zone)
         /\ ShownAs(doc, {"Overdue"}, now, zone) = LateSet(doc, now, zone)
         /\ ShownAs(doc, {"DueToday"}, now, zone) = DueSet(doc, now, zone)
         /\ todayQueue(doc, now, zone) = LateSet(doc, now, zone) \cup DueSet(doc, now, zone)
         /\ LateSet(doc, now, zone) \cap DueSet(doc, now, zone) = {}
         /\ LateSet(doc, now, zone) \in SUBSET Topics /\ DueSet(doc, now, zone) \in SUBSET Topics
<1>1. AgendaOverdue(doc, now, zone) = LateSet(doc, now, zone)
  <2>1. AgendaOverdue(doc, now, zone) = {t \in activeTopics(doc) : Standing(t).status = "overdue"}
    BY DEF AgendaOverdue, Standing
  <2>2. \A t \in activeTopics(doc) : Standing(t).status = "overdue" <=> Late(doc.topics[t], now, zone)
    BY TopicPlace
  <2> QED
    BY <2>1, <2>2 DEF LateSet
<1>2. /\ ShownAs(doc, {"Overdue"}, now, zone) = LateSet(doc, now, zone)
      /\ ShownAs(doc, {"DueToday"}, now, zone) = DueSet(doc, now, zone)
      /\ todayQueue(doc, now, zone) = LateSet(doc, now, zone) \cup DueSet(doc, now, zone)
  <2>1. doc \in DocType /\ now \in Int /\ zone \in Int
    BY TopicPlace
  <2> QED
    BY <2>1, ShownIs
<1>3. LateSet(doc, now, zone) \cap DueSet(doc, now, zone) = {}
  <2>1. ASSUME NEW t \in activeTopics(doc), Late(doc.topics[t], now, zone), Due(doc.topics[t], now, zone)
        PROVE  FALSE
    <3>1. Today \in Int /\ localDay(doc.topics[t].plannedAt, zone) = Today
      BY <2>1, TopicPlace DEF Due, Today
    <3>2. localDay(doc.topics[t].plannedAt, zone) < Today
      BY <2>1 DEF Late, Today
    <3> QED
      BY <3>1, <3>2
  <2> QED
    BY <2>1 DEF LateSet, DueSet
<1>4. LateSet(doc, now, zone) \in SUBSET Topics /\ DueSet(doc, now, zone) \in SUBSET Topics
  BY ActiveFinite DEF LateSet, DueSet
<1> QED
  BY <1>1, <1>2, <1>3, <1>4

\* No topic that was planned or revised drops out of the agenda.
LEMMA NothingDropsOut ==
  ASSUME IInv
  PROVE  \A t \in activeTopics(doc) :
           \/ t \in AgendaOverdue(doc, now, zone) \cup AgendaUnplanned(doc, now, zone)
           \/ \E day \in Today..(Today + Horizon) : t \in AgendaDay(doc, day, now, zone)
           \/ badge(doc, t, now, zone) = "NeverRevised"
           \/ \E day \in DaysOf(t) : day > Today + Horizon /\ t \in DueOn(doc, day, zone)
<1> SUFFICES ASSUME NEW t \in activeTopics(doc)
             PROVE  \/ t \in AgendaOverdue(doc, now, zone) \cup AgendaUnplanned(doc, now, zone)
                    \/ \E day \in Today..(Today + Horizon) : t \in AgendaDay(doc, day, now, zone)
                    \/ badge(doc, t, now, zone) = "NeverRevised"
                    \/ \E day \in DaysOf(t) : day > Today + Horizon /\ t \in DueOn(doc, day, zone)
  OBVIOUS
<1>1. PICK v, s : v = doc.topics[t] /\ s = Standing(t)
  OBVIOUS
<1>2. /\ v \in TopicType /\ now \in Int /\ zone \in Int /\ Today \in Int /\ Horizon \in Nat
      /\ s.status \in {"overdue", "completed", "due", "unplanned", "none"}
      /\ s.status = "none" => v.plannedAt = None /\ v.history = <<>>
      /\ s.status = "completed" => s.day = Today
  BY <1>1, TopicPlace, RevisionAssumption
<1>3. CASE s.status = "overdue"
  BY <1>1, <1>3 DEF AgendaOverdue, Standing
<1>4. CASE s.status = "unplanned"
  BY <1>1, <1>4 DEF AgendaUnplanned, Standing
<1>5. CASE s.status = "none"
  <2>1. (badgeState(v, now, zone) = "NeverRevised") = (v.plannedAt = None /\ v.history = <<>>)
    BY <1>2, BadgeIs
  <2> QED
    BY <1>1, <1>2, <1>5, <2>1 DEF badge
<1>6. CASE s.status = "completed"
  <2>1. Today \in Today..(Today + Horizon)
    BY <1>2
  <2>2. t \in AgendaDay(doc, Today, now, zone)
    BY <1>1, <1>2, <1>6, <2>1, AgendaDayIs
  <2> QED
    BY <2>1, <2>2
<1>7. CASE s.status = "due"
  <2>1. PICK day \in Int : /\ day = s.day /\ day >= Today /\ v.plannedAt # None
                           /\ t \in DueOn(doc, day, zone)
    BY <1>1, <1>7, StandingDay
  <2>2. CASE day <= Today + Horizon
    <3>1. day \in Today..(Today + Horizon)
      BY <1>2, <2>1, <2>2
    <3>2. t \in AgendaDay(doc, day, now, zone)
      BY <1>1, <1>7, <2>1, <3>1, AgendaDayIs
    <3> QED
      BY <3>1, <3>2
  <2>3. CASE day > Today + Horizon
    <3>1. day = localDay(v.plannedAt, zone)
      BY <1>1, <2>1 DEF DueOn
    <3>2. day \in DaysOf(t)
      BY <1>1, <2>1, <3>1 DEF DaysOf
    <3> QED
      BY <2>1, <2>3, <3>2
  <2> QED
    BY <1>2, <2>1, <2>2, <2>3
<1> QED
  BY <1>2, <1>3, <1>4, <1>5, <1>6, <1>7

\* "All caught up": no queue, and no plan within the horizon.
LEMMA CaughtUp ==
  ASSUME IInv, AgendaEmpty(doc, now, zone)
  PROVE  /\ todayQueue(doc, now, zone) = {}
         /\ \A day \in Today..(Today + Horizon) : DueOn(doc, day, zone) = {}
<1>1. /\ AgendaOverdue(doc, now, zone) = {}
      /\ \A day \in Today..(Today + Horizon) : AgendaDay(doc, day, now, zone) = {}
  BY DEF AgendaEmpty, Today
<1>2. Today \in Int /\ Horizon \in Nat /\ Today \in Today..(Today + Horizon)
  BY TopicPlace, RevisionAssumption
<1>3. ASSUME NEW day \in Today..(Today + Horizon), NEW t \in DueOn(doc, day, zone) PROVE FALSE
  <2>1. PICK v, s : v = doc.topics[t] /\ s = Standing(t)
    OBVIOUS
  <2>2. t \in activeTopics(doc) /\ v.plannedAt # None /\ PlanDay(v, zone) = day
    BY <1>3, <2>1 DEF DueOn, nextDueDate, PlanDay
  <2>3. /\ s.status = "overdue" <=> Late(v, now, zone)
        /\ s.status = "completed" <=> ~Late(v, now, zone) /\ Done(v, now, zone)
        /\ s.status = "due" <=> ~Late(v, now, zone) /\ ~Done(v, now, zone) /\ v.plannedAt # None
        /\ s.status \in {"overdue", "due"} => s.day = PlanDay(v, zone)
        /\ s.status = "completed" => s.day = Today
    BY <2>1, <2>2, TopicPlace
  <2>4. s.status # "overdue"
    BY <1>1, <2>1, <2>2 DEF AgendaOverdue, Standing
  <2>5. s.status \in {"completed", "due"} /\ s.day \in {Today, day}
    BY <2>2, <2>3, <2>4
  <2>6. t \in AgendaDay(doc, s.day, now, zone) /\ s.day \in Today..(Today + Horizon)
    BY <1>2, <2>1, <2>2, <2>5, AgendaDayIs
  <2> QED
    BY <1>1, <2>6
<1>4. LateSet(doc, now, zone) = {}
  BY <1>1, QueueIs
<1>5. DueSet(doc, now, zone) = {}
  <2>1. DueSet(doc, now, zone) = DueOn(doc, Today, zone)
    BY DEF DueSet, Due, DueOn, nextDueDate, Today
  <2> QED
    BY <1>2, <1>3, <2>1
<1>6. todayQueue(doc, now, zone) = {}
  BY <1>4, <1>5, QueueIs
<1> QED
  BY <1>3, <1>6

\* The agenda's own figures: what is due this week, and done today.
Under(day, status) ==
  {t \in AgendaDay(doc, day, now, zone) : Standing(t).status = status}

\* The agenda's summary.
LEMMA SummaryIs ==
  ASSUME IInv
  PROVE  LET brief == AgendaSummary(doc, now, zone)
             completed == Under(Today, "completed")
         IN  /\ brief.overdue = Cardinality(LateSet(doc, now, zone))
             /\ brief.doneToday = Cardinality(completed)
             /\ completed = CompletedOn(doc, Today, zone) \ LateSet(doc, now, zone)
             /\ brief.dueWeek \in Nat /\ brief.dueWeek >= Cardinality(Under(Today, "due"))
<1>1. PICK brief : brief = AgendaSummary(doc, now, zone)
  OBVIOUS
<1>2. Today \in Int /\ Horizon \in Nat /\ Week \in 1..Horizon
  BY TopicPlace, RevisionAssumption, ScreensAssumption
<1>3. /\ brief.overdue = Cardinality(AgendaOverdue(doc, now, zone))
      /\ brief.doneToday = Cardinality(Under(Today, "completed"))
      /\ brief.dueWeek = Total([day \in Today..(Today + Week - 1) |-> Cardinality(Under(day, "due"))])
  BY <1>1 DEF AgendaSummary, Under, Standing, Today
<1>4. Under(Today, "completed") = CompletedOn(doc, Today, zone) \ LateSet(doc, now, zone)
  <2>1. \A t \in activeTopics(doc) :
          t \in AgendaDay(doc, Today, now, zone) <=>
            Standing(t).status \in {"completed", "due"} /\ Standing(t).day = Today
    <3>1. Today \in Today..(Today + Horizon)
      BY <1>2
    <3> QED
      BY <3>1, AgendaDayIs
  <2>2. \A t \in activeTopics(doc) :
          /\ Standing(t).status = "completed" <=>
               ~Late(doc.topics[t], now, zone) /\ Done(doc.topics[t], now, zone)
          /\ Standing(t).status = "completed" => Standing(t).day = Today
          /\ RevisedOn(doc.topics[t], Today, zone) <=> Done(doc.topics[t], now, zone)
    BY TopicPlace
  <2>3. AgendaDay(doc, Today, now, zone) \in SUBSET activeTopics(doc)
    BY DEF AgendaDay
  <2> QED
    BY <2>1, <2>2, <2>3 DEF Under, CompletedOn, LateSet
<1>5. brief.dueWeek \in Nat /\ brief.dueWeek >= Cardinality(Under(Today, "due"))
  <2>1. PICK week, f : /\ week = Today..(Today + Week - 1)
                       /\ f = [day \in week |-> Cardinality(Under(day, "due"))]
    OBVIOUS
  <2>2. \A day : Cardinality(Under(day, "due")) \in Nat
    <3>1. \A day : Under(day, "due") \in SUBSET Topics
      BY ActiveFinite DEF Under, AgendaDay
    <3> QED
      BY <3>1, TopicsCount
  <2>3. IsFiniteSet(week) /\ Today \in week
    <3>1. Today + Week - 1 \in Int /\ Today <= Today + Week - 1
      BY <1>2
    <3>2. IsFiniteSet(Today..(Today + Week - 1))
      BY <1>2, <3>1, FS_Interval
    <3> QED
      BY <1>2, <2>1, <3>1, <3>2
  <2>4. f \in [week -> Nat]
    BY <2>1, <2>2
  <2>5. Total(f) \in Nat /\ Total(f) >= f[Today]
    BY <2>3, <2>4, TotalType, TotalHas
  <2> QED
    BY <1>3, <2>1, <2>3, <2>5
<1> QED
  BY <1>1, <1>3, <1>4, <1>5, QueueIs

\* What is due today and not overdue is due this week, or done today.
LEMMA WeekHolds ==
  ASSUME IInv
  PROVE  AgendaSummary(doc, now, zone).dueWeek + AgendaSummary(doc, now, zone).doneToday
           >= Cardinality(DueSet(doc, now, zone))
<1>1. PICK due, done, D, w, n :
        /\ due = Under(Today, "due") /\ done = Under(Today, "completed")
        /\ D = DueSet(doc, now, zone)
        /\ w = AgendaSummary(doc, now, zone).dueWeek /\ n = AgendaSummary(doc, now, zone).doneToday
  OBVIOUS
<1>2. w \in Nat /\ w >= Cardinality(due) /\ n = Cardinality(done)
  BY <1>1, SummaryIs
<1>3. due \in SUBSET Topics /\ done \in SUBSET Topics
  BY <1>1, ActiveFinite DEF Under, AgendaDay
<1>4. D \subseteq due \cup done
  <2>1. ASSUME NEW t \in D PROVE t \in due \cup done
    <3>1. t \in activeTopics(doc) /\ Standing(t).status \in {"completed", "due"} /\ Standing(t).day = Today
      BY <1>1, <2>1, StandingDay DEF DueSet
    <3>2. Today \in Today..(Today + Horizon)
      BY TopicPlace, RevisionAssumption
    <3>3. t \in AgendaDay(doc, Today, now, zone)
      BY <3>1, <3>2, AgendaDayIs
    <3> QED
      BY <1>1, <3>1, <3>3 DEF Under
  <2> QED
    BY <2>1
<1>5. due \cap done = {}
  BY <1>1 DEF Under
<1>6. Cardinality(due \cup done) = Cardinality(due) + Cardinality(done)
  BY <1>3, <1>5, DisjointUnion, RevisionAssumption
<1>7. Cardinality(D) <= Cardinality(due \cup done)
  <2>1. IsFiniteSet(due \cup done) /\ D \in SUBSET (due \cup done)
    BY <1>3, <1>4, TopicsCount
  <2> QED
    BY <2>1, FS_Subset
<1>8. /\ Cardinality(D) \in Nat /\ Cardinality(due) \in Nat /\ Cardinality(done) \in Nat
  BY <1>1, <1>3, TopicsCount, QueueIs
<1>9. w + n >= Cardinality(D)
  BY <1>2, <1>6, <1>7, <1>8
<1> QED
  BY <1>1, <1>9

\* AgendaAgrees follows from the invariant.
LEMMA IInvAgenda == IInv => AgendaAgrees
<1> SUFFICES ASSUME IInv PROVE AgendaAgrees
  OBVIOUS
<1>1. PICK late, due, queue, brief, overdue :
        /\ late = LateSet(doc, now, zone) /\ due = DueSet(doc, now, zone)
        /\ queue = todayQueue(doc, now, zone) /\ brief = AgendaSummary(doc, now, zone)
        /\ overdue = AgendaOverdue(doc, now, zone)
  OBVIOUS
<1>2. overdue = late /\ queue = late \cup due /\ late \cap due = {}
  BY <1>1, QueueIs
<1>3. queue \subseteq overdue \cup AgendaDay(doc, Today, now, zone)
  <2>1. Today \in Today..(Today + Horizon)
    BY TopicPlace, RevisionAssumption
  <2>2. ASSUME NEW t \in due PROVE t \in AgendaDay(doc, Today, now, zone)
    <3>1. t \in activeTopics(doc) /\ Standing(t).status \in {"completed", "due"} /\ Standing(t).day = Today
      BY <1>1, <2>2, StandingDay DEF DueSet
    <3> QED
      BY <2>1, <3>1, AgendaDayIs
  <2> QED
    BY <1>2, <2>2
<1>4. brief.overdue = Cardinality(queue \ ShownAs(doc, {"DueToday"}, now, zone))
  <2>1. queue \ due = late
    BY <1>2
  <2>2. ShownAs(doc, {"DueToday"}, now, zone) = due
    BY <1>1, QueueIs
  <2> QED
    BY <1>1, <2>1, <2>2, SummaryIs
<1>5. brief.doneToday = Cardinality(CompletedOn(doc, Today, zone) \ overdue)
  BY <1>1, <1>2, SummaryIs
<1>6. brief.dueWeek + brief.doneToday >= Cardinality(queue \ overdue)
  <2>1. queue \ overdue = due
    BY <1>2
  <2> QED
    BY <1>1, <2>1, WeekHolds
<1>7. \A t \in activeTopics(doc) :
        \/ t \in overdue \cup AgendaUnplanned(doc, now, zone)
        \/ \E day \in Today..(Today + Horizon) : t \in AgendaDay(doc, day, now, zone)
        \/ badge(doc, t, now, zone) = "NeverRevised"
        \/ \E day \in DaysOf(t) : day > Today + Horizon /\ t \in DueOn(doc, day, zone)
  BY <1>1, NothingDropsOut
<1>8. AgendaEmpty(doc, now, zone) =>
        /\ queue = {}
        /\ \A day \in Today..(Today + Horizon) : DueOn(doc, day, zone) = {}
  BY <1>1, CaughtUp
<1> QED
  BY <1>1, <1>3, <1>4, <1>5, <1>6, <1>7, <1>8 DEF AgendaAgrees, Today

\* The days the calendar is asked for: today, and every day of a plan or a revision.
ViewDays == {Today} \cup UNION {DaysOf(t) : t \in activeTopics(doc)}
PlanDays == {PlanDay(doc.topics[t], zone) : t \in Planned(doc)}

\* They are finitely many, and every plan and every revision is on one of them.
LEMMA ViewDaysAre ==
  ASSUME IInv
  PROVE  /\ ViewDays = {Today} \cup revisedDays(doc, zone) \cup PlanDays
         /\ IsFiniteSet(ViewDays) /\ ViewDays \subseteq Int
         /\ PlannedOn(doc, ViewDays, zone) = Planned(doc)
         /\ EntriesOn(doc, ViewDays, zone) = Entries(doc)
<1>1. doc \in DocType /\ zone \in Int /\ Today \in Int
  BY TopicPlace
<1>2. ViewDays = {Today} \cup revisedDays(doc, zone) \cup PlanDays
  <2>1. ASSUME NEW t \in activeTopics(doc)
        PROVE  \A day : day \in DaysOf(t) <=>
                 \/ \E i \in DOMAIN doc.topics[t].history :
                      day = localDay(doc.topics[t].history[i].timestamp, zone)
                 \/ doc.topics[t].plannedAt # None /\ day = PlanDay(doc.topics[t], zone)
    <3>1. PICK v : v = doc.topics[t]
      OBVIOUS
    <3>2. DaysOf(t) = {localDay(h.timestamp, zone) : h \in {v.history[i] : i \in DOMAIN v.history}}
                        \cup {localDay(date, zone) : date \in {v.plannedAt} \ {None}}
      BY <3>1 DEF DaysOf, History
    <3>3. {localDay(h.timestamp, zone) : h \in {v.history[i] : i \in DOMAIN v.history}} =
            {localDay(v.history[i].timestamp, zone) : i \in DOMAIN v.history}
      OBVIOUS
    <3> QED
      BY <3>1, <3>2, <3>3 DEF PlanDay
  <2>2. \A day : day \in revisedDays(doc, zone) <=>
          \E t \in activeTopics(doc) : \E i \in DOMAIN doc.topics[t].history :
            day = localDay(doc.topics[t].history[i].timestamp, zone)
    BY DEF revisedDays
  <2>3. \A day : day \in PlanDays <=>
          \E t \in activeTopics(doc) :
            doc.topics[t].plannedAt # None /\ day = PlanDay(doc.topics[t], zone)
    BY DEF PlanDays, Planned
  <2>4. \A day : day \in UNION {DaysOf(t) : t \in activeTopics(doc)} <=>
          day \in revisedDays(doc, zone) \cup PlanDays
    BY <2>1, <2>2, <2>3
  <2> QED
    BY <2>4 DEF ViewDays
<1>3. IsFiniteSet(revisedDays(doc, zone)) /\ revisedDays(doc, zone) \subseteq Int
  BY <1>1, RevisedDaysAre
<1>4. IsFiniteSet(PlanDays) /\ PlanDays \subseteq Int
  <2>1. PICK P, f : P = Planned(doc) /\ f = [t \in P |-> PlanDay(doc.topics[t], zone)]
    OBVIOUS
  <2>2. IsFiniteSet(P) /\ DOMAIN f = P
    BY <2>1, ActiveFinite, TopicsCount DEF Planned
  <2>3. IsFiniteSet({f[t] : t \in P})
    BY <2>2, FiniteImage
  <2>4. {f[t] : t \in P} = PlanDays
    BY <2>1 DEF PlanDays
  <2>5. \A t \in P : PlanDay(doc.topics[t], zone) \in Int
    BY <2>1, TopicPlace DEF Planned
  <2> QED
    BY <2>1, <2>3, <2>4, <2>5
<1>5. IsFiniteSet(ViewDays) /\ ViewDays \subseteq Int
  <2>1. IsFiniteSet({Today})
    BY FS_Singleton
  <2>2. IsFiniteSet({Today} \cup revisedDays(doc, zone))
    BY <1>3, <2>1, FS_Union
  <2>3. IsFiniteSet(({Today} \cup revisedDays(doc, zone)) \cup PlanDays)
    BY <1>4, <2>2, FS_Union
  <2> QED
    BY <1>1, <1>2, <1>3, <1>4, <2>3
<1>6. PlannedOn(doc, ViewDays, zone) = Planned(doc)
  <2>1. \A t \in Planned(doc) : localDay(doc.topics[t].plannedAt, zone) \in ViewDays
    BY <1>2 DEF PlanDays, PlanDay
  <2> QED
    BY <2>1 DEF PlannedOn
<1>7. EntriesOn(doc, ViewDays, zone) = Entries(doc)
  <2>1. revisedDays(doc, zone) = {EntryDay(doc, p, zone) : p \in Entries(doc)}
    BY <1>1, RevisedDaysAre
  <2>2. \A p \in Entries(doc) : EntryDay(doc, p, zone) \in ViewDays
    BY <1>2, <2>1
  <2> QED
    BY <2>2 DEF EntriesOn
<1> QED
  BY <1>2, <1>5, <1>6, <1>7

\* A click on today shows what the agenda has under overdue and today.
LEMMA ClickIs ==
  ASSUME IInv
  PROVE  SelectedDayTopics(calendarCell(doc, Today, now, zone)) =
           AgendaOverdue(doc, now, zone) \cup AgendaDay(doc, Today, now, zone)
<1>1. PICK late, due, done, day, cell :
        /\ late = LateSet(doc, now, zone) /\ due = DueOn(doc, Today, zone)
        /\ done = CompletedOn(doc, Today, zone) /\ day = AgendaDay(doc, Today, now, zone)
        /\ cell = calendarCell(doc, Today, now, zone)
  OBVIOUS
<1>2. Today \in Int /\ Today = localDay(now, zone) /\ Today \in Today..(Today + Horizon)
  BY TopicPlace, RevisionAssumption DEF Today
<1>3. cell.due = due /\ cell.overdue = late /\ cell.completed = done
  <2>1. ShownAs(doc, {"Overdue"}, now, zone) = late
    BY <1>1, QueueIs
  <2> QED
    BY <1>1, <1>2, <2>1 DEF calendarCell
<1>4. late \subseteq activeTopics(doc) /\ due \subseteq activeTopics(doc)
      /\ done \subseteq activeTopics(doc) /\ day \subseteq activeTopics(doc)
  BY <1>1 DEF LateSet, DueOn, CompletedOn, AgendaDay
<1>5. ASSUME NEW t \in activeTopics(doc)
      PROVE  t \in late \cup due \cup done <=> t \in late \cup day
  <2>1. PICK v, s : v = doc.topics[t] /\ s = Standing(t)
    OBVIOUS
  <2>2. /\ s.status = "completed" <=> ~Late(v, now, zone) /\ Done(v, now, zone)
        /\ s.status = "due" <=> ~Late(v, now, zone) /\ ~Done(v, now, zone) /\ v.plannedAt # None
        /\ s.status = "due" => s.day = PlanDay(v, zone)
        /\ s.status = "completed" => s.day = Today
        /\ RevisedOn(v, Today, zone) <=> Done(v, now, zone)
    BY <2>1, TopicPlace
  <2>3. /\ t \in late <=> Late(v, now, zone)
        /\ t \in due <=> v.plannedAt # None /\ PlanDay(v, zone) = Today
        /\ t \in done <=> RevisedOn(v, Today, zone)
    BY <1>1, <2>1 DEF LateSet, DueOn, nextDueDate, CompletedOn, PlanDay
  <2>4. t \in day <=> s.status \in {"completed", "due"} /\ s.day = Today
    BY <1>1, <1>2, <2>1, AgendaDayIs
  <2> QED
    BY <2>2, <2>3, <2>4
<1>6. late \cup due \cup done = late \cup day
  BY <1>4, <1>5
<1>7. SelectedDayTopics(cell) = late \cup due \cup done
  BY <1>3 DEF SelectedDayTopics
<1> QED
  BY <1>1, <1>6, <1>7, QueueIs

\* The strip has for a coming day what the agenda lists there, nothing of it
\* overdue, and nothing but overdue for an earlier day.
LEMMA StripIs ==
  ASSUME IInv
  PROVE  /\ \A day \in Today..(Today + Horizon) :
              /\ loadByDay(doc, day, now, zone) = AgendaDay(doc, day, now, zone)
              /\ WorstOn(doc, day, now, zone) # "overdue"
         /\ \A day \in Int : day < Today => WorstOn(doc, day, now, zone) \in {None, "overdue"}
<1>1. /\ Today \in Int /\ Horizon \in Nat
      /\ \A t \in activeTopics(doc) :
           /\ Standing(t).status \in {"overdue", "completed", "due", "unplanned", "none"}
           /\ Standing(t).status = "completed" => Standing(t).day = Today
           /\ Standing(t).status \in {"unplanned", "none"} => Standing(t).day = None
  BY TopicPlace, RevisionAssumption
<1>2. \A day : /\ loadByDay(doc, day, now, zone) = {t \in activeTopics(doc) : Standing(t).day = day}
               /\ AgendaDay(doc, day, now, zone) \in SUBSET activeTopics(doc)
  BY DEF loadByDay, AgendaDay, Standing
<1>3. ASSUME NEW day \in Int, NEW t \in loadByDay(doc, day, now, zone)
      PROVE  /\ Standing(t).status \in {"overdue", "completed", "due"}
             /\ Standing(t).status = "overdue" <=> day < Today
  <2>1. t \in activeTopics(doc) /\ Standing(t).day = day
    BY <1>2, <1>3
  <2>2. Standing(t).status \in {"overdue", "completed", "due"}
    BY <1>1, <1>3, <2>1, RevisionAssumption
  <2>3. /\ Standing(t).status = "overdue" => Standing(t).day < Today
        /\ Standing(t).status = "due" => Standing(t).day >= Today
    BY <2>1, StandingDay
  <2> QED
    BY <1>1, <2>1, <2>2, <2>3
<1>4. ASSUME NEW day \in Today..(Today + Horizon)
      PROVE  /\ loadByDay(doc, day, now, zone) = AgendaDay(doc, day, now, zone)
             /\ WorstOn(doc, day, now, zone) # "overdue"
  <2>1. day \in Int /\ ~(day < Today)
    BY <1>1
  <2>2. \A t \in activeTopics(doc) :
          t \in AgendaDay(doc, day, now, zone) <=>
            Standing(t).status \in {"completed", "due"} /\ Standing(t).day = day
    BY AgendaDayIs
  <2>3. \A t \in loadByDay(doc, day, now, zone) : Standing(t).status \in {"completed", "due"}
    BY <1>3, <2>1
  <2>4. loadByDay(doc, day, now, zone) = AgendaDay(doc, day, now, zone)
    BY <1>2, <2>2, <2>3
  <2>5. WorstOn(doc, day, now, zone) # "overdue"
    <3>1. ~\E t \in loadByDay(doc, day, now, zone) : PlaceIn(doc.topics[t], now, zone).status = "overdue"
      BY <2>3 DEF Standing
    <3>2. WorstOn(doc, day, now, zone) \in {"due", "completed", None}
      BY <3>1 DEF WorstOn
    <3>3. None # "overdue"
      BY RevisionAssumption
    <3> QED
      BY <3>2, <3>3
  <2> QED
    BY <2>4, <2>5
<1>5. ASSUME NEW day \in Int, day < Today
      PROVE  WorstOn(doc, day, now, zone) \in {None, "overdue"}
  <2>1. \A t \in loadByDay(doc, day, now, zone) : PlaceIn(doc.topics[t], now, zone).status = "overdue"
    BY <1>3, <1>5 DEF Standing
  <2>2. CASE loadByDay(doc, day, now, zone) = {}
    BY <2>2 DEF WorstOn
  <2>3. CASE loadByDay(doc, day, now, zone) # {}
    <3>1. \E t \in loadByDay(doc, day, now, zone) : PlaceIn(doc.topics[t], now, zone).status = "overdue"
      BY <2>1, <2>3
    <3> QED
      BY <3>1 DEF WorstOn
  <2> QED
    BY <2>2, <2>3
<1> QED
  BY <1>4, <1>5

\* The figures of the calendar: every plan once, every revision once, and today
\* every overdue topic; and those of the heatmap.
LEMMA MonthIs ==
  ASSUME IInv
  PROVE  LET totals == MonthTotals(doc, ViewDays, now, zone)
         IN  totals = [due |-> Cardinality(Planned(doc)),
                       over |-> overallStats(doc, now, zone).overdue,
                       done |-> overallStats(doc, now, zone).revisions]
<1>1. PICK totals, due, over, done, n, days :
        /\ totals = MonthTotals(doc, ViewDays, now, zone) /\ days = ViewDays
        /\ due = [day \in days |-> Cardinality(calendarCell(doc, day, now, zone).due)]
        /\ over = [day \in days |-> Cardinality(calendarCell(doc, day, now, zone).overdue)]
        /\ done = [day \in days |-> RevisionsOn(doc, day, zone)]
        /\ n = LateSet(doc, now, zone)
  OBVIOUS
<1>2. totals = [due |-> Total(due), over |-> Total(over), done |-> Total(done)]
  BY <1>1 DEF MonthTotals
<1>3. doc \in DocType /\ IsFiniteSet(days) /\ days \subseteq Int /\ Today \in days
  BY <1>1, ViewDaysAre, TopicPlace
<1>4. Total(due) = Cardinality(Planned(doc))
  <2>1. \A day \in days : due[day] = Cardinality(DueOn(doc, day, zone))
    BY <1>1 DEF calendarCell
  <2>2. DOMAIN due = days
    BY <1>1
  <2>3. Total(due) = Cardinality(PlannedOn(doc, days, zone))
    BY <1>3, <2>1, <2>2, PlansAddUp
  <2> QED
    BY <1>1, <2>3, ViewDaysAre
<1>5. Total(over) = overallStats(doc, now, zone).overdue
  <2>1. overallStats(doc, now, zone).overdue = Cardinality(n)
    <3>1. ShownAs(doc, {"Overdue"}, now, zone) = n
      BY <1>1, QueueIs
    <3> QED
      BY <3>1 DEF overallStats
  <2>2. IsFiniteSet(n)
    BY <1>1, QueueIs, TopicsCount
  <2>3. PICK key : key = [t \in n |-> Today]
    OBVIOUS
  <2>4. ASSUME NEW day \in days PROVE over[day] = Cardinality({t \in n : key[t] = day})
    <3>1. calendarCell(doc, day, now, zone).overdue = IF day = Today THEN n ELSE {}
      <4>1. ShownAs(doc, {"Overdue"}, now, zone) = n
        BY <1>1, QueueIs
      <4> QED
        BY <4>1 DEF calendarCell, Today
    <3>2. {t \in n : key[t] = day} = IF day = Today THEN n ELSE {}
      BY <2>3
    <3>3. over[day] = Cardinality(calendarCell(doc, day, now, zone).overdue)
      BY <1>1, <2>4
    <3> QED
      BY <3>1, <3>2, <3>3
  <2>5. DOMAIN over = days
    BY <1>1
  <2>6. Total(over) = Cardinality({t \in n : key[t] \in days})
    <3>1. /\ IsFiniteSet(n) /\ IsFiniteSet(days) /\ DOMAIN over = days
          /\ \A day \in days : over[day] = Cardinality({t \in n : key[t] = day})
      BY <1>3, <2>2, <2>4, <2>5
    <3> QED
      BY <3>1, TotalCounts
  <2>7. {t \in n : key[t] \in days} = n
    BY <1>3, <2>3
  <2> QED
    BY <2>1, <2>6, <2>7
<1>6. Total(done) = overallStats(doc, now, zone).revisions
  <2>1. DOMAIN done = days /\ \A day \in days : done[day] = RevisionsOn(doc, day, zone)
    BY <1>1
  <2>2. Total(done) = Cardinality(EntriesOn(doc, days, zone))
    BY <1>3, <2>1, RevisionsAddUp
  <2>3. EntriesOn(doc, days, zone) = Entries(doc)
    BY <1>1, ViewDaysAre
  <2> QED
    BY <1>3, <2>2, <2>3, RevisionsAre
<1> QED
  BY <1>1, <1>2, <1>4, <1>5, <1>6

\* The total of the heatmap is that of the revisions, and its active days are those revised on.
LEMMA HeatIs ==
  ASSUME IInv
  PROVE  /\ HeatTotals(doc, ViewDays, zone).total = overallStats(doc, now, zone).revisions
         /\ HeatTotals(doc, ViewDays, zone).activeDays = Cardinality(revisedDays(doc, zone))
<1>1. PICK heat, f, days, active :
        /\ heat = HeatTotals(doc, ViewDays, zone) /\ days = ViewDays
        /\ f = [day \in days |-> RevisionsOn(doc, day, zone)]
        /\ active = {day \in days : RevisionsOn(doc, day, zone) > 0}
  OBVIOUS
<1>2. heat.total = Total(f) /\ heat.activeDays = Cardinality(active)
  BY <1>1 DEF HeatTotals
<1>3. doc \in DocType /\ zone \in Int /\ IsFiniteSet(days) /\ revisedDays(doc, zone) \subseteq days
  BY <1>1, ViewDaysAre, TopicPlace
<1>4. Total(f) = overallStats(doc, now, zone).revisions
  <2>1. DOMAIN f = days /\ \A day \in days : f[day] = RevisionsOn(doc, day, zone)
    BY <1>1
  <2>2. Total(f) = Cardinality(EntriesOn(doc, days, zone))
    BY <1>3, <2>1, RevisionsAddUp
  <2>3. EntriesOn(doc, days, zone) = Entries(doc)
    BY <1>1, ViewDaysAre
  <2> QED
    BY <1>3, <2>2, <2>3, RevisionsAre
<1>5. active = revisedDays(doc, zone)
  <2>1. ASSUME NEW day
        PROVE  RevisionsOn(doc, day, zone) > 0 <=> day \in revisedDays(doc, zone)
    <3>1. PICK S : S = {p \in Entries(doc) : EntryDay(doc, p, zone) = day}
      OBVIOUS
    <3>2. RevisionsOn(doc, day, zone) = Cardinality(S)
      BY <1>3, <3>1, RevisionsOnIs
    <3>3. IsFiniteSet(S)
      <4>1. IsFiniteSet(Entries(doc)) /\ S \in SUBSET Entries(doc)
        BY <1>3, <3>1, EntriesFinite
      <4> QED
        BY <4>1, FS_Subset
    <3>4. Cardinality(S) \in Nat /\ (Cardinality(S) = 0 <=> S = {})
      BY <3>3, FS_CardinalityType, FS_EmptySet
    <3>5. revisedDays(doc, zone) = {EntryDay(doc, p, zone) : p \in Entries(doc)}
      BY <1>3, RevisedDaysAre
    <3>6. S # {} <=> day \in revisedDays(doc, zone)
      BY <3>1, <3>5
    <3> QED
      BY <3>2, <3>4, <3>6
  <2> QED
    BY <1>1, <1>3, <2>1
<1> QED
  BY <1>1, <1>2, <1>4, <1>5

\* CalendarAgrees follows from the invariant.
LEMMA IInvCalendar == IInv => CalendarAgrees
<1> SUFFICES ASSUME IInv PROVE CalendarAgrees
  OBVIOUS
<1>1. PICK totals, stats, heat, days :
        /\ totals = MonthTotals(doc, ViewDays, now, zone) /\ stats = overallStats(doc, now, zone)
        /\ heat = HeatTotals(doc, ViewDays, zone) /\ days = ViewDays
  OBVIOUS
<1>2. SelectedDayTopics(calendarCell(doc, Today, now, zone)) =
        AgendaOverdue(doc, now, zone) \cup AgendaDay(doc, Today, now, zone)
  BY ClickIs
<1>3. \A day \in Today..(Today + Horizon) :
        /\ loadByDay(doc, day, now, zone) = AgendaDay(doc, day, now, zone)
        /\ WorstOn(doc, day, now, zone) # "overdue"
  BY StripIs
<1>4. \A day \in {d \in days : d < Today} : WorstOn(doc, day, now, zone) \in {None, "overdue"}
  BY <1>1, StripIs, ViewDaysAre
<1>5. totals = [due |-> Cardinality({t \in activeTopics(doc) : nextDueDate(doc.topics[t]) # None}),
                over |-> stats.overdue, done |-> stats.revisions]
  BY <1>1, MonthIs DEF Planned, nextDueDate
<1>6. heat.total = totals.done /\ heat.activeDays = Cardinality(revisedDays(doc, zone))
  BY <1>1, <1>5, HeatIs
<1>7. longestStreak(doc, zone) <= heat.activeDays
  <2>1. doc \in DocType /\ zone \in Int
    BY TopicPlace
  <2> QED
    BY <1>6, <2>1, LongestIs
<1> QED
  BY <1>1, <1>2, <1>3, <1>4, <1>5, <1>6, <1>7 DEF CalendarAgrees, Today, ViewDays

\* Home page, cards, insights, agenda, week strip and calendar find the same in one
\* document, whatever was revised, planned, moved, deleted and archived, at any time
\* of the day and in any zone; also while documents are put and statistics derived.
THEOREM ViewsAlwaysAgree ==
  Spec => [](HomeAgrees /\ FiguresAgree /\ AgendaAgrees /\ CalendarAgrees)
<1>1. IInv => HomeAgrees /\ FiguresAgree /\ AgendaAgrees /\ CalendarAgrees
  BY IInvHome, IInvFigures, IInvAgenda, IInvCalendar
<1> QED
  BY <1>1, AlwaysIInv, PTL

\* The same as the run checks it, of the states in which nothing has been put.
THEOREM Views == Spec => []ViewsAgree
<1>1. HomeAgrees /\ FiguresAgree /\ AgendaAgrees /\ CalendarAgrees => ViewsAgree
  BY DEF ViewsAgree
<1> QED
  BY <1>1, ViewsAlwaysAgree, PTL
=============================================================================
