-------------------------- MODULE PackageArchiveProofs --------------------------
(***************************************************************************)
(* Proofs about unpacking an archive, for every archive, every order of    *)
(* its members and every setting of the limits.                            *)
(*                                                                         *)
(* The sums of the model are folds over sets, defined by recursion.  An    *)
(* induction over such a set takes the smallest counterexample.            *)
(***************************************************************************)
EXTENDS PackageArchiveProperties, FiniteSetTheorems, WellFoundedInduction, TLAPS

-----------------------------------------------------------------------------
(***************************************************************************)
(* Smallest counterexamples.                                               *)
(***************************************************************************)
LEMMA SmallestNumber ==
  ASSUME NEW N \in SUBSET Nat, N # {}
  PROVE  \E n \in N : \A k \in N : n <= k
<1>1. PICK n \in N : \A k \in N : ~(<<k, n>> \in OpToRel(<, Nat))
  BY WFMin, NatLessThanWellFounded
<1>2. ASSUME NEW k \in N PROVE n <= k
  <2>1. n \in Nat /\ k \in Nat
    OBVIOUS
  <2>2. ~(k < n)
    BY <1>1, <2>1, Zenon DEF OpToRel
  <2> QED
    BY <2>1, <2>2
<1> QED
  BY <1>2

LEMMA SmallestSet ==
  ASSUME NEW C, C # {}, \A S \in C : IsFiniteSet(S)
  PROVE  \E S \in C : \A R \in C : Cardinality(S) <= Cardinality(R)
<1> DEFINE N == {Cardinality(S) : S \in C}
<1>1. N \in SUBSET Nat /\ N # {}
  BY FS_CardinalityType
<1>2. PICK n \in N : \A k \in N : n <= k
  <2> HIDE DEF N
  <2> QED
    BY <1>1, SmallestNumber
<1> QED
  BY <1>2

-----------------------------------------------------------------------------
(***************************************************************************)
(* Sums over finite sets.                                                  *)
(***************************************************************************)
(* How SumFunctionOnSet goes through a set: one element after another, as    *)
(* CHOOSE picks them; a partial sum for each subset.                         *)
SumsTo(f, w, D) ==
  f = [S \in D |-> IF S = {} THEN 0
                   ELSE LET x == CHOOSE x \in S : TRUE IN w[x] + f[S \ {x}]]

LEMMA SumUnfolds ==
  ASSUME NEW w, NEW S
  PROVE  SumFunctionOnSet(w, S) = (CHOOSE f : SumsTo(f, w, SUBSET S))[S]
BY DEF SumFunctionOnSet, FoldFunctionOnSet, MapThenFoldSet, SumsTo

UpTo(S, n) == {R \in SUBSET S : Cardinality(R) <= n}

(* The recursion has a solution on the small subsets, so on all of them. *)
LEMMA SumsExist ==
  ASSUME NEW w, NEW S, IsFiniteSet(S)
  PROVE  \E f : SumsTo(f, w, SUBSET S)
<1> DEFINE N == {n \in Nat : ~ \E f : SumsTo(f, w, UpTo(S, n))}
<1>1. \A R \in SUBSET S : IsFiniteSet(R) /\ Cardinality(R) \in Nat
                            /\ Cardinality(R) <= Cardinality(S)
  BY FS_Subset, FS_CardinalityType
<1>2. UpTo(S, Cardinality(S)) = SUBSET S
  BY <1>1 DEF UpTo
<1>3. SUFFICES N = {}
  <2>1. Cardinality(S) \in Nat
    BY FS_CardinalityType
  <2>2. Cardinality(S) \notin N => \E f : SumsTo(f, w, UpTo(S, Cardinality(S)))
    BY <2>1
  <2> HIDE DEF N
  <2> QED
    BY <1>2, <2>2
<1>4. SUFFICES ASSUME N # {} PROVE FALSE
  OBVIOUS
<1>5. PICK n \in N : \A k \in N : n <= k
  <2>1. N \in SUBSET Nat
    OBVIOUS
  <2> HIDE DEF N
  <2> QED
    BY <1>4, <2>1, SmallestNumber
<1>6. n # 0
  <2>1. SUFFICES ASSUME n = 0 PROVE FALSE
    OBVIOUS
  <2>2. \A R \in UpTo(S, 0) : R = {}
    BY <1>1, FS_EmptySet DEF UpTo
  <2>3. SumsTo([R \in UpTo(S, 0) |-> 0], w, UpTo(S, 0))
    BY <2>2 DEF SumsTo
  <2> QED
    BY <2>1, <2>3
<1>7. PICK f : SumsTo(f, w, UpTo(S, n - 1))
  <2>1. n - 1 \in Nat /\ ~(n <= n - 1)
    BY <1>6
  <2> QED
    BY <1>5, <2>1
<1> DEFINE g == [R \in UpTo(S, n) |->
                   IF R = {} THEN 0
                   ELSE LET x == CHOOSE x \in R : TRUE IN w[x] + f[R \ {x}]]
<1>8. \A R \in UpTo(S, n - 1) : R \in UpTo(S, n) /\ g[R] = f[R]
  <2>1. ASSUME NEW R \in UpTo(S, n - 1) PROVE R \in UpTo(S, n)
    BY <1>1 DEF UpTo
  <2> QED
    BY <1>7, <2>1 DEF SumsTo
<1>9. ASSUME NEW R \in UpTo(S, n), R # {}
      PROVE  R \ {CHOOSE x \in R : TRUE} \in UpTo(S, n - 1)
  <2> DEFINE x == CHOOSE x \in R : TRUE
  <2>1. x \in R
    BY <1>9
  <2> HIDE DEF x
  <2>2. IsFiniteSet(R) /\ Cardinality(R) \in Nat /\ Cardinality(R) <= n
    BY <1>1 DEF UpTo
  <2>3. Cardinality(R \ {x}) = Cardinality(R) - 1
    BY <2>1, <2>2, FS_RemoveElement
  <2> QED
    BY <2>2, <2>3 DEF UpTo, x
<1>10. SumsTo(g, w, UpTo(S, n))
  <2> DEFINE Rest(R) == R \ {CHOOSE x \in R : TRUE}
             h == [R \in UpTo(S, n) |->
                     IF R = {} THEN 0
                     ELSE LET x == CHOOSE x \in R : TRUE IN w[x] + g[R \ {x}]]
  <2>1. ASSUME NEW R \in UpTo(S, n) PROVE g[R] = h[R]
    <3>1. CASE R = {}
      BY <3>1
    <3>2. CASE R # {}
      <4>1. g[Rest(R)] = f[Rest(R)]
        <5> HIDE DEF g
        <5> QED
          BY <1>8, <1>9, <3>2
      <4>2. h[R] = w[CHOOSE x \in R : TRUE] + g[Rest(R)]
        <5> HIDE DEF g
        <5> QED
          BY <3>2
      <4>3. g[R] = w[CHOOSE x \in R : TRUE] + f[Rest(R)]
        BY <3>2
      <4> QED
        BY <4>1, <4>2, <4>3
    <3> QED
      BY <3>1, <3>2
  <2>2. g = h
    <3>1. /\ DOMAIN g = UpTo(S, n) /\ DOMAIN h = UpTo(S, n)
          /\ g = [R \in UpTo(S, n) |-> g[R]] /\ h = [R \in UpTo(S, n) |-> h[R]]
      OBVIOUS
    <3> HIDE DEF g, h
    <3> QED
      BY <2>1, <3>1
  <2> QED
    BY <2>2 DEF SumsTo
<1> QED
  BY <1>10

(* A partial sum does not depend on the set it is a part of. *)
LEMMA SumsAgree ==
  ASSUME NEW w, NEW S, IsFiniteSet(S), NEW R \in SUBSET S, NEW f, NEW g,
         SumsTo(f, w, SUBSET S), SumsTo(g, w, SUBSET R)
  PROVE  f[R] = g[R]
<1> DEFINE C == {T \in SUBSET R : f[T] # g[T]}
<1>1. SUFFICES ASSUME C # {} PROVE FALSE
  OBVIOUS
<1>2. \A T \in C : IsFiniteSet(T)
  BY FS_Subset
<1>3. PICK T \in C : \A U \in C : Cardinality(T) <= Cardinality(U)
  <2> HIDE DEF C
  <2> QED
    BY <1>1, <1>2, SmallestSet
<1>4. T # {}
  BY DEF SumsTo
<1> DEFINE x == CHOOSE x \in T : TRUE
<1>5. x \in T
  BY <1>4
<1>6. f[T] = w[x] + f[T \ {x}] /\ g[T] = w[x] + g[T \ {x}]
  BY <1>4 DEF SumsTo
<1> HIDE DEF x
<1>7. T \ {x} \in SUBSET R /\ f[T \ {x}] # g[T \ {x}]
  BY <1>6
<1>8. Cardinality(T \ {x}) = Cardinality(T) - 1 /\ Cardinality(T) \in Nat
  BY <1>2, <1>5, FS_RemoveElement, FS_CardinalityType
<1> QED
  BY <1>3, <1>7, <1>8

LEMMA SumOfNone == ASSUME NEW w PROVE SumFunctionOnSet(w, {}) = 0
<1>1. PICK f : SumsTo(f, w, SUBSET {})
  BY FS_EmptySet, SumsExist
<1>2. SumsTo(CHOOSE g : SumsTo(g, w, SUBSET {}), w, SUBSET {})
  BY <1>1
<1> QED
  BY <1>2, SumUnfolds DEF SumsTo

LEMMA SumFromChosen ==
  ASSUME NEW w, NEW S, IsFiniteSet(S), S # {}
  PROVE  \E x \in S : SumFunctionOnSet(w, S) = w[x] + SumFunctionOnSet(w, S \ {x})
<1> DEFINE x == CHOOSE x \in S : TRUE
           f == CHOOSE f : SumsTo(f, w, SUBSET S)
           g == CHOOSE g : SumsTo(g, w, SUBSET (S \ {x}))
<1>1. x \in S
  OBVIOUS
<1>2. SumsTo(f, w, SUBSET S)
  BY SumsExist
<1>3. SumsTo(g, w, SUBSET (S \ {x}))
  BY SumsExist, FS_Subset
<1>4. SumFunctionOnSet(w, S) = f[S] /\ SumFunctionOnSet(w, S \ {x}) = g[S \ {x}]
  BY SumUnfolds
<1>5. f[S] = w[x] + f[S \ {x}]
  <2> HIDE DEF f
  <2> QED
    BY <1>2 DEF SumsTo
<1>6. f[S \ {x}] = g[S \ {x}]
  <2> HIDE DEF f, g, x
  <2>1. PICK R \in SUBSET S : R = S \ {x}
    OBVIOUS
  <2>2. f[R] = g[R]
    BY <1>2, <1>3, <2>1, SumsAgree
  <2> QED
    BY <2>1, <2>2
<1> QED
  BY <1>1, <1>4, <1>5, <1>6

LEMMA SumType ==
  ASSUME NEW D, NEW w \in [D -> Nat], NEW S \in SUBSET D, IsFiniteSet(S)
  PROVE  SumFunctionOnSet(w, S) \in Nat
<1> DEFINE C == {T \in SUBSET S : SumFunctionOnSet(w, T) \notin Nat}
<1>1. SUFFICES ASSUME C # {} PROVE FALSE
  OBVIOUS
<1>2. \A T \in C : IsFiniteSet(T)
  BY FS_Subset
<1>3. PICK T \in C : \A U \in C : Cardinality(T) <= Cardinality(U)
  <2> HIDE DEF C
  <2> QED
    BY <1>1, <1>2, SmallestSet
<1>4. T # {}
  BY SumOfNone
<1>5. PICK x \in T :
        SumFunctionOnSet(w, T) = w[x] + SumFunctionOnSet(w, T \ {x})
  BY <1>2, <1>4, SumFromChosen
<1>6. w[x] \in Nat
  OBVIOUS
<1>7. T \ {x} \in C
  BY <1>5, <1>6
<1>8. Cardinality(T \ {x}) = Cardinality(T) - 1 /\ Cardinality(T) \in Nat
  BY <1>2, <1>5, FS_RemoveElement, FS_CardinalityType
<1> QED
  BY <1>3, <1>7, <1>8

(* Any element may come first. *)
LEMMA SumFromAny ==
  ASSUME NEW D, NEW w \in [D -> Nat], NEW S \in SUBSET D, IsFiniteSet(S), NEW a \in S
  PROVE  SumFunctionOnSet(w, S) = w[a] + SumFunctionOnSet(w, S \ {a})
<1> DEFINE Sum(T) == SumFunctionOnSet(w, T)
           C == {T \in SUBSET S : \E b \in T : Sum(T) # w[b] + Sum(T \ {b})}
<1>1. SUFFICES ASSUME C # {} PROVE FALSE
  OBVIOUS
<1>2. \A T \in SUBSET S : IsFiniteSet(T)
  BY FS_Subset
<1>3. PICK T \in C : \A U \in C : Cardinality(T) <= Cardinality(U)
  <2>1. \A T \in C : IsFiniteSet(T)
    BY <1>2
  <2> HIDE DEF C
  <2> QED
    BY <1>1, <2>1, SmallestSet
<1>4. PICK b \in T : Sum(T) # w[b] + Sum(T \ {b})
  OBVIOUS
<1>5. PICK x \in T : Sum(T) = w[x] + Sum(T \ {x})
  BY <1>2, <1>4, SumFromChosen
<1>6. x # b
  BY <1>4, <1>5
<1>7. ASSUME NEW c \in T
      PROVE  \A d \in T \ {c} : Sum(T \ {c}) = w[d] + Sum((T \ {c}) \ {d})
  <2>1. Cardinality(T \ {c}) = Cardinality(T) - 1 /\ Cardinality(T) \in Nat
    BY <1>2, FS_RemoveElement, FS_CardinalityType
  <2>2. T \ {c} \notin C
    BY <1>3, <2>1
  <2> HIDE DEF Sum
  <2> QED
    BY <2>2
<1>8. \A U \in SUBSET S : Sum(U) \in Nat
  BY <1>2, SumType
<1>9. w[b] \in Nat /\ w[x] \in Nat
  OBVIOUS
<1>10. (T \ {x}) \ {b} = (T \ {b}) \ {x}
  OBVIOUS
<1> HIDE DEF Sum
<1>11. /\ Sum(T \ {x}) = w[b] + Sum((T \ {x}) \ {b})
       /\ Sum(T \ {b}) = w[x] + Sum((T \ {b}) \ {x})
  BY <1>6, <1>7
<1>12. Sum((T \ {x}) \ {b}) \in Nat
  BY <1>8
<1> QED
  BY <1>4, <1>5, <1>9, <1>10, <1>11, <1>12

(* One element more. *)
LEMMA SumWithOneMore ==
  ASSUME NEW D, NEW w \in [D -> Nat], NEW S \in SUBSET D, IsFiniteSet(S),
         NEW a \in D \ S
  PROVE  SumFunctionOnSet(w, S \union {a}) = SumFunctionOnSet(w, S) + w[a]
<1>1. PICK T \in SUBSET D : T = S \union {a}
  OBVIOUS
<1>2. IsFiniteSet(T) /\ a \in T /\ T \ {a} = S
  BY <1>1, FS_AddElement
<1>3. SumFunctionOnSet(w, T) = w[a] + SumFunctionOnSet(w, T \ {a})
  BY <1>2, SumFromAny
<1>4. SumFunctionOnSet(w, S) \in Nat /\ w[a] \in Nat
  BY SumType
<1> QED
  BY <1>1, <1>2, <1>3, <1>4

(* A part weighs no more than the whole. *)
LEMMA SumOfPart ==
  ASSUME NEW D, NEW w \in [D -> Nat], NEW S \in SUBSET D, IsFiniteSet(S),
         NEW R \in SUBSET S
  PROVE  SumFunctionOnSet(w, R) <= SumFunctionOnSet(w, S)
<1> DEFINE Sum(T) == SumFunctionOnSet(w, T)
           C == {T \in SUBSET S : R \subseteq T /\ ~(Sum(R) <= Sum(T))}
<1>1. SUFFICES ASSUME C # {} PROVE FALSE
  OBVIOUS
<1>2. \A T \in SUBSET S : IsFiniteSet(T) /\ Sum(T) \in Nat
  BY FS_Subset, SumType
<1>3. PICK T \in C : \A U \in C : Cardinality(T) <= Cardinality(U)
  <2>1. \A T \in C : IsFiniteSet(T)
    BY <1>2
  <2> HIDE DEF C
  <2> QED
    BY <1>1, <2>1, SmallestSet
<1>4. T # R
  BY <1>2
<1>5. PICK x \in T : x \notin R
  BY <1>4
<1>6. Sum(T) = w[x] + Sum(T \ {x})
  BY <1>2, SumFromAny
<1>7. w[x] \in Nat /\ Sum(T) \in Nat /\ Sum(R) \in Nat /\ Sum(T \ {x}) \in Nat
  BY <1>2
<1>8. Cardinality(T \ {x}) = Cardinality(T) - 1 /\ Cardinality(T) \in Nat
  BY <1>2, FS_RemoveElement, FS_CardinalityType
<1>9. T \ {x} \in C
  <2> HIDE DEF Sum
  <2> QED
    BY <1>5, <1>6, <1>7
<1> QED
  BY <1>3, <1>8, <1>9

(* Only the weights of the elements count. *)
LEMMA SumsOfEqualWeights ==
  ASSUME NEW S, IsFiniteSet(S), NEW w, NEW v, \A x \in S : w[x] = v[x]
  PROVE  SumFunctionOnSet(w, S) = SumFunctionOnSet(v, S)
<1> DEFINE f == CHOOSE f : SumsTo(f, w, SUBSET S)
<1>1. SumsTo(f, w, SUBSET S)
  BY SumsExist
<1>2. SumsTo(f, v, SUBSET S)
  <2> HIDE DEF f
  <2> DEFINE g == [R \in SUBSET S |->
                     IF R = {} THEN 0
                     ELSE LET x == CHOOSE x \in R : TRUE IN v[x] + f[R \ {x}]]
  <2>1. f = [R \in SUBSET S |-> f[R]] /\ g = [R \in SUBSET S |-> g[R]]
    BY <1>1 DEF SumsTo
  <2>2. ASSUME NEW R \in SUBSET S PROVE f[R] = g[R]
    BY <1>1 DEF SumsTo
  <2> QED
    BY <2>1, <2>2 DEF SumsTo
<1>3. \E g : SumsTo(g, v, SUBSET S)
  BY <1>2
<1> DEFINE h == CHOOSE h : SumsTo(h, v, SUBSET S)
<1>4. SumsTo(h, v, SUBSET S)
  BY <1>3
<1>5. f[S] = h[S]
  <2> HIDE DEF f, h
  <2> QED
    BY <1>2, <1>4, SumsAgree
<1> QED
  BY <1>5, SumUnfolds

-----------------------------------------------------------------------------
(***************************************************************************)
(* Normal names.                                                           *)
(***************************************************************************)
(* The recursion of Normalized: what is kept of the first n parts. *)
KeptUpTo(f, parts, n) ==
  f = [k \in 0..n |-> IF k = 0 THEN <<>>
                      ELSE IF parts[k] \in {"", "."} THEN f[k - 1]
                      ELSE Append(f[k - 1], parts[k])]

LEMMA KeptExist ==
  ASSUME NEW parts, NEW n \in Nat
  PROVE  \E f : KeptUpTo(f, parts, n)
<1> DEFINE N == {k \in Nat : ~ \E f : KeptUpTo(f, parts, k)}
<1>1. SUFFICES ASSUME N # {} PROVE FALSE
  OBVIOUS
<1>2. PICK m \in N : \A k \in N : m <= k
  <2>1. N \in SUBSET Nat
    OBVIOUS
  <2> HIDE DEF N
  <2> QED
    BY <1>1, <2>1, SmallestNumber
<1>3. m # 0
  <2> DEFINE e == [k \in 0..0 |-> <<>>]
             e1 == [k \in 0..0 |-> IF k = 0 THEN <<>>
                                   ELSE IF parts[k] \in {"", "."} THEN e[k - 1]
                                   ELSE Append(e[k - 1], parts[k])]
  <2>1. \A k \in 0..0 : k = 0
    OBVIOUS
  <2>2. e = e1
    BY <2>1, Zenon
  <2>3. KeptUpTo(e, parts, 0)
    BY <2>2, Zenon DEF KeptUpTo
  <2> QED
    BY <2>3
<1>4. PICK f : KeptUpTo(f, parts, m - 1)
  <2>1. m - 1 \in Nat /\ ~(m <= m - 1)
    BY <1>3
  <2> QED
    BY <1>2, <2>1
<1> DEFINE next_f(g) ==
             [k \in 0..m |-> IF k = 0 THEN <<>>
                             ELSE IF parts[k] \in {"", "."} THEN g[k - 1]
                             ELSE Append(g[k - 1], parts[k])]
           g == next_f(f)
<1>5. ASSUME NEW k \in 0..(m - 1) PROVE k \in 0..m /\ g[k] = f[k]
  <2>1. k \in 0..m
    OBVIOUS
  <2>2. g[k] = IF k = 0 THEN <<>>
               ELSE IF parts[k] \in {"", "."} THEN f[k - 1]
               ELSE Append(f[k - 1], parts[k])
    BY <2>1, Zenon
  <2>3. f[k] = IF k = 0 THEN <<>>
               ELSE IF parts[k] \in {"", "."} THEN f[k - 1]
               ELSE Append(f[k - 1], parts[k])
    BY <1>4, Zenon DEF KeptUpTo
  <2> QED
    BY <2>1, <2>2, <2>3, Zenon
<1>6. \A k \in 0..m : k = 0 \/ k - 1 \in 0..(m - 1)
  OBVIOUS
<1>7. g = next_f(g)
  <2>1. /\ g = [k \in 0..m |-> g[k]]
        /\ next_f(g) = [k \in 0..m |-> next_f(g)[k]]
    OBVIOUS
  <2>2. ASSUME NEW k \in 0..m PROVE g[k] = next_f(g)[k]
    <3>1. CASE k = 0
      BY <3>1
    <3>2. CASE k # 0
      <4>1. g[k - 1] = f[k - 1]
        BY <1>5, <1>6, <3>2
      <4>2. g[k] = IF parts[k] \in {"", "."} THEN f[k - 1]
                   ELSE Append(f[k - 1], parts[k])
        BY <3>2
      <4> HIDE DEF g
      <4>3. next_f(g)[k] = IF parts[k] \in {"", "."} THEN g[k - 1]
                           ELSE Append(g[k - 1], parts[k])
        BY <3>2
      <4> QED
        BY <4>1, <4>2, <4>3
    <3> QED
      BY <3>1, <3>2
  <2> HIDE DEF g, next_f
  <2> QED
    BY <2>1, <2>2
<1>8. KeptUpTo(g, parts, m)
  BY <1>7 DEF KeptUpTo
<1> QED
  BY <1>8

(* A normal name is a sequence of parts, some of the name's. *)
LEMMA NormalizedType ==
  ASSUME NEW name \in Names
  PROVE  Normalized(name) \in Seq(STRING)
<1> DEFINE parts == name.parts
           f == CHOOSE f : KeptUpTo(f, parts, Len(parts))
<1>1. parts \in Seq(STRING) /\ Len(parts) \in Nat
  BY DEF Names
<1>2. KeptUpTo(f, parts, Len(parts))
  BY <1>1, KeptExist
<1>3. Normalized(name) = f[Len(parts)]
  BY DEF Normalized, KeptUpTo
<1> HIDE DEF f
<1> DEFINE N == {n \in 0..Len(parts) : f[n] \notin Seq(STRING)}
<1>4. SUFFICES ASSUME N # {} PROVE FALSE
  BY <1>1, <1>3
<1>5. PICK n \in N : \A k \in N : n <= k
  <2>1. N \in SUBSET Nat
    BY <1>1
  <2> HIDE DEF N
  <2> QED
    BY <1>4, <2>1, SmallestNumber
<1>6. n # 0
  <2>1. 0 \in 0..Len(parts)
    BY <1>1
  <2>2. f[0] = <<>>
    BY <1>2, <2>1, Zenon DEF KeptUpTo
  <2>3. <<>> \in Seq(STRING)
    OBVIOUS
  <2> QED
    BY <2>2, <2>3
<1>7. n - 1 \in 0..Len(parts) /\ n - 1 \notin N
  BY <1>1, <1>5, <1>6
<1>8. f[n - 1] \in Seq(STRING) /\ parts[n] \in STRING
  BY <1>1, <1>6, <1>7
<1>9. f[n] = IF parts[n] \in {"", "."} THEN f[n - 1] ELSE Append(f[n - 1], parts[n])
  BY <1>2, <1>6, Zenon DEF KeptUpTo
<1>10. Append(f[n - 1], parts[n]) \in Seq(STRING)
  BY <1>8
<1>11. f[n] \in Seq(STRING)
  BY <1>8, <1>9, <1>10
<1> QED
  BY <1>11

-----------------------------------------------------------------------------
(***************************************************************************)
(* The first reading: the gzip file.                                       *)
(***************************************************************************)
LEMMA NoEntries == <<>> \in Seq(Members) /\ DOMAIN <<>> = {} /\ Len(<<>>) = 0
<1>1. <<>> \in Seq(Members) /\ Len(<<>>) = 0
  OBVIOUS
<1>2. DOMAIN <<>> = 1..0
  BY <1>1
<1> QED
  BY <1>1, <1>2

LEMMA GzipType ==
  ASSUME TypeOK
  PROVE  /\ gzip \in Seq(Chunks) /\ Len(gzip) \in Nat /\ DOMAIN gzip = 1..Len(gzip)
         /\ next \in Nat /\ next <= Len(gzip)
         /\ Yields \in [DOMAIN gzip -> Nat]
         /\ \A i \in DOMAIN gzip : gzip[i] \in Chunks /\ gzip[i].out \in Nat
         /\ \A k \in 0..Len(gzip) : 1..k \in SUBSET DOMAIN gzip /\ IsFiniteSet(1..k)
<1>1. gzip \in Seq(Chunks)
  BY ArchiveConstants DEF TypeOK
<1>2. Len(gzip) \in Nat /\ DOMAIN gzip = 1..Len(gzip)
  BY <1>1
<1>3. \A i \in DOMAIN gzip : gzip[i].out \in Nat
  <2>1. \A i \in DOMAIN gzip : gzip[i] \in Chunks
    BY <1>1
  <2> QED
    BY <2>1 DEF Chunks
<1>4. \A k \in 0..Len(gzip) : 1..k \in SUBSET DOMAIN gzip /\ IsFiniteSet(1..k)
  BY <1>2, FS_Interval
<1>5. Yields \in [DOMAIN gzip -> Nat]
  BY <1>3 DEF Yields
<1>6. \A i \in DOMAIN gzip : gzip[i] \in Chunks
  BY <1>1
<1>7. next \in Nat /\ next <= Len(gzip)
  <2>1. next \in 0..Len(gzip)
    BY DEF TypeOK
  <2> QED
    BY <1>2, <2>1
<1> QED
  BY <1>1, <1>2, <1>3, <1>4, <1>5, <1>6, <1>7

LEMMA SumToNext ==
  ASSUME TypeOK, NEW i \in DOMAIN gzip, i = next + 1
  PROVE  SumFunctionOnSet(Yields, 1..i)
           = SumFunctionOnSet(Yields, 1..next) + gzip[i].out
<1>1. 1..next \in SUBSET DOMAIN gzip /\ IsFiniteSet(1..next)
  BY GzipType DEF TypeOK
<1>2. 1..i = 1..next \union {i} /\ i \notin 1..next
  BY GzipType
<1>3. PICK D, w : D = DOMAIN gzip /\ w = Yields /\ w \in [D -> Nat]
  BY GzipType
<1>4. PICK S \in SUBSET D : S = 1..next /\ IsFiniteSet(S)
  BY <1>1, <1>3
<1>5. PICK a \in D \ S : a = i
  BY <1>2, <1>3, <1>4
<1>6. SumFunctionOnSet(w, S \union {a}) = SumFunctionOnSet(w, S) + w[a]
  <2>1. w \in [D -> Nat] /\ IsFiniteSet(S)
    BY <1>3, <1>4
  <2> QED
    BY <2>1, SumWithOneMore
<1> QED
  BY <1>2, <1>3, <1>4, <1>5, <1>6 DEF Yields

(* The next chunk of a sound file is not refused. *)
LEMMA SoundChunk ==
  ASSUME TypeOK, GzipInProgress, pc = "gzip", next < Len(gzip), SoundGzip
  PROVE  GzipError(gzip[next + 1], next + 1 < Len(gzip)) = ""
<1> DEFINE i == next + 1
<1>1. /\ i \in Nat /\ i <= Len(gzip) /\ next + 1 = i /\ i \in DOMAIN gzip
      /\ gzip[i].out \in Nat /\ Yields[i] = gzip[i].out
      /\ 1..i = 1..next \union {i} /\ i \notin 1..next
  BY GzipType DEF Yields, Chunks
<1>2. SumFunctionOnSet(Yields, 1..i) = produced + gzip[i].out
  BY <1>1, SumToNext DEF GzipInProgress
<1>3. SumFunctionOnSet(Yields, 1..i) <= SumFunctionOnSet(Yields, DOMAIN gzip)
  <2>1. DOMAIN gzip \in SUBSET DOMAIN gzip /\ IsFiniteSet(DOMAIN gzip)
    BY GzipType
  <2>2. 1..i \in SUBSET DOMAIN gzip
    BY <1>1, GzipType
  <2> HIDE DEF i
  <2> QED
    BY <2>1, <2>2, GzipType, SumOfPart
<1>4. SumFunctionOnSet(Yields, DOMAIN gzip) \in Nat
  BY GzipType, SumType
<1>5. gzip[i].out <= MaxDecompressed - produced
  <2>1. produced \in Nat /\ MaxDecompressed \in Nat
    BY ArchiveConstants DEF TypeOK
  <2> HIDE DEF i
  <2> QED
    BY <1>1, <1>2, <1>3, <1>4, <2>1 DEF SoundGzip
<1>6. i = Len(gzip) \/ i \in 1..(Len(gzip) - 1)
  BY <1>1, GzipType
<1>7. gzip[i].tail = IF i < Len(gzip) THEN "more" ELSE "end"
  BY <1>1, <1>6, GzipType DEF SoundGzip, Last
<1> HIDE DEF i
<1>8. ~(gzip[i].out > MaxDecompressed - produced)
  <2>1. MaxDecompressed \in Nat /\ produced \in Nat
    BY ArchiveConstants DEF TypeOK
  <2> QED
    BY <1>1, <1>5, <2>1
<1> QED
  BY <1>1, <1>7, <1>8 DEF GzipError

(* What a refusal must have shown to be one. *)
LEMMA RejectStep ==
  ASSUME IInv, NEW error, Reject(error),
         UNCHANGED <<gzip, next, produced, after>>,
         error \in Reasons,
         entries' \in Seq(Members), DOMAIN entries \subseteq DOMAIN entries',
         consumed' \in Nat, total' \in Nat,
         entries' = <<>> /\ error \in GzipReasons => ~SoundGzip,
         entries' # <<>>
           /\ error \notin {"archive_extraction_failed", "archive_view_changed"}
           => ~Acceptable'
  PROVE  IInv'
<1>1. /\ pc' = "rejected" /\ reason' = error /\ files' = NoFiles
      /\ pc' \notin Reading /\ pc' \notin {"size", "gzip"} /\ pc' \in PCs
  BY DEF Reject, Reading, Accepted, PCs
<1>2. TypeOK'
  <2>1. IsView(files)'
    BY <1>1 DEF IsView, NoFiles
  <2>2. IsView(manifest)'
    BY DEF IInv, TypeOK, IsView, after
  <2> QED
    BY <1>1, <2>1, <2>2 DEF IInv, TypeOK, after
<1>3. GzipInProgress' /\ NothingUnpacked' /\ CountsAreExact' /\ MembersPassed'
  BY <1>1 DEF IInv, GzipInProgress, NothingUnpacked, CountsAreExact, MembersPassed,
     Yields
<1>4. UnpackedInFull' /\ SurveyIsTrue' /\ RefusalIsDue'
  BY <1>1 DEF UnpackedInFull, SurveyIsTrue, RefusalIsDue, Reading, Accepted
<1>5. GzipIsJudged'
  BY <1>1 DEF GzipIsJudged, SoundGzip, Yields, Reading
<1> QED
  BY <1>2, <1>3, <1>4, <1>5 DEF IInv

LEMMA ErrorTypes ==
  /\ \A chunk, more : GzipError(chunk, more) \in GzipReasons \union {""}
  /\ \A m : MemberError(m) \in Reasons \union {""}
<1>1. ASSUME NEW chunk, NEW more PROVE GzipError(chunk, more) \in GzipReasons \union {""}
  BY DEF GzipError, GzipReasons
<1>2. ASSUME NEW m PROVE MemberError(m) \in Reasons \union {""}
  <2>1. PathError(m.name) \in Reasons \union {""}
    BY DEF PathError, Reasons
  <2>2. FileError(m) \in Reasons \union {""}
    BY DEF FileError, Reasons, GzipReasons
  <2> QED
    BY <2>1, <2>2 DEF MemberError, Reasons, GzipReasons
<1> QED
  BY <1>1, <1>2

LEMMA CheckSizeStep == ASSUME IInv, CheckSize PROVE IInv'
<1>1. /\ pc = "size" /\ UNCHANGED <<gzip, next, produced, entries, consumed, total, after>>
      /\ entries = <<>> /\ TypeOK
  BY DEF CheckSize, IInv, NothingUnpacked
<1>2. CASE Len(gzip) > MaxArchiveChunks
  <2>1. Reject("archive_size_limit_exceeded")
    BY <1>2 DEF CheckSize
  <2> QED
    BY <1>1, <2>1, RejectStep DEF GzipReasons, Reasons, TypeOK
<1>3. CASE ~(Len(gzip) > MaxArchiveChunks)
  <2>1. pc' = "gzip" /\ UNCHANGED <<reason, files>>
    BY <1>3 DEF CheckSize
  <2>2. TypeOK'
    BY <1>1, <2>1 DEF TypeOK, IsView, PCs, after
  <2>3. GzipInProgress' /\ NothingUnpacked'
    BY <1>1, <2>1 DEF IInv, GzipInProgress, NothingUnpacked, Yields, Reading, Accepted
  <2>4. /\ CountsAreExact' /\ MembersPassed' /\ UnpackedInFull' /\ SurveyIsTrue'
        /\ GzipIsJudged' /\ RefusalIsDue'
    BY <2>1 DEF CountsAreExact, MembersPassed, UnpackedInFull, SurveyIsTrue,
       GzipIsJudged, RefusalIsDue, Reading, Accepted
  <2> QED
    BY <2>2, <2>3, <2>4 DEF IInv
<1> QED
  BY <1>2, <1>3

LEMMA GzipEndsStep == ASSUME IInv, GzipEnds PROVE IInv'
<1>1. /\ pc = "gzip" /\ next = Len(gzip) /\ Reject("archive_gzip_truncated")
      /\ UNCHANGED <<gzip, next, produced, entries, consumed, total, after>>
      /\ entries = <<>> /\ TypeOK
  BY DEF GzipEnds, IInv, NothingUnpacked
<1>2. ~SoundGzip
  <2>1. \A i \in 1..Len(gzip) : gzip[i].tail = "more"
    BY <1>1 DEF IInv, GzipInProgress
  <2>2. gzip \in Seq(Chunks)
    BY <1>1, GzipType
  <2>3. gzip # <<>> => Len(gzip) \in 1..Len(gzip)
    BY <2>2
  <2> QED
    BY <2>1, <2>3 DEF SoundGzip, Last
<1> QED
  BY <1>1, <1>2, RejectStep DEF TypeOK, Reasons, GzipReasons

LEMMA ReadChunkStep == ASSUME IInv, ReadChunk PROVE IInv'
<1> DEFINE chunk == gzip[next + 1]
           error == GzipError(chunk, next + 1 < Len(gzip))
<1>1. /\ pc = "gzip" /\ next < Len(gzip) /\ TypeOK /\ GzipInProgress
      /\ UNCHANGED <<gzip, entries, consumed, total, after>>
      /\ entries = <<>> /\ consumed = 0 /\ total = 0 /\ files = NoFiles
      /\ \A k \in 1..next : gzip[k].tail = "more"
  BY DEF ReadChunk, IInv, NothingUnpacked, GzipInProgress
<1>2. CASE error # ""
  <2>1. Reject(error) /\ UNCHANGED <<next, produced>>
    BY <1>2 DEF ReadChunk
  <2>2. ~SoundGzip
    BY <1>1, <1>2, SoundChunk
  <2>3. error \in Reasons
    BY <1>2, ErrorTypes DEF Reasons
  <2> HIDE DEF error
  <2> QED
    BY <1>1, <2>1, <2>2, <2>3, RejectStep DEF TypeOK
<1>3. CASE error = ""
  <2>1. /\ next' = next + 1 /\ produced' = produced + chunk.out
        /\ pc' = IF chunk.tail = "end" THEN "members" ELSE "gzip"
        /\ UNCHANGED <<reason, files>>
    BY <1>3 DEF ReadChunk
  <2>2. PICK i \in DOMAIN gzip : i = next + 1
    BY <1>1, GzipType
  <2>3. /\ gzip[i].out \in Nat /\ Yields[i] = gzip[i].out
        /\ gzip[i].tail \in {"more", "end", "extra", "corrupt"}
        /\ produced \in Nat /\ MaxDecompressed \in Nat /\ next \in Nat
        /\ Len(gzip) \in Nat
    BY <1>1, GzipType, ArchiveConstants DEF Yields, Chunks, TypeOK
  <2>4. /\ ~(gzip[i].out > MaxDecompressed - produced)
        /\ gzip[i].tail \notin {"corrupt", "extra"}
        /\ ~(gzip[i].tail = "end" /\ i < Len(gzip))
    BY <1>3, <2>2 DEF GzipError
  <2>5. SumFunctionOnSet(Yields, 1..i) = produced + gzip[i].out
    BY <1>1, <2>2, SumToNext DEF GzipInProgress
  <2>6. produced + gzip[i].out <= MaxDecompressed
    BY <2>3, <2>4
  <2>7. TypeOK'
    <3>1. next' \in 0..Len(gzip) /\ produced' \in Nat
      BY <1>1, <2>1, <2>2, <2>3, GzipType
    <3> QED
      BY <1>1, <2>1, <3>1 DEF TypeOK, IsView, PCs, Reading, after
  <2>8. chunk.tail = "end" => SoundGzip
    <3>1. SUFFICES ASSUME gzip[i].tail = "end" PROVE SoundGzip
      BY <2>2
    <3>2. i = Len(gzip)
      BY <1>1, <2>2, <2>3, <2>4, <3>1
    <3>3. DOMAIN gzip = 1..i /\ 1..(Len(gzip) - 1) = 1..next /\ gzip # <<>>
      BY <1>1, <2>2, <2>3, <3>2, GzipType, NoEntries
    <3> QED
      BY <1>1, <2>5, <2>6, <3>1, <3>2, <3>3 DEF SoundGzip, Last
  <2>9. UNCHANGED Yields
    BY <1>1 DEF Yields
  <2>10. pc' = "gzip" => \A k \in 1..next' : gzip[k].tail = "more"
    <3>1. 1..i = 1..next \union {i}
      BY <2>2, <2>3
    <3> QED
      BY <1>1, <2>1, <2>2, <2>3, <2>4, <3>1
  <2>11. GzipInProgress'
    <3>1. UNCHANGED SoundGzip
      BY <1>1, <2>9 DEF SoundGzip
    <3>2. /\ produced' = SumFunctionOnSet(Yields, 1..next')
          /\ produced' <= MaxDecompressed
      BY <2>1, <2>2, <2>5, <2>6
    <3> QED
      BY <1>1, <2>1, <2>8, <2>9, <2>10, <3>1, <3>2 DEF GzipInProgress, Reading, Accepted
  <2>12. FileIds' = {} /\ FileBytes(FileIds)' = 0 /\ DOMAIN entries' = {}
         /\ Len(entries') = 0
    <3>1. DOMAIN entries' = {} /\ Len(entries') = 0
      BY <1>1, NoEntries
    <3>2. FileIds' = {}
      BY <3>1 DEF FileIds
    <3> QED
      BY <3>1, <3>2, SumOfNone DEF FileBytes
  <2>13. NothingUnpacked' /\ CountsAreExact' /\ MembersPassed'
    BY <1>1, <2>1, <2>12, ArchiveConstants DEF NothingUnpacked, CountsAreExact,
       MembersPassed
  <2>14. UnpackedInFull'
    <3>1. Holds(files)'
      BY <1>1, <2>1, <2>12 DEF Holds, NoFiles
    <3> QED
      BY <2>1, <3>1 DEF UnpackedInFull, Accepted
  <2>15. GzipIsJudged'
    BY <2>1, <2>11 DEF GzipIsJudged, GzipInProgress, Reading, Accepted
  <2>16. SurveyIsTrue' /\ RefusalIsDue'
    BY <2>1 DEF SurveyIsTrue, RefusalIsDue
  <2> QED
    BY <2>7, <2>11, <2>13, <2>14, <2>15, <2>16 DEF IInv
<1> QED
  BY <1>2, <1>3

-----------------------------------------------------------------------------
(***************************************************************************)
(* The second reading: the members.                                        *)
(***************************************************************************)
LEMMA MemberType ==
  ASSUME NEW m \in Members
  PROVE  /\ m.kind \in {"dir", "file", "other"} /\ m.size \in Nat /\ m.name \in Names
         /\ Body(m) \in Nat /\ Normalized(m.name) \in Seq(STRING)
<1>1. m.kind \in {"dir", "file", "other"} /\ m.size \in Nat /\ m.name \in Names
  BY ArchiveConstants
<1> QED
  BY <1>1, NormalizedType DEF Body

LEMMA EntriesType ==
  ASSUME TypeOK
  PROVE  /\ Len(entries) \in Nat /\ DOMAIN entries = 1..Len(entries)
         /\ \A i \in DOMAIN entries :
              entries[i] \in Members /\ entries[i].size \in Nat /\ i \in Nat /\ i # Foreign
         /\ \A i \in DOMAIN entries : Path(i) \in Seq(STRING)
         /\ FileIds \in SUBSET DOMAIN entries
         /\ Sizes \in [DOMAIN entries -> Nat]
         /\ \A ids \in SUBSET DOMAIN entries :
              IsFiniteSet(ids) /\ FileBytes(ids) \in Nat
<1>1. /\ Len(entries) \in Nat /\ DOMAIN entries = 1..Len(entries)
      /\ \A i \in DOMAIN entries : entries[i] \in Members
  <2>1. entries \in Seq(Members)
    BY DEF TypeOK
  <2> QED
    BY <2>1
<1>2. \A i \in DOMAIN entries : i \in Nat /\ i # Foreign
  BY <1>1 DEF Foreign
<1>3. \A i \in DOMAIN entries : entries[i].size \in Nat /\ Path(i) \in Seq(STRING)
  BY <1>1, MemberType DEF Path
<1>4. Sizes \in [DOMAIN entries -> Nat]
  BY <1>3 DEF Sizes
<1>5. \A ids \in SUBSET DOMAIN entries : IsFiniteSet(ids)
  <2>1. IsFiniteSet(DOMAIN entries)
    BY <1>1, FS_Interval
  <2> QED
    BY <2>1, FS_Subset
<1>6. ASSUME NEW ids \in SUBSET DOMAIN entries PROVE FileBytes(ids) \in Nat
  <2>1. PICK D, w : D = DOMAIN entries /\ w = Sizes
    OBVIOUS
  <2>2. w \in [D -> Nat] /\ ids \in SUBSET D /\ IsFiniteSet(ids)
    BY <1>4, <1>5, <2>1
  <2>3. SumFunctionOnSet(w, ids) \in Nat
    BY <2>2, SumType
  <2> QED
    BY <2>1, <2>3 DEF FileBytes
<1> QED
  BY <1>1, <1>2, <1>3, <1>4, <1>5, <1>6 DEF FileIds

LEMMA Within ==
  ASSUME NEW length \in Nat, NEW sum \in Nat, NEW size \in Nat, NEW limit \in Nat,
         length + 1 + (sum + size) <= limit
  PROVE  /\ ~((length + sum) + 1 > limit)
         /\ ~((length + sum) + 1 + size > limit)
OBVIOUS

LEMMA NotMore == ASSUME NEW a \in Nat, NEW b \in Nat, a <= b PROVE ~(a > b)
OBVIOUS

LEMMA OwnPrefix == ASSUME NEW path \in Seq(STRING) PROVE IsPrefix(path, path)
<1>1. Len(path) \in Nat
  OBVIOUS
<1> QED
  BY <1>1 DEF IsPrefix

Reads(m) == entries' = Append(entries, m)

(* What reading one more member changes in what was read. *)
LEMMA OneMoreMember ==
  ASSUME TypeOK, NEW m \in Members, Reads(m),
         NEW n, n = Len(entries) + 1
  PROVE  /\ entries' \in Seq(Members) /\ entries' # <<>> /\ Len(entries') = n
         /\ n \in Nat /\ n \notin DOMAIN entries
         /\ DOMAIN entries' = DOMAIN entries \union {n}
         /\ entries'[n] = m /\ \A i \in DOMAIN entries : entries'[i] = entries[i]
         /\ Path(n)' = Normalized(m.name)
         /\ \A i \in DOMAIN entries : Path(i)' = Path(i)
         /\ FileIds' = FileIds \union IF m.kind = "file" THEN {n} ELSE {}
         /\ FileBytes(FileIds)' = FileBytes(FileIds) + Body(m)
<1>1. /\ entries' \in Seq(Members) /\ entries' # <<>> /\ Len(entries') = n
      /\ n \in Nat /\ n \notin DOMAIN entries
      /\ DOMAIN entries' = DOMAIN entries \union {n}
      /\ entries'[n] = m /\ \A i \in DOMAIN entries : entries'[i] = entries[i]
  <2>1. entries \in Seq(Members)
    BY DEF TypeOK
  <2>2. /\ entries' \in Seq(Members) /\ Len(entries') = Len(entries) + 1
        /\ entries'[Len(entries) + 1] = m
        /\ \A i \in 1..Len(entries) : entries'[i] = entries[i]
    BY <2>1 DEF Reads
  <2>3. DOMAIN entries' = 1..Len(entries') /\ DOMAIN entries = 1..Len(entries)
        /\ Len(entries) \in Nat
    BY <2>1, <2>2
  <2>4. entries' # <<>>
    BY <2>2, <2>3, NoEntries
  <2> QED
    BY <2>2, <2>3, <2>4
<1>2. /\ Path(n)' = Normalized(m.name)
      /\ \A i \in DOMAIN entries : Path(i)' = Path(i)
  <2>1. ASSUME NEW i \in DOMAIN entries PROVE Path(i)' = Path(i)
    BY <1>1 DEF Path
  <2> QED
    BY <1>1, <2>1 DEF Path
<1>3. FileIds' = FileIds \union IF m.kind = "file" THEN {n} ELSE {}
  BY <1>1 DEF FileIds
<1>4. \A i \in FileIds : Sizes[i] = Sizes'[i]
  BY <1>1 DEF Sizes, FileIds
<1>5. Sizes' \in [DOMAIN entries' -> Nat] /\ Sizes'[n] = m.size
  <2>1. \A i \in DOMAIN entries' : entries'[i].size \in Nat
    BY <1>1, EntriesType, MemberType
  <2> QED
    BY <1>1, <2>1 DEF Sizes
<1>6. PICK D, w, v, S : /\ D = DOMAIN entries' /\ w = Sizes /\ v = Sizes'
                        /\ S = FileIds
  OBVIOUS
<1>7. IsFiniteSet(S) /\ v \in [D -> Nat] /\ S \in SUBSET D /\ n \in D \ S
  BY <1>1, <1>5, <1>6, EntriesType
<1>8. SumFunctionOnSet(w, S) = SumFunctionOnSet(v, S)
  <2>1. \A i \in S : w[i] = v[i]
    BY <1>4, <1>6
  <2> QED
    BY <1>7, <2>1, SumsOfEqualWeights
<1>9. SumFunctionOnSet(v, S \union {n}) = SumFunctionOnSet(v, S) + v[n]
  <2>1. PICK a \in D \ S : a = n
    BY <1>7
  <2>2. v \in [D -> Nat] /\ S \in SUBSET D /\ IsFiniteSet(S)
    BY <1>7
  <2>3. SumFunctionOnSet(v, S \union {a}) = SumFunctionOnSet(v, S) + v[a]
    BY <2>2, SumWithOneMore
  <2> QED
    BY <2>1, <2>3
<1>10. SumFunctionOnSet(v, S) \in Nat
  BY <1>7, SumType
<1>11. FileBytes(FileIds)' = FileBytes(FileIds) + Body(m)
  <2>1. CASE m.kind = "file"
    BY <1>3, <1>5, <1>6, <1>8, <1>9, <2>1 DEF FileBytes, Body
  <2>2. CASE m.kind # "file"
    <3>1. FileIds' = FileIds
      BY <1>3, <2>2
    <3> QED
      BY <1>6, <1>8, <1>10, <2>2, <3>1 DEF FileBytes, Body
  <2> QED
    BY <2>1, <2>2
<1> QED
  BY <1>1, <1>2, <1>3, <1>11

Refused(m) == MemberError(m) \notin {"", "archive_extraction_failed"}

(* Every complaint about a member but that of a file in its way is one about
   the archive. *)
LEMMA RefusedMember ==
  ASSUME IInv, pc = "members", NEW m \in Members, Reads(m), Refused(m)
  PROVE  ~Acceptable'
<1> SUFFICES ASSUME Acceptable' PROVE FALSE
  OBVIOUS
<1>1. PICK n : n = Len(entries) + 1
  OBVIOUS
<1>2. TypeOK /\ CountsAreExact /\ UnpackedInFull
  BY DEF IInv
<1>3. /\ total = FileBytes(FileIds) /\ consumed = Len(entries) + total
      /\ Holds(files)
  BY <1>2 DEF CountsAreExact, UnpackedInFull, Reading
<1>4. /\ Len(entries) \in Nat /\ total \in Nat /\ consumed \in Nat /\ m.size \in Nat
      /\ Body(m) \in Nat /\ MaxDecompressed \in Nat /\ MaxTotalExtracted \in Nat
      /\ MaxMemberCount \in Nat /\ MaxSingleFile \in Nat
  BY <1>2, EntriesType, MemberType, ArchiveConstants DEF TypeOK
<1>5. /\ n \in DOMAIN entries' /\ entries'[n] = m /\ Len(entries') = n
      /\ n \notin DOMAIN entries /\ Path(n)' = Normalized(m.name)
      /\ FileIds' = FileIds \union IF m.kind = "file" THEN {n} ELSE {}
      /\ FileBytes(FileIds)' = total + Body(m)
      /\ \A i \in DOMAIN entries : Path(i)' = Path(i)
      /\ FileIds \subseteq DOMAIN entries
  BY <1>1, <1>2, <1>3, OneMoreMember, EntriesType
<1>6. /\ n <= MaxMemberCount /\ PathError(m.name) = "" /\ m.kind # "other"
      /\ total + Body(m) <= MaxTotalExtracted
      /\ n + (total + Body(m)) <= MaxDecompressed
  BY <1>5 DEF Acceptable
<1>7. /\ ~(consumed + 1 > MaxDecompressed) /\ Len(entries) # MaxMemberCount
      /\ ~(consumed + 1 + Body(m) > MaxDecompressed)
      /\ ~(total + Body(m) > MaxTotalExtracted)
  <2>1. PICK l \in Nat, t \in Nat, b \in Nat :
          l = Len(entries) /\ t = total /\ b = Body(m)
    BY <1>4
  <2>2. /\ l + 1 + (t + b) <= MaxDecompressed /\ consumed = l + t
        /\ l + 1 <= MaxMemberCount /\ t + b <= MaxTotalExtracted
    BY <1>1, <1>3, <1>6, <2>1
  <2>3. /\ ~((l + t) + 1 > MaxDecompressed) /\ ~((l + t) + 1 + b > MaxDecompressed)
    BY <1>4, <2>2, Within
  <2>4. l # MaxMemberCount
    BY <1>4, <2>2
  <2>5. t + b \in Nat
    OBVIOUS
  <2>6. ~(t + b > MaxTotalExtracted)
    BY <1>4, <2>2, <2>5, NotMore
  <2> QED
    BY <2>1, <2>2, <2>3, <2>4, <2>6
<1>8. m.kind = "file" /\ MemberError(m) = FileError(m)
  <2>1. m.kind = "dir" => MemberError(m) = ""
    BY <1>6, <1>7 DEF MemberError
  <2> QED
    BY <1>6, <1>7, <2>1, MemberType DEF MemberError, Refused
<1>9. m.size <= MaxSingleFile /\ Body(m) = m.size /\ n \in FileIds'
  BY <1>5, <1>8 DEF Acceptable, Body
<1>10. Normalized(m.name) \notin DOMAIN files
  <2>1. SUFFICES ASSUME Normalized(m.name) \in DOMAIN files PROVE FALSE
    OBVIOUS
  <2>2. PICK i \in FileIds : Path(i) = Normalized(m.name)
    BY <1>3, <2>1 DEF Holds
  <2>3. i \in FileIds' /\ i # n /\ Path(i)' = Path(n)'
    BY <1>5, <2>2
  <2>4. IsPrefix(Path(i), Path(n))'
    <3>1. PICK p \in Seq(STRING) : p = Normalized(m.name)
      BY MemberType
    <3>2. IsPrefix(p, p)
      BY OwnPrefix
    <3>3. Path(i)' = p /\ Path(n)' = p
      BY <1>5, <2>3, <3>1
    <3> QED
      BY <3>2, <3>3
  <2> QED
    BY <1>9, <2>3, <2>4 DEF Acceptable
<1>11. ~(m.size > MaxSingleFile)
  BY <1>4, <1>9, NotMore
<1> QED
  BY <1>7, <1>8, <1>9, <1>10, <1>11 DEF FileError, Refused

Passes(m) == MemberError(m) = ""
Named(m) == PathError(m.name) = ""

(* What a member that passes is found to be. *)
LEMMA PassedMember ==
  ASSUME TypeOK, NEW m \in Members, Passes(m)
  PROVE  /\ Named(m) /\ m.kind \in {"dir", "file"}
         /\ Len(entries) # MaxMemberCount
         /\ consumed + 1 + Body(m) <= MaxDecompressed
         /\ m.kind = "file" =>
              /\ m.size <= MaxSingleFile /\ total + Body(m) <= MaxTotalExtracted
              /\ Normalized(m.name) \notin DOMAIN files /\ ~Obstructed(Normalized(m.name))
<1>1. Named(m) /\ m.kind \in {"dir", "file"}
  BY MemberType DEF MemberError, Passes, Named
<1>2. ~(consumed + 1 > MaxDecompressed) /\ Len(entries) # MaxMemberCount
  BY DEF MemberError, Passes
<1>3. m.kind = "file" => FileError(m) = ""
  BY <1>1 DEF MemberError, Passes, Named
<1>4. m.kind = "file" =>
        /\ ~(m.size > MaxSingleFile) /\ ~(total + m.size > MaxTotalExtracted)
        /\ ~(consumed + 1 + m.size > MaxDecompressed)
        /\ Normalized(m.name) \notin DOMAIN files /\ ~Obstructed(Normalized(m.name))
  BY <1>3 DEF FileError
<1>5. /\ total \in Nat /\ consumed \in Nat /\ m.size \in Nat
      /\ MaxDecompressed \in Nat /\ MaxTotalExtracted \in Nat /\ MaxSingleFile \in Nat
      /\ Body(m) = IF m.kind = "file" THEN m.size ELSE 0
  BY MemberType, ArchiveConstants DEF TypeOK, Body
<1>6. consumed + 1 + Body(m) <= MaxDecompressed
  BY <1>2, <1>4, <1>5
<1>7. m.kind = "file" =>
        m.size <= MaxSingleFile /\ total + Body(m) <= MaxTotalExtracted
  BY <1>4, <1>5
<1> QED
  BY <1>1, <1>2, <1>4, <1>6, <1>7

LEMMA ReadMemberPasses ==
  ASSUME IInv, NEW m \in Members, ReadMember(m), Passes(m)
  PROVE  /\ TypeOK' /\ CountsAreExact' /\ MembersPassed' /\ UnpackedInFull'
<1>1. PICK n : n = Len(entries) + 1
  OBVIOUS
<1> DEFINE p == Normalized(m.name)
<1>2. /\ pc = "members" /\ Reads(m) /\ consumed' = consumed + 1 + Body(m)
      /\ total' = total + Body(m) /\ UNCHANGED <<gzip, next, produced, after, pc>>
      /\ files' = IF m.kind = "dir" THEN files ELSE With(p, Len(entries'))
  BY DEF ReadMember, Reads, Passes
<1>3. /\ TypeOK /\ total = FileBytes(FileIds) /\ consumed = Len(entries) + total
      /\ total <= MaxTotalExtracted /\ Len(entries) <= MaxMemberCount
      /\ Holds(files)
      /\ \A i \in DOMAIN entries : Named(entries[i]) /\ entries[i].kind # "other"
      /\ \A i \in FileIds : entries[i].size <= MaxSingleFile
      /\ \A i, j \in FileIds : i # j => ~IsPrefix(Path(i), Path(j))
  BY <1>2 DEF IInv, CountsAreExact, MembersPassed, UnpackedInFull, Reading, Named
<1>4. /\ Named(m) /\ m.kind \in {"dir", "file"} /\ Len(entries) # MaxMemberCount
      /\ consumed + 1 + Body(m) <= MaxDecompressed
      /\ m.kind = "file" =>
           /\ m.size <= MaxSingleFile /\ total + Body(m) <= MaxTotalExtracted
           /\ p \notin DOMAIN files /\ ~Obstructed(p)
  BY <1>3, PassedMember
<1>5. /\ Len(entries) \in Nat /\ total \in Nat /\ consumed \in Nat
      /\ Body(m) \in Nat /\ MaxMemberCount \in Nat /\ p \in Seq(STRING)
  BY <1>3, EntriesType, MemberType, ArchiveConstants DEF TypeOK
<1>6. /\ entries' \in Seq(Members) /\ Len(entries') = n /\ n \in Nat
      /\ n \notin DOMAIN entries /\ DOMAIN entries' = DOMAIN entries \union {n}
      /\ entries'[n] = m /\ \A i \in DOMAIN entries : entries'[i] = entries[i]
      /\ Path(n)' = p /\ \A i \in DOMAIN entries : Path(i)' = Path(i)
      /\ FileIds' = FileIds \union IF m.kind = "file" THEN {n} ELSE {}
      /\ FileBytes(FileIds)' = total + Body(m)
      /\ FileIds \subseteq DOMAIN entries
  BY <1>1, <1>2, <1>3, OneMoreMember, EntriesType
<1> HIDE DEF p
<1>7. /\ m.kind = "dir" => files' = files /\ FileIds' = FileIds /\ Body(m) = 0
      /\ m.kind = "file" =>
           /\ files' = [q \in DOMAIN files \union {p} |->
                          IF q = p THEN n ELSE files[q]]
           /\ n \in FileIds'
  BY <1>2, <1>4, <1>6 DEF With, Body
<1>8. TypeOK'
  <2>1. consumed' \in Nat /\ total' \in Nat
    BY <1>2, <1>5
  <2>2. IsView(files)'
    BY <1>3, <1>4, <1>5, <1>6, <1>7 DEF TypeOK, IsView
  <2>3. IsView(manifest)'
    BY <1>2, <1>3, <1>6 DEF TypeOK, IsView, after
  <2>4. UNCHANGED reason
    BY DEF ReadMember, Passes
  <2> QED
    BY <1>2, <1>3, <1>6, <2>1, <2>2, <2>3, <2>4 DEF TypeOK, after
<1>9. CountsAreExact'
  <2>1. total' = FileBytes(FileIds)' /\ consumed' = Len(entries') + total'
    <3>1. total' = FileBytes(FileIds)'
      BY <1>2, <1>6
    <3>2. consumed' = Len(entries') + total'
      <4>1. /\ consumed' = consumed + 1 + Body(m) /\ consumed = Len(entries) + total
            /\ Len(entries') = Len(entries) + 1 /\ total' = total + Body(m)
        BY <1>1, <1>2, <1>3, <1>6
      <4>2. Len(entries) \in Nat /\ total \in Nat /\ Body(m) \in Nat
        BY <1>5
      <4> QED
        BY <4>1, <4>2
    <3> QED
      BY <3>1, <3>2
  <2>2. total' <= MaxTotalExtracted
    BY <1>2, <1>3, <1>4, <1>5, <1>7
  <2>3. Len(entries') <= MaxMemberCount
    BY <1>1, <1>3, <1>4, <1>5, <1>6
  <2> QED
    BY <1>2, <1>4, <2>1, <2>2, <2>3 DEF CountsAreExact
<1>10. MembersPassed'
  <2>1. ASSUME NEW i \in DOMAIN entries'
        PROVE  Named(entries'[i]) /\ entries'[i].kind # "other"
    BY <1>3, <1>4, <1>6
  <2>2. ASSUME NEW i \in FileIds' PROVE entries'[i].size <= MaxSingleFile
    BY <1>3, <1>4, <1>6
  <2>3. ASSUME NEW i \in FileIds', NEW j \in FileIds', i # j
        PROVE  ~IsPrefix(Path(i)', Path(j)')
    <3>1. CASE i \in FileIds /\ j \in FileIds
      BY <1>3, <1>6, <2>3, <3>1
    <3>2. CASE i = n \/ j = n
      <4>1. m.kind = "file" /\ \A k \in FileIds : Path(k) \in DOMAIN files
        BY <1>3, <1>4, <1>6, <3>2 DEF Holds
      <4> QED
        BY <1>4, <1>6, <2>3, <3>2, <4>1 DEF Obstructed
    <3> QED
      BY <1>6, <3>1, <3>2
  <2>4. \A i \in DOMAIN entries' : PathError(entries'[i].name) = ""
                                    /\ entries'[i].kind # "other"
    BY <2>1 DEF Named
  <2> QED
    BY <1>6, <2>2, <2>3, <2>4 DEF MembersPassed, PathError, Unsafe
<1>11. UnpackedInFull'
  <2>1. Holds(files)'
    <3>1. CASE m.kind = "dir"
      BY <1>3, <1>6, <1>7, <3>1 DEF Holds
    <3>2. CASE m.kind = "file"
      <4>1. ASSUME NEW i \in FileIds'
            PROVE  Path(i)' \in DOMAIN files' /\ files'[Path(i)'] = i
        BY <1>3, <1>4, <1>6, <1>7, <3>2 DEF Holds
      <4>2. ASSUME NEW q \in DOMAIN files'
            PROVE  files'[q] \in FileIds' /\ Path(files[q])' = q
        <5>1. CASE q = p
          BY <1>6, <1>7, <3>2, <5>1
        <5>2. CASE q # p
          <6>1. q \in DOMAIN files /\ files'[q] = files[q]
            BY <1>7, <3>2, <5>2
          <6>2. files[q] \in FileIds /\ Path(files[q]) = q
            BY <1>3, <6>1 DEF Holds
          <6>3. PICK i \in FileIds : i = files[q]
            BY <6>2
          <6>4. Path(i)' = q
            BY <1>6, <6>2, <6>3
          <6> QED
            BY <1>6, <6>1, <6>2, <6>3, <6>4 DEF Path
        <5> QED
          BY <5>1, <5>2
      <4> QED
        BY <4>1, <4>2 DEF Holds
    <3> QED
      BY <1>4, <3>1, <3>2
  <2> QED
    BY <1>2, <2>1 DEF UnpackedInFull, Accepted
<1> QED
  BY <1>8, <1>9, <1>10, <1>11

LEMMA ReadMemberStep == ASSUME IInv, NEW m \in Members, ReadMember(m) PROVE IInv'
<1>1. /\ pc = "members" /\ Reads(m) /\ UNCHANGED <<gzip, next, produced, after>>
      /\ consumed' = consumed + 1 + Body(m) /\ total' = total + Body(m)
      /\ TypeOK /\ GzipInProgress
  BY DEF ReadMember, Reads, IInv
<1>2. CASE Passes(m)
  <2>1. UNCHANGED <<pc, reason>>
    BY <1>2 DEF ReadMember, Passes
  <2>2. GzipInProgress'
    BY <1>1, <2>1 DEF GzipInProgress, SoundGzip, Yields, Reading, Accepted
  <2>3. NothingUnpacked' /\ SurveyIsTrue' /\ RefusalIsDue'
    BY <1>1, <2>1 DEF NothingUnpacked, SurveyIsTrue, RefusalIsDue
  <2>4. GzipIsJudged'
    BY <1>1, <2>1, <2>2 DEF GzipInProgress, GzipIsJudged, Reading, Accepted
  <2> QED
    BY <1>2, <2>2, <2>3, <2>4, ReadMemberPasses DEF IInv
<1>3. CASE ~Passes(m)
  <2>1. Reject(MemberError(m))
    BY <1>3 DEF ReadMember, Passes
  <2>2. entries' \in Seq(Members) /\ entries' # <<>>
    BY <1>1, OneMoreMember
  <2>3. consumed' \in Nat /\ total' \in Nat
    <3>1. consumed \in Nat /\ total \in Nat /\ Body(m) \in Nat
      BY <1>1, MemberType DEF TypeOK
    <3> QED
      BY <1>1, <3>1
  <2>4. MemberError(m) # "archive_extraction_failed" => ~Acceptable'
    BY <1>1, <1>3, RefusedMember DEF Refused, Passes
  <2>5. MemberError(m) \in Reasons /\ DOMAIN entries \subseteq DOMAIN entries'
    BY <1>1, <1>3, ErrorTypes, OneMoreMember DEF Passes
  <2> QED
    BY <1>1, <2>1, <2>2, <2>3, <2>4, <2>5, RejectStep
<1> QED
  BY <1>2, <1>3

LEMMA ReadFailsStep == ASSUME IInv, ReadFails PROVE IInv'
<1>1. /\ Reject("archive_extraction_failed") /\ TypeOK
      /\ UNCHANGED <<gzip, next, produced, entries, consumed, total, after>>
  BY DEF ReadFails, IInv
<1> QED
  BY <1>1, RejectStep DEF TypeOK, GzipReasons, Reasons

LEMMA EndOfArchiveStep == ASSUME IInv, EndOfArchive PROVE IInv'
<1>1. /\ pc = "members" /\ TypeOK /\ GzipInProgress /\ CountsAreExact
      /\ MembersPassed /\ Holds(files)
      /\ UNCHANGED <<gzip, next, produced, entries, consumed, total, coverage>>
      /\ \A i \in FileIds : Len(Path(i)) \in Nat /\ Len(Path(i)) # 0
  <2>1. /\ pc = "members" /\ TypeOK /\ GzipInProgress /\ CountsAreExact
        /\ MembersPassed /\ Holds(files)
        /\ UNCHANGED <<gzip, next, produced, entries, consumed, total, coverage>>
    BY DEF EndOfArchive, IInv, UnpackedInFull
  <2>2. ASSUME NEW i \in FileIds PROVE Len(Path(i)) \in Nat /\ Len(Path(i)) # 0
    <3>1. i \in DOMAIN entries
      BY DEF FileIds
    <3>2. PICK p \in Seq(STRING) : p = Path(i)
      BY <2>1, <3>1, EntriesType
    <3>3. PathError(entries[i].name) = ""
      BY <2>1, <3>1 DEF MembersPassed, Reading
    <3>4. p # <<>>
      BY <3>2, <3>3 DEF PathError, Unsafe, Path
    <3>5. Len(p) \in Nat /\ Len(p) # 0
      BY <3>4
    <3> QED
      BY <3>2, <3>5
  <2> QED
    BY <2>1, <2>2
<1>2. CASE files = NoFiles \/ \E path \in DOMAIN files : Len(path) = 1
  <2>1. Reject("archive_root_missing") /\ UNCHANGED manifest
    BY <1>2 DEF EndOfArchive
  <2>2. ~Acceptable
    <3>1. CASE files = NoFiles
      BY <1>1, <3>1 DEF Holds, NoFiles, Acceptable
    <3>2. CASE \E path \in DOMAIN files : Len(path) = 1
      <4>1. PICK i \in FileIds : Len(Path(i)) = 1
        BY <1>1, <3>2 DEF Holds
      <4>2. ~(Len(Path(i)) > 1)
        BY <4>1
      <4> QED
        BY <4>2 DEF Acceptable
    <3> QED
      BY <1>2, <3>1, <3>2
  <2>3. UNCHANGED Acceptable
    BY <1>1 DEF Acceptable, FileIds, FileBytes, Sizes, Path
  <2>4. UNCHANGED after
    BY <1>1, <2>1 DEF after
  <2> QED
    BY <1>1, <2>1, <2>2, <2>3, <2>4, RejectStep DEF TypeOK, GzipReasons, Reasons
<1>3. CASE files # NoFiles /\ \A path \in DOMAIN files : Len(path) # 1
  <2>1. pc' = "accepted" /\ manifest' = files /\ UNCHANGED <<reason, files>>
    BY <1>3 DEF EndOfArchive
  <2>2. FileIds # {}
    <3>1. DOMAIN files # {}
      BY <1>1, <1>3 DEF TypeOK, IsView, NoFiles
    <3> QED
      BY <1>1, <3>1 DEF Holds
  <2>3. \A i \in FileIds : Len(Path(i)) > 1
    <3>1. ASSUME NEW i \in FileIds PROVE Len(Path(i)) > 1
      <4>1. Len(Path(i)) # 1
        BY <1>1, <1>3 DEF Holds
      <4>2. PICK l \in Nat : l = Len(Path(i))
        BY <1>1
      <4>3. l # 0 /\ l # 1
        BY <1>1, <4>1, <4>2
      <4>4. l > 1
        BY <4>3
      <4> QED
        BY <4>2, <4>4
    <3> QED
      BY <3>1
  <2>4. UNCHANGED <<FileIds, FileBytes(FileIds)>> /\ \A i : Path(i)' = Path(i)
    BY <1>1 DEF FileIds, FileBytes, Sizes, Path
  <2>5. TypeOK'
    BY <1>1, <2>1 DEF TypeOK, IsView, PCs, Reading, Accepted
  <2>6. GzipInProgress' /\ GzipIsJudged'
    BY <1>1, <2>1 DEF GzipInProgress, GzipIsJudged, SoundGzip, Yields, Reading, Accepted
  <2>7. NothingUnpacked' /\ SurveyIsTrue' /\ RefusalIsDue'
    BY <2>1 DEF NothingUnpacked, SurveyIsTrue, RefusalIsDue
  <2>8. CountsAreExact' /\ MembersPassed'
    BY <1>1, <2>1, <2>4 DEF CountsAreExact, MembersPassed, Reading, PathError, Unsafe
  <2>9. UnpackedInFull'
    <3>1. Holds(manifest)'
      BY <1>1, <2>1, <2>4 DEF Holds, Path
    <3> QED
      BY <2>1, <2>2, <2>3, <2>4, <3>1 DEF UnpackedInFull, Accepted
  <2> QED
    BY <2>5, <2>6, <2>7, <2>8, <2>9 DEF IInv
<1> QED
  BY <1>2, <1>3

-----------------------------------------------------------------------------
(***************************************************************************)
(* The accepted view.                                                      *)
(***************************************************************************)
(* A step that reads nothing more and does not refuse. *)
LEMMA ViewStep ==
  ASSUME IInv, pc \in Accepted, pc' \in Accepted,
         UNCHANGED <<gzip, next, produced, entries, consumed, total, manifest, reason>>,
         IsView(files)',
         \A path \in DOMAIN files' : files'[path] # Foreign =>
           path \in DOMAIN manifest /\ files'[path] = manifest[path],
         coverage' \in Coverages \union {""},
         SurveyIsTrue'
  PROVE  IInv'
<1>1. /\ TypeOK /\ GzipInProgress /\ CountsAreExact /\ MembersPassed /\ UnpackedInFull
      /\ pc \in Reading /\ pc' \in Reading /\ pc' \in PCs
      /\ pc' \notin {"size", "gzip", "members", "rejected"}
  BY DEF IInv, Reading, Accepted, PCs
<1>2. UNCHANGED <<FileIds, FileBytes(FileIds)>> /\ \A i : Path(i)' = Path(i)
  BY DEF FileIds, FileBytes, Sizes, Path
<1>3. TypeOK'
  <2>1. IsView(manifest)'
    BY <1>1 DEF TypeOK, IsView
  <2>2. pc # "rejected" /\ reason = "" /\ reason' = ""
    BY <1>1 DEF TypeOK, Accepted
  <2> QED
    BY <1>1, <2>1, <2>2 DEF TypeOK
<1>4. GzipInProgress' /\ GzipIsJudged'
  BY <1>1 DEF GzipInProgress, GzipIsJudged, SoundGzip, Yields
<1>5. NothingUnpacked' /\ RefusalIsDue'
  BY <1>1 DEF NothingUnpacked, RefusalIsDue
<1>6. CountsAreExact' /\ MembersPassed'
  BY <1>1, <1>2 DEF CountsAreExact, MembersPassed, PathError, Unsafe
<1>7. UnpackedInFull'
  <2>1. Holds(manifest)' /\ FileIds' # {} /\ \A i \in FileIds' : Len(Path(i)') > 1
    BY <1>1, <1>2 DEF UnpackedInFull, Holds, Path
  <2> QED
    BY <1>1, <1>2, <2>1 DEF UnpackedInFull
<1> QED
  BY <1>3, <1>4, <1>5, <1>6, <1>7 DEF IInv

LEMMA AlterViewStep == ASSUME IInv, AlterView PROVE IInv'
<1>1. /\ pc \in {"accepted", "surveyed"} /\ files = manifest /\ TypeOK /\ SurveyIsTrue
      /\ UNCHANGED <<gzip, next, produced, entries, consumed, total, after, pc, reason>>
  BY DEF AlterView, IInv
<1>2. PICK p \in Seq(STRING) :
        \/ files' = With(p, Foreign)
        \/ files' = [other \in DOMAIN files \ {p} |-> files[other]]
  BY MemberType DEF AlterView
<1>3. /\ IsView(files)'
      /\ \A path \in DOMAIN files' : files'[path] # Foreign =>
           path \in DOMAIN manifest /\ files'[path] = manifest[path]
  <2>1. CASE files' = With(p, Foreign)
    BY <1>1, <2>1 DEF With, TypeOK, IsView
  <2>2. CASE files' = [other \in DOMAIN files \ {p} |-> files[other]]
    BY <1>1, <2>2 DEF TypeOK, IsView
  <2> QED
    BY <1>2, <2>1, <2>2
<1>4. SurveyIsTrue'
  <2>1. UNCHANGED Locks
    BY <1>1 DEF Locks, FileIds, Path
  <2> QED
    BY <1>1, <2>1 DEF SurveyIsTrue, after
<1>5. coverage' \in Coverages \union {""}
  BY <1>1 DEF TypeOK, after
<1> QED
  BY <1>1, <1>3, <1>4, <1>5, ViewStep DEF Accepted, after

LEMMA DetermineCoverageStep == ASSUME IInv, DetermineCoverage PROVE IInv'
<1>1. /\ pc = "accepted" /\ pc' = "surveyed" /\ TypeOK /\ UnpackedInFull
      /\ UNCHANGED <<gzip, next, produced, entries, consumed, total, files, manifest,
                     reason>>
  BY DEF DetermineCoverage, IInv
<1>2. coverage' \in Coverages
  BY DEF DetermineCoverage, Coverages
<1>3. Holds(manifest) /\ \A i \in FileIds : i # Foreign
  BY <1>1, EntriesType DEF UnpackedInFull, Accepted
<1>4. files = manifest => \A i \in Locks : Path(i) \in Candidates /\ files[Path(i)] = i
  BY <1>3 DEF Locks, Candidates, Holds
<1>5. files = manifest => \A path \in Candidates : files[path] \in Locks
  BY <1>3 DEF Locks, Candidates, Holds
<1>6. ASSUME files = manifest, coverage' # "indeterminate"
      PROVE  /\ coverage' = "no_supported_targets" <=> Locks = {}
             /\ \A i \in Locks : entries[i].json
  <2>1. /\ \A path \in Candidates : Parses(path)
        /\ coverage' = IF Candidates = {} THEN "no_supported_targets"
                                          ELSE "targets_present"
    BY <1>6 DEF DetermineCoverage
  <2>2. Candidates = {} <=> Locks = {}
    BY <1>4, <1>5, <1>6
  <2>3. ASSUME NEW i \in Locks PROVE entries[i].json
    <3>1. i # Foreign /\ Path(i) \in Candidates /\ files[Path(i)] = i
      BY <1>3, <1>4, <1>6 DEF Locks
    <3> QED
      BY <2>1, <3>1 DEF Parses
  <2> QED
    BY <2>1, <2>2, <2>3
<1>7. SurveyIsTrue'
  <2>1. UNCHANGED Locks
    BY <1>1 DEF Locks, FileIds, Path
  <2> QED
    BY <1>1, <1>6, <2>1 DEF SurveyIsTrue
<1> QED
  <2>1. IsView(files)'
    BY <1>1 DEF TypeOK, IsView
  <2> QED
    BY <1>1, <1>2, <1>7, <2>1, ViewStep DEF Accepted, UnpackedInFull

LEMMA VerifyUnchangedStep == ASSUME IInv, VerifyUnchanged PROVE IInv'
<1>1. /\ pc = "surveyed" /\ coverage # "indeterminate" /\ TypeOK /\ UnpackedInFull
      /\ SurveyIsTrue
      /\ UNCHANGED <<gzip, next, produced, entries, consumed, total, after>>
  BY DEF VerifyUnchanged, IInv
<1>2. CASE files # manifest
  <2>1. Reject("archive_view_changed")
    BY <1>2 DEF VerifyUnchanged
  <2> QED
    BY <1>1, <2>1, RejectStep DEF TypeOK, GzipReasons, Reasons
<1>3. CASE files = manifest
  <2>1. pc' = "verified" /\ UNCHANGED <<reason, files>>
    BY <1>3 DEF VerifyUnchanged
  <2>2. UNCHANGED Locks
    BY <1>1 DEF Locks, FileIds, Path
  <2>3. SurveyIsTrue'
    BY <1>1, <1>3, <2>1, <2>2 DEF SurveyIsTrue, after
  <2> QED
    <3>1. IsView(files)'
      BY <1>1, <2>1 DEF TypeOK, IsView
    <3> QED
      BY <1>1, <2>1, <2>3, <3>1, ViewStep DEF Accepted, TypeOK, UnpackedInFull, after
<1> QED
  BY <1>2, <1>3

-----------------------------------------------------------------------------
LEMMA InitInvariant == Init => IInv
<1> SUFFICES ASSUME Init PROVE IInv
  OBVIOUS
<1>1. /\ gzip \in GzipFiles /\ next = 0 /\ produced = 0
      /\ entries = <<>> /\ consumed = 0 /\ total = 0 /\ files = NoFiles
      /\ pc = "size"
  BY DEF Init
<1>2. TypeOK
  <2>1. gzip \in Seq(Chunks)
    BY <1>1, ArchiveConstants
  <2>2. 0 \in 0..Len(gzip)
    BY <2>1
  <2>3. entries \in Seq(Members)
    BY <1>1, NoEntries
  <2>4. 0 \in Nat
    OBVIOUS
  <2>5. IsView(files) /\ IsView(manifest)
    BY DEF Init, IsView, NoFiles
  <2>6. coverage \in Coverages \union {""} /\ pc \in PCs /\ pc # "rejected" /\ reason = ""
    BY DEF Init, PCs
  <2> QED
    BY <1>1, <2>2, <2>3, <2>4, <2>5, <2>6 DEF TypeOK
<1>3. GzipInProgress
  <2>1. 1..next = {}
    BY <1>1
  <2>2. SumFunctionOnSet(Yields, 1..next) = 0
    BY <2>1, SumOfNone
  <2> QED
    BY <1>1, <2>1, <2>2, ArchiveConstants DEF GzipInProgress, Reading, Accepted
<1>4. NothingUnpacked
  BY <1>1 DEF NothingUnpacked
<1>5. /\ CountsAreExact /\ MembersPassed /\ UnpackedInFull /\ SurveyIsTrue
      /\ GzipIsJudged /\ RefusalIsDue
  BY <1>1 DEF CountsAreExact, MembersPassed, UnpackedInFull, SurveyIsTrue, GzipIsJudged,
     RefusalIsDue, Reading, Accepted
<1> QED
  BY <1>2, <1>3, <1>4, <1>5 DEF IInv

LEMMA StutterInvariant == IInv /\ UNCHANGED vars => IInv'
<1> SUFFICES ASSUME IInv, UNCHANGED vars PROVE IInv'
  OBVIOUS
<1>1. UNCHANGED <<gzip, next, produced, entries, consumed, total, files, manifest,
                  coverage, pc, reason>>
  BY DEF vars, after
<1>2. /\ UNCHANGED <<FileIds, FileBytes(FileIds), Acceptable, Locks, SoundGzip, Yields>>
      /\ \A i : Path(i)' = Path(i)
  BY <1>1 DEF FileIds, FileBytes, Sizes, Path, Acceptable, Locks, SoundGzip, Yields
<1>3. TypeOK'
  BY <1>1 DEF IInv, TypeOK, IsView
<1>4. GzipInProgress' /\ GzipIsJudged'
  BY <1>1, <1>2 DEF IInv, GzipInProgress, GzipIsJudged
<1>5. NothingUnpacked' /\ CountsAreExact'
  BY <1>1, <1>2 DEF IInv, NothingUnpacked, CountsAreExact
<1>6. MembersPassed'
  BY <1>1, <1>2 DEF IInv, MembersPassed, PathError, Unsafe
<1>7. UnpackedInFull'
  BY <1>1, <1>2 DEF IInv, UnpackedInFull, Holds, Path
<1>8. SurveyIsTrue' /\ RefusalIsDue'
  BY <1>1, <1>2 DEF IInv, SurveyIsTrue, RefusalIsDue
<1> QED
  BY <1>3, <1>4, <1>5, <1>6, <1>7, <1>8 DEF IInv

(* The inductive invariant: whatever chunks a gzip file is read in and whatever
   members come in whatever order, each check of package_archive.py leaves what
   the later ones rely on. *)
THEOREM Invariance == Spec => []IInv
<1>1. IInv /\ [Next]_vars => IInv'
  BY CheckSizeStep, ReadChunkStep, GzipEndsStep, ReadMemberStep, ReadFailsStep,
     EndOfArchiveStep, AlterViewStep, DetermineCoverageStep, VerifyUnchangedStep,
     StutterInvariant DEF Next
<1> QED
  BY <1>1, InitInvariant, PTL DEF Spec

(* The variables keep their types. *)
THEOREM TypeCorrect == Spec => []TypeOK
<1>1. IInv => TypeOK
  BY DEF IInv
<1> QED
  BY <1>1, Invariance, PTL

(* Exactly the whole, bounded gzip members get past _validate_gzip, in whatever
   chunks they are read. *)
THEOREM GzipJudged == Spec => []GzipIsJudged
<1>1. IInv => GzipIsJudged
  BY DEF IInv
<1> QED
  BY <1>1, Invariance, PTL

(* The one pass over the members accepts nothing and refuses nothing that a
   judgement of the whole archive would not, for archives of any length. *)
THEOREM AcceptanceIsExact == Spec => []AcceptedIffAcceptable
<1>1. IInv => AcceptedIffAcceptable
  <2> SUFFICES ASSUME IInv, pc \in Accepted PROVE Acceptable
    BY DEF IInv, AcceptedIffAcceptable
  <2>1. pc \in Reading /\ CountsAreExact /\ MembersPassed /\ UnpackedInFull
    BY DEF IInv, Reading
  <2>2. /\ total = FileBytes(FileIds) /\ consumed = Len(entries) + total
        /\ total <= MaxTotalExtracted /\ consumed <= MaxDecompressed
        /\ Len(entries) <= MaxMemberCount
    BY <2>1 DEF CountsAreExact
  <2> QED
    BY <2>1, <2>2 DEF MembersPassed, UnpackedInFull, Acceptable
<1> QED
  BY <1>1, Invariance, PTL

(* The manifest of an accepted view names every regular member once, under its
   normal path, and nothing else. *)
THEOREM ViewsAreExact == Spec => []ViewIsTheArchive
<1>1. IInv => ViewIsTheArchive
  BY DEF IInv, UnpackedInFull, ViewIsTheArchive
<1> QED
  BY <1>1, Invariance, PTL

(* What the search for lock files found is true of the archive whenever the
   view passed verify_unchanged, whatever was done to its files in between, and
   before that as long as nothing was done to them. *)
THEOREM CoverageIsTrue == Spec => []CoverageIsTheArchives
<1>1. IInv => CoverageIsTheArchives
  BY DEF IInv, SurveyIsTrue, CoverageIsTheArchives
<1> QED
  BY <1>1, Invariance, PTL

(* No archive makes the producer hold or write more than the limits, at any
   moment, whatever the limits are. *)
THEOREM BoundedWork == Spec => []WorkIsBounded
<1>1. IInv => WorkIsBounded
  <2> SUFFICES ASSUME IInv PROVE WorkIsBounded
    OBVIOUS
  <2>1. TypeOK /\ NothingUnpacked /\ CountsAreExact /\ MembersPassed /\ UnpackedInFull
    BY DEF IInv
  <2>2. pc \in {"size", "gzip", "rejected"} \/ pc \in Reading
    BY <2>1 DEF TypeOK, PCs
  <2>3. CASE pc \in {"size", "gzip", "rejected"}
    <3>1. files = NoFiles
      BY <2>1, <2>3 DEF NothingUnpacked, UnpackedInFull
    <3>2. Unpacked = {}
      BY <3>1 DEF Unpacked, NoFiles
    <3>3. FileBytes(Unpacked) = 0
      BY <3>2, SumOfNone DEF FileBytes
    <3>4. pc # "rejected" => consumed = 0 /\ Len(entries) = 0
      BY <2>1, <2>3, NoEntries DEF NothingUnpacked
    <3>5. /\ MaxDecompressed \in Nat /\ MaxMemberCount \in Nat
          /\ MaxTotalExtracted \in Nat
      BY ArchiveConstants
    <3>6. 0 <= MaxDecompressed /\ 0 <= MaxMemberCount /\ 0 <= MaxTotalExtracted
      BY <3>5
    <3> QED
      BY <3>2, <3>3, <3>4, <3>6 DEF WorkIsBounded
  <2>4. CASE pc \in Reading
    <3>1. Unpacked \subseteq FileIds
      <4>1. CASE pc = "members"
        BY <2>1, <4>1 DEF UnpackedInFull, Holds, Unpacked
      <4>2. CASE pc \in Accepted
        BY <2>1, <4>2 DEF UnpackedInFull, Holds, Unpacked
      <4> QED
        BY <2>4, <4>1, <4>2 DEF Reading
    <3>2. FileBytes(Unpacked) <= FileBytes(FileIds)
      <4>1. PICK D, w, S, R : /\ D = DOMAIN entries /\ w = Sizes /\ S = FileIds
                              /\ R = Unpacked
        OBVIOUS
      <4>2. w \in [D -> Nat] /\ S \in SUBSET D /\ IsFiniteSet(S) /\ R \in SUBSET S
        BY <2>1, <3>1, <4>1, EntriesType
      <4>3. SumFunctionOnSet(w, R) <= SumFunctionOnSet(w, S)
        BY <4>2, SumOfPart
      <4> QED
        BY <4>1, <4>3 DEF FileBytes
    <3>3. /\ FileBytes(Unpacked) \in Nat /\ FileBytes(FileIds) \in Nat
          /\ MaxTotalExtracted \in Nat
      BY <2>1, <3>1, EntriesType, ArchiveConstants
    <3>4. FileBytes(Unpacked) <= MaxTotalExtracted
      BY <2>1, <2>4, <3>2, <3>3 DEF CountsAreExact
    <3> QED
      BY <2>1, <2>4, <3>1, <3>4 DEF CountsAreExact, MembersPassed, WorkIsBounded
  <2> QED
    BY <2>2, <2>3, <2>4
<1> QED
  BY <1>1, Invariance, PTL
===============================================================================
