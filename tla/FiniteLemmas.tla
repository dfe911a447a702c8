---------------------------- MODULE FiniteLemmas ----------------------------
(***************************************************************************)
(* What the proofs need of numbers, finite sets and folds, and the library *)
(* does not state without an operator for a parameter: induction goes over *)
(* the smallest number of a set, and a fold is known by the equations of   *)
(* the function it chooses.                                                *)
(***************************************************************************)
EXTENDS Integers, Sequences, FiniteSets, FiniteSetsExt, SequencesExt,
        FiniteSetTheorems, WellFoundedInduction, TLAPS

(***************************************************************************)
(* Numbers and finite sets.                                                *)
(***************************************************************************)
(* A property of some number holds for a smallest one. *)
LEMMA Smallest ==
    ASSUME NEW S, S \subseteq Nat, S # {}
    PROVE  \E m \in S : \A n \in S : m <= n
<1> DEFINE R == {s \in Nat \X Nat : s[1] < s[2]}
<1>1. IsWellFoundedOn(R, Nat)
    BY NatLessThanWellFounded DEF OpToRel
<1>2. \A m, n \in Nat : n < m => <<n, m>> \in R
    OBVIOUS
<1>. HIDE DEF R
<1>3. PICK m \in S : \A n \in S : ~(<<n, m>> \in R)
    BY <1>1, WFMin
<1>4. \A n \in S : m \in Nat /\ n \in Nat /\ ~(n < m)
    BY <1>2, <1>3
<1>. QED
    BY <1>4

(* Finitely many numbers have a largest one: by induction on how many.     *)
LEMMA MaxFacts ==
    ASSUME NEW S, S \subseteq Nat, S # {}, IsFiniteSet(S)
    PROVE  Max(S) \in S /\ \A n \in S : n <= Max(S)
<1> DEFINE HasMax(T) == \E x \in T : \A y \in T : x >= y
           Bad == {n \in Nat : \E T \in SUBSET S :
                        T # {} /\ ~HasMax(T) /\ Cardinality(T) = n}
<1>1. Bad = {}
    <2> SUFFICES ASSUME Bad # {} PROVE FALSE
        OBVIOUS
    <2>1. PICK m \in Bad : \A n \in Bad : m <= n
        BY Smallest
    <2>2. PICK T \in SUBSET S : T # {} /\ ~HasMax(T) /\ Cardinality(T) = m
        BY <2>1
    <2>3. PICK x \in T : TRUE
        BY <2>2
    <2>4. /\ IsFiniteSet(T) /\ IsFiniteSet(T \ {x})
          /\ Cardinality(T \ {x}) = Cardinality(T) - 1
          /\ Cardinality(T \ {x}) \in Nat
        BY <2>3, FS_Subset, FS_RemoveElement, FS_CardinalityType
    <2>5. T \ {x} # {} /\ ~HasMax(T \ {x})
        <3>1. x \in Nat /\ \A y \in T : y \in Nat
            OBVIOUS
        <3>2. T \ {x} # {}
            BY <2>2, <2>3, <3>1
        <3>3. ASSUME NEW z \in T \ {x}, \A y \in T \ {x} : z >= y PROVE FALSE
            <4>1. CASE z >= x
                BY <2>2, <3>3, <4>1
            <4>2. CASE x >= z
                BY <2>2, <2>3, <3>1, <3>3, <4>2
            <4>. QED
                BY <3>1, <4>1, <4>2
        <3>. QED
            BY <3>2, <3>3
    <2>6. Cardinality(T \ {x}) \in Bad
        BY <2>4, <2>5
    <2>7. m \in Nat /\ m <= Cardinality(T \ {x})
        BY <2>1, <2>6
    <2>. QED
        BY <2>2, <2>4, <2>7
<1>2. HasMax(S)
    <2>1. Cardinality(S) \in Nat
        BY FS_CardinalityType
    <2>. QED
        BY <1>1, <2>1
<1>3. PICK x \in S : \A y \in S : x >= y
    BY <1>2
<1>4. Max(S) \in S /\ \A y \in S : Max(S) >= y
    BY <1>3 DEF Max
<1>. QED
    BY <1>4

(* Adding one element adds at most one. *)
LEMMA AddOne ==
    ASSUME NEW S, NEW T, NEW x, IsFiniteSet(S), T \subseteq S \union {x}
    PROVE  /\ IsFiniteSet(T) /\ Cardinality(S) \in Nat /\ Cardinality(T) \in Nat
           /\ Cardinality(T) <= Cardinality(S) + 1
<1>1. /\ IsFiniteSet(S \union {x})
      /\ Cardinality(S) \in Nat
      /\ Cardinality(S \union {x}) = Cardinality(S)
            \/ Cardinality(S \union {x}) = Cardinality(S) + 1
    BY FS_AddElement, FS_CardinalityType
<1>2. /\ IsFiniteSet(T) /\ Cardinality(T) \in Nat
      /\ Cardinality(T) <= Cardinality(S \union {x})
    BY <1>1, FS_Subset, FS_CardinalityType
<1>. QED
    BY <1>1, <1>2

(* A set without two different elements. *)
LEMMA AtMostOne ==
    ASSUME NEW S, \A x, y \in S : x = y
    PROVE  IsFiniteSet(S) /\ Cardinality(S) <= 1
<1>1. CASE S = {}
    BY <1>1, FS_EmptySet
<1>2. CASE S # {}
    <2>1. PICK x \in S : TRUE
        BY <1>2
    <2>2. S = {x}
        BY <2>1
    <2>3. IsFiniteSet({x}) /\ Cardinality({x}) = 1
        BY FS_Singleton
    <2>. QED
        BY <2>2, <2>3
<1>. QED
    BY <1>1, <1>2

LEMMA UnionBound ==
    ASSUME NEW S, NEW T, IsFiniteSet(S), IsFiniteSet(T)
    PROVE  /\ IsFiniteSet(S \union T)
           /\ Cardinality(S) \in Nat /\ Cardinality(T) \in Nat
           /\ Cardinality(S \union T) \in Nat
           /\ Cardinality(S \union T) <= Cardinality(S) + Cardinality(T)
<1>1. /\ IsFiniteSet(S \union T)
      /\ Cardinality(S \union T)
            = Cardinality(S) + Cardinality(T) - Cardinality(S \intersect T)
    BY FS_Union
<1>2. IsFiniteSet(S \intersect T)
    BY FS_Intersection
<1>3. /\ Cardinality(S) \in Nat /\ Cardinality(T) \in Nat
      /\ Cardinality(S \intersect T) \in Nat /\ Cardinality(S \union T) \in Nat
    BY <1>1, <1>2, FS_CardinalityType
<1>. QED
    BY <1>1, <1>3

(* Induction over the places of a sequence: P is the set of those that are fine. *)
LEMMA UpTo ==
    ASSUME NEW n \in Nat, NEW P, 0 \in P, \A i \in 1 .. n : i - 1 \in P => i \in P
    PROVE  \A i \in 0 .. n : i \in P
<1> DEFINE Bad == {i \in 0 .. n : i \notin P}
<1>1. ASSUME Bad # {} PROVE FALSE
    <2>1. PICK m \in Bad : \A i \in Bad : m <= i
        <3>1. Bad \subseteq Nat
            OBVIOUS
        <3>. QED
            BY <1>1, <3>1, Smallest
    <2>2. m \in 1 .. n /\ m - 1 \in 0 .. n /\ ~(m <= m - 1)
        OBVIOUS
    <2>3. m - 1 \in P
        BY <2>1, <2>2
    <2>. QED
        BY <2>2, <2>3
<1>. QED
    BY <1>1

-----------------------------------------------------------------------------
(***************************************************************************)
(* Folds.                                                                  *)
(***************************************************************************)
(* Here it is the function by which a fold over the sets of D is defined: pick takes *)
(* an element off and step adds it to what the others make of base.          *)
IsFold(it, D, A, base, step, pick) ==
    /\ it \in [D -> A]
    /\ \A s \in D :
          it[s] = IF s = {} THEN base ELSE step[<<pick[s], it[s \ {pick[s]}]>>]

(* The function by which the fold over a finite set is defined exists: on the *)
(* sets of up to k elements by induction on k.                               *)
LEMMA FoldExists ==
    ASSUME NEW S, IsFiniteSet(S), NEW A, NEW base \in A, NEW step \in [S \X A -> A],
           NEW pick, \A s \in SUBSET S : s # {} => pick[s] \in s
    PROVE  \E it : IsFold(it, SUBSET S, A, base, step, pick)
<1> DEFINE Small(k) == {s \in SUBSET S : Cardinality(s) <= k}
           Good == {k \in Nat : \E it : IsFold(it, Small(k), A, base, step, pick)}
<1>1. \A s \in SUBSET S : IsFiniteSet(s) /\ Cardinality(s) \in Nat
    BY FS_Subset, FS_CardinalityType
<1>2. 0 \in Good
    <2>1. \A s \in Small(0) : s = {}
        BY <1>1, FS_EmptySet
    <2>2. IsFold([s \in Small(0) |-> base], Small(0), A, base, step, pick)
        BY <2>1 DEF IsFold
    <2>. QED
        BY <2>2
<1>3. ASSUME NEW k \in Nat, k \in Good PROVE k + 1 \in Good
    <2>1. PICK it : IsFold(it, Small(k), A, base, step, pick)
        BY <1>3
    <2> DEFINE more == [s \in Small(k + 1) |->
                           IF s = {} THEN base ELSE step[<<pick[s], it[s \ {pick[s]}]>>]]
    <2>2. ASSUME NEW s \in Small(k + 1), s # {}
          PROVE  pick[s] \in S /\ s \ {pick[s]} \in Small(k)
        <3>1. pick[s] \in s /\ IsFiniteSet(s) /\ Cardinality(s) \in Nat
            BY <1>1, <2>2
        <3>2. Cardinality(s \ {pick[s]}) = Cardinality(s) - 1
            BY <3>1, FS_RemoveElement
        <3>. QED
            BY <1>1, <3>1, <3>2
    <2>3. more \in [Small(k + 1) -> A]
        BY <2>1, <2>2 DEF IsFold
    <2>4. Small(k) \subseteq Small(k + 1)
        BY <1>1
    <2>5. \A s \in Small(k) : more[s] = it[s]
        BY <2>1, <2>4 DEF IsFold
    <2>6. \A s \in Small(k + 1) :
              more[s] = IF s = {} THEN base ELSE step[<<pick[s], more[s \ {pick[s]}]>>]
        BY <2>2, <2>5
    <2>7. IsFold(more, Small(k + 1), A, base, step, pick)
        <3>. HIDE DEF more, Small
        <3>. QED
            BY <2>3, <2>6 DEF IsFold
    <2>. HIDE DEF more, Small
    <2>. QED
        BY <2>7
<1>4. PICK n \in Nat : n = Cardinality(S)
    BY FS_CardinalityType
<1>5. n \in Good
    <2>. HIDE DEF Good
    <2>1. \A i \in 1 .. n : i - 1 \in Good => i \in Good
        BY <1>3
    <2>. QED
        BY <1>2, <2>1, UpTo
<1>6. Small(n) = SUBSET S
    BY <1>1, <1>4, FS_Subset
<1>. HIDE DEF Small
<1>7. PICK it : IsFold(it, Small(n), A, base, step, pick)
    BY <1>5
<1>. QED
    BY <1>6, <1>7

(* Of the places up to i, the last is i; FoldLeft takes it off. *)
LEMMA LastPlace ==
    ASSUME NEW n \in Nat
    PROVE  /\ IsFiniteSet(1 .. n)
           /\ \A s \in SUBSET (1 .. n) : s # {} => Max(s) \in s
           /\ \A i \in 1 .. n : /\ 1 .. i \in SUBSET (1 .. n) /\ 1 .. i # {}
                                /\ Max(1 .. i) = i /\ (1 .. i) \ {i} = 1 .. i - 1
<1>1. IsFiniteSet(1 .. n)
    BY FS_Interval
<1>2. ASSUME NEW s \in SUBSET (1 .. n), s # {}
      PROVE  Max(s) \in s /\ \A x \in s : x <= Max(s)
    <2>1. IsFiniteSet(s)
        BY <1>1, FS_Subset
    <2>2. s \subseteq Nat
        OBVIOUS
    <2>. QED
        BY <1>2, <2>1, <2>2, MaxFacts
<1>3. ASSUME NEW i \in 1 .. n PROVE Max(1 .. i) = i
    <2>1. PICK s \in SUBSET (1 .. n) : s = 1 .. i
        OBVIOUS
    <2>2. i \in s
        BY <2>1
    <2>3. Max(s) \in s /\ i <= Max(s)
        BY <1>2, <2>2
    <2>. QED
        BY <2>1, <2>3
<1>. QED
    BY <1>1, <1>2, <1>3, SMTT(40)

(* Here it is the function that FoldLeft chooses for the places 1 .. n: the   *)
(* last place is taken off.                                                 *)
IsLeftFold(it, n, A, base, step) ==
    /\ it[{}] = base
    /\ \A s \in SUBSET (1 .. n) : s # {} /\ it[s \ {Max(s)}] \in A
           => it[s] = step[<<Max(s), it[s \ {Max(s)}]>>]

LEMMA LeftFoldExists ==
    ASSUME NEW n \in Nat, NEW A, NEW base \in A, NEW step \in [(1 .. n) \X A -> A]
    PROVE  \E it : it \in [SUBSET (1 .. n) -> A] /\ IsLeftFold(it, n, A, base, step)
<1> DEFINE pick == [s \in SUBSET (1 .. n) |-> Max(s)]
<1>1. IsFiniteSet(1 .. n) /\ \A s \in SUBSET (1 .. n) : s # {} => pick[s] \in s
    BY LastPlace
<1>2. \E it : IsFold(it, SUBSET (1 .. n), A, base, step, pick)
    <2>. HIDE DEF pick
    <2>. QED
        BY <1>1, FoldExists
<1>3. PICK it : IsFold(it, SUBSET (1 .. n), A, base, step, pick)
    BY <1>2
<1>. QED
    BY <1>3 DEF IsFold, IsLeftFold

(* acc[i] is what the first i places have made of base. *)
Steps(acc, n, A, base, step) ==
    /\ acc \in [0 .. n -> A]
    /\ acc[0] = base
    /\ \A i \in 1 .. n : acc[i] = step[<<i, acc[i - 1]>>]

GoesThrough(it, n, A, base, step) ==
    \E acc : Steps(acc, n, A, base, step) /\ acc[n] = it[1 .. n]

(* Such a function goes through the places in their order. *)
LEMMA LeftFoldSteps ==
    ASSUME NEW n \in Nat, NEW A, NEW base \in A, NEW step \in [(1 .. n) \X A -> A],
           NEW it, IsLeftFold(it, n, A, base, step)
    PROVE  GoesThrough(it, n, A, base, step)
<1> DEFINE P == {i \in 0 .. n : it[1 .. i] \in A}
<1>1. 1 .. 0 = {}
    OBVIOUS
<1>2. ASSUME NEW i \in 1 .. n, it[1 .. i - 1] \in A
      PROVE  it[1 .. i] = step[<<i, it[1 .. i - 1]>>] /\ it[1 .. i] \in A
    <2>1. PICK s : s = 1 .. i
        OBVIOUS
    <2>2. s \in SUBSET (1 .. n) /\ s # {}
        BY <2>1, LastPlace
    <2>3. Max(s) = i /\ s \ {i} = 1 .. i - 1
        BY <2>1, LastPlace
    <2>4. it[s] = step[<<i, it[1 .. i - 1]>>]
        BY <1>2, <2>2, <2>3 DEF IsLeftFold
    <2>5. step[<<i, it[1 .. i - 1]>>] \in A
        BY <1>2
    <2>. QED
        BY <2>1, <2>4, <2>5
<1>3. \A i \in 0 .. n : i \in P
    <2>1. 0 \in P
        BY <1>1 DEF IsLeftFold
    <2>2. ASSUME NEW i \in 1 .. n, i - 1 \in P PROVE i \in P
        <3>1. it[1 .. i - 1] \in A
            BY <2>2
        <3>2. it[1 .. i] \in A
            BY <1>2, <3>1
        <3>. QED
            BY <3>2
    <2>3. \A i \in 1 .. n : i - 1 \in P => i \in P
        BY <2>2
    <2>. HIDE DEF P
    <2>. QED
        BY <2>1, <2>3, UpTo
<1>4. ASSUME NEW i \in 1 .. n PROVE it[1 .. i] = step[<<i, it[1 .. i - 1]>>]
    <2>1. i - 1 \in 0 .. n
        OBVIOUS
    <2>. QED
        BY <1>2, <1>3, <2>1
<1> DEFINE acc == [i \in 0 .. n |-> it[1 .. i]]
<1>5. Steps(acc, n, A, base, step)
    <2>1. acc \in [0 .. n -> A] /\ acc[0] = base
        BY <1>1, <1>3 DEF IsLeftFold
    <2>2. \A i \in 1 .. n : i \in 0 .. n /\ i - 1 \in 0 .. n
        OBVIOUS
    <2>. QED
        BY <1>4, <2>1, <2>2 DEF Steps
<1>6. acc[n] = it[1 .. n]
    OBVIOUS
<1> HIDE DEF acc
<1>. QED
    BY <1>5, <1>6 DEF GoesThrough

-----------------------------------------------------------------------------
(***************************************************************************)
(* Sums over finite sets.                                                  *)
(***************************************************************************)
(* Induction over finite sets: P is the set of the fine subsets of S. *)
LEMMA SetInduction ==
    ASSUME NEW S, IsFiniteSet(S), NEW P,
           {} \in P,
           \A T \in SUBSET S : T # {} /\ (\A x \in T : T \ {x} \in P) => T \in P
    PROVE  \A T \in SUBSET S : T \in P
<1> DEFINE Bad == {n \in Nat : \E T \in SUBSET S : T \notin P /\ Cardinality(T) = n}
<1>1. \A T \in SUBSET S : IsFiniteSet(T) /\ Cardinality(T) \in Nat
    BY FS_Subset, FS_CardinalityType
<1>2. ASSUME Bad # {} PROVE FALSE
    <2>1. PICK m \in Bad : \A n \in Bad : m <= n
        <3>1. Bad \subseteq Nat
            OBVIOUS
        <3>. HIDE DEF Bad
        <3>. QED
            BY <1>2, <3>1, Smallest
    <2>2. PICK T \in SUBSET S : T \notin P /\ Cardinality(T) = m
        BY <2>1
    <2>3. PICK x \in T : T \ {x} \notin P
        BY <2>2
    <2>4. Cardinality(T \ {x}) = m - 1 /\ m \in Nat
        BY <1>1, <2>2, <2>3, FS_RemoveElement
    <2>5. Cardinality(T \ {x}) \in Nat
        BY <1>1, <2>2
    <2>6. m - 1 \in Bad
        BY <2>3, <2>4, <2>5
    <2>. QED
        BY <2>1, <2>4, <2>6
<1>. QED
    BY <1>1, <1>2

Pick(T) == CHOOSE x \in T : TRUE

(* it adds f up over the subsets of S. *)
Adds(it, S, f) ==
    /\ it \in [SUBSET S -> Nat]
    /\ \A T \in SUBSET S : it[T] = IF T = {} THEN 0 ELSE f[Pick(T)] + it[T \ {Pick(T)}]

LEMMA AddsExists ==
    ASSUME NEW S, IsFiniteSet(S), NEW f, \A x \in S : f[x] \in Nat
    PROVE  \E it : Adds(it, S, f)
<1> DEFINE step == [p \in S \X Nat |-> f[p[1]] + p[2]]
           pick == [T \in SUBSET S |-> Pick(T)]
<1>1. \A T \in SUBSET S : T # {} => pick[T] \in T
    BY DEF Pick
<1>2. step \in [S \X Nat -> Nat]
    OBVIOUS
<1>3. PICK it : IsFold(it, SUBSET S, Nat, 0, step, pick)
    <2>. HIDE DEF step, pick
    <2>. QED
        BY <1>1, <1>2, FoldExists
<1>4. it \in [SUBSET S -> Nat]
    BY <1>3 DEF IsFold
<1>5. ASSUME NEW T \in SUBSET S, T # {}
      PROVE  it[T] = f[Pick(T)] + it[T \ {Pick(T)}]
    <2>1. PICK x \in S : x = Pick(T)
        BY <1>1, <1>5
    <2>2. it[T \ {x}] \in Nat
        BY <1>4
    <2>3. it[T] = step[<<pick[T], it[T \ {pick[T]}]>>]
        BY <1>3, <1>5 DEF IsFold
    <2>4. pick[T] = x
        BY <2>1
    <2>5. step[<<x, it[T \ {x}]>>] = f[x] + it[T \ {x}]
        BY <2>2
    <2>. HIDE DEF step, pick
    <2>. QED
        BY <2>1, <2>3, <2>4, <2>5
<1>6. it[{}] = 0
    BY <1>3 DEF IsFold
<1>. HIDE DEF step, pick
<1>. QED
    BY <1>4, <1>5, <1>6 DEF Adds

Below(f, g, S) == \A x \in S : f[x] \in Nat /\ g[x] \in Nat /\ f[x] <= g[x]

(* The larger function has the larger sums, whatever set they are taken from. *)
LEMMA AddsMonotone ==
    ASSUME NEW S, IsFiniteSet(S), NEW f, NEW g, NEW R1, NEW R2,
           S \subseteq R1, S \subseteq R2, NEW i, NEW j, Adds(i, R1, f), Adds(j, R2, g),
           Below(f, g, S)
    PROVE  \A T \in SUBSET S : i[T] <= j[T]
<1> DEFINE P == {T \in SUBSET S : i[T] <= j[T]}
<1>1. {} \in P
    <2>1. {} \in SUBSET R1 /\ {} \in SUBSET R2
        OBVIOUS
    <2>2. i[{}] = 0 /\ j[{}] = 0
        BY <2>1 DEF Adds
    <2>. QED
        BY <2>2
<1>2. ASSUME NEW T \in SUBSET S, T # {}, \A x \in T : T \ {x} \in P PROVE T \in P
    <2>1. PICK x \in T : x = Pick(T)
        BY <1>2 DEF Pick
    <2>2. i[T] = f[x] + i[T \ {x}] /\ j[T] = g[x] + j[T \ {x}]
        BY <1>2, <2>1 DEF Adds
    <2>3. i[T \ {x}] <= j[T \ {x}]
        BY <1>2
    <2>4. i[T \ {x}] \in Nat /\ j[T \ {x}] \in Nat
        BY DEF Adds
    <2>5. f[x] \in Nat /\ g[x] \in Nat /\ f[x] <= g[x]
        BY DEF Below
    <2>. QED
        BY <2>2, <2>3, <2>4, <2>5
<1>3. \A T \in SUBSET S : T # {} /\ (\A x \in T : T \ {x} \in P) => T \in P
    BY <1>2
<1>4. \A T \in SUBSET S : T \in P
    <2>. HIDE DEF P
    <2>. QED
        BY <1>1, <1>3, SetInduction
<1>. QED
    BY <1>4

(* Elements can be taken off in any order. *)
LEMMA AddsAnyOrder ==
    ASSUME NEW S, IsFiniteSet(S), NEW f, \A x \in S : f[x] \in Nat, NEW it, Adds(it, S, f)
    PROVE  \A T \in SUBSET S : \A y \in T : it[T] = f[y] + it[T \ {y}]
<1> DEFINE P == {T \in SUBSET S : \A y \in T : it[T] = f[y] + it[T \ {y}]}
<1>1. {} \in P
    OBVIOUS
<1>2. ASSUME NEW T \in SUBSET S, T # {}, \A x \in T : T \ {x} \in P PROVE T \in P
    <2>1. PICK x \in T : x = Pick(T)
        BY <1>2 DEF Pick
    <2>2. it[T] = f[x] + it[T \ {x}]
        BY <1>2, <2>1 DEF Adds
    <2>3. ASSUME NEW y \in T, y # x PROVE it[T] = f[y] + it[T \ {y}]
        <3>1. it[T \ {x}] = f[y] + it[(T \ {x}) \ {y}]
            BY <1>2, <2>3
        <3>2. it[T \ {y}] = f[x] + it[(T \ {y}) \ {x}]
            <4>1. T \ {y} \in P /\ x \in T \ {y}
                BY <1>2, <2>3
            <4>. QED
                BY <4>1
        <3>3. PICK U \in SUBSET S : U = (T \ {x}) \ {y} /\ U = (T \ {y}) \ {x}
            OBVIOUS
        <3>4. PICK a \in Nat, b \in Nat, c \in Nat : a = f[x] /\ b = f[y] /\ c = it[U]
            BY DEF Adds
        <3>5. it[T \ {x}] = b + c /\ it[T \ {y}] = a + c
            BY <3>1, <3>2, <3>3, <3>4
        <3>6. it[T] = a + (b + c)
            BY <2>2, <3>4, <3>5
        <3>. QED
            BY <3>4, <3>5, <3>6
    <2>. QED
        BY <2>2, <2>3
<1>3. \A T \in SUBSET S : T # {} /\ (\A x \in T : T \ {x} \in P) => T \in P
    BY <1>2
<1>4. \A T \in SUBSET S : T \in P
    <2>. HIDE DEF P
    <2>. QED
        BY <1>1, <1>3, SetInduction
<1>. QED
    BY <1>4

(* The sum of f[x] over the x in S. *)
Total(f, S) == (CHOOSE it : Adds(it, S, f))[S]

LEMMA TotalAdds ==
    ASSUME NEW S, IsFiniteSet(S), NEW f, \A x \in S : f[x] \in Nat
    PROVE  \E it : Adds(it, S, f) /\ Total(f, S) = it[S]
BY AddsExists DEF Total

(* Any function that adds f up over a larger set has the same sum over S. *)
LEMMA TotalWithin ==
    ASSUME NEW S, IsFiniteSet(S), NEW f, \A x \in S : f[x] \in Nat,
           NEW R, S \subseteq R, NEW it, Adds(it, R, f)
    PROVE  Total(f, S) \in Nat /\ Total(f, S) = it[S]
<1>1. PICK i : Adds(i, S, f) /\ Total(f, S) = i[S]
    BY TotalAdds
<1>2. S \subseteq S /\ Below(f, f, S)
    BY DEF Below
<1>3. S \in SUBSET S /\ S \in SUBSET R
    OBVIOUS
<1>4. i[S] <= it[S] /\ it[S] <= i[S]
    <2>1. \A T \in SUBSET S : i[T] <= it[T]
        BY <1>1, <1>2, AddsMonotone
    <2>2. \A T \in SUBSET S : it[T] <= i[T]
        BY <1>1, <1>2, AddsMonotone
    <2>. QED
        BY <1>3, <2>1, <2>2
<1>5. i[S] \in Nat /\ it[S] \in Nat
    BY <1>1, <1>3 DEF Adds
<1>. QED
    BY <1>1, <1>4, <1>5

LEMMA TotalMonotone ==
    ASSUME NEW S, IsFiniteSet(S), NEW f, NEW g,
           \A x \in S : f[x] \in Nat /\ g[x] \in Nat /\ f[x] <= g[x]
    PROVE  Total(f, S) \in Nat /\ Total(g, S) \in Nat /\ Total(f, S) <= Total(g, S)
<1>1. PICK i : Adds(i, S, f) /\ Total(f, S) = i[S]
    BY TotalAdds
<1>2. PICK j : Adds(j, S, g) /\ Total(g, S) = j[S]
    BY TotalAdds
<1>3. S \in SUBSET S /\ Below(f, g, S)
    BY DEF Below
<1>4. i[S] <= j[S]
    BY <1>1, <1>2, <1>3, AddsMonotone
<1>. QED
    BY <1>1, <1>2, <1>3, <1>4 DEF Adds

LEMMA TotalRemove ==
    ASSUME NEW S, IsFiniteSet(S), NEW f, \A x \in S : f[x] \in Nat, NEW y \in S
    PROVE  /\ Total(f, S \ {y}) \in Nat /\ Total(f, S) \in Nat
           /\ Total(f, S) = f[y] + Total(f, S \ {y})
<1>1. PICK it : Adds(it, S, f) /\ Total(f, S) = it[S]
    BY TotalAdds
<1>2. it[S] = f[y] + it[S \ {y}]
    BY <1>1, AddsAnyOrder
<1>3. PICK T : T = S \ {y}
    OBVIOUS
<1>4. IsFiniteSet(T) /\ T \subseteq S /\ \A x \in T : f[x] \in Nat
    BY <1>3, FS_Subset
<1>5. Total(f, T) \in Nat /\ Total(f, T) = it[T]
    BY <1>1, <1>4, TotalWithin
<1>. QED
    BY <1>1, <1>2, <1>3, <1>5 DEF Adds

(* If f is nowhere above g and at y by at least d below it, so are the sums. *)
LEMMA TotalLess ==
    ASSUME NEW S, IsFiniteSet(S), NEW f, NEW g, NEW y \in S, NEW d \in Nat,
           \A x \in S : f[x] \in Nat /\ g[x] \in Nat /\ f[x] <= g[x],
           f[y] + d <= g[y]
    PROVE  Total(f, S) \in Nat /\ Total(g, S) \in Nat /\ Total(f, S) + d <= Total(g, S)
<1>1. /\ Total(f, S \ {y}) \in Nat /\ Total(f, S) \in Nat
      /\ Total(f, S) = f[y] + Total(f, S \ {y})
    BY TotalRemove
<1>2. /\ Total(g, S \ {y}) \in Nat /\ Total(g, S) \in Nat
      /\ Total(g, S) = g[y] + Total(g, S \ {y})
    BY TotalRemove
<1>3. PICK T : T = S \ {y}
    OBVIOUS
<1>4. IsFiniteSet(T) /\ \A x \in T : f[x] \in Nat /\ g[x] \in Nat /\ f[x] <= g[x]
    BY <1>3, FS_Subset
<1>5. Total(f, T) <= Total(g, T)
    BY <1>4, TotalMonotone
<1>6. f[y] \in Nat /\ g[y] \in Nat
    OBVIOUS
<1>. QED
    BY <1>1, <1>2, <1>3, <1>5, <1>6

LEMMA TotalOfPart ==
    ASSUME NEW S, IsFiniteSet(S), NEW f, \A x \in S : f[x] \in Nat, NEW T, T \subseteq S
    PROVE  Total(f, T) \in Nat /\ Total(f, S) \in Nat /\ Total(f, T) <= Total(f, S)
<1>1. PICK it : Adds(it, S, f) /\ Total(f, S) = it[S]
    BY TotalAdds
<1>2. \A U \in SUBSET S : it[U] \in Nat
    BY <1>1 DEF Adds
<1>3. ASSUME NEW U \in SUBSET S, NEW y \in U PROVE it[U] = f[y] + it[U \ {y}]
    BY <1>1, AddsAnyOrder
<1> DEFINE P == {U \in SUBSET S : T \subseteq U => it[T] <= it[U]}
<1>4. {} \in P
    BY <1>2
<1>5. ASSUME NEW U \in SUBSET S, U # {}, \A x \in U : U \ {x} \in P PROVE U \in P
    <2>1. ASSUME T \subseteq U, T # U PROVE it[T] <= it[U]
        <3>1. PICK y \in U : y \notin T
            BY <2>1
        <3>2. it[T] <= it[U \ {y}]
            <4>1. U \ {y} \in P /\ T \subseteq U \ {y}
                BY <1>5, <2>1, <3>1
            <4>. QED
                BY <4>1
        <3>3. it[U] = f[y] + it[U \ {y}]
            BY <1>3
        <3>4. it[T] \in Nat /\ it[U \ {y}] \in Nat /\ f[y] \in Nat
            BY <1>2
        <3>. QED
            BY <3>2, <3>3, <3>4
    <2>2. it[U] <= it[U]
        BY <1>2
    <2>. QED
        BY <2>1, <2>2
<1>6. \A U \in SUBSET S : U # {} /\ (\A x \in U : U \ {x} \in P) => U \in P
    BY <1>5
<1>7. S \in P
    <2>. HIDE DEF P
    <2>1. \A U \in SUBSET S : U \in P
        BY <1>4, <1>6, SetInduction
    <2>. QED
        BY <2>1
<1>8. it[T] <= it[S]
    BY <1>7
<1>9. IsFiniteSet(T) /\ \A x \in T : f[x] \in Nat
    BY FS_Subset
<1>10. Total(f, T) \in Nat /\ Total(f, T) = it[T]
    BY <1>1, <1>9, TotalWithin
<1>. QED
    BY <1>1, <1>2, <1>8, <1>10

LEMMA TotalConstant ==
    ASSUME NEW S, IsFiniteSet(S), NEW f, NEW k \in Nat, \A x \in S : f[x] = k
    PROVE  Total(f, S) = Cardinality(S) * k
<1>1. PICK it : Adds(it, S, f) /\ Total(f, S) = it[S]
    BY TotalAdds
<1> DEFINE P == {T \in SUBSET S : it[T] = Cardinality(T) * k}
<1>2. {} \in P
    <2>1. it[{}] = 0
        BY <1>1 DEF Adds
    <2>2. Cardinality({}) = 0
        BY FS_EmptySet
    <2>3. 0 * k = 0
        OBVIOUS
    <2>. QED
        BY <2>1, <2>2, <2>3
<1>3. ASSUME NEW T \in SUBSET S, T # {}, \A x \in T : T \ {x} \in P PROVE T \in P
    <2>1. PICK x \in T : it[T] = k + it[T \ {x}]
        BY <1>1, <1>3 DEF Adds, Pick
    <2>2. PICK n \in Nat : n = Cardinality(T \ {x}) /\ Cardinality(T) = n + 1
        <3>1. IsFiniteSet(T) /\ IsFiniteSet(T \ {x})
            BY FS_Subset
        <3>2. Cardinality(T) \in Nat /\ Cardinality(T \ {x}) \in Nat
            BY <3>1, FS_CardinalityType
        <3>3. Cardinality(T \ {x}) = Cardinality(T) - 1
            BY <3>1, FS_RemoveElement
        <3>. QED
            BY <3>2, <3>3
    <2>3. it[T \ {x}] = n * k
        BY <1>3, <2>2
    <2>4. k + n * k = (n + 1) * k
        OBVIOUS
    <2>5. it[T] = Cardinality(T) * k
        BY <2>1, <2>2, <2>3, <2>4
    <2>. QED
        BY <2>5
<1>4. \A T \in SUBSET S : T # {} /\ (\A x \in T : T \ {x} \in P) => T \in P
    BY <1>3
<1>5. S \in P
    <2>. HIDE DEF P
    <2>1. \A U \in SUBSET S : U \in P
        BY <1>2, <1>4, SetInduction
    <2>. QED
        BY <2>1
<1>. QED
    BY <1>1, <1>5

(* Functions that agree on S have the same sum over it. *)
LEMMA TotalEqual ==
    ASSUME NEW S, IsFiniteSet(S), NEW f, NEW g, \A x \in S : f[x] \in Nat /\ g[x] = f[x]
    PROVE  Total(f, S) \in Nat /\ Total(g, S) = Total(f, S)
<1>1. \A x \in S : f[x] \in Nat /\ g[x] \in Nat /\ f[x] <= g[x] /\ g[x] <= f[x]
    OBVIOUS
<1>2. Total(f, S) \in Nat /\ Total(g, S) \in Nat /\ Total(f, S) <= Total(g, S)
    BY <1>1, TotalMonotone
<1>3. Total(g, S) <= Total(f, S)
    BY <1>1, TotalMonotone
<1>. QED
    BY <1>2, <1>3

=============================================================================
