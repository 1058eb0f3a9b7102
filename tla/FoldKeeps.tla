----------------------------- MODULE FoldKeeps -----------------------------
(***************************************************************************)
(* What a step keeps, FoldLeft of it keeps: the fold of the community      *)
(* modules, for one step Op and one statement Good at a time.  Who uses    *)
(* the lemma instantiates the module, since the provers cannot instantiate *)
(* an operator that is a parameter of a lemma.                             *)
(***************************************************************************)
EXTENDS Integers, FiniteSets, FiniteSetTheorems, WellFoundedInduction, TLAPS

CONSTANTS
    Op(_, _, _),            \* the step: what was reached, an element, a parameter
    Good(_, _, _, _, _)     \* of what was reached, after how many elements of
                            \* what sequence, the parameter, and what else it tells of

LOCAL Less == {p \in Nat \X Nat : p[1] < p[2]}

Last(S) == CHOOSE x \in S : \A y \in S : x >= y

\* f is the fold for every set of places in F.
Iterates(f, F, w, s, q) ==
    f = [S \in F |-> IF S = {} THEN w ELSE Op(f[S \ {Last(S)}], s[Last(S)], q)]

Folded(w, s, q) == (CHOOSE f : Iterates(f, SUBSET DOMAIN s, w, s, q))[DOMAIN s]

(* Induction over the natural numbers, for a set of them.                   *)
LEMMA Induct ==
    ASSUME NEW P, 0 \in P, \A n \in Nat : n \in P => n + 1 \in P
    PROVE  \A n \in Nat : n \in P
<1> DEFINE C == Nat \ P
<1>1. SUFFICES ASSUME C # {} PROVE FALSE
  OBVIOUS
<1>2. IsWellFoundedOn(Less, Nat)
  BY NatLessThanWellFounded, Zenon DEF OpToRel, Less
<1>3. PICK n \in C : \A k \in C : ~(<<k, n>> \in Less)
  BY <1>1, <1>2, WFMin, Zenon
<1>4. n \in Nat /\ n # 0
  BY <1>3
<1>5. n - 1 \in Nat /\ <<n - 1, n>> \in Less
  BY <1>4 DEF Less
<1>6. n - 1 \in P
  BY <1>3, <1>5
<1> QED
  BY <1>3, <1>4, <1>5, <1>6

Level(D, n) == {S \in SUBSET D : Cardinality(S) <= n}

(* The largest element of a set of numbers is one of it.                    *)
LEMMA LastFacts ==
    ASSUME NEW n \in Nat, NEW S \in SUBSET (1 .. n), S # {}
    PROVE  Last(S) \in S
<1> DEFINE P == {k \in Nat : \A T \in SUBSET (1 .. k) : T # {} => \E x \in T : \A y \in T : x >= y}
<1>1. 0 \in P
  <2>1. 1 .. 0 = {}
    OBVIOUS
  <2> QED
    BY <2>1
<1>2. ASSUME NEW k \in Nat, k \in P PROVE k + 1 \in P
  <2> SUFFICES ASSUME NEW T \in SUBSET (1 .. k + 1), T # {} PROVE \E x \in T : \A y \in T : x >= y
    OBVIOUS
  <2>1. CASE k + 1 \in T
    BY <2>1
  <2>2. CASE k + 1 \notin T
    BY <1>2, <2>2
  <2> QED
    BY <2>1, <2>2
<1> HIDE DEF P
<1>3. n \in P
  BY <1>1, <1>2, Induct
<1> USE DEF P
<1>4. \E x \in S : \A y \in S : x >= y
  BY <1>3
<1> QED
  BY <1>4 DEF Last

LEMMA RestFacts ==
    ASSUME NEW n \in Nat, NEW S \in SUBSET (1 .. n), S # {}
    PROVE  /\ S \ {Last(S)} \in SUBSET (1 .. n)
           /\ Cardinality(S \ {Last(S)}) = Cardinality(S) - 1
           /\ Cardinality(S) \in Nat
<1>2. IsFiniteSet(1 .. n)
  BY FS_Interval
<1>1. IsFiniteSet(S)
  BY <1>2, FS_Subset
<1> QED
  BY <1>1, LastFacts, FS_RemoveElement, FS_CardinalityType

LEMMA IteratesExist ==
    ASSUME NEW n \in Nat, NEW w, NEW s, NEW q
    PROVE  \A k \in Nat : \E f : Iterates(f, Level(1 .. n, k), w, s, q)
<1> DEFINE P == {k \in Nat : \E f : Iterates(f, Level(1 .. n, k), w, s, q)}
           D == 1 .. n
<1>1. 0 \in P
  <2> DEFINE f == [S \in Level(D, 0) |-> w]
  <2>1. ASSUME NEW S \in Level(D, 0) PROVE S = {}
    <3>1. S \in SUBSET D /\ Cardinality(S) <= 0
      BY DEF Level
    <3>3. IsFiniteSet(D)
      BY FS_Interval
    <3>2. IsFiniteSet(S)
      BY <3>1, <3>3, FS_Subset
    <3> QED
      BY <3>1, <3>2, FS_EmptySet, FS_CardinalityType
  <2>2. f = [S \in Level(D, 0) |-> IF S = {} THEN w ELSE Op(f[S \ {Last(S)}], s[Last(S)], q)]
    BY <2>1
  <2> HIDE DEF f
  <2>3. Iterates(f, Level(D, 0), w, s, q)
    BY <2>2 DEF Iterates
  <2> QED
    BY <2>3
<1>2. ASSUME NEW k \in Nat, k \in P PROVE k + 1 \in P
  <2>1. PICK f : Iterates(f, Level(D, k), w, s, q)
    BY <1>2
  <2> DEFINE g == [S \in Level(D, k + 1) |->
                      IF S = {} THEN w ELSE Op(f[S \ {Last(S)}], s[Last(S)], q)]
  <2>2. ASSUME NEW S \in Level(D, k + 1), S # {}
        PROVE  g[S \ {Last(S)}] = f[S \ {Last(S)}]
    <3> DEFINE T == S \ {Last(S)}
    <3>1. S \in SUBSET D /\ Cardinality(S) <= k + 1
      BY DEF Level
    <3>2. T \in SUBSET D /\ Cardinality(T) = Cardinality(S) - 1 /\ Cardinality(S) \in Nat
      BY <2>2, <3>1, RestFacts
    <3>3. T \in Level(D, k) /\ T \in Level(D, k + 1)
      BY <3>1, <3>2 DEF Level
    <3> HIDE DEF T
    <3>4. f[T] = IF T = {} THEN w ELSE Op(f[T \ {Last(T)}], s[Last(T)], q)
      BY <2>1, <3>3 DEF Iterates
    <3>6. \A U \in Level(D, k + 1) :
              g[U] = IF U = {} THEN w ELSE Op(f[U \ {Last(U)}], s[Last(U)], q)
      OBVIOUS
    <3> HIDE DEF g
    <3>5. g[T] = f[T]
      BY <3>3, <3>4, <3>6
    <3> QED
      BY <3>5 DEF T
  <2>3. g = [S \in Level(D, k + 1) |-> IF S = {} THEN w ELSE Op(g[S \ {Last(S)}], s[Last(S)], q)]
    <3> HIDE DEF g
    <3>1. \A S \in Level(D, k + 1) :
              (IF S = {} THEN w ELSE Op(f[S \ {Last(S)}], s[Last(S)], q))
            = (IF S = {} THEN w ELSE Op(g[S \ {Last(S)}], s[Last(S)], q))
      BY <2>2
    <3> QED
      BY <3>1 DEF g
  <2> HIDE DEF g
  <2>4. Iterates(g, Level(D, k + 1), w, s, q)
    BY <2>3 DEF Iterates
  <2> QED
    BY <2>4
<1> HIDE DEF P
<1>3. \A k \in Nat : k \in P
  BY <1>1, <1>2, Induct
<1> QED
  BY <1>3 DEF P

(* If the statement holds of where the fold begins, and every step takes it *)
(* from the first k elements to the first k + 1, it holds of the fold.      *)
THEOREM FoldKept ==
    \A n \in Nat : \A w, s, q, r :
        /\ DOMAIN s = 1 .. n
        /\ Good(w, 0, s, q, r)
        /\ \A k \in Nat : \A v : k < n /\ Good(v, k, s, q, r) => Good(Op(v, s[k + 1], q), k + 1, s, q, r)
        => Good(Folded(w, s, q), n, s, q, r)
<1> SUFFICES ASSUME NEW n \in Nat, NEW w, NEW s, NEW q, NEW r, DOMAIN s = 1 .. n,
                    Good(w, 0, s, q, r),
                    \A k \in Nat : \A v :
                        k < n /\ Good(v, k, s, q, r) => Good(Op(v, s[k + 1], q), k + 1, s, q, r)
             PROVE  Good(Folded(w, s, q), n, s, q, r)
  OBVIOUS
<1> DEFINE D == 1 .. n
           f == CHOOSE g : Iterates(g, SUBSET D, w, s, q)
           P == {k \in Nat : k <= n => Good(f[1 .. k], k, s, q, r)}
<1>1. IsFiniteSet(D) /\ Cardinality(D) \in Nat
  BY FS_Interval, FS_CardinalityType
<1>2. Level(D, Cardinality(D)) = SUBSET D
  <2>1. ASSUME NEW S \in SUBSET D PROVE Cardinality(S) <= Cardinality(D)
    BY <1>1, FS_Subset, Zenon
  <2> QED
    BY <2>1 DEF Level
<1>3. \E g : Iterates(g, Level(D, Cardinality(D)), w, s, q)
  BY <1>1, IteratesExist
<1>4. Iterates(f, SUBSET D, w, s, q)
  BY <1>2, <1>3
<1> HIDE DEF f
<1>5. ASSUME NEW S \in SUBSET D
      PROVE  f[S] = IF S = {} THEN w ELSE Op(f[S \ {Last(S)}], s[Last(S)], q)
  BY <1>4 DEF Iterates
<1>6. 0 \in P
  <2>1. 1 .. 0 = {}
    OBVIOUS
  <2>2. f[1 .. 0] = w
    BY <1>5, <2>1
  <2> QED
    BY <2>2
<1>7. ASSUME NEW k \in Nat, k \in P PROVE k + 1 \in P
  <2> SUFFICES ASSUME k + 1 <= n PROVE Good(f[1 .. k + 1], k + 1, s, q, r)
    OBVIOUS
  <2>1. Last(1 .. k + 1) = k + 1
    <3>1. \A x \in 1 .. k + 1 : (\A y \in 1 .. k + 1 : x >= y) => x = k + 1
      OBVIOUS
    <3>2. Last(1 .. k + 1) \in 1 .. k + 1 /\ \A y \in 1 .. k + 1 : Last(1 .. k + 1) >= y
      <4>1. \E x \in 1 .. k + 1 : \A y \in 1 .. k + 1 : x >= y
        <5>1. k + 1 \in 1 .. k + 1 /\ \A y \in 1 .. k + 1 : k + 1 >= y
          OBVIOUS
        <5> QED
          BY <5>1
      <4> QED
        BY <4>1 DEF Last
    <3> QED
      BY <3>1, <3>2
  <2>2. (1 .. k + 1) \ {k + 1} = 1 .. k /\ 1 .. k + 1 # {} /\ 1 .. k + 1 \in SUBSET D
    <3>1. \A x : x \in (1 .. k + 1) \ {k + 1} <=> x \in 1 .. k
      OBVIOUS
    <3>2. k + 1 \in 1 .. k + 1 /\ \A x \in 1 .. k + 1 : x \in D
      OBVIOUS
    <3> QED
      BY <3>1, <3>2
  <2>3. f[1 .. k + 1] = Op(f[1 .. k], s[k + 1], q)
    BY <1>5, <2>1, <2>2
  <2>4. Good(f[1 .. k], k, s, q, r)
    BY <1>7
  <2> QED
    BY <2>3, <2>4
<1> HIDE DEF P
<1>8. n \in P
  BY <1>6, <1>7, Induct
<1>9. Good(f[D], n, s, q, r)
  BY <1>8 DEF P
<1>10. Folded(w, s, q) = f[D]
  BY DEF Folded, f
<1> QED
  BY <1>9, <1>10
=============================================================================
