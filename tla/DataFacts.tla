------------------------------ MODULE DataFacts ------------------------------
(***************************************************************************)
(* Facts about data that several proofs need: what MapThenSumSet of the    *)
(* community modules adds up, for the proofs about balances and votes, and *)
(* what Those chooses from a sequence.                                     *)
(*                                                                         *)
(* The library's induction needs an operator as a parameter; for the sums, *)
(* the smallest counterexample serves instead.                             *)
(***************************************************************************)
EXTENDS Selections, Integers, FiniteSetsExt, FiniteSetTheorems, SequenceTheorems,
        WellFoundedInduction, TLAPS

LOCAL Less == {p \in Nat \X Nat : p[1] < p[2]}

(* A family of finite sets has a smallest one.                              *)
LEMMA SmallestSet ==
    ASSUME NEW C, C # {}, \A s \in C : IsFiniteSet(s)
    PROVE  \E s \in C : \A t \in C : Cardinality(s) <= Cardinality(t)
<1> DEFINE N == {Cardinality(s) : s \in C}
<1>1. N \subseteq Nat /\ N # {}
  BY FS_CardinalityType
<1>2. IsWellFoundedOn(Less, Nat)
  BY NatLessThanWellFounded, Zenon DEF OpToRel, Less
<1>3. PICK n \in N : \A k \in N : ~(<<k, n>> \in Less)
  BY <1>1, <1>2, WFMin, Zenon
<1>4. ASSUME NEW k \in N PROVE n <= k
  <2>1. n \in Nat /\ k \in Nat
    BY <1>1
  <2> HIDE DEF N
  <2>2. k < n => <<k, n>> \in Less
    BY <2>1 DEF Less
  <2> QED
    BY <1>3, <2>1, <2>2
<1> QED
  BY <1>3, <1>4

-----------------------------------------------------------------------------
(* The recursion.                                                          *)

Total(f, S) == MapThenSumSet(LAMBDA x : f[x], S)

Pick(s) == CHOOSE x \in s : TRUE
Less1(s) == s \ {Pick(s)}

Adds(f, S, g) == g = [s \in SUBSET S |-> IF s = {} THEN 0 ELSE f[Pick(s)] + g[Less1(s)]]

LEMMA TotalDef ==
    ASSUME NEW f, NEW S
    PROVE  Total(f, S) = (CHOOSE g : Adds(f, S, g))[S]
  BY DEF Total, MapThenSumSet, MapThenFoldSet, Pick, Less1, Adds

LEMMA Less1Facts ==
    ASSUME NEW s, IsFiniteSet(s), s # {}
    PROVE  /\ Pick(s) \in s /\ Less1(s) \subseteq s /\ IsFiniteSet(Less1(s))
           /\ Cardinality(Less1(s)) < Cardinality(s)
<1>1. Pick(s) \in s
  BY DEF Pick
<1>2. Less1(s) \subseteq s /\ Less1(s) = s \ {Pick(s)}
  BY DEF Less1
<1>3. IsFiniteSet(Less1(s)) /\ Cardinality(Less1(s)) = Cardinality(s) - 1
  BY <1>1, <1>2, FS_RemoveElement
<1>4. Cardinality(s) \in Nat
  BY FS_CardinalityType
<1> QED
  BY <1>1, <1>2, <1>3, <1>4

LEMMA AddsFacts ==
    ASSUME NEW f, NEW S, NEW g, Adds(f, S, g), NEW s \in SUBSET S
    PROVE  /\ s = {} => g[s] = 0
           /\ s # {} => g[s] = f[Pick(s)] + g[Less1(s)]
  BY DEF Adds

LEMMA AddsUnique ==
    ASSUME NEW f, NEW S, NEW g, Adds(f, S, g), NEW T, NEW h, Adds(f, T, h),
           NEW s, IsFiniteSet(s), s \subseteq S, s \subseteq T
    PROVE  g[s] = h[s]
<1> DEFINE C == {t \in SUBSET s : g[t] # h[t]}
<1>1. SUFFICES ASSUME C # {} PROVE FALSE
  OBVIOUS
<1>2. \A t \in C : IsFiniteSet(t)
  BY FS_Subset
<1>3. PICK t \in C : \A u \in C : Cardinality(t) <= Cardinality(u)
  BY <1>1, <1>2, SmallestSet
<1>4. t \in SUBSET S /\ t \in SUBSET T /\ IsFiniteSet(t)
  BY <1>2
<1>5. t # {}
  BY <1>3, <1>4, AddsFacts
<1>6. Less1(t) \subseteq t /\ Cardinality(Less1(t)) < Cardinality(t) /\ IsFiniteSet(Less1(t))
  BY <1>4, <1>5, Less1Facts
<1>7. Cardinality(t) \in Nat /\ Cardinality(Less1(t)) \in Nat
  BY <1>4, <1>6, FS_CardinalityType
<1>8. g[Less1(t)] = h[Less1(t)]
  BY <1>3, <1>6, <1>7
<1>9. g[t] = h[t]
  BY <1>4, <1>5, <1>8, AddsFacts
<1> QED
  BY <1>3, <1>9

\* Where the recursion has a solution, also for the smaller sets, Total is it.
LEMMA TotalUnfolds ==
    ASSUME NEW f, NEW s, IsFiniteSet(s), \E g : Adds(f, s, g), s # {} => \E g : Adds(f, Less1(s), g)
    PROVE  Total(f, s) = IF s = {} THEN 0 ELSE f[Pick(s)] + Total(f, Less1(s))
<1> DEFINE g == CHOOSE k : Adds(f, s, k)
           h == CHOOSE k : Adds(f, Less1(s), k)
<1>1. Adds(f, s, g)
  OBVIOUS
<1>2. s # {} => Adds(f, Less1(s), h)
  OBVIOUS
<1>3. Total(f, s) = g[s] /\ Total(f, Less1(s)) = h[Less1(s)]
  BY TotalDef
<1> HIDE DEF g, h
<1>4. s # {} => g[Less1(s)] = h[Less1(s)]
  BY <1>1, <1>2, Less1Facts, AddsUnique
<1> QED
  BY <1>1, <1>3, <1>4, AddsFacts

LEMMA AddsExists ==
    ASSUME NEW f, NEW S, IsFiniteSet(S)
    PROVE  \E g : Adds(f, S, g)
<1> DEFINE C == {t \in SUBSET S : ~\E g : Adds(f, t, g)}
<1>1. SUFFICES ASSUME C # {} PROVE FALSE
  OBVIOUS
<1>2. \A t \in C : IsFiniteSet(t)
  BY FS_Subset
<1>3. PICK t \in C : \A u \in C : Cardinality(t) <= Cardinality(u)
  BY <1>1, <1>2, SmallestSet
<1>4. IsFiniteSet(t) /\ t \subseteq S
  BY <1>2
<1>5. ASSUME NEW u, u \subseteq t, u # t
      PROVE  \E g : Adds(f, u, g)
  <2>1. /\ IsFiniteSet(u) /\ Cardinality(u) <= Cardinality(t)
        /\ Cardinality(t) # Cardinality(u)
    BY <1>4, <1>5, FS_Subset, Zenon
  <2>2. Cardinality(u) \in Nat /\ Cardinality(t) \in Nat
    BY <1>4, <2>1, FS_CardinalityType
  <2>3. u \notin C
    BY <1>3, <2>1, <2>2
  <2> QED
    BY <1>4, <1>5, <2>3
<1> DEFINE g == [u \in SUBSET t |-> IF u = {} THEN 0 ELSE f[Pick(u)] + Total(f, Less1(u))]
<1>6. \A u \in SUBSET t : u # {} => g[Less1(u)] = Total(f, Less1(u))
  <2> SUFFICES ASSUME NEW u \in SUBSET t, u # {} PROVE g[Less1(u)] = Total(f, Less1(u))
    OBVIOUS
  <2>1. IsFiniteSet(u)
    BY <1>4, FS_Subset
  <2>2. /\ Less1(u) \subseteq u /\ IsFiniteSet(Less1(u)) /\ Cardinality(Less1(u)) < Cardinality(u)
    BY <2>1, Less1Facts
  <2> DEFINE d == Less1(u)
  <2>3. Cardinality(u) \in Nat /\ Cardinality(d) \in Nat
    BY <2>1, <2>2, FS_CardinalityType
  <2>4. d \subseteq t /\ d # t
    BY <2>2, <2>3
  <2>5. \E k : Adds(f, d, k)
    BY <1>5, <2>4
  <2>6. d # {} => \E k : Adds(f, Less1(d), k)
    <3> SUFFICES ASSUME d # {} PROVE \E k : Adds(f, Less1(d), k)
      OBVIOUS
    <3>1. Less1(d) \subseteq d /\ Cardinality(Less1(d)) < Cardinality(d)
      BY <2>2, Less1Facts
    <3>2. Less1(d) # t
      BY <2>2, <2>4, <3>1
    <3> QED
      BY <1>5, <2>4, <3>1, <3>2
  <2>7. IsFiniteSet(d)
    BY <2>2
  <2> HIDE DEF d
  <2>8. Total(f, d) = IF d = {} THEN 0 ELSE f[Pick(d)] + Total(f, Less1(d))
    BY <2>5, <2>6, <2>7, TotalUnfolds
  <2>9. g[d] = IF d = {} THEN 0 ELSE f[Pick(d)] + Total(f, Less1(d))
    BY <2>4
  <2> QED
    BY <2>8, <2>9 DEF d
<1>7. Adds(f, t, g)
  <2> HIDE DEF g
  <2>1. g = [u \in SUBSET t |-> IF u = {} THEN 0 ELSE f[Pick(u)] + g[Less1(u)]]
    BY <1>6 DEF g
  <2> QED
    BY <2>1 DEF Adds
<1> HIDE DEF g
<1> QED
  BY <1>3, <1>7

-----------------------------------------------------------------------------
(* What is left to use.                                                    *)

(* The sum over a finite set: that over the rest and the value of the       *)
(* element that is taken first.                                             *)
LEMMA TotalFirst ==
    ASSUME NEW f, NEW S, IsFiniteSet(S)
    PROVE  /\ S = {} => Total(f, S) = 0
           /\ S # {} => Total(f, S) = f[Pick(S)] + Total(f, Less1(S))
<1>1. \E g : Adds(f, S, g)
  BY AddsExists
<1>2. S # {} => \E g : Adds(f, Less1(S), g)
  BY AddsExists, Less1Facts
<1> QED
  BY <1>1, <1>2, TotalUnfolds

(* The sum is a number when the values are.                                 *)
LEMMA TotalType ==
    ASSUME NEW f, NEW S, IsFiniteSet(S), \A x \in S : f[x] \in Int
    PROVE  Total(f, S) \in Int
<1> DEFINE C == {t \in SUBSET S : Total(f, t) \notin Int}
<1>1. SUFFICES ASSUME C # {} PROVE FALSE
  OBVIOUS
<1>2. \A t \in C : IsFiniteSet(t)
  BY FS_Subset
<1>3. PICK t \in C : \A u \in C : Cardinality(t) <= Cardinality(u)
  BY <1>1, <1>2, SmallestSet
<1>4. IsFiniteSet(t) /\ t \subseteq S
  BY <1>2
<1>5. t # {}
  <2>1. t = {} => Total(f, t) = 0
    BY <1>4, TotalFirst
  <2>2. 0 \in Int
    OBVIOUS
  <2> QED
    BY <1>3, <2>1, <2>2
<1>6. /\ Pick(t) \in t /\ Less1(t) \subseteq t /\ IsFiniteSet(Less1(t))
      /\ Cardinality(Less1(t)) < Cardinality(t)
  BY <1>4, <1>5, Less1Facts
<1>7. Cardinality(t) \in Nat /\ Cardinality(Less1(t)) \in Nat
  BY <1>4, <1>6, FS_CardinalityType
<1>8. Total(f, Less1(t)) \in Int
  BY <1>3, <1>4, <1>6, <1>7
<1>9. f[Pick(t)] \in Int
  BY <1>4, <1>6
<1>10. Total(f, t) = f[Pick(t)] + Total(f, Less1(t))
  BY <1>4, <1>5, TotalFirst
<1> QED
  BY <1>3, <1>8, <1>9, <1>10

(* The sum depends on the values in the set only.                           *)
LEMMA TotalSame ==
    ASSUME NEW f, NEW g, NEW S, IsFiniteSet(S), \A x \in S : f[x] = g[x]
    PROVE  Total(f, S) = Total(g, S)
<1> DEFINE C == {t \in SUBSET S : Total(f, t) # Total(g, t)}
<1>1. SUFFICES ASSUME C # {} PROVE FALSE
  OBVIOUS
<1>2. \A t \in C : IsFiniteSet(t)
  BY FS_Subset
<1>3. PICK t \in C : \A u \in C : Cardinality(t) <= Cardinality(u)
  BY <1>1, <1>2, SmallestSet
<1>4. IsFiniteSet(t) /\ t \subseteq S
  BY <1>2
<1>5. t # {}
  BY <1>3, <1>4, TotalFirst
<1>6. /\ Pick(t) \in t /\ Less1(t) \subseteq t /\ IsFiniteSet(Less1(t))
      /\ Cardinality(Less1(t)) < Cardinality(t)
  BY <1>4, <1>5, Less1Facts
<1>7. Cardinality(t) \in Nat /\ Cardinality(Less1(t)) \in Nat
  BY <1>4, <1>6, FS_CardinalityType
<1>8. Total(f, Less1(t)) = Total(g, Less1(t))
  BY <1>3, <1>4, <1>6, <1>7
<1>9. f[Pick(t)] = g[Pick(t)]
  BY <1>4, <1>6
<1>10. /\ Total(f, t) = f[Pick(t)] + Total(f, Less1(t))
       /\ Total(g, t) = g[Pick(t)] + Total(g, Less1(t))
  BY <1>4, <1>5, TotalFirst
<1> QED
  BY <1>3, <1>8, <1>9, <1>10

(* Any element may be taken first.                                          *)
LEMMA TotalRemove ==
    ASSUME NEW f, NEW S, IsFiniteSet(S), \A x \in S : f[x] \in Int, NEW a \in S
    PROVE  Total(f, S) = f[a] + Total(f, S \ {a})
<1> DEFINE C == {t \in SUBSET S : \E x \in t : Total(f, t) # f[x] + Total(f, t \ {x})}
<1>1. SUFFICES ASSUME C # {} PROVE FALSE
  OBVIOUS
<1>2. \A t \in C : IsFiniteSet(t)
  BY FS_Subset
<1>3. PICK t \in C : \A u \in C : Cardinality(t) <= Cardinality(u)
  BY <1>1, <1>2, SmallestSet
<1>4. PICK x \in t : Total(f, t) # f[x] + Total(f, t \ {x})
  BY <1>3
<1> DEFINE p == Pick(t)
           both == (t \ {x}) \ {p}
<1>5. IsFiniteSet(t) /\ t \subseteq S /\ Cardinality(t) \in Nat
  BY <1>2, FS_CardinalityType
<1>6. p \in t /\ Total(f, t) = f[p] + Total(f, t \ {p})
  BY <1>4, <1>5, TotalFirst, Less1Facts DEF Less1
<1>7. x # p
  BY <1>4, <1>6
<1>8. \A y \in t : \A z \in t \ {y} : Total(f, t \ {y}) = f[z] + Total(f, (t \ {y}) \ {z})
  <2> SUFFICES ASSUME NEW y \in t, NEW z \in t \ {y}
               PROVE  Total(f, t \ {y}) = f[z] + Total(f, (t \ {y}) \ {z})
    OBVIOUS
  <2>1. IsFiniteSet(t \ {y}) /\ Cardinality(t \ {y}) = Cardinality(t) - 1
    BY <1>5, FS_RemoveElement
  <2>2. t \ {y} \notin C
    BY <1>3, <1>5, <2>1, SMTT(30)
  <2> QED
    BY <1>5, <2>2
<1> HIDE DEF p
<1>9. Total(f, t \ {p}) = f[x] + Total(f, (t \ {p}) \ {x})
  BY <1>6, <1>7, <1>8
<1>10. Total(f, t \ {x}) = f[p] + Total(f, (t \ {x}) \ {p})
  BY <1>6, <1>7, <1>8
<1>11. (t \ {p}) \ {x} = both
  OBVIOUS
<1>12. IsFiniteSet(both) /\ both \subseteq S
  BY <1>5, FS_Subset
<1>13. Total(f, both) \in Int /\ f[x] \in Int /\ f[p] \in Int
  BY <1>4, <1>5, <1>6, <1>12, TotalType
<1> HIDE DEF both
<1>14. Total(f, t) = f[p] + (f[x] + Total(f, both))
  BY <1>6, <1>9, <1>11
<1>15. Total(f, t \ {x}) = f[p] + Total(f, both)
  BY <1>10 DEF both
<1> QED
  BY <1>4, <1>13, <1>14, <1>15

(* When one value changes, the sum changes as much.                         *)
LEMMA TotalChange ==
    ASSUME NEW f, NEW g, NEW S, IsFiniteSet(S),
           \A x \in S : f[x] \in Int /\ g[x] \in Int,
           NEW a \in S, \A x \in S \ {a} : g[x] = f[x]
    PROVE  Total(g, S) = Total(f, S) + (g[a] - f[a])
<1>1. IsFiniteSet(S \ {a})
  BY FS_Subset
<1>2. Total(f, S) = f[a] + Total(f, S \ {a})
  BY TotalRemove
<1>3. Total(g, S) = g[a] + Total(g, S \ {a})
  BY TotalRemove
<1>4. Total(f, S \ {a}) = Total(g, S \ {a})
  BY <1>1, TotalSame
<1>5. Total(f, S \ {a}) \in Int /\ f[a] \in Int /\ g[a] \in Int
  BY <1>1, TotalType
<1> QED
  BY <1>2, <1>3, <1>4, <1>5

(* Equal values add up to their number times one of them.                   *)
LEMMA TotalConstant ==
    ASSUME NEW f, NEW S, IsFiniteSet(S), NEW c \in Int, \A x \in S : f[x] = c
    PROVE  Total(f, S) = c * Cardinality(S)
<1> DEFINE C == {t \in SUBSET S : Total(f, t) # c * Cardinality(t)}
<1>1. SUFFICES ASSUME C # {} PROVE FALSE
  OBVIOUS
<1>2. \A t \in C : IsFiniteSet(t)
  BY FS_Subset
<1>3. PICK t \in C : \A u \in C : Cardinality(t) <= Cardinality(u)
  BY <1>1, <1>2, SmallestSet
<1>4. IsFiniteSet(t) /\ t \subseteq S
  BY <1>2
<1>5. CASE t = {}
  <2>1. Total(f, t) = 0 /\ Cardinality(t) = 0
    BY <1>4, <1>5, TotalFirst, FS_EmptySet
  <2> QED
    BY <1>3, <2>1
<1>6. CASE t # {}
  <2> DEFINE n == Cardinality(t)
             m == Cardinality(Less1(t))
  <2>1. /\ Pick(t) \in t /\ Less1(t) \subseteq t /\ IsFiniteSet(Less1(t))
        /\ m < n
    BY <1>4, <1>6, Less1Facts
  <2>2. n \in Nat /\ m = n - 1
    BY <1>4, <2>1, FS_CardinalityType, FS_RemoveElement DEF Less1
  <2> HIDE DEF n, m
  <2>3. Total(f, Less1(t)) = c * m
    BY <1>3, <1>4, <2>1, <2>2 DEF n, m
  <2>4. Total(f, t) = c + c * m
    BY <1>4, <1>6, <2>1, <2>3, TotalFirst
  <2>5. c + c * (n - 1) = c * n
    BY <2>2
  <2> QED
    BY <1>3, <2>2, <2>4, <2>5 DEF n
<1> QED
  BY <1>5, <1>6

-----------------------------------------------------------------------------
(* Selections.                                                             *)

Choosing(r, x, T) == IF x \in T THEN Append(r, x) ELSE r

Distinct(s) == \A i, j \in DOMAIN s : s[i] = s[j] => i = j

\* The chosen ones of the first k elements of s, with S their set.
Chosen(r, k, s, T, S) ==
    /\ r \in Seq(S)
    /\ \A i \in DOMAIN r : r[i] \in T /\ \E j \in 1 .. k : r[i] = s[j]
    /\ \A j \in 1 .. k : s[j] \in T => \E i \in DOMAIN r : r[i] = s[j]
    /\ Distinct(s) => Distinct(r)

Choice == INSTANCE FoldKeeps WITH Op <- Choosing, Good <- Chosen

\* Those has what it should have, and nothing twice that was not there twice.
LEMMA ThoseFacts ==
    ASSUME NEW S, NEW s \in Seq(S), NEW T
    PROVE  Chosen(Those(s, T), Len(s), s, T, S)
<1>1. Those(s, T) = Choice!Folded(<<>>, s, T)
  BY DEF Those, FoldLeft, MapThenFoldSet, Max, Choosing, Choice!Folded, Choice!Iterates, Choice!Last
<1>2. Chosen(<<>>, 0, s, T, S)
  BY DEF Chosen, Distinct
<1>3. ASSUME NEW k \in Nat, NEW r, k < Len(s), Chosen(r, k, s, T, S)
      PROVE  Chosen(Choosing(r, s[k + 1], T), k + 1, s, T, S)
  <2>1. k + 1 \in 1 .. Len(s) /\ r \in Seq(S) /\ Len(r) \in Nat /\ s[k + 1] \in S
    BY <1>3 DEF Chosen
  <2>2. CASE s[k + 1] \notin T
    <3>1. Choosing(r, s[k + 1], T) = r
      BY <2>2 DEF Choosing
    <3>2. \A j \in 1 .. k + 1 : j \in 1 .. k \/ j = k + 1
      OBVIOUS
    <3>3. \A j \in 1 .. k : j \in 1 .. k + 1
      OBVIOUS
    <3> QED
      BY <1>3, <2>2, <3>1, <3>2, <3>3 DEF Chosen
  <2>3. CASE s[k + 1] \in T
    <3> DEFINE e == s[k + 1]
               t == Append(r, e)
    <3>1. Choosing(r, s[k + 1], T) = t
      BY <2>3 DEF Choosing
    <3>2. /\ t \in Seq(S) /\ Len(t) = Len(r) + 1 /\ t[Len(r) + 1] = e
          /\ \A i \in 1 .. Len(r) : t[i] = r[i]
      BY <2>1
    <3> HIDE DEF t
    <3>3. DOMAIN t = 1 .. Len(r) + 1 /\ DOMAIN r = 1 .. Len(r)
      BY <2>1, <3>2
    <3>4. \A i \in DOMAIN t : i \in DOMAIN r \/ i = Len(r) + 1
      BY <2>1, <3>3
    <3>5. \A i \in DOMAIN t : t[i] \in T /\ \E j \in 1 .. k + 1 : t[i] = s[j]
      BY <1>3, <2>1, <2>3, <3>2, <3>3, <3>4 DEF Chosen
    <3>6. \A j \in 1 .. k + 1 : s[j] \in T => \E i \in DOMAIN t : t[i] = s[j]
      <4>1. ASSUME NEW j \in 1 .. k, s[j] \in T PROVE \E i \in DOMAIN t : t[i] = s[j]
        <5>1. PICK i \in DOMAIN r : r[i] = s[j]
          BY <1>3, <4>1 DEF Chosen
        <5>2. i \in DOMAIN t /\ t[i] = r[i]
          BY <2>1, <3>2, <3>3
        <5> QED
          BY <5>1, <5>2
      <4>2. Len(r) + 1 \in DOMAIN t /\ t[Len(r) + 1] = s[k + 1]
        BY <2>1, <3>2, <3>3
      <4>3. \A j \in 1 .. k + 1 : j \in 1 .. k \/ j = k + 1
        OBVIOUS
      <4> QED
        BY <4>1, <4>2, <4>3
    <3>7. Distinct(s) => Distinct(t)
      <4> SUFFICES ASSUME Distinct(s), NEW i \in DOMAIN t, NEW j \in DOMAIN t, t[i] = t[j]
                   PROVE  i = j
        BY DEF Distinct
      <4>1. \A m \in DOMAIN r : t[m] = r[m] /\ r[m] # e
        <5> SUFFICES ASSUME NEW m \in DOMAIN r PROVE t[m] = r[m] /\ r[m] # e
          OBVIOUS
        <5>1. PICK n \in 1 .. k : r[m] = s[n]
          BY <1>3 DEF Chosen
        <5>2. n \in DOMAIN s /\ k + 1 \in DOMAIN s /\ n # k + 1
          BY <1>3, <2>1
        <5> QED
          BY <3>2, <3>3, <5>1, <5>2 DEF Distinct
      <4>2. Distinct(r)
        BY <1>3 DEF Chosen
      <4> QED
        BY <3>2, <3>4, <4>1, <4>2 DEF Distinct
    <3> QED
      BY <3>1, <3>2, <3>5, <3>6, <3>7 DEF Chosen
  <2> QED
    BY <2>2, <2>3
<1>4. Len(s) \in Nat /\ DOMAIN s = 1 .. Len(s)
  OBVIOUS
<1>5. Chosen(Choice!Folded(<<>>, s, T), Len(s), s, T, S)
  BY <1>2, <1>3, <1>4, Choice!FoldKept
<1> QED
  BY <1>1, <1>5
=============================================================================
