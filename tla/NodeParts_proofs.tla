-------------------------- MODULE NodeParts_proofs --------------------------
(***************************************************************************)
(* Proofs about what a node stores and how it is connected: the header     *)
(* storage, its caches, the connections of the nodes and the packages on   *)
(* one of them.                                                            *)
(*                                                                         *)
(* Headers: the functions that recurse from a block to its parent exist,   *)
(* and the headers up to a block are its chain; what each statement of     *)
(* changeBest makes of the tables; and the invariant: while a transaction  *)
(* is open, the tables are those of the statements that ran, and those     *)
(* that are left are the rest of the plan.                                 *)
(* Cache: of its pointers only what unlinking its tail needs.              *)
(* Connections: the map has what is up, and what beats a dial that is      *)
(* gone is not gone itself.                                                *)
(* Packages: the bytes that were taken, that wait at the reader, that are  *)
(* on their way and that wait at the writers are one row.                  *)
(***************************************************************************)
EXTENDS HeaderStorage, LRUCache, NodeConnections, PackageStream,
        FiniteSetTheorems, SequenceTheorems, WellFoundedInduction, TLAPS

(* Induction over the natural numbers, for a set of them.                   *)
LOCAL Below == {p \in Nat \X Nat : p[1] < p[2]}

LEMMA Induction ==
    ASSUME NEW P, 0 \in P, \A n \in Nat : n \in P => n + 1 \in P
    PROVE  Nat \subseteq P
<1>1. SUFFICES ASSUME Nat \ P # {} PROVE FALSE
  OBVIOUS
<1>2. IsWellFoundedOn(Below, Nat)
  BY NatLessThanWellFounded, Zenon DEF OpToRel, Below
<1>3. PICK n \in Nat \ P : \A k \in Nat \ P : ~(<<k, n>> \in Below)
  BY <1>1, <1>2, WFMin, Zenon
<1>4. n - 1 \in Nat /\ <<n - 1, n>> \in Below
  BY <1>3 DEF Below
<1> QED
  BY <1>3, <1>4

LEMMA PositiveLength ==
    ASSUME NEW S, NEW s \in Seq(S), s # <<>>
    PROVE  Len(s) \in Nat /\ Len(s) >= 1
  OBVIOUS

-----------------------------------------------------------------------------
(* The recursive functions of the module exist: a function that goes from a *)
(* block to its parent is the union of its solutions on the sets of blocks  *)
(* that contain every ancestor of their blocks.                             *)

LEMMA Descent ==
    /\ Genesis \in Blocks /\ Genesis \notin Unverified
    /\ \A b \in Unverified : b \in Blocks /\ Parent[b] \in Blocks
    /\ \A S \in SUBSET Blocks : S # {} =>
           Genesis \in S \/ \E b \in S : b \in Unverified /\ Parent[b] \notin S
<1>1. ASSUME NEW S \in SUBSET Blocks, S # {}, Genesis \notin S
      PROVE  \E b \in S : b \in Unverified /\ Parent[b] \notin S
  <2>1. S \in SUBSET Unverified
    BY <1>1 DEF Unverified
  <2> QED
    BY <1>1, <2>1, HeadersAssumption
<1> QED
  BY <1>1, HeadersAssumption DEF Unverified

Solves(f, S, base, G) ==
    /\ S \subseteq Blocks /\ Genesis \in S
    /\ \A b \in S \ {Genesis} : Parent[b] \in S
    /\ f[Genesis] = base
    /\ \A b \in S \ {Genesis} : f[b] = G[<<b, f[Parent[b]]>>]

LEMMA SolutionsAgree ==
    ASSUME NEW base, NEW G, NEW f, NEW g, NEW S, NEW T, Solves(f, S, base, G), Solves(g, T, base, G)
    PROVE  \A b \in S \cap T : f[b] = g[b]
<1> DEFINE D == {b \in S \cap T : f[b] # g[b]}
<1>1. SUFFICES ASSUME D # {} PROVE FALSE
  OBVIOUS
<1>2. D \in SUBSET Blocks /\ Genesis \notin D
  BY DEF Solves
<1>3. PICK b \in D : b \in Unverified /\ Parent[b] \notin D
  BY <1>1, <1>2, Descent
<1>4. b \in S \ {Genesis} /\ b \in T \ {Genesis}
  BY <1>2, <1>3
<1>5. f[Parent[b]] = g[Parent[b]]
  BY <1>3, <1>4 DEF Solves
<1> QED
  BY <1>3, <1>4, <1>5 DEF Solves

LEMMA SolutionsCover ==
    ASSUME NEW V, NEW base \in V, NEW G \in [Unverified \X V -> V], NEW b \in Blocks
    PROVE  \E S \in SUBSET Blocks : \E f \in [S -> V] : b \in S /\ Solves(f, S, base, G)
<1> DEFINE Covered(c) == \E S \in SUBSET Blocks : \E f \in [S -> V] : c \in S /\ Solves(f, S, base, G)
           D == {c \in Blocks : ~Covered(c)}
<1>1. SUFFICES ASSUME D # {} PROVE FALSE
  OBVIOUS
<1>2. Covered(Genesis)
  <2> DEFINE f == [c \in {Genesis} |-> base]
  <2>1. f \in [{Genesis} -> V] /\ {Genesis} \in SUBSET Blocks /\ Solves(f, {Genesis}, base, G)
    BY Descent DEF Solves
  <2> HIDE DEF f
  <2> QED
    BY <2>1
<1>3. PICK c \in D : c \in Unverified /\ Parent[c] \notin D
  <2> HIDE DEF Covered
  <2> QED
    BY <1>1, <1>2, Descent
<1>4. Parent[c] \in Blocks /\ c # Genesis /\ c \in Blocks
  BY <1>3, Descent
<1>5. PICK S, f : S \in SUBSET Blocks /\ f \in [S -> V] /\ Parent[c] \in S /\ Solves(f, S, base, G)
  BY <1>3, <1>4
<1>6. c \notin S
  BY <1>3, <1>5
<1> DEFINE T == S \cup {c}
           g == [d \in T |-> IF d = c THEN G[<<c, f[Parent[c]]>>] ELSE f[d]]
<1>7. T \in SUBSET Blocks /\ c \in T /\ g \in [T -> V]
  BY <1>3, <1>4, <1>5
<1>8. \A d \in S : g[d] = f[d]
  BY <1>6
<1>9. g[c] = G[<<c, f[Parent[c]]>>]
  OBVIOUS
<1> HIDE DEF g
<1>10. Solves(g, T, base, G)
  BY <1>4, <1>5, <1>6, <1>8, <1>9 DEF Solves
<1>11. Covered(c)
  BY <1>7, <1>10
<1> QED
  BY <1>3, <1>11

Steps(V, G) == G \in [Unverified \X V -> V]
Recursive(f, V, base, G) ==
    f \in [Blocks -> V] /\ f[Genesis] = base /\ \A b \in Unverified : f[b] = G[<<b, f[Parent[b]]>>]

LEMMA Recursion == \A V, base, G : base \in V /\ Steps(V, G) => \E f : Recursive(f, V, base, G)
<1> SUFFICES ASSUME NEW V, NEW base \in V, NEW G \in [Unverified \X V -> V]
             PROVE  \E f : Recursive(f, V, base, G)
  BY DEF Steps
<1> DEFINE Value(b, v) == \E S \in SUBSET Blocks : \E f \in [S -> V] :
                              b \in S /\ f[b] = v /\ Solves(f, S, base, G)
           F == [b \in Blocks |-> CHOOSE v \in V : Value(b, v)]
<1>1. \A b \in Blocks : \E v \in V : Value(b, v)
  <2> TAKE b \in Blocks
  <2>1. PICK S, f : S \in SUBSET Blocks /\ f \in [S -> V] /\ b \in S /\ Solves(f, S, base, G)
    BY SolutionsCover
  <2> QED
    BY <2>1
<1>2. \A b \in Blocks : \A v, w \in V : Value(b, v) /\ Value(b, w) => v = w
  <2> TAKE b \in Blocks
  <2> TAKE v, w \in V
  <2> HAVE Value(b, v) /\ Value(b, w)
  <2>1. PICK S, f : S \in SUBSET Blocks /\ f \in [S -> V] /\ b \in S /\ f[b] = v /\ Solves(f, S, base, G)
    OBVIOUS
  <2>2. PICK T, g : T \in SUBSET Blocks /\ g \in [T -> V] /\ b \in T /\ g[b] = w /\ Solves(g, T, base, G)
    OBVIOUS
  <2> QED
    BY <2>1, <2>2, SolutionsAgree
<1>3. \A b \in Unverified : \A v \in V : Value(Parent[b], v) => Value(b, G[<<b, v>>])
  <2> TAKE b \in Unverified
  <2> TAKE v \in V
  <2> HAVE Value(Parent[b], v)
  <2>1. PICK S, f : S \in SUBSET Blocks /\ f \in [S -> V] /\ b \in S /\ Solves(f, S, base, G)
    BY SolutionsCover, Descent
  <2>2. f[b] = G[<<b, f[Parent[b]]>>] /\ Parent[b] \in S /\ Parent[b] \in Blocks
    BY <2>1, Descent DEF Solves
  <2>3. Value(Parent[b], f[Parent[b]]) /\ f[Parent[b]] \in V
    BY <2>1, <2>2
  <2>4. f[Parent[b]] = v
    <3> HIDE DEF Value
    <3> QED
      BY <1>2, <2>2, <2>3
  <2> QED
    BY <2>1, <2>2, <2>4
<1>4. Value(Genesis, base)
  <2>1. PICK S, f : S \in SUBSET Blocks /\ f \in [S -> V] /\ Genesis \in S /\ Solves(f, S, base, G)
    BY SolutionsCover, Descent
  <2> QED
    BY <2>1 DEF Solves
<1> HIDE DEF Value
<1>5. \A b \in Blocks : F[b] \in V /\ Value(b, F[b])
  BY <1>1
<1>6. F \in [Blocks -> V]
  BY <1>5
<1> HIDE DEF F
<1>7. F[Genesis] = base
  BY <1>2, <1>4, <1>5, Descent
<1>8. \A b \in Unverified : F[b] = G[<<b, F[Parent[b]]>>]
  <2> TAKE b \in Unverified
  <2>1. Value(Parent[b], F[Parent[b]]) /\ F[Parent[b]] \in V /\ F[b] \in V /\ Value(b, F[b])
    BY <1>5, Descent
  <2>2. G[<<b, F[Parent[b]]>>] \in V
    BY <2>1
  <2> QED
    BY <1>2, <1>3, <2>1, <2>2, Descent
<1> QED
  BY <1>6, <1>7, <1>8 DEF Recursive

-----------------------------------------------------------------------------
(* Heights and chains.                                                      *)

LEMMA HeightIs == Height = [b \in Blocks |-> IF b = Genesis THEN 0 ELSE Height[Parent[b]] + 1]
<1> DEFINE G == [p \in Unverified \X Nat |-> p[2] + 1]
<1>1. G \in [Unverified \X Nat -> Nat]
  OBVIOUS
<1>2. \A b \in Unverified, n \in Nat : G[<<b, n>>] = n + 1
  OBVIOUS
<1> HIDE DEF G
<1>3. PICK f : Recursive(f, Nat, 0, G)
  <2>1. 0 \in Nat /\ Steps(Nat, G)
    BY <1>1 DEF Steps
  <2> QED
    BY <2>1, Recursion
<1>4. ASSUME NEW b \in Blocks PROVE f[b] = IF b = Genesis THEN 0 ELSE f[Parent[b]] + 1
  <2>1. CASE b = Genesis
    BY <1>3, <2>1 DEF Recursive
  <2>2. CASE b # Genesis
    <3>1. b \in Unverified /\ Parent[b] \in Blocks
      BY <2>2, Descent DEF Unverified
    <3>2. f[b] = G[<<b, f[Parent[b]]>>] /\ f[Parent[b]] \in Nat
      BY <1>3, <3>1 DEF Recursive
    <3> QED
      BY <1>2, <2>2, <3>1, <3>2
  <2> QED
    BY <2>1, <2>2
<1>5. f = [b \in Blocks |-> IF b = Genesis THEN 0 ELSE f[Parent[b]] + 1]
  <2> DEFINE g == [b \in Blocks |-> IF b = Genesis THEN 0 ELSE f[Parent[b]] + 1]
  <2>1. \A b \in Blocks : f[b] = g[b]
    BY <1>4
  <2>2. f = [b \in Blocks |-> f[b]] /\ g = [b \in Blocks |-> g[b]]
    BY <1>3 DEF Recursive
  <2> HIDE DEF g
  <2> QED
    BY <2>1, <2>2 DEF g
<1>6. \E h : h = [b \in Blocks |-> IF b = Genesis THEN 0 ELSE h[Parent[b]] + 1]
  BY <1>5
<1> QED
  BY <1>6, Zenon DEF Height

LEMMA HeightFacts ==
    /\ Height \in [Blocks -> Nat] /\ Height[Genesis] = 0
    /\ \A b \in Unverified : Height[b] = Height[Parent[b]] + 1
    /\ \A b \in Blocks : Height[b] \in Heights /\ (Height[b] = 0 => b = Genesis)
<1>1. Height[Genesis] = 0 /\ \A b \in Unverified : Height[b] = Height[Parent[b]] + 1
  BY HeightIs, Descent DEF Unverified
<1>2. \A b \in Blocks : Height[b] \in Nat
  <2> DEFINE D == {b \in Blocks : Height[b] \notin Nat}
  <2>1. SUFFICES ASSUME D # {} PROVE FALSE
    OBVIOUS
  <2>2. D \in SUBSET Blocks /\ Genesis \notin D
    BY <1>1
  <2>3. PICK b \in D : b \in Unverified /\ Parent[b] \notin D
    <3> HIDE DEF D
    <3> QED
      BY <2>1, <2>2, Descent
  <2> QED
    BY <1>1, <2>3, Descent
<1>3. Height \in [Blocks -> Nat]
  BY <1>2, HeightIs
<1>4. \A b \in Blocks : Height[b] = 0 => b = Genesis
  BY <1>1, <1>2, Descent DEF Unverified
<1> QED
  BY <1>1, <1>3, <1>4 DEF Heights

\* getHeader of a block: a chain for every count.
Run(b, h) == [count \in Nat |-> IF count = 0 \/ b = Genesis THEN <<b>> ELSE Append(h[count - 1], b)]

LEMMA HeadersToIs ==
    \A b \in Blocks :
        /\ HeadersTo[b] \in [Nat -> Seq(Blocks)]
        /\ HeadersTo[b] = Run(b, HeadersTo[Parent[b]])
<1> DEFINE V == [Nat -> Seq(Blocks)]
           G == [p \in Unverified \X V |-> Run(p[1], p[2])]
           base == [count \in Nat |-> <<Genesis>>]
<1>1. base \in V
  BY Descent
<1>2. \A b \in Unverified, h \in V : Run(b, h) \in V
  BY Descent DEF Run
<1>3. G \in [Unverified \X V -> V]
  <2> HIDE DEF V
  <2> QED
    BY <1>2
<1>4. \A b \in Unverified, h \in V : G[<<b, h>>] = Run(b, h)
  <2> HIDE DEF V
  <2> QED
    OBVIOUS
<1> HIDE DEF G, V, base
<1>5. PICK f : Recursive(f, V, base, G)
  <2>1. Steps(V, G)
    BY <1>3 DEF Steps
  <2> QED
    BY <1>1, <2>1, Recursion
<1>6. \A h : base = Run(Genesis, h)
  BY Zenon DEF base, Run
<1>7. \A b \in Blocks : f[b] = Run(b, f[Parent[b]])
  BY <1>4, <1>5, <1>6, Descent DEF Unverified, Recursive
<1>8. f = [b \in Blocks |-> Run(b, f[Parent[b]])]
  <2> DEFINE g == [b \in Blocks |-> Run(b, f[Parent[b]])]
  <2>1. \A b \in Blocks : f[b] = g[b]
    BY <1>7
  <2>2. f = [b \in Blocks |-> f[b]] /\ g = [b \in Blocks |-> g[b]]
    BY <1>5 DEF Recursive
  <2> HIDE DEF g
  <2> QED
    BY <2>1, <2>2 DEF g
<1>9. \E h : h = [b \in Blocks |-> Run(b, h[Parent[b]])]
  BY <1>8
<1>10. HeadersTo = [b \in Blocks |-> Run(b, HeadersTo[Parent[b]])]
  BY <1>9, Zenon DEF HeadersTo, Run
<1>11. \A b \in Blocks : HeadersTo[b] = Run(b, HeadersTo[Parent[b]])
  BY <1>10
<1> HIDE DEF Run
<1>12. \A b \in Blocks : HeadersTo[b] \in V
  <2> DEFINE D == {b \in Blocks : HeadersTo[b] \notin V}
  <2>1. SUFFICES ASSUME D # {} PROVE FALSE
    OBVIOUS
  <2>2. D \in SUBSET Blocks /\ Genesis \notin D
    BY <1>1, <1>6, <1>11, Descent
  <2>3. PICK b \in D : b \in Unverified /\ Parent[b] \notin D
    <3> HIDE DEF D
    <3> QED
      BY <2>1, <2>2, Descent
  <2> QED
    BY <1>2, <1>11, <2>3, Descent
<1> QED
  BY <1>11, <1>12 DEF V

LEMMA AppendSet ==
    ASSUME NEW s \in Seq(Blocks), NEW b \in Blocks
    PROVE  ToSet(Append(s, b)) = ToSet(s) \cup {b}
<1> DEFINE t == Append(s, b)
<1>1. Len(s) \in Nat /\ DOMAIN s = 1 .. Len(s) /\ DOMAIN t = 1 .. Len(s) + 1
  OBVIOUS
<1>2. (\A i \in 1 .. Len(s) : t[i] = s[i]) /\ t[Len(s) + 1] = b
  OBVIOUS
<1> HIDE DEF t
<1> QED
  BY <1>1, <1>2 DEF ToSet, t

\* A chain is the chain of the parent and the block.
LEMMA ChainIs ==
    /\ ChainOf(Genesis) = {Genesis}
    /\ \A b \in Unverified : ChainOf(b) = ChainOf(Parent[b]) \cup {b}
<1>1. HeadersTo[Genesis][0] = <<Genesis>>
  <2>1. HeadersTo[Genesis] = Run(Genesis, HeadersTo[Parent[Genesis]])
    BY HeadersToIs, Descent
  <2>2. \A h : Run(Genesis, h)[0] = <<Genesis>>
    BY DEF Run
  <2> QED
    BY <2>1, <2>2
<1>2. ASSUME NEW b \in Unverified PROVE ChainOf(b) = ChainOf(Parent[b]) \cup {b}
  <2> DEFINE p == Parent[b]
             s == HeadersTo[p][Height[p]]
  <2>1. p \in Blocks /\ b \in Blocks /\ b # Genesis
    BY Descent
  <2>2. Height[p] \in Nat /\ Height[b] \in Nat /\ Height[b] = Height[p] + 1
    BY <2>1, HeightFacts
  <2>3. HeadersTo[b] = Run(b, HeadersTo[p]) /\ s \in Seq(Blocks)
    BY <2>1, <2>2, HeadersToIs
  <2>4. HeadersTo[b][Height[b]] = Append(s, b)
    <3>1. Height[b] # 0 /\ Height[b] - 1 = Height[p]
      BY <2>2
    <3> QED
      BY <2>1, <2>2, <2>3, <3>1 DEF Run
  <2> HIDE DEF s
  <2>5. ToSet(Append(s, b)) = ToSet(s) \cup {b}
    BY <2>1, <2>3, AppendSet
  <2> QED
    BY <2>4, <2>5 DEF ChainOf, s
<1> QED
  BY <1>1, <1>2, HeightFacts DEF ChainOf, ToSet

\* Along a chain the heights count up, and each block's chain is the part below it.
Linear(b) ==
    /\ ChainOf(b) \subseteq Blocks /\ b \in ChainOf(b) /\ Genesis \in ChainOf(b)
    /\ \A c \in ChainOf(b) : Height[c] <= Height[b] /\ ChainOf(c) \subseteq ChainOf(b)
    /\ \A c \in ChainOf(b) : Height[c] = Height[b] => c = b
    /\ \A c, d \in ChainOf(b) : Height[c] = Height[d] => c = d
    /\ \A c, d \in ChainOf(b) : Height[d] <= Height[c] => d \in ChainOf(c)

LEMMA ChainLinear == \A b \in Blocks : Linear(b)
<1> DEFINE D == {b \in Blocks : ~Linear(b)}
<1>1. SUFFICES ASSUME D # {} PROVE FALSE
  OBVIOUS
<1>2. Linear(Genesis)
  BY ChainIs, HeightFacts, Descent DEF Linear
<1>3. PICK b \in D : b \in Unverified /\ Parent[b] \notin D
  <2>1. D \in SUBSET Blocks /\ Genesis \notin D
    BY <1>2
  <2> HIDE DEF D
  <2> QED
    BY <1>1, <2>1, Descent
<1> DEFINE p == Parent[b]
<1>4. p \in Blocks /\ b \in Blocks /\ Linear(p)
  BY <1>3, Descent
<1>5. ChainOf(b) = ChainOf(p) \cup {b} /\ Height[b] = Height[p] + 1 /\ Height[p] \in Nat
  BY <1>3, <1>4, ChainIs, HeightFacts
<1>6. \A c \in ChainOf(p) : c \in Blocks /\ Height[c] \in Nat /\ Height[c] <= Height[p] /\ c # b
  BY <1>4, <1>5, HeightFacts DEF Linear
<1> HIDE DEF p
<1>7. Linear(b)
  <2>1. ChainOf(b) \subseteq Blocks /\ b \in ChainOf(b) /\ Genesis \in ChainOf(b)
    BY <1>4, <1>5 DEF Linear
  <2>2. \A c \in ChainOf(b) : Height[c] <= Height[b] /\ (Height[c] = Height[b] => c = b)
    BY <1>5, <1>6
  <2>3. \A c \in ChainOf(b) : ChainOf(c) \subseteq ChainOf(b)
    BY <1>4, <1>5 DEF Linear
  <2>4. \A c, d \in ChainOf(b) : Height[c] = Height[d] => c = d
    BY <1>4, <1>5, <1>6 DEF Linear
  <2>5. ASSUME NEW c \in ChainOf(b), NEW d \in ChainOf(b), Height[d] <= Height[c]
        PROVE  d \in ChainOf(c)
    <3>1. CASE c = b
      BY <3>1
    <3>2. CASE c # b
      <4>1. c \in ChainOf(p) /\ d # b
        BY <1>5, <1>6, <2>5, <3>2
      <4> QED
        BY <1>4, <1>5, <2>5, <4>1 DEF Linear
    <3> QED
      BY <3>1, <3>2
  <2> QED
    BY <2>1, <2>2, <2>3, <2>4, <2>5 DEF Linear
<1> QED
  BY <1>3, <1>7

LEMMA ChainFacts ==
    ASSUME NEW b \in Blocks
    PROVE  /\ ChainOf(b) \subseteq Blocks /\ b \in ChainOf(b) /\ Genesis \in ChainOf(b)
           /\ \A c \in ChainOf(b) : Height[c] \in Nat /\ Height[c] <= Height[b] /\ ChainOf(c) \subseteq ChainOf(b)
           /\ \A c, d \in ChainOf(b) : Height[c] = Height[d] => c = d
           /\ \A c \in ChainOf(b) : ChainOf(c) = {d \in ChainOf(b) : Height[d] <= Height[c]}
<1>1. Linear(b)
  BY ChainLinear
<1>2. \A c \in ChainOf(b) : c \in Blocks /\ Height[c] \in Nat /\ Linear(c)
  BY <1>1, ChainLinear, HeightFacts DEF Linear
<1>3. ASSUME NEW c \in ChainOf(b) PROVE ChainOf(c) = {d \in ChainOf(b) : Height[d] <= Height[c]}
  <2>1. \A d \in ChainOf(c) : d \in ChainOf(b) /\ Height[d] <= Height[c]
    BY <1>1, <1>2 DEF Linear
  <2>2. \A d \in ChainOf(b) : Height[d] <= Height[c] => d \in ChainOf(c)
    BY <1>1 DEF Linear
  <2> QED
    BY <2>1, <2>2
<1> QED
  BY <1>1, <1>2, <1>3 DEF Linear

-----------------------------------------------------------------------------
(* The table of the best chain and the statements of changeBest.            *)

\* The table lists the chain of b, and nothing else.
Lists(best, b) ==
    /\ best \in [Heights -> Blocks \cup {None}]
    /\ \A c \in ChainOf(b) : best[Height[c]] = c
    /\ \A n \in Heights : best[n] # None => best[n] \in ChainOf(b) /\ Height[best[n]] = n

RowsOf(b) == UNION {Rows(c) : c \in ChainOf(b)}

\* The blocks s lead from the chain of t to b.
Strand(s, b, t) ==
    /\ s \in Seq(Unverified)
    /\ \A i \in 1 .. Len(s) : s[i] \notin ChainOf(t)
    /\ \A i \in 1 .. Len(s) - 1 : Parent[s[i + 1]] = s[i]
    /\ IF s = <<>> THEN b \in ChainOf(t) ELSE s[Len(s)] = b /\ Parent[s[1]] \in ChainOf(t)

LEMMA StrandGrows ==
    ASSUME NEW b \in Unverified, NEW t \in Blocks, NEW s, Strand(s, Parent[b], t), b \notin ChainOf(t)
    PROVE  Strand(Append(s, b), b, t) /\ Append(s, b) # <<>>
<1> DEFINE u == Append(s, b)
<1>1. s \in Seq(Unverified) /\ Len(s) \in Nat
  BY DEF Strand
<1>2. /\ u \in Seq(Unverified) /\ Len(u) = Len(s) + 1 /\ u # <<>>
      /\ u[Len(s) + 1] = b /\ \A i \in 1 .. Len(s) : u[i] = s[i]
  BY <1>1
<1> HIDE DEF u
<1>3. \A i \in 1 .. Len(u) : u[i] \notin ChainOf(t)
  BY <1>1, <1>2 DEF Strand
<1>4. ASSUME NEW i \in 1 .. Len(u) - 1 PROVE Parent[u[i + 1]] = u[i]
  <2>1. CASE i = Len(s)
    <3>1. s # <<>> /\ s[Len(s)] = Parent[b]
      BY <1>1, <1>2, <2>1 DEF Strand
    <3> QED
      BY <1>1, <1>2, <2>1, <3>1
  <2>2. CASE i # Len(s)
    <3>1. i \in 1 .. Len(s) - 1 /\ i + 1 \in 1 .. Len(s) /\ i \in 1 .. Len(s)
      BY <1>1, <1>2, <2>2
    <3> QED
      BY <1>2, <3>1 DEF Strand
  <2> QED
    BY <2>1, <2>2
<1>5. Parent[u[1]] \in ChainOf(t)
  <2>1. CASE s = <<>>
    BY <1>2, <2>1 DEF Strand
  <2>2. CASE s # <<>>
    <3>1. Len(s) >= 1
      BY <1>1, <2>2
    <3> QED
      BY <1>1, <1>2, <2>2, <3>1 DEF Strand
  <2> QED
    BY <2>1, <2>2
<1> QED
  BY <1>2, <1>3, <1>4, <1>5 DEF Strand, u

LEMMA BranchIs ==
    ASSUME OnBest(Genesis)
    PROVE  \A b \in Blocks : Branch[b] = IF OnBest(b) THEN <<>> ELSE Append(Branch[Parent[b]], b)
<1> DEFINE V == Seq(Blocks)
           Grown(b, s) == IF OnBest(b) THEN <<>> ELSE Append(s, b)
           G == [p \in Unverified \X V |-> Grown(p[1], p[2])]
<1>1. \A b \in Unverified, s \in V : Grown(b, s) \in V
  BY Descent
<1>2. \A b \in Unverified, s \in V : G[<<b, s>>] = Grown(b, s)
  <2> HIDE DEF Grown, V
  <2> QED
    OBVIOUS
<1>3. Steps(V, G)
  <2> HIDE DEF Grown, V
  <2> QED
    BY <1>1 DEF Steps
<1>4. <<>> \in V
  OBVIOUS
<1>5. \A s : Grown(Genesis, s) = <<>>
  OBVIOUS
<1> HIDE DEF G, V, Grown
<1>6. PICK f : Recursive(f, V, <<>>, G)
  BY <1>3, <1>4, Recursion
<1>7. ASSUME NEW b \in Blocks PROVE f[b] = Grown(b, f[Parent[b]])
  <2>1. CASE b = Genesis
    BY <1>5, <1>6, <2>1 DEF Recursive
  <2>2. CASE b # Genesis
    <3>1. b \in Unverified /\ Parent[b] \in Blocks
      BY <2>2, Descent DEF Unverified
    <3>2. f[Parent[b]] \in V /\ f[b] = G[<<b, f[Parent[b]]>>]
      BY <1>6, <3>1 DEF Recursive
    <3> QED
      BY <1>2, <3>1, <3>2
  <2> QED
    BY <2>1, <2>2
<1>8. f = [b \in Blocks |-> Grown(b, f[Parent[b]])]
  <2> DEFINE g == [b \in Blocks |-> Grown(b, f[Parent[b]])]
  <2>1. \A b \in Blocks : f[b] = g[b]
    BY <1>7
  <2>2. f = [b \in Blocks |-> f[b]] /\ g = [b \in Blocks |-> g[b]]
    BY <1>6 DEF Recursive
  <2> HIDE DEF g
  <2> QED
    BY <2>1, <2>2 DEF g
<1>9. \E h : h = [b \in Blocks |-> Grown(b, h[Parent[b]])]
  BY <1>8
<1>10. Branch = [b \in Blocks |-> Grown(b, Branch[Parent[b]])]
  BY <1>9, Zenon DEF Branch, Grown
<1>11. \A b \in Blocks : Branch[b] = Grown(b, Branch[Parent[b]])
  BY <1>10
<1> QED
  BY <1>11 DEF Grown

LEMMA BranchStrand ==
    ASSUME NEW t \in Blocks, Lists(db.best, t)
    PROVE  \A b \in Blocks : Strand(Branch[b], b, t)
<1>1. \A b \in Blocks : OnBest(b) <=> b \in ChainOf(t)
  <2>1. None \notin Blocks /\ \A b \in Blocks : Height[b] \in Heights
    BY HeadersAssumption, HeightFacts
  <2> QED
    BY <2>1 DEF OnBest, Lists
<1>2. OnBest(Genesis)
  BY <1>1, ChainFacts, Descent
<1>3. \A b \in Blocks : Branch[b] = IF OnBest(b) THEN <<>> ELSE Append(Branch[Parent[b]], b)
  BY <1>2, BranchIs
<1>4. \A b \in Blocks : OnBest(b) => Strand(Branch[b], b, t)
  <2>1. \A b \in Blocks : OnBest(b) => Branch[b] = <<>> /\ b \in ChainOf(t)
    BY <1>1, <1>3
  <2>2. \A b \in ChainOf(t) : Strand(<<>>, b, t)
    BY DEF Strand
  <2> QED
    BY <2>1, <2>2
<1> DEFINE D == {b \in Blocks : ~Strand(Branch[b], b, t)}
<1>5. SUFFICES ASSUME D # {} PROVE FALSE
  OBVIOUS
<1>6. PICK b \in D : b \in Unverified /\ Parent[b] \notin D
  <2>1. D \in SUBSET Blocks /\ Genesis \notin D
    BY <1>2, <1>4, Descent
  <2> HIDE DEF D
  <2> QED
    BY <1>5, <2>1, Descent
<1>7. Parent[b] \in Blocks /\ b \in Blocks
  BY <1>6, Descent
<1>8. Strand(Branch[Parent[b]], Parent[b], t) /\ ~OnBest(b) /\ ~Strand(Branch[b], b, t)
  BY <1>4, <1>6, <1>7
<1> HIDE DEF D
<1> QED
  BY <1>1, <1>3, <1>6, <1>7, <1>8, StrandGrows

\* What changeBest leads over: a strand that is not empty.
Lead(new, b, t) == Strand(new, b, t) /\ new # <<>> /\ b \in Unverified

\* The block below the first and each of the blocks
Top(new, j) == IF j = 0 THEN Parent[new[1]] ELSE new[j]

\* All the statements of changeBest over these blocks, and by place
Plan(new) ==
    LET fork == Parent[new[1]]
    IN  <<Statement("removeTxs", fork)>> \o Each("addTxs", new)
        \o <<Statement("verified", new[Len(new)]), Statement("cutBest", fork)>> \o Each("extendBest", new)
Planned(new, i) ==
    LET m == Len(new)
    IN  IF i = 1 THEN Statement("removeTxs", Top(new, 0))
        ELSE IF i <= m + 1 THEN Statement("addTxs", new[i - 1])
        ELSE IF i = m + 2 THEN Statement("verified", new[m])
        ELSE IF i = m + 3 THEN Statement("cutBest", Top(new, 0))
        ELSE Statement("extendBest", new[i - m - 3])

Statements == [op : {"removeTxs", "addTxs", "verified", "cutBest", "extendBest"}, block : Blocks]

LEMMA Joined ==
    ASSUME NEW S, NEW s \in Seq(S), NEW t \in Seq(S)
    PROVE  /\ s \o t \in Seq(S) /\ Len(s \o t) = Len(s) + Len(t)
           /\ \A i \in 1 .. Len(s) : (s \o t)[i] = s[i]
           /\ \A i \in 1 .. Len(t) : (s \o t)[Len(s) + i] = t[i]
<1>1. Len(s) \in Nat /\ Len(t) \in Nat
  OBVIOUS
<1>2. /\ s \o t \in Seq(S) /\ Len(s \o t) = Len(s) + Len(t)
      /\ \A i \in 1 .. Len(s) + Len(t) : (s \o t)[i] = IF i <= Len(s) THEN s[i] ELSE t[i - Len(s)]
  BY ConcatProperties
<1>3. ASSUME NEW i \in 1 .. Len(s) PROVE (s \o t)[i] = s[i]
  BY <1>1, <1>2
<1>4. ASSUME NEW i \in 1 .. Len(t) PROVE (s \o t)[Len(s) + i] = t[i]
  <2>1. Len(s) + i \in 1 .. Len(s) + Len(t) /\ ~(Len(s) + i <= Len(s)) /\ (Len(s) + i) - Len(s) = i
    BY <1>1
  <2> QED
    BY <1>2, <2>1
<1> QED
  BY <1>2, <1>3, <1>4

LEMMA PlanIs ==
    ASSUME NEW new \in Seq(Blocks), new # <<>>, Parent[new[1]] \in Blocks
    PROVE  /\ Plan(new) \in Seq(Statements) /\ Len(Plan(new)) = 2 * Len(new) + 3
           /\ \A i \in 1 .. 2 * Len(new) + 3 : Plan(new)[i] = Planned(new, i)
<1> DEFINE fork == Parent[new[1]]
           b == new[Len(new)]
           m == Len(new)
           S == Statements
           A == <<Statement("removeTxs", fork)>>
           B == Each("addTxs", new)
           C == <<Statement("verified", b), Statement("cutBest", fork)>>
           D == Each("extendBest", new)
<1>1. m \in Nat /\ m >= 1 /\ (\A i \in 1 .. m : new[i] \in Blocks) /\ fork \in Blocks /\ b \in Blocks
  BY PositiveLength
<1>2. \A op : /\ Len(Each(op, new)) = m
              /\ \A i \in 1 .. m : Each(op, new)[i] = Statement(op, new[i])
  BY <1>1 DEF Each
<1>3. B \in Seq(S) /\ D \in Seq(S)
  <2>1. DOMAIN new = 1 .. m
    OBVIOUS
  <2>2. \A op \in {"addTxs", "extendBest"}, i \in 1 .. m : Statement(op, new[i]) \in S
    BY <1>1 DEF Statement, Statements
  <2> HIDE DEF S, m
  <2>3. \A op \in {"addTxs", "extendBest"} : [i \in 1 .. m |-> Statement(op, new[i])] \in Seq(S)
    BY <1>1, <2>2 DEF m
  <2> QED
    BY <2>1, <2>3 DEF Each
<1>4. /\ A \in Seq(S) /\ Len(A) = 1 /\ A[1] = Statement("removeTxs", fork)
      /\ C \in Seq(S) /\ Len(C) = 2 /\ C[1] = Statement("verified", b) /\ C[2] = Statement("cutBest", fork)
  BY <1>1 DEF Statement, Statements
<1>5. Len(B) = m /\ Len(D) = m
  BY <1>2
<1> HIDE DEF A, B, C, D, S, m, b, fork
<1> DEFINE E == A \o B
           F == E \o C
           O == F \o D
<1>6. /\ E \in Seq(S) /\ Len(E) = 1 + m /\ E[1] = A[1]
      /\ \A i \in 1 .. m : E[1 + i] = B[i]
  <2>1. Len(A) + Len(B) = 1 + m /\ 1 \in 1 .. Len(A)
    BY <1>1, <1>4, <1>5
  <2>2. /\ E \in Seq(S) /\ Len(E) = Len(A) + Len(B)
        /\ \A i \in 1 .. Len(A) : E[i] = A[i]
        /\ \A i \in 1 .. Len(B) : E[Len(A) + i] = B[i]
    <3>1. A \in Seq(S) /\ B \in Seq(S)
      BY <1>3, <1>4
    <3> QED
      BY <3>1, Joined
  <2> HIDE DEF E
  <2> QED
    BY <1>4, <1>5, <2>1, <2>2
<1> HIDE DEF E
<1>7. /\ F \in Seq(S) /\ Len(F) = m + 3 /\ F[m + 2] = C[1] /\ F[m + 3] = C[2]
      /\ \A i \in 1 .. m + 1 : F[i] = E[i]
  <2>1. /\ Len(E) + Len(C) = m + 3 /\ 1 \in 1 .. Len(C) /\ 2 \in 1 .. Len(C)
        /\ Len(E) + 1 = m + 2 /\ Len(E) + 2 = m + 3 /\ Len(E) = m + 1
    BY <1>1, <1>4, <1>6
  <2>2. /\ F \in Seq(S) /\ Len(F) = Len(E) + Len(C)
        /\ \A i \in 1 .. Len(E) : F[i] = E[i]
        /\ \A i \in 1 .. Len(C) : F[Len(E) + i] = C[i]
    <3>1. E \in Seq(S) /\ C \in Seq(S)
      BY <1>4, <1>6
    <3> QED
      BY <3>1, Joined
  <2> HIDE DEF F
  <2>3. F[m + 2] = C[1] /\ F[m + 3] = C[2]
    BY <2>1, <2>2
  <2> QED
    BY <2>1, <2>2, <2>3
<1> HIDE DEF F
<1>8. /\ O \in Seq(S) /\ Len(O) = 2 * m + 3
      /\ \A i \in 1 .. m + 3 : O[i] = F[i]
      /\ \A i \in 1 .. m : O[(m + 3) + i] = D[i]
  <2>1. Len(F) + Len(D) = 2 * m + 3
    BY <1>1, <1>5, <1>7
  <2>2. /\ O \in Seq(S) /\ Len(O) = Len(F) + Len(D)
        /\ \A i \in 1 .. Len(F) : O[i] = F[i]
        /\ \A i \in 1 .. Len(D) : O[Len(F) + i] = D[i]
    <3>1. F \in Seq(S) /\ D \in Seq(S)
      BY <1>3, <1>7
    <3> QED
      BY <3>1, Joined
  <2> HIDE DEF O
  <2> QED
    BY <1>5, <1>7, <2>1, <2>2
<1>9. Plan(new) = O
  BY DEF Plan, O, F, E, A, B, C, D, b, fork
<1> HIDE DEF O
<1>10. ASSUME NEW i \in 1 .. 2 * m + 3 PROVE O[i] = Planned(new, i)
  <2>1. i \in Nat
    OBVIOUS
  <2>4. CASE i = 1
    <3>1. i \in 1 .. m + 3 /\ i \in 1 .. m + 1
      BY <1>1, <2>4
    <3> QED
      BY <1>4, <1>6, <1>7, <1>8, <2>4, <3>1 DEF Planned, Top, fork
  <2>5. CASE i # 1 /\ i <= m + 1
    <3>1. i \in 1 .. m + 3 /\ i \in 1 .. m + 1 /\ i - 1 \in 1 .. m /\ 1 + (i - 1) = i
      BY <1>1, <2>1, <2>5
    <3>2. O[i] = B[i - 1]
      BY <1>6, <1>7, <1>8, <3>1
    <3>3. B[i - 1] = Statement("addTxs", new[i - 1])
      BY <1>2, <3>1 DEF B
    <3> QED
      BY <2>5, <3>2, <3>3 DEF Planned, m, b, fork
  <2>6. CASE i = m + 2
    <3>1. O[i] = C[1]
      <4>1. i \in 1 .. m + 3
        BY <1>1, <2>6
      <4> QED
        BY <1>7, <1>8, <2>6, <4>1
    <3>2. i # 1 /\ ~(i <= m + 1)
      BY <1>1, <2>6
    <3> QED
      BY <1>4, <2>6, <3>1, <3>2 DEF Planned, m, b, fork
  <2>7. CASE i = m + 3
    <3>1. O[i] = C[2]
      <4>1. i \in 1 .. m + 3
        BY <1>1, <2>7
      <4> QED
        BY <1>7, <1>8, <2>7, <4>1
    <3>2. i # 1 /\ ~(i <= m + 1) /\ i # m + 2
      BY <1>1, <2>7
    <3> QED
      BY <1>4, <2>7, <3>1, <3>2 DEF Planned, Top, m, fork
  <2>8. CASE i > m + 3
    <3>1. i - m - 3 \in 1 .. m /\ (m + 3) + (i - m - 3) = i
      BY <1>1, <2>1, <2>8
    <3>2. O[i] = D[i - m - 3]
      BY <1>8, <3>1
    <3>3. D[i - m - 3] = Statement("extendBest", new[i - m - 3])
      BY <1>2, <3>1 DEF D
    <3>4. i # 1 /\ ~(i <= m + 1) /\ i # m + 2 /\ i # m + 3
      BY <1>1, <2>8
    <3> QED
      BY <3>2, <3>3, <3>4 DEF Planned, m, b, fork
  <2>9. i = 1 \/ (i # 1 /\ i <= m + 1) \/ i = m + 2 \/ i = m + 3 \/ i > m + 3
    BY <1>1, <2>1
  <2> QED
    BY <2>4, <2>5, <2>6, <2>7, <2>8, <2>9
<1> QED
  BY <1>8, <1>9, <1>10 DEF m, S

\* The chains of the tops grow by one block each.
LEMMA LeadFacts ==
    ASSUME NEW new, NEW b, NEW t \in Blocks, Lead(new, b, t)
    PROVE  /\ new \in Seq(Unverified) /\ Len(new) \in Nat /\ Len(new) >= 1 /\ new[Len(new)] = b
           /\ \A j \in 0 .. Len(new) : Top(new, j) \in Blocks /\ ChainOf(Top(new, j)) \subseteq ChainOf(b)
           /\ \A j \in 1 .. Len(new) : /\ new[j] \in Unverified /\ Parent[new[j]] = Top(new, j - 1)
                                        /\ ChainOf(new[j]) = ChainOf(Top(new, j - 1)) \cup {new[j]}
           /\ Top(new, 0) \in ChainOf(t) /\ Top(new, Len(new)) = b
<1>1. new \in Seq(Unverified) /\ Len(new) \in Nat /\ Len(new) >= 1 /\ new[Len(new)] = b
  BY PositiveLength DEF Lead, Strand
<1>2. Top(new, 0) \in ChainOf(t) /\ Top(new, 0) \in Blocks
  BY <1>1, ChainFacts DEF Lead, Strand, Top
<1>3. \A j \in 1 .. Len(new) : new[j] \in Unverified /\ new[j] \in Blocks
  BY <1>1, Descent
<1>4. ASSUME NEW j \in 1 .. Len(new) PROVE Parent[new[j]] = Top(new, j - 1)
  <2>1. CASE j = 1
    BY <2>1 DEF Top
  <2>2. CASE j # 1
    <3>1. j - 1 \in 1 .. Len(new) - 1 /\ (j - 1) + 1 = j /\ j - 1 # 0
      BY <1>1, <2>2
    <3> QED
      BY <3>1 DEF Lead, Strand, Top
  <2> QED
    BY <2>1, <2>2
<1>5. \A j \in 1 .. Len(new) : ChainOf(new[j]) = ChainOf(Top(new, j - 1)) \cup {new[j]}
  BY <1>3, <1>4, ChainIs
<1>6. Top(new, Len(new)) = b
  BY <1>1 DEF Top
<1>7. \A j \in 0 .. Len(new) : Top(new, j) \in Blocks
  BY <1>1, <1>2, <1>3 DEF Top
<1>8. \A j \in 0 .. Len(new) : ChainOf(Top(new, j)) \subseteq ChainOf(b)
  <2> DEFINE m == Len(new)
             P == {i \in Nat : i <= m => ChainOf(Top(new, m - i)) \subseteq ChainOf(b)}
  <2>1. 0 \in P
    BY <1>1, <1>6
  <2>0. m \in Nat
    BY <1>1
  <2> HIDE DEF P, m
  <2>2. ASSUME NEW i \in Nat, i \in P PROVE i + 1 \in P
    <3>1. CASE i + 1 <= m
      <4>1. m - i \in 1 .. m /\ (m - i) - 1 = m - (i + 1) /\ i <= m /\ m - i # 0
        BY <2>0, <3>1
      <4>2. ChainOf(Top(new, m - i)) \subseteq ChainOf(b)
        BY <2>2, <4>1 DEF P
      <4>3. Top(new, m - i) = new[m - i]
        <5>1. m - i # 0
          BY <4>1
        <5> QED
          BY <5>1, Zenon DEF Top
      <4>4. ChainOf(new[m - i]) = ChainOf(Top(new, (m - i) - 1)) \cup {new[m - i]}
        BY <1>5, <4>1 DEF m
      <4>5. ChainOf(Top(new, m - (i + 1))) \subseteq ChainOf(b)
        BY <4>1, <4>2, <4>3, <4>4
      <4> QED
        BY <4>5 DEF P
    <3>2. CASE ~(i + 1 <= m)
      BY <3>2 DEF P
    <3> QED
      BY <3>1, <3>2
  <2>3. Nat \subseteq P
    BY <2>1, <2>2, Induction
  <2> SUFFICES ASSUME NEW j \in 0 .. Len(new) PROVE ChainOf(Top(new, j)) \subseteq ChainOf(b)
    OBVIOUS
  <2>4. m - j \in Nat /\ m - j <= m /\ m - (m - j) = j
    BY <2>0 DEF m
  <2> QED
    BY <2>3, <2>4 DEF P
<1> QED
  BY <1>1, <1>2, <1>3, <1>4, <1>5, <1>6, <1>7, <1>8

(* What each statement makes of the tables.                                 *)

LEMMA TxsRemoved ==
    ASSUME NEW t \in Blocks, NEW f \in ChainOf(t)
    PROVE  {r \in RowsOf(t) : Height[r.block] <= Height[f]} = RowsOf(f)
<1>1. ChainOf(f) = {d \in ChainOf(t) : Height[d] <= Height[f]}
  BY ChainFacts
<1>2. \A c : \A r \in Rows(c) : r.block = c
  BY DEF Rows
<1> QED
  BY <1>1, <1>2 DEF RowsOf

LEMMA TxsAdded ==
    ASSUME NEW p, NEW c, ChainOf(c) = ChainOf(p) \cup {c}
    PROVE  RowsOf(p) \cup Rows(c) = RowsOf(c)
  BY DEF RowsOf

LEMMA Higher ==
    ASSUME NEW c \in Unverified
    PROVE  /\ c \in Blocks /\ Parent[c] \in Blocks
           /\ Height[c] \in Nat /\ Height[Parent[c]] \in Nat /\ Height[c] = Height[Parent[c]] + 1
           /\ c \notin ChainOf(Parent[c]) /\ ChainOf(c) = ChainOf(Parent[c]) \cup {c}
           /\ \A d \in ChainOf(Parent[c]) : Height[d] \in Nat /\ Height[d] < Height[c]
<1>1. c \in Blocks /\ Parent[c] \in Blocks
  BY Descent
<1>2. Height[c] \in Nat /\ Height[Parent[c]] \in Nat /\ Height[c] = Height[Parent[c]] + 1
  BY <1>1, HeightFacts
<1>3. \A d \in ChainOf(Parent[c]) : Height[d] \in Nat /\ Height[d] <= Height[Parent[c]]
  BY <1>1, ChainFacts
<1> QED
  BY <1>1, <1>2, <1>3, ChainIs

\* The transactions of a valid chain are in the view once.
LEMMA TxsNew ==
    ASSUME NEW b \in Blocks, ChainOf(b) \cap Invalid = {},
           NEW c \in Unverified, ChainOf(c) \subseteq ChainOf(b)
    PROVE  \A r \in RowsOf(Parent[c]) : r.tx \notin Txs[c]
<1>1. c \in ChainOf(b) /\ c \notin ChainOf(Parent[c]) /\ ChainOf(Parent[c]) \subseteq ChainOf(b)
  BY Higher, ChainFacts
<1>2. \A d \in ChainOf(Parent[c]) : Txs[d] \cap Txs[c] = {}
  BY <1>1, HeadersAssumption
<1> QED
  BY <1>2 DEF RowsOf, Rows

LEMMA BestCut ==
    ASSUME NEW best, NEW t \in Blocks, Lists(best, t), NEW f \in ChainOf(t)
    PROVE  Lists([n \in Heights |-> IF n > Height[f] THEN None ELSE best[n]], f)
<1> DEFINE cut == [n \in Heights |-> IF n > Height[f] THEN None ELSE best[n]]
<1>1. /\ ChainOf(f) = {d \in ChainOf(t) : Height[d] <= Height[f]}
      /\ \A d \in ChainOf(t) : d \in Blocks /\ Height[d] \in Nat /\ Height[d] \in Heights
  BY ChainFacts, HeightFacts
<1>2. cut \in [Heights -> Blocks \cup {None}]
  BY DEF Lists
<1>3. \A c \in ChainOf(f) : cut[Height[c]] = c
  BY <1>1 DEF Lists
<1>4. \A n \in Heights : cut[n] # None => cut[n] \in ChainOf(f) /\ Height[cut[n]] = n
  <2>1. \A n \in Heights : n \in Nat
    BY HeightFacts DEF Heights
  <2> QED
    BY <1>1, <2>1 DEF Lists
<1> QED
  BY <1>2, <1>3, <1>4 DEF Lists

LEMMA BestExtended ==
    ASSUME NEW best, NEW c \in Unverified, Lists(best, Parent[c])
    PROVE  best[Height[c]] = None /\ Lists([best EXCEPT ![Height[c]] = c], c)
<1> DEFINE h == Height[c]
           more == [best EXCEPT ![h] = c]
<1>1. /\ c \in Blocks /\ h \in Heights /\ ChainOf(c) = ChainOf(Parent[c]) \cup {c}
      /\ \A d \in ChainOf(Parent[c]) : Height[d] \in Heights /\ Height[d] # h
  <2>1. \A d \in ChainOf(Parent[c]) : d \in Blocks
    BY Higher, ChainFacts
  <2> QED
    BY <2>1, Higher, HeightFacts
<1>2. best[h] = None
  BY <1>1 DEF Lists
<1>3. more \in [Heights -> Blocks \cup {None}]
  BY <1>1 DEF Lists
<1>4. /\ more[h] = c /\ \A n \in Heights : n # h => more[n] = best[n]
  BY <1>1 DEF Lists
<1> HIDE DEF more, h
<1>5. \A d \in ChainOf(c) : more[Height[d]] = d
  BY <1>1, <1>4 DEF Lists, h
<1>6. \A n \in Heights : more[n] # None => more[n] \in ChainOf(c) /\ Height[more[n]] = n
  BY <1>1, <1>4 DEF Lists, h
<1> QED
  BY <1>2, <1>3, <1>5, <1>6 DEF Lists, more, h

-----------------------------------------------------------------------------
(* The invariant.                                                           *)

Verdicts == {"verified", "invalid"}
States == {None, "notVerified"} \cup Verdicts

HeadersTypes ==
    /\ db \in Tables /\ undo \in Tables \cup {None}
    /\ byHash \in [Blocks -> States] /\ byHeight \in [Heights -> Blocks \cup {None}]
    /\ adder \in [pc : {"idle", "verify", "update", "begin", "run"}, block : Blocks, todo : Seq(Statements)]
    /\ rolling \in BOOLEAN /\ tip \in Blocks /\ faults \in Nat

\* A transaction is open from BEGIN to COMMIT, or to the end of a ROLLBACK.
OpenInv ==
    /\ undo # None <=> rolling \/ adder.pc = "run"
    /\ rolling => adder.pc \notin {"begin", "run"} /\ faults > 0

\* A verdict tells of the whole chain: nothing is verified on a block that is not.
Sound(state) == \A b \in Blocks :
    /\ state[b] = "verified" => ChainOf(b) \cap Invalid = {}
    /\ state[b] = "invalid" => b \in Invalid

SoundInv ==
    /\ Sound(db.state) /\ Sound(byHash) /\ (undo # None => Sound(undo.state))
    /\ adder.pc # "idle" => adder.block \in Unverified /\ ChainOf(Parent[adder.block]) \cap Invalid = {}
    /\ adder.pc \in {"begin", "run"} => adder.block \notin Invalid

BestInv == Lists(Committed.best, tip) /\ Committed.txview = RowsOf(tip)

\* The statements that are left after k of them, and what those made of the tables.
Left(new, k, todo) ==
    /\ k \in 0 .. 2 * Len(new) + 3
    /\ Len(todo) = 2 * Len(new) + 3 - k
    /\ \A i \in 1 .. Len(todo) : todo[i] = Planned(new, k + i)

TxsAt(new, k) == IF k = 0 THEN tip ELSE Top(new, IF k <= Len(new) + 1 THEN k - 1 ELSE Len(new))
BestAt(new, k) == IF k <= Len(new) + 2 THEN tip ELSE Top(new, k - Len(new) - 3)

Written(new, k) ==
    /\ db.txview = RowsOf(TxsAt(new, k))
    /\ Lists(db.best, BestAt(new, k))
    /\ k >= Len(new) + 2 /\ faults = 0 => db.state[adder.block] = "verified"

Under(new, k) ==
    /\ Lead(new, adder.block, tip) /\ Left(new, k, adder.todo)
    /\ adder.pc = "begin" => k = 0
    /\ adder.pc = "run" => Written(new, k)

ChangeInv == adder.pc \in {"begin", "run"} => \E new : \E k \in Nat : Under(new, k)

\* As long as no statement failed, whatever is verified has a verified parent.
Closed(state) ==
    /\ state[Genesis] = "verified"
    /\ \A b \in Unverified : state[b] = "verified" => state[Parent[b]] = "verified"

CleanInv == faults = 0 =>
    /\ Closed(db.state) /\ (undo # None => Closed(undo.state)) /\ Committed.state[tip] = "verified"
    /\ adder.pc # "idle" => db.state[adder.block] # None /\ db.state[Parent[adder.block]] = "verified"
    /\ \A b \in Blocks : byHash[b] \in Verdicts => db.state[b] = byHash[b]
    /\ undo = None => \A n \in Heights : byHeight[n] # None => byHeight[n] = db.best[n]

HeadersInv == HeadersTypes /\ OpenInv /\ SoundInv /\ BestInv /\ ChangeInv /\ CleanInv

LEMMA TablesFacts ==
    ASSUME NEW d \in Tables
    PROVE  /\ d # None /\ d.state \in [Blocks -> States] /\ d.best \in [Heights -> Blocks \cup {None}]
           /\ d = [state |-> d.state, best |-> d.best, txview |-> d.txview]
           /\ \A st \in [Blocks -> States] : [d EXCEPT !.state = st] \in Tables
  BY HeadersAssumption DEF Tables, States, Verdicts

LEMMA Distinct ==
    /\ None \notin Blocks /\ None # "notVerified" /\ None # "verified" /\ None # "invalid"
    /\ Genesis \notin Invalid /\ ChainOf(Genesis) \cap Invalid = {}
  BY HeadersAssumption, ChainIs

LEMMA HeadersInitInv == HeadersInit => HeadersInv
<1> SUFFICES ASSUME HeadersInit PROVE HeadersInv
  OBVIOUS
<1>1. /\ db = [state |-> [b \in Blocks |-> IF b = Genesis THEN "verified" ELSE None],
               best |-> [n \in Heights |-> IF n = 0 THEN Genesis ELSE None],
               txview |-> {}]
      /\ undo = None /\ byHash = [b \in Blocks |-> None] /\ byHeight = [n \in Heights |-> None]
      /\ adder = Idle /\ rolling = FALSE /\ tip = Genesis /\ faults = 0
  BY DEF HeadersInit
<1>2. db \in Tables
  BY <1>1, Descent DEF Tables
<1>3. HeadersTypes
  <2>1. byHash \in [Blocks -> States] /\ byHeight \in [Heights -> Blocks \cup {None}]
    BY <1>1 DEF States
  <2>2. adder \in [pc : {"idle", "verify", "update", "begin", "run"}, block : Blocks, todo : Seq(Statements)]
    BY <1>1, Descent DEF Idle
  <2> QED
    BY <1>1, <1>2, <2>1, <2>2, Descent DEF HeadersTypes
<1>4. adder.pc = "idle"
  BY <1>1 DEF Idle
<1>5. OpenInv
  BY <1>1, <1>4 DEF OpenInv
<1>6. SoundInv
  BY <1>1, <1>4, Distinct DEF SoundInv, Sound
<1>7. BestInv
  <2>1. Committed = db
    BY <1>1 DEF Committed
  <2>2. Lists(db.best, Genesis)
    BY <1>1, Descent, ChainIs, HeightFacts DEF Lists
  <2>3. RowsOf(Genesis) = {}
    BY ChainIs, HeadersAssumption DEF RowsOf, Rows
  <2> QED
    BY <1>1, <2>1, <2>2, <2>3 DEF BestInv
<1>8. ChangeInv
  BY <1>4 DEF ChangeInv
<1>9. CleanInv
  BY <1>1, <1>4, Distinct, Descent DEF CleanInv, Closed, Committed, Unverified, Verdicts
<1> QED
  BY <1>3, <1>5, <1>6, <1>7, <1>8, <1>9 DEF HeadersInv

-----------------------------------------------------------------------------
(* Steps.  What all of them do to the caches: a cached state stays, goes,   *)
(* or becomes the one in the table.                                         *)

Cached ==
    /\ byHash' \in [Blocks -> States] /\ byHeight' \in [Heights -> Blocks \cup {None}]
    /\ \A b \in Blocks : byHash'[b] \in {None, byHash[b], db.state[b]}
    /\ \A n \in Heights : byHeight'[n] \in {None, byHeight[n], db.best[n]}

\* The caches after such a step, when the tables stay.
LEMMA CachedInv ==
    ASSUME HeadersInv, Cached
    PROVE  /\ Sound(byHash')
           /\ faults = 0 => \A b \in Blocks : byHash'[b] \in Verdicts => db.state[b] = byHash'[b]
           /\ faults = 0 /\ undo = None => \A n \in Heights : byHeight'[n] # None => byHeight'[n] = db.best[n]
<1>1. Sound(byHash')
  <2>1. Sound(byHash) /\ Sound(db.state)
    BY DEF HeadersInv, SoundInv
  <2> QED
    BY <2>1, Distinct DEF Sound, Cached
<1>2. ASSUME faults = 0, NEW b \in Blocks, byHash'[b] \in Verdicts PROVE db.state[b] = byHash'[b]
  BY <1>2, Distinct DEF HeadersInv, CleanInv, Cached, Verdicts
<1>3. ASSUME faults = 0, undo = None, NEW n \in Heights, byHeight'[n] # None PROVE byHeight'[n] = db.best[n]
  BY <1>3 DEF HeadersInv, CleanInv, Cached
<1> QED
  BY <1>1, <1>2, <1>3

LEMMA CachedHashIs ==
    ASSUME HeadersInv, NEW bs
    PROVE  /\ CachedHash(bs) \in [Blocks -> States]
           /\ \A b \in Blocks : CachedHash(bs)[b] \in {byHash[b], db.state[b]}
  BY TablesFacts DEF HeadersInv, HeadersTypes, CachedHash, KnownState

\* Only the caches change.
LEMMA ReadInv ==
    ASSUME HeadersInv, Cached, UNCHANGED <<db, undo, adder, rolling, tip, faults>>
    PROVE  HeadersInv'
<1>1. HeadersTypes'
  BY DEF HeadersInv, HeadersTypes, Cached
<1>2. OpenInv'
  BY DEF HeadersInv, OpenInv
<1>3. SoundInv'
  BY CachedInv DEF HeadersInv, SoundInv
<1>4. BestInv'
  BY DEF HeadersInv, BestInv, Committed
<1>5. ChangeInv'
  BY DEF HeadersInv, ChangeInv, Under, Left, Written, TxsAt, BestAt
<1>6. CleanInv'
  BY CachedInv DEF HeadersInv, CleanInv, Committed
<1> QED
  BY <1>1, <1>2, <1>3, <1>4, <1>5, <1>6 DEF HeadersInv

LEMMA ReadsInv ==
    ASSUME HeadersInv,
           \/ \E b \in Unverified : LoadRange(b)
           \/ \E b \in Blocks : LoadHash(b)
           \/ \E n \in Heights : LoadHeight(n)
           \/ LoadLatest
    PROVE  HeadersInv'
<1>1. /\ UNCHANGED <<db, undo, adder, rolling, tip, faults>>
      /\ db.state \in [Blocks -> States] /\ db.best \in [Heights -> Blocks \cup {None}]
      /\ byHash \in [Blocks -> States] /\ byHeight \in [Heights -> Blocks \cup {None}]
  BY TablesFacts DEF HeadersInv, HeadersTypes, LoadRange, LoadHash, LoadHeight, LoadLatest
<1>2. ASSUME NEW b \in Unverified, LoadRange(b) PROVE Cached
  BY <1>1, <1>2, CachedHashIs DEF LoadRange, Cached
<1>3. ASSUME NEW b \in Blocks, LoadHash(b) PROVE Cached
  BY <1>1, <1>3, CachedHashIs DEF LoadHash, Cached
<1>4. ASSUME NEW n \in Heights, LoadHeight(n) PROVE Cached
  BY <1>1, <1>4 DEF LoadHeight, Cached
<1>5. ASSUME LoadLatest PROVE Cached
  BY <1>1, <1>5 DEF LoadLatest, Cached
<1> QED
  BY <1>1, <1>2, <1>3, <1>4, <1>5, ReadInv

LEMMA SaveHeaderInv ==
    ASSUME HeadersInv, NEW b \in Unverified, SaveHeader(b)
    PROVE  HeadersInv'
<1>1. /\ db.state[b] = None /\ db' = [db EXCEPT !.state[b] = "notVerified"] /\ b \in Blocks
      /\ UNCHANGED <<undo, byHash, byHeight, adder, rolling, tip, faults>>
  BY Descent DEF SaveHeader
<1>2. /\ db \in Tables /\ db' \in Tables /\ db'.best = db.best /\ db'.txview = db.txview
      /\ db.state \in [Blocks -> States]
      /\ db'.state = [db.state EXCEPT ![b] = "notVerified"]
  BY <1>1, TablesFacts DEF HeadersInv, HeadersTypes, Tables
<1>3. \A c \in Blocks : db'.state[c] = IF c = b THEN "notVerified" ELSE db.state[c]
  BY <1>1, <1>2
<1>4. HeadersTypes'
  BY <1>1, <1>2 DEF HeadersInv, HeadersTypes
<1>5. OpenInv'
  BY <1>1 DEF HeadersInv, OpenInv
<1>6. SoundInv'
  <2>1. Sound(db'.state)
    BY <1>3 DEF HeadersInv, SoundInv, Sound
  <2> QED
    BY <1>1, <2>1 DEF HeadersInv, SoundInv
<1>7. BestInv'
  BY <1>1, <1>2 DEF HeadersInv, BestInv, Committed
<1>8. ChangeInv'
  <2> SUFFICES ASSUME adder.pc \in {"begin", "run"} PROVE \E new : \E k \in Nat : Under(new, k)'
    BY <1>1 DEF ChangeInv
  <2>1. PICK new : \E k \in Nat : Under(new, k)
    BY DEF HeadersInv, ChangeInv
  <2>2. PICK k \in Nat : Under(new, k)
    BY <2>1
  <2>3. adder.block \in Blocks /\ (db.state[adder.block] = "verified" => db'.state[adder.block] = "verified")
    BY <1>1, <1>3, Distinct DEF HeadersInv, HeadersTypes
  <2>4. Under(new, k)'
    BY <1>1, <1>2, <2>2, <2>3 DEF Under, Written, Left, TxsAt, BestAt
  <2> QED
    BY <2>4
<1>9. CleanInv'
  <2> SUFFICES ASSUME faults = 0 PROVE CleanInv'
    BY <1>1 DEF CleanInv
  <2>1. \A c \in Blocks : db.state[c] \in Verdicts => db'.state[c] = db.state[c]
    BY <1>1, <1>3, Distinct DEF Verdicts
  <2>2. Closed(db'.state)
    BY <1>1, <1>3, <2>1, Descent, Distinct DEF HeadersInv, CleanInv, Closed, Verdicts
  <2>3. Committed'.state[tip] = "verified"
    BY <1>1, <2>1 DEF HeadersInv, CleanInv, HeadersTypes, Committed, Verdicts
  <2>4. adder.pc # "idle" => db'.state[adder.block] # None /\ db'.state[Parent[adder.block]] = "verified"
    BY <1>3, <2>1, Descent, Distinct DEF HeadersInv, CleanInv, SoundInv, Verdicts
  <2> QED
    BY <1>1, <1>2, <2>1, <2>2, <2>3, <2>4 DEF HeadersInv, CleanInv
<1> QED
  BY <1>4, <1>5, <1>6, <1>7, <1>8, <1>9 DEF HeadersInv

LEMMA AddBlockInv ==
    ASSUME HeadersInv, NEW b \in Unverified, AddBlock(b)
    PROVE  HeadersInv'
<1>1. /\ adder.pc = "idle" /\ adder' = [pc |-> "verify", block |-> b, todo |-> <<>>]
      /\ KnownState(b) = "notVerified" /\ KnownState(Parent[b]) = "verified"
      /\ byHash' = CachedHash({b, Parent[b]})
      /\ UNCHANGED <<db, undo, byHeight, rolling, tip, faults>>
      /\ b \in Blocks /\ Parent[b] \in Blocks /\ db.state[b] # None
  BY Descent DEF AddBlock, Idle, NextHeaders
<1>2. Cached
  <2>1. byHeight \in [Heights -> Blocks \cup {None}]
    BY DEF HeadersInv, HeadersTypes
  <2> QED
    BY <1>1, <2>1, CachedHashIs DEF Cached
<1>3. HeadersTypes'
  <2>1. adder' \in [pc : {"idle", "verify", "update", "begin", "run"}, block : Blocks, todo : Seq(Statements)]
    BY <1>1
  <2> QED
    BY <1>1, <1>2, <2>1 DEF HeadersInv, HeadersTypes, Cached
<1>4. OpenInv'
  BY <1>1 DEF HeadersInv, OpenInv
<1>5. SoundInv'
  <2>1. ChainOf(Parent[b]) \cap Invalid = {}
    BY <1>1 DEF HeadersInv, SoundInv, Sound, KnownState
  <2> QED
    BY <1>1, <1>2, <2>1, CachedInv DEF HeadersInv, SoundInv
<1>6. BestInv'
  BY <1>1 DEF HeadersInv, BestInv, Committed
<1>7. ChangeInv'
  BY <1>1 DEF ChangeInv
<1>8. CleanInv'
  <2> SUFFICES ASSUME faults = 0 PROVE CleanInv'
    BY <1>1 DEF CleanInv
  <2>1. db.state[Parent[b]] = "verified"
    BY <1>1 DEF HeadersInv, CleanInv, KnownState, Verdicts
  <2> QED
    BY <1>1, <1>2, <2>1, CachedInv DEF HeadersInv, CleanInv, Committed
<1> QED
  BY <1>3, <1>4, <1>5, <1>6, <1>7, <1>8 DEF HeadersInv

LEMMA BeginUpdateInv ==
    ASSUME HeadersInv, BeginUpdate
    PROVE  HeadersInv'
<1>1. /\ adder.pc = "verify" /\ adder' = [adder EXCEPT !.pc = "update"]
      /\ byHash' = [byHash EXCEPT ![adder.block] = None]
      /\ byHeight' = [byHeight EXCEPT ![Height[adder.block]] = None]
      /\ UNCHANGED <<db, undo, rolling, tip, faults>>
  BY DEF BeginUpdate
<1>2. /\ adder'.pc = "update" /\ adder'.block = adder.block
      /\ adder' \in [pc : {"idle", "verify", "update", "begin", "run"}, block : Blocks, todo : Seq(Statements)]
  BY <1>1 DEF HeadersInv, HeadersTypes
<1>3. Cached
  BY <1>1 DEF HeadersInv, HeadersTypes, Cached, States
<1>4. HeadersTypes'
  BY <1>1, <1>2, <1>3 DEF HeadersInv, HeadersTypes, Cached
<1>5. OpenInv'
  BY <1>1, <1>2 DEF HeadersInv, OpenInv
<1>6. SoundInv'
  BY <1>1, <1>2, <1>3, CachedInv DEF HeadersInv, SoundInv
<1>7. BestInv'
  BY <1>1 DEF HeadersInv, BestInv, Committed
<1>8. ChangeInv'
  BY <1>2 DEF ChangeInv
<1>9. CleanInv'
  BY <1>1, <1>2, <1>3, CachedInv DEF HeadersInv, CleanInv, Committed
<1> QED
  BY <1>4, <1>5, <1>6, <1>7, <1>8, <1>9 DEF HeadersInv

\* The tables e with a verdict on b, if it has a row.
Judged(d, e, b, state) ==
    /\ d \in Tables /\ d.best = e.best /\ d.txview = e.txview
    /\ \A c \in Blocks : d.state[c] = IF c = b /\ e.state[b] # None THEN state ELSE e.state[c]

LEMMA WithStateIs ==
    ASSUME db \in Tables, NEW b \in Blocks, NEW state \in Verdicts
    PROVE  Judged(WithState(b, state), db, b, state)
<1>1. db.state \in [Blocks -> States] /\ db = [state |-> db.state, best |-> db.best, txview |-> db.txview]
  BY TablesFacts
<1> DEFINE st == [db.state EXCEPT ![b] = IF @ = None THEN None ELSE state]
<1>2. st \in [Blocks -> States]
  BY <1>1 DEF States
<1>3. WithState(b, state) = [db EXCEPT !.state = st]
  BY <1>1 DEF WithState
<1>4. \A c \in Blocks : st[c] = IF c = b /\ db.state[b] # None THEN state ELSE db.state[c]
  BY <1>1
<1> HIDE DEF st
<1>5. WithState(b, state) \in Tables
  BY <1>2, <1>3, TablesFacts
<1>6. /\ WithState(b, state).best = db.best /\ WithState(b, state).txview = db.txview
      /\ WithState(b, state).state = st
  BY <1>1, <1>3
<1> QED
  BY <1>4, <1>5, <1>6 DEF Judged

LEMMA UpdateInv ==
    ASSUME HeadersInv, Update
    PROVE  HeadersInv'
<1> DEFINE b == adder.block
           verdict == IF b \in Invalid THEN "invalid" ELSE "verified"
<1>1. /\ adder.pc = "update" /\ adder' = Idle /\ UNCHANGED <<undo, byHash, byHeight, rolling, tip>>
      /\ \/ db' = WithState(b, verdict) /\ UNCHANGED faults
         \/ faults' = faults + 1 /\ UNCHANGED db
  BY DEF Update
<1>2. /\ adder'.pc = "idle"
      /\ adder' \in [pc : {"idle", "verify", "update", "begin", "run"}, block : Blocks, todo : Seq(Statements)]
  BY <1>1, Descent DEF Idle
<1>3. /\ HeadersTypes /\ b \in Unverified /\ b \in Blocks /\ Parent[b] \in Blocks
      /\ ChainOf(Parent[b]) \cap Invalid = {} /\ ChainOf(b) = ChainOf(Parent[b]) \cup {b}
      /\ verdict \in Verdicts
  BY <1>1, Descent, ChainIs DEF HeadersInv, SoundInv, Verdicts
<1>4. OpenInv'
  <2>1. faults' = faults \/ faults' = faults + 1
    BY <1>1
  <2> QED
    BY <1>1, <1>2, <1>3, <2>1 DEF HeadersInv, OpenInv, HeadersTypes
<1>5. ChangeInv'
  BY <1>2 DEF ChangeInv
<1>6. ASSUME faults' = faults + 1, UNCHANGED db PROVE HeadersInv'
  <2>1. HeadersTypes' /\ faults' # 0
    BY <1>1, <1>2, <1>3, <1>6 DEF HeadersTypes
  <2>2. SoundInv' /\ BestInv'
    BY <1>1, <1>2, <1>6 DEF HeadersInv, SoundInv, BestInv, Committed
  <2> QED
    BY <1>4, <1>5, <2>1, <2>2 DEF HeadersInv, CleanInv
<1>7. ASSUME db' = WithState(b, verdict), UNCHANGED faults PROVE HeadersInv'
  <2>1. /\ db' \in Tables /\ db'.best = db.best /\ db'.txview = db.txview
        /\ \A c \in Blocks : db'.state[c] = IF c = b /\ db.state[b] # None THEN verdict ELSE db.state[c]
    <3>1. db \in Tables
      BY <1>3 DEF HeadersTypes
    <3> HIDE DEF verdict, b
    <3>2. Judged(WithState(b, verdict), db, b, verdict)
      BY <1>3, <3>1, WithStateIs
    <3> QED
      BY <1>7, <3>2 DEF Judged
  <2>2. HeadersTypes'
    BY <1>1, <1>2, <1>3, <1>7, <2>1 DEF HeadersTypes
  <2>3. SoundInv'
    <3>1. Sound(db'.state)
      BY <1>3, <2>1 DEF HeadersInv, SoundInv, Sound
    <3> QED
      BY <1>1, <1>2, <3>1 DEF HeadersInv, SoundInv
  <2>4. BestInv'
    BY <1>1, <2>1 DEF HeadersInv, BestInv, Committed
  <2>5. CleanInv'
    <3> SUFFICES ASSUME faults = 0 PROVE CleanInv'
      BY <1>7 DEF CleanInv
    <3>1. Closed(db.state) /\ db.state[b] # None /\ db.state[Parent[b]] = "verified" /\ Sound(db.state)
      BY <1>1 DEF HeadersInv, CleanInv, SoundInv
    <3>2. \A c \in Blocks : db.state[c] \in Verdicts => db'.state[c] = db.state[c]
      <4> SUFFICES ASSUME db.state[b] \in Verdicts PROVE verdict = db.state[b]
        BY <2>1
      <4>1. b \in ChainOf(b)
        BY <1>3
      <4> QED
        BY <1>3, <3>1, <4>1 DEF Sound, Verdicts
    <3>3. Closed(db'.state)
      <4>1. db'.state[Parent[b]] = "verified"
        BY <1>3, <3>1, <3>2 DEF Verdicts
      <4>2. db'.state[Genesis] = "verified"
        BY <3>1, <3>2, Descent DEF Closed, Verdicts
      <4>3. ASSUME NEW c \in Unverified, db'.state[c] = "verified" PROVE db'.state[Parent[c]] = "verified"
        <5>1. CASE c = b
          BY <4>1, <5>1
        <5>2. CASE c # b
          <6>1. db.state[c] = "verified"
            BY <2>1, <4>3, <5>2, Descent
          <6>2. db.state[Parent[c]] = "verified"
            BY <3>1, <6>1 DEF Closed
          <6> QED
            BY <3>2, <6>2, Descent DEF Verdicts
        <5> QED
          BY <5>1, <5>2
      <4> QED
        BY <4>2, <4>3 DEF Closed
    <3>4. Committed'.state[tip] = "verified"
      BY <1>1, <1>3, <3>2 DEF HeadersInv, CleanInv, HeadersTypes, Committed, Verdicts
    <3> QED
      BY <1>1, <1>2, <1>7, <2>1, <3>2, <3>3, <3>4 DEF HeadersInv, CleanInv
  <2> QED
    BY <1>4, <1>5, <2>2, <2>3, <2>4, <2>5 DEF HeadersInv
<1> QED
  BY <1>1, <1>6, <1>7

LEMMA ChangeBestInv ==
    ASSUME HeadersInv, ChangeBest
    PROVE  HeadersInv'
<1> DEFINE b == adder.block
           new == Append(Branch[Parent[b]], b)
<1>1. /\ adder.pc = "verify" /\ ~rolling /\ b \notin Invalid /\ Height[b] > Height[tip]
      /\ adder' = [adder EXCEPT !.pc = "begin", !.todo = ChangeBestOps(b)]
      /\ byHash' = CachedHash(ToSet(Branch[Parent[b]]))
      /\ UNCHANGED <<db, undo, byHeight, rolling, tip, faults>>
  BY DEF ChangeBest
<1>2. /\ HeadersTypes /\ b \in Unverified /\ b \in Blocks /\ Parent[b] \in Blocks /\ tip \in Blocks
      /\ undo = None /\ Committed = db /\ Lists(db.best, tip)
  BY <1>1, Descent DEF HeadersInv, SoundInv, HeadersTypes, OpenInv, BestInv, Committed
<1>3. Lead(new, b, tip)
  <2>1. Strand(Branch[Parent[b]], Parent[b], tip)
    BY <1>2, BranchStrand
  <2>2. b \notin ChainOf(tip)
    BY <1>1, <1>2, ChainFacts, HeightFacts
  <2> QED
    BY <1>2, <2>1, <2>2, StrandGrows DEF Lead
<1>4. ChangeBestOps(b) = Plan(new)
  <2>1. Branch[Parent[b]] \in Seq(Unverified)
    BY <1>2, BranchStrand DEF Strand
  <2>2. new[Len(new)] = b
    BY <1>3 DEF Lead, Strand
  <2> QED
    BY <2>2 DEF ChangeBestOps, Plan
<1> HIDE DEF new, b
<1>5. /\ new \in Seq(Unverified) /\ new # <<>> /\ Len(new) \in Nat /\ new \in Seq(Blocks)
      /\ Parent[new[1]] \in Blocks
  <2>1. new \in Seq(Unverified) /\ Len(new) \in Nat /\ Top(new, 0) \in Blocks
    BY <1>2, <1>3, LeadFacts
  <2> QED
    BY <1>3, <2>1, Descent DEF Lead, Top
<1>6. /\ ChangeBestOps(b) \in Seq(Statements) /\ Len(ChangeBestOps(b)) = 2 * Len(new) + 3
      /\ \A i \in 1 .. 2 * Len(new) + 3 : ChangeBestOps(b)[i] = Planned(new, i)
  BY <1>4, <1>5, PlanIs
<1>7. /\ adder'.pc = "begin" /\ adder'.block = b /\ adder'.todo = ChangeBestOps(b)
      /\ adder' \in [pc : {"idle", "verify", "update", "begin", "run"}, block : Blocks, todo : Seq(Statements)]
  BY <1>1, <1>2, <1>6 DEF HeadersTypes, b
<1>8. Cached
  BY <1>1, <1>2, CachedHashIs DEF HeadersTypes, Cached
<1>9. HeadersTypes'
  BY <1>1, <1>2, <1>7, <1>8 DEF HeadersTypes, Cached
<1>10. OpenInv'
  BY <1>1, <1>7 DEF HeadersInv, OpenInv
<1>11. SoundInv'
  BY <1>1, <1>7, <1>8, CachedInv DEF HeadersInv, SoundInv, b
<1>12. BestInv'
  BY <1>1 DEF HeadersInv, BestInv, Committed
<1>13. ChangeInv'
  <2>0. PICK q : q = new
    OBVIOUS
  <2>1. Left(q, 0, adder'.todo) /\ Lead(q, adder'.block, tip')
    BY <1>1, <1>3, <1>5, <1>6, <1>7, <2>0 DEF Left
  <2>2. Under(q, 0)'
    BY <1>7, <2>1 DEF Under
  <2>3. 0 \in Nat
    OBVIOUS
  <2>4. \E n : \E k \in Nat : Under(n, k)'
    BY <2>2, <2>3
  <2> QED
    BY <2>4 DEF ChangeInv
<1>14. CleanInv'
  BY <1>1, <1>7, <1>8, CachedInv DEF HeadersInv, CleanInv, Committed, b
<1> QED
  BY <1>9, <1>10, <1>11, <1>12, <1>13, <1>14 DEF HeadersInv

LEMMA BeginInv ==
    ASSUME HeadersInv, Begin
    PROVE  HeadersInv'
<1>1. /\ adder.pc = "begin" /\ undo' = db /\ adder' = [adder EXCEPT !.pc = "run"]
      /\ UNCHANGED <<db, byHash, byHeight, rolling, tip, faults>>
  BY DEF Begin
<1>2. /\ HeadersTypes /\ db # None /\ undo = None /\ ~rolling /\ Committed = db /\ Committed' = db
  BY <1>1, TablesFacts DEF HeadersInv, HeadersTypes, OpenInv, Committed
<1>3. /\ adder'.pc = "run" /\ adder'.block = adder.block /\ adder'.todo = adder.todo
      /\ adder' \in [pc : {"idle", "verify", "update", "begin", "run"}, block : Blocks, todo : Seq(Statements)]
  BY <1>1, <1>2 DEF HeadersTypes
<1>4. HeadersTypes'
  BY <1>1, <1>2, <1>3 DEF HeadersTypes
<1>5. OpenInv'
  BY <1>1, <1>2, <1>3 DEF HeadersInv, OpenInv
<1>6. SoundInv'
  BY <1>1, <1>2, <1>3 DEF HeadersInv, SoundInv
<1>7. BestInv'
  BY <1>1, <1>2 DEF HeadersInv, BestInv
<1>8. ChangeInv'
  <2>1. PICK new : \E k \in Nat : Under(new, k)
    BY <1>1 DEF HeadersInv, ChangeInv
  <2>2. Under(new, 0)
    BY <1>1, <2>1 DEF Under
  <2>3. Len(new) \in Nat
    BY <1>2, <2>2, LeadFacts DEF Under, HeadersTypes
  <2>4. TxsAt(new, 0) = tip /\ BestAt(new, 0) = tip /\ ~(0 >= Len(new) + 2)
    BY <2>3 DEF TxsAt, BestAt
  <2>5. Under(new, 0)'
    BY <1>1, <1>2, <1>3, <2>2, <2>4 DEF HeadersInv, BestInv, Under, Written, Left, TxsAt, BestAt
  <2>6. 0 \in Nat
    OBVIOUS
  <2>7. \E n : \E k \in Nat : Under(n, k)'
    BY <2>5, <2>6
  <2> QED
    BY <2>7 DEF ChangeInv
<1>9. CleanInv'
  BY <1>1, <1>2, <1>3 DEF HeadersInv, CleanInv
<1> QED
  BY <1>4, <1>5, <1>6, <1>7, <1>8, <1>9 DEF HeadersInv

LEMMA RollbackInv ==
    ASSUME HeadersInv, Rollback
    PROVE  HeadersInv'
<1>1. /\ rolling /\ db' = undo /\ undo' = None /\ rolling' = FALSE
      /\ UNCHANGED <<byHash, byHeight, adder, tip, faults>>
  BY DEF Rollback
<1>2. undo \in Tables /\ undo # None /\ adder.pc \notin {"begin", "run"} /\ faults > 0 /\ faults # 0
  BY <1>1 DEF HeadersInv, HeadersTypes, OpenInv
<1>3. HeadersTypes'
  BY <1>1, <1>2 DEF HeadersInv, HeadersTypes
<1>4. OpenInv'
  BY <1>1, <1>2 DEF OpenInv
<1>5. SoundInv'
  BY <1>1, <1>2 DEF HeadersInv, SoundInv
<1>6. BestInv'
  BY <1>1, <1>2 DEF HeadersInv, BestInv, Committed
<1>7. ChangeInv' /\ CleanInv'
  BY <1>1, <1>2 DEF ChangeInv, CleanInv
<1> QED
  BY <1>3, <1>4, <1>5, <1>6, <1>7 DEF HeadersInv

-----------------------------------------------------------------------------
(* The statements of changeBest: each of them is possible, and makes of the *)
(* tables what the next one needs.                                          *)

Done(d, new, i) ==
    /\ d \in Tables /\ d.txview = RowsOf(TxsAt(new, i)) /\ Lists(d.best, BestAt(new, i))
    /\ \A c \in Blocks : \/ d.state[c] = db.state[c]
                         \/ c = adder.block /\ db.state[c] # None /\ d.state[c] = "verified"
    /\ i = Len(new) + 2 /\ db.state[adder.block] # None => d.state[adder.block] = "verified"

RowSets == SUBSET [tx : UNION {Txs[b] : b \in Blocks}, block : Blocks]

LEMMA TxsChanged ==
    ASSUME NEW d \in Tables, NEW rows \in RowSets
    PROVE  /\ [d EXCEPT !.txview = rows] \in Tables
           /\ [d EXCEPT !.txview = rows].txview = rows
           /\ [d EXCEPT !.txview = rows].best = d.best
           /\ [d EXCEPT !.txview = rows].state = d.state
  BY DEF Tables, RowSets

LEMMA BestChanged ==
    ASSUME NEW d \in Tables, NEW best \in [Heights -> Blocks \cup {None}]
    PROVE  /\ [d EXCEPT !.best = best] \in Tables
           /\ [d EXCEPT !.best = best].best = best
           /\ [d EXCEPT !.best = best].txview = d.txview
           /\ [d EXCEPT !.best = best].state = d.state
  BY DEF Tables

LEMMA DoneIs ==
    ASSUME NEW d, NEW new, NEW i, d \in Tables, d.txview = RowsOf(TxsAt(new, i)), Lists(d.best, BestAt(new, i)),
           d.state = db.state, i # Len(new) + 2
    PROVE  Done(d, new, i)
  BY DEF Done

LEMMA StatementDone ==
    ASSUME HeadersInv, adder.pc = "run", adder.todo # <<>>, NEW new, NEW k \in Nat, Under(new, k)
    PROVE  /\ k + 1 \in 1 .. 2 * Len(new) + 3
           /\ Possible(Head(adder.todo)) /\ Done(Executed(Head(adder.todo)), new, k + 1)
<1> DEFINE b == adder.block
           m == Len(new)
           i == k + 1
           s == Head(adder.todo)
<1>1. /\ HeadersTypes /\ db \in Tables /\ tip \in Blocks /\ b \in Unverified /\ b \in Blocks
      /\ ChainOf(b) \cap Invalid = {} /\ Lead(new, b, tip) /\ Left(new, k, adder.todo) /\ Written(new, k)
      /\ adder.todo \in Seq(Statements)
  <2>1. HeadersTypes /\ SoundInv
    BY DEF HeadersInv
  <2>2. b \in Unverified /\ b \notin Invalid /\ ChainOf(Parent[b]) \cap Invalid = {}
    BY <2>1 DEF SoundInv
  <2> QED
    BY <2>1, <2>2, Higher DEF HeadersTypes, Under
<1>2. /\ m \in Nat /\ m >= 1 /\ new[m] = b /\ Top(new, m) = b
      /\ \A j \in 0 .. m : Top(new, j) \in Blocks /\ ChainOf(Top(new, j)) \subseteq ChainOf(b)
      /\ \A j \in 1 .. m : /\ new[j] \in Unverified /\ Parent[new[j]] = Top(new, j - 1)
                           /\ ChainOf(new[j]) = ChainOf(Top(new, j - 1)) \cup {new[j]}
      /\ Top(new, 0) \in ChainOf(tip)
  BY <1>1, LeadFacts
<1>3. i \in 1 .. 2 * m + 3 /\ i \in Nat /\ i - 1 = k /\ s = Planned(new, i)
  <2>1. Len(adder.todo) \in Nat /\ Len(adder.todo) >= 1 /\ s = adder.todo[1]
    BY <1>1, PositiveLength
  <2>2. Len(adder.todo) = 2 * m + 3 - k /\ \A j \in 1 .. Len(adder.todo) : adder.todo[j] = Planned(new, k + j)
    BY <1>1 DEF Left
  <2>3. 1 \in 1 .. Len(adder.todo)
    BY <2>1
  <2>4. adder.todo[1] = Planned(new, k + 1)
    BY <2>2, <2>3
  <2> DEFINE l == Len(adder.todo)
  <2>5. l \in Nat /\ l >= 1 /\ l = 2 * m + 3 - k /\ m \in Nat
    BY <1>2, <2>1, <2>2
  <2> HIDE DEF l, m
  <2>6. k + 1 \in 1 .. 2 * m + 3 /\ k + 1 \in Nat /\ (k + 1) - 1 = k
    BY <2>5
  <2> QED
    BY <2>1, <2>4, <2>6
<1>4. /\ db.txview = RowsOf(TxsAt(new, k)) /\ Lists(db.best, BestAt(new, k))
      /\ db.txview \subseteq [tx : UNION {Txs[c] : c \in Blocks}, block : Blocks]
      /\ db.best \in [Heights -> Blocks \cup {None}]
      /\ \A c \in Blocks : Rows(c) \subseteq [tx : UNION {Txs[d] : d \in Blocks}, block : Blocks]
  BY <1>1 DEF Written, Tables, Rows
<1> HIDE DEF b, m, i, s
<1>5. CASE i = 1
  <2>1. /\ s.op = "removeTxs" /\ s.block = Top(new, 0)
        /\ k = 0 /\ i <= m + 1 /\ i # 0 /\ i - 1 = 0 /\ i <= m + 2 /\ k <= m + 2 /\ i # m + 2
    BY <1>2, <1>3, <1>5 DEF Planned, Statement
  <2>2. TxsAt(new, k) = tip /\ TxsAt(new, i) = Top(new, 0) /\ BestAt(new, k) = tip /\ BestAt(new, i) = tip
    BY <2>1 DEF TxsAt, BestAt, m
  <2> DEFINE rows == {r \in db.txview : Height[r.block] <= Height[s.block]}
  <2>3. Executed(s) = [db EXCEPT !.txview = rows] /\ Possible(s)
    BY <2>1 DEF Executed, Possible
  <2>4. rows = RowsOf(Top(new, 0))
    BY <1>1, <1>2, <1>4, <2>1, <2>2, TxsRemoved
  <2>5. rows \in RowSets
    BY <1>4 DEF RowSets
  <2> HIDE DEF rows
  <2> DEFINE d == Executed(s)
  <2>6. d \in Tables /\ d.txview = rows /\ d.best = db.best /\ d.state = db.state
    BY <1>1, <2>3, <2>5, TxsChanged
  <2> HIDE DEF d
  <2>7. i # Len(new) + 2
    BY <2>1 DEF m
  <2>8. Done(d, new, i)
    BY <1>4, <2>2, <2>4, <2>6, <2>7, DoneIs
  <2> QED
    BY <1>3, <2>3, <2>8 DEF d, i, s, m
<1>6. CASE i # 1 /\ i <= m + 1
  <2> DEFINE j == i - 1
             c == new[j]
  <2>1. /\ s.op = "addTxs" /\ s.block = c /\ j \in 1 .. m /\ j \in Nat /\ j # 0 /\ k - 1 = j - 1
        /\ k # 0 /\ k <= m + 1 /\ i # 0 /\ i <= m + 2 /\ k <= m + 2 /\ i # m + 2
    BY <1>2, <1>3, <1>6 DEF Planned, Statement, m
  <2> HIDE DEF j
  <2>2. TxsAt(new, k) = Top(new, j - 1) /\ TxsAt(new, i) = c /\ BestAt(new, k) = tip /\ BestAt(new, i) = tip
    BY <1>3, <1>6, <2>1 DEF TxsAt, BestAt, m, j, Top
  <2>3. /\ c \in Unverified /\ c \in Blocks /\ Parent[c] = Top(new, j - 1)
        /\ ChainOf(c) = ChainOf(Top(new, j - 1)) \cup {c} /\ ChainOf(c) \subseteq ChainOf(b)
    BY <1>2, <2>1, Descent DEF Top
  <2> HIDE DEF c
  <2> DEFINE rows == db.txview \cup Rows(c)
  <2>4. Executed(s) = [db EXCEPT !.txview = rows]
    BY <1>1, <2>1 DEF Executed, Tables
  <2>5. Possible(s)
    BY <1>1, <1>4, <2>1, <2>2, <2>3, TxsNew DEF Possible
  <2>6. rows = RowsOf(c)
    BY <1>4, <2>2, <2>3, TxsAdded
  <2>7. rows \in RowSets
    BY <1>4, <2>3 DEF RowSets
  <2> HIDE DEF rows
  <2> DEFINE d == Executed(s)
  <2>8. d \in Tables /\ d.txview = rows /\ d.best = db.best /\ d.state = db.state
    BY <1>1, <2>4, <2>7, TxsChanged
  <2> HIDE DEF d
  <2>9. i # Len(new) + 2
    BY <2>1 DEF m
  <2>10. Done(d, new, i)
    BY <1>4, <2>2, <2>6, <2>8, <2>9, DoneIs
  <2> QED
    BY <1>3, <2>5, <2>10 DEF d, i, s, m
<1>7. CASE i = m + 2
  <2>1. /\ s.op = "verified" /\ s.block = b /\ k # 0 /\ k <= m + 1 /\ k - 1 = m /\ i # 0
        /\ ~(i <= m + 1) /\ i <= m + 2 /\ k <= m + 2
    <3>1. i # 1 /\ ~(i <= m + 1)
      BY <1>2, <1>3, <1>7
    <3> QED
      BY <1>2, <1>3, <1>7, <3>1 DEF Planned, Statement, m
  <2>2. TxsAt(new, k) = b /\ TxsAt(new, i) = b /\ BestAt(new, k) = tip /\ BestAt(new, i) = tip
    BY <1>2, <2>1 DEF TxsAt, BestAt, m
  <2>3. Executed(s) = WithState(b, "verified") /\ Possible(s)
    BY <2>1 DEF Executed, Possible
  <2>4. Judged(WithState(b, "verified"), db, b, "verified")
    BY <1>1, WithStateIs DEF Verdicts
  <2> QED
    BY <1>1, <1>3, <1>4, <2>2, <2>3, <2>4 DEF Done, Judged, i, s, b, m
<1>8. CASE i = m + 3
  <2>1. /\ s.op = "cutBest" /\ s.block = Top(new, 0) /\ k # 0 /\ ~(k <= m + 1) /\ k <= m + 2 /\ i # 0
        /\ ~(i <= m + 1) /\ ~(i <= m + 2) /\ i - m - 3 = 0 /\ i # m + 2
    <3>1. i # 1 /\ ~(i <= m + 1) /\ i # m + 2
      BY <1>2, <1>3, <1>8
    <3> QED
      BY <1>2, <1>3, <1>8, <3>1 DEF Planned, Statement, m
  <2>2. TxsAt(new, k) = b /\ TxsAt(new, i) = b /\ BestAt(new, k) = tip /\ BestAt(new, i) = Top(new, 0)
    BY <1>2, <2>1 DEF TxsAt, BestAt, m
  <2> DEFINE cut == [n \in Heights |-> IF n > Height[s.block] THEN None ELSE db.best[n]]
  <2>3. Executed(s) = [db EXCEPT !.best = cut] /\ Possible(s)
    BY <1>1, <2>1 DEF Executed, Possible, Tables
  <2>4. Lists(cut, Top(new, 0))
    BY <1>1, <1>2, <1>4, <2>1, <2>2, BestCut
  <2>5. cut \in [Heights -> Blocks \cup {None}]
    BY <2>4 DEF Lists
  <2> HIDE DEF cut
  <2> DEFINE d == Executed(s)
  <2>6. d \in Tables /\ d.txview = db.txview /\ d.best = cut /\ d.state = db.state
    BY <1>1, <2>3, <2>5, BestChanged
  <2> HIDE DEF d
  <2>7. i # Len(new) + 2
    BY <2>1 DEF m
  <2>8. Done(d, new, i)
    BY <1>4, <2>2, <2>4, <2>6, <2>7, DoneIs
  <2> QED
    BY <1>3, <2>3, <2>8 DEF d, i, s, m
<1>9. CASE i > m + 3
  <2> DEFINE j == i - m - 3
             c == new[j]
  <2>1. /\ s.op = "extendBest" /\ s.block = c /\ j \in 1 .. m /\ j \in Nat /\ j # 0 /\ k - m - 3 = j - 1
        /\ k # 0 /\ ~(k <= m + 1) /\ ~(k <= m + 2) /\ i # 0 /\ ~(i <= m + 1) /\ ~(i <= m + 2) /\ i # m + 2
    <3>1. i # 1 /\ ~(i <= m + 1) /\ i # m + 2 /\ i # m + 3
      BY <1>2, <1>3, <1>9
    <3> QED
      BY <1>2, <1>3, <1>9, <3>1 DEF Planned, Statement, m
  <2> HIDE DEF j
  <2>2. TxsAt(new, k) = b /\ TxsAt(new, i) = b /\ BestAt(new, k) = Top(new, j - 1) /\ BestAt(new, i) = c
    BY <1>2, <1>3, <2>1 DEF TxsAt, BestAt, m, j, Top
  <2>3. c \in Unverified /\ c \in Blocks /\ Parent[c] = Top(new, j - 1) /\ Height[c] \in Heights
    BY <1>2, <2>1, Descent, HeightFacts
  <2> HIDE DEF c
  <2> DEFINE more == [db.best EXCEPT ![Height[c]] = c]
  <2>4. Executed(s) = [db EXCEPT !.best = more]
    BY <1>1, <2>1 DEF Executed, Tables
  <2>5. db.best[Height[c]] = None /\ Lists(more, c)
    <3>1. Lists(db.best, Parent[c]) /\ db.best \in [Heights -> Blocks \cup {None}]
      BY <1>4, <2>2, <2>3
    <3>2. c \in Unverified
      BY <2>3
    <3> QED
      BY <3>1, <3>2, BestExtended
  <2>6. Possible(s)
    BY <2>1, <2>5 DEF Possible
  <2>7. more \in [Heights -> Blocks \cup {None}]
    BY <2>5 DEF Lists
  <2> HIDE DEF more
  <2> DEFINE d == Executed(s)
  <2>8. d \in Tables /\ d.txview = db.txview /\ d.best = more /\ d.state = db.state
    BY <1>1, <2>4, <2>7, BestChanged
  <2> HIDE DEF d
  <2>9. i # Len(new) + 2
    BY <2>1 DEF m
  <2>10. Done(d, new, i)
    BY <1>4, <2>2, <2>5, <2>8, <2>9, DoneIs
  <2> QED
    BY <1>3, <2>6, <2>10 DEF d, i, s, m
<1>10. i = 1 \/ (i # 1 /\ i <= m + 1) \/ i = m + 2 \/ i = m + 3 \/ i > m + 3
  BY <1>2, <1>3
<1> QED
  BY <1>5, <1>6, <1>7, <1>8, <1>9, <1>10

\* A transaction that fails leaves its tables to a ROLLBACK.
LEMMA FailInv ==
    ASSUME HeadersInv, adder.pc = "run", Fail, faults' = faults + 1
    PROVE  HeadersInv'
<1>1. rolling' = TRUE /\ adder' = Idle /\ UNCHANGED <<db, undo, byHash, byHeight, tip>>
  BY DEF Fail
<1>2. /\ adder'.pc = "idle"
      /\ adder' \in [pc : {"idle", "verify", "update", "begin", "run"}, block : Blocks, todo : Seq(Statements)]
  BY <1>1, Descent DEF Idle
<1>3. HeadersTypes' /\ faults' > 0 /\ faults' # 0
  BY <1>1, <1>2 DEF HeadersInv, HeadersTypes
<1>4. OpenInv'
  BY <1>1, <1>2, <1>3 DEF HeadersInv, OpenInv
<1>5. SoundInv'
  BY <1>1, <1>2 DEF HeadersInv, SoundInv
<1>6. BestInv'
  BY <1>1 DEF HeadersInv, BestInv, Committed
<1>7. ChangeInv' /\ CleanInv'
  BY <1>2, <1>3 DEF ChangeInv, CleanInv
<1> QED
  BY <1>3, <1>4, <1>5, <1>6, <1>7 DEF HeadersInv

LEMMA RunStatementInv ==
    ASSUME HeadersInv, RunStatement
    PROVE  HeadersInv'
<1>1. adder.pc = "run" /\ adder.todo # <<>>
  BY DEF RunStatement
<1>2. PICK new : \E k \in Nat : Under(new, k)
  BY <1>1 DEF HeadersInv, ChangeInv
<1>3. PICK k \in Nat : Under(new, k)
  BY <1>2
<1> DEFINE s == Head(adder.todo)
           b == adder.block
<1>4. k + 1 \in 1 .. 2 * Len(new) + 3 /\ Possible(s) /\ Done(Executed(s), new, k + 1)
  BY <1>1, <1>3, StatementDone
<1>5. CASE faults' = faults + 1 /\ Fail
  BY <1>1, <1>5, FailInv
<1>6. ASSUME db' = Executed(s), adder' = [adder EXCEPT !.todo = Tail(@)],
             UNCHANGED <<undo, byHash, byHeight, lock, rolling, tip, faults>>
      PROVE  HeadersInv'
  <2>1. /\ HeadersTypes /\ b \in Unverified /\ b \in Blocks /\ undo # None /\ ~rolling
        /\ b \notin Invalid /\ ChainOf(Parent[b]) \cap Invalid = {} /\ ChainOf(b) \cap Invalid = {}
    <3>1. HeadersTypes /\ b \in Unverified /\ b \notin Invalid /\ ChainOf(Parent[b]) \cap Invalid = {}
      BY <1>1 DEF HeadersInv, SoundInv
    <3> QED
      BY <1>1, <3>1, Higher DEF HeadersInv, OpenInv
  <2>2. /\ adder'.pc = "run" /\ adder'.block = b /\ adder'.todo = Tail(adder.todo)
        /\ adder' \in [pc : {"idle", "verify", "update", "begin", "run"}, block : Blocks, todo : Seq(Statements)]
    <3>1. adder \in [pc : {"idle", "verify", "update", "begin", "run"}, block : Blocks, todo : Seq(Statements)]
      BY <2>1 DEF HeadersTypes
    <3>2. adder' = [adder EXCEPT !.todo = Tail(adder.todo)]
      BY <1>6
    <3>3. Tail(adder.todo) \in Seq(Statements)
      BY <1>1, <3>1
    <3> QED
      BY <1>1, <3>1, <3>2, <3>3
  <2>3. Done(db', new, k + 1)
    BY <1>4, <1>6
  <2>4. /\ db' \in Tables
        /\ \A c \in Blocks : \/ db'.state[c] = db.state[c]
                             \/ c = b /\ db.state[c] # None /\ db'.state[c] = "verified"
    BY <2>3 DEF Done
  <2>5. HeadersTypes'
    BY <1>6, <2>1, <2>2, <2>4 DEF HeadersTypes
  <2>6. OpenInv'
    BY <1>1, <1>6, <2>2 DEF HeadersInv, OpenInv
  <2>7. SoundInv'
    <3>1. Sound(db'.state)
      BY <2>1, <2>4 DEF HeadersInv, SoundInv, Sound
    <3> QED
      BY <1>1, <1>6, <2>2, <3>1 DEF HeadersInv, SoundInv
  <2>8. BestInv'
    BY <1>6, <2>1 DEF HeadersInv, BestInv, Committed
  <2>9. ASSUME faults = 0
        PROVE  /\ db.state[b] # None /\ Closed(db'.state)
               /\ \A c \in Blocks : db.state[c] \in Verdicts => db'.state[c] = db.state[c]
    <3>1. Closed(db.state) /\ db.state[b] # None /\ db.state[Parent[b]] = "verified" /\ Sound(db.state)
      BY <1>1, <2>9 DEF HeadersInv, CleanInv, SoundInv
    <3>2. \A c \in Blocks : db.state[c] \in Verdicts => db'.state[c] = db.state[c]
      BY <2>1, <2>4, <3>1 DEF Sound, Verdicts
    <3>3. Closed(db'.state)
      BY <2>4, <3>1, <3>2, Descent DEF Closed, Verdicts
    <3> QED
      BY <3>1, <3>2, <3>3
  <2>10. ChangeInv'
    <3>1. Left(new, k, adder.todo) /\ Lead(new, b, tip) /\ Written(new, k) /\ Len(new) \in Nat
      BY <1>1, <1>3, <2>1, LeadFacts DEF Under, HeadersTypes
    <3>2. Left(new, k + 1, adder'.todo)
      <4>1. adder.todo \in Seq(Statements) /\ Len(adder.todo) \in Nat
        BY <2>1 DEF HeadersTypes
      <4>2. /\ Len(Tail(adder.todo)) = Len(adder.todo) - 1
            /\ \A j \in 1 .. Len(adder.todo) - 1 : Tail(adder.todo)[j] = adder.todo[j + 1]
        BY <1>1, <4>1
      <4>3. Len(adder.todo) = 2 * Len(new) + 3 - k /\ \A j \in 1 .. Len(adder.todo) : adder.todo[j] = Planned(new, k + j)
        BY <3>1 DEF Left
      <4>4. Len(Tail(adder.todo)) = 2 * Len(new) + 3 - (k + 1)
        <5> DEFINE l == Len(adder.todo)
                   t == Len(Tail(adder.todo))
                   m == Len(new)
        <5>1. l \in Nat /\ m \in Nat /\ t = l - 1 /\ l = 2 * m + 3 - k
          BY <3>1, <4>1, <4>2, <4>3
        <5> HIDE DEF l, t, m
        <5>2. t = 2 * m + 3 - (k + 1)
          BY <5>1
        <5> QED
          BY <5>2 DEF t, m
      <4>5. ASSUME NEW j \in 1 .. Len(Tail(adder.todo)) PROVE Tail(adder.todo)[j] = Planned(new, (k + 1) + j)
        <5>1. j \in 1 .. Len(adder.todo) - 1 /\ j + 1 \in 1 .. Len(adder.todo) /\ k + (j + 1) = (k + 1) + j
          BY <4>1, <4>2
        <5> QED
          BY <4>2, <4>3, <5>1
      <4>6. k + 1 \in 0 .. 2 * Len(new) + 3
        BY <1>4, <3>1
      <4> QED
        BY <2>2, <4>4, <4>5, <4>6 DEF Left
    <3>3. k + 1 >= Len(new) + 2 /\ faults = 0 => db'.state[b] = "verified"
      <4> SUFFICES ASSUME k + 1 >= Len(new) + 2, faults = 0 PROVE db'.state[b] = "verified"
        OBVIOUS
      <4>1. CASE k + 1 = Len(new) + 2
        BY <2>3, <2>9, <4>1 DEF Done
      <4>2. CASE k + 1 # Len(new) + 2
        <5>1. k >= Len(new) + 2
          BY <3>1, <4>2
        <5> QED
          BY <2>1, <2>9, <3>1, <5>1 DEF Written, Verdicts
      <4> QED
        BY <4>1, <4>2
    <3>4. Under(new, k + 1)'
      BY <1>6, <2>2, <2>3, <3>1, <3>2, <3>3 DEF Under, Written, Done, TxsAt, BestAt
    <3>5. k + 1 \in Nat
      OBVIOUS
    <3>6. \E n : \E l \in Nat : Under(n, l)'
      BY <3>4, <3>5
    <3> QED
      BY <3>6 DEF ChangeInv
  <2>11. CleanInv'
    <3> SUFFICES ASSUME faults = 0 PROVE CleanInv'
      BY <1>6 DEF CleanInv
    <3>1. /\ db'.state[Parent[b]] = "verified" /\ db'.state[b] # None
          /\ \A c \in Blocks : byHash[c] \in Verdicts => db'.state[c] = byHash[c]
      BY <1>1, <2>1, <2>4, <2>9, Descent, Distinct DEF HeadersInv, CleanInv, Verdicts
    <3> QED
      BY <1>6, <2>1, <2>2, <2>9, <3>1 DEF HeadersInv, CleanInv, Committed
  <2> QED
    BY <2>5, <2>6, <2>7, <2>8, <2>10, <2>11 DEF HeadersInv
<1> QED
  BY <1>4, <1>5, <1>6 DEF RunStatement

LEMMA CommitInv ==
    ASSUME HeadersInv, Commit
    PROVE  HeadersInv'
<1> DEFINE b == adder.block
<1>1. adder.pc = "run" /\ adder.todo = <<>>
  BY DEF Commit
<1>2. CASE faults' = faults + 1 /\ Fail
  BY <1>1, <1>2, FailInv
<1>3. ASSUME undo' = None, byHash' = [byHash EXCEPT ![adder.block] = None], byHeight' = [n \in Heights |-> None],
             tip' = adder.block, adder' = Idle, UNCHANGED <<db, rolling, faults>>
      PROVE  HeadersInv'
  <2>1. HeadersTypes /\ b \in Blocks /\ db \in Tables /\ tip \in Blocks /\ ~rolling
    BY <1>1 DEF HeadersInv, HeadersTypes, OpenInv
  <2>2. PICK new : \E k \in Nat : Under(new, k)
    BY <1>1 DEF HeadersInv, ChangeInv
  <2>3. PICK k \in Nat : Under(new, k)
    BY <2>2
  <2>4. Len(new) \in Nat /\ Len(new) >= 1 /\ Top(new, Len(new)) = b
    BY <2>1, <2>3, LeadFacts DEF Under
  <2>5. k = 2 * Len(new) + 3
    <3>1. 0 = 2 * Len(new) + 3 - k
      BY <1>1, <2>3 DEF Under, Left
    <3> QED
      BY <2>4, <3>1
  <2>6. TxsAt(new, k) = b /\ BestAt(new, k) = b /\ k >= Len(new) + 2
    <3>1. k # 0 /\ ~(k <= Len(new) + 1) /\ ~(k <= Len(new) + 2) /\ k - Len(new) - 3 = Len(new) /\ k >= Len(new) + 2
      BY <2>4, <2>5
    <3> QED
      BY <2>4, <3>1 DEF TxsAt, BestAt
  <2>7. db.txview = RowsOf(b) /\ Lists(db.best, b) /\ (faults = 0 => db.state[b] = "verified")
    BY <1>1, <2>3, <2>6 DEF Under, Written
  <2>8. /\ adder'.pc = "idle"
        /\ adder' \in [pc : {"idle", "verify", "update", "begin", "run"}, block : Blocks, todo : Seq(Statements)]
    BY <1>3, Descent DEF Idle
  <2>9. Cached /\ \A n \in Heights : byHeight'[n] = None
    BY <1>3, <2>1 DEF HeadersTypes, Cached, States
  <2>10. HeadersTypes'
    BY <1>3, <2>1, <2>8, <2>9 DEF HeadersTypes, Cached
  <2>11. OpenInv'
    BY <1>3, <2>1, <2>8 DEF OpenInv
  <2>12. SoundInv'
    BY <1>3, <2>8, <2>9, CachedInv DEF HeadersInv, SoundInv
  <2>13. Committed' = db
    BY <1>3 DEF Committed
  <2>14. BestInv'
    BY <1>3, <2>7, <2>13 DEF BestInv
  <2>15. ChangeInv'
    BY <2>8 DEF ChangeInv
  <2>16. CleanInv'
    <3>1. ASSUME faults = 0 PROVE \A c \in Blocks : byHash'[c] \in Verdicts => db.state[c] = byHash'[c]
      BY <2>9, <3>1, CachedInv
    <3> HIDE DEF b
    <3> QED
      BY <1>3, <2>7, <2>8, <2>9, <2>13, <3>1 DEF HeadersInv, CleanInv, b
  <2> QED
    BY <2>10, <2>11, <2>12, <2>14, <2>15, <2>16 DEF HeadersInv
<1> QED
  BY <1>2, <1>3 DEF Commit

LEMMA HeadersNextInv == HeadersInv /\ [HeadersNext]_headerVars => HeadersInv'
<1> SUFFICES ASSUME HeadersInv, [HeadersNext]_headerVars PROVE HeadersInv'
  OBVIOUS
<1>1. CASE UNCHANGED headerVars
  <2>1. Cached
    BY <1>1 DEF HeadersInv, HeadersTypes, Cached, headerVars
  <2> QED
    BY <1>1, <2>1, ReadInv DEF headerVars
<1>2. CASE HeadersNext
  BY <1>2, ReadsInv, SaveHeaderInv, AddBlockInv, ChangeBestInv, BeginUpdateInv, UpdateInv, BeginInv,
     RunStatementInv, CommitInv, RollbackInv DEF HeadersNext, Verdict, Database
<1> QED
  BY <1>1, <1>2

LEMMA HeadersInvariant == HeadersSpec => []HeadersInv
  BY HeadersInitInv, HeadersNextInv, PTL DEF HeadersSpec

\* As long as no statement failed, every block of the best chain is verified.
LEMMA ClosedChain ==
    ASSUME NEW state, Closed(state)
    PROVE  \A b \in Blocks : state[b] = "verified" => \A c \in ChainOf(b) : state[c] = "verified"
<1> DEFINE D == {b \in Blocks : ~(state[b] = "verified" => \A c \in ChainOf(b) : state[c] = "verified")}
<1>1. SUFFICES ASSUME D # {} PROVE FALSE
  OBVIOUS
<1>2. D \in SUBSET Blocks /\ Genesis \notin D
  BY ChainIs
<1>3. PICK b \in D : b \in Unverified /\ Parent[b] \notin D
  <2> HIDE DEF D
  <2> QED
    BY <1>1, <1>2, Descent
<1>4. state[b] = "verified" /\ state[Parent[b]] = "verified" /\ Parent[b] \in Blocks
  BY <1>3, Descent DEF Closed
<1> QED
  BY <1>3, <1>4, ChainIs

(* The committed best chain and the transaction view are those of the tip,  *)
(* after every change of fork and after every failure.                      *)
THEOREM BestViewsKept == HeadersSpec => []BestViewsAgree
<1>1. HeadersInv => BestViewsAgree
  <2> SUFFICES ASSUME HeadersInv PROVE BestViewsAgree
    OBVIOUS
  <2>1. Lists(Committed.best, tip) /\ tip \in Blocks /\ Committed.txview = RowsOf(tip)
    BY DEF HeadersInv, BestInv, HeadersTypes
  <2>2. ChainOf(tip) = {Committed.best[n] : n \in Heights} \ {None}
    <3>1. \A c \in ChainOf(tip) : Height[c] \in Heights /\ c # None
      BY <2>1, ChainFacts, HeightFacts, Distinct
    <3> QED
      BY <2>1, <3>1 DEF Lists
  <2>3. \A n \in Heights : Committed.best[n] # None => Height[Committed.best[n]] = n
    BY <2>1 DEF Lists
  <2>4. ASSUME faults = 0
        PROVE  \A n \in Heights : Committed.best[n] # None => Committed.state[Committed.best[n]] = "verified"
    <3>1. Closed(Committed.state) /\ Committed.state[tip] = "verified"
      BY <2>4 DEF HeadersInv, CleanInv, Committed
    <3> QED
      BY <2>1, <3>1, ClosedChain DEF Lists
  <2> QED
    BY <2>1, <2>2, <2>3, <2>4 DEF BestViewsAgree, BestIsChain, TxViewIsBest, RowsOf
<1> QED
  BY <1>1, HeadersInvariant, PTL

(* As long as no statement failed, the caches never run ahead of the tables.*)
THEOREM CachesBehind == HeadersSpec => []CacheNotAhead
<1>1. HeadersInv => CacheNotAhead
  BY DEF HeadersInv, CleanInv, CacheNotAhead, Verdicts
<1> QED
  BY <1>1, HeadersInvariant, PTL

-----------------------------------------------------------------------------
(* The cache.  Its list is no list: a node that was touched keeps the prev  *)
(* it had, so prev and next may disagree and even form cycles.  What holds  *)
(* is that only the head has no prev, and so that the tail can be unlinked. *)

CacheTypes ==
    /\ mapped \in SUBSET ListNodes
    /\ link \in [head : Pointers, tail : Pointers, count : Nat,
                 next : [ListNodes -> Pointers], prev : [ListNodes -> Pointers]]
    /\ made \in 0 .. MaxNodes
    /\ broken \in BOOLEAN /\ removed \in BOOLEAN

\* Pointers lead from nodes of keys to nodes of keys.
Inside(l, S) ==
    /\ l.head \in S \cup {Null} /\ l.tail \in S \cup {Null}
    /\ \A n \in S : l.next[n] \in S \cup {Null} /\ l.prev[n] \in S \cup {Null}

\* Only the head has no prev.
HeadOnly(l, S) == \A n \in S : l.prev[n] = Null => n = l.head

\* The list that addToHead and remove work on, whose nodes are S.
Listed(l, S) ==
    /\ Inside(l, S)
    /\ l.count > 0 => l.tail # Null
    /\ l.count <= 1 \/ l.count <= MaxCount
    /\ MaxCount >= 2 => HeadOnly(l, S) /\ (l.count >= 2 => l.prev[l.tail] # Null)

CacheInv ==
    /\ CacheTypes
    /\ mapped \subseteq 1 .. made
    /\ Inside(link, 1 .. made)
    /\ \A n \in ListNodes : n > made => link.prev[n] = Null
    /\ ~removed => ~broken /\ Listed(link, mapped)

LinkType == [head : Pointers, tail : Pointers, count : Nat,
             next : [ListNodes -> Pointers], prev : [ListNodes -> Pointers]]

LEMMA UnlinkedType ==
    ASSUME NEW l \in LinkType, NEW n \in ListNodes
    PROVE  /\ Unlinked(l, n) \in LinkType
           /\ Unlinked(l, n).count = IF l.count = 0 THEN 0 ELSE l.count - 1
<1> USE CacheAssumption DEF LinkType, Pointers, ListNodes
<1>1. CASE l.count = 0
  BY <1>1 DEF Unlinked
<1>2. CASE l.count # 0
  <2>1. l.count - 1 \in Nat
    BY <1>2
  <2>2. l.prev[n] \in Pointers /\ l.next[n] \in Pointers
    OBVIOUS
  <2> QED
    BY <1>2, <2>1, <2>2 DEF Unlinked
<1> QED
  BY <1>1, <1>2

LEMMA AtHeadType ==
    ASSUME NEW l \in LinkType, NEW n \in ListNodes
    PROVE  /\ AtHead(l, n) \in LinkType
           /\ AtHead(l, n).count = l.count + 1
  BY CacheAssumption DEF LinkType, Pointers, ListNodes, AtHead

\* Both operations keep the pointers among the nodes S, and touch no other prev.
LEMMA UnlinkedInside ==
    ASSUME NEW l \in LinkType, NEW S \in SUBSET ListNodes, NEW n \in S, Inside(l, S)
    PROVE  /\ Inside(Unlinked(l, n), S)
           /\ \A m \in ListNodes \ S : Unlinked(l, n).prev[m] = l.prev[m]
<1> DEFINE u == Unlinked(l, n)
<1>1. l.count = 0 => u = l
  BY DEF Unlinked
<1>2. l.count # 0 =>
         /\ u.head = IF l.head = n THEN l.next[n] ELSE l.head
         /\ u.tail = IF l.tail = n THEN l.prev[n] ELSE l.tail
         /\ u.next = IF l.prev[n] = Null THEN l.next ELSE [l.next EXCEPT ![l.prev[n]] = l.next[n]]
         /\ u.prev = IF l.next[n] = Null THEN l.prev ELSE [l.prev EXCEPT ![l.next[n]] = l.prev[n]]
  BY DEF Unlinked
<1>3. n \in ListNodes /\ n # Null /\ S \subseteq ListNodes /\ Null \notin S
  BY CacheAssumption DEF ListNodes
<1>4. l.prev \in [ListNodes -> Pointers] /\ l.next \in [ListNodes -> Pointers]
  BY DEF LinkType
<1> HIDE DEF u
<1>5. CASE l.count = 0
  BY <1>1, <1>5 DEF u
<1>6. CASE l.count # 0
  <2>1. Inside(u, S)
    BY <1>2, <1>3, <1>4, <1>6 DEF Inside
  <2>2. \A m \in ListNodes \ S : u.prev[m] = l.prev[m]
    BY <1>2, <1>3, <1>4, <1>6 DEF Inside
  <2> QED
    BY <2>1, <2>2 DEF u
<1> QED
  BY <1>5, <1>6

LEMMA AtHeadInside ==
    ASSUME NEW l \in LinkType, NEW S \in SUBSET ListNodes, NEW n \in ListNodes,
           Inside(l, S), n \in S \/ l.prev[n] = Null
    PROVE  /\ Inside(AtHead(l, n), S \cup {n})
           /\ \A m \in ListNodes \ S : AtHead(l, n).prev[m] = l.prev[m]
<1> DEFINE v == AtHead(l, n)
           T == S \cup {n}
<1>1. /\ v.head = n /\ v.tail = IF l.count = 0 THEN n ELSE l.tail
      /\ v.next = [l.next EXCEPT ![n] = l.head]
      /\ v.prev = IF l.head = Null THEN l.prev ELSE [l.prev EXCEPT ![l.head] = n]
  BY DEF AtHead
<1>2. n \in ListNodes /\ n # Null /\ S \subseteq ListNodes /\ Null \notin S /\ n \in T
  BY CacheAssumption DEF ListNodes
<1>3. l.prev \in [ListNodes -> Pointers] /\ l.next \in [ListNodes -> Pointers]
  BY DEF LinkType
<1> HIDE DEF v
<1>4. v.head \in T \cup {Null} /\ v.tail \in T \cup {Null}
  BY <1>1, <1>2 DEF Inside
<1>5. \A m \in S : v.next[m] \in T \cup {Null} /\ v.prev[m] \in T \cup {Null}
  BY <1>1, <1>2, <1>3 DEF Inside
<1>6. v.next[n] \in T \cup {Null} /\ v.prev[n] \in T \cup {Null}
  BY <1>1, <1>2, <1>3 DEF Inside
<1>7. \A m \in ListNodes \ S : v.prev[m] = l.prev[m]
  BY <1>1, <1>2, <1>3 DEF Inside
<1>8. Inside(v, T)
  BY <1>4, <1>5, <1>6 DEF Inside
<1> QED
  BY <1>7, <1>8 DEF v

LEMMA TouchedListed ==
    ASSUME NEW l \in LinkType, NEW S \in SUBSET ListNodes, NEW n \in S, Listed(l, S)
    PROVE  Listed(AtHead(Unlinked(l, n), n), S)
<1> DEFINE u == Unlinked(l, n)
           v == AtHead(u, n)
<1>1. u \in LinkType /\ u.count = IF l.count = 0 THEN 0 ELSE l.count - 1
  BY UnlinkedType
<1>2. /\ v.head = n /\ v.tail = IF u.count = 0 THEN n ELSE u.tail
      /\ v.count = u.count + 1
      /\ v.next = [u.next EXCEPT ![n] = u.head]
      /\ v.prev = IF u.head = Null THEN u.prev ELSE [u.prev EXCEPT ![u.head] = n]
  BY DEF AtHead
<1>3. l.count = 0 => u = l
  BY DEF Unlinked
<1>4. l.count # 0 =>
         /\ u.head = IF l.head = n THEN l.next[n] ELSE l.head
         /\ u.tail = IF l.tail = n THEN l.prev[n] ELSE l.tail
         /\ u.next = IF l.prev[n] = Null THEN l.next ELSE [l.next EXCEPT ![l.prev[n]] = l.next[n]]
         /\ u.prev = IF l.next[n] = Null THEN l.prev ELSE [l.prev EXCEPT ![l.next[n]] = l.prev[n]]
  BY DEF Unlinked
<1>5. n \in ListNodes /\ n # Null /\ S \subseteq ListNodes /\ Null \notin S
  BY CacheAssumption DEF ListNodes
<1>6. l.count \in Nat /\ l.prev \in [ListNodes -> Pointers] /\ l.next \in [ListNodes -> Pointers]
  BY DEF LinkType
<1>7. Inside(l, S)
  BY DEF Listed
<1> HIDE DEF u, v
<1>8. Inside(u, S)
  <2>1. CASE l.count = 0
    BY <1>3, <1>7, <2>1
  <2>2. CASE l.count # 0
    BY <1>4, <1>5, <1>6, <1>7, <2>2 DEF Inside
  <2> QED
    BY <2>1, <2>2
<1>9. Inside(v, S)
  <2>1. u.prev \in [ListNodes -> Pointers] /\ u.next \in [ListNodes -> Pointers]
    BY <1>1 DEF LinkType
  <2>2. v.head = n /\ v.tail \in S \cup {Null}
    BY <1>2, <1>8 DEF Inside
  <2> QED
    BY <1>2, <1>5, <1>8, <2>1, <2>2 DEF Inside
<1>10. v.tail # Null /\ (v.count <= 1 \/ v.count <= MaxCount)
  <2>1. CASE u.count = 0
    BY <1>2, <1>5, <2>1
  <2>2. CASE u.count # 0
    <3>1. l.count >= 2 /\ MaxCount >= 2 /\ v.count = l.count
      BY <1>1, <1>2, <1>6, <2>2, CacheAssumption DEF Listed
    <3>2. u.tail # Null
      BY <1>4, <3>1, <1>6 DEF Listed
    <3> QED
      BY <1>2, <2>2, <3>1, <3>2 DEF Listed
  <2> QED
    BY <2>1, <2>2
<1>11. ASSUME MaxCount >= 2 PROVE HeadOnly(v, S) /\ (v.count >= 2 => v.prev[v.tail] # Null)
  <2>1. HeadOnly(l, S) /\ (l.count >= 2 => l.prev[l.tail] # Null)
    BY <1>11 DEF Listed
  <2>2. HeadOnly(v, S)
    <3> SUFFICES ASSUME NEW m \in S, v.prev[m] = Null PROVE m = n
      BY <1>2 DEF HeadOnly
    <3>1. u.prev \in [ListNodes -> Pointers] /\ m \in ListNodes
      BY <1>1, <1>5 DEF LinkType
    <3>2. m # u.head /\ u.prev[m] = Null
      BY <1>2, <1>5, <3>1
    <3>3. CASE l.count = 0
      BY <1>3, <2>1, <3>2, <3>3 DEF HeadOnly
    <3>4. CASE l.count # 0
      <4>1. CASE m = l.next[n]
        <5>1. l.prev[n] = Null
          BY <1>4, <1>5, <1>6, <3>2, <3>4, <4>1
        <5>2. n = l.head
          BY <2>1, <5>1 DEF HeadOnly
        <5> QED
          BY <1>4, <3>2, <3>4, <4>1, <5>2
      <4>2. CASE m # l.next[n]
        <5>1. l.prev[m] = Null
          BY <1>4, <1>6, <3>1, <3>2, <3>4, <4>2
        <5>2. m = l.head
          BY <2>1, <5>1 DEF HeadOnly
        <5> QED
          BY <1>4, <3>2, <3>4, <5>2
      <4> QED
        BY <4>1, <4>2
    <3> QED
      BY <3>3, <3>4
  <2>3. ASSUME v.count >= 2 PROVE v.prev[v.tail] # Null
    <3>1. u.count # 0 /\ l.count >= 2
      BY <1>1, <1>2, <1>6, <2>3
    <3>2. v.tail \in S
      BY <1>9, <1>10 DEF Inside
    <3>3. CASE v.tail = n
      <4>1. u.tail = n
        BY <1>2, <3>1, <3>3
      <4>2. u.prev[n] # Null
        <5>1. CASE l.tail = n
          <6>1. l.prev[n] = n
            BY <1>4, <3>1, <4>1, <5>1
          <6> QED
            BY <1>4, <1>5, <1>6, <2>1, <3>1, <5>1, <6>1
        <5>2. CASE l.tail # n
          BY <1>4, <3>1, <4>1, <5>2
        <5> QED
          BY <5>1, <5>2
      <4> QED
        BY <1>2, <1>5, <1>1, <3>3, <4>2 DEF LinkType
    <3>4. CASE v.tail # n
      BY <1>2, <2>2, <3>2, <3>4 DEF HeadOnly
    <3> QED
      BY <3>3, <3>4
  <2> QED
    BY <2>2, <2>3
<1> QED
  BY <1>9, <1>10, <1>11 DEF Listed, u, v

LEMMA AddedListed ==
    ASSUME NEW l \in LinkType, NEW S \in SUBSET ListNodes, NEW n \in ListNodes, n \notin S,
           l.prev[n] = Null, Listed(l, S)
    PROVE  Listed(AtHead(IF l.count >= MaxCount THEN Unlinked(l, l.tail) ELSE l, n), S \cup {n})
<1> DEFINE u == IF l.count >= MaxCount THEN Unlinked(l, l.tail) ELSE l
           v == AtHead(u, n)
           T == S \cup {n}
           t == l.tail
<1> SUFFICES Listed(v, T)
  OBVIOUS
<1>1. /\ n # Null /\ S \subseteq ListNodes /\ Null \notin S /\ n \in T
      /\ l.count \in Nat /\ MaxCount \in Nat
      /\ l.prev \in [ListNodes -> Pointers] /\ l.next \in [ListNodes -> Pointers]
  BY CacheAssumption DEF ListNodes, LinkType
<1>2. /\ v.head = n /\ v.tail = IF u.count = 0 THEN n ELSE u.tail
      /\ v.count = u.count + 1
      /\ v.prev = IF u.head = Null THEN u.prev ELSE [u.prev EXCEPT ![u.head] = n]
  BY DEF AtHead
<1>3. Inside(l, S) /\ (l.count > 0 => t \in S)
  BY DEF Listed, Inside
<1>4. CASE l.count >= MaxCount /\ l.count # 0
  <2>1. t \in S /\ t \in ListNodes /\ t # n
    BY <1>1, <1>3, <1>4
  <2>2. /\ u.head = IF l.head = t THEN l.next[t] ELSE l.head
        /\ u.tail = l.prev[t] /\ u.count = l.count - 1
        /\ u.prev = IF l.next[t] = Null THEN l.prev ELSE [l.prev EXCEPT ![l.next[t]] = l.prev[t]]
    BY <1>4 DEF Unlinked
  <2>3. u \in LinkType
    BY <1>4, <2>1, UnlinkedType
  <2>4. Inside(u, S) /\ u.prev[n] = Null
    BY <1>1, <1>3, <1>4, <2>1, UnlinkedInside
  <2>5. Inside(v, T)
    BY <2>3, <2>4, AtHeadInside
  <2> HIDE DEF u, v, t
  <2>6. u.prev \in [ListNodes -> Pointers]
    BY <2>3 DEF LinkType
  <2>7. CASE l.count = 1
    <3>1. v.count = 1 /\ v.tail = n /\ ~(MaxCount >= 2)
      BY <1>1, <1>2, <1>4, <2>2, <2>7
    <3> QED
      BY <1>1, <2>5, <3>1 DEF Listed
  <2>8. CASE l.count >= 2
    <3>1. /\ v.count = l.count /\ v.count <= MaxCount /\ MaxCount >= 2
          /\ HeadOnly(l, S) /\ l.prev[t] # Null /\ v.tail = l.prev[t]
      BY <1>1, <1>2, <2>2, <2>8 DEF Listed, t
    <3>2. HeadOnly(u, S)
      BY <1>1, <2>1, <2>2, <3>1 DEF HeadOnly
    <3>3. \A m \in S : v.prev[m] # Null
      BY <1>1, <1>2, <2>6, <3>2 DEF HeadOnly
    <3>4. v.tail \in S
      BY <1>3, <2>1, <3>1 DEF Inside
    <3>5. HeadOnly(v, T)
      BY <1>2, <3>3 DEF HeadOnly, T
    <3>6. v.tail # Null /\ v.prev[v.tail] # Null
      BY <1>1, <3>3, <3>4
    <3> QED
      BY <2>5, <3>1, <3>5, <3>6 DEF Listed
  <2> QED
    BY <1>1, <1>4, <2>7, <2>8
<1>5. CASE ~(l.count >= MaxCount /\ l.count # 0)
  <2>1. u = l
    BY <1>5 DEF Unlinked
  <2>2. Inside(v, T)
    BY <1>3, <2>1, AtHeadInside
  <2> HIDE DEF u, v, t
  <2>3. v.tail # Null /\ (v.count <= 1 \/ v.count <= MaxCount)
    BY <1>1, <1>2, <1>3, <1>5, <2>1 DEF t
  <2>4. ASSUME MaxCount >= 2 PROVE \A m \in S : v.prev[m] # Null
    BY <1>1, <1>2, <2>1, <2>4 DEF Listed, HeadOnly
  <2>5. v.count >= 2 => v.tail \in S
    BY <1>1, <1>2, <1>3, <2>1 DEF t
  <2>6. ASSUME MaxCount >= 2 PROVE HeadOnly(v, T)
    BY <1>2, <2>4, <2>6 DEF HeadOnly, T
  <2> QED
    BY <2>2, <2>3, <2>4, <2>5, <2>6 DEF Listed
<1> QED
  BY <1>4, <1>5

LEMMA CacheInitInv == CacheInit => CacheInv
<1> SUFFICES ASSUME CacheInit PROVE CacheInv
  OBVIOUS
<1> USE CacheAssumption DEF CacheInit, Empty
<1>1. CacheTypes
  <2>1. link \in LinkType /\ mapped \in SUBSET ListNodes
    BY DEF LinkType, Pointers
  <2>2. made \in 0 .. MaxNodes /\ broken \in BOOLEAN /\ removed \in BOOLEAN
    <3>1. made = 0 /\ MaxNodes \in Nat
      OBVIOUS
    <3>2. broken \in BOOLEAN /\ removed \in BOOLEAN
      OBVIOUS
    <3> HIDE CacheAssumption DEF CacheInit
    <3>3. made \in 0 .. MaxNodes
      BY <3>1
    <3> QED
      BY <3>2, <3>3
  <2> HIDE DEF CacheInit
  <2> QED
    BY <2>1, <2>2 DEF CacheTypes, LinkType
<1>2. mapped = {}
  OBVIOUS
<1>3. Listed(link, {})
  BY DEF Listed, Inside, HeadOnly
<1>4. Inside(link, 1 .. made)
  BY DEF Inside
<1> QED
  BY <1>1, <1>2, <1>3, <1>4 DEF CacheInv

LEMMA CacheNextInv == CacheInv /\ [CacheNext]_cacheVars => CacheInv'
<1> SUFFICES ASSUME CacheInv, [CacheNext]_cacheVars PROVE CacheInv'
  OBVIOUS
<1> DEFINE M == 1 .. made
<1>1. /\ CacheTypes /\ link \in LinkType /\ mapped \subseteq M /\ mapped \in SUBSET ListNodes
      /\ M \in SUBSET ListNodes /\ made \in Nat /\ MaxNodes \in Nat /\ Null \notin ListNodes
  BY CacheAssumption DEF CacheInv, CacheTypes, LinkType, ListNodes
<1>2. Inside(link, M) /\ \A m \in ListNodes : m > made => link.prev[m] = Null
  BY DEF CacheInv
<1>3. CASE UNCHANGED cacheVars
  BY <1>3 DEF CacheInv, CacheTypes, cacheVars
<1>4. ASSUME NEW n \in ListNodes, Touch(n) PROVE CacheInv'
  <2> DEFINE u == Unlinked(link, n)
  <2>1. n \in mapped /\ n \in ListNodes /\ n \in M
    BY <1>1, <1>4 DEF Touch, Uses
  <2>2. /\ link' = AtHead(u, n) /\ broken' = FALSE /\ UNCHANGED <<mapped, made, removed>>
    BY <1>4 DEF Touch
  <2>3. u \in LinkType /\ link' \in LinkType
    BY <1>1, <2>1, <2>2, UnlinkedType, AtHeadType
  <2>4. Inside(u, M) /\ \A m \in ListNodes \ M : u.prev[m] = link.prev[m]
    BY <1>1, <1>2, <2>1, UnlinkedInside
  <2>5. Inside(link', M) /\ \A m \in ListNodes \ M : link'.prev[m] = u.prev[m]
    <3>1. M \cup {n} = M
      BY <2>1
    <3> HIDE DEF u, M
    <3> QED
      BY <1>1, <2>1, <2>2, <2>3, <2>4, <3>1, AtHeadInside
  <2>6. \A m \in ListNodes : m > made => link'.prev[m] = Null
    <3> SUFFICES ASSUME NEW m \in ListNodes, m > made PROVE link'.prev[m] = Null
      OBVIOUS
    <3>1. m \in ListNodes \ M
      BY <1>1 DEF ListNodes
    <3> QED
      BY <1>2, <2>4, <2>5, <3>1
  <2>7. ASSUME ~removed PROVE Listed(link', mapped)
    BY <1>1, <2>1, <2>2, <2>7, TouchedListed DEF CacheInv
  <2>8. CacheTypes'
    BY <1>1, <2>2, <2>3 DEF CacheTypes, LinkType
  <2> HIDE DEF u
  <2> QED
    BY <1>1, <2>2, <2>5, <2>6, <2>7, <2>8 DEF CacheInv
<1>5. ASSUME Insert PROVE CacheInv'
  <2>1. CASE link.count >= MaxCount /\ TailMissing(link)
    <3>1. broken' = TRUE /\ UNCHANGED <<mapped, link, made, removed>>
      BY <1>5, <2>1 DEF Insert
    <3>2. removed
      BY <1>1, <2>1 DEF CacheInv, Listed, TailMissing
    <3> QED
      BY <3>1, <3>2 DEF CacheInv, CacheTypes
  <2>2. CASE ~(link.count >= MaxCount /\ TailMissing(link))
    <3> DEFINE n == made + 1
               u == IF link.count >= MaxCount THEN Unlinked(link, link.tail) ELSE link
    <3>1. /\ made' = n /\ mapped' = mapped \cup {n} /\ link' = AtHead(u, n)
          /\ broken' = FALSE /\ removed' = removed /\ made < MaxNodes
      BY <1>5, <2>2 DEF Insert
    <3>2. /\ n \in ListNodes /\ n \notin M /\ n \notin mapped /\ M \cup {n} = 1 .. n
          /\ n > made /\ link.prev[n] = Null /\ n # Null /\ n \in Nat
      BY <1>1, <1>2, <3>1 DEF ListNodes
    <3>3. u \in LinkType /\ Inside(u, M) /\ \A m \in ListNodes \ M : u.prev[m] = link.prev[m]
      <4>1. CASE link.count >= MaxCount /\ link.count # 0
        <5>1. link.count \in Nat /\ MaxCount \in Nat
          BY <1>1, CacheAssumption DEF LinkType
        <5>2. link.tail # Null
          BY <2>2, <4>1, <5>1 DEF TailMissing
        <5>3. link.tail \in M /\ link.tail \in ListNodes
          BY <1>1, <1>2, <5>2 DEF Inside
        <5>4. u = Unlinked(link, link.tail)
          BY <4>1
        <5>5. link \in LinkType /\ M \in SUBSET ListNodes /\ Inside(link, M)
          BY <1>1, <1>2
        <5>6. Unlinked(link, link.tail) \in LinkType
          BY <5>3, <5>5, UnlinkedType
        <5>7. /\ Inside(Unlinked(link, link.tail), M)
              /\ \A m \in ListNodes \ M : Unlinked(link, link.tail).prev[m] = link.prev[m]
          BY <5>3, <5>5, UnlinkedInside
        <5> QED
          BY <5>4, <5>6, <5>7
      <4>2. CASE ~(link.count >= MaxCount /\ link.count # 0)
        <5>1. u = link
          BY <4>2 DEF Unlinked
        <5> QED
          BY <1>1, <1>2, <5>1
      <4> QED
        BY <4>1, <4>2
    <3>4. link' \in LinkType
      BY <3>1, <3>2, <3>3, AtHeadType
    <3>5. Inside(link', 1 .. n) /\ \A m \in ListNodes \ M : link'.prev[m] = u.prev[m]
      <4> HIDE DEF u, M, n
      <4>1. u.prev[n] = Null
        BY <3>2, <3>3
      <4>2. M \in SUBSET ListNodes /\ u \in LinkType /\ Inside(u, M) /\ n \in ListNodes
        BY <1>1, <3>2, <3>3
      <4>3. Inside(AtHead(u, n), M \cup {n}) /\ \A m \in ListNodes \ M : AtHead(u, n).prev[m] = u.prev[m]
        BY <4>1, <4>2, AtHeadInside
      <4>4. link' = AtHead(u, n) /\ M \cup {n} = 1 .. n
        BY <3>1, <3>2
      <4> QED
        BY <4>3, <4>4
    <3>6. \A m \in ListNodes : m > n => link'.prev[m] = Null
      <4> SUFFICES ASSUME NEW m \in ListNodes, m > n PROVE link'.prev[m] = Null
        OBVIOUS
      <4>1. m \in ListNodes \ M /\ m > made
        BY <1>1 DEF ListNodes
      <4> QED
        BY <1>2, <3>3, <3>5, <4>1
    <3>7. mapped' = mapped \cup {n}
      BY <3>1
    <3>8. ASSUME ~removed PROVE Listed(link', mapped')
      <4>1. Listed(link, mapped)
        BY <3>8 DEF CacheInv
      <4> QED
        BY <1>1, <3>1, <3>2, <3>7, <4>1, AddedListed
    <3>9. CacheTypes'
      <4>1. mapped' \in SUBSET ListNodes
        BY <1>1, <3>1, <3>2 DEF CacheTypes
      <4>2. made' \in 0 .. MaxNodes
        BY <1>1, <3>1, <3>2
      <4> QED
        BY <1>1, <3>1, <3>4, <4>1, <4>2 DEF CacheTypes, LinkType
    <3>10. mapped' \subseteq 1 .. n
      BY <1>1, <3>2, <3>7
    <3> HIDE DEF n, u
    <3> QED
      BY <3>1, <3>5, <3>6, <3>8, <3>9, <3>10 DEF CacheInv
  <2> QED
    BY <2>1, <2>2
<1>6. ASSUME NEW n \in ListNodes, RemoveKey(n) PROVE CacheInv'
  <2> DEFINE u == Unlinked(link, n)
  <2>1. n \in mapped /\ n \in ListNodes /\ n \in M
    BY <1>1, <1>6 DEF RemoveKey, Uses
  <2>2. /\ link' = u /\ mapped' = mapped \ {n}
        /\ broken' = FALSE /\ removed' = TRUE /\ made' = made
    BY <1>6 DEF RemoveKey
  <2>3. u \in LinkType
    BY <1>1, <2>1, UnlinkedType
  <2>4. Inside(u, M) /\ \A m \in ListNodes \ M : u.prev[m] = link.prev[m]
    BY <1>1, <1>2, <2>1, UnlinkedInside
  <2>5. \A m \in ListNodes : m > made => u.prev[m] = Null
    <3> SUFFICES ASSUME NEW m \in ListNodes, m > made PROVE u.prev[m] = Null
      OBVIOUS
    <3>1. m \in ListNodes \ M
      BY <1>1 DEF ListNodes
    <3> QED
      BY <1>2, <2>4, <3>1
  <2>6. mapped' \subseteq M
    BY <1>1, <2>2 DEF CacheTypes
  <2>7. CacheTypes'
    <3>1. mapped' \in SUBSET ListNodes
      BY <1>1, <2>2 DEF CacheTypes
    <3> QED
      BY <1>1, <2>2, <2>3, <3>1 DEF CacheTypes, LinkType
  <2> HIDE DEF u
  <2> QED
    BY <2>2, <2>4, <2>5, <2>6, <2>7 DEF CacheInv
<1>7. ASSUME Clear PROVE CacheInv'
  <2>1. CacheInit'
    BY <1>7 DEF Clear, CacheInit
  <2> QED
    BY <2>1, CacheInitInv, PTL
<1> QED
  BY <1>3, <1>4, <1>5, <1>6, <1>7 DEF CacheNext

(* A cache that nobody removes keys from does not throw, with every number of keys and places. *)
THEOREM CachesServe == CacheSpec => []NoThrow
<1>1. CacheInv => NoThrow
  BY DEF CacheInv, NoThrow
<1> QED
  BY <1>1, CacheInitInv, CacheNextInv, PTL DEF CacheSpec

-----------------------------------------------------------------------------
(* Connections.                                                             *)

EndStates == {"greeting", "up", "spare", "closed", "failed"}
DialRecords ==
    [from : Nodes, to : Nodes, time : Nat, batch : Nat, told : BOOLEAN, acked : BOOLEAN, reset : BOOLEAN,
     near : EndStates, far : EndStates]

Dialed(ds, m) ==
    /\ ds \in Seq(DialRecords) /\ m \in [Nodes -> [Nodes -> Nat]]
    /\ \A i \in DOMAIN ds : ds[i].from # ds[i].to

IsUp(ds, n, i) == IsEnd(ds[i], n) /\ EndOf(ds[i], n) = "up"

\* The map has the connections that are up, and no others.
Mapped(ds, m) ==
    /\ \A n, p \in Nodes : m[n][p] # 0 =>
           m[n][p] \in DOMAIN ds /\ IsUp(ds, n, m[n][p]) /\ Remote(ds[m[n][p]], n) = p
    /\ \A i \in DOMAIN ds : \A n \in Nodes : IsUp(ds, n, i) => m[n][Remote(ds[i], n)] = i

SameEnds(d, e) == e.from = d.from /\ e.to = d.to

SameDial(d, e) ==
    /\ e.from = d.from /\ e.to = d.to /\ e.time = d.time /\ e.batch = d.batch
    /\ e.told = d.told /\ e.acked = d.acked /\ e.reset = d.reset

\* The dials es are ds with another state of end n of dial i.
EndPut(ds, es, n, i, state) ==
    /\ es \in Seq(DialRecords) /\ DOMAIN es = DOMAIN ds /\ Len(es) = Len(ds)
    /\ \A j \in DOMAIN ds : j # i => es[j] = ds[j]
    /\ SameDial(ds[i], es[i])
    /\ ds[i].from = n => es[i].near = state /\ es[i].far = ds[i].far
    /\ ds[i].from # n => es[i].far = state /\ es[i].near = ds[i].near

LEMMA DialAt ==
    ASSUME NEW ds \in Seq(DialRecords), NEW i \in DOMAIN ds
    PROVE  /\ ds[i] \in DialRecords /\ ds[i].from \in Nodes /\ ds[i].to \in Nodes /\ ds[i].time \in Nat
           /\ ds[i].near \in EndStates /\ ds[i].far \in EndStates
           /\ i \in Nat /\ i # 0 /\ i \in 1 .. Len(ds) /\ Len(ds) \in Nat
<1>1. ds[i] \in DialRecords
  BY ElementOfSeq
<1>2. i \in 1 .. Len(ds) /\ Len(ds) \in Nat
  BY LenProperties
<1> QED
  BY <1>1, <1>2 DEF DialRecords

LEMMA DialChanged ==
    ASSUME NEW ds \in Seq(DialRecords), NEW i \in DOMAIN ds, NEW d \in DialRecords
    PROVE  /\ [ds EXCEPT ![i] = d] \in Seq(DialRecords) /\ DOMAIN [ds EXCEPT ![i] = d] = DOMAIN ds
           /\ Len([ds EXCEPT ![i] = d]) = Len(ds)
           /\ \A j \in DOMAIN ds : [ds EXCEPT ![i] = d][j] = IF j = i THEN d ELSE ds[j]
<1>1. i \in 1 .. Len(ds) /\ Len(ds) \in Nat /\ DOMAIN ds = 1 .. Len(ds)
  BY LenProperties
<1>2. [ds EXCEPT ![i] = d] \in Seq(DialRecords) /\ Len([ds EXCEPT ![i] = d]) = Len(ds)
  BY <1>1, ExceptSeq
<1> QED
  BY <1>1, <1>2

LEMMA PutFacts ==
    ASSUME NEW ds \in Seq(DialRecords), NEW n, NEW i \in DOMAIN ds, NEW state \in EndStates
    PROVE  EndPut(ds, Put(ds, n, i, state), n, i, state)
<1> DEFINE d == IF ds[i].from = n THEN [ds[i] EXCEPT !.near = state] ELSE [ds[i] EXCEPT !.far = state]
<1>1. ds[i] \in DialRecords
  BY DialAt
<1>2. d \in DialRecords /\ SameDial(ds[i], d)
  BY <1>1 DEF DialRecords, SameDial
<1>3. /\ ds[i].from = n => d.near = state /\ d.far = ds[i].far
      /\ ds[i].from # n => d.far = state /\ d.near = ds[i].near
  BY <1>1 DEF DialRecords
<1>4. Put(ds, n, i, state) = [ds EXCEPT ![i] = d]
  BY DEF Put
<1> HIDE DEF d
<1> QED
  BY <1>2, <1>3, <1>4, DialChanged DEF EndPut

\* What an update of one end leaves and makes, seen from both ends.
OneEndPut(ds, es, n, i, state) ==
    /\ DOMAIN es = DOMAIN ds
    /\ \A j \in DOMAIN ds : \A k \in Nodes :
           /\ IsEnd(es[j], k) <=> IsEnd(ds[j], k)
           /\ Remote(es[j], k) = Remote(ds[j], k)
           /\ ~(j = i /\ k = n) => (IsUp(es, k, j) <=> IsUp(ds, k, j))
    /\ IsUp(es, n, i) <=> state = "up"

LEMMA EndPutFacts ==
    ASSUME NEW ds \in Seq(DialRecords), NEW es, NEW n, NEW i \in DOMAIN ds, NEW state,
           ds[i].from # ds[i].to, IsEnd(ds[i], n), EndPut(ds, es, n, i, state)
    PROVE  OneEndPut(ds, es, n, i, state)
<1>1. EndOf(es[i], n) = state /\ \A k \in Nodes : k # n /\ IsEnd(ds[i], k) => EndOf(es[i], k) = EndOf(ds[i], k)
  BY DEF EndPut, EndOf, IsEnd, SameDial
<1>2. \A j \in DOMAIN ds : es[j].from = ds[j].from /\ es[j].to = ds[j].to
  BY DEF EndPut, SameDial
<1> QED
  BY <1>1, <1>2 DEF OneEndPut, IsUp, IsEnd, Remote, EndPut

LEMMA OtherEnd ==
    ASSUME NEW ds \in Seq(DialRecords), NEW i \in DOMAIN ds, ds[i].from # ds[i].to, NEW n, IsEnd(ds[i], n)
    PROVE  /\ n \in Nodes /\ Remote(ds[i], n) \in Nodes /\ Remote(ds[i], n) # n
           /\ IsEnd(ds[i], Remote(ds[i], n)) /\ Remote(ds[i], Remote(ds[i], n)) = n
  BY DialAt DEF IsEnd, Remote

(* An end that is not up stays so: the map need not change.                 *)
LEMMA EndPutDials ==
    ASSUME NEW ds, NEW m, Dialed(ds, m), NEW i \in DOMAIN ds, NEW n, NEW es, NEW state, EndPut(ds, es, n, i, state)
    PROVE  es \in Seq(DialRecords) /\ \A j \in DOMAIN es : es[j].from # es[j].to
<1>1. ASSUME NEW j \in DOMAIN es PROVE es[j].from # es[j].to
  <2>1. j \in DOMAIN ds /\ ds[j].from # ds[j].to
    BY DEF Dialed, EndPut
  <2>2. CASE j = i
    BY <2>1, <2>2 DEF EndPut, SameDial
  <2>3. CASE j # i
    BY <2>1, <2>3 DEF EndPut
  <2> QED
    BY <2>2, <2>3
<1> QED
  BY <1>1 DEF EndPut

LEMMA MappedAside ==
    ASSUME NEW ds, NEW m, Dialed(ds, m), Mapped(ds, m), NEW i \in DOMAIN ds, NEW n, IsEnd(ds[i], n),
           NEW es, NEW state, EndPut(ds, es, n, i, state), ~IsUp(ds, n, i), state # "up"
    PROVE  Dialed(es, m) /\ Mapped(es, m)
<1>1. Dialed(es, m)
  BY EndPutDials DEF Dialed
<1>2. ds \in Seq(DialRecords) /\ ds[i].from # ds[i].to
  BY DEF Dialed
<1>3. OneEndPut(ds, es, n, i, state)
  BY <1>2, EndPutFacts
<1>4. \A j \in DOMAIN ds : \A k \in Nodes : IsUp(es, k, j) <=> IsUp(ds, k, j)
  BY <1>3 DEF OneEndPut
<1> QED
  BY <1>1, <1>3, <1>4 DEF Mapped, OneEndPut

Maps == [Nodes -> [Nodes -> Nat]]
MapPut(m, n, p, i) == [m EXCEPT ![n][p] = i]

LEMMA MapPutFacts ==
    ASSUME NEW m \in Maps, NEW n \in Nodes, NEW p \in Nodes, NEW i
    PROVE  /\ i \in Nat => MapPut(m, n, p, i) \in Maps
           /\ MapPut(m, n, p, i)[n][p] = i
           /\ \A k, q \in Nodes : k # n \/ q # p => MapPut(m, n, p, i)[k][q] = m[k][q]
  BY DEF MapPut, Maps

LEMMA MappedClosed ==
    ASSUME NEW ds, NEW m, Dialed(ds, m), Mapped(ds, m), NEW i \in DOMAIN ds, NEW n, IsUp(ds, n, i),
           NEW es, NEW state, EndPut(ds, es, n, i, state), state # "up"
    PROVE  LET f == MapPut(m, n, Remote(ds[i], n), 0) IN Dialed(es, f) /\ Mapped(es, f)
<1> DEFINE p == Remote(ds[i], n)
           f == MapPut(m, n, p, 0)
<1>1. IsEnd(ds[i], n) /\ n \in Nodes /\ p \in Nodes /\ ds \in Seq(DialRecords) /\ ds[i].from # ds[i].to
  BY OtherEnd DEF Dialed, IsUp
<1>2. /\ f \in Maps /\ f[n][p] = 0
      /\ \A k, q \in Nodes : k # n \/ q # p => f[k][q] = m[k][q]
  <2> HIDE DEF p
  <2>1. m \in Maps
    BY DEF Dialed, Maps
  <2> QED
    BY <1>1, <2>1, MapPutFacts
<1>3. Dialed(es, f)
  <2>1. es \in Seq(DialRecords) /\ \A j \in DOMAIN es : es[j].from # es[j].to
    BY EndPutDials
  <2> HIDE DEF f
  <2> QED
    BY <1>2, <2>1 DEF Dialed, Maps
<1>9. OneEndPut(ds, es, n, i, state)
  BY <1>1, EndPutFacts
<1>4. \A j \in DOMAIN ds : \A k \in Nodes : IsUp(es, k, j) <=> IsUp(ds, k, j) /\ ~(j = i /\ k = n)
  BY <1>9 DEF OneEndPut
<1>5. /\ DOMAIN es = DOMAIN ds
      /\ \A j \in DOMAIN ds : \A k \in Nodes : Remote(es[j], k) = Remote(ds[j], k)
  BY <1>9 DEF OneEndPut
<1>6. m[n][p] = i
  BY <1>1 DEF Mapped
<1> HIDE DEF f
<1>7. \A k, q \in Nodes : f[k][q] # 0 =>
          f[k][q] \in DOMAIN es /\ IsUp(es, k, f[k][q]) /\ Remote(es[f[k][q]], k) = q
  <2> SUFFICES ASSUME NEW k \in Nodes, NEW q \in Nodes, f[k][q] # 0
               PROVE  f[k][q] \in DOMAIN es /\ IsUp(es, k, f[k][q]) /\ Remote(es[f[k][q]], k) = q
    OBVIOUS
  <2>1. ~(k = n /\ q = p) /\ f[k][q] = m[k][q]
    BY <1>2
  <2>2. m[k][q] \in DOMAIN ds /\ IsUp(ds, k, m[k][q]) /\ Remote(ds[m[k][q]], k) = q
    BY <2>1 DEF Mapped
  <2> QED
    BY <1>4, <1>5, <1>6, <2>1, <2>2
<1>8. \A j \in DOMAIN es : \A k \in Nodes : IsUp(es, k, j) => f[k][Remote(es[j], k)] = j
  <2> SUFFICES ASSUME NEW j \in DOMAIN es, NEW k \in Nodes, IsUp(es, k, j)
               PROVE  f[k][Remote(es[j], k)] = j
    OBVIOUS
  <2>1. j \in DOMAIN ds /\ IsUp(ds, k, j) /\ ~(j = i /\ k = n) /\ Remote(es[j], k) = Remote(ds[j], k)
    BY <1>4, <1>5
  <2>2. Remote(ds[j], k) \in Nodes
    BY <1>1, <2>1, OtherEnd DEF Dialed, IsUp
  <2>3. m[k][Remote(ds[j], k)] = j
    BY <2>1 DEF Mapped
  <2> QED
    BY <1>2, <1>6, <2>1, <2>2, <2>3
<1> QED
  BY <1>3, <1>7, <1>8 DEF Mapped, f

LEMMA MappedOpen ==
    ASSUME NEW ds, NEW m, Dialed(ds, m), Mapped(ds, m), NEW i \in DOMAIN ds, NEW n, IsEnd(ds[i], n),
           NEW es, NEW state, EndPut(ds, es, n, i, state), state = "up", m[n][Remote(ds[i], n)] = 0
    PROVE  LET f == MapPut(m, n, Remote(ds[i], n), i) IN Dialed(es, f) /\ Mapped(es, f)
<1> DEFINE p == Remote(ds[i], n)
           f == MapPut(m, n, p, i)
<1>1. n \in Nodes /\ p \in Nodes /\ ds \in Seq(DialRecords) /\ ds[i].from # ds[i].to /\ i \in Nat /\ i # 0
  BY OtherEnd, DialAt DEF Dialed
<1>2. /\ f \in Maps /\ f[n][p] = i
      /\ \A k, q \in Nodes : k # n \/ q # p => f[k][q] = m[k][q]
  <2> HIDE DEF p
  <2>1. m \in Maps
    BY DEF Dialed, Maps
  <2>2. n \in Nodes /\ p \in Nodes
    BY <1>1
  <2>3. /\ i \in Nat => f \in Maps
        /\ f[n][p] = i
        /\ \A k, q \in Nodes : k # n \/ q # p => f[k][q] = m[k][q]
    BY <2>1, <2>2, MapPutFacts
  <2> QED
    BY <1>1, <2>3
<1>3. Dialed(es, f)
  <2>1. es \in Seq(DialRecords) /\ \A j \in DOMAIN es : es[j].from # es[j].to
    BY EndPutDials
  <2> HIDE DEF f
  <2> QED
    BY <1>2, <2>1 DEF Dialed, Maps
<1>9. OneEndPut(ds, es, n, i, state)
  BY <1>1, EndPutFacts
<1>4. \A j \in DOMAIN ds : \A k \in Nodes : IsUp(es, k, j) <=> IsUp(ds, k, j) \/ (j = i /\ k = n)
  BY <1>9 DEF OneEndPut
<1>5. /\ DOMAIN es = DOMAIN ds
      /\ \A j \in DOMAIN ds : \A k \in Nodes : Remote(es[j], k) = Remote(ds[j], k)
  BY <1>9 DEF OneEndPut
<1> HIDE DEF f
<1>7. \A k, q \in Nodes : f[k][q] # 0 =>
          f[k][q] \in DOMAIN es /\ IsUp(es, k, f[k][q]) /\ Remote(es[f[k][q]], k) = q
  <2> SUFFICES ASSUME NEW k \in Nodes, NEW q \in Nodes, f[k][q] # 0
               PROVE  f[k][q] \in DOMAIN es /\ IsUp(es, k, f[k][q]) /\ Remote(es[f[k][q]], k) = q
    OBVIOUS
  <2>1. CASE k = n /\ q = p
    BY <1>2, <1>4, <1>5, <2>1
  <2>2. CASE ~(k = n /\ q = p)
    <3>1. f[k][q] = m[k][q]
      BY <1>2, <2>2
    <3>2. m[k][q] \in DOMAIN ds /\ IsUp(ds, k, m[k][q]) /\ Remote(ds[m[k][q]], k) = q
      BY <3>1 DEF Mapped
    <3> QED
      BY <1>4, <1>5, <3>1, <3>2
  <2> QED
    BY <2>1, <2>2
<1>8. \A j \in DOMAIN es : \A k \in Nodes : IsUp(es, k, j) => f[k][Remote(es[j], k)] = j
  <2> SUFFICES ASSUME NEW j \in DOMAIN es, NEW k \in Nodes, IsUp(es, k, j)
               PROVE  f[k][Remote(es[j], k)] = j
    OBVIOUS
  <2>1. j \in DOMAIN ds /\ (IsUp(ds, k, j) \/ (j = i /\ k = n)) /\ Remote(es[j], k) = Remote(ds[j], k)
    BY <1>4, <1>5
  <2>2. CASE j = i /\ k = n
    BY <1>2, <2>1, <2>2
  <2>3. CASE IsUp(ds, k, j)
    <3>1. Remote(ds[j], k) \in Nodes /\ j # 0
      BY <1>1, <2>1, <2>3, OtherEnd, DialAt DEF Dialed, IsUp
    <3>2. m[k][Remote(ds[j], k)] = j
      BY <2>1, <2>3 DEF Mapped
    <3> QED
      BY <1>2, <2>1, <3>1, <3>2
  <2> QED
    BY <2>1, <2>2, <2>3
<1> QED
  BY <1>3, <1>7, <1>8 DEF Mapped, f

Pair(ds, m) == [dials |-> ds, map |-> m]

LEMMA CloseFacts ==
    ASSUME NEW ds, NEW m, Dialed(ds, m), NEW i \in DOMAIN ds, NEW n
    PROVE  LET c == CloseConnection(Pair(ds, m), n, i)
           IN  c = Pair(c.dials, c.map) /\ EndPut(ds, c.dials, n, i, "closed")
               /\ c.map = MapPut(m, n, Remote(ds[i], n), 0)
<1>1. ds \in Seq(DialRecords) /\ "closed" \in EndStates
  BY DEF Dialed, EndStates
<1>2. EndPut(ds, Put(ds, n, i, "closed"), n, i, "closed")
  BY <1>1, PutFacts
<1>3. CloseConnection(Pair(ds, m), n, i) = Pair(Put(ds, n, i, "closed"), MapPut(m, n, Remote(ds[i], n), 0))
  BY DEF CloseConnection, Pair, MapPut
<1> QED
  BY <1>2, <1>3 DEF Pair

\* What becomes of the dials and the map when end n of dial i has exchanged versions.  Of equal
\* times nothing is known: either may stay.
Kept(ds, m, es, f, n, i) ==
    LET p == Remote(ds[i], n)
        other == m[n][p]
    IN  \/ other # 0 /\ ds[i].time >= ds[other].time /\ f = m /\ EndPut(ds, es, n, i, "spare")
        \/ other = 0 /\ f = MapPut(m, n, p, i) /\ EndPut(ds, es, n, i, "up")
        \/ /\ other # 0 /\ ~(ds[i].time > ds[other].time)
           /\ f = MapPut(MapPut(m, n, p, 0), n, p, i)
           /\ \E hs : EndPut(ds, hs, n, other, "closed") /\ EndPut(hs, es, n, i, "up")

LEMMA KeepOneFacts ==
    ASSUME NEW ds, NEW m, Dialed(ds, m), Mapped(ds, m), NEW i \in DOMAIN ds, NEW n, IsEnd(ds[i], n),
           NEW random \in BOOLEAN
    PROVE  LET c == KeepOne(Pair(ds, m), n, i, random)
           IN  c = Pair(c.dials, c.map) /\ Kept(ds, m, c.dials, c.map, n, i)
<1> DEFINE c == KeepOne(Pair(ds, m), n, i, random)
           p == Remote(ds[i], n)
           other == m[n][p]
<1> SUFFICES c = Pair(c.dials, c.map) /\ Kept(ds, m, c.dials, c.map, n, i)
  OBVIOUS
<1> HIDE DEF c
<1>1. ds \in Seq(DialRecords) /\ {"spare", "up", "closed"} \subseteq EndStates /\ n \in Nodes /\ p \in Nodes
  BY OtherEnd DEF Dialed, EndStates
<1>2. Pair(ds, m).dials = ds /\ Pair(ds, m).map = m
  BY DEF Pair
<1>6. other # 0 => ds[i].time \in Nat /\ other \in DOMAIN ds /\ ds[other].time \in Nat
  BY <1>1, DialAt DEF Mapped
<1> DEFINE later == Later(Pair(ds, m), i, other, random)
<1>7. /\ later => other # 0 /\ ds[i].time >= ds[other].time
      /\ other # 0 /\ ~later => ~(ds[i].time > ds[other].time)
  BY <1>2, <1>6 DEF Later
<1>8. c = IF later THEN [Pair(ds, m) EXCEPT !.dials = Put(@, n, i, "spare")]
          ELSE Open(IF other = 0 THEN Pair(ds, m) ELSE CloseConnection(Pair(ds, m), n, other), n, i)
  BY <1>2 DEF c, KeepOne
<1> HIDE DEF later
<1>3. CASE later
  <2>1. c = Pair(Put(ds, n, i, "spare"), m)
    BY <1>3, <1>8 DEF Pair
  <2>2. EndPut(ds, Put(ds, n, i, "spare"), n, i, "spare")
    BY <1>1, PutFacts
  <2>3. c.dials = Put(ds, n, i, "spare") /\ c.map = m
    BY <2>1 DEF Pair
  <2> QED
    BY <1>3, <1>7, <2>1, <2>2, <2>3 DEF Kept
<1>4. CASE other = 0
  <2>1. c = Pair(Put(ds, n, i, "up"), MapPut(m, n, p, i))
    BY <1>4, <1>7, <1>8 DEF Pair, Open, MapPut
  <2>2. EndPut(ds, Put(ds, n, i, "up"), n, i, "up")
    BY <1>1, PutFacts
  <2>3. c.dials = Put(ds, n, i, "up") /\ c.map = MapPut(m, n, p, i)
    BY <2>1 DEF Pair
  <2> QED
    BY <1>4, <2>1, <2>2, <2>3 DEF Kept
<1>5. CASE other # 0 /\ ~later
  <2> DEFINE b == CloseConnection(Pair(ds, m), n, other)
  <2>1. other \in DOMAIN ds /\ Remote(ds[other], n) = p
    BY <1>1, <1>5 DEF Mapped
  <2>2. b = Pair(b.dials, b.map) /\ EndPut(ds, b.dials, n, other, "closed") /\ b.map = MapPut(m, n, p, 0)
    <3> HIDE DEF other
    <3> QED
      BY <2>1, CloseFacts
  <2>3. c = Open(b, n, i)
    BY <1>5, <1>8
  <2> HIDE DEF b
  <2>4. b.dials \in Seq(DialRecords) /\ i \in DOMAIN b.dials /\ Remote(b.dials[i], n) = p
    <3> HIDE DEF other
    <3>1. b.dials[i].from = ds[i].from /\ b.dials[i].to = ds[i].to
      BY <2>1, <2>2 DEF EndPut, SameDial
    <3> QED
      BY <2>2, <3>1 DEF EndPut, Remote
  <2>5. EndPut(b.dials, Put(b.dials, n, i, "up"), n, i, "up")
    BY <1>1, <2>4, PutFacts
  <2>6. c = Pair(Put(b.dials, n, i, "up"), MapPut(MapPut(m, n, p, 0), n, p, i))
    BY <2>2, <2>3, <2>4 DEF Open, Pair, MapPut
  <2>7. c.dials = Put(b.dials, n, i, "up") /\ c.map = MapPut(MapPut(m, n, p, 0), n, p, i)
    BY <2>6 DEF Pair
  <2>8. \E hs : EndPut(ds, hs, n, other, "closed") /\ EndPut(hs, c.dials, n, i, "up")
    BY <2>2, <2>5, <2>7
  <2> QED
    BY <1>5, <1>7, <2>6, <2>7, <2>8 DEF Kept
<1> QED
  BY <1>3, <1>4, <1>5

LEMMA KeptMapped ==
    ASSUME NEW ds, NEW m, Dialed(ds, m), Mapped(ds, m), NEW i \in DOMAIN ds, NEW n, IsEnd(ds[i], n), ~IsUp(ds, n, i),
           NEW es, NEW f, Kept(ds, m, es, f, n, i)
    PROVE  Dialed(es, f) /\ Mapped(es, f)
<1> DEFINE p == Remote(ds[i], n)
           other == m[n][p]
<1>1. n \in Nodes /\ p \in Nodes /\ m \in Maps /\ ds \in Seq(DialRecords) /\ ds[i].from # ds[i].to
  BY OtherEnd DEF Dialed, Maps
<1>2. CASE f = m /\ EndPut(ds, es, n, i, "spare")
  BY <1>2, MappedAside
<1>3. CASE other = 0 /\ f = MapPut(m, n, p, i) /\ EndPut(ds, es, n, i, "up")
  BY <1>3, MappedOpen
<1>4. ASSUME other # 0, f = MapPut(MapPut(m, n, p, 0), n, p, i), NEW hs,
             EndPut(ds, hs, n, other, "closed"), EndPut(hs, es, n, i, "up")
      PROVE  Dialed(es, f) /\ Mapped(es, f)
  <2>1. other \in DOMAIN ds /\ IsUp(ds, n, other) /\ Remote(ds[other], n) = p
    BY <1>1, <1>4 DEF Mapped
  <2> DEFINE g == MapPut(m, n, p, 0)
  <2> HIDE DEF other
  <2>2. Dialed(hs, g) /\ Mapped(hs, g)
    BY <1>4, <2>1, MappedClosed
  <2>3. IsEnd(hs[i], n) /\ Remote(hs[i], n) = p /\ i \in DOMAIN hs
    <3>1. hs[i].from = ds[i].from /\ hs[i].to = ds[i].to
      BY <1>4, <2>1 DEF EndPut, SameDial
    <3> QED
      BY <1>4, <3>1 DEF EndPut, Remote, IsEnd
  <2>4. g[n][p] = 0
    BY <1>1, MapPutFacts
  <2> HIDE DEF g, p
  <2>5. f = MapPut(g, n, p, i)
    BY <1>4 DEF g
  <2>6. f = MapPut(g, n, Remote(hs[i], n), i) /\ g[n][Remote(hs[i], n)] = 0 /\ IsEnd(hs[i], n) /\ i \in DOMAIN hs
    BY <2>3, <2>4, <2>5
  <2> QED
    BY <1>4, <2>2, <2>6, MappedOpen
<1>5. \/ f = m /\ EndPut(ds, es, n, i, "spare")
      \/ other = 0 /\ f = MapPut(m, n, p, i) /\ EndPut(ds, es, n, i, "up")
      \/ /\ other # 0 /\ f = MapPut(MapPut(m, n, p, 0), n, p, i)
         /\ \E hs : EndPut(ds, hs, n, other, "closed") /\ EndPut(hs, es, n, i, "up")
  BY DEF Kept
<1> HIDE DEF other, p
<1> QED
  BY <1>2, <1>3, <1>4, <1>5

-----------------------------------------------------------------------------
(* As long as nothing broke, two nodes no two of whose dials have one time have one dial at  *)
(* most in each direction, the earlier one of two stays, and an end is gone because the far  *)
(* end of the other dial is up.                                                              *)

GoneEnd(d) == Gone(d.near) \/ Gone(d.far)

Beats(ds, j, k) ==
    /\ j \in DOMAIN ds /\ ds[j].from = ds[k].to /\ ds[j].to = ds[k].from
    /\ ds[j].time < ds[k].time /\ ds[j].far = "up"

Settled(d) == (d.near # "greeting" => d.far # "greeting") /\ (d.told => d.near # "greeting") /\ ~d.reset

SameTwo(d, e) == \/ d.from = e.from /\ d.to = e.to
                 \/ d.from = e.to /\ d.to = e.from

\* No two dials of the nodes of dial k have one time.
Untied(ds, k) ==
    \A i, j \in DOMAIN ds : i # j /\ SameTwo(ds[i], ds[k]) /\ SameTwo(ds[j], ds[k]) => ds[i].time # ds[j].time

OncePerWay(ds) ==
    \A i, j \in DOMAIN ds : i # j /\ ds[i].from = ds[j].from /\ ds[i].to = ds[j].to => ~Untied(ds, i)

Calm(ds) ==
    /\ OncePerWay(ds)
    /\ \A i \in DOMAIN ds : Settled(ds[i])
    /\ \A k \in DOMAIN ds : GoneEnd(ds[k]) /\ Untied(ds, k) => \E j : Beats(ds, j, k)

LEMMA UntiedFacts ==
    ASSUME NEW ds, NEW k \in DOMAIN ds, NEW i \in DOMAIN ds, SameTwo(ds[i], ds[k])
    PROVE  Untied(ds, i) <=> Untied(ds, k)
<1>1. \A j \in DOMAIN ds : SameTwo(ds[j], ds[i]) <=> SameTwo(ds[j], ds[k])
  BY DEF SameTwo
<1> QED
  BY <1>1 DEF Untied

LEMMA UntiedStays ==
    ASSUME NEW ds, NEW es, DOMAIN es = DOMAIN ds, \A j \in DOMAIN ds : SameEnds(ds[j], es[j]) /\ es[j].time = ds[j].time,
           NEW k \in DOMAIN ds
    PROVE  Untied(es, k) <=> Untied(ds, k)
<1>1. \A j \in DOMAIN ds : SameTwo(es[j], es[k]) <=> SameTwo(ds[j], ds[k])
  BY DEF SameTwo, SameEnds
<1> QED
  BY <1>1 DEF Untied

LEMMA StaysOnce ==
    ASSUME NEW ds, NEW es, OncePerWay(ds), DOMAIN es = DOMAIN ds, \A j \in DOMAIN ds : SameDial(ds[j], es[j])
    PROVE  OncePerWay(es) /\ \A k \in DOMAIN ds : Untied(es, k) <=> Untied(ds, k)
<1>1. \A j \in DOMAIN ds : SameEnds(ds[j], es[j]) /\ es[j].time = ds[j].time
  BY DEF SameDial, SameEnds
<1>2. \A k \in DOMAIN ds : Untied(es, k) <=> Untied(ds, k)
  BY <1>1, UntiedStays
<1> QED
  BY <1>1, <1>2 DEF OncePerWay, SameEnds

LEMMA OtherReversed ==
    ASSUME NEW ds, NEW m, Dialed(ds, m), Mapped(ds, m), Calm(ds), NEW i \in DOMAIN ds, NEW n, IsEnd(ds[i], n),
           EndOf(ds[i], n) = "greeting", NEW other, other = m[n][Remote(ds[i], n)], other # 0, Untied(ds, i)
    PROVE  /\ other \in DOMAIN ds /\ other # i /\ IsEnd(ds[other], n)
           /\ ds[other].from = ds[i].to /\ ds[other].to = ds[i].from /\ ds[other].far = "up"
<1>1. n \in Nodes /\ Remote(ds[i], n) \in Nodes /\ ds \in Seq(DialRecords) /\ ds[i].from # ds[i].to
  BY OtherEnd DEF Dialed
<1>2. other \in DOMAIN ds /\ IsEnd(ds[other], n) /\ EndOf(ds[other], n) = "up" /\ Remote(ds[other], n) = Remote(ds[i], n)
  BY <1>1 DEF Mapped, IsUp
<1>3. other # i /\ ds[other].from # ds[other].to
  BY <1>2 DEF Dialed
<1>4. ~(ds[other].from = ds[i].from /\ ds[other].to = ds[i].to)
  BY <1>2, <1>3 DEF Calm, OncePerWay
<1>5. ds[other].from = ds[i].to /\ ds[other].to = ds[i].from
  BY <1>1, <1>2, <1>3, <1>4 DEF IsEnd, Remote
<1>6. CASE n = ds[other].to
  BY <1>2, <1>3, <1>5, <1>6 DEF EndOf
<1>7. CASE n = ds[other].from
  <2>1. ds[other].near = "up" /\ ds[i].far = "greeting"
    BY <1>1, <1>2, <1>5, <1>7 DEF EndOf
  <2>2. ds[other].far # "greeting"
    BY <1>2, <2>1 DEF Calm, Settled
  <2>3. ASSUME Gone(ds[other].far) PROVE FALSE
    <3>3. Untied(ds, other)
      BY <1>2, <1>5, UntiedFacts DEF SameTwo
    <3>1. PICK b : Beats(ds, b, other)
      BY <1>2, <2>3, <3>3 DEF Calm, GoneEnd
    <3>2. b = i
      BY <1>5, <3>1 DEF Calm, OncePerWay, Beats
    <3> QED
      BY <2>1, <3>1, <3>2 DEF Beats
  <2>4. ds[other].far \in EndStates
    BY <1>1, <1>2, DialAt
  <2> QED
    BY <1>2, <1>3, <1>5, <2>2, <2>3, <2>4 DEF EndStates, Gone
<1> QED
  BY <1>2, <1>6, <1>7 DEF IsEnd

LEMMA PutSettled ==
    ASSUME NEW ds, NEW es, NEW n, NEW i \in DOMAIN ds, NEW state, state # "greeting", EndPut(ds, es, n, i, state),
           Settled(ds[i]), ds[i].from = n => ds[i].far # "greeting"
    PROVE  Settled(es[i])
  BY DEF EndPut, SameDial, Settled

LEMMA KeptChanges ==
    ASSUME NEW ds, NEW m, Dialed(ds, m), Mapped(ds, m), NEW i \in DOMAIN ds, NEW n, IsEnd(ds[i], n),
           n = ds[i].from => ds[i].far # "greeting", \A j \in DOMAIN ds : Settled(ds[j]),
           NEW es, NEW f, Kept(ds, m, es, f, n, i)
    PROVE  /\ DOMAIN es = DOMAIN ds
           /\ \A j \in DOMAIN ds : SameDial(ds[j], es[j]) /\ Settled(es[j]) /\ (~SameTwo(ds[j], ds[i]) => es[j] = ds[j])
<1> DEFINE p == Remote(ds[i], n)
           other == m[n][p]
<1>1. n \in Nodes /\ p \in Nodes /\ ds \in Seq(DialRecords) /\ ds[i].from # ds[i].to /\ SameTwo(ds[i], ds[i])
  BY OtherEnd DEF Dialed, SameTwo
<1>2. ASSUME NEW state, state # "greeting", EndPut(ds, es, n, i, state)
      PROVE  /\ DOMAIN es = DOMAIN ds
             /\ \A j \in DOMAIN ds : SameDial(ds[j], es[j]) /\ Settled(es[j]) /\ (~SameTwo(ds[j], ds[i]) => es[j] = ds[j])
  <2>1. Settled(es[i])
    BY <1>2, PutSettled
  <2> QED
    BY <1>1, <1>2, <2>1 DEF EndPut, SameDial
<1>3. ASSUME other # 0, NEW hs, EndPut(ds, hs, n, other, "closed"), EndPut(hs, es, n, i, "up")
      PROVE  /\ DOMAIN es = DOMAIN ds
             /\ \A j \in DOMAIN ds : SameDial(ds[j], es[j]) /\ Settled(es[j]) /\ (~SameTwo(ds[j], ds[i]) => es[j] = ds[j])
  <2>1. other \in DOMAIN ds /\ IsUp(ds, n, other) /\ Remote(ds[other], n) = p
    BY <1>1, <1>3 DEF Mapped
  <2>2. SameTwo(ds[other], ds[i])
    BY <1>1, <2>1 DEF IsUp, IsEnd, Remote, SameTwo
  <2>3. ds[other].from = n => ds[other].far # "greeting"
    BY <2>1 DEF IsUp, EndOf, Settled
  <2> HIDE DEF other
  <2>4. Settled(hs[other])
    BY <1>3, <2>1, <2>3, PutSettled
  <2>5. /\ DOMAIN hs = DOMAIN ds
        /\ \A j \in DOMAIN ds : SameDial(ds[j], hs[j]) /\ Settled(hs[j]) /\ (j # other => hs[j] = ds[j])
    BY <1>3, <2>1, <2>4 DEF EndPut, SameDial
  <2>6. hs[i].from = n => hs[i].far # "greeting"
    <3>1. CASE i = other
      BY <1>3, <2>1, <2>3, <3>1 DEF EndPut, SameDial
    <3>2. CASE i # other
      BY <2>5, <3>2
    <3> QED
      BY <3>1, <3>2
  <2>7. i \in DOMAIN hs /\ Settled(hs[i])
    BY <2>5
  <2>8. Settled(es[i])
    BY <1>3, <2>6, <2>7, PutSettled
  <2>9. /\ DOMAIN es = DOMAIN ds
        /\ \A j \in DOMAIN ds : SameDial(hs[j], es[j]) /\ (j # i => es[j] = hs[j])
    BY <1>3, <2>5 DEF EndPut, SameDial
  <2>10. ASSUME NEW j \in DOMAIN ds
         PROVE  SameDial(ds[j], es[j]) /\ Settled(es[j]) /\ (~SameTwo(ds[j], ds[i]) => es[j] = ds[j])
    <3>1. SameDial(ds[j], hs[j]) /\ SameDial(hs[j], es[j])
      BY <2>5, <2>9
    <3>2. SameDial(ds[j], es[j])
      BY <3>1 DEF SameDial
    <3>3. Settled(es[j])
      BY <2>5, <2>8, <2>9
    <3>4. ~SameTwo(ds[j], ds[i]) => j # i /\ j # other
      BY <1>1, <2>2
    <3> QED
      BY <2>5, <2>9, <3>2, <3>3, <3>4
  <2> QED
    BY <2>9, <2>10
<1>4. \/ EndPut(ds, es, n, i, "spare")
      \/ EndPut(ds, es, n, i, "up")
      \/ other # 0 /\ \E hs : EndPut(ds, hs, n, other, "closed") /\ EndPut(hs, es, n, i, "up")
  BY DEF Kept
<1> HIDE DEF other, p
<1> QED
  BY <1>2, <1>3, <1>4

\* Between two nodes whose dials have different times the one begun first stays.
LEMMA KeptBeats ==
    ASSUME NEW ds, NEW m, Dialed(ds, m), Mapped(ds, m), Calm(ds), NEW i \in DOMAIN ds, NEW n, IsEnd(ds[i], n),
           EndOf(ds[i], n) = "greeting", n = ds[i].from => ds[i].far # "greeting", Untied(ds, i),
           NEW es, NEW f, Kept(ds, m, es, f, n, i),
           NEW k \in DOMAIN ds, SameTwo(ds[k], ds[i]), GoneEnd(es[k])
    PROVE  \E j : Beats(es, j, k)
<1> DEFINE p == Remote(ds[i], n)
           other == m[n][p]
<1>1. n \in Nodes /\ p \in Nodes /\ m \in Maps /\ ds \in Seq(DialRecords) /\ ds[i].from # ds[i].to
  BY OtherEnd DEF Dialed, Maps
<1>2. /\ ds[i].from = n => ds[i].near = "greeting" /\ ds[i].far # "greeting"
      /\ ds[i].from # n => ds[i].far = "greeting" /\ ds[i].near = "greeting"
  BY DEF EndOf, Calm, Settled
<1>3. \A h \in DOMAIN ds : SameTwo(ds[h], ds[i]) /\ GoneEnd(ds[h]) => \E j : Beats(ds, j, h)
  BY UntiedFacts DEF Calm
<1>8. \A h, j \in DOMAIN ds : h # j /\ SameTwo(ds[h], ds[i]) /\ SameTwo(ds[j], ds[i])
          => ds[h].time # ds[j].time /\ ~(ds[h].from = ds[j].from /\ ds[h].to = ds[j].to)
  BY UntiedFacts DEF Calm, OncePerWay, Untied
<1>9. SameTwo(ds[i], ds[i])
  BY DEF SameTwo
<1>4. CASE other # 0 /\ ds[i].time >= ds[other].time /\ EndPut(ds, es, n, i, "spare")
  <2> HIDE DEF other
  <2>1. other \in DOMAIN ds /\ other # i /\ ds[other].from = ds[i].to /\ ds[other].to = ds[i].from /\ ds[other].far = "up"
    BY <1>4, OtherReversed DEF other
  <2>2. ds[other].time < ds[i].time
    <3>1. ds[other].time # ds[i].time
      BY <1>8, <1>9, <2>1 DEF SameTwo
    <3> QED
      BY <1>1, <1>4, <2>1, <3>1, DialAt
  <2>3. DOMAIN es = DOMAIN ds /\ \A j \in DOMAIN ds : SameDial(ds[j], es[j]) /\ (j # i => es[j] = ds[j])
    BY <1>4 DEF EndPut, SameDial
  <2>5. \A j \in DOMAIN ds : ds[j].far = "up" => es[j].far = "up"
    BY <1>2, <1>4, <2>3 DEF EndPut
  <2>6. Beats(es, other, i)
    BY <2>1, <2>2, <2>3, <2>5 DEF Beats, SameDial
  <2>7. CASE k = i
    BY <2>6, <2>7
  <2>8. CASE k # i
    <3>1. PICK j : Beats(ds, j, k)
      BY <1>3, <2>3, <2>8
    <3>2. Beats(es, j, k)
      BY <2>3, <2>5, <3>1 DEF Beats, SameDial
    <3> QED
      BY <3>2
  <2> QED
    BY <2>7, <2>8
<1>5. CASE EndPut(ds, es, n, i, "up")
  <2>3. DOMAIN es = DOMAIN ds /\ \A j \in DOMAIN ds : SameDial(ds[j], es[j]) /\ (j # i => es[j] = ds[j])
    BY <1>5 DEF EndPut, SameDial
  <2>5. \A j \in DOMAIN ds : (ds[j].far = "up" => es[j].far = "up") /\ (GoneEnd(es[j]) => GoneEnd(ds[j]))
    BY <1>2, <1>5, <2>3 DEF EndPut, GoneEnd, Gone
  <2>6. PICK j : Beats(ds, j, k)
    BY <1>3, <2>5
  <2>7. Beats(es, j, k)
    BY <2>3, <2>5, <2>6 DEF Beats, SameDial
  <2> QED
    BY <2>7
<1>6. ASSUME other # 0, ~(ds[i].time > ds[other].time), NEW hs,
             EndPut(ds, hs, n, other, "closed"), EndPut(hs, es, n, i, "up")
      PROVE  \E j : Beats(es, j, k)
  <2> HIDE DEF other
  <2>1. /\ other \in DOMAIN ds /\ other # i /\ IsEnd(ds[other], n)
        /\ ds[other].from = ds[i].to /\ ds[other].to = ds[i].from /\ ds[other].far = "up"
    BY <1>6, OtherReversed DEF other
  <2>10. SameTwo(ds[other], ds[i])
    BY <2>1 DEF SameTwo
  <2>2. ds[i].time < ds[other].time
    <3>1. ds[i].time # ds[other].time
      BY <1>8, <1>9, <2>1, <2>10
    <3> QED
      BY <1>1, <1>6, <2>1, <3>1, DialAt
  <2>3. ASSUME GoneEnd(ds[i]) PROVE FALSE
    <3>1. PICK b : Beats(ds, b, i)
      BY <1>3, <1>9, <2>3
    <3>2. b = other
      BY <1>8, <2>1, <2>10, <3>1 DEF Beats, SameTwo
    <3> QED
      BY <1>1, <2>1, <2>2, <3>1, <3>2, DialAt DEF Beats
  <2>4. /\ DOMAIN es = DOMAIN ds /\ \A j \in DOMAIN ds : SameDial(ds[j], es[j])
        /\ \A j \in DOMAIN ds : j # i /\ j # other => es[j] = ds[j]
        /\ ds[i].from = n => es[i].near = "up" /\ es[i].far = ds[i].far
        /\ ds[i].from # n => es[i].far = "up" /\ es[i].near = ds[i].near
        /\ ds[i].from = n => es[other].far = "closed" /\ es[other].near = ds[other].near
        /\ ds[i].from # n => es[other].near = "closed" /\ es[other].far = ds[other].far
    <3>1. /\ DOMAIN hs = DOMAIN ds /\ DOMAIN es = DOMAIN ds
          /\ \A j \in DOMAIN ds : SameDial(ds[j], hs[j]) /\ (j # other => hs[j] = ds[j])
          /\ \A j \in DOMAIN ds : SameDial(hs[j], es[j]) /\ (j # i => es[j] = hs[j])
      BY <1>6, <2>1 DEF EndPut, SameDial
    <3>2. \A j \in DOMAIN ds : SameDial(ds[j], es[j]) /\ (j # i /\ j # other => es[j] = ds[j])
      BY <3>1 DEF SameDial
    <3>3. hs[i] = ds[i] /\ es[other] = hs[other]
      BY <2>1, <3>1
    <3>4. ds[other].from = n <=> ds[i].from # n
      BY <1>1, <2>1 DEF IsEnd
    <3> QED
      BY <1>6, <2>1, <3>1, <3>2, <3>3, <3>4 DEF EndPut
  <2>5. ds[i].far \in EndStates
    BY <1>1, DialAt
  <2>6. es[i].far = "up" /\ ~GoneEnd(es[i])
    BY <1>2, <2>3, <2>4, <2>5 DEF GoneEnd, Gone, EndStates
  <2>7. Beats(es, i, other)
    BY <2>1, <2>2, <2>4, <2>6 DEF Beats, SameDial
  <2>8. k = other
    <3> SUFFICES ASSUME k # other PROVE FALSE
      OBVIOUS
    <3>1. k # i
      BY <2>6
    <3> QED
      BY <1>8, <1>9, <2>1, <2>10, <3>1 DEF SameTwo
  <2> QED
    BY <2>7, <2>8
<1>7. \/ other # 0 /\ ds[i].time >= ds[other].time /\ EndPut(ds, es, n, i, "spare")
      \/ EndPut(ds, es, n, i, "up")
      \/ /\ other # 0 /\ ~(ds[i].time > ds[other].time)
         /\ \E hs : EndPut(ds, hs, n, other, "closed") /\ EndPut(hs, es, n, i, "up")
  BY DEF Kept
<1> HIDE DEF other, p
<1> QED
  BY <1>4, <1>5, <1>6, <1>7

LEMMA KeptCalm ==
    ASSUME NEW ds, NEW m, Dialed(ds, m), Mapped(ds, m), Calm(ds), NEW i \in DOMAIN ds, NEW n, IsEnd(ds[i], n),
           EndOf(ds[i], n) = "greeting", n = ds[i].from => ds[i].far # "greeting",
           NEW es, NEW f, Kept(ds, m, es, f, n, i)
    PROVE  Calm(es)
<1>1. /\ DOMAIN es = DOMAIN ds
      /\ \A j \in DOMAIN ds : SameDial(ds[j], es[j]) /\ Settled(es[j]) /\ (~SameTwo(ds[j], ds[i]) => es[j] = ds[j])
  BY KeptChanges DEF Calm
<1>2. OncePerWay(es) /\ \A k \in DOMAIN ds : Untied(es, k) <=> Untied(ds, k)
  BY <1>1, StaysOnce DEF Calm
<1>3. ASSUME NEW k \in DOMAIN es, GoneEnd(es[k]), Untied(es, k) PROVE \E j : Beats(es, j, k)
  <2>1. k \in DOMAIN ds /\ Untied(ds, k)
    BY <1>1, <1>2, <1>3
  <2>2. CASE SameTwo(ds[k], ds[i])
    <3>1. Untied(ds, i)
      BY <2>1, <2>2, UntiedFacts
    <3> QED
      BY <1>3, <2>1, <2>2, <3>1, KeptBeats
  <2>3. CASE ~SameTwo(ds[k], ds[i])
    <3>1. PICK j : Beats(ds, j, k)
      BY <1>1, <1>3, <2>1, <2>3 DEF Calm
    <3>2. j \in DOMAIN ds /\ ~SameTwo(ds[j], ds[i])
      BY <2>3, <3>1 DEF Beats, SameTwo
    <3>3. Beats(es, j, k)
      BY <1>1, <2>1, <2>3, <3>1, <3>2 DEF Beats
    <3> QED
      BY <3>3
  <2> QED
    BY <2>2, <2>3
<1> QED
  BY <1>1, <1>2, <1>3 DEF Calm

-----------------------------------------------------------------------------
(* The invariant.                                                           *)

BanEnds == Nat \cup {Forever, NotBanned}

ConnectionTypes ==
    /\ Dialed(dials, map)
    /\ known \in [Nodes -> SUBSET Nodes] /\ ban \in [Nodes -> [Nodes -> BanEnds]]
    /\ now \in Nat /\ breaks \in Nat

\* The near end has no answer before the far end has decided.
AckedDecided(ds) == \A i \in DOMAIN ds : ds[i].acked => ds[i].far # "greeting"

ConnectionsInv ==
    /\ ConnectionTypes
    /\ Mapped(dials, map)
    /\ AckedDecided(dials)
    /\ breaks = 0 => Calm(dials) /\ \A n, p \in Nodes : ban[n][p] = NotBanned

\* No connection opens to who is banned for ever, in this step.
KeepsOut == \A n, p \in Nodes : ban[n][p] = Forever => ~Opens(n, p)

LEMMA ConnectionsInitInv == ConnectionsInit => ConnectionsInv
<1> SUFFICES ASSUME ConnectionsInit PROVE ConnectionsInv
  OBVIOUS
<1>1. DOMAIN dials = {} /\ dials \in Seq(DialRecords)
  BY EmptySeq DEF ConnectionsInit
<1>2. map \in [Nodes -> [Nodes -> Nat]] /\ \A n, p \in Nodes : map[n][p] = 0
  BY DEF ConnectionsInit
<1>3. ConnectionTypes
  BY <1>1, <1>2 DEF ConnectionsInit, ConnectionTypes, Dialed, BanEnds
<1>4. Mapped(dials, map) /\ AckedDecided(dials) /\ Calm(dials)
  BY <1>1, <1>2 DEF Mapped, AckedDecided, Calm, OncePerWay
<1>5. \A n, p \in Nodes : ban[n][p] = NotBanned
  BY DEF ConnectionsInit
<1> QED
  BY <1>3, <1>4, <1>5 DEF ConnectionsInv

\* A step that lets no far end up opens nothing.
LEMMA NothingOpens ==
    ASSUME DOMAIN dials' = DOMAIN dials,
           \A i \in DOMAIN dials : SameEnds(dials[i], dials'[i]) /\ (dials'[i].far = "up" => dials[i].far = "up")
    PROVE  KeepsOut
  BY DEF KeepsOut, Opens

LEMMA BansAsked ==
    ASSUME NEW b \in [Nodes -> BanEnds], NEW asked
    PROVE  /\ AfterIsBan(b, asked) \in [Nodes -> BanEnds]
           /\ \A p \in Nodes : b[p] = Forever <=> AfterIsBan(b, asked)[p] = Forever
           /\ (\A p \in Nodes : b[p] = NotBanned) => \A p \in Nodes : AfterIsBan(b, asked)[p] = NotBanned
<1>1. \A p \in Nodes : AfterIsBan(b, asked)[p] = IF p \in asked /\ Ended(b, p) THEN NotBanned ELSE b[p]
  BY DEF AfterIsBan
<1>2. AfterIsBan(b, asked) \in [Nodes -> BanEnds]
  BY DEF AfterIsBan, BanEnds
<1>3. \A p \in Nodes : Ended(b, p) => b[p] # Forever
  BY DEF Ended
<1> QED
  BY <1>1, <1>2, <1>3, ConnectionsAssumption

-----------------------------------------------------------------------------
(* Dialing.                                                                 *)

LEMMA DialedFacts ==
    ASSUME NEW S, IsFiniteSet(S)
    PROVE  /\ SetToSeq(S) \in Seq(S)
           /\ \A i, j \in DOMAIN SetToSeq(S) : i # j => SetToSeq(S)[i] # SetToSeq(S)[j]
<1> DEFINE n == Cardinality(S)
<1>1. n \in Nat /\ ExistsBijection(1 .. n, S)
  BY FS_CardinalityType
<1>2. \E f \in [1 .. n -> S] : IsInjective(f)
  BY <1>1 DEF ExistsBijection, Bijection, Injection
<1>3. SetToSeq(S) \in [1 .. n -> S] /\ IsInjective(SetToSeq(S))
  BY <1>2 DEF SetToSeq
<1> HIDE DEF n
<1>4. SetToSeq(S) \in Seq(S)
  BY <1>1, <1>3 DEF n
<1> QED
  BY <1>3, <1>4 DEF IsInjective

\* The dials es are ds and new ones from n to peers in S.
Added(ds, es, n, S) ==
    /\ es \in Seq(DialRecords) /\ DOMAIN ds \subseteq DOMAIN es /\ \A i \in DOMAIN ds : es[i] = ds[i]
    /\ \A i \in DOMAIN es \ DOMAIN ds :
           /\ es[i].from = n /\ es[i].to \in S
           /\ es[i].near \in {"greeting", "failed"} /\ es[i].far \in {"greeting", "closed"}
           /\ ~es[i].told /\ ~es[i].acked /\ ~es[i].reset
    /\ \A i, j \in DOMAIN es \ DOMAIN ds : i # j => es[i].to # es[j].to

NewDials(ds, n, dialed, time, refused) ==
    ds \o [i \in DOMAIN dialed |-> Dial(n, dialed[i], time[i], i \in refused)]

LEMMA NewDialsFacts ==
    ASSUME NEW S \in SUBSET Nodes, NEW n \in Nodes, NEW ds \in Seq(DialRecords), NEW dialed \in Seq(S),
           \A i, j \in DOMAIN dialed : i # j => dialed[i] # dialed[j],
           NEW time \in [DOMAIN dialed -> Nat],
           NEW refused \in SUBSET DOMAIN dialed
    PROVE  LET es == NewDials(ds, n, dialed, time, refused)
           IN  /\ Added(ds, es, n, S)
               /\ refused = {} => \A i \in DOMAIN es \ DOMAIN ds : es[i].near = "greeting" /\ es[i].far = "greeting"
<1> DEFINE new == [i \in DOMAIN dialed |-> Dial(n, dialed[i], time[i], i \in refused)]
           es == NewDials(ds, n, dialed, time, refused)
           l == Len(ds)
<1>1. /\ DOMAIN dialed = 1 .. Len(dialed) /\ Len(dialed) \in Nat /\ DOMAIN ds = 1 .. l /\ l \in Nat
      /\ \A i \in DOMAIN dialed : dialed[i] \in S
  BY LenProperties, ElementOfSeq
<1>2. ASSUME NEW i \in DOMAIN dialed
      PROVE  /\ new[i] \in DialRecords
             /\ new[i].from = n /\ new[i].to = dialed[i]
             /\ ~new[i].told /\ ~new[i].acked /\ ~new[i].reset
             /\ new[i].near \in {"greeting", "failed"} /\ new[i].far \in {"greeting", "closed"}
             /\ i \notin refused => new[i].near = "greeting" /\ new[i].far = "greeting"
  <2>1. dialed[i] \in Nodes /\ time[i] \in Nat
    BY <1>1
  <2> QED
    BY <2>1 DEF Dial, DialRecords, EndStates
<1> HIDE DEF new
<1>3. new \in Seq(DialRecords) /\ Len(new) = Len(dialed) /\ DOMAIN new = DOMAIN dialed
  <2>1. DOMAIN new = 1 .. Len(dialed)
    BY <1>1 DEF new
  <2>2. new \in [1 .. Len(dialed) -> DialRecords]
    BY <1>1, <1>2, <2>1 DEF new
  <2> QED
    BY <1>1, <2>1, <2>2
<1>4. es = ds \o new
  BY DEF NewDials, new
<1>5. /\ es \in Seq(DialRecords) /\ Len(es) = l + Len(dialed)
      /\ \A i \in 1 .. l + Len(dialed) : es[i] = IF i <= l THEN ds[i] ELSE new[i - l]
  <2>1. ds \in Seq(DialRecords) /\ new \in Seq(DialRecords)
    BY <1>3
  <2>2. ds \o new \in Seq(DialRecords) /\ Len(ds \o new) = Len(ds) + Len(new)
        /\ \A i \in 1 .. Len(ds) + Len(new) : (ds \o new)[i] = IF i <= Len(ds) THEN ds[i] ELSE new[i - Len(ds)]
    BY <2>1, ConcatProperties
  <2> QED
    BY <1>3, <1>4, <2>2
<1> HIDE DEF es, l
<1>6. DOMAIN es = 1 .. l + Len(dialed)
  BY <1>5, LenProperties
<1>7. /\ DOMAIN ds \subseteq DOMAIN es /\ \A i \in DOMAIN ds : es[i] = ds[i]
      /\ \A i \in DOMAIN es \ DOMAIN ds : i \in Nat /\ i - l \in DOMAIN dialed /\ es[i] = new[i - l]
  BY <1>1, <1>5, <1>6
<1>8. ASSUME NEW i \in DOMAIN es \ DOMAIN ds, NEW j \in DOMAIN es \ DOMAIN ds, i # j
      PROVE  es[i].to # es[j].to
  <2>1. i - l # j - l
    BY <1>1, <1>7, <1>8
  <2>2. dialed[i - l] # dialed[j - l]
    BY <1>7, <2>1
  <2> QED
    BY <1>2, <1>7, <2>2
<1>9. \A i \in DOMAIN es \ DOMAIN ds :
           /\ es[i].from = n /\ es[i].to \in S
           /\ es[i].near \in {"greeting", "failed"} /\ es[i].far \in {"greeting", "closed"}
           /\ ~es[i].told /\ ~es[i].acked /\ ~es[i].reset
  BY <1>1, <1>2, <1>7
<1>10. Added(ds, es, n, S)
  BY <1>5, <1>7, <1>8, <1>9 DEF Added
<1>11. refused = {} => \A i \in DOMAIN es \ DOMAIN ds : es[i].near = "greeting" /\ es[i].far = "greeting"
  BY <1>2, <1>7
<1> QED
  BY <1>10, <1>11 DEF es
\* A dial of n to a peer it has no connection with is not over, as long as nothing broke.
LEMMA NoOldDial ==
    ASSUME NEW ds, NEW m, Dialed(ds, m), Mapped(ds, m), Calm(ds), NEW i \in DOMAIN ds, NEW n, NEW p,
           ds[i].from = n, ds[i].to = p, m[n][p] = 0, Untied(ds, i)
    PROVE  ~ds[i].told
<1> SUFFICES ASSUME ds[i].told PROVE FALSE
  OBVIOUS
<1>1. ds \in Seq(DialRecords) /\ ds[i].from # ds[i].to /\ n \in Nodes /\ p \in Nodes /\ ds[i].near \in EndStates /\ i # 0
  BY DialAt DEF Dialed
<1>2. ds[i].near # "greeting"
  BY DEF Calm, Settled
<1>3. CASE ds[i].near = "up"
  <2>1. IsUp(ds, n, i) /\ Remote(ds[i], n) = p
    BY <1>3 DEF IsUp, IsEnd, EndOf, Remote
  <2> QED
    BY <1>1, <2>1 DEF Mapped
<1>4. CASE GoneEnd(ds[i])
  <2>1. PICK j : Beats(ds, j, i)
    BY <1>4 DEF Calm
  <2>2. j \in DOMAIN ds /\ IsUp(ds, n, j) /\ Remote(ds[j], n) = p
    BY <1>1, <2>1 DEF Beats, IsUp, IsEnd, EndOf, Remote
  <2>3. j # 0
    BY <1>1, <2>2, DialAt
  <2> QED
    BY <1>1, <2>2, <2>3 DEF Mapped
<1> QED
  BY <1>1, <1>2, <1>3, <1>4 DEF EndStates, GoneEnd, Gone

LEMMA AddedMapped ==
    ASSUME NEW ds, NEW m, Dialed(ds, m), Mapped(ds, m), NEW n \in Nodes, NEW S \in SUBSET Nodes, n \notin S,
           NEW es, Added(ds, es, n, S)
    PROVE  Dialed(es, m) /\ Mapped(es, m)
<1>1. ASSUME NEW i \in DOMAIN es PROVE es[i].from # es[i].to
  <2>1. CASE i \in DOMAIN ds
    BY <2>1 DEF Dialed, Added
  <2>2. CASE i \notin DOMAIN ds
    BY <2>2 DEF Added
  <2> QED
    BY <2>1, <2>2
<1>2. Dialed(es, m)
  BY <1>1 DEF Dialed, Added
<1>3. \A i \in DOMAIN ds : i \in DOMAIN es /\ es[i] = ds[i]
  BY DEF Added
<1>4. \A i \in DOMAIN es : \A k \in Nodes : IsUp(es, k, i) => i \in DOMAIN ds /\ IsUp(ds, k, i)
  BY <1>3 DEF Added, IsUp, EndOf
<1>5. \A k, p \in Nodes : m[k][p] # 0 =>
          m[k][p] \in DOMAIN es /\ IsUp(es, k, m[k][p]) /\ Remote(es[m[k][p]], k) = p
  BY <1>3 DEF Mapped, IsUp
<1>6. \A i \in DOMAIN es : \A k \in Nodes : IsUp(es, k, i) => m[k][Remote(es[i], k)] = i
  BY <1>3, <1>4 DEF Mapped
<1> QED
  BY <1>2, <1>5, <1>6 DEF Mapped

LEMMA AddedCalm ==
    ASSUME NEW ds, NEW m, Dialed(ds, m), Mapped(ds, m), Calm(ds), NEW n \in Nodes, NEW S \in SUBSET Nodes,
           NEW es, Added(ds, es, n, S),
           \A i \in DOMAIN es \ DOMAIN ds : es[i].near = "greeting" /\ es[i].far = "greeting",
           \A i \in DOMAIN ds : ds[i].from = n /\ ds[i].to \in S => ds[i].told /\ m[n][ds[i].to] = 0
    PROVE  Calm(es)
<1>1. \A i \in DOMAIN ds : i \in DOMAIN es /\ es[i] = ds[i]
  BY DEF Added
<1>2. \A i \in DOMAIN ds : Untied(ds, i) => ~(ds[i].from = n /\ ds[i].to \in S)
  BY NoOldDial
<1>6. \A i \in DOMAIN ds : Untied(es, i) => Untied(ds, i)
  BY <1>1 DEF Untied
<1>3. OncePerWay(es)
  <2> SUFFICES ASSUME NEW i \in DOMAIN es, NEW j \in DOMAIN es, i # j, es[i].from = es[j].from, es[i].to = es[j].to,
                      Untied(es, i)
               PROVE  FALSE
    BY DEF OncePerWay
  <2>5. Untied(es, j)
    BY UntiedFacts DEF SameTwo
  <2>1. CASE i \in DOMAIN ds /\ j \in DOMAIN ds
    BY <1>1, <1>6, <2>1 DEF Calm, OncePerWay
  <2>2. CASE i \in DOMAIN ds /\ j \notin DOMAIN ds
    BY <1>1, <1>2, <1>6, <2>2 DEF Added
  <2>3. CASE i \notin DOMAIN ds /\ j \in DOMAIN ds
    BY <1>1, <1>2, <1>6, <2>3, <2>5 DEF Added
  <2>4. CASE i \notin DOMAIN ds /\ j \notin DOMAIN ds
    BY <2>4 DEF Added
  <2> QED
    BY <2>1, <2>2, <2>3, <2>4
<1>4. \A i \in DOMAIN es : Settled(es[i])
  <2> SUFFICES ASSUME NEW i \in DOMAIN es PROVE Settled(es[i])
    OBVIOUS
  <2>1. CASE i \in DOMAIN ds
    BY <1>1, <2>1 DEF Calm
  <2>2. CASE i \notin DOMAIN ds
    BY <2>2 DEF Added, Settled
  <2> QED
    BY <2>1, <2>2
<1>5. \A k \in DOMAIN es : GoneEnd(es[k]) /\ Untied(es, k) => \E j : Beats(es, j, k)
  <2> SUFFICES ASSUME NEW k \in DOMAIN es, GoneEnd(es[k]), Untied(es, k) PROVE \E j : Beats(es, j, k)
    OBVIOUS
  <2>1. k \in DOMAIN ds /\ GoneEnd(ds[k]) /\ Untied(ds, k)
    BY <1>1, <1>6 DEF GoneEnd, Gone
  <2>2. PICK j : Beats(ds, j, k)
    BY <2>1 DEF Calm
  <2>3. Beats(es, j, k)
    BY <1>1, <2>1, <2>2 DEF Beats
  <2> QED
    BY <2>3
<1> QED
  BY <1>3, <1>4, <1>5 DEF Calm

\* What connectTo and the timers have asked isBan of before they dial.
AsksOf(n, b) ==
    /\ b \in [Nodes -> BanEnds]
    /\ \A p \in Nodes : b[p] = Forever <=> ban[n][p] = Forever
    /\ (\A p \in Nodes : ban[n][p] = NotBanned) => \A p \in Nodes : b[p] = NotBanned

LEMMA ConnectToKeeps ==
    ASSUME ConnectionsInv, NEW n \in Nodes, NEW will \in SUBSET Nodes, NEW b, AsksOf(n, b), ConnectTo(n, will, b)
    PROVE  ConnectionsInv' /\ KeepsOut
<1> DEFINE S == {p \in will : OnWillConnectTo(n, b, p)}
           dialed == SetToSeq(S)
<1>1. /\ S \in SUBSET Nodes /\ n \notin S /\ IsFiniteSet(S)
      /\ \A p \in S : map[n][p] = 0 /\ p \notin Connecting(n) /\ b[p] # Forever
  <2>1. S \in SUBSET Nodes
    OBVIOUS
  <2>2. IsFiniteSet(S)
    BY <2>1, FS_Subset, ConnectionsAssumption
  <2> QED
    BY <2>1, <2>2 DEF OnWillConnectTo, IsBan
<1>2. PICK time \in [DOMAIN dialed -> Times], refused \in SUBSET DOMAIN dialed :
          /\ breaks' = breaks + Cardinality(refused)
          /\ dials' = NewDials(dials, n, dialed, time, refused)
  BY DEF ConnectTo, NewDials
<1>3. ban' = [ban EXCEPT ![n] = AfterIsBan(b, will)] /\ map' = map /\ known' = known /\ now' = now
  BY DEF ConnectTo
<1> HIDE DEF S
<1>4. dialed \in Seq(S) /\ \A i, j \in DOMAIN dialed : i # j => dialed[i] # dialed[j]
  BY <1>1, DialedFacts
<1> HIDE DEF dialed
<1>5. dials \in Seq(DialRecords) /\ Dialed(dials, map) /\ Mapped(dials, map) /\ breaks \in Nat
  BY DEF ConnectionsInv, ConnectionTypes, Dialed
<1>6. time \in [DOMAIN dialed -> Nat]
  BY <1>2, ConnectionsAssumption
<1>7. /\ Added(dials, dials', n, S)
      /\ refused = {} => \A i \in DOMAIN dials' \ DOMAIN dials : dials'[i].near = "greeting" /\ dials'[i].far = "greeting"
  BY <1>1, <1>2, <1>4, <1>5, <1>6, NewDialsFacts
<1>8. Dialed(dials', map) /\ Mapped(dials', map)
  BY <1>1, <1>5, <1>7, AddedMapped
<1>9. IsFiniteSet(refused) /\ Cardinality(refused) \in Nat
  <2>1. IsFiniteSet(DOMAIN dialed)
    <3>1. DOMAIN dialed = 1 .. Len(dialed) /\ Len(dialed) \in Nat
      BY <1>4, LenProperties
    <3>2. IsFiniteSet(1 .. Len(dialed))
      BY <3>1, FS_Interval
    <3> QED
      BY <3>1, <3>2
  <2> QED
    BY <1>2, <2>1, FS_Subset, FS_CardinalityType
<1>10. AckedDecided(dials')
  BY <1>7 DEF ConnectionsInv, AckedDecided, Added
<1>11. /\ AfterIsBan(b, will) \in [Nodes -> BanEnds]
       /\ (\A p \in Nodes : b[p] = NotBanned) => \A p \in Nodes : AfterIsBan(b, will)[p] = NotBanned
  BY BansAsked DEF AsksOf
<1>12. ban' \in [Nodes -> [Nodes -> BanEnds]] /\ ban'[n] = AfterIsBan(b, will) /\ \A k \in Nodes : k # n => ban'[k] = ban[k]
  BY <1>3, <1>11 DEF ConnectionsInv, ConnectionTypes
<1>13. ConnectionTypes'
  BY <1>2, <1>3, <1>5, <1>8, <1>9, <1>12 DEF ConnectionsInv, ConnectionTypes
<1>14. ASSUME breaks' = 0 PROVE Calm(dials') /\ \A k, p \in Nodes : ban'[k][p] = NotBanned
  <2>1. breaks = 0 /\ Cardinality(refused) = 0
    BY <1>2, <1>5, <1>9, <1>14
  <2>2. refused = {}
    BY <1>9, <2>1, FS_EmptySet
  <2>3. Calm(dials) /\ \A k, p \in Nodes : ban[k][p] = NotBanned
    BY <2>1 DEF ConnectionsInv
  <2>4. \A i \in DOMAIN dials : dials[i].from = n /\ dials[i].to \in S => dials[i].told /\ map[n][dials[i].to] = 0
    BY <1>1 DEF Connecting
  <2>5. Calm(dials')
    BY <1>1, <1>5, <1>7, <2>2, <2>3, <2>4, AddedCalm
  <2>6. \A p \in Nodes : ban'[n][p] = NotBanned
    BY <1>11, <1>12, <2>3 DEF AsksOf
  <2> QED
    BY <1>12, <2>3, <2>5, <2>6
<1>15. KeepsOut
  <2> SUFFICES ASSUME NEW k \in Nodes, NEW p \in Nodes, ban[k][p] = Forever, NEW i \in DOMAIN dials',
                      {dials'[i].from, dials'[i].to} = {k, p},
                      IF dials'[i].from = k THEN i \notin DOMAIN dials
                      ELSE i \in DOMAIN dials /\ dials[i].far # "up" /\ dials'[i].far = "up"
               PROVE  FALSE
    BY DEF KeepsOut, Opens
  <2>1. i \notin DOMAIN dials /\ dials'[i].from = k
    BY <1>7 DEF Added
  <2>2. k = n /\ dials'[i].to \in S /\ dials'[i].from # dials'[i].to
    BY <1>1, <1>7, <2>1 DEF Added
  <2>3. p \in S
    BY <2>1, <2>2
  <2> QED
    BY <1>1, <2>2, <2>3 DEF AsksOf
<1> QED
  BY <1>3, <1>8, <1>10, <1>13, <1>14, <1>15 DEF ConnectionsInv

LEMMA AskedOf ==
    ASSUME ConnectionsInv, NEW n \in Nodes, NEW asked
    PROVE  AsksOf(n, AfterIsBan(ban[n], asked))
<1>1. ban[n] \in [Nodes -> BanEnds]
  BY DEF ConnectionsInv, ConnectionTypes
<1> QED
  BY <1>1, BansAsked DEF AsksOf

LEMMA NewOutboundsKeeps ==
    ASSUME ConnectionsInv, NEW n \in Nodes, NewOutbounds(n)
    PROVE  ConnectionsInv' /\ KeepsOut
<1>1. PICK stored, more : /\ stored \subseteq known[n] /\ more \subseteq StaticPeers
                          /\ ConnectTo(n, stored \cup more, AfterIsBan(ban[n], known[n]))
  <2> DEFINE stored == {p \in known[n] : OnWillConnectTo(n, ban[n], p)}
             count == MinOutbound - Cardinality(Connecting(n)) - Cardinality(Remotes(n))
             more == IF Cardinality(stored) >= count THEN {}
                     ELSE StaticPeers \ ({n} \cup stored \cup Connecting(n) \cup Remotes(n))
  <2>1. ConnectTo(n, stored \cup more, AfterIsBan(ban[n], known[n]))
    BY DEF NewOutbounds
  <2>2. stored \subseteq known[n] /\ more \subseteq StaticPeers
    OBVIOUS
  <2> HIDE DEF stored, more
  <2> QED
    BY <2>1, <2>2
<1>2. stored \cup more \in SUBSET Nodes
  BY <1>1, ConnectionsAssumption DEF ConnectionsInv, ConnectionTypes
<1> QED
  BY <1>1, <1>2, AskedOf, ConnectToKeeps

LEMMA CheckConnectionsKeeps ==
    ASSUME ConnectionsInv, NEW n \in Nodes, CheckConnections(n)
    PROVE  ConnectionsInv' /\ KeepsOut
<1> DEFINE will == {p \in Validators : OnWillConnectTo(n, ban[n], p)}
<1>1. ConnectTo(n, will, AfterIsBan(ban[n], Validators)) /\ will \in SUBSET Nodes
  BY ConnectionsAssumption DEF CheckConnections
<1> HIDE DEF will
<1> QED
  BY <1>1, AskedOf, ConnectToKeeps
-----------------------------------------------------------------------------
(* Versions are exchanged, batches end.                                     *)

\* The dials es are ds with other marks: told, acked, reset.
Marked(ds, es) ==
    /\ es \in Seq(DialRecords) /\ DOMAIN es = DOMAIN ds
    /\ \A i \in DOMAIN ds : SameEnds(ds[i], es[i]) /\ es[i].time = ds[i].time /\ es[i].near = ds[i].near /\ es[i].far = ds[i].far

LEMMA MarkedFacts ==
    ASSUME NEW ds, NEW m, Dialed(ds, m), Mapped(ds, m), NEW es, Marked(ds, es)
    PROVE  /\ Dialed(es, m) /\ Mapped(es, m)
           /\ /\ Calm(ds)
              /\ \A i \in DOMAIN ds : (es[i].reset => ds[i].reset) /\ (es[i].told => ds[i].told \/ ds[i].near # "greeting")
              => Calm(es)
<1>1. Dialed(es, m)
  BY DEF Dialed, Marked, SameEnds
<1>2. /\ DOMAIN es = DOMAIN ds
      /\ \A i \in DOMAIN ds : \A n \in Nodes : (IsUp(es, n, i) <=> IsUp(ds, n, i)) /\ Remote(es[i], n) = Remote(ds[i], n)
  BY DEF Marked, SameEnds, IsUp, IsEnd, EndOf, Remote
<1>3. Mapped(es, m)
  BY <1>2 DEF Mapped
<1>4. ASSUME Calm(ds),
             \A i \in DOMAIN ds : (es[i].reset => ds[i].reset) /\ (es[i].told => ds[i].told \/ ds[i].near # "greeting")
      PROVE  Calm(es)
  <2>4. \A k \in DOMAIN ds : Untied(es, k) <=> Untied(ds, k)
    BY UntiedStays DEF Marked
  <2>1. OncePerWay(es)
    BY <1>4, <2>4 DEF Calm, OncePerWay, Marked, SameEnds
  <2>2. \A i \in DOMAIN es : Settled(es[i])
    BY <1>4 DEF Calm, Settled, Marked
  <2>3. ASSUME NEW k \in DOMAIN es, GoneEnd(es[k]), Untied(es, k) PROVE \E j : Beats(es, j, k)
    <3>1. k \in DOMAIN ds /\ GoneEnd(ds[k]) /\ Untied(ds, k)
      BY <2>3, <2>4 DEF Marked, GoneEnd
    <3>2. PICK j : Beats(ds, j, k)
      BY <1>4, <3>1 DEF Calm
    <3>3. Beats(es, j, k)
      BY <3>1, <3>2 DEF Beats, Marked, SameEnds
    <3> QED
      BY <3>3
  <2> QED
    BY <2>1, <2>2, <2>3 DEF Calm
<1> QED
  BY <1>1, <1>3, <1>4

\* What the exchange of versions leaves of the ends.
LEMMA KeptEnds ==
    ASSUME NEW ds, NEW m, Dialed(ds, m), Mapped(ds, m), NEW i \in DOMAIN ds, NEW n, IsEnd(ds[i], n),
           NEW es, NEW f, Kept(ds, m, es, f, n, i)
    PROVE  /\ DOMAIN es = DOMAIN ds
           /\ \A j \in DOMAIN ds : /\ SameDial(ds[j], es[j])
                                   /\ es[j].far = "greeting" => ds[j].far = "greeting"
                                   /\ es[j].far = "up" => ds[j].far = "up" \/ (j = i /\ ds[i].from # n)
           /\ ds[i].from # n => es[i].far # "greeting"
<1> DEFINE other == m[n][Remote(ds[i], n)]
<1>1. \/ EndPut(ds, es, n, i, "spare")
      \/ EndPut(ds, es, n, i, "up")
      \/ other # 0 /\ \E hs : EndPut(ds, hs, n, other, "closed") /\ EndPut(hs, es, n, i, "up")
  BY DEF Kept
<1>2. n \in Nodes /\ Remote(ds[i], n) \in Nodes
  BY OtherEnd DEF Dialed
<1>3. other # 0 => other \in DOMAIN ds
  BY <1>2 DEF Mapped
<1> HIDE DEF other
<1>4. CASE EndPut(ds, es, n, i, "spare")
  BY <1>4 DEF EndPut, SameDial
<1>5. CASE EndPut(ds, es, n, i, "up")
  BY <1>5 DEF EndPut, SameDial
<1>6. ASSUME other # 0, NEW hs, EndPut(ds, hs, n, other, "closed"), EndPut(hs, es, n, i, "up")
      PROVE  /\ DOMAIN es = DOMAIN ds
             /\ \A j \in DOMAIN ds : /\ SameDial(ds[j], es[j])
                                     /\ es[j].far = "greeting" => ds[j].far = "greeting"
                                     /\ es[j].far = "up" => ds[j].far = "up" \/ (j = i /\ ds[i].from # n)
             /\ ds[i].from # n => es[i].far # "greeting"
  <2>1. /\ DOMAIN hs = DOMAIN ds
        /\ \A j \in DOMAIN ds : /\ SameDial(ds[j], hs[j])
                                /\ hs[j].far = "greeting" => ds[j].far = "greeting"
                                /\ hs[j].far = "up" => ds[j].far = "up"
    BY <1>3, <1>6 DEF EndPut, SameDial
  <2>2. /\ DOMAIN es = DOMAIN hs
        /\ \A j \in DOMAIN hs : /\ SameDial(hs[j], es[j])
                                /\ es[j].far = "greeting" => hs[j].far = "greeting"
                                /\ es[j].far = "up" => hs[j].far = "up" \/ (j = i /\ hs[i].from # n)
        /\ hs[i].from # n => es[i].far # "greeting"
    BY <1>6, <2>1 DEF EndPut, SameDial
  <2>3. \A j \in DOMAIN ds : SameDial(ds[j], es[j])
    BY <2>1, <2>2 DEF SameDial
  <2>4. hs[i].from = ds[i].from
    BY <2>1 DEF SameDial
  <2> QED
    BY <2>1, <2>2, <2>3, <2>4
<1> QED
  BY <1>1, <1>4, <1>5, <1>6

LEMMA OnVersionAckKeeps ==
    ASSUME ConnectionsInv, NEW i \in DOMAIN dials, \E random \in BOOLEAN : OnVersionAck(i, random)
    PROVE  ConnectionsInv' /\ KeepsOut
<1> PICK random \in BOOLEAN : OnVersionAck(i, random)
  OBVIOUS
<1> DEFINE n == dials[i].from
           c == KeepOne(Pair(dials, map), n, i, random)
<1>1. Dialed(dials, map) /\ Mapped(dials, map) /\ dials[i].near = "greeting" /\ dials[i].acked
  BY DEF ConnectionsInv, ConnectionTypes, OnVersionAck
<1>2. /\ dials' = c.dials /\ map' = c.map /\ UNCHANGED <<known, ban, now, breaks>>
  BY DEF OnVersionAck, Becomes, Now, Pair
<1>3. IsEnd(dials[i], n) /\ EndOf(dials[i], n) = "greeting" /\ ~IsUp(dials, n, i)
  BY <1>1 DEF IsEnd, EndOf, IsUp
<1> HIDE DEF n
<1>4. Kept(dials, map, c.dials, c.map, n, i)
  BY <1>1, <1>3, KeepOneFacts
<1> HIDE DEF c
<1>5. Kept(dials, map, dials', map', n, i)
  BY <1>2, <1>4
<1>6. Dialed(dials', map') /\ Mapped(dials', map')
  BY <1>1, <1>3, <1>5, KeptMapped
<1>7. /\ DOMAIN dials' = DOMAIN dials
      /\ \A j \in DOMAIN dials : /\ SameDial(dials[j], dials'[j])
                                 /\ dials'[j].far = "greeting" => dials[j].far = "greeting"
                                 /\ dials'[j].far = "up" => dials[j].far = "up"
  <2>1. n = dials[i].from
    BY DEF n
  <2> QED
    BY <1>1, <1>3, <1>5, <2>1, KeptEnds
<1>8. AckedDecided(dials')
  BY <1>7 DEF ConnectionsInv, AckedDecided, SameDial
<1>9. dials[i].far # "greeting"
  BY <1>1 DEF ConnectionsInv, AckedDecided
<1>10. breaks = 0 => Calm(dials')
  BY <1>1, <1>3, <1>5, <1>9, KeptCalm DEF ConnectionsInv
<1>11. KeepsOut
  BY <1>7, NothingOpens DEF SameDial, SameEnds
<1> QED
  BY <1>2, <1>6, <1>8, <1>10, <1>11 DEF ConnectionsInv, ConnectionTypes

LEMMA OnInboundKeeps ==
    ASSUME ConnectionsInv, NEW i \in DOMAIN dials, \E random \in BOOLEAN : OnInbound(i, random)
    PROVE  ConnectionsInv' /\ KeepsOut
<1> PICK random \in BOOLEAN : OnInbound(i, random)
  OBVIOUS
<1> DEFINE d == dials[i]
           n == d.to
           p == d.from
           e == [d EXCEPT !.acked = TRUE]
           ds == [dials EXCEPT ![i] = e]
           c == KeepOne(Pair(ds, map), n, i, random)
           asks == EndOf(c.dials[i], n) = "up"
           banned == asks /\ IsBan(ban[n], p)
<1>1. /\ Dialed(dials, map) /\ Mapped(dials, map) /\ AckedDecided(dials) /\ dials \in Seq(DialRecords)
      /\ ban \in [Nodes -> [Nodes -> BanEnds]]
  BY DEF ConnectionsInv, ConnectionTypes, Dialed
<1>2. d \in DialRecords /\ n \in Nodes /\ p \in Nodes /\ p # n /\ d.far = "greeting"
  BY <1>1, DialAt DEF Dialed, OnInbound
<1>3. e \in DialRecords /\ e.from = p /\ e.to = n /\ e.far = "greeting" /\ e.near = d.near /\ e.time = d.time
      /\ e.told = d.told /\ e.reset = d.reset
  BY <1>2 DEF DialRecords
<1>4. [Now EXCEPT !.dials = [dials EXCEPT ![i].acked = TRUE]] = Pair(ds, map)
  <2>1. [dials EXCEPT ![i].acked = TRUE] = ds
    OBVIOUS
  <2> HIDE DEF ds
  <2>2. [Now EXCEPT !.dials = ds] = Pair(ds, map)
    BY DEF Now, Pair
  <2> QED
    BY <2>1, <2>2
<1>5. /\ Becomes(IF banned THEN CloseConnection(c, n, i) ELSE c)
      /\ ban' = [ban EXCEPT ![n] = IF asks THEN AfterIsBan(@, {p}) ELSE @]
      /\ UNCHANGED <<known, now, breaks>>
  BY <1>4 DEF OnInbound
<1> HIDE DEF e
<1>6. /\ ds \in Seq(DialRecords) /\ DOMAIN ds = DOMAIN dials
      /\ \A j \in DOMAIN dials : ds[j] = IF j = i THEN e ELSE dials[j]
  BY <1>1, <1>3, DialChanged
<1> HIDE DEF ds
<1>7. Marked(dials, ds) /\ \A j \in DOMAIN dials : ds[j].reset = dials[j].reset /\ ds[j].told = dials[j].told
  BY <1>2, <1>3, <1>6 DEF Marked, SameEnds
<1>8. Dialed(ds, map) /\ Mapped(ds, map) /\ (Calm(dials) => Calm(ds))
  BY <1>1, <1>7, MarkedFacts
<1>9. ds[i].to = n /\ ds[i].from = p /\ ds[i].far = "greeting" /\ i \in DOMAIN ds
  BY <1>3, <1>6
<1>10. IsEnd(ds[i], n) /\ EndOf(ds[i], n) = "greeting" /\ ~IsUp(ds, n, i) /\ ds[i].from # n
  BY <1>2, <1>9 DEF IsEnd, EndOf, IsUp
<1> HIDE DEF n, p, d
<1>11. c = Pair(c.dials, c.map) /\ Kept(ds, map, c.dials, c.map, n, i)
  BY <1>8, <1>9, <1>10, KeepOneFacts
<1> HIDE DEF c
<1>12. PICK es, f : c = Pair(es, f) /\ c.dials = es /\ c.map = f /\ Kept(ds, map, es, f, n, i)
  BY <1>11
<1>13. Dialed(es, f) /\ Mapped(es, f)
  BY <1>8, <1>9, <1>10, <1>12, KeptMapped
<1>14. /\ DOMAIN es = DOMAIN ds
       /\ \A j \in DOMAIN ds : /\ SameDial(ds[j], es[j])
                               /\ es[j].far = "greeting" => ds[j].far = "greeting"
                               /\ es[j].far = "up" => ds[j].far = "up" \/ j = i
       /\ es[i].far # "greeting"
  BY <1>8, <1>9, <1>10, <1>12, KeptEnds
<1>15. AckedDecided(es)
  <2> SUFFICES ASSUME NEW j \in DOMAIN es, es[j].acked PROVE es[j].far # "greeting"
    BY DEF AckedDecided
  <2>1. CASE j = i
    BY <1>14, <2>1
  <2>2. CASE j # i
    BY <1>1, <1>6, <1>14, <2>2 DEF AckedDecided, SameDial
  <2> QED
    BY <2>1, <2>2
<1>16. Calm(dials) => Calm(es)
  BY <1>8, <1>9, <1>10, <1>12, KeptCalm
<1>17. /\ \A j \in DOMAIN dials : SameEnds(dials[j], es[j]) /\ (es[j].far = "up" => dials[j].far = "up" \/ j = i)
       /\ DOMAIN es = DOMAIN dials
  BY <1>6, <1>7, <1>14 DEF Marked, SameEnds, SameDial
<1>18. es[i].from = p /\ es[i].to = n /\ EndOf(es[i], n) = es[i].far /\ Remote(es[i], n) = p /\ IsEnd(es[i], n)
  BY <1>2, <1>9, <1>14 DEF SameDial, EndOf, Remote, IsEnd
<1>19. /\ ban' \in [Nodes -> [Nodes -> BanEnds]]
       /\ (\A k, q \in Nodes : ban[k][q] = NotBanned) => \A k, q \in Nodes : ban'[k][q] = NotBanned
  <2>1. ban[n] \in [Nodes -> BanEnds]
    BY <1>1, <1>2
  <2>2. /\ AfterIsBan(ban[n], {p}) \in [Nodes -> BanEnds]
        /\ (\A q \in Nodes : ban[n][q] = NotBanned) => \A q \in Nodes : AfterIsBan(ban[n], {p})[q] = NotBanned
    BY <2>1, BansAsked
  <2>3. ban' = [ban EXCEPT ![n] = IF asks THEN AfterIsBan(ban[n], {p}) ELSE ban[n]]
    BY <1>5
  <2> HIDE DEF asks
  <2> QED
    BY <1>1, <1>2, <2>1, <2>2, <2>3
<1>20. CASE banned
  <2>1. dials' = CloseConnection(Pair(es, f), n, i).dials /\ map' = CloseConnection(Pair(es, f), n, i).map
    BY <1>5, <1>12, <1>20 DEF Becomes
  <2>2. i \in DOMAIN es /\ IsUp(es, n, i)
    BY <1>9, <1>12, <1>14, <1>18, <1>20 DEF IsUp
  <2>3. EndPut(es, dials', n, i, "closed") /\ map' = MapPut(f, n, Remote(es[i], n), 0)
    BY <1>13, <2>1, <2>2, CloseFacts
  <2>4. Dialed(dials', map') /\ Mapped(dials', map')
    BY <1>13, <2>2, <2>3, MappedClosed
  <2>5. /\ DOMAIN dials' = DOMAIN es /\ dials'[i].far = "closed" /\ SameEnds(es[i], dials'[i])
        /\ \A j \in DOMAIN es : j # i => dials'[j] = es[j]
    BY <1>2, <1>18, <2>3 DEF EndPut, SameDial, SameEnds
  <2>6. AckedDecided(dials')
    BY <1>15, <2>5 DEF AckedDecided
  <2>7. breaks # 0
    <3> SUFFICES ASSUME breaks = 0 PROVE FALSE
      OBVIOUS
    <3>1. ban[n][p] = NotBanned
      BY <1>2 DEF ConnectionsInv
    <3> QED
      BY <1>20, <3>1, ConnectionsAssumption DEF IsBan, Ended
  <2>8. KeepsOut
    <3>1. \A j \in DOMAIN dials : SameEnds(dials[j], dials'[j]) /\ (dials'[j].far = "up" => dials[j].far = "up")
      BY <1>17, <2>2, <2>5 DEF SameEnds
    <3> QED
      BY <1>17, <2>5, <3>1, NothingOpens
  <2> HIDE DEF banned
  <2> QED
    BY <1>5, <1>19, <2>4, <2>6, <2>7, <2>8 DEF ConnectionsInv, ConnectionTypes
<1>21. CASE ~banned
  <2>1. dials' = es /\ map' = f
    BY <1>5, <1>12, <1>21 DEF Becomes
  <2>2. KeepsOut
    <3> SUFFICES ASSUME NEW k \in Nodes, NEW q \in Nodes, ban[k][q] = Forever, NEW j \in DOMAIN dials',
                        {dials'[j].from, dials'[j].to} = {k, q},
                        IF dials'[j].from = k THEN j \notin DOMAIN dials
                        ELSE j \in DOMAIN dials /\ dials[j].far # "up" /\ dials'[j].far = "up"
                 PROVE  FALSE
      BY DEF KeepsOut, Opens
    <3>1. j = i /\ es[i].far = "up" /\ es[i].from # k
      BY <1>17, <2>1
    <3>2. k = n /\ q = p
      BY <1>18, <2>1, <3>1
    <3>3. asks
      BY <1>12, <1>18, <3>1
    <3> QED
      BY <1>21, <3>2, <3>3 DEF IsBan
  <2> HIDE DEF banned
  <2> QED
    BY <1>5, <1>13, <1>15, <1>16, <1>19, <2>1, <2>2 DEF ConnectionsInv, ConnectionTypes
<1> QED
  BY <1>20, <1>21
LEMMA BatchEndsKeeps ==
    ASSUME ConnectionsInv, NEW i \in DOMAIN dials, BatchEnds(i)
    PROVE  ConnectionsInv' /\ KeepsOut
<1> DEFINE n == dials[i].from
           batch == {j \in DOMAIN dials : dials[j].batch = dials[i].batch}
           To(states) == {dials[j].to : j \in {k \in batch : dials[k].near \in states}}
           ends(j) == IF j \in batch THEN [dials[j] EXCEPT !.told = TRUE] ELSE dials[j]
<1>1. /\ Dialed(dials, map) /\ Mapped(dials, map) /\ AckedDecided(dials) /\ dials \in Seq(DialRecords)
      /\ known \in [Nodes -> SUBSET Nodes]
  BY DEF ConnectionsInv, ConnectionTypes, Dialed
<1>2. /\ \A j \in batch : dials[j].near # "greeting"
      /\ dials' = [j \in DOMAIN dials |-> ends(j)]
      /\ known' = [known EXCEPT ![n] = (@ \cup To({"up", "closed"})) \ To({"failed"})]
      /\ UNCHANGED <<map, ban, now, breaks>>
  BY DEF BatchEnds
<1>3. ASSUME NEW j \in DOMAIN dials
      PROVE  /\ ends(j) \in DialRecords /\ SameEnds(dials[j], ends(j)) /\ ends(j).time = dials[j].time
             /\ ends(j).near = dials[j].near /\ ends(j).far = dials[j].far
             /\ ends(j).reset = dials[j].reset /\ ends(j).acked = dials[j].acked
             /\ ends(j).told => dials[j].told \/ dials[j].near # "greeting"
  <2>1. dials[j] \in DialRecords
    BY <1>1, DialAt
  <2> HIDE DEF batch
  <2> QED
    BY <1>2, <2>1 DEF DialRecords, SameEnds
<1>4. known' \in [Nodes -> SUBSET Nodes]
  <2>1. \A j \in DOMAIN dials : dials[j].to \in Nodes
    BY <1>1, DialAt
  <2>2. To({"up", "closed"}) \subseteq Nodes
    BY <2>1
  <2> HIDE DEF To, n
  <2> QED
    BY <1>1, <1>2, <2>2
<1> HIDE DEF ends, batch, To, n
<1>5. dials' \in Seq(DialRecords) /\ DOMAIN dials' = DOMAIN dials /\ \A j \in DOMAIN dials : dials'[j] = ends(j)
  <2>1. DOMAIN dials = 1 .. Len(dials) /\ Len(dials) \in Nat
    BY <1>1, LenProperties
  <2>2. dials' \in [1 .. Len(dials) -> DialRecords]
    BY <1>2, <1>3, <2>1
  <2> QED
    BY <1>2, <2>1, <2>2
<1>6. Marked(dials, dials')
  BY <1>3, <1>5 DEF Marked, SameEnds
<1>7. \A j \in DOMAIN dials : /\ dials'[j].reset => dials[j].reset
                              /\ dials'[j].told => dials[j].told \/ dials[j].near # "greeting"
                              /\ dials'[j].acked = dials[j].acked
  BY <1>3, <1>5
<1>8. Dialed(dials', map) /\ Mapped(dials', map) /\ (Calm(dials) => Calm(dials'))
  BY <1>1, <1>6, <1>7, MarkedFacts
<1>9. AckedDecided(dials')
  BY <1>1, <1>6, <1>7 DEF AckedDecided, Marked
<1>10. KeepsOut
  BY <1>6, NothingOpens DEF Marked
<1> QED
  BY <1>2, <1>4, <1>8, <1>9, <1>10 DEF ConnectionsInv, ConnectionTypes

-----------------------------------------------------------------------------
(* Losing a peer.                                                           *)

LEMMA BreakKeeps ==
    ASSUME ConnectionsInv, NEW i \in DOMAIN dials, Break(i)
    PROVE  ConnectionsInv' /\ KeepsOut
<1> DEFINE e == [dials[i] EXCEPT !.reset = TRUE]
<1>1. /\ Dialed(dials, map) /\ Mapped(dials, map) /\ AckedDecided(dials) /\ dials \in Seq(DialRecords)
      /\ breaks \in Nat
  BY DEF ConnectionsInv, ConnectionTypes, Dialed
<1>2. dials' = [dials EXCEPT ![i] = e] /\ breaks' = breaks + 1 /\ UNCHANGED <<map, known, ban, now>>
  BY DEF Break
<1>3. dials[i] \in DialRecords
  BY <1>1, DialAt
<1>4. /\ e \in DialRecords /\ SameEnds(dials[i], e) /\ e.time = dials[i].time
      /\ e.near = dials[i].near /\ e.far = dials[i].far /\ e.acked = dials[i].acked
  BY <1>3 DEF DialRecords, SameEnds
<1> HIDE DEF e
<1>5. /\ dials' \in Seq(DialRecords) /\ DOMAIN dials' = DOMAIN dials
      /\ \A j \in DOMAIN dials : dials'[j] = IF j = i THEN e ELSE dials[j]
  BY <1>1, <1>2, <1>4, DialChanged
<1>6. Marked(dials, dials') /\ \A j \in DOMAIN dials : dials'[j].acked = dials[j].acked
  BY <1>4, <1>5 DEF Marked, SameEnds
<1>7. Dialed(dials', map) /\ Mapped(dials', map)
  BY <1>1, <1>6, MarkedFacts
<1>8. AckedDecided(dials')
  BY <1>1, <1>6 DEF AckedDecided, Marked
<1>9. KeepsOut
  BY <1>6, NothingOpens DEF Marked
<1>10. breaks' # 0 /\ breaks' \in Nat
  BY <1>1, <1>2
<1> QED
  BY <1>2, <1>7, <1>8, <1>9, <1>10 DEF ConnectionsInv, ConnectionTypes

\* What closing or failing an end leaves: the far ends that are up are no more.
LEMMA EndLost ==
    ASSUME Dialed(dials, map), AckedDecided(dials), NEW i \in DOMAIN dials, NEW n, NEW state, state \in {"closed", "failed"},
           EndPut(dials, dials', n, i, state)
    PROVE  AckedDecided(dials') /\ KeepsOut
<1>1. /\ DOMAIN dials' = DOMAIN dials
      /\ \A j \in DOMAIN dials : /\ SameDial(dials[j], dials'[j])
                                 /\ dials'[j].far = "greeting" => dials[j].far = "greeting"
                                 /\ dials'[j].far = "up" => dials[j].far = "up"
  BY DEF EndPut, SameDial
<1>2. AckedDecided(dials')
  BY <1>1 DEF AckedDecided, SameDial
<1>3. \A j \in DOMAIN dials : SameEnds(dials[j], dials'[j]) /\ (dials'[j].far = "up" => dials[j].far = "up")
  BY <1>1 DEF SameDial, SameEnds
<1>4. KeepsOut
  BY <1>1, <1>3, NothingOpens
<1> QED
  BY <1>2, <1>4

\* An end that closes because the other end is gone is no loss of the dial that stays.
LEMMA ClosedCalm ==
    ASSUME NEW ds, NEW m, Dialed(ds, m), Calm(ds), NEW i \in DOMAIN ds, NEW n, IsUp(ds, n, i), GoneEnd(ds[i]),
           NEW es, EndPut(ds, es, n, i, "closed")
    PROVE  Calm(es)
<1>1. /\ DOMAIN es = DOMAIN ds
      /\ \A j \in DOMAIN ds : SameDial(ds[j], es[j])
      /\ \A j \in DOMAIN ds : j # i => es[j] = ds[j]
  BY DEF EndPut, SameDial
<1>2. OncePerWay(es) /\ \A k \in DOMAIN ds : Untied(es, k) <=> Untied(ds, k)
  BY <1>1, StaysOnce DEF Calm
<1>3. ds \in Seq(DialRecords)
  BY DEF Dialed
<1>4. \A j \in DOMAIN es : Settled(es[j])
  <2>1. Settled(es[i])
    BY <1>1 DEF Calm, Settled, EndPut, SameDial, IsUp, IsEnd, EndOf
  <2> QED
    BY <1>1, <2>1 DEF Calm
<1>6. ASSUME NEW k \in DOMAIN es, GoneEnd(es[k]), Untied(es, k) PROVE \E j : Beats(es, j, k)
  <2>4. k \in DOMAIN ds /\ Untied(ds, k) /\ GoneEnd(ds[k])
    BY <1>1, <1>2, <1>6
  <2>1. PICK j : Beats(ds, j, k)
    BY <2>4 DEF Calm
  <2>2. j # i
    <3> SUFFICES ASSUME j = i PROVE FALSE
      OBVIOUS
    <3>2. SameTwo(ds[i], ds[k]) /\ SameTwo(ds[k], ds[i])
      BY <2>1 DEF Beats, SameTwo
    <3>3. Untied(ds, i)
      BY <2>4, <3>2, UntiedFacts
    <3>4. PICK b : Beats(ds, b, i)
      BY <3>3 DEF Calm
    <3>1. b = k
      BY <2>1, <2>4, <3>4 DEF Beats, Calm, OncePerWay
    <3> QED
      BY <1>3, <2>1, <2>4, <3>1, <3>4, DialAt DEF Beats
  <2>3. Beats(es, j, k)
    BY <1>1, <1>6, <2>1, <2>2 DEF Beats, SameDial
  <2> QED
    BY <2>3
<1> QED
  BY <1>2, <1>4, <1>6 DEF Calm

LEMMA OnErrorKeeps ==
    ASSUME ConnectionsInv, NEW n \in Nodes, NEW i \in DOMAIN dials, OnError(n, i)
    PROVE  ConnectionsInv' /\ KeepsOut
<1>1. /\ Dialed(dials, map) /\ Mapped(dials, map) /\ AckedDecided(dials) /\ dials \in Seq(DialRecords)
      /\ breaks = 0 => Calm(dials)
  BY DEF ConnectionsInv, ConnectionTypes, Dialed
<1>2. IsEnd(dials[i], n) /\ UNCHANGED <<known, ban, now, breaks>>
  BY DEF OnError
<1>3. CASE /\ EndOf(dials[i], n) = "up" /\ (dials[i].reset \/ Gone(EndOf(dials[i], Remote(dials[i], n))))
           /\ Becomes(CloseConnection(Now, n, i))
  <2>1. IsUp(dials, n, i)
    BY <1>2, <1>3 DEF IsUp
  <2>2. EndPut(dials, dials', n, i, "closed") /\ map' = MapPut(map, n, Remote(dials[i], n), 0)
    <3>1. dials' = CloseConnection(Pair(dials, map), n, i).dials /\ map' = CloseConnection(Pair(dials, map), n, i).map
      BY <1>3 DEF Becomes, Now, Pair
    <3> QED
      BY <1>1, <3>1, CloseFacts
  <2>3. Dialed(dials', map') /\ Mapped(dials', map')
    BY <1>1, <2>1, <2>2, MappedClosed
  <2>4. AckedDecided(dials') /\ KeepsOut
    BY <1>1, <2>2, EndLost
  <2>5. ASSUME breaks = 0 PROVE Calm(dials')
    <3>1. GoneEnd(dials[i])
      BY <1>1, <1>3, <2>5 DEF Calm, Settled, GoneEnd, EndOf
    <3> QED
      BY <1>1, <2>1, <2>2, <2>5, <3>1, ClosedCalm
  <2> QED
    BY <1>2, <2>3, <2>4, <2>5 DEF ConnectionsInv, ConnectionTypes
<1>4. CASE /\ EndOf(dials[i], n) = "greeting" /\ dials[i].reset
           /\ Becomes([Now EXCEPT !.dials = Put(@, n, i, "failed")])
  <2>1. dials' = Put(dials, n, i, "failed") /\ map' = map
    BY <1>4 DEF Becomes, Now
  <2>2. EndPut(dials, dials', n, i, "failed")
    <3>1. "failed" \in EndStates
      BY DEF EndStates
    <3> QED
      BY <1>1, <2>1, <3>1, PutFacts
  <2>3. ~IsUp(dials, n, i)
    BY <1>4 DEF IsUp
  <2>4. Dialed(dials', map) /\ Mapped(dials', map)
    BY <1>1, <1>2, <2>2, <2>3, MappedAside
  <2>5. AckedDecided(dials') /\ KeepsOut
    BY <1>1, <2>2, EndLost
  <2>6. breaks # 0
    BY <1>1, <1>4 DEF Calm, Settled
  <2> QED
    BY <1>2, <2>1, <2>4, <2>5, <2>6 DEF ConnectionsInv, ConnectionTypes
<1> QED
  BY <1>3, <1>4 DEF OnError

LEMMA BanConnectionKeeps ==
    ASSUME ConnectionsInv, NEW n \in Nodes, NEW p \in Nodes, NEW length \in Bans, BanConnection(n, p, length)
    PROVE  ConnectionsInv' /\ KeepsOut
<1> DEFINE i == map[n][p]
           end == IF length = Forever THEN Forever ELSE now + length
<1>1. /\ Dialed(dials, map) /\ Mapped(dials, map) /\ AckedDecided(dials) /\ dials \in Seq(DialRecords)
      /\ known \in [Nodes -> SUBSET Nodes] /\ ban \in [Nodes -> [Nodes -> BanEnds]]
      /\ now \in Nat /\ breaks \in Nat
  BY DEF ConnectionsInv, ConnectionTypes, Dialed
<1>2. /\ breaks' = breaks + 1 /\ now' = now
      /\ ban' = [ban EXCEPT ![n][p] = end] /\ known' = [known EXCEPT ![n] = @ \ {p}]
      /\ Becomes(IF i = 0 THEN Now ELSE CloseConnection(Now, n, i))
  BY DEF BanConnection
<1>3. end \in BanEnds
  BY <1>1, ConnectionsAssumption DEF BanEnds
<1> HIDE DEF end
<1>4. ban' \in [Nodes -> [Nodes -> BanEnds]] /\ known' \in [Nodes -> SUBSET Nodes] /\ now' \in Nat
  BY <1>1, <1>2, <1>3
<1>5. breaks' \in Nat /\ breaks' # 0
  BY <1>1, <1>2
<1>6. CASE i = 0
  <2>1. dials' = dials /\ map' = map
    BY <1>2, <1>6 DEF Becomes, Now
  <2>2. KeepsOut
    BY <2>1, NothingOpens DEF SameEnds
  <2> QED
    BY <1>1, <1>4, <1>5, <2>1, <2>2 DEF ConnectionsInv, ConnectionTypes
<1>7. CASE i # 0
  <2>1. i \in DOMAIN dials /\ IsUp(dials, n, i)
    BY <1>1, <1>7 DEF Mapped
  <2>2. dials' = CloseConnection(Pair(dials, map), n, i).dials /\ map' = CloseConnection(Pair(dials, map), n, i).map
    BY <1>2, <1>7 DEF Becomes, Now, Pair
  <2> HIDE DEF i
  <2>3. EndPut(dials, dials', n, i, "closed") /\ map' = MapPut(map, n, Remote(dials[i], n), 0)
    BY <1>1, <2>1, <2>2, CloseFacts
  <2>4. Dialed(dials', map') /\ Mapped(dials', map')
    BY <1>1, <2>1, <2>3, MappedClosed
  <2>5. AckedDecided(dials') /\ KeepsOut
    BY <1>1, <2>1, <2>3, EndLost
  <2> QED
    BY <1>4, <1>5, <2>4, <2>5 DEF ConnectionsInv, ConnectionTypes
<1> QED
  BY <1>6, <1>7

LEMMA ConnectionsStep ==
    ConnectionsInv /\ [ConnectionsNext]_connectionVars => ConnectionsInv' /\ (KeepsOut \/ UNCHANGED connectionVars)
<1> SUFFICES ASSUME ConnectionsInv, [ConnectionsNext]_connectionVars
             PROVE  ConnectionsInv' /\ (KeepsOut \/ UNCHANGED connectionVars)
  OBVIOUS
<1>1. ASSUME NEW n \in Nodes, NewOutbounds(n) PROVE ConnectionsInv' /\ KeepsOut
  BY <1>1, NewOutboundsKeeps
<1>2. ASSUME NEW n \in Nodes, CheckConnections(n) PROVE ConnectionsInv' /\ KeepsOut
  BY <1>2, CheckConnectionsKeeps
<1>3. ASSUME NEW i \in DOMAIN dials, \E random \in BOOLEAN : OnInbound(i, random) PROVE ConnectionsInv' /\ KeepsOut
  BY <1>3, OnInboundKeeps
<1>4. ASSUME NEW i \in DOMAIN dials, \E random \in BOOLEAN : OnVersionAck(i, random) PROVE ConnectionsInv' /\ KeepsOut
  BY <1>4, OnVersionAckKeeps
<1>5. ASSUME NEW i \in DOMAIN dials, BatchEnds(i) PROVE ConnectionsInv' /\ KeepsOut
  BY <1>5, BatchEndsKeeps
<1>6. ASSUME NEW i \in DOMAIN dials, Break(i) PROVE ConnectionsInv' /\ KeepsOut
  BY <1>6, BreakKeeps
<1>7. ASSUME NEW n \in Nodes, NEW i \in DOMAIN dials, OnError(n, i) PROVE ConnectionsInv' /\ KeepsOut
  BY <1>7, OnErrorKeeps
<1>8. ASSUME NEW n \in Nodes, NEW p \in Nodes, NEW length \in Bans, BanConnection(n, p, length)
      PROVE  ConnectionsInv' /\ KeepsOut
  BY <1>8, BanConnectionKeeps
<1>9. CASE Tick
  <2>1. KeepsOut
    BY <1>9, NothingOpens DEF Tick, SameEnds
  <2> QED
    BY <1>9, <2>1 DEF Tick, ConnectionsInv, ConnectionTypes
<1>10. CASE UNCHANGED connectionVars
  BY <1>10 DEF connectionVars, ConnectionsInv, ConnectionTypes
<1> QED
  BY <1>1, <1>2, <1>3, <1>4, <1>5, <1>6, <1>7, <1>8, <1>9, <1>10 DEF ConnectionsNext

-----------------------------------------------------------------------------
(* What the invariant says of the connections of two nodes.                 *)

LEMMA MapAgreesHolds == ConnectionsInv => MapAgrees
<1> SUFFICES ASSUME ConnectionsInv, NEW n \in Nodes, NEW p \in Nodes, p # n
             PROVE  {i \in Between(n, p) : EndOf(dials[i], n) = "up"} = {map[n][p]} \ {0}
  BY DEF MapAgrees
<1>1. Mapped(dials, map) /\ dials \in Seq(DialRecords) /\ \A i \in DOMAIN dials : dials[i].from # dials[i].to /\ i # 0
  BY DialAt DEF ConnectionsInv, ConnectionTypes, Dialed
<1>2. ASSUME NEW i \in Between(n, p), EndOf(dials[i], n) = "up" PROVE i \in {map[n][p]} \ {0}
  <2>1. i \in DOMAIN dials /\ IsUp(dials, n, i) /\ Remote(dials[i], n) = p
    BY <1>1, <1>2 DEF Between, IsUp, IsEnd, Remote
  <2> QED
    BY <1>1, <2>1 DEF Mapped
<1>3. ASSUME NEW i \in {map[n][p]} \ {0} PROVE i \in Between(n, p) /\ EndOf(dials[i], n) = "up"
  <2>1. i \in DOMAIN dials /\ IsUp(dials, n, i) /\ Remote(dials[i], n) = p
    BY <1>1, <1>3 DEF Mapped
  <2> QED
    BY <1>1, <2>1 DEF Between, IsUp, IsEnd, Remote
<1> QED
  BY <1>2, <1>3

LEMMA OneSurvivesHolds == ConnectionsInv => OneSurvives
<1> SUFFICES ASSUME ConnectionsInv, breaks = 0, NEW n \in Nodes, NEW p \in Nodes, NEW k \in Between(n, p),
                    NoTie(n, p), ~\E i \in Between(n, p) : "greeting" \in {dials[i].near, dials[i].far}
             PROVE  Cardinality({i \in Between(n, p) : dials[i].near = "up" /\ dials[i].far = "up"}) = 1
  BY DEF OneSurvives, HaveOne
<1>1. /\ Mapped(dials, map) /\ dials \in Seq(DialRecords) /\ \A i \in DOMAIN dials : dials[i].from # dials[i].to
      /\ Calm(dials)
  BY DEF ConnectionsInv, ConnectionTypes, Dialed
<1>7. \A i \in Between(n, p) : i \in DOMAIN dials /\ Untied(dials, i)
  <2> SUFFICES ASSUME NEW i \in Between(n, p), NEW h \in DOMAIN dials, NEW j \in DOMAIN dials, h # j,
                      SameTwo(dials[h], dials[i]), SameTwo(dials[j], dials[i])
               PROVE  dials[h].time # dials[j].time
    BY DEF Untied, Between
  <2>1. h \in Between(n, p) /\ j \in Between(n, p)
    BY DEF Between, SameTwo
  <2> QED
    BY <2>1 DEF NoTie
<1> DEFINE Both(i) == i \in Between(n, p) /\ dials[i].near = "up" /\ dials[i].far = "up"
<1>2. ASSUME NEW i \in Between(n, p) PROVE Both(i) \/ GoneEnd(dials[i])
  <2>1. dials[i].near \in EndStates /\ dials[i].far \in EndStates
    BY <1>1, DialAt DEF Between
  <2> QED
    BY <2>1 DEF EndStates, GoneEnd, Gone
<1>3. \E i : Both(i)
  <2>1. CASE Both(k)
    BY <2>1
  <2>2. CASE ~Both(k)
    <3>1. PICK j : Beats(dials, j, k)
      BY <1>1, <1>2, <1>7, <2>2 DEF Calm
    <3>2. j \in Between(n, p)
      BY <3>1 DEF Beats, Between
    <3>3. ~GoneEnd(dials[j])
      <4> SUFFICES ASSUME GoneEnd(dials[j]) PROVE FALSE
        OBVIOUS
      <4>1. PICK b : Beats(dials, b, j)
        BY <1>1, <1>7, <3>2 DEF Calm
      <4>2. b = k
        BY <1>1, <1>7, <3>1, <4>1 DEF Beats, Calm, OncePerWay
      <4> QED
        BY <1>1, <1>7, <3>1, <3>2, <4>1, <4>2, DialAt DEF Beats
    <3> QED
      BY <1>2, <3>2, <3>3
  <2> QED
    BY <2>1, <2>2
<1>4. ASSUME NEW i, NEW j, Both(i), Both(j) PROVE i = j
  <2>1. ASSUME NEW b, Both(b) PROVE b \in DOMAIN dials /\ IsUp(dials, n, b) /\ Remote(dials[b], n) = p
    BY <1>1, <2>1 DEF Between, IsUp, IsEnd, EndOf, Remote
  <2> QED
    BY <1>1, <1>4, <2>1 DEF Mapped
<1>5. PICK i : Both(i)
  BY <1>3
<1>6. {j \in Between(n, p) : dials[j].near = "up" /\ dials[j].far = "up"} = {i}
  BY <1>4, <1>5
<1> QED
  BY <1>6, FS_Singleton

\* The map of a node has the connections of its lists, one for a peer, whatever breaks, closes or
\* is banned and however ties of the versions are broken at each end; and as long as nothing broke,
\* two nodes that dialed each other at different times keep one connection, the same (connectTo and
\* _onInbound, net/node.ts:153-221, 321-392): for every set of nodes and of timestamps, and however
\* the versions of other pairs tie.
THEOREM ConnectionsStayAgreed == ConnectionsSpec => []ConnectionsAgree
<1>1. ConnectionsInv => ConnectionsAgree
  BY MapAgreesHolds, OneSurvivesHolds DEF ConnectionsAgree
<1> QED
  BY <1>1, ConnectionsInitInv, ConnectionsStep, PTL DEF ConnectionsSpec

\* Who is banned for ever is neither dialed nor let in (_isBan at 'inbound', block/network.ts:234,
\* and _onWillConnectTo, :255): a ban that has no end is never dropped by _isBan.
THEOREM WhoIsBannedStaysOut == ConnectionsSpec => BannedOut
<1>1. KeepsOut \/ UNCHANGED connectionVars
         => [\A n, p \in Nodes : ban[n][p] = Forever => ~Opens(n, p)]_connectionVars
  BY DEF KeepsOut
<1> QED
  BY <1>1, ConnectionsInitInv, ConnectionsStep, PTL DEF ConnectionsSpec, BannedOut

-----------------------------------------------------------------------------
(* Sequences taken apart.                                                  *)

\* The first l elements of a sequence and the others.
Parts(s, l, S, first, rest) ==
    /\ first \in Seq(S) /\ Len(first) = l /\ \A i \in 1 .. l : first[i] = s[i]
    /\ rest \in Seq(S) /\ Len(rest) = Len(s) - l /\ \A i \in 1 .. Len(s) - l : rest[i] = s[l + i]

LEMMA PartsOf ==
    ASSUME NEW S, NEW s \in Seq(S), NEW l \in 0 .. Len(s)
    PROVE  Parts(s, l, S, SubSeq(s, 1, l), SubSeq(s, l + 1, Len(s)))
<1> DEFINE t == SubSeq(s, l + 1, Len(s))
           f == SubSeq(s, 1, l)
<1>1. Len(s) \in Nat /\ l \in Nat /\ l <= Len(s) /\ \A i \in 1 .. Len(s) : s[i] \in S
  BY LenProperties, ElementOfSeq
<1>2. \A i \in l + 1 .. Len(s) : s[i] \in S
  BY <1>1
<1>3. /\ t \in Seq(S)
      /\ Len(t) = IF l + 1 <= Len(s) THEN Len(s) - (l + 1) + 1 ELSE 0
      /\ \A i \in 1 .. Len(s) - (l + 1) + 1 : t[i] = s[(l + 1) + i - 1]
  <2>1. l + 1 \in Int /\ Len(s) \in Int
    BY <1>1
  <2> QED
    BY <1>2, <2>1, SubSeqProperties
<1>4. \A i \in 1 .. l : s[i] \in S
  BY <1>1
<1>5. /\ f \in Seq(S)
      /\ Len(f) = IF 1 <= l THEN l - 1 + 1 ELSE 0
      /\ \A i \in 1 .. l - 1 + 1 : f[i] = s[1 + i - 1]
  <2>1. 1 \in Int /\ l \in Int
    BY <1>1
  <2> QED
    BY <1>4, <2>1, SubSeqProperties
<1> HIDE DEF t, f
<1>6. Len(t) = Len(s) - l
  <2>1. Len(t) = IF l + 1 <= Len(s) THEN Len(s) - (l + 1) + 1 ELSE 0
    BY <1>3
  <2> QED
    BY <1>1, <2>1
<1>7. ASSUME NEW i \in 1 .. Len(s) - l PROVE t[i] = s[l + i]
  <2>1. i \in 1 .. Len(s) - (l + 1) + 1 /\ (l + 1) + i - 1 = l + i
    BY <1>1
  <2> QED
    BY <1>3, <2>1
<1>8. Len(f) = l
  <2>1. Len(f) = IF 1 <= l THEN l - 1 + 1 ELSE 0
    BY <1>5
  <2> QED
    BY <1>1, <2>1
<1>9. ASSUME NEW i \in 1 .. l PROVE f[i] = s[i]
  <2>1. i \in 1 .. l - 1 + 1 /\ 1 + i - 1 = i
    BY <1>1
  <2> QED
    BY <1>5, <2>1
<1> QED
  BY <1>3, <1>5, <1>6, <1>7, <1>8, <1>9 DEF Parts, t, f

\* What is left of a sequence that another one continues.
LEMMA RestContinued ==
    ASSUME NEW S, NEW s \in Seq(S), NEW t \in Seq(S), NEW l \in 0 .. Len(s)
    PROVE  SubSeq(s \o t, l + 1, Len(s \o t)) = SubSeq(s, l + 1, Len(s)) \o t
<1> DEFINE u == s \o t
           m == Len(s)
           n == Len(t)
           r == SubSeq(s, l + 1, m)
           v == SubSeq(u, l + 1, Len(u))
           w == r \o t
<1>1. m \in Nat /\ n \in Nat /\ l \in Nat /\ l <= m
  BY LenProperties
<1>2. u \in Seq(S) /\ Len(u) = m + n /\ \A i \in 1 .. m + n : u[i] = IF i <= m THEN s[i] ELSE t[i - m]
  BY ConcatProperties
<1>3. r \in Seq(S) /\ Len(r) = m - l /\ \A i \in 1 .. m - l : r[i] = s[l + i]
  BY PartsOf DEF Parts
<1> HIDE DEF u
<1>4. v \in Seq(S) /\ Len(v) = Len(u) - l /\ \A i \in 1 .. Len(u) - l : v[i] = u[l + i]
  <2>1. l \in 0 .. Len(u)
    BY <1>1, <1>2
  <2> QED
    BY <1>2, <2>1, PartsOf DEF Parts
<1> HIDE DEF r, v
<1>5. w \in Seq(S) /\ Len(w) = (m - l) + n /\ \A i \in 1 .. (m - l) + n : w[i] = IF i <= m - l THEN r[i] ELSE t[i - (m - l)]
  <2>1. w \in Seq(S) /\ Len(w) = Len(r) + n /\ \A i \in 1 .. Len(r) + n : w[i] = IF i <= Len(r) THEN r[i] ELSE t[i - Len(r)]
    BY <1>3, ConcatProperties
  <2> QED
    BY <1>3, <2>1
<1> HIDE DEF w, m, n
<1>6. Len(v) = Len(w)
  BY <1>1, <1>2, <1>4, <1>5
<1>7. ASSUME NEW i \in 1 .. Len(v) PROVE v[i] = w[i]
  <2>1. i \in 1 .. Len(u) - l /\ i \in 1 .. (m - l) + n /\ l + i \in 1 .. m + n
    BY <1>1, <1>2, <1>4
  <2>2. CASE i <= m - l
    <3>1. l + i <= m /\ i \in 1 .. m - l
      BY <1>1, <2>1, <2>2
    <3>2. v[i] = s[l + i] /\ w[i] = r[i] /\ r[i] = s[l + i]
      BY <1>2, <1>3, <1>4, <1>5, <2>1, <2>2, <3>1
    <3> QED
      BY <3>2
  <2>3. CASE ~(i <= m - l)
    <3>1. ~(l + i <= m) /\ (l + i) - m = i - (m - l)
      BY <1>1, <2>1, <2>3
    <3>2. v[i] = t[(l + i) - m] /\ w[i] = t[i - (m - l)]
      BY <1>2, <1>4, <1>5, <2>1, <2>3, <3>1
    <3> QED
      BY <3>1, <3>2
  <2> QED
    BY <2>2, <2>3
<1>8. v = w
  BY <1>4, <1>5, <1>6, <1>7, SeqEqual
<1> QED
  BY <1>8 DEF v, w, r, u, m

-----------------------------------------------------------------------------
(* Bytes in a row.                                                          *)

\* The bytes of the first a packages, the byte after the first k of package p, and after b.
ByteNames(a) == (1 .. a) \X Nat
After(p, k) == IF k = 0 \/ k < TotalLength(p) THEN <<p, k + 1>> ELSE <<p + 1, 1>>
NextByte(b) == After(b[1], b[2])

\* The bytes of s are those from b on, up to the one before c.
InRow(s, b, c, a) ==
    /\ s \in Seq(ByteNames(a))
    /\ Len(s) = 0 => b = c
    /\ Len(s) > 0 => s[1] = b /\ c = NextByte(s[Len(s)])
    /\ \A i \in 1 .. Len(s) - 1 : s[i + 1] = NextByte(s[i])

LEMMA PackageLengths ==
    ASSUME NEW p \in DOMAIN Packages
    PROVE  /\ Packages[p].body \in Nat /\ Packages[p].data \in Nat /\ HeaderLength \in Nat /\ HeaderLength >= 1
           /\ TotalLength(p) = HeaderLength + Packages[p].body + Packages[p].data
           /\ TotalLength(p) \in Nat /\ TotalLength(p) >= 1 /\ p \in Nat /\ p >= 1
<1>1. Packages[p] \in [body : Nat, data : Nat] /\ p \in Nat /\ p >= 1
  <2>1. DOMAIN Packages = 1 .. Len(Packages) /\ Len(Packages) \in Nat
    BY StreamAssumption, LenProperties
  <2>2. Packages \in [1 .. Len(Packages) -> [body : Nat, data : Nat]]
    BY StreamAssumption, LenProperties
  <2> QED
    BY <2>1, <2>2
<1>2. Packages[p].body \in Nat /\ Packages[p].data \in Nat
  BY <1>1
<1>3. HeaderLength \in Nat /\ HeaderLength >= 1
  BY StreamAssumption
<1> QED
  BY <1>1, <1>2, <1>3 DEF TotalLength

LEMMA RowOfMore ==
    ASSUME NEW a \in Nat, NEW d \in Nat, a <= d, NEW s, NEW b, NEW c, InRow(s, b, c, a)
    PROVE  InRow(s, b, c, d)
<1>1. ByteNames(a) \subseteq ByteNames(d)
  BY DEF ByteNames
<1>2. s \in Seq(ByteNames(d))
  BY <1>1, SeqMonotonic DEF InRow
<1> QED
  BY <1>2 DEF InRow

LEMMA RowsJoined ==
    ASSUME NEW a \in Nat, NEW s, NEW t, NEW b, NEW c, NEW d, InRow(s, b, c, a), InRow(t, c, d, a)
    PROVE  InRow(s \o t, b, d, a)
<1> DEFINE m == Len(s)
           n == Len(t)
           u == s \o t
<1>1. s \in Seq(ByteNames(a)) /\ t \in Seq(ByteNames(a)) /\ m \in Nat /\ n \in Nat
  BY LenProperties DEF InRow
<1>2. /\ u \in Seq(ByteNames(a)) /\ Len(u) = m + n
      /\ \A i \in 1 .. m + n : u[i] = IF i <= m THEN s[i] ELSE t[i - m]
  BY <1>1, ConcatProperties
<1>3. /\ m = 0 => b = c
      /\ m > 0 => s[1] = b /\ c = NextByte(s[m])
      /\ \A i \in 1 .. m - 1 : s[i + 1] = NextByte(s[i])
      /\ n = 0 => c = d
      /\ n > 0 => t[1] = c /\ d = NextByte(t[n])
      /\ \A i \in 1 .. n - 1 : t[i + 1] = NextByte(t[i])
  BY DEF InRow
<1> HIDE DEF u, m, n
<1>4. m + n = 0 => b = d
  BY <1>1, <1>3
<1>5. m + n > 0 => u[1] = b /\ d = NextByte(u[m + n])
  <2>1. CASE n = 0
    BY <1>1, <1>2, <1>3, <2>1
  <2>2. CASE n > 0 /\ m = 0
    BY <1>1, <1>2, <1>3, <2>2
  <2>3. CASE n > 0 /\ m > 0
    <3>1. u[1] = s[1]
      <4>1. 1 \in 1 .. m + n /\ 1 <= m
        BY <1>1, <2>3
      <4> QED
        BY <1>2, <4>1
    <3>2. u[m + n] = t[n]
      <4>1. m + n \in 1 .. m + n /\ ~(m + n <= m) /\ (m + n) - m = n
        BY <1>1, <2>3
      <4> QED
        BY <1>2, <4>1
    <3> QED
      BY <1>3, <2>3, <3>1, <3>2
  <2> QED
    BY <1>1, <2>1, <2>2, <2>3
<1>6. ASSUME NEW i \in 1 .. (m + n) - 1 PROVE u[i + 1] = NextByte(u[i])
  <2>1. i \in 1 .. m + n /\ i + 1 \in 1 .. m + n /\ i \in Nat
    BY <1>1
  <2>2. CASE i < m
    <3>1. u[i] = s[i] /\ u[i + 1] = s[i + 1] /\ i \in 1 .. m - 1
      BY <1>1, <1>2, <2>1, <2>2
    <3> QED
      BY <1>3, <3>1
  <2>3. CASE i = m
    <3>1. u[i] = s[m]
      BY <1>1, <1>2, <2>1, <2>3
    <3>2. u[i + 1] = t[1]
      <4>1. ~(i + 1 <= m) /\ (i + 1) - m = 1
        BY <1>1, <2>1, <2>3
      <4> QED
        BY <1>2, <2>1, <4>1
    <3>3. m > 0 /\ n > 0
      BY <1>1, <2>1, <2>3
    <3> QED
      BY <1>3, <3>1, <3>2, <3>3
  <2>4. CASE i > m
    <3>1. ~(i <= m) /\ ~(i + 1 <= m) /\ (i + 1) - m = (i - m) + 1 /\ i - m \in 1 .. n - 1
      BY <1>1, <2>1, <2>4
    <3>2. u[i] = t[i - m] /\ u[i + 1] = t[(i - m) + 1]
      BY <1>2, <2>1, <3>1
    <3> QED
      BY <1>3, <3>1, <3>2
  <2> QED
    BY <1>1, <2>1, <2>2, <2>3, <2>4
<1> QED
  BY <1>2, <1>4, <1>5, <1>6 DEF InRow, u

\* What follows the first k bytes of package p, up to its end, are the next ones of p.
LEMMA RowFrom ==
    ASSUME NEW a \in Nat, NEW p \in DOMAIN Packages, NEW k \in Nat, NEW s, NEW c, InRow(s, After(p, k), c, a),
           NEW l \in 0 .. Len(s), k + l <= TotalLength(p)
    PROVE  /\ \A i \in 1 .. l : s[i] = <<p, k + i>>
           /\ InRow(SubSeq(s, l + 1, Len(s)), After(p, k + l), c, a)
<1> DEFINE P == {i \in Nat : i \in 1 .. l => s[i] = <<p, k + i>>}
           t == SubSeq(s, l + 1, Len(s))
<1>1. TotalLength(p) \in Nat /\ p \in Nat /\ s \in Seq(ByteNames(a)) /\ Len(s) \in Nat /\ l \in Nat /\ l <= Len(s)
  BY PackageLengths, LenProperties DEF InRow
<1>2. 0 \in P
  OBVIOUS
<1>3. ASSUME NEW i \in Nat, i \in P PROVE i + 1 \in P
  <2> SUFFICES ASSUME i + 1 \in 1 .. l PROVE s[i + 1] = <<p, k + (i + 1)>>
    OBVIOUS
  <2>1. CASE i = 0
    <3>1. s[1] = After(p, k) /\ k < TotalLength(p)
      BY <1>1, <2>1 DEF InRow
    <3> QED
      BY <2>1, <3>1 DEF After
  <2>2. CASE i # 0
    <3>1. s[i] = <<p, k + i>> /\ i \in 1 .. Len(s) - 1 /\ k + i < TotalLength(p)
      BY <1>1, <1>3, <2>2
    <3>2. s[i + 1] = NextByte(s[i])
      BY <3>1 DEF InRow
    <3>3. NextByte(s[i]) = After(p, k + i)
      BY <3>1 DEF NextByte
    <3>4. After(p, k + i) = <<p, (k + i) + 1>>
      BY <3>1 DEF After
    <3> QED
      BY <3>2, <3>3, <3>4
  <2> QED
    BY <2>1, <2>2
<1> HIDE DEF P
<1>4. Nat \subseteq P
  BY <1>2, <1>3, Induction
<1>5. ASSUME NEW i \in 1 .. l PROVE s[i] = <<p, k + i>>
  <2>1. i \in P
    BY <1>1, <1>4
  <2> QED
    BY <2>1 DEF P
<1>6. /\ t \in Seq(ByteNames(a)) /\ Len(t) = Len(s) - l
      /\ \A i \in 1 .. Len(s) - l : t[i] = s[l + i]
  BY <1>1, PartsOf DEF Parts
<1> HIDE DEF t
<1>7. CASE l = 0
  <2>1. Len(t) = Len(s) /\ (\A i \in 1 .. Len(s) : t[i] = s[i]) /\ k + l = k
    BY <1>1, <1>6, <1>7
  <2>2. t = s
    BY <1>1, <1>6, <2>1, SeqEqual
  <2> QED
    BY <1>5, <2>1, <2>2 DEF t
<1>8. CASE l > 0
  <2>1. NextByte(s[l]) = After(p, k + l)
    BY <1>1, <1>5, <1>8 DEF NextByte
  <2>2. CASE l = Len(s)
    <3>1. c = NextByte(s[l]) /\ Len(t) = 0
      BY <1>1, <1>6, <1>8, <2>2 DEF InRow
    <3>2. InRow(t, After(p, k + l), c, a)
      BY <1>6, <2>1, <3>1 DEF InRow
    <3> QED
      BY <1>5, <3>2 DEF t
  <2>3. CASE l < Len(s)
    <3>1. t[1] = s[l + 1] /\ t[Len(t)] = s[Len(s)] /\ Len(t) > 0
      <4>1. 1 \in 1 .. Len(s) - l /\ Len(s) - l \in 1 .. Len(s) - l /\ l + (Len(s) - l) = Len(s)
        BY <1>1, <2>3
      <4>2. t[1] = s[l + 1]
        BY <1>6, <4>1
      <4>3. t[Len(s) - l] = s[l + (Len(s) - l)]
        BY <1>6, <4>1
      <4>4. Len(t) = Len(s) - l /\ Len(s) - l > 0
        BY <1>1, <1>6, <2>3
      <4> QED
        BY <4>1, <4>2, <4>3, <4>4
    <3>2. s[l + 1] = NextByte(s[l]) /\ c = NextByte(s[Len(s)])
      <4>1. l \in 1 .. Len(s) - 1 /\ Len(s) > 0
        BY <1>1, <1>8, <2>3
      <4> QED
        BY <4>1 DEF InRow
    <3>3. ASSUME NEW i \in 1 .. Len(t) - 1 PROVE t[i + 1] = NextByte(t[i])
      <4>1. /\ i \in 1 .. Len(s) - l /\ i + 1 \in 1 .. Len(s) - l /\ l + i \in 1 .. Len(s) - 1
            /\ l + (i + 1) = (l + i) + 1
        BY <1>1, <1>6
      <4>3. t[i] = s[l + i] /\ t[i + 1] = s[l + (i + 1)]
        BY <1>6, <4>1
      <4>2. t[i] = s[l + i] /\ t[i + 1] = s[(l + i) + 1]
        BY <4>1, <4>3
      <4> QED
        BY <4>1, <4>2 DEF InRow
    <3>4. InRow(t, After(p, k + l), c, a)
      BY <1>6, <2>1, <3>1, <3>2, <3>3 DEF InRow
    <3> QED
      BY <1>5, <3>4 DEF t
  <2> QED
    BY <1>1, <2>2, <2>3
<1> QED
  BY <1>1, <1>7, <1>8

\* s is a piece of package p.
PieceOf(s, p, from, length, a) ==
    /\ s \in Seq(ByteNames(a)) /\ Len(s) = length
    /\ \A i \in 1 .. length : s[i] = <<p, from + i>>

LEMMA BytesFacts ==
    ASSUME NEW a \in Nat, NEW p \in 1 .. a, NEW from \in Nat, NEW length \in Nat
    PROVE  PieceOf(Bytes(p, from, length), p, from, length, a)
<1> DEFINE s == Bytes(p, from, length)
<1>1. s \in [1 .. length -> ByteNames(a)] /\ DOMAIN s = 1 .. length /\ \A i \in 1 .. length : s[i] = <<p, from + i>>
  BY DEF Bytes, ByteNames
<1> HIDE DEF s
<1>2. s \in Seq(ByteNames(a)) /\ Len(s) = length
  BY <1>1
<1> QED
  BY <1>1, <1>2 DEF s, PieceOf

LEMMA RowOfBytes ==
    ASSUME NEW a \in Nat, NEW p \in 1 .. a, p \in DOMAIN Packages, NEW from \in Nat, NEW length \in Nat,
           from + length <= TotalLength(p)
    PROVE  InRow(Bytes(p, from, length), After(p, from), After(p, from + length), a)
<1> DEFINE s == Bytes(p, from, length)
<1>0. PieceOf(s, p, from, length, a)
  BY BytesFacts
<1>1. s \in Seq(ByteNames(a)) /\ Len(s) = length /\ \A i \in 1 .. length : s[i] = <<p, from + i>>
  BY <1>0 DEF PieceOf
<1>2. TotalLength(p) \in Nat /\ p \in Nat
  BY PackageLengths
<1> HIDE DEF s
<1>3. \A i \in 1 .. length : NextByte(s[i]) = After(p, from + i)
  BY <1>1 DEF NextByte
<1>4. \A i \in 0 .. length - 1 : After(p, from + i) = <<p, from + (i + 1)>>
  BY <1>2 DEF After
<1>5. Len(s) = 0 => After(p, from) = After(p, from + length)
  BY <1>1
<1>6. Len(s) > 0 => s[1] = After(p, from) /\ After(p, from + length) = NextByte(s[Len(s)])
  <2> SUFFICES ASSUME length > 0 PROVE s[1] = After(p, from) /\ After(p, from + length) = NextByte(s[length])
    BY <1>1
  <2>1. 0 \in 0 .. length - 1 /\ 1 \in 1 .. length /\ length \in 1 .. length /\ from + 0 = from /\ from + (0 + 1) = from + 1
    OBVIOUS
  <2>2. After(p, from + 0) = <<p, from + (0 + 1)>>
    BY <1>4, <2>1
  <2> QED
    BY <1>1, <1>3, <2>1, <2>2
<1>7. ASSUME NEW i \in 1 .. Len(s) - 1 PROVE s[i + 1] = NextByte(s[i])
  <2>1. i \in 1 .. length /\ i + 1 \in 1 .. length /\ i \in 0 .. length - 1
    BY <1>1
  <2> QED
    BY <1>1, <1>3, <1>4, <2>1
<1> QED
  BY <1>1, <1>5, <1>6, <1>7 DEF InRow, s
LEMMA PiecesJoined ==
    ASSUME NEW a \in Nat, NEW p \in 1 .. a, NEW k \in Nat, NEW l \in Nat
    PROVE  Bytes(p, 0, k) \o Bytes(p, k, l) = Bytes(p, 0, k + l)
<1> DEFINE s == Bytes(p, 0, k)
           t == Bytes(p, k, l)
           u == Bytes(p, 0, k + l)
           v == s \o t
<1>1. 0 \in Nat /\ k + l \in Nat
  OBVIOUS
<1>2. PieceOf(s, p, 0, k, a) /\ PieceOf(t, p, k, l, a) /\ PieceOf(u, p, 0, k + l, a)
  BY <1>1, BytesFacts
<1> HIDE DEF s, t, u
<1>3. s \in Seq(ByteNames(a)) /\ Len(s) = k /\ t \in Seq(ByteNames(a)) /\ Len(t) = l
  BY <1>2 DEF PieceOf
<1>4. /\ v \in Seq(ByteNames(a)) /\ Len(v) = k + l
      /\ \A i \in 1 .. k + l : v[i] = IF i <= k THEN s[i] ELSE t[i - k]
  <2>1. /\ v \in Seq(ByteNames(a)) /\ Len(v) = Len(s) + Len(t)
        /\ \A i \in 1 .. Len(s) + Len(t) : v[i] = IF i <= Len(s) THEN s[i] ELSE t[i - Len(s)]
    BY <1>3, ConcatProperties
  <2> QED
    BY <1>3, <2>1
<1>5. u \in Seq(ByteNames(a)) /\ Len(u) = k + l
  BY <1>2 DEF PieceOf
<1> HIDE DEF v
<1>6. ASSUME NEW i \in 1 .. k + l PROVE v[i] = u[i]
  <2>1. u[i] = <<p, i>>
    BY <1>2 DEF PieceOf
  <2>2. CASE i <= k
    <3>1. i \in 1 .. k
      BY <2>2
    <3> QED
      BY <1>2, <1>4, <2>1, <2>2, <3>1 DEF PieceOf
  <2>3. CASE ~(i <= k)
    <3>1. i - k \in 1 .. l /\ k + (i - k) = i
      BY <2>3
    <3>2. v[i] = t[i - k]
      BY <1>4, <2>3
    <3>3. t[i - k] = <<p, k + (i - k)>>
      BY <1>2, <3>1 DEF PieceOf
    <3> QED
      BY <2>1, <3>1, <3>2, <3>3
  <2> QED
    BY <2>2, <2>3
<1>7. v = u
  BY <1>4, <1>5, <1>6, SeqEqual
<1> QED
  BY <1>7 DEF u, v, s, t

-----------------------------------------------------------------------------
(* Reading.                                                                 *)

Places == Nat \X Nat

\* What the reader takes from what it has and from what is on its way.
LEMMA TakePending ==
    ASSUME NEW a \in Nat, NEW p \in 1 .. a, p \in DOMAIN Packages, NEW k \in Nat,
           NEW s \in Seq(Places), NEW w \in Seq(Places), NEW c, InRow(s \o w, After(p, k), c, a),
           NEW l \in 0 .. Len(s), k + l <= TotalLength(p)
    PROVE  /\ SubSeq(s, 1, l) = Bytes(p, k, l)
           /\ SubSeq(s, l + 1, Len(s)) \in Seq(Places) /\ Len(SubSeq(s, l + 1, Len(s))) = Len(s) - l
           /\ InRow(SubSeq(s, l + 1, Len(s)) \o w, After(p, k + l), c, a)
<1> DEFINE u == s \o w
           f == SubSeq(s, 1, l)
           r == SubSeq(s, l + 1, Len(s))
           b == Bytes(p, k, l)
<1>1. Len(s) \in Nat /\ Len(w) \in Nat /\ l \in Nat /\ l <= Len(s)
  BY LenProperties
<1>2. Len(u) = Len(s) + Len(w) /\ \A i \in 1 .. Len(s) + Len(w) : u[i] = IF i <= Len(s) THEN s[i] ELSE w[i - Len(s)]
  BY ConcatProperties
<1>3. SubSeq(u, l + 1, Len(u)) = r \o w
  BY RestContinued
<1>4. Parts(s, l, Places, f, r)
  BY PartsOf
<1> HIDE DEF u, f, r
<1>5. l \in 0 .. Len(u)
  BY <1>1, <1>2
<1>6. InRow(u, After(p, k), c, a)
  BY DEF u
<1>7. (\A i \in 1 .. l : u[i] = <<p, k + i>>) /\ InRow(SubSeq(u, l + 1, Len(u)), After(p, k + l), c, a)
  BY <1>5, <1>6, RowFrom
<1>8. PieceOf(b, p, k, l, a)
  BY <1>1, BytesFacts
<1> HIDE DEF b
<1>9. f = b
  <2>1. b \in Seq(Places) /\ Len(b) = l
    <3>1. ByteNames(a) \subseteq Places
      BY DEF ByteNames, Places
    <3>2. b \in Seq(ByteNames(a)) /\ Len(b) = l
      BY <1>8 DEF PieceOf
    <3> QED
      BY <3>1, <3>2, SeqMonotonic
  <2>2. f \in Seq(Places) /\ Len(f) = l
    BY <1>4 DEF Parts
  <2>3. ASSUME NEW i \in 1 .. l PROVE f[i] = b[i]
    <3>1. f[i] = s[i] /\ b[i] = <<p, k + i>>
      BY <1>4, <1>8 DEF Parts, PieceOf
    <3>2. u[i] = s[i]
      BY <1>1, <1>2
    <3> QED
      BY <1>7, <3>1, <3>2
  <2> QED
    BY <2>1, <2>2, <2>3, SeqEqual
<1>10. r \in Seq(Places) /\ Len(r) = Len(s) - l
  BY <1>4 DEF Parts
<1>11. InRow(r \o w, After(p, k + l), c, a)
  BY <1>3, <1>7
<1> QED
  BY <1>9, <1>10, <1>11 DEF f, r, b
Readers == [state : {"header", "body", "data"}, package : Seq(Places), pending : Seq(Places), emitted : Seq(Seq(Places))]

\* The package a reader is at, how much of it was taken, and what is taken next.
Current(v) == Len(v.emitted) + 1
Taken(v) ==
    IF v.state = "header" THEN 0
    ELSE IF v.state = "body" THEN HeaderLength ELSE HeaderLength + Packages[Current(v)].body
Wanted(v) ==
    IF v.state = "header" THEN HeaderLength
    ELSE IF v.state = "body" THEN Packages[Current(v)].body ELSE Packages[Current(v)].data
Waits(v) == Wanted(v) > Len(v.pending)

\* A reader whose packages are right, that goes on with the next bytes when w is on its way.
Reads(v, w, c, a) ==
    /\ v \in Readers /\ Len(v.emitted) <= a /\ (v.state # "header" => Current(v) <= a)
    /\ \A j \in DOMAIN v.emitted : v.emitted[j] = Bytes(j, 0, TotalLength(j))
    /\ v.package = Bytes(Current(v), 0, Taken(v))
    /\ InRow(v.pending \o w, After(Current(v), Taken(v)), c, a)

LEMMA ReaderFacts ==
    ASSUME NEW v \in Readers
    PROVE  /\ v.state \in {"header", "body", "data"} /\ v.package \in Seq(Places)
           /\ v.pending \in Seq(Places) /\ Len(v.pending) \in Nat
           /\ v.emitted \in Seq(Seq(Places)) /\ Len(v.emitted) \in Nat /\ DOMAIN v.emitted = 1 .. Len(v.emitted)
           /\ Current(v) \in Nat /\ Current(v) >= 1
<1>1. v.state \in {"header", "body", "data"} /\ v.package \in Seq(Places)
      /\ v.pending \in Seq(Places) /\ v.emitted \in Seq(Seq(Places))
  BY DEF Readers
<1> QED
  BY <1>1, LenProperties DEF Current

LEMMA WantedFacts ==
    ASSUME NEW a \in Nat, a <= Len(Packages), NEW w \in Seq(Places), NEW c, NEW v, Reads(v, w, c, a),
           ~Waits(v) \/ Len(v.pending) > 0 \/ v.state # "header"
    PROVE  /\ Current(v) \in 1 .. a /\ Current(v) \in DOMAIN Packages
           /\ Wanted(v) \in Nat /\ Taken(v) \in Nat /\ Taken(v) + Wanted(v) <= TotalLength(Current(v))
           /\ ~Waits(v) => Wanted(v) \in 0 .. Len(v.pending)
           /\ v.state = "data" => Taken(v) + Wanted(v) = TotalLength(Current(v))
<1> DEFINE p == Current(v)
           u == v.pending \o w
<1>1. v \in Readers
  BY DEF Reads
<1>2. /\ v.state \in {"header", "body", "data"} /\ v.pending \in Seq(Places) /\ Len(v.pending) \in Nat
      /\ p \in Nat /\ p >= 1 /\ Len(w) \in Nat
  BY <1>1, ReaderFacts, LenProperties
<1> HIDE DEF p
<1>3. p <= a
  <2>1. CASE v.state = "header"
    <3>1. Len(v.pending) >= 1
      BY <1>2, <2>1, StreamAssumption DEF Waits, Wanted
    <3>2. Len(u) = Len(v.pending) + Len(w)
      BY <1>2, ConcatProperties
    <3> HIDE DEF u
    <3>3. u \in Seq(ByteNames(a)) /\ (Len(u) > 0 => u[1] = After(p, 0))
      BY <2>1 DEF Reads, InRow, u, p, Taken
    <3>4. u[1] = <<p, 1>> /\ 1 \in 1 .. Len(u)
      BY <1>2, <3>1, <3>2, <3>3 DEF After
    <3>5. u[1] \in ByteNames(a)
      BY <3>3, <3>4, ElementOfSeq
    <3> QED
      BY <3>4, <3>5 DEF ByteNames
  <2>2. CASE v.state # "header"
    BY <2>2 DEF Reads, p
  <2> QED
    BY <2>1, <2>2
<1>4. p \in 1 .. a /\ p \in DOMAIN Packages
  <2>1. DOMAIN Packages = 1 .. Len(Packages) /\ Len(Packages) \in Nat
    BY StreamAssumption, LenProperties
  <2> QED
    BY <1>2, <1>3, <2>1
<1>5. /\ Packages[p].body \in Nat /\ Packages[p].data \in Nat /\ HeaderLength \in Nat
      /\ TotalLength(p) = HeaderLength + Packages[p].body + Packages[p].data
  BY <1>4, PackageLengths
<1>6. /\ Wanted(v) \in Nat /\ Taken(v) \in Nat /\ Taken(v) + Wanted(v) <= TotalLength(p)
      /\ v.state = "data" => Taken(v) + Wanted(v) = TotalLength(p)
  <2>1. CASE v.state = "header"
    <3>1. Wanted(v) = HeaderLength /\ Taken(v) = 0
      BY <2>1 DEF Wanted, Taken
    <3> QED
      BY <1>5, <2>1, <3>1, SMTT(25)
  <2>2. CASE v.state = "body"
    <3>1. Wanted(v) = Packages[p].body /\ Taken(v) = HeaderLength
      BY <2>2 DEF Wanted, Taken, p
    <3> QED
      BY <1>5, <2>2, <3>1
  <2>3. CASE v.state = "data"
    <3>1. Wanted(v) = Packages[p].data /\ Taken(v) = HeaderLength + Packages[p].body
      BY <2>3 DEF Wanted, Taken, p
    <3> QED
      BY <1>5, <3>1
  <2> QED
    BY <1>2, <2>1, <2>2, <2>3
<1>7. ~Waits(v) => Wanted(v) \in 0 .. Len(v.pending)
  BY <1>2, <1>6 DEF Waits
<1> QED
  BY <1>4, <1>6, <1>7 DEF p

LEMMA PopFacts ==
    ASSUME NEW a \in Nat, a <= Len(Packages), NEW w \in Seq(Places), NEW c, NEW v, Reads(v, w, c, a), ~Waits(v),
           NEW next \in {"header", "body", "data"}
    PROVE  LET u == PopPending(v, Wanted(v), next)
               p == Current(v)
               k == Taken(v) + Wanted(v)
           IN  /\ u \in Readers /\ u.state = next /\ u.emitted = v.emitted
               /\ u.package = Bytes(p, 0, k) /\ Len(u.pending) = Len(v.pending) - Wanted(v)
               /\ InRow(u.pending \o w, After(p, k), c, a)
<1> DEFINE u == PopPending(v, Wanted(v), next)
           p == Current(v)
           l == Wanted(v)
           f == SubSeq(v.pending, 1, l)
           r == SubSeq(v.pending, l + 1, Len(v.pending))
           g == v.package \o f
<1>1. /\ v \in Readers /\ p \in 1 .. a /\ p \in DOMAIN Packages /\ l \in Nat /\ Taken(v) \in Nat
      /\ l \in 0 .. Len(v.pending) /\ Taken(v) + l <= TotalLength(p)
  BY WantedFacts DEF Reads
<1>2. v.package \in Seq(Places) /\ v.pending \in Seq(Places) /\ Len(v.pending) \in Nat
  BY <1>1, ReaderFacts
<1>3. InRow(v.pending \o w, After(p, Taken(v)), c, a) /\ v.package = Bytes(p, 0, Taken(v))
  BY DEF Reads
<1> HIDE DEF p, l
<1>4. /\ f = Bytes(p, Taken(v), l) /\ r \in Seq(Places) /\ Len(r) = Len(v.pending) - l
      /\ InRow(r \o w, After(p, Taken(v) + l), c, a)
  BY <1>1, <1>2, <1>3, TakePending, SMTT(25)
<1>5. f \in Seq(Places)
  BY <1>1, <1>2, PartsOf DEF Parts
<1>6. u = [v EXCEPT !.state = next, !.package = g, !.pending = r]
  BY <1>1, <1>2 DEF PopPending, l
<1>7. g = Bytes(p, 0, Taken(v) + l)
  <2>1. PICK k \in Nat : k = Taken(v)
    BY <1>1
  <2>2. Bytes(p, 0, k) \o Bytes(p, k, l) = Bytes(p, 0, k + l)
    BY <1>1, PiecesJoined
  <2>3. v.package = Bytes(p, 0, k) /\ f = Bytes(p, k, l)
    BY <1>3, <1>4, <2>1
  <2> QED
    BY <2>1, <2>2, <2>3
<1>8. g \in Seq(Places)
  BY <1>2, <1>5, ConcatProperties
<1> HIDE DEF u, f, r, g
<1>9. u \in Readers /\ u.state = next /\ u.package = g /\ u.pending = r /\ u.emitted = v.emitted
  BY <1>1, <1>4, <1>6, <1>8 DEF Readers
<1> QED
  BY <1>4, <1>7, <1>9 DEF u, p, l

\* The turns the loop may still make.
FreeTurns(v) == IF Wanted(v) > 0 THEN 0 ELSE IF v.state = "body" THEN 2 ELSE 1
Turns(v) == 3 * Len(v.pending) + FreeTurns(v)

LEMMA TurnsFacts ==
    ASSUME NEW v, NEW u, Len(v.pending) \in Nat, Wanted(v) \in Nat, Len(u.pending) = Len(v.pending) - Wanted(v),
           FreeTurns(v) = 0 => Wanted(v) > 0, FreeTurns(v) > 0 => FreeTurns(u) < FreeTurns(v)
    PROVE  Turns(u) <= Turns(v) - 1 /\ Turns(v) \in Int /\ Turns(u) \in Int
<1>1. PICK f \in {0, 1, 2}, g \in {0, 1, 2} : f = FreeTurns(v) /\ g = FreeTurns(u)
  BY DEF FreeTurns
<1>2. PICK l \in Nat, m \in Nat : l = Len(v.pending) /\ m = Wanted(v)
  OBVIOUS
<1>3. (f = 0 => m > 0) /\ (f > 0 => g < f)
  BY <1>1, <1>2
<1>4. 3 * (l - m) + g <= 3 * l + f - 1 /\ 3 * l + f \in Int /\ 3 * (l - m) + g \in Int
  BY <1>3
<1>5. Turns(v) = 3 * l + f /\ Turns(u) = 3 * (l - m) + g
  BY <1>1, <1>2 DEF Turns
<1> QED
  BY <1>4, <1>5

LEMMA StageWaits ==
    ASSUME NEW a \in Nat, a <= Len(Packages), NEW w \in Seq(Places), NEW c, NEW v, Reads(v, w, c, a)
    PROVE  /\ v.state # "header" => Lengths(v) = Packages[Current(v)]
           /\ Waits(v) => Stage(v) = v
<1>1. v \in Readers
  BY DEF Reads
<1>2. v.state \in {"header", "body", "data"}
  BY <1>1, ReaderFacts
<1>3. ASSUME v.state # "header" PROVE Lengths(v) = Packages[Current(v)]
  <2> DEFINE p == Current(v)
             k == Taken(v)
  <2>1. p \in 1 .. a /\ p \in DOMAIN Packages /\ k \in Nat
    BY <1>3, WantedFacts
  <2>2. Packages[p].body \in Nat /\ HeaderLength \in Nat /\ HeaderLength >= 1
    BY <2>1, PackageLengths
  <2>3. k >= 1
    BY <1>3, <2>2 DEF Taken
  <2>4. v.package = Bytes(p, 0, k)
    BY DEF Reads
  <2> HIDE DEF p, k
  <2>5. PieceOf(v.package, p, 0, k, a)
    BY <2>1, <2>4, BytesFacts
  <2>6. v.package \in Seq(ByteNames(a)) /\ Len(v.package) = k /\ v.package[1] = <<p, 0 + 1>>
    BY <2>1, <2>3, <2>5 DEF PieceOf
  <2>7. Head(v.package)[1] = p
    BY <2>6
  <2> QED
    BY <2>7 DEF Lengths, p
<1>4. ASSUME Waits(v) PROVE Stage(v) = v
  <2>1. CASE v.state = "header"
    BY <1>4, <2>1 DEF Stage, PopPending, Waits, Wanted
  <2>2. CASE v.state = "body"
    BY <1>3, <1>4, <2>2 DEF Stage, PopPending, Waits, Wanted
  <2>3. CASE v.state = "data"
    BY <1>3, <1>4, <2>3 DEF Stage, PopPending, Waits, Wanted
  <2> QED
    BY <1>2, <2>1, <2>2, <2>3
<1> QED
  BY <1>3, <1>4

LEMMA StageReads ==
    ASSUME NEW a \in Nat, a <= Len(Packages), NEW w \in Seq(Places), NEW c, NEW v, Reads(v, w, c, a), ~Waits(v)
    PROVE  Reads(Stage(v), w, c, a) /\ Turns(Stage(v)) <= Turns(v) - 1 /\ Turns(v) \in Int /\ Turns(Stage(v)) \in Int
<1> DEFINE p == Current(v)
           next == IF v.state = "header" THEN "body" ELSE IF v.state = "body" THEN "data" ELSE "header"
           u == PopPending(v, Wanted(v), next)
           k == Taken(v) + Wanted(v)
<1>1. /\ v \in Readers /\ p \in 1 .. a /\ p \in DOMAIN Packages /\ Wanted(v) \in Nat /\ Taken(v) \in Nat
      /\ Wanted(v) \in 0 .. Len(v.pending)
      /\ v.state = "data" => k = TotalLength(p)
  BY WantedFacts DEF Reads
<1>2. /\ v.state \in {"header", "body", "data"} /\ Len(v.pending) \in Nat
      /\ v.emitted \in Seq(Seq(Places)) /\ Len(v.emitted) \in Nat /\ DOMAIN v.emitted = 1 .. Len(v.emitted)
      /\ p = Len(v.emitted) + 1
  BY <1>1, ReaderFacts DEF Current
<1>3. /\ u \in Readers /\ u.state = next /\ u.emitted = v.emitted /\ u.package = Bytes(p, 0, k)
      /\ Len(u.pending) = Len(v.pending) - Wanted(v)
      /\ InRow(u.pending \o w, After(p, k), c, a)
  <2>1. next \in {"header", "body", "data"}
    OBVIOUS
  <2> HIDE DEF next
  <2> QED
    BY <2>1, PopFacts
<1>4. \A j \in DOMAIN v.emitted : v.emitted[j] = Bytes(j, 0, TotalLength(j))
  BY DEF Reads
<1>5. v.state # "header" => Lengths(v) = Packages[p]
  BY StageWaits
<1>6. /\ Packages[p].body \in Nat /\ Packages[p].data \in Nat /\ HeaderLength \in Nat /\ HeaderLength >= 1
      /\ TotalLength(p) = HeaderLength + Packages[p].body + Packages[p].data /\ TotalLength(p) >= 1
  BY <1>1, PackageLengths
<1>7. CASE v.state = "header"
  <2>1. Stage(v) = u
    BY <1>7 DEF Stage, Wanted
  <2>2. Current(u) = p /\ Taken(u) = HeaderLength /\ Wanted(u) = Packages[p].body /\ u.state = "body"
    BY <1>3, <1>7 DEF Current, Taken, Wanted
  <2>3. Taken(v) = 0 /\ Wanted(v) = HeaderLength
    BY <1>7 DEF Taken, Wanted
  <2> HIDE DEF u, p
  <2>6. k = Taken(u)
    BY <1>6, <2>2, <2>3
  <2> HIDE DEF k
  <2>7. u.package = Bytes(Current(u), 0, Taken(u)) /\ InRow(u.pending \o w, After(Current(u), Taken(u)), c, a)
    BY <1>3, <2>2, <2>6
  <2>8. Len(u.emitted) <= a /\ Current(u) <= a
    BY <1>1, <1>2, <1>3, <2>2
  <2>9. \A j \in DOMAIN u.emitted : u.emitted[j] = Bytes(j, 0, TotalLength(j))
    BY <1>3, <1>4
  <2>4. Reads(u, w, c, a)
    BY <1>3, <2>7, <2>8, <2>9 DEF Reads
  <2>5. Turns(u) <= Turns(v) - 1 /\ Turns(v) \in Int /\ Turns(u) \in Int
    <3>1. FreeTurns(v) = 0
      BY <1>6, <2>3 DEF FreeTurns
    <3>4. /\ Len(v.pending) \in Nat /\ Wanted(v) \in Nat /\ Len(u.pending) = Len(v.pending) - Wanted(v)
          /\ FreeTurns(v) = 0 => Wanted(v) > 0
          /\ FreeTurns(v) > 0 => FreeTurns(u) < FreeTurns(v)
      BY <1>1, <1>2, <1>3, <1>6, <2>3, <3>1
    <3> QED
      BY <3>4, TurnsFacts
  <2> QED
    BY <2>1, <2>4, <2>5
<1>8. CASE v.state = "body"
  <2>1. Stage(v) = u
    BY <1>5, <1>8 DEF Stage, Wanted
  <2>2. Current(u) = p /\ Taken(u) = HeaderLength + Packages[p].body /\ Wanted(u) = Packages[p].data /\ u.state = "data"
    BY <1>3, <1>8 DEF Current, Taken, Wanted
  <2>3. Taken(v) = HeaderLength /\ Wanted(v) = Packages[p].body
    BY <1>8 DEF Taken, Wanted
  <2> HIDE DEF u, p
  <2>6. k = Taken(u)
    BY <1>6, <2>2, <2>3
  <2> HIDE DEF k
  <2>7. u.package = Bytes(Current(u), 0, Taken(u)) /\ InRow(u.pending \o w, After(Current(u), Taken(u)), c, a)
    BY <1>3, <2>2, <2>6
  <2>8. Len(u.emitted) <= a /\ Current(u) <= a
    BY <1>1, <1>2, <1>3, <2>2
  <2>9. \A j \in DOMAIN u.emitted : u.emitted[j] = Bytes(j, 0, TotalLength(j))
    BY <1>3, <1>4
  <2>4. Reads(u, w, c, a)
    BY <1>3, <2>7, <2>8, <2>9 DEF Reads
  <2>5. Turns(u) <= Turns(v) - 1 /\ Turns(v) \in Int /\ Turns(u) \in Int
    <3>1. FreeTurns(v) \in {0, 2} /\ (FreeTurns(v) = 0 => Wanted(v) > 0)
      BY <1>6, <1>8, <2>3 DEF FreeTurns
    <3>2. FreeTurns(u) \in {0, 1}
      BY <2>2 DEF FreeTurns
    <3>4. /\ Len(v.pending) \in Nat /\ Wanted(v) \in Nat /\ Len(u.pending) = Len(v.pending) - Wanted(v)
          /\ FreeTurns(v) = 0 => Wanted(v) > 0
          /\ FreeTurns(v) > 0 => FreeTurns(u) < FreeTurns(v)
      BY <1>1, <1>2, <1>3, <3>1, <3>2
    <3> QED
      BY <3>4, TurnsFacts
  <2> QED
    BY <2>1, <2>4, <2>5
<1>9. CASE v.state = "data"
  <2> DEFINE e == Emit(u)
             es == Append(v.emitted, u.package)
  <2>1. Wanted(v) = Packages[p].data
    BY <1>9 DEF Wanted
  <2>2. u.state # v.state
    BY <1>3, <1>9
  <2>3. Stage(v) = e
    BY <1>5, <1>9, <2>1, <2>2 DEF Stage
  <2> HIDE DEF u, p
  <2>4. e = [u EXCEPT !.package = <<>>, !.emitted = es]
    BY <1>3 DEF Emit
  <2>5. u.package \in Seq(Places) /\ u.pending \in Seq(Places) /\ Len(u.pending) \in Nat
    BY <1>3, ReaderFacts
  <2>6. /\ es \in Seq(Seq(Places)) /\ Len(es) = Len(v.emitted) + 1
        /\ (\A i \in 1 .. Len(v.emitted) : es[i] = v.emitted[i]) /\ es[Len(v.emitted) + 1] = u.package
    BY <1>2, <2>5, AppendProperties
  <2>7. DOMAIN es = 1 .. Len(v.emitted) + 1
    BY <2>6, LenProperties
  <2> HIDE DEF e, es
  <2>8. /\ e \in Readers /\ e.state = "header" /\ e.package = <<>> /\ e.pending = u.pending /\ e.emitted = es
    <3>1. <<>> \in Seq(Places)
      BY EmptySeq
    <3> QED
      BY <1>3, <1>9, <2>4, <2>6, <3>1 DEF Readers
  <2>9. Current(e) = p + 1 /\ Taken(e) = 0 /\ Wanted(e) = HeaderLength
    <3>1. Taken(e) = 0 /\ Wanted(e) = HeaderLength
      BY <2>8 DEF Taken, Wanted
    <3>2. Len(e.emitted) = Len(v.emitted) + 1
      BY <2>6, <2>8
    <3>3. Current(e) = Len(e.emitted) + 1 /\ Current(v) = Len(v.emitted) + 1
      BY DEF Current
    <3> QED
      BY <3>1, <3>2, <3>3 DEF p
  <2>10. After(p, k) = After(p + 1, 0)
    <3>1. k = TotalLength(p) /\ k # 0 /\ ~(k < TotalLength(p))
      BY <1>1, <1>6, <1>9
    <3>2. After(p, k) = <<p + 1, 1>>
      BY <3>1 DEF After
    <3>3. After(p + 1, 0) = <<p + 1, 1>>
      BY DEF After
    <3> QED
      BY <3>2, <3>3
  <2>11. \A j \in DOMAIN es : es[j] = Bytes(j, 0, TotalLength(j))
    <3> SUFFICES ASSUME NEW j \in DOMAIN es PROVE es[j] = Bytes(j, 0, TotalLength(j))
      OBVIOUS
    <3>1. CASE j = Len(v.emitted) + 1
      BY <1>1, <1>2, <1>3, <1>9, <2>6, <3>1
    <3>2. CASE j # Len(v.emitted) + 1
      <4>1. j \in 1 .. Len(v.emitted)
        BY <1>2, <2>7, <3>2
      <4> QED
        BY <1>2, <1>4, <2>6, <4>1
    <3> QED
      BY <3>1, <3>2
  <2>12. Bytes(p + 1, 0, 0) = <<>>
    BY DEF Bytes
  <2>13. InRow(e.pending \o w, After(Current(e), Taken(e)), c, a)
    BY <1>3, <2>8, <2>9, <2>10
  <2>14. Reads(e, w, c, a)
    BY <1>1, <1>2, <2>6, <2>8, <2>9, <2>11, <2>12, <2>13 DEF Reads
  <2>15. Turns(e) <= Turns(v) - 1 /\ Turns(v) \in Int /\ Turns(e) \in Int
    <3>1. FreeTurns(v) \in {0, 1} /\ (FreeTurns(v) = 0 => Wanted(v) > 0)
      BY <1>9 DEF FreeTurns
    <3>2. FreeTurns(e) = 0
      BY <1>6, <2>9 DEF FreeTurns
    <3>3. Len(e.pending) = Len(v.pending) - Wanted(v)
      BY <1>3, <2>8
    <3>4. /\ Len(v.pending) \in Nat /\ Wanted(v) \in Nat /\ Len(e.pending) = Len(v.pending) - Wanted(v)
          /\ FreeTurns(v) = 0 => Wanted(v) > 0
          /\ FreeTurns(v) > 0 => FreeTurns(e) < FreeTurns(v)
      BY <1>1, <1>2, <3>1, <3>2, <3>3
    <3> QED
      BY <3>4, TurnsFacts
  <2> QED
    BY <2>3, <2>14, <2>15
<1> QED
  BY <1>2, <1>7, <1>8, <1>9

-----------------------------------------------------------------------------
(* The loop.                                                                *)

StageOp(v, i, q) == Stage(v)

\* After k turns: q says what is on its way, what follows it, and how many turns there are.
Looping(v, k, s, q, x) ==
    Reads(v, q.wire, q.to, q.added) /\ (Waits(v) \/ (Turns(v) \in Int /\ Turns(v) + k <= q.turns))

Loop == INSTANCE FoldKeeps WITH Op <- StageOp, Good <- Looping

LEMMA ReadFacts ==
    ASSUME NEW a \in Nat, a <= Len(Packages), NEW w \in Seq(Places), NEW c, NEW v, Reads(v, w, c, a),
           Waits(v) \/ Turns(v) <= 3 * Len(v.pending), Turns(v) \in Int
    PROVE  Reads(Read(v), w, c, a) /\ Waits(Read(v))
<1> DEFINE n == 3 * Len(v.pending)
           s == [i \in 1 .. n |-> i]
           q == [wire |-> w, to |-> c, added |-> a, turns |-> n]
           o == Loop!Folded(v, s, q)
<1>1. Read(v) = o
  BY DEF Read, FoldLeft, MapThenFoldSet, Max, StageOp, Loop!Folded, Loop!Iterates, Loop!Last
<1>2. n \in Nat
  BY ReaderFacts DEF Reads
<1>3. q.wire = w /\ q.to = c /\ q.added = a /\ q.turns = n
  OBVIOUS
<1>4. DOMAIN s = 1 .. n
  OBVIOUS
<1> HIDE DEF q, o, s, n
<1>5. Looping(v, 0, s, q, a)
  <2>1. Turns(v) + 0 = Turns(v)
    OBVIOUS
  <2> QED
    BY <1>3, <2>1 DEF Looping, n
<1>6. ASSUME NEW k \in Nat, NEW u, k < n, Looping(u, k, s, q, a) PROVE Looping(StageOp(u, s[k + 1], q), k + 1, s, q, a)
  <2>1. Reads(u, w, c, a)
    BY <1>3, <1>6 DEF Looping
  <2>2. CASE Waits(u)
    <3>1. Stage(u) = u
      BY <2>1, <2>2, StageWaits
    <3> QED
      BY <1>3, <2>1, <2>2, <3>1 DEF Looping, StageOp
  <2>3. CASE ~Waits(u)
    <3>1. Reads(Stage(u), w, c, a) /\ Turns(Stage(u)) <= Turns(u) - 1 /\ Turns(Stage(u)) \in Int /\ Turns(u) \in Int
      BY <2>1, <2>3, StageReads
    <3>2. Turns(u) + k <= n
      BY <1>3, <1>6, <2>3 DEF Looping
    <3>3. Turns(Stage(u)) + (k + 1) <= n
      BY <1>2, <3>1, <3>2
    <3> QED
      BY <1>3, <3>1, <3>3 DEF Looping, StageOp
  <2> QED
    BY <2>2, <2>3
<1>7. Looping(o, n, s, q, a)
  <2>1. \A k \in Nat : \A u : k < n /\ Looping(u, k, s, q, a) => Looping(StageOp(u, s[k + 1], q), k + 1, s, q, a)
    BY <1>6
  <2> QED
    BY <1>2, <1>4, <1>5, <2>1, Loop!FoldKept DEF o
<1>8. Reads(o, w, c, a)
  BY <1>3, <1>7 DEF Looping
<1>9. Waits(o)
  <2> SUFFICES ASSUME ~Waits(o) PROVE FALSE
    OBVIOUS
  <2>1. Turns(o) \in Int /\ Turns(o) <= 0
    BY <1>2, <1>3, <1>7 DEF Looping
  <2>2. Wanted(o) \in Nat /\ Len(o.pending) \in Nat
    BY <1>8, WantedFacts, ReaderFacts DEF Reads
  <2>3. FreeTurns(o) \in {0, 1, 2}
    BY DEF FreeTurns
  <2>4. FreeTurns(o) = 0 /\ Len(o.pending) = 0
    BY <2>1, <2>2, <2>3 DEF Turns
  <2>5. Wanted(o) > 0
    BY <2>4 DEF FreeTurns
  <2> QED
    BY <2>4, <2>5 DEF Waits
<1> QED
  BY <1>1, <1>8, <1>9
-----------------------------------------------------------------------------
(* Writing.                                                                 *)

\* The buffers in bufs hold the bytes from c on, up to the one before d.
BuffersInRow(bufs, c, d, a) ==
    /\ bufs \in Seq(Seq(ByteNames(a)))
    /\ \E cuts : /\ cuts[1] = c /\ cuts[Len(bufs) + 1] = d
                 /\ \A i \in 1 .. Len(bufs) : InRow(bufs[i], cuts[i], cuts[i + 1], a)

LEMMA NamesAndPlaces ==
    ASSUME NEW a \in Nat
    PROVE  /\ \A d \in Nat : a <= d => Seq(ByteNames(a)) \subseteq Seq(ByteNames(d)) /\ Seq(Seq(ByteNames(a))) \subseteq Seq(Seq(ByteNames(d)))
           /\ Seq(ByteNames(a)) \subseteq Seq(Places) /\ Seq(Seq(ByteNames(a))) \subseteq Seq(Seq(Places))
<1>1. ASSUME NEW S, NEW T, S \subseteq T PROVE Seq(S) \subseteq Seq(T) /\ Seq(Seq(S)) \subseteq Seq(Seq(T))
  <2>1. Seq(S) \subseteq Seq(T)
    BY <1>1, SeqMonotonic
  <2> QED
    BY <2>1, SeqMonotonic
<1>2. \A d \in Nat : a <= d => ByteNames(a) \subseteq ByteNames(d)
  BY DEF ByteNames
<1>3. ByteNames(a) \subseteq Places
  BY DEF ByteNames, Places
<1> QED
  BY <1>1, <1>2, <1>3

LEMMA BuffersOfMore ==
    ASSUME NEW a \in Nat, NEW e \in Nat, a <= e, NEW bufs, NEW c, NEW d, BuffersInRow(bufs, c, d, a)
    PROVE  BuffersInRow(bufs, c, d, e)
<1>1. bufs \in Seq(Seq(ByteNames(e)))
  BY NamesAndPlaces DEF BuffersInRow
<1>2. PICK cuts : /\ cuts[1] = c /\ cuts[Len(bufs) + 1] = d
                  /\ \A i \in 1 .. Len(bufs) : InRow(bufs[i], cuts[i], cuts[i + 1], a)
  BY DEF BuffersInRow
<1>3. \A i \in 1 .. Len(bufs) : InRow(bufs[i], cuts[i], cuts[i + 1], e)
  BY <1>2, RowOfMore
<1> QED
  BY <1>1, <1>2, <1>3 DEF BuffersInRow

LEMMA BuffersJoined ==
    ASSUME NEW a \in Nat, NEW s, NEW t, NEW b, NEW c, NEW d, BuffersInRow(s, b, c, a), BuffersInRow(t, c, d, a)
    PROVE  BuffersInRow(s \o t, b, d, a)
<1> DEFINE m == Len(s)
           n == Len(t)
           u == s \o t
<1>1. PICK f : f[1] = b /\ f[m + 1] = c /\ \A i \in 1 .. m : InRow(s[i], f[i], f[i + 1], a)
  BY DEF BuffersInRow
<1>2. PICK g : g[1] = c /\ g[n + 1] = d /\ \A i \in 1 .. n : InRow(t[i], g[i], g[i + 1], a)
  BY DEF BuffersInRow
<1>3. s \in Seq(Seq(ByteNames(a))) /\ t \in Seq(Seq(ByteNames(a))) /\ m \in Nat /\ n \in Nat
  BY LenProperties DEF BuffersInRow
<1>4. u \in Seq(Seq(ByteNames(a))) /\ Len(u) = m + n /\ \A i \in 1 .. m + n : u[i] = IF i <= m THEN s[i] ELSE t[i - m]
  BY <1>3, ConcatProperties
<1> HIDE DEF u, m, n
<1> DEFINE h == [i \in 1 .. m + n + 1 |-> IF i <= m THEN f[i] ELSE g[i - m]]
<1>5. \A i \in 1 .. m + n + 1 : h[i] = IF i <= m THEN f[i] ELSE g[i - m]
  OBVIOUS
<1> HIDE DEF h
<1>6. h[m + 1] = c /\ h[1] = b
  <2>1. m + 1 \in 1 .. m + n + 1 /\ ~(m + 1 <= m) /\ (m + 1) - m = 1 /\ 1 \in 1 .. m + n + 1
    BY <1>3
  <2>2. h[m + 1] = c
    BY <1>2, <1>5, <2>1
  <2>3. CASE m = 0
    BY <1>1, <2>2, <2>3
  <2>4. CASE m # 0
    <3>1. 1 <= m
      BY <1>3, <2>4
    <3>2. h[1] = f[1]
      BY <1>5, <2>1, <3>1
    <3> QED
      BY <1>1, <2>2, <3>2
  <2> QED
    BY <2>3, <2>4
<1>7. h[m + n + 1] = d
  <2>1. m + n + 1 \in 1 .. m + n + 1 /\ ~(m + n + 1 <= m) /\ (m + n + 1) - m = n + 1
    BY <1>3
  <2> QED
    BY <1>2, <1>5, <2>1
<1>8. ASSUME NEW i \in 1 .. m + n PROVE InRow(u[i], h[i], h[i + 1], a)
  <2>1. i \in 1 .. m + n + 1 /\ i + 1 \in 1 .. m + n + 1
    BY <1>3
  <2>2. CASE i <= m
    <3>1. i \in 1 .. m /\ u[i] = s[i] /\ h[i] = f[i]
      BY <1>3, <1>4, <1>5, <2>1, <2>2
    <3>2. h[i + 1] = f[i + 1]
      <4>1. CASE i = m
        BY <1>1, <1>6, <4>1
      <4>2. CASE i # m
        <5>1. i + 1 <= m
          BY <1>3, <2>2, <4>2
        <5> QED
          BY <1>5, <2>1, <5>1
      <4> QED
        BY <4>1, <4>2
    <3> QED
      BY <1>1, <3>1, <3>2
  <2>3. CASE ~(i <= m)
    <3>1. i - m \in 1 .. n /\ ~(i + 1 <= m) /\ (i + 1) - m = (i - m) + 1
      BY <1>3, <2>3
    <3>2. u[i] = t[i - m] /\ h[i] = g[i - m]
      BY <1>4, <1>5, <2>1, <2>3
    <3>3. h[i + 1] = g[(i - m) + 1]
      BY <1>5, <2>1, <3>1
    <3> QED
      BY <1>2, <3>1, <3>2, <3>3
  <2> QED
    BY <2>2, <2>3
<1>9. Len(u) + 1 = m + n + 1
  BY <1>3, <1>4
<1>10. BuffersInRow(u, b, d, a)
  BY <1>4, <1>6, <1>7, <1>8, <1>9 DEF BuffersInRow
<1> QED
  BY <1>10 DEF u

LEMMA BuffersOfData ==
    ASSUME NEW a \in Nat, NEW p \in 1 .. a, p \in DOMAIN Packages, NEW from \in Nat, NEW length \in Nat,
           from + length <= TotalLength(p)
    PROVE  BuffersInRow(WriteData(p, from, length), After(p, from), After(p, from + length), a)
<1>1. CASE length = 0
  <2> DEFINE cuts == [i \in {1} |-> After(p, from)]
  <2>1. <<>> \in Seq(Seq(ByteNames(a))) /\ Len(<<>>) = 0
    BY EmptySeq
  <2>2. cuts[1] = After(p, from) /\ cuts[Len(<<>>) + 1] = After(p, from + length)
    BY <1>1
  <2>3. \A i \in 1 .. Len(<<>>) : InRow(<<>>[i], cuts[i], cuts[i + 1], a)
    OBVIOUS
  <2> HIDE DEF cuts
  <2>4. BuffersInRow(<<>>, After(p, from), After(p, from + length), a)
    BY <2>1, <2>2, <2>3 DEF BuffersInRow
  <2> QED
    BY <1>1, <2>4 DEF WriteData
<1>2. CASE length # 0
  <2> DEFINE s == Bytes(p, from, length)
             cuts == [i \in {1, 2} |-> IF i = 1 THEN After(p, from) ELSE After(p, from + length)]
  <2>1. InRow(s, After(p, from), After(p, from + length), a)
    BY RowOfBytes
  <2> HIDE DEF s
  <2>2. s \in Seq(ByteNames(a))
    BY <2>1 DEF InRow
  <2>3. <<s>> \in Seq(Seq(ByteNames(a))) /\ Len(<<s>>) = 1 /\ <<s>>[1] = s
    BY <2>2
  <2>4. cuts[1] = After(p, from) /\ cuts[2] = After(p, from + length)
    OBVIOUS
  <2> HIDE DEF cuts
  <2>5. cuts[Len(<<s>>) + 1] = After(p, from + length)
    BY <2>3, <2>4
  <2>6. \A i \in 1 .. Len(<<s>>) : InRow(<<s>>[i], cuts[i], cuts[i + 1], a)
    <3>1. \A i \in 1 .. Len(<<s>>) : i = 1 /\ i + 1 = 2
      BY <2>3
    <3> QED
      BY <2>1, <2>3, <2>4, <3>1
  <2>7. BuffersInRow(<<s>>, After(p, from), After(p, from + length), a)
    BY <2>3, <2>4, <2>5, <2>6 DEF BuffersInRow
  <2> QED
    BY <1>2, <2>7 DEF WriteData, s
<1> QED
  BY <1>1, <1>2

LEMMA BuffersOfPackage ==
    ASSUME NEW a \in Nat, NEW p \in 1 .. a, p \in DOMAIN Packages
    PROVE  BuffersInRow(FromPackage(p), <<p, 1>>, <<p + 1, 1>>, a)
<1> DEFINE h == HeaderLength
           b == Packages[p].body
           d == Packages[p].data
<1>1. h \in Nat /\ b \in Nat /\ d \in Nat /\ TotalLength(p) = h + b + d /\ TotalLength(p) >= 1 /\ p \in Nat
  BY PackageLengths
<1> HIDE DEF h, b, d
<1>2. /\ 0 \in Nat /\ h + b \in Nat /\ 0 + h = h /\ (h + b) + d = TotalLength(p) /\ h + b <= TotalLength(p) /\ 0 + h <= TotalLength(p)
      /\ (h + b) + d <= TotalLength(p)
  BY <1>1
<1>3. BuffersInRow(WriteData(p, 0, h), After(p, 0), After(p, 0 + h), a)
  BY <1>1, <1>2, BuffersOfData
<1>4. BuffersInRow(WriteData(p, h, b), After(p, h), After(p, h + b), a)
  BY <1>1, <1>2, BuffersOfData
<1>5. BuffersInRow(WriteData(p, h + b, d), After(p, h + b), After(p, (h + b) + d), a)
  BY <1>1, <1>2, BuffersOfData
<1>6. BuffersInRow(WriteData(p, 0, h) \o WriteData(p, h, b), After(p, 0), After(p, h + b), a)
  BY <1>2, <1>3, <1>4, BuffersJoined
<1>7. BuffersInRow((WriteData(p, 0, h) \o WriteData(p, h, b)) \o WriteData(p, h + b, d), After(p, 0), After(p, (h + b) + d), a)
  BY <1>5, <1>6, BuffersJoined
<1>8. After(p, 0) = <<p, 1>> /\ After(p, (h + b) + d) = <<p + 1, 1>>
  BY <1>1, <1>2 DEF After
<1> QED
  BY <1>7, <1>8 DEF FromPackage, h, b, d

SendOp(v, b, q) == v \o b

\* What is on its way after k buffers: q says what is before it, and where the buffers begin.
Sending(v, k, s, q, x) == v \in Seq(Places) /\ InRow(q.pending \o v, q.from, q.cuts[k + 1], q.added)

SendLoop == INSTANCE FoldKeeps WITH Op <- SendOp, Good <- Sending

LEMMA SentFacts ==
    ASSUME NEW a \in Nat, NEW s \in Seq(Places), NEW w \in Seq(Places), NEW b, NEW c, NEW d, InRow(s \o w, b, c, a),
           NEW bufs, BuffersInRow(bufs, c, d, a), NEW n \in 0 .. Len(bufs)
    PROVE  \E e : /\ Sent(w, SubSeq(bufs, 1, n)) \in Seq(Places)
                  /\ InRow(s \o Sent(w, SubSeq(bufs, 1, n)), b, e, a)
                  /\ BuffersInRow(Unsent(bufs, n), e, d, a)
<1> DEFINE f == SubSeq(bufs, 1, n)
           r == SubSeq(bufs, n + 1, Len(bufs))
<1>1. PICK cuts : /\ cuts[1] = c /\ cuts[Len(bufs) + 1] = d
                  /\ \A i \in 1 .. Len(bufs) : InRow(bufs[i], cuts[i], cuts[i + 1], a)
  BY DEF BuffersInRow
<1> DEFINE q == [pending |-> s, from |-> b, cuts |-> cuts, added |-> a]
           o == SendLoop!Folded(w, f, q)
<1>2. Sent(w, f) = o
  BY DEF Sent, FoldLeft, MapThenFoldSet, Max, SendOp, SendLoop!Folded, SendLoop!Iterates, SendLoop!Last
<1>3. bufs \in Seq(Seq(ByteNames(a))) /\ Len(bufs) \in Nat /\ n \in Nat /\ n <= Len(bufs)
  BY LenProperties DEF BuffersInRow
<1>4. Parts(bufs, n, Seq(ByteNames(a)), f, r)
  BY <1>3, PartsOf
<1> HIDE DEF f, r
<1>5. /\ f \in Seq(Seq(ByteNames(a))) /\ Len(f) = n /\ (\A i \in 1 .. n : f[i] = bufs[i])
      /\ r \in Seq(Seq(ByteNames(a))) /\ Len(r) = Len(bufs) - n /\ (\A i \in 1 .. Len(bufs) - n : r[i] = bufs[n + i])
  BY <1>4 DEF Parts
<1>6. DOMAIN f = 1 .. n
  BY <1>5, LenProperties
<1>7. q.pending = s /\ q.from = b /\ q.cuts = cuts /\ q.added = a
  OBVIOUS
<1> HIDE DEF q, o
<1>8. Sending(w, 0, f, q, a)
  <2>1. cuts[0 + 1] = c
    BY <1>1
  <2> QED
    BY <1>7, <2>1 DEF Sending
<1>9. ASSUME NEW k \in Nat, NEW v, k < n, Sending(v, k, f, q, a) PROVE Sending(SendOp(v, f[k + 1], q), k + 1, f, q, a)
  <2>1. k + 1 \in 1 .. n /\ k + 1 \in 1 .. Len(bufs)
    BY <1>3, <1>9
  <2> DEFINE g == bufs[k + 1]
  <2>2. InRow(g, cuts[k + 1], cuts[(k + 1) + 1], a) /\ f[k + 1] = g
    BY <1>1, <1>5, <2>1
  <2> HIDE DEF g
  <2>3. v \in Seq(Places) /\ InRow(s \o v, b, cuts[k + 1], a)
    BY <1>7, <1>9 DEF Sending
  <2>4. InRow((s \o v) \o g, b, cuts[(k + 1) + 1], a)
    BY <2>2, <2>3, RowsJoined
  <2>5. g \in Seq(Places)
    BY <2>2, NamesAndPlaces DEF InRow
  <2>6. v \in Seq(Places)
    BY <2>3
  <2>7. (s \o v) \o g = s \o (v \o g)
    BY <2>5, <2>6, ConcatAssociative, SMTT(25)
  <2>8. v \o g \in Seq(Places)
    BY <2>5, <2>6, ConcatProperties
  <2>9. InRow(s \o (v \o g), b, cuts[(k + 1) + 1], a)
    BY <2>4, <2>7
  <2> QED
    BY <1>7, <2>2, <2>8, <2>9, <2>4, <2>6 DEF Sending, SendOp
<1>10. Sending(o, n, f, q, a)
  <2>1. \A k \in Nat : \A v : k < n /\ Sending(v, k, f, q, a) => Sending(SendOp(v, f[k + 1], q), k + 1, f, q, a)
    BY <1>9
  <2> QED
    BY <1>3, <1>6, <1>8, <2>1, SendLoop!FoldKept DEF o
<1>11. o \in Seq(Places) /\ InRow(s \o o, b, cuts[n + 1], a)
  BY <1>7, <1>10 DEF Sending
<1>12. BuffersInRow(r, cuts[n + 1], d, a)
  <2> DEFINE h == [i \in 1 .. (Len(bufs) - n) + 1 |-> cuts[n + i]]
  <2>1. \A i \in 1 .. (Len(bufs) - n) + 1 : h[i] = cuts[n + i]
    OBVIOUS
  <2> HIDE DEF h
  <2>2. h[1] = cuts[n + 1] /\ h[Len(r) + 1] = d
    <3>1. 1 \in 1 .. (Len(bufs) - n) + 1 /\ Len(r) + 1 \in 1 .. (Len(bufs) - n) + 1 /\ n + (Len(r) + 1) = Len(bufs) + 1
      BY <1>3, <1>5
    <3> QED
      BY <1>1, <2>1, <3>1
  <2>3. ASSUME NEW i \in 1 .. Len(r) PROVE InRow(r[i], h[i], h[i + 1], a)
    <3>1. /\ i \in 1 .. Len(bufs) - n /\ i \in 1 .. (Len(bufs) - n) + 1 /\ i + 1 \in 1 .. (Len(bufs) - n) + 1
          /\ n + i \in 1 .. Len(bufs) /\ n + (i + 1) = (n + i) + 1
      BY <1>3, <1>5
    <3>2. r[i] = bufs[n + i] /\ h[i] = cuts[n + i] /\ h[i + 1] = cuts[(n + i) + 1]
      <4>1. h[i + 1] = cuts[n + (i + 1)]
        BY <2>1, <3>1
      <4> QED
        BY <1>5, <2>1, <3>1, <4>1
    <3> QED
      BY <1>1, <3>1, <3>2
  <2> QED
    BY <1>5, <2>2, <2>3 DEF BuffersInRow
<1>13. Unsent(bufs, n) = r
  BY DEF Unsent, r
<1> QED
  BY <1>2, <1>11, <1>12, <1>13 DEF f
-----------------------------------------------------------------------------
(* The invariant.                                                           *)

\* The writers ws hold what follows c up to the last of a packages: the first one the rest of
\* its package, the others a package each.  Only a closed connection has dropped some.
WritersOk(ws, c, a, dropped) ==
    /\ ws \in Seq(Seq(Seq(Places))) /\ Len(ws) <= a
    /\ ws # <<>> => BuffersInRow(ws[1], c, <<a - Len(ws) + 2, 1>>, a)
    /\ \A j \in 2 .. Len(ws) : ws[j] = FromPackage(a - Len(ws) + j)
    /\ ws = <<>> => dropped \/ c = <<a + 1, 1>>

\* A writer with something to send waits for the socket.
WritersWait(ws, full) == ws # <<>> /\ Head(ws) # <<>> => full

StreamInv ==
    /\ added \in Nat /\ added <= Len(Packages)
    /\ blocked \in BOOLEAN /\ closed \in BOOLEAN /\ wire \in Seq(Places)
    /\ Waits(reader)
    /\ WritersWait(writers, blocked)
    /\ \E c : Reads(reader, wire, c, added) /\ WritersOk(writers, c, added, closed)

LEMMA ReadsMore ==
    ASSUME NEW a \in Nat, NEW e \in Nat, a <= e, NEW v, NEW w, NEW c, Reads(v, w, c, a),
           NEW x, NEW d, InRow(v.pending \o x, After(Current(v), Taken(v)), d, e)
    PROVE  Reads(v, x, d, e)
<1>1. Len(v.emitted) \in Nat /\ Current(v) \in Nat
  BY ReaderFacts DEF Reads
<1>2. Len(v.emitted) <= e /\ (v.state # "header" => Current(v) <= e)
  BY <1>1 DEF Reads
<1> QED
  BY <1>2 DEF Reads

LEMMA HeadReplaced ==
    ASSUME NEW S, NEW s \in Seq(S), s # <<>>, NEW x \in S
    PROVE  LET t == <<x>> \o Tail(s)
           IN  t \in Seq(S) /\ Len(t) = Len(s) /\ t # <<>> /\ t[1] = x /\ Head(t) = x /\ \A j \in 2 .. Len(s) : t[j] = s[j]
<1> DEFINE r == Tail(s)
           n == Len(s)
           t == <<x>> \o r
<1>1. r \in Seq(S) /\ Len(r) = n - 1 /\ (\A j \in 1 .. n - 1 : r[j] = s[j + 1]) /\ n \in Nat /\ n >= 1
  BY HeadTailProperties, EmptySeq, LenProperties
<1>2. <<x>> \in Seq(S) /\ Len(<<x>>) = 1 /\ <<x>>[1] = x
  OBVIOUS
<1> HIDE DEF r, n
<1>3. t \in Seq(S) /\ Len(t) = 1 + Len(r) /\ \A j \in 1 .. 1 + Len(r) : t[j] = IF j <= 1 THEN x ELSE r[j - 1]
  <2>1. \A j \in 1 .. 1 + Len(r) : j <= 1 => j = 1
    BY <1>1
  <2> QED
    BY <1>1, <1>2, <2>1, ConcatProperties
<1> HIDE DEF t
<1>4. Len(t) = n /\ t # <<>> /\ t[1] = x
  <2>1. 1 \in 1 .. 1 + Len(r) /\ 1 <= 1 /\ 1 + Len(r) = n
    BY <1>1
  <2>2. Len(t) = n /\ t[1] = x
    BY <1>3, <2>1
  <2> QED
    BY <1>1, <2>2, EmptySeq
<1>5. Head(t) = x
  BY <1>4 DEF Head
<1>6. ASSUME NEW j \in 2 .. n PROVE t[j] = s[j]
  <2>1. j \in 1 .. 1 + Len(r) /\ ~(j <= 1) /\ j - 1 \in 1 .. n - 1 /\ (j - 1) + 1 = j
    BY <1>1
  <2>2. t[j] = r[j - 1]
    BY <1>3, <2>1
  <2>3. r[j - 1] = s[(j - 1) + 1]
    BY <1>1, <2>1
  <2> QED
    BY <2>1, <2>2, <2>3
<1> QED
  BY <1>3, <1>4, <1>5, <1>6 DEF t, r, n

LEMMA DoSendKeeps ==
    ASSUME NEW a \in Nat, NEW s \in Seq(Places), wire \in Seq(Places), NEW b, NEW c, InRow(s \o wire, b, c, a),
           NEW ws, NEW dropped \in BOOLEAN, WritersOk(ws, c, a, dropped), NEW full \in BOOLEAN, DoSend(ws, full)
    PROVE  /\ wire' \in Seq(Places) /\ blocked' \in BOOLEAN /\ WritersWait(writers', blocked')
           /\ \E e : InRow(s \o wire', b, e, a) /\ WritersOk(writers', e, a, dropped)
<1>1. CASE ws = <<>> \/ Head(ws) = <<>>
  <2>1. writers' = ws /\ wire' = wire /\ blocked' = full
    BY <1>1 DEF DoSend
  <2>2. WritersWait(writers', blocked')
    BY <1>1, <2>1 DEF WritersWait
  <2> QED
    BY <2>1, <2>2
<1>2. CASE ~(ws = <<>> \/ Head(ws) = <<>>)
  <2> DEFINE h == Head(ws)
  <2>1. PICK n \in (IF full THEN {0} ELSE 1 .. Len(h)) :
            /\ wire' = Sent(wire, SubSeq(h, 1, n))
            /\ writers' = <<Unsent(h, n)>> \o Tail(ws)
            /\ blocked' \in (IF n < Len(h) THEN {TRUE} ELSE BOOLEAN)
    BY <1>2 DEF DoSend
  <2>2. ws \in Seq(Seq(Seq(Places))) /\ ws # <<>> /\ Len(ws) \in Nat /\ Len(ws) <= a
    BY <1>2, LenProperties DEF WritersOk
  <2>3. h = ws[1] /\ BuffersInRow(h, c, <<a - Len(ws) + 2, 1>>, a)
    BY <2>2 DEF WritersOk, Head
  <2>4. h \in Seq(Seq(Places))
    BY <2>2, HeadTailProperties
  <2> HIDE DEF h
  <2>5. Len(h) \in Nat /\ n \in 0 .. Len(h)
    <3>1. Len(h) \in Nat
      BY <2>4, LenProperties
    <3> QED
      BY <2>1, <3>1
  <2> DEFINE d == <<a - Len(ws) + 2, 1>>
             u == Unsent(h, n)
  <2>6. BuffersInRow(h, c, d, a)
    BY <2>3
  <2> HIDE DEF d
  <2>7. PICK e : /\ Sent(wire, SubSeq(h, 1, n)) \in Seq(Places)
                 /\ InRow(s \o Sent(wire, SubSeq(h, 1, n)), b, e, a)
                 /\ BuffersInRow(Unsent(h, n), e, d, a)
    BY <2>5, <2>6, SentFacts
  <2>8. wire' \in Seq(Places) /\ InRow(s \o wire', b, e, a)
    BY <2>1, <2>7
  <2>9. u \in Seq(Seq(Places)) /\ Len(u) = Len(h) - n
    BY <2>4, <2>5, PartsOf DEF Parts, Unsent
  <2> HIDE DEF u
  <2>10. writers' = <<u>> \o Tail(ws)
    BY <2>1 DEF u
  <2>11. /\ writers' \in Seq(Seq(Seq(Places))) /\ Len(writers') = Len(ws) /\ writers' # <<>> /\ writers'[1] = u
         /\ Head(writers') = u /\ \A j \in 2 .. Len(ws) : writers'[j] = ws[j]
    BY <2>2, <2>9, <2>10, HeadReplaced
  <2>12. BuffersInRow(u, e, d, a)
    BY <2>7 DEF u
  <2>13. WritersOk(writers', e, a, dropped)
    <3>1. \A j \in 2 .. Len(writers') : writers'[j] = FromPackage(a - Len(writers') + j)
      BY <2>11 DEF WritersOk
    <3>2. BuffersInRow(writers'[1], e, <<a - Len(writers') + 2, 1>>, a)
      BY <2>11, <2>12 DEF d
    <3> QED
      BY <2>2, <2>11, <3>1, <3>2 DEF WritersOk
  <2>14. blocked' \in BOOLEAN /\ WritersWait(writers', blocked')
    <3>1. CASE n < Len(h)
      BY <2>1, <3>1 DEF WritersWait
    <3>2. CASE ~(n < Len(h))
      <4>1. Len(u) = 0
        BY <2>5, <2>9, <3>2
      <4>2. u = <<>>
        BY <2>9, <4>1, EmptySeq
      <4> QED
        BY <2>1, <2>11, <3>2, <4>2 DEF WritersWait
    <3> QED
      BY <3>1, <3>2
  <2> QED
    BY <2>8, <2>13, <2>14
<1> QED
  BY <1>1, <1>2

\* What DoSend does to the invariant, when the reader has not changed.
LEMMA SendingKeeps ==
    ASSUME NEW a \in Nat, NEW e \in Nat, a <= e, e <= Len(Packages), wire \in Seq(Places), NEW c, Reads(reader, wire, c, a),
           Waits(reader), closed \in BOOLEAN, NEW ws, WritersOk(ws, c, e, closed), NEW full \in BOOLEAN, DoSend(ws, full),
           added' = e, reader' = reader, closed' = closed
    PROVE  StreamInv'
<1> DEFINE b == After(Current(reader), Taken(reader))
<1>1. InRow(reader.pending \o wire, b, c, a) /\ reader.pending \in Seq(Places)
  BY ReaderFacts DEF Reads
<1> HIDE DEF b
<1>2. InRow(reader.pending \o wire, b, c, e)
  BY <1>1, RowOfMore
<1>3. /\ wire' \in Seq(Places) /\ blocked' \in BOOLEAN /\ WritersWait(writers', blocked')
      /\ \E d : InRow(reader.pending \o wire', b, d, e) /\ WritersOk(writers', d, e, closed)
  BY <1>1, <1>2, DoSendKeeps
<1>4. PICK d : InRow(reader.pending \o wire', b, d, e) /\ WritersOk(writers', d, e, closed)
  BY <1>3
<1>5. Reads(reader, wire', d, e)
  BY <1>4, ReadsMore DEF b
<1>6. Reads(reader', wire', d, added') /\ WritersOk(writers', d, added', closed')
  BY <1>4, <1>5
<1>7. Waits(reader')
  OBVIOUS
<1> QED
  BY <1>3, <1>6, <1>7 DEF StreamInv

LEMMA StreamStarts == StreamInit => StreamInv
<1> SUFFICES ASSUME StreamInit PROVE StreamInv
  OBVIOUS
<1>1. reader.state = "header" /\ reader.package = <<>> /\ reader.pending = <<>> /\ reader.emitted = <<>>
  BY DEF StreamInit
<1>2. added = 0 /\ writers = <<>> /\ blocked = FALSE /\ wire = <<>> /\ closed = FALSE /\ Len(Packages) \in Nat
  BY StreamAssumption, LenProperties DEF StreamInit
<1>3. HeaderLength \in Nat /\ HeaderLength >= 1
  BY StreamAssumption
<1>4. Current(reader) = 1 /\ Taken(reader) = 0 /\ Wanted(reader) = HeaderLength
  BY <1>1 DEF Current, Taken, Wanted
<1>5. Waits(reader)
  BY <1>1, <1>3, <1>4 DEF Waits
<1>6. InRow(reader.pending \o wire, After(1, 0), <<1, 1>>, 0)
  <2>1. reader.pending \o wire = <<>> /\ <<>> \in Seq(ByteNames(0)) /\ Len(<<>>) = 0
    BY <1>1, <1>2, EmptySeq, ConcatEmptySeq
  <2>2. After(1, 0) = <<1, 1>>
    BY DEF After
  <2> QED
    BY <2>1, <2>2 DEF InRow
<1>7. reader.package = Bytes(1, 0, 0)
  <2>1. Bytes(1, 0, 0) \in Seq(Places) /\ Len(Bytes(1, 0, 0)) = 0
    <3>1. Bytes(1, 0, 0) \in [1 .. 0 -> Places] /\ DOMAIN Bytes(1, 0, 0) = 1 .. 0
      BY DEF Bytes, Places
    <3> QED
      BY <3>1
  <2> QED
    BY <1>1, <2>1, EmptySeq
<1>8. reader \in Readers
  <2>1. reader \in [state : {"header"}, package : {<<>>}, pending : {<<>>}, emitted : {<<>>}]
    BY DEF StreamInit
  <2>2. <<>> \in Seq(Places) /\ <<>> \in Seq(Seq(Places))
    BY EmptySeq
  <2> QED
    BY <2>1, <2>2 DEF Readers
<1>9. Reads(reader, wire, <<1, 1>>, 0)
  <2>1. Len(reader.emitted) = 0 /\ DOMAIN reader.emitted = {}
    BY <1>1
  <2> QED
    BY <1>1, <1>4, <1>6, <1>7, <1>8, <2>1 DEF Reads
<1>10. WritersOk(writers, <<1, 1>>, 0, closed)
  <2>1. <<>> \in Seq(Seq(Seq(Places))) /\ Len(<<>>) = 0
    BY EmptySeq
  <2> QED
    BY <1>2, <2>1 DEF WritersOk
<1>11. WritersWait(writers, blocked) /\ wire \in Seq(Places)
  BY <1>2, EmptySeq DEF WritersWait
<1>12. added \in Nat /\ added <= Len(Packages) /\ blocked \in BOOLEAN /\ closed \in BOOLEAN
  <2>1. added \in Nat /\ added <= Len(Packages)
    BY <1>2
  <2>2. blocked \in BOOLEAN /\ closed \in BOOLEAN
    BY <1>2, Zenon
  <2> QED
    BY <2>1, <2>2
<1>13. Reads(reader, wire, <<1, 1>>, added) /\ WritersOk(writers, <<1, 1>>, added, closed)
  BY <1>2, <1>9, <1>10
<1> QED
  BY <1>5, <1>11, <1>12, <1>13 DEF StreamInv

LEMMA WriterAdded ==
    ASSUME StreamInv, AddPendingWriter
    PROVE  StreamInv'
<1> DEFINE a == added
           e == added + 1
           g == FromPackage(e)
           n == Len(writers)
<1>1. a \in Nat /\ e \in Nat /\ a <= e /\ e <= Len(Packages) /\ added' = e /\ e \in 1 .. e
  <2>1. Len(Packages) \in Nat
    BY StreamAssumption, LenProperties
  <2> QED
    BY <2>1 DEF StreamInv, AddPendingWriter
<1>2. reader' = reader /\ closed' = closed /\ closed = FALSE
  BY DEF StreamInv, AddPendingWriter
<1>3. PICK c : Reads(reader, wire, c, a) /\ WritersOk(writers, c, a, closed)
  BY DEF StreamInv
<1>4. BuffersInRow(g, <<e, 1>>, <<e + 1, 1>>, e) /\ g \in Seq(Seq(Places))
  <2>1. e \in DOMAIN Packages
    <3>1. DOMAIN Packages = 1 .. Len(Packages) /\ Len(Packages) \in Nat
      BY StreamAssumption, LenProperties
    <3> QED
      BY <1>1, <3>1
  <2>2. BuffersInRow(g, <<e, 1>>, <<e + 1, 1>>, e)
    BY <1>1, <2>1, BuffersOfPackage
  <2> HIDE DEF g
  <2> QED
    BY <1>1, <2>2, NamesAndPlaces DEF BuffersInRow
<1> HIDE DEF g
<1>5. writers \in Seq(Seq(Seq(Places))) /\ n \in Nat /\ n <= a
  BY <1>3, LenProperties DEF WritersOk
<1>6. CASE writers = <<>>
  <2> DEFINE ws == Append(writers, g)
  <2>1. DoSend(ws, blocked)
    BY <1>1, <1>6 DEF AddPendingWriter, g
  <2>2. c = <<e, 1>>
    BY <1>2, <1>3, <1>6 DEF WritersOk
  <2>3. ws \in Seq(Seq(Seq(Places))) /\ Len(ws) = 1 /\ ws[1] = g /\ ws # <<>>
    <3>1. Len(writers) = 0
      BY <1>6, EmptySeq
    <3>2. /\ Append(writers, g) \in Seq(Seq(Seq(Places))) /\ Append(writers, g) # <<>>
          /\ Len(Append(writers, g)) = Len(writers) + 1 /\ Append(writers, g)[Len(writers) + 1] = g
      BY <1>4, <1>5, AppendProperties
    <3> QED
      BY <3>1, <3>2
  <2> HIDE DEF ws
  <2>4. WritersOk(ws, c, e, closed)
    <3>1. e - Len(ws) + 2 = e + 1 /\ Len(ws) <= e /\ 2 .. Len(ws) = {}
      BY <1>1, <2>3
    <3> QED
      BY <1>4, <2>2, <2>3, <3>1 DEF WritersOk
  <2>5. wire \in Seq(Places) /\ Waits(reader) /\ closed \in BOOLEAN /\ blocked \in BOOLEAN
    BY DEF StreamInv
  <2> QED
    BY <1>1, <1>2, <1>3, <2>1, <2>4, <2>5, SendingKeeps
<1>7. CASE writers # <<>>
  <2> DEFINE ws == Append(writers, g)
  <2>1. writers' = ws /\ wire' = wire /\ blocked' = blocked
    BY <1>1, <1>7 DEF AddPendingWriter, g
  <2>2. ws \in Seq(Seq(Seq(Places))) /\ Len(ws) = n + 1 /\ (\A j \in 1 .. n : ws[j] = writers[j]) /\ ws[n + 1] = g
    BY <1>4, <1>5, AppendProperties
  <2>3. n >= 1
    BY <1>5, <1>7, EmptySeq
  <2> HIDE DEF ws, n
  <2>4. ws # <<>> /\ ws[1] = writers[1] /\ Head(ws) = Head(writers)
    <3>1. 1 \in 1 .. n /\ n + 1 # 0
      BY <1>5, <2>3
    <3>2. ws # <<>>
      BY <1>5, <2>2, <2>3, EmptySeq
    <3> QED
      BY <2>2, <3>1, <3>2 DEF Head
  <2>5. WritersWait(ws, blocked)
    BY <1>7, <2>4 DEF StreamInv, WritersWait
  <2>6. WritersOk(ws, c, e, closed)
    <3>1. BuffersInRow(writers[1], c, <<a - n + 2, 1>>, a)
      BY <1>3, <1>7 DEF WritersOk, n
    <3>2. BuffersInRow(writers[1], c, <<a - n + 2, 1>>, e)
      BY <1>1, <3>1, BuffersOfMore
    <3>3. e - Len(ws) = a - n /\ Len(ws) <= e
      BY <1>1, <1>5, <2>2
    <3>4. ASSUME NEW j \in 2 .. Len(ws) PROVE ws[j] = FromPackage(e - Len(ws) + j)
      <4>1. CASE j <= n
        <5>1. j \in 1 .. n /\ j \in 2 .. n
          BY <1>5, <4>1
        <5>2. ws[j] = writers[j] /\ writers[j] = FromPackage(a - n + j)
          BY <1>3, <2>2, <5>1 DEF WritersOk, n
        <5> QED
          BY <3>3, <5>2
      <4>2. CASE ~(j <= n)
        <5>0. j \in 2 .. n + 1
          BY <2>2
        <5>1. j = n + 1 /\ (a - n) + j = e
          <6>1. a \in Nat /\ n \in Nat
            BY <1>1, <1>5
          <6> QED
            BY <4>2, <5>0, <6>1
        <5> QED
          BY <2>2, <3>3, <5>1 DEF g
      <4> QED
        BY <4>1, <4>2
    <3> QED
      BY <2>2, <2>4, <3>2, <3>3, <3>4 DEF WritersOk
  <2>7. Reads(reader, wire, c, e)
    <3>1. InRow(reader.pending \o wire, After(Current(reader), Taken(reader)), c, a)
      BY <1>3 DEF Reads
    <3>2. InRow(reader.pending \o wire, After(Current(reader), Taken(reader)), c, e)
      BY <1>1, <3>1, RowOfMore
    <3> QED
      BY <1>1, <1>3, <3>2, ReadsMore
  <2>8. Reads(reader', wire', c, added') /\ WritersOk(writers', c, added', closed')
    BY <1>1, <1>2, <2>1, <2>6, <2>7
  <2>9. /\ added' \in Nat /\ added' <= Len(Packages) /\ blocked' \in BOOLEAN /\ closed' \in BOOLEAN /\ wire' \in Seq(Places)
        /\ Waits(reader') /\ WritersWait(writers', blocked')
    BY <1>1, <1>2, <2>1, <2>5 DEF StreamInv
  <2> QED
    BY <2>8, <2>9 DEF StreamInv
<1> QED
  BY <1>6, <1>7

LEMMA Drained ==
    ASSUME StreamInv, Drain
    PROVE  StreamInv'
<1>1. PICK c : Reads(reader, wire, c, added) /\ WritersOk(writers, c, added, closed)
  BY DEF StreamInv
<1>2. /\ added \in Nat /\ added <= added /\ added <= Len(Packages) /\ wire \in Seq(Places) /\ Waits(reader)
      /\ closed \in BOOLEAN /\ FALSE \in BOOLEAN
  BY DEF StreamInv
<1>3. DoSend(writers, FALSE) /\ added' = added /\ reader' = reader /\ closed' = closed
  BY DEF Drain
<1> QED
  BY <1>1, <1>2, <1>3, SendingKeeps

LEMMA WriterFinished ==
    ASSUME StreamInv, OnFinish
    PROVE  StreamInv'
<1> DEFINE a == added
           n == Len(writers)
           ws == Tail(writers)
<1>1. PICK c : Reads(reader, wire, c, a) /\ WritersOk(writers, c, a, closed)
  BY DEF StreamInv
<1>2. /\ a \in Nat /\ a <= a /\ a <= Len(Packages) /\ wire \in Seq(Places) /\ Waits(reader)
      /\ closed \in BOOLEAN /\ blocked \in BOOLEAN
  BY DEF StreamInv
<1>3. DoSend(ws, blocked) /\ added' = a /\ reader' = reader /\ closed' = closed /\ writers # <<>> /\ Head(writers) = <<>>
  BY DEF OnFinish
<1>4. writers \in Seq(Seq(Seq(Places))) /\ n \in Nat /\ n <= a /\ n >= 1
  BY <1>1, <1>3, LenProperties, EmptySeq DEF WritersOk
<1>5. ws \in Seq(Seq(Seq(Places))) /\ Len(ws) = n - 1 /\ \A j \in 1 .. n - 1 : ws[j] = writers[j + 1]
  BY <1>3, <1>4, HeadTailProperties
<1>6. c = <<a - n + 2, 1>>
  <2>1. BuffersInRow(<<>>, c, <<a - n + 2, 1>>, a)
    BY <1>1, <1>3 DEF WritersOk, Head
  <2>2. Len(<<>>) + 1 = 1
    BY EmptySeq
  <2> QED
    BY <2>1, <2>2 DEF BuffersInRow
<1> HIDE DEF ws, n
<1>7. WritersOk(ws, c, a, closed)
  <2>1. Len(ws) <= a /\ a - Len(ws) = (a - n) + 1
    BY <1>2, <1>4, <1>5
  <2>2. ASSUME ws = <<>> PROVE c = <<a + 1, 1>>
    <3>1. n = 1
      BY <1>4, <1>5, <2>2, EmptySeq
    <3> QED
      BY <1>2, <1>6, <3>1
  <2>3. ASSUME NEW j \in 1 .. n - 1 PROVE ws[j] = FromPackage((a - n) + 1 + j)
    <3>1. j + 1 \in 2 .. n /\ (a - n) + (j + 1) = (a - n) + 1 + j
      BY <1>2, <1>4
    <3>2. ws[j] = writers[j + 1]
      BY <1>5
    <3>3. writers[j + 1] = FromPackage((a - n) + (j + 1))
      BY <1>1, <3>1 DEF WritersOk, n
    <3> QED
      BY <3>1, <3>2, <3>3
  <2>4. ASSUME ws # <<>> PROVE BuffersInRow(ws[1], c, <<(a - n) + 1 + 2, 1>>, a)
    <3>1. n - 1 >= 1
      BY <1>4, <1>5, <2>4, EmptySeq
    <3> DEFINE p == (a - n) + 2
    <3>2. 1 \in 1 .. n - 1 /\ (a - n) + 1 + 1 = p /\ p \in 1 .. a /\ p + 1 = (a - n) + 1 + 2
      BY <1>2, <1>4, <3>1
    <3>3. p \in DOMAIN Packages
      <4>1. DOMAIN Packages = 1 .. Len(Packages) /\ Len(Packages) \in Nat
        BY StreamAssumption, LenProperties
      <4> QED
        BY <1>2, <3>2, <4>1
    <3>4. c = <<p, 1>>
      BY <1>6
    <3> HIDE DEF p
    <3>5. BuffersInRow(FromPackage(p), <<p, 1>>, <<p + 1, 1>>, a)
      BY <1>2, <3>2, <3>3, BuffersOfPackage
    <3>6. ws[1] = FromPackage(p)
      BY <2>3, <3>2
    <3> QED
      BY <3>2, <3>4, <3>5, <3>6
  <2>5. \A j \in 2 .. Len(ws) : ws[j] = FromPackage(a - Len(ws) + j)
    <3>1. \A j \in 2 .. Len(ws) : j \in 1 .. n - 1
      BY <1>4, <1>5
    <3> QED
      BY <2>1, <2>3, <3>1
  <2> QED
    BY <1>5, <2>1, <2>2, <2>4, <2>5 DEF WritersOk
<1> QED
  BY <1>1, <1>2, <1>3, <1>7, SendingKeeps

LEMMA ConnectionClosed ==
    ASSUME StreamInv, Close
    PROVE  StreamInv'
<1>1. PICK c : Reads(reader, wire, c, added) /\ WritersOk(writers, c, added, closed)
  BY DEF StreamInv
<1>2. writers' = <<>> /\ closed' = TRUE /\ added' = added /\ blocked' = blocked /\ wire' = wire /\ reader' = reader
  BY DEF Close
<1>3. WritersOk(<<>>, c, added, TRUE)
  <2>1. <<>> \in Seq(Seq(Seq(Places))) /\ Len(<<>>) = 0 /\ Len(<<>>) <= added
    BY EmptySeq DEF StreamInv
  <2> QED
    BY <2>1 DEF WritersOk
<1>4. Reads(reader', wire', c, added') /\ WritersOk(writers', c, added', closed')
  BY <1>1, <1>2, <1>3
<1>5. WritersWait(writers', blocked')
  BY <1>2 DEF WritersWait
<1> QED
  BY <1>2, <1>4, <1>5 DEF StreamInv

LEMMA DataCame ==
    ASSUME StreamInv, OnData
    PROVE  StreamInv'
<1>1. PICK l \in 1 .. Len(wire) :
          /\ reader' = Read([reader EXCEPT !.pending = @ \o SubSeq(wire, 1, l)])
          /\ wire' = SubSeq(wire, l + 1, Len(wire))
  BY DEF OnData
<1>2. added' = added /\ writers' = writers /\ blocked' = blocked /\ closed' = closed
  BY DEF OnData
<1>3. PICK c : Reads(reader, wire, c, added) /\ WritersOk(writers, c, added, closed)
  BY DEF StreamInv
<1>4. added \in Nat /\ added <= Len(Packages) /\ wire \in Seq(Places) /\ Waits(reader)
  BY DEF StreamInv
<1> DEFINE f == SubSeq(wire, 1, l)
           r == SubSeq(wire, l + 1, Len(wire))
           v == [reader EXCEPT !.pending = @ \o f]
<1>5. f \in Seq(Places) /\ r \in Seq(Places) /\ f \o r = wire
  <2>1. l \in 0 .. Len(wire) /\ Len(wire) \in Nat
    BY <1>4, LenProperties
  <2>2. Parts(wire, l, Places, f, r)
    BY <1>4, <2>1, PartsOf
  <2>3. f \in Seq(Places) /\ Len(f) = l /\ r \in Seq(Places) /\ Len(r) = Len(wire) - l
    BY <2>2 DEF Parts
  <2>4. (\A i \in 1 .. l : f[i] = wire[i]) /\ \A i \in 1 .. Len(wire) - l : r[i] = wire[l + i]
    BY <2>2 DEF Parts
  <2> HIDE DEF f, r
  <2>5. /\ f \o r \in Seq(Places) /\ Len(f \o r) = Len(f) + Len(r)
        /\ \A i \in 1 .. Len(f) + Len(r) : (f \o r)[i] = IF i <= Len(f) THEN f[i] ELSE r[i - Len(f)]
    BY <2>3, ConcatProperties
  <2>6. Len(f \o r) = Len(wire)
    BY <2>1, <2>3, <2>5
  <2>7. ASSUME NEW i \in 1 .. Len(wire) PROVE (f \o r)[i] = wire[i]
    <3>1. i \in 1 .. Len(f) + Len(r)
      BY <2>1, <2>3
    <3>2. CASE i <= l
      <4>1. i \in 1 .. l
        BY <3>2
      <4> QED
        BY <2>3, <2>4, <2>5, <3>1, <3>2, <4>1
    <3>3. CASE ~(i <= l)
      <4>1. i - l \in 1 .. Len(wire) - l /\ l + (i - l) = i
        BY <2>1, <3>3
      <4>2. (f \o r)[i] = r[i - l]
        BY <2>3, <2>5, <3>1, <3>3
      <4> QED
        BY <2>4, <4>1, <4>2
    <3> QED
      BY <3>2, <3>3
  <2> QED
    BY <1>4, <2>3, <2>5, <2>6, <2>7, SeqEqual
<1>6. reader \in Readers /\ reader.pending \in Seq(Places)
  BY <1>3, ReaderFacts DEF Reads
<1> HIDE DEF f, r
<1>7. v \in Readers /\ v.state = reader.state /\ v.package = reader.package /\ v.emitted = reader.emitted /\ v.pending = reader.pending \o f
  <2>1. reader.pending \o f \in Seq(Places)
    BY <1>5, <1>6, ConcatProperties
  <2> QED
    BY <1>6, <2>1 DEF Readers
<1> HIDE DEF v
<1>8. Current(v) = Current(reader)
  BY <1>7 DEF Current
<1>9. Taken(v) = Taken(reader) /\ Wanted(v) = Wanted(reader)
  BY <1>7, <1>8 DEF Taken, Wanted
<1>10. Reads(v, r, c, added)
  <2> DEFINE s == reader.pending
  <2>0. s \in Seq(Places) /\ f \in Seq(Places) /\ r \in Seq(Places)
    BY <1>5, <1>6
  <2> HIDE DEF s
  <2>1. (s \o f) \o r = s \o (f \o r)
    BY <2>0, ConcatAssociative, SMTT(25)
  <2>2. v.pending = s \o f
    BY <1>7 DEF s
  <2>3. v.pending \o r = s \o wire
    BY <1>5, <2>1, <2>2
  <2>4. v.pending \o r = reader.pending \o wire
    BY <2>3 DEF s
  <2> QED
    BY <1>3, <1>7, <1>8, <1>9, <2>4 DEF Reads
<1>11. Waits(v) \/ Turns(v) <= 3 * Len(v.pending)
  <2>1. Wanted(v) > Len(reader.pending) /\ Len(reader.pending) \in Nat
    BY <1>4, <1>6, <1>9, LenProperties DEF Waits
  <2>2. Len(v.pending) \in Nat
    BY <1>7, ReaderFacts
  <2>3. CASE Waits(v)
    BY <2>3
  <2>4. CASE ~Waits(v)
    <3>1. Wanted(v) \in Nat
      BY <1>4, <1>5, <1>10, <2>4, WantedFacts
    <3>2. FreeTurns(v) = 0
      BY <2>1, <3>1 DEF FreeTurns
    <3> QED
      BY <2>2, <3>2 DEF Turns
  <2> QED
    BY <2>3, <2>4
<1>12. Turns(v) \in Int
  <2>1. Len(v.pending) \in Nat
    BY <1>7, ReaderFacts
  <2> QED
    BY <2>1 DEF Turns, FreeTurns
<1>13. Reads(Read(v), r, c, added) /\ Waits(Read(v))
  BY <1>4, <1>5, <1>10, <1>11, <1>12, ReadFacts
<1>14. reader' = Read(v) /\ wire' = r
  BY <1>1 DEF v, f, r
<1>15. Reads(reader', wire', c, added') /\ WritersOk(writers', c, added', closed') /\ Waits(reader')
  BY <1>2, <1>3, <1>13, <1>14
<1>16. /\ added' \in Nat /\ added' <= Len(Packages) /\ blocked' \in BOOLEAN /\ closed' \in BOOLEAN /\ wire' \in Seq(Places)
       /\ WritersWait(writers', blocked')
  BY <1>2, <1>5, <1>14 DEF StreamInv
<1> QED
  BY <1>15, <1>16 DEF StreamInv

LEMMA StreamInvImplies == StreamInv => PackagesInOrder
<1> SUFFICES ASSUME StreamInv PROVE PackagesInOrder
  OBVIOUS
<1> DEFINE a == added
           p == Current(reader)
           k == Taken(reader)
           s == reader.pending
<1>1. PICK c : Reads(reader, wire, c, a) /\ WritersOk(writers, c, a, closed)
  BY DEF StreamInv
<1>2. a \in Nat /\ a <= Len(Packages) /\ wire \in Seq(Places) /\ Waits(reader) /\ reader \in Readers /\ Len(reader.emitted) <= a
  BY <1>1 DEF StreamInv, Reads
<1>3. s \in Seq(Places) /\ Len(s) \in Nat /\ Len(reader.emitted) \in Nat /\ p = Len(reader.emitted) + 1
  BY <1>2, ReaderFacts DEF Current
<1>4. ASSUME writers = <<>>, wire = <<>>, ~closed PROVE Len(reader.emitted) = a
  <2> SUFFICES ASSUME Len(reader.emitted) # a PROVE FALSE
    OBVIOUS
  <2>1. p \in 1 .. a /\ p \in DOMAIN Packages
    <3>1. DOMAIN Packages = 1 .. Len(Packages) /\ Len(Packages) \in Nat
      BY StreamAssumption, LenProperties
    <3> QED
      BY <1>2, <1>3, <3>1
  <2>2. c = <<a + 1, 1>>
    BY <1>1, <1>4 DEF WritersOk
  <2>3. s \o wire = s
    BY <1>3, <1>4, ConcatEmptySeq
  <2>4. InRow(s, After(p, k), c, a)
    BY <1>1, <2>3 DEF Reads
  <2>5. /\ Packages[p].body \in Nat /\ Packages[p].data \in Nat /\ HeaderLength \in Nat
        /\ TotalLength(p) = HeaderLength + Packages[p].body + Packages[p].data
    BY <2>1, PackageLengths
  <2>6. k \in Nat /\ k + Len(s) < TotalLength(p) /\ TotalLength(p) \in Nat
    <3>1. Wanted(reader) > Len(s)
      BY <1>2 DEF Waits
    <3>2. k \in Nat /\ Wanted(reader) \in Nat /\ k + Wanted(reader) <= TotalLength(p)
      BY <2>5 DEF Taken, Wanted
    <3> HIDE DEF p, k, s
    <3>3. TotalLength(p) \in Nat /\ Len(s) \in Nat
      BY <1>3, <2>5
    <3>4. PICK x \in Nat, y \in Nat, z \in Nat, t \in Nat : x = k /\ y = Wanted(reader) /\ z = Len(s) /\ t = TotalLength(p)
      BY <3>2, <3>3
    <3>5. y > z /\ x + y <= t
      BY <3>1, <3>2, <3>4
    <3>6. x + z < t
      BY <3>5
    <3> QED
      BY <3>4, <3>6
  <2> HIDE DEF p, k, s
  <2>7. Len(s) \in 0 .. Len(s) /\ k + Len(s) <= TotalLength(p)
    BY <1>3, <2>6
  <2>8. InRow(SubSeq(s, Len(s) + 1, Len(s)), After(p, k + Len(s)), c, a)
    BY <1>2, <2>1, <2>4, <2>6, <2>7, RowFrom
  <2>9. Len(SubSeq(s, Len(s) + 1, Len(s))) = 0
    <3>1. Parts(s, Len(s), Places, SubSeq(s, 1, Len(s)), SubSeq(s, Len(s) + 1, Len(s)))
      BY <1>3, <2>7, PartsOf
    <3> QED
      BY <1>3, <3>1 DEF Parts
  <2>10. After(p, k + Len(s)) = c
    BY <2>8, <2>9 DEF InRow
  <2>11. After(p, k + Len(s)) = <<p, k + Len(s) + 1>>
    BY <2>6 DEF After
  <2>12. p = a + 1
    BY <2>2, <2>10, <2>11
  <2> QED
    BY <1>2, <2>1, <2>12
<1>5. \A i \in DOMAIN reader.emitted : reader.emitted[i] = Bytes(i, 0, TotalLength(i))
  BY <1>1 DEF Reads
<1>6. writers # <<>> /\ Head(writers) # <<>> => blocked
  BY DEF StreamInv, WritersWait
<1> QED
  BY <1>2, <1>4, <1>5, <1>6 DEF PackagesInOrder

\* However the bytes are cut into buffers and pieces and whenever the socket is full, packages
\* of any lengths come out whole, in the order in which they were added, and none stays behind
\* (net/writer.ts:101, net/reader.ts:41, net_tcp/connection.ts:65).
THEOREM PackagesComeInOrder == StreamSpec => []PackagesInOrder
<1>1. StreamInit => StreamInv
  BY StreamStarts
<1>2. StreamInv /\ [StreamNext]_streamVars => StreamInv'
  <2> SUFFICES ASSUME StreamInv, [StreamNext]_streamVars PROVE StreamInv'
    OBVIOUS
  <2>1. CASE AddPendingWriter
    BY <2>1, WriterAdded
  <2>2. CASE Drain
    BY <2>2, Drained
  <2>3. CASE OnFinish
    BY <2>3, WriterFinished
  <2>4. CASE Close
    BY <2>4, ConnectionClosed
  <2>5. CASE OnData
    BY <2>5, DataCame
  <2>6. CASE UNCHANGED streamVars
    <3>1. PICK c : Reads(reader, wire, c, added) /\ WritersOk(writers, c, added, closed)
      BY DEF StreamInv
    <3>2. added' = added /\ writers' = writers /\ blocked' = blocked /\ wire' = wire /\ reader' = reader /\ closed' = closed
      BY <2>6 DEF streamVars
    <3> QED
      BY <3>1, <3>2 DEF StreamInv
  <2> QED
    BY <2>1, <2>2, <2>3, <2>4, <2>5, <2>6 DEF StreamNext
<1>3. StreamInv => PackagesInOrder
  BY StreamInvImplies
<1> QED
  BY <1>1, <1>2, <1>3, PTL DEF StreamSpec
=============================================================================
