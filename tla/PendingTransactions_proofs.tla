--------------------- MODULE PendingTransactions_proofs ---------------------
(***************************************************************************)
(* Proofs about PendingTransactions, for any transactions, limits, changes *)
(* of the tip and chain with or without values.                            *)
(*                                                                         *)
(* Until a change of the tip is carried out (Reset), the queue is right    *)
(* for the ledger the pool reads: the nonces of an address follow that of  *)
(* the ledger and the nonce in memory is the last of them.  A read of a    *)
(* ledger that was released is answered too late, but only while a change  *)
(* of the tip waits in front of all operations, and that one empties the   *)
(* queue and adds its transactions again (ReleasedBeforeReset).            *)
(***************************************************************************)
EXTENDS PendingTransactions, DataFacts, FunctionTheorems

-----------------------------------------------------------------------------
(* Smallest and largest numbers, and sequences.                            *)

\* The order of the naturals, for the induction that finds the smallest.
Less == {p \in Nat \X Nat : p[1] < p[2]}

\* A set of naturals has its minimum.
LEMMA Smallest ==
    ASSUME NEW S \in SUBSET Nat, S # {}
    PROVE  Min(S) \in S /\ \A k \in S : Min(S) <= k
<1>1. IsWellFoundedOn(Less, Nat)
  BY NatLessThanWellFounded, Zenon DEF OpToRel, Less
<1>2. PICK m \in S : \A k \in S : ~(<<k, m>> \in Less)
  BY <1>1, WFMin, Zenon
<1>3. ASSUME NEW k \in S PROVE m <= k
  <2>1. k < m => <<k, m>> \in Less
    BY DEF Less
  <2> QED
    BY <1>2, <2>1
<1> QED
  BY <1>3, Zenon DEF Min

\* A bounded set of naturals has its maximum.
LEMMA Largest ==
    ASSUME NEW n \in Nat, NEW S \in SUBSET (0 .. n), S # {}
    PROVE  Max(S) \in S /\ \A k \in S : Max(S) >= k
<1> DEFINE U == {u \in Nat : \A k \in S : k <= u}
           m == Min(U)
<1>1. n \in U /\ U \subseteq Nat
  OBVIOUS
<1>2. m \in U /\ \A u \in U : m <= u
  BY <1>1, Smallest
<1> HIDE DEF m
<1>3. m \in S
  <2> SUFFICES ASSUME m \notin S PROVE FALSE
    OBVIOUS
  <2>1. PICK k \in S : TRUE
    OBVIOUS
  <2>2. m - 1 \in U
    BY <1>2, <2>1
  <2> QED
    BY <1>2, <2>2
<1> QED
  BY <1>2, <1>3, Zenon DEF Max

\* An element that none exceeds is the maximum.
LEMMA MaxIs ==
    ASSUME NEW S \in SUBSET Nat, NEW m \in S, \A k \in S : k <= m
    PROVE  Max(S) = m
<1>1. \A x \in S : (\A y \in S : x >= y) => x = m
  OBVIOUS
<1>2. \A y \in S : m >= y
  OBVIOUS
<1> QED
  BY <1>1, <1>2, Zenon DEF Max

\* A sequence of elements of T is a sequence over T.
LEMMA NarrowSeq ==
    ASSUME NEW S, NEW T, NEW s \in Seq(S), \A k \in 1 .. Len(s) : s[k] \in T
    PROVE  s \in Seq(T)
<1>1. Len(s) \in Nat /\ s \in [1 .. Len(s) -> S]
  BY LenProperties
<1>2. s \in [1 .. Len(s) -> T]
  BY <1>1
<1> DEFINE n == Len(s)
<1> HIDE DEF n
<1>3. s \in [1 .. n -> T] /\ n \in Nat
  BY <1>1, <1>2 DEF n
<1>4. s \in UNION {[1 .. m -> T] : m \in Nat}
  BY <1>3
<1> QED
  BY <1>4, SeqDef, Zenon

\* InsertAt and RemoveAt, index by index.
LEMMA InsertFacts ==
    ASSUME NEW T, NEW s \in Seq(T), NEW i \in 1 .. Len(s) + 1, NEW e \in T
    PROVE  /\ InsertAt(s, i, e) \in Seq(T)
           /\ Len(InsertAt(s, i, e)) = Len(s) + 1
           /\ \A k \in 1 .. Len(s) + 1 :
                  InsertAt(s, i, e)[k] = IF k < i THEN s[k] ELSE IF k = i THEN e ELSE s[k - 1]
<1> DEFINE a == SubSeq(s, 1, i - 1)
           b == SubSeq(s, i, Len(s))
<1>0. Len(s) \in Nat /\ \A k \in 1 .. Len(s) : s[k] \in T
  BY ElementOfSeq, LenProperties
<1>1. a \in Seq(T) /\ Len(a) = i - 1 /\ \A k \in 1 .. i - 1 : a[k] = s[k]
  BY <1>0, SubSeqProperties
<1>2. b \in Seq(T) /\ Len(b) = Len(s) - i + 1 /\ \A k \in 1 .. Len(s) - i + 1 : b[k] = s[i + k - 1]
  BY <1>0, SubSeqProperties
<1> HIDE DEF a, b
<1>3. a \o <<e>> \in Seq(T) /\ Len(a \o <<e>>) = i
      /\ \A k \in 1 .. i : (a \o <<e>>)[k] = IF k < i THEN s[k] ELSE e
  BY <1>0, <1>1, ConcatProperties
<1> DEFINE c == a \o <<e>>
<1> HIDE DEF c
<1>4. c \o b \in Seq(T) /\ Len(c \o b) = Len(s) + 1
      /\ \A k \in 1 .. Len(s) + 1 : (c \o b)[k] = IF k <= i THEN c[k] ELSE b[k - i]
  <2>1. c \in Seq(T) /\ Len(c) = i /\ i + (Len(s) - i + 1) = Len(s) + 1
    BY <1>0, <1>3 DEF c
  <2> QED
    BY <1>2, <2>1, ConcatProperties
<1>5. InsertAt(s, i, e) = c \o b
  BY DEF InsertAt, a, b, c
<1>6. ASSUME NEW k \in 1 .. Len(s) + 1
      PROVE  (c \o b)[k] = IF k < i THEN s[k] ELSE IF k = i THEN e ELSE s[k - 1]
  <2>1. CASE k <= i
    BY <1>0, <1>3, <1>4, <2>1 DEF c
  <2>2. CASE k > i
    <3>1. k - i \in 1 .. Len(s) - i + 1 /\ i + (k - i) - 1 = k - 1
      BY <1>0, <2>2
    <3> QED
      BY <1>0, <1>2, <1>4, <2>2, <3>1
  <2>3. k <= i \/ k > i
    OBVIOUS
  <2> QED
    BY <2>1, <2>2, <2>3, Zenon
<1> QED
  BY <1>4, <1>5, <1>6

LEMMA RemoveFacts ==
    ASSUME NEW T, NEW s \in Seq(T), NEW i \in 1 .. Len(s)
    PROVE  /\ RemoveAt(s, i) \in Seq(T)
           /\ Len(RemoveAt(s, i)) = Len(s) - 1
           /\ \A k \in 1 .. Len(s) - 1 :
                  RemoveAt(s, i)[k] = IF k < i THEN s[k] ELSE s[k + 1]
<1> DEFINE a == SubSeq(s, 1, i - 1)
           b == SubSeq(s, i + 1, Len(s))
<1>0. Len(s) \in Nat /\ \A k \in 1 .. Len(s) : s[k] \in T
  BY ElementOfSeq, LenProperties
<1>1. a \in Seq(T) /\ Len(a) = i - 1 /\ \A k \in 1 .. i - 1 : a[k] = s[k]
  BY <1>0, SubSeqProperties
<1>2. b \in Seq(T) /\ Len(b) = Len(s) - i /\ \A k \in 1 .. Len(s) - i : b[k] = s[i + k]
  BY <1>0, SubSeqProperties
<1> HIDE DEF a, b
<1>3. a \o b \in Seq(T) /\ Len(a \o b) = Len(s) - 1
      /\ \A k \in 1 .. Len(s) - 1 : (a \o b)[k] = IF k <= i - 1 THEN a[k] ELSE b[k - (i - 1)]
  BY <1>0, <1>1, <1>2, ConcatProperties
<1>4. ASSUME NEW k \in 1 .. Len(s) - 1
      PROVE  (a \o b)[k] = IF k < i THEN s[k] ELSE s[k + 1]
  BY <1>0, <1>1, <1>2, <1>3, SMTT(30)
<1> QED
  BY <1>3, <1>4 DEF RemoveAt, a, b
-----------------------------------------------------------------------------
(* The inductive invariant.                                                *)

Entry == [tx : Txs, ct : 0 .. MaxTime]
Addition == [type : {"addTx"}, txTime : Entry]
Operation == Addition \cup {UpdateTip}

Nonces == [Addresses -> Int]

Fields == {"pc", "txTime", "at", "use", "got", "reading", "released"}

\* An operation under way; what it got is a nonce or a balance.
Awaiting(x) ==
    /\ DOMAIN x = Fields
    /\ x.pc \in {"storageNonce", "nonce", "check", "added", "scan", "next"}
    /\ x.txTime \in Entry
    /\ x.at \in Nat
    /\ x.reading \in BOOLEAN /\ x.released \in BOOLEAN
    /\ x.pc \in {"storageNonce", "nonce", "scan"} => x.got \in Int

\* Only the first operation may be a change of the tip.
Operations(q) ==
    /\ q \in Seq(Operation)
    /\ \A k \in DOMAIN q : k # 1 => q[k] \in Addition

NonceMap(m) == DOMAIN m \subseteq Addresses /\ \A a \in DOMAIN m : m[a] \in Int

Types ==
    /\ transactions \in Seq(Entry)
    /\ orphanTx \in [Addresses -> Seq(Entry)]
    /\ NonceMap(mapNonce)
    /\ DOMAIN balance \subseteq Addresses
    /\ Operations(queueOpt)
    /\ (adding = Idle /\ queueOpt = <<>>) \/ Awaiting(adding)
    /\ view.nonce \in Nonces /\ tip.nonce \in Nonces
    /\ now \in 0 .. MaxTime

\* The operations start with a change of the tip, which empties the queue.
Reset(q) == q # <<>> /\ Head(q) = UpdateTip

ReleasedBeforeReset == adding # Idle /\ adding.released => Reset(queueOpt)

TInv == Types /\ ReplacedStaysInPlace /\ ReleasedBeforeReset

-----------------------------------------------------------------------------
(* The types of the operators' results.                                    *)

LEMMA EntryFacts ==
    ASSUME NEW e \in Entry
    PROVE  e.tx \in Txs /\ e.tx.address \in Addresses /\ e.tx.nonce \in Nat /\ e.ct \in 0 .. MaxTime
<1>1. e.tx \in Txs /\ e.ct \in 0 .. MaxTime
  BY DEF Entry
<1> QED
  BY <1>1, PendingAssumption

LEMMA AdditionFacts ==
    /\ \A x \in Addition : x # UpdateTip /\ x.txTime \in Entry
    /\ \A e \in Entry : AddTx(e) \in Addition /\ AddTx(e).txTime = e
BY DEF Addition, UpdateTip, AddTx

LEMMA AwaitFacts ==
    ASSUME NEW pc \in {"storageNonce", "nonce", "check", "added", "scan", "next"},
           NEW e \in Entry, NEW got, NEW reading \in BOOLEAN,
           pc \in {"storageNonce", "nonce", "scan"} => got \in Int
    PROVE  /\ Awaiting(Await(pc, e, got, reading))
           /\ Await(pc, e, got, reading).pc = pc /\ Await(pc, e, got, reading).txTime = e
           /\ Await(pc, e, got, reading).got = got /\ Await(pc, e, got, reading).at = 0
           /\ Await(pc, e, got, reading).released = FALSE
           /\ Await(pc, e, got, reading) # Idle
BY DEF Await, Awaiting, Idle, Fields

LEMMA DoneFacts ==
    ASSUME Awaiting(adding)
    PROVE  /\ Awaiting(Done) /\ Done.pc = "next" /\ Done.txTime = adding.txTime
           /\ Done.released = FALSE /\ Done # Idle
BY DEF Awaiting, Done, Idle, Fields

LEMMA AwaitingNotIdle ==
    ASSUME Awaiting(adding)
    PROVE  adding # Idle /\ adding.pc # "idle"
BY DEF Awaiting, Idle, Fields

LEMMA PutFacts ==
    ASSUME NEW m, NEW a \in Addresses, NEW v, DOMAIN m \subseteq Addresses
    PROVE  /\ DOMAIN Put(m, a, v) = DOMAIN m \cup {a}
           /\ DOMAIN Put(m, a, v) \subseteq Addresses
           /\ Put(m, a, v)[a] = v
           /\ \A b \in DOMAIN m : b # a => Put(m, a, v)[b] = m[b]
BY DEF Put

LEMMA PutNonce ==
    ASSUME NEW m, NEW a \in Addresses, NEW v \in Int, NonceMap(m)
    PROVE  NonceMap(Put(m, a, v))
BY DEF Put, NonceMap

LEMMA StartFacts ==
    ASSUME NEW e \in Entry, NEW v, v.nonce \in Nonces
    PROVE  /\ Awaiting(StartAddTx(e, v)) /\ StartAddTx(e, v) # Idle
           /\ StartAddTx(e, v).pc \in {"storageNonce", "next"}
           /\ StartAddTx(e, v).released = FALSE
           /\ StartAddTx(e, v).txTime = e
           /\ IsTimeout(e) \/ StartAddTx(e, v).pc = "storageNonce"
<1>1. e.tx.address \in Addresses
  BY EntryFacts
<1>2. v.nonce[e.tx.address] \in Int
  BY <1>1 DEF Nonces
<1>3. CASE IsTimeout(e)
  <2> DEFINE w == Await("next", e, 0, FALSE)
  <2>1. StartAddTx(e, v) = w
    BY <1>3 DEF StartAddTx
  <2>2. Awaiting(w) /\ w.pc = "next" /\ w.txTime = e /\ w.released = FALSE /\ w # Idle
    BY DEF Await, Awaiting, Idle, Fields
  <2> HIDE DEF w
  <2> QED
    BY <1>3, <2>1, <2>2
<1>4. CASE ~IsTimeout(e)
  <2> DEFINE w == Await("storageNonce", e, v.nonce[e.tx.address], TRUE)
  <2>1. StartAddTx(e, v) = w
    BY <1>4 DEF StartAddTx
  <2>2. Awaiting(w) /\ w.pc = "storageNonce" /\ w.txTime = e /\ w.released = FALSE /\ w # Idle
    BY <1>2 DEF Await, Awaiting, Idle, Fields
  <2> HIDE DEF w
  <2> QED
    BY <2>1, <2>2
<1> QED
  BY <1>3, <1>4

LEMMA AgainFacts ==
    ASSUME transactions \in Seq(Entry)
    PROVE  /\ AllAgain \in Seq(Addition) /\ Len(AllAgain) = Len(transactions)
           /\ \A k \in 1 .. Len(transactions) : AllAgain[k] = AddTx(transactions[k])
<1>1. \A k \in 1 .. Len(transactions) : transactions[k] \in Entry
  BY ElementOfSeq
<1>2. Len(transactions) \in Nat /\ DOMAIN transactions = 1 .. Len(transactions)
  BY LenProperties
<1>3. \A k \in 1 .. Len(transactions) : AddTx(transactions[k]) \in Addition
  BY <1>1, AdditionFacts
<1>4. AllAgain = [k \in 1 .. Len(transactions) |-> AddTx(transactions[k])]
  BY <1>2 DEF AllAgain
<1> QED
  BY <1>2, <1>3, <1>4

\* The operations left when q is run, of which the first one is started.
Rest(q) == IF Reset(q) THEN AllAgain \o Tail(q) ELSE q

LEMMA RestFacts ==
    ASSUME transactions \in Seq(Entry), NEW q, Operations(q)
    PROVE  /\ Rest(q) \in Seq(Addition)
           /\ ~Reset(q) => Rest(q) = q
           /\ Reset(q) =>
                /\ Len(Rest(q)) = Len(transactions) + Len(q) - 1
                /\ \A k \in 1 .. Len(transactions) : Rest(q)[k] = AddTx(transactions[k])
                /\ \A k \in 2 .. Len(q) : Rest(q)[Len(transactions) + k - 1] = q[k]
<1>0. Len(q) \in Nat /\ DOMAIN q = 1 .. Len(q) /\ Len(transactions) \in Nat
      /\ \A k \in 1 .. Len(q) : q[k] \in Operation
  BY ElementOfSeq, LenProperties DEF Operations
<1>1. CASE ~Reset(q)
  <2>1. \A k \in 1 .. Len(q) : q[k] \in Addition
    <3>1. ASSUME NEW k \in 1 .. Len(q), k = 1 PROVE q[k] \in Addition
      <4>1. q # <<>> /\ Head(q) = q[1]
        BY <1>0, <3>1, EmptySeq DEF Operations
      <4> QED
        BY <1>0, <1>1, <3>1, <4>1 DEF Reset, Operation
    <3> QED
      BY <1>0, <3>1 DEF Operations
  <2>2. q \in Seq(Addition)
    BY <1>0, <2>1 DEF Operations
  <2> QED
    BY <1>1, <2>2 DEF Rest
<1>2. CASE Reset(q)
  <2>1. /\ Tail(q) \in Seq(Operation) /\ Len(Tail(q)) = Len(q) - 1
        /\ \A k \in 1 .. Len(q) - 1 : Tail(q)[k] = q[k + 1]
    BY <1>2, HeadTailProperties DEF Operations, Reset
  <2>2. \A k \in 1 .. Len(q) - 1 : Tail(q)[k] \in Addition
    BY <1>0, <2>1 DEF Operations
  <2>3. Tail(q) \in Seq(Addition)
    <3>1. \A k \in 1 .. Len(Tail(q)) : Tail(q)[k] \in Addition
      BY <2>1, <2>2
    <3> QED
      BY <2>1, <3>1, NarrowSeq
  <2>4. /\ AllAgain \o Tail(q) \in Seq(Addition)
        /\ Len(AllAgain \o Tail(q)) = Len(AllAgain) + Len(Tail(q))
        /\ \A k \in 1 .. Len(AllAgain) + Len(Tail(q)) : (AllAgain \o Tail(q))[k] =
               IF k <= Len(AllAgain) THEN AllAgain[k] ELSE Tail(q)[k - Len(AllAgain)]
    BY <2>3, AgainFacts, ConcatProperties
  <2>5. Rest(q) = AllAgain \o Tail(q)
    BY <1>2 DEF Rest
  <2>6. \A k \in 2 .. Len(q) : Rest(q)[Len(transactions) + k - 1] = q[k]
    <3> SUFFICES ASSUME NEW k \in 2 .. Len(q)
                 PROVE  Rest(q)[Len(transactions) + k - 1] = q[k]
      OBVIOUS
    <3> DEFINE n == Len(transactions) + k - 1
    <3>1. n \in 1 .. Len(AllAgain) + Len(Tail(q)) /\ ~(n <= Len(AllAgain))
          /\ n - Len(AllAgain) = k - 1
      <4>1. Len(AllAgain) = Len(transactions)
        BY AgainFacts
      <4> QED
        BY <1>0, <2>1, <4>1
    <3>2. k - 1 \in 1 .. Len(q) - 1 /\ (k - 1) + 1 = k
      BY <1>0
    <3> HIDE DEF n
    <3>3. Rest(q)[n] = Tail(q)[k - 1]
      BY <2>4, <2>5, <3>1
    <3> QED
      BY <2>1, <3>2, <3>3 DEF n
  <2>7. \A k \in 1 .. Len(transactions) : Rest(q)[k] = AddTx(transactions[k])
    BY <1>0, <2>1, <2>4, <2>5, AgainFacts
  <2> QED
    BY <1>0, <1>2, <2>1, <2>4, <2>5, <2>6, <2>7, AgainFacts
<1> QED
  BY <1>1, <1>2

LEMMA EmptyFacts ==
    /\ <<>> \in Seq(Entry) /\ NonceMap(<<>>) /\ Operations(<<>>) /\ ~Reset(<<>>)
    /\ DOMAIN <<>> = {}
<1>1. DOMAIN <<>> = {} /\ \A S : <<>> \in Seq(S)
  BY EmptySeq
<1> QED
  BY <1>1 DEF NonceMap, Operations, Reset

\* Running the operations q: a change of the tip empties the queue and forgets
\* the nonces, and the first operation that is left is started.
LEMMA RunFacts ==
    ASSUME transactions \in Seq(Entry), NonceMap(mapNonce), NEW q, Operations(q),
           NEW v, v.nonce \in Nonces, RunQueue(q, v)
    PROVE  /\ transactions' \in Seq(Entry) /\ NonceMap(mapNonce')
           /\ Operations(queueOpt') /\ ~Reset(queueOpt')
           /\ (adding' = Idle /\ queueOpt' = <<>>) \/ (Awaiting(adding') /\ adding'.released = FALSE)
           /\ adding'.pc \in {"idle", "storageNonce", "next"}
           /\ Reset(q) => transactions' = <<>> /\ mapNonce' = <<>>
           /\ ~Reset(q) => transactions' = transactions /\ mapNonce' = mapNonce
           /\ Rest(q) = <<>> => queueOpt' = <<>>
           /\ Rest(q) # <<>> =>
                /\ queueOpt' = Tail(Rest(q)) /\ Head(Rest(q)).txTime \in Entry
                /\ adding' = StartAddTx(Head(Rest(q)).txTime, v)
<1> DEFINE r == Rest(q)
<1>1. r \in Seq(Addition)
  BY RestFacts
<1>2. /\ transactions' = IF Reset(q) THEN <<>> ELSE transactions
      /\ mapNonce' = IF Reset(q) THEN <<>> ELSE mapNonce
      /\ queueOpt' = IF r = <<>> THEN <<>> ELSE Tail(r)
      /\ adding' = IF r = <<>> THEN Idle ELSE StartAddTx(Head(r).txTime, v)
  BY DEF RunQueue, Rest, Reset
<1> HIDE DEF r
<1>3. transactions' \in Seq(Entry) /\ NonceMap(mapNonce')
  BY <1>2, EmptyFacts
<1>6. /\ Reset(q) => transactions' = <<>> /\ mapNonce' = <<>>
      /\ ~Reset(q) => transactions' = transactions /\ mapNonce' = mapNonce
  BY <1>2
<1>4. CASE r = <<>>
  <2>1. queueOpt' = <<>> /\ adding' = Idle
    BY <1>2, <1>4
  <2>2. Operations(queueOpt') /\ ~Reset(queueOpt')
    BY <2>1, EmptyFacts
  <2>3. adding'.pc \in {"idle", "storageNonce", "next"}
    BY <2>1 DEF Idle
  <2> QED
    BY <1>3, <1>4, <1>6, <2>1, <2>2, <2>3 DEF r
<1>5. CASE r # <<>>
  <2>1. queueOpt' = Tail(r) /\ adding' = StartAddTx(Head(r).txTime, v)
    BY <1>2, <1>5
  <2>2. Head(r) \in Addition /\ Tail(r) \in Seq(Addition)
    BY <1>1, <1>5, HeadTailProperties
  <2>3. Head(r).txTime \in Entry
    BY <2>2, AdditionFacts
  <2>4. /\ Awaiting(adding') /\ adding'.released = FALSE
        /\ adding'.pc \in {"idle", "storageNonce", "next"}
    BY <2>1, <2>3, StartFacts, ZenonT(40)
  <2>5. Tail(r) \in Seq(Operation)
    BY <2>2, SeqMonotonic DEF Operation
  <2>6. \A k \in DOMAIN Tail(r) : Tail(r)[k] \in Addition
    BY <2>2, ElementOfSeq, LenProperties
  <2>7. ~Reset(Tail(r))
    <3> SUFFICES ASSUME Tail(r) # <<>> PROVE Head(Tail(r)) # UpdateTip
      BY DEF Reset
    <3>1. Head(Tail(r)) \in Addition
      BY <2>2, HeadTailProperties
    <3> QED
      BY <3>1, AdditionFacts
  <2>8. Operations(queueOpt') /\ ~Reset(queueOpt')
    BY <2>1, <2>5, <2>6, <2>7 DEF Operations
  <2> QED
    BY <1>3, <1>5, <1>6, <2>1, <2>3, <2>4, <2>8 DEF r
<1> QED
  BY <1>4, <1>5

\* What the queue of operations is after a call from outside.
LEMMA FirstFacts ==
    ASSUME NEW q, Operations(q)
    PROVE  /\ Operations(UpdateTipFirst(q)) /\ Reset(UpdateTipFirst(q))
           /\ UpdateTipFirst(q) # <<>>
           /\ Tail(UpdateTipFirst(q)) = IF Reset(q) THEN Tail(q) ELSE q
<1> DEFINE t == IF Reset(q) THEN Tail(q) ELSE q
<1>1. t \in Seq(Addition)
  <2>1. CASE Reset(q)
    <3>1. /\ Tail(q) \in Seq(Operation) /\ Len(Tail(q)) = Len(q) - 1 /\ Len(q) \in Nat
          /\ \A k \in 1 .. Len(Tail(q)) : Tail(q)[k] = q[k + 1]
          /\ DOMAIN q = 1 .. Len(q)
      BY <2>1, HeadTailProperties, LenProperties DEF Operations, Reset
    <3>2. \A k \in 1 .. Len(Tail(q)) : Tail(q)[k] \in Addition
      BY <3>1 DEF Operations
    <3> QED
      BY <2>1, <3>1, <3>2, NarrowSeq
  <2>2. CASE ~Reset(q)
    <3>1. q \in Seq(Operation) /\ DOMAIN q = 1 .. Len(q) /\ Len(q) \in Nat
      BY LenProperties DEF Operations
    <3>2. ASSUME NEW k \in 1 .. Len(q) PROVE q[k] \in Addition
      <4>1. q[k] \in Operation /\ (q # <<>> => Head(q) = q[1])
        BY <3>1, ElementOfSeq, HeadTailProperties
      <4>2. q # <<>>
        BY <3>1, EmptySeq
      <4> QED
        BY <2>2, <3>1, <4>1, <4>2 DEF Operations, Reset, Operation
    <3> QED
      BY <2>2, <3>1, <3>2, NarrowSeq
  <2> QED
    BY <2>1, <2>2
<1>2. UpdateTipFirst(q) = <<UpdateTip>> \o t
  BY DEF UpdateTipFirst, Reset
<1> HIDE DEF t
<1>3. t \in Seq(Operation) /\ <<UpdateTip>> \in Seq(Operation) /\ Len(<<UpdateTip>>) = 1
  BY <1>1, SeqMonotonic DEF Operation
<1> DEFINE f == <<UpdateTip>> \o t
<1>4. /\ f \in Seq(Operation) /\ Len(f) = 1 + Len(t) /\ Len(t) \in Nat
      /\ \A k \in 1 .. 1 + Len(t) : f[k] = IF k <= 1 THEN UpdateTip ELSE t[k - 1]
  BY <1>3, ConcatProperties, LenProperties
<1> HIDE DEF f
<1>5. f # <<>> /\ DOMAIN f = 1 .. 1 + Len(t)
  BY <1>4, LenProperties, EmptySeq
<1>6. Head(f) = UpdateTip
  BY <1>4, <1>5, HeadTailProperties
<1>7. ASSUME NEW k \in DOMAIN f, k # 1 PROVE f[k] \in Addition
  <2>1. k - 1 \in 1 .. Len(t) /\ f[k] = t[k - 1]
    BY <1>4, <1>5, <1>7
  <2> QED
    BY <1>1, <2>1, ElementOfSeq
<1>8. Tail(f) = t
  <2>1. Tail(f) \in Seq(Operation) /\ Len(Tail(f)) = Len(t)
        /\ \A k \in 1 .. Len(Tail(f)) : Tail(f)[k] = f[k + 1]
    BY <1>4, <1>5, HeadTailProperties
  <2>2. \A k \in 1 .. Len(Tail(f)) : Tail(f)[k] = t[k]
    BY <1>4, <2>1
  <2> QED
    BY <1>3, <2>1, <2>2, SeqEqual
<1> QED
  BY <1>2, <1>4, <1>5, <1>6, <1>7, <1>8 DEF f, t, Operations, Reset

-----------------------------------------------------------------------------
(* Every action keeps the types, the place of what is replaced, and the     *)
(* change of the tip in front once a view has been released.                *)

(* What a continuation of an addition waits for.                             *)
LEMMA Turns ==
    /\ StorageNonce => adding.pc = "storageNonce"
    /\ Nonce => adding.pc = "nonce"
    /\ Check => adding.pc = "check"
    /\ Added => adding.pc = "added"
    /\ ScanOrphan => adding.pc = "scan"
<1>1. StorageNonce => adding.pc = "storageNonce"
  BY DEF StorageNonce
<1>2. Nonce => adding.pc = "nonce"
  BY DEF Nonce
<1>3. Check => adding.pc = "check"
  BY DEF Check
<1>4. Added => adding.pc = "added"
  BY DEF Added
<1>5. ScanOrphan => adding.pc = "scan"
  BY SMTT(30) DEF ScanOrphan
<1> QED
  BY <1>1, <1>2, <1>3, <1>4, <1>5

LEMMA Busy ==
    ASSUME Types, adding.pc # "idle"
    PROVE  /\ Awaiting(adding) /\ adding # Idle
           /\ adding.txTime \in Entry /\ Tx \in Txs /\ Tx.address \in Addresses /\ Tx.nonce \in Nat
<1>1. Awaiting(adding)
  BY DEF Types, Idle
<1>2. adding.txTime \in Entry
  BY <1>1 DEF Awaiting
<1> QED
  BY <1>1, <1>2, AwaitingNotIdle, EntryFacts DEF Tx

\* The ledger of the chain or of a view has a nonce for every address.
LEMMA NonceAfterFacts ==
    ASSUME NEW N \in Nonces, NEW txs, NEW k \in Nat, NEW a \in Addresses,
           \A j \in 1 .. k : txs[j] \in Txs
    PROVE  NonceAfter(N, txs, k, a) \in Int
<1> DEFINE own == {j \in 1 .. k : txs[j].address = a}
<1>1. CASE own = {}
  BY <1>1 DEF NonceAfter, Nonces
<1>2. CASE own # {}
  <2>1. own \in SUBSET (0 .. k)
    OBVIOUS
  <2>2. Max(own) \in own
    BY <1>2, <2>1, Largest
  <2>3. txs[Max(own)] \in Txs
    BY <2>2
  <2>4. txs[Max(own)].nonce \in Int
    BY <2>3, PendingAssumption
  <2> QED
    BY <1>2, <2>4 DEF NonceAfter
<1> QED
  BY <1>1, <1>2

LEMMA LedgerFacts ==
    ASSUME Types, NEW l \in NextLedgers
    PROVE  l.nonce \in Nonces
<1>1. CASE l = Genesis
  BY <1>1 DEF Genesis, Nonces
<1>2. ASSUME NEW txs, NEW n \in Nat, Len(txs) = n, \A j \in 1 .. n : txs[j] \in Txs,
             l = ExecuteBlock(tip, txs)
      PROVE  l.nonce \in Nonces
  <2>1. l.nonce = [a \in Addresses |-> NonceAfter(tip.nonce, txs, n, a)]
    BY <1>2 DEF ExecuteBlock
  <2>2. \A a \in Addresses : NonceAfter(tip.nonce, txs, n, a) \in Int
    BY <1>2, NonceAfterFacts DEF Types
  <2> QED
    BY <2>1, <2>2 DEF Nonces
<1>3. ASSUME NEW tx \in Txs PROVE Len(<<tx>>) = 1 /\ \A j \in 1 .. 1 : <<tx>>[j] \in Txs
  OBVIOUS
<1>4. /\ Len(PopTransactionWithFee(FeeLimit)) \in Nat
      /\ \A j \in 1 .. Len(PopTransactionWithFee(FeeLimit)) :
             PopTransactionWithFee(FeeLimit)[j] \in Txs
  <2> DEFINE fees(n) == SumFunction([k \in 1 .. n |-> transactions[k].tx.fee])
             fits == {0} \cup {n \in 1 .. Len(transactions) : fees(n) <= FeeLimit}
             m == Max(fits)
  <2>1. Len(transactions) \in Nat /\ \A k \in 1 .. Len(transactions) : transactions[k] \in Entry
    BY ElementOfSeq, LenProperties DEF Types
  <2> HIDE DEF fees
  <2>2. fits \in SUBSET (0 .. Len(transactions)) /\ fits # {}
    BY <2>1
  <2>3. m \in fits
    BY <2>1, <2>2, Largest
  <2>4. m \in 0 .. Len(transactions)
    BY <2>2, <2>3
  <2>5. PopTransactionWithFee(FeeLimit) = [k \in 1 .. m |-> transactions[k].tx]
    BY DEF PopTransactionWithFee, fees
  <2> HIDE DEF m
  <2>6. \A k \in 1 .. m : transactions[k].tx \in Txs
    BY <2>1, <2>4, EntryFacts
  <2> QED
    BY <2>4, <2>5, <2>6
<1>5. \/ l = Genesis
      \/ \E tx \in Txs : l = ExecuteBlock(tip, <<tx>>)
      \/ l = ExecuteBlock(tip, PopTransactionWithFee(FeeLimit))
  BY DEF NextLedgers
<1>6. ASSUME NEW tx \in Txs, l = ExecuteBlock(tip, <<tx>>) PROVE l.nonce \in Nonces
  BY <1>2, <1>3, <1>6
<1>7. ASSUME l = ExecuteBlock(tip, PopTransactionWithFee(FeeLimit)) PROVE l.nonce \in Nonces
  BY <1>2, <1>4, <1>7
<1> QED
  BY <1>1, <1>5, <1>6, <1>7

\* Wherever the loop goes on, what waits is typed and nothing was replaced.
LEMMA RunKeeps ==
    ASSUME TInv, NEW q, Operations(q), NEW v, v.nonce \in Nonces, RunQueue(q, v),
           orphanTx' = orphanTx, balance' = balance, now' = now,
           view'.nonce \in Nonces, tip'.nonce \in Nonces
    PROVE  TInv'
<1>1. transactions \in Seq(Entry) /\ NonceMap(mapNonce)
  BY DEF TInv, Types
<1>2. /\ transactions' \in Seq(Entry) /\ NonceMap(mapNonce')
      /\ Operations(queueOpt')
      /\ (adding' = Idle /\ queueOpt' = <<>>) \/ (Awaiting(adding') /\ adding'.released = FALSE)
      /\ adding'.pc \in {"idle", "storageNonce", "next"}
  BY <1>1, RunFacts
<1>3. Types'
  BY <1>2 DEF TInv, Types
<1>4. ReplacedStaysInPlace'
  BY <1>2 DEF ReplacedStaysInPlace
<1>5. ReleasedBeforeReset'
  BY <1>2 DEF ReleasedBeforeReset
<1> QED
  BY <1>3, <1>4, <1>5 DEF TInv

LEMMA AppendFacts ==
    ASSUME NEW q, Operations(q), NEW e \in Entry
    PROVE  /\ Operations(Append(q, AddTx(e)))
           /\ Reset(q) => Reset(Append(q, AddTx(e)))
           /\ ~Reset(q) => ~Reset(Append(q, AddTx(e)))
           /\ Len(Append(q, AddTx(e))) = Len(q) + 1 /\ Len(q) \in Nat
           /\ \A k \in 1 .. Len(q) : Append(q, AddTx(e))[k] = q[k]
           /\ Append(q, AddTx(e))[Len(q) + 1] = AddTx(e)
<1> DEFINE r == Append(q, AddTx(e))
           x == AddTx(e)
<1>1. q \in Seq(Operation) /\ x \in Operation /\ x \in Addition /\ x # UpdateTip
  BY AdditionFacts DEF Operations, Operation
<1> HIDE DEF x
<1>2. /\ r \in Seq(Operation) /\ Len(r) = Len(q) + 1 /\ Len(q) \in Nat
      /\ \A k \in 1 .. Len(q) : r[k] = q[k]
      /\ r[Len(q) + 1] = x /\ DOMAIN q = 1 .. Len(q) /\ DOMAIN r = 1 .. Len(q) + 1
  BY <1>1, LenProperties DEF x
<1> HIDE DEF r
<1>3. \A k \in DOMAIN r : k # 1 => r[k] \in Addition
  <2> SUFFICES ASSUME NEW k \in DOMAIN r, k # 1 PROVE r[k] \in Addition
    OBVIOUS
  <2>1. CASE k = Len(q) + 1
    BY <1>1, <1>2, <2>1
  <2>2. CASE k # Len(q) + 1
    <3>1. k \in 1 .. Len(q)
      BY <1>2, <2>2
    <3> QED
      BY <1>2, <3>1 DEF Operations
  <2> QED
    BY <2>1, <2>2
<1>4. r # <<>> /\ Head(r) = r[1]
  BY <1>2, EmptySeq, HeadTailProperties
<1>5. q # <<>> => Head(q) = q[1] /\ 1 \in 1 .. Len(q)
  BY <1>1, <1>2, EmptySeq, HeadTailProperties
<1>6. q = <<>> => Len(q) = 0
  BY EmptySeq
<1>7. Reset(q) <=> Reset(r)
  BY <1>1, <1>2, <1>4, <1>5, <1>6 DEF Reset
<1> QED
  BY <1>2, <1>3, <1>7 DEF r, x, Operations

LEMMA AddTransactionTypes ==
    ASSUME TInv, NEW tx \in Txs, AddTransaction(tx)
    PROVE  TInv'
<1> DEFINE e == [tx |-> tx, ct |-> now]
           q == Append(queueOpt, AddTx(e))
<1>1. e \in Entry
  BY DEF TInv, Types, Entry
<1> HIDE DEF e
<1>2. Operations(q) /\ (Reset(queueOpt) => Reset(q))
  BY <1>1, AppendFacts DEF TInv, Types
<1> HIDE DEF q
<1>3. orphanTx' = orphanTx /\ balance' = balance /\ now' = now /\ view' = view /\ tip' = tip
  BY DEF AddTransaction, chainVars
<1>4. view.nonce \in Nonces /\ tip.nonce \in Nonces
  BY DEF TInv, Types
<1>5. \/ UNCHANGED <<transactions, mapNonce, queueOpt, adding>>
      \/ RunQueue(q, view)
      \/ adding # Idle /\ queueOpt' = q /\ UNCHANGED <<transactions, mapNonce, adding>>
  BY DEF AddTransaction, RunUnlessBusy, q, e
<1>6. CASE UNCHANGED <<transactions, mapNonce, queueOpt, adding>>
  BY <1>3, <1>6 DEF TInv, Types, ReplacedStaysInPlace, ReleasedBeforeReset, Tx
<1>7. CASE RunQueue(q, view)
  BY <1>2, <1>3, <1>4, <1>7, RunKeeps
<1>8. CASE adding # Idle /\ queueOpt' = q /\ UNCHANGED <<transactions, mapNonce, adding>>
  BY <1>2, <1>3, <1>8 DEF TInv, Types, ReplacedStaysInPlace, ReleasedBeforeReset, Tx
<1> QED
  BY <1>5, <1>6, <1>7, <1>8

LEMMA UpdateTipBlockTypes ==
    ASSUME TInv, UpdateTipBlock
    PROVE  TInv'
<1>1. tip'.nonce \in Nonces
  BY LedgerFacts DEF UpdateTipBlock, TInv
<1>2. DOMAIN balance' \subseteq Addresses
  BY EmptyFacts DEF UpdateTipBlock, TInv, Types
<1>3. UNCHANGED <<transactions, orphanTx, mapNonce, queueOpt, adding, view, now>>
  BY DEF UpdateTipBlock
<1> QED
  BY <1>1, <1>2, <1>3 DEF TInv, Types, ReplacedStaysInPlace, ReleasedBeforeReset, Tx

LEMMA ReleaseFacts ==
    ASSUME Awaiting(adding), NEW x, x = [adding EXCEPT !.released = adding.reading]
    PROVE  /\ Awaiting(x) /\ x # Idle
           /\ x.pc = adding.pc /\ x.at = adding.at /\ x.txTime = adding.txTime
           /\ x.got = adding.got /\ x.use = adding.use
BY DEF Awaiting, Idle, Fields

LEMMA NextOptTypes ==
    ASSUME TInv, NextOpt
    PROVE  TInv'
<1>1. RunQueue(queueOpt, view) /\ UNCHANGED <<orphanTx, balance, now, view, tip>>
  BY DEF NextOpt, chainVars
<1>2. Operations(queueOpt) /\ view.nonce \in Nonces /\ tip.nonce \in Nonces
  BY DEF TInv, Types
<1> QED
  BY <1>1, <1>2, RunKeeps

LEMMA SnapshotViewTypes ==
    ASSUME TInv, SnapshotView
    PROVE  TInv'
<1> DEFINE q == UpdateTipFirst(queueOpt)
<1>1. Operations(q) /\ Reset(q)
  BY FirstFacts DEF TInv, Types
<1> HIDE DEF q
<1>2. view' = tip /\ UNCHANGED <<orphanTx, balance, tip, now>>
  BY DEF SnapshotView
<1>3. tip.nonce \in Nonces
  BY DEF TInv, Types
<1>4. CASE adding = Idle
  <2>1. RunQueue(q, tip)
    BY <1>4 DEF SnapshotView, q
  <2> QED
    BY <1>1, <1>2, <1>3, <2>1, RunKeeps
<1>5. CASE adding # Idle
  <2>1. Awaiting(adding)
    BY <1>5 DEF TInv, Types
  <2>2. /\ queueOpt' = q /\ UNCHANGED <<transactions, mapNonce>>
        /\ adding' = [adding EXCEPT !.released = adding.reading]
    BY <1>5 DEF SnapshotView, q
  <2>3. /\ Awaiting(adding') /\ adding' # Idle /\ adding'.pc = adding.pc
        /\ adding'.at = adding.at /\ adding'.txTime = adding.txTime
    BY <2>1, <2>2, ReleaseFacts
  <2>4. Types'
    BY <1>1, <1>2, <1>3, <2>2, <2>3 DEF TInv, Types
  <2>5. ReplacedStaysInPlace'
    BY <2>2, <2>3 DEF TInv, ReplacedStaysInPlace, SameNonce, Tx
  <2>6. ReleasedBeforeReset'
    BY <1>1, <2>2 DEF ReleasedBeforeReset
  <2> QED
    BY <2>4, <2>5, <2>6 DEF TInv
<1> QED
  BY <1>4, <1>5

LEMMA SnapshotViewFailsTypes ==
    ASSUME TInv, SnapshotViewFails
    PROVE  TInv'
BY DEF SnapshotViewFails, poolVars, TInv, Types, ReplacedStaysInPlace, ReleasedBeforeReset, Tx

LEMMA TickTypes ==
    ASSUME TInv, Tick
    PROVE  TInv'
<1>1. now' \in 0 .. MaxTime
  BY PendingAssumption DEF Tick, TInv, Types
<1> QED
  BY <1>1 DEF Tick, poolVars, chainVars, TInv, Types, ReplacedStaysInPlace, ReleasedBeforeReset, Tx

\* A handler that goes on, to its next await or to its end.
LEMMA GoesOn ==
    ASSUME TInv, Awaiting(adding'), adding' # Idle, adding'.released = FALSE,
           adding'.pc = "check" => adding'.at = 0,
           transactions' \in Seq(Entry), orphanTx' \in [Addresses -> Seq(Entry)],
           NonceMap(mapNonce'), DOMAIN balance' \subseteq Addresses, Operations(queueOpt'),
           view' = view, tip' = tip, now' = now
    PROVE  TInv'
<1>1. Types'
  BY DEF TInv, Types
<1>2. ReplacedStaysInPlace' /\ ReleasedBeforeReset'
  BY DEF ReplacedStaysInPlace, ReleasedBeforeReset
<1> QED
  BY <1>1, <1>2 DEF TInv

\* The nonce in memory or of the view.
LEMMA GetNonceFacts ==
    ASSUME Types, NEW a \in Addresses
    PROVE  GetNonce(a) \in Int /\ view.nonce[a] \in Int
BY DEF Types, NonceMap, Nonces, GetNonce

LEMMA StorageNonceTypes ==
    ASSUME TInv, StorageNonce
    PROVE  TInv'
<1>1. /\ Awaiting(adding) /\ adding # Idle /\ adding.txTime \in Entry
      /\ Tx.address \in Addresses
  BY Busy, Turns DEF TInv
<1>2. UNCHANGED <<transactions, orphanTx, mapNonce, balance, queueOpt, view, tip, now>>
  BY DEF StorageNonce, poolVars, chainVars
<1>3. /\ transactions \in Seq(Entry) /\ orphanTx \in [Addresses -> Seq(Entry)]
      /\ NonceMap(mapNonce) /\ DOMAIN balance \subseteq Addresses /\ Operations(queueOpt)
  BY DEF TInv, Types
<1> DEFINE w == Await("nonce", adding.txTime, GetNonce(Tx.address), Tx.address \notin DOMAIN mapNonce)
<1>4. adding' = Done \/ adding' = w
  BY DEF StorageNonce
<1>5. Awaiting(w) /\ w # Idle /\ w.pc = "nonce" /\ w.released = FALSE
  <2> DEFINE waits == Tx.address \notin DOMAIN mapNonce
             got == GetNonce(Tx.address)
  <2>1. got \in Int /\ waits \in BOOLEAN
    BY <1>1, GetNonceFacts DEF TInv
  <2> HIDE DEF waits, got
  <2>2. w = Await("nonce", adding.txTime, got, waits)
    BY DEF waits, got
  <2> HIDE DEF w
  <2> QED
    BY <1>1, <2>1, <2>2 DEF Await, Awaiting, Idle, Fields
<1> HIDE DEF w
<1>6. Awaiting(Done) /\ Done.pc = "next" /\ Done.released = FALSE /\ Done # Idle
  BY <1>1, DoneFacts
<1>7. /\ Awaiting(adding') /\ adding' # Idle /\ adding'.released = FALSE
      /\ adding'.pc = "check" => adding'.at = 0
  BY <1>4, <1>5, <1>6
<1> QED
  BY <1>2, <1>3, <1>7, GoesOn

LEMMA CheckFacts ==
    ASSUME TInv, adding.pc # "idle", NEW at \in Nat, OnCheck(at)
    PROVE  /\ Awaiting(adding') /\ adding' # Idle /\ adding'.pc = "check" /\ adding'.at = at
           /\ adding'.txTime = adding.txTime /\ adding'.released = FALSE
<1> DEFINE waits == ValueChain /\ Tx.address \notin DOMAIN balance
           w == Await("check", adding.txTime, GetBalance(Tx.address), waits)
           use == TotalUse(Tx) - (IF at = 0 THEN 0 ELSE TotalUse(transactions[at].tx))
<1>1. adding.txTime \in Entry
  BY Busy DEF TInv
<1>4. waits \in BOOLEAN
  OBVIOUS
<1>2. adding' = [w EXCEPT !.at = at, !.use = use]
  BY DEF OnCheck
<1> HIDE DEF waits, use
<1>3. /\ Awaiting(w) /\ w.pc = "check" /\ w.txTime = adding.txTime /\ w.released = FALSE
  BY <1>1, <1>4 DEF Await, Awaiting, Fields
<1> HIDE DEF w
<1> QED
  BY <1>2, <1>3 DEF Awaiting, Idle, Fields

LEMMA SameFacts ==
    ASSUME Types, NEW s \in Seq(Entry), NEW tx, SameNonce(s, tx) # {}
    PROVE  /\ Min(SameNonce(s, tx)) \in SameNonce(s, tx)
           /\ Min(SameNonce(s, tx)) \in 1 .. Len(s)
<1>1. SameNonce(s, tx) \in SUBSET Nat /\ SameNonce(s, tx) \subseteq 1 .. Len(s)
  BY LenProperties DEF SameNonce
<1>2. Min(SameNonce(s, tx)) \in SameNonce(s, tx)
  BY <1>1, Smallest
<1> QED
  BY <1>1, <1>2

LEMMA OrphanFacts ==
    ASSUME NEW l \in Seq(Entry), NEW e \in Entry
    PROVE  /\ AddToOrphanMayNonceExist(l, e) \in Seq(Entry)
           /\ SameNonce(l, e.tx) = {} =>
                \E i \in 1 .. Len(l) + 1 : AddToOrphanMayNonceExist(l, e) = InsertAt(l, i, e)
           /\ SameNonce(l, e.tx) # {} =>
                /\ Len(AddToOrphanMayNonceExist(l, e)) = Len(l)
                /\ \A k \in 1 .. Len(l) : AddToOrphanMayNonceExist(l, e)[k] =
                       IF k \in SameNonce(l, e.tx) /\ MayReplace(e, l[k]) THEN e ELSE l[k]
<1>1. Len(l) \in Nat /\ DOMAIN l = 1 .. Len(l) /\ \A k \in 1 .. Len(l) : l[k] \in Entry
  BY ElementOfSeq, LenProperties
<1>2. CASE SameNonce(l, e.tx) # {}
  <2> DEFINE new(k) == IF k \in SameNonce(l, e.tx) /\ MayReplace(e, l[k]) THEN e ELSE l[k]
             n == Len(l)
  <2>1. AddToOrphanMayNonceExist(l, e) = [k \in 1 .. n |-> new(k)]
    BY <1>1, <1>2 DEF AddToOrphanMayNonceExist
  <2>2. \A k \in 1 .. n : new(k) \in Entry
    BY <1>1
  <2>3. n \in Nat /\ n = Len(l)
    BY <1>1
  <2> HIDE DEF n
  <2>4. [k \in 1 .. n |-> new(k)] \in Seq(Entry) /\ Len([k \in 1 .. n |-> new(k)]) = n
    BY <2>2, <2>3
  <2> QED
    BY <1>2, <2>1, <2>3, <2>4
<1>3. CASE SameNonce(l, e.tx) = {}
  <2> DEFINE above == {k \in DOMAIN l : l[k].tx.nonce > e.tx.nonce}
             S == above \cup {Len(l) + 1}
  <2>1. AddToOrphanMayNonceExist(l, e) = InsertAt(l, Min(S), e)
    BY <1>3 DEF AddToOrphanMayNonceExist
  <2>2. S \in SUBSET Nat /\ S # {} /\ S \subseteq 1 .. Len(l) + 1
    BY <1>1
  <2> HIDE DEF S
  <2>3. Min(S) \in 1 .. Len(l) + 1
    BY <2>2, Smallest
  <2> QED
    BY <1>3, <2>1, <2>3, InsertFacts
<1> QED
  BY <1>2, <1>3

\* What AddToQueueMayNonceExist decides.
LEMMA ExistFacts ==
    ASSUME TInv, adding.pc # "idle", AddToQueueMayNonceExist
    PROVE  \/ adding' = Done
           \/ \E at \in SameNonce(transactions, Tx) : at # 0 /\ at \in Nat /\ OnCheck(at)
<1> DEFINE at == Min(SameNonce(transactions, Tx))
<1>1. ASSUME SameNonce(transactions, Tx) # {}
      PROVE  at \in SameNonce(transactions, Tx) /\ at # 0 /\ at \in Nat
  <2>1. at \in SameNonce(transactions, Tx) /\ at \in 1 .. Len(transactions)
    BY <1>1, SameFacts DEF TInv, Types
  <2> QED
    BY <2>1
<1>2. adding' = Done \/ (SameNonce(transactions, Tx) # {} /\ OnCheck(at))
  BY DEF AddToQueueMayNonceExist
<1> QED
  BY <1>1, <1>2

LEMMA NonceTypes ==
    ASSUME TInv, Nonce
    PROVE  TInv'
<1>1. /\ Awaiting(adding) /\ adding # Idle /\ adding.txTime \in Entry
      /\ Tx.address \in Addresses /\ adding.pc # "idle"
  BY Busy, Turns DEF TInv
<1>2. UNCHANGED <<transactions, mapNonce, balance, queueOpt, view, tip, now>>
  BY DEF Nonce, chainVars
<1>3. /\ transactions \in Seq(Entry) /\ orphanTx \in [Addresses -> Seq(Entry)]
      /\ NonceMap(mapNonce) /\ DOMAIN balance \subseteq Addresses /\ Operations(queueOpt)
  BY DEF TInv, Types
<1>4. Awaiting(Done) /\ Done.pc = "next" /\ Done.released = FALSE /\ Done # Idle
  BY <1>1, DoneFacts
<1>5. CASE OnCheck(0) /\ UNCHANGED orphanTx
  BY <1>1, <1>2, <1>3, <1>5, CheckFacts, GoesOn
<1>6. CASE /\ orphanTx' = [orphanTx EXCEPT
                ![Tx.address] = AddToOrphanMayNonceExist(@, adding.txTime)]
           /\ adding' = Done
  <2>1. orphanTx[Tx.address] \in Seq(Entry)
    BY <1>1, <1>3
  <2>2. AddToOrphanMayNonceExist(orphanTx[Tx.address], adding.txTime) \in Seq(Entry)
    BY <1>1, <2>1, OrphanFacts
  <2>3. orphanTx' \in [Addresses -> Seq(Entry)]
    BY <1>3, <1>6, <2>2
  <2> QED
    BY <1>2, <1>3, <1>4, <1>6, <2>3, GoesOn
<1>7. CASE AddToQueueMayNonceExist /\ UNCHANGED orphanTx
  <2>1. CASE adding' = Done
    BY <1>2, <1>3, <1>4, <1>7, <2>1, GoesOn
  <2>2. ASSUME NEW at \in SameNonce(transactions, Tx), at # 0, at \in Nat, OnCheck(at)
        PROVE  TInv'
    <3>1. /\ Awaiting(adding') /\ adding' # Idle /\ adding'.pc = "check" /\ adding'.at = at
          /\ adding'.txTime = adding.txTime /\ adding'.released = FALSE
      BY <1>1, <2>2, CheckFacts
    <3>2. Types'
      BY <1>2, <1>7, <3>1 DEF TInv, Types
    <3>3. ReplacedStaysInPlace'
      BY <1>2, <2>2, <3>1 DEF ReplacedStaysInPlace, SameNonce, Tx
    <3>4. ReleasedBeforeReset'
      BY <3>1 DEF ReleasedBeforeReset
    <3> QED
      BY <3>2, <3>3, <3>4 DEF TInv
  <2> QED
    BY <1>1, <1>7, <2>1, <2>2, ExistFacts
<1> QED
  BY <1>5, <1>6, <1>7 DEF Nonce

\* In the value chain a transaction goes to the end of the queue, or before the
\* last one when that has another address or a nonce that is not smaller.
LEMMA PositionFacts ==
    ASSUME NEW s \in Seq(Entry), NEW tx \in Txs
    PROVE  /\ ValuePosition(s, tx) \in 1 .. Len(s) + 1
           /\ \A k \in 1 .. Len(s) : k >= ValuePosition(s, tx) =>
                  s[k].tx.address # tx.address \/ s[k].tx.nonce >= tx.nonce
<1>1. Len(s) \in Nat
  BY LenProperties
<1> DEFINE last == s[Len(s)].tx
           before == IF last.address = tx.address THEN last.nonce >= tx.nonce
                                                  ELSE last.fee < tx.fee
           p == ValuePosition(s, tx)
<1>2. p = IF s = <<>> THEN 1 ELSE IF before THEN Len(s) ELSE Len(s) + 1
  BY DEF ValuePosition
<1>3. s = <<>> => Len(s) = 0
  BY EmptySeq
<1>4. s # <<>> => Len(s) >= 1
  BY EmptySeq
<1>5. p \in 1 .. Len(s) + 1 /\ (p <= Len(s) => before /\ p = Len(s))
  <2> HIDE DEF p, before
  <2> QED
    BY <1>1, <1>2, <1>3, <1>4
<1>6. before => last.address # tx.address \/ last.nonce >= tx.nonce
  OBVIOUS
<1> HIDE DEF p, before
<1> QED
  BY <1>1, <1>5, <1>6 DEF p

\* The queue after an addition, and after a replacement in a chain without
\* values, where it keeps its place.
LEMMA AddFacts ==
    ASSUME transactions \in Seq(Entry), NEW e \in Entry, NEW at \in Nat,
           at # 0 => at \in 1 .. Len(transactions), ValueChain \in BOOLEAN
    PROVE  /\ AddToQueue(e, at) \in Seq(Entry)
           /\ at = 0 => \E i \in 1 .. Len(transactions) + 1 :
                  /\ AddToQueue(e, at) = InsertAt(transactions, i, e)
                  /\ \A k \in 1 .. Len(transactions) : k >= i =>
                         \/ transactions[k].tx.address # e.tx.address
                         \/ transactions[k].tx.nonce >= e.tx.nonce
           /\ at # 0 =>
                \E i \in 1 .. Len(transactions) :
                    /\ AddToQueue(e, at) = InsertAt(RemoveAt(transactions, at), i, e)
                    /\ ~ValueChain => i = at
<1> DEFINE rest == IF at = 0 THEN transactions ELSE RemoveAt(transactions, at)
           position == IF ValueChain THEN ValuePosition(rest, e.tx)
                       ELSE IF at = 0 THEN Len(rest) + 1 ELSE at
<1>0. Len(transactions) \in Nat /\ e.tx \in Txs
  BY LenProperties, EntryFacts
<1>1. AddToQueue(e, at) = InsertAt(rest, position, e)
  BY DEF AddToQueue
<1>2. CASE at = 0
  <2>1. rest = transactions
    BY <1>2
  <2> HIDE DEF rest
  <2>2. /\ position \in 1 .. Len(transactions) + 1
        /\ \A k \in 1 .. Len(transactions) : k >= position =>
               \/ transactions[k].tx.address # e.tx.address
               \/ transactions[k].tx.nonce >= e.tx.nonce
    BY <1>0, <1>2, <2>1, PositionFacts
  <2>3. AddToQueue(e, at) = InsertAt(transactions, position, e)
    BY <1>1, <2>1
  <2> HIDE DEF position
  <2>4. AddToQueue(e, at) \in Seq(Entry)
    BY <2>2, <2>3, InsertFacts
  <2> QED
    BY <1>2, <2>2, <2>3, <2>4
<1>3. CASE at # 0
  <2>1. rest = RemoveAt(transactions, at)
    BY <1>3
  <2>2. rest \in Seq(Entry) /\ Len(rest) = Len(transactions) - 1
    BY <1>3, <2>1, RemoveFacts
  <2> HIDE DEF rest
  <2>3. ValuePosition(rest, e.tx) \in 1 .. Len(transactions)
    BY <1>0, <2>2, PositionFacts
  <2>4. position \in 1 .. Len(transactions) /\ (~ValueChain => position = at)
    BY <1>3, <2>3
  <2> HIDE DEF position
  <2>5. InsertAt(rest, position, e) \in Seq(Entry)
    BY <1>0, <2>2, <2>4, InsertFacts
  <2> QED
    BY <1>1, <1>3, <2>1, <2>4, <2>5
<1> QED
  BY <1>2, <1>3

\* The element to be replaced, when there is one.
LEMMA PlaceFacts ==
    ASSUME TInv, adding.pc = "check"
    PROVE  /\ adding.at \in Nat
           /\ adding.at # 0 => adding.at \in 1 .. Len(transactions)
<1>1. adding.at \in Nat
  BY Busy DEF Awaiting, TInv
<1>2. adding.at # 0 => adding.at \in DOMAIN transactions
  BY DEF TInv, ReplacedStaysInPlace, SameNonce
<1>3. DOMAIN transactions = 1 .. Len(transactions)
  BY LenProperties DEF TInv, Types
<1> QED
  BY <1>1, <1>2, <1>3

LEMMA ScanFacts ==
    ASSUME Types, adding.pc # "idle", NEW m, NonceMap(m)
    PROVE  /\ Awaiting(ToScan(m)) /\ ToScan(m) # Idle /\ ToScan(m).pc = "scan"
           /\ ToScan(m).txTime = adding.txTime /\ ToScan(m).released = FALSE
<1> DEFINE known == Tx.address \in DOMAIN m
           got == IF known THEN m[Tx.address] ELSE view.nonce[Tx.address]
           reading == ~known
<1>1. adding.txTime \in Entry /\ Tx.address \in Addresses
  BY Busy
<1>2. got \in Int /\ reading \in BOOLEAN
  BY <1>1 DEF Types, Nonces, NonceMap
<1>3. ToScan(m) = Await("scan", adding.txTime, got, reading)
  BY DEF ToScan
<1> HIDE DEF got, reading
<1> QED
  BY <1>1, <1>2, <1>3 DEF Await, Awaiting, Idle, Fields

LEMMA CheckTypes ==
    ASSUME TInv, Check
    PROVE  TInv'
<1>1. /\ Awaiting(adding) /\ adding # Idle /\ adding.txTime \in Entry
      /\ Tx.address \in Addresses /\ Tx.nonce \in Nat /\ adding.pc # "idle"
  BY Busy, Turns DEF TInv
<1>2. UNCHANGED <<orphanTx, balance, queueOpt, view, tip, now>>
  BY DEF Check, chainVars
<1>3. /\ transactions \in Seq(Entry) /\ orphanTx \in [Addresses -> Seq(Entry)]
      /\ NonceMap(mapNonce) /\ DOMAIN balance \subseteq Addresses /\ Operations(queueOpt)
  BY DEF TInv, Types
<1>4. Awaiting(Done) /\ Done.pc = "next" /\ Done.released = FALSE /\ Done # Idle
  BY <1>1, DoneFacts
<1>5. AddToQueue(adding.txTime, adding.at) \in Seq(Entry)
  <2>1. adding.at \in Nat /\ (adding.at # 0 => adding.at \in 1 .. Len(transactions))
    BY PlaceFacts DEF Check
  <2> QED
    BY <1>1, <1>3, <2>1, AddFacts, PendingAssumption
<1>6. CASE adding' = Done /\ UNCHANGED <<transactions, mapNonce>>
  BY <1>2, <1>3, <1>4, <1>6, GoesOn
<1>7. CASE /\ transactions' = AddToQueue(adding.txTime, adding.at)
           /\ adding' = [adding EXCEPT !.pc = "added", !.got = GetBalance(Tx.address),
                                      !.reading = Tx.address \notin DOMAIN balance,
                                      !.released = FALSE]
           /\ UNCHANGED mapNonce
  <2> DEFINE got == GetBalance(Tx.address)
             reading == Tx.address \notin DOMAIN balance
  <2>1. adding' = [adding EXCEPT !.pc = "added", !.got = got, !.reading = reading,
                                 !.released = FALSE]
        /\ reading \in BOOLEAN
    BY <1>7
  <2> HIDE DEF got, reading
  <2>2. Awaiting(adding') /\ adding' # Idle /\ adding'.pc = "added" /\ adding'.released = FALSE
    BY <1>1, <2>1 DEF Awaiting, Idle, Fields
  <2> QED
    BY <1>2, <1>3, <1>5, <1>7, <2>2, GoesOn
<1>8. CASE /\ transactions' = AddToQueue(adding.txTime, adding.at)
           /\ mapNonce' = NonceOfAdded
           /\ adding' = IF adding.at = 0 THEN ToScan(mapNonce') ELSE Done
  <2>1. NonceMap(mapNonce')
    <3>1. NonceMap(Put(mapNonce, Tx.address, Tx.nonce))
      BY <1>1, <1>3, PutNonce
    <3> QED
      BY <1>3, <1>8, <3>1 DEF NonceOfAdded
  <2>2. /\ Awaiting(adding') /\ adding' # Idle /\ adding'.pc # "check"
        /\ adding'.released = FALSE
    <3>1. /\ Awaiting(ToScan(mapNonce')) /\ ToScan(mapNonce') # Idle
          /\ ToScan(mapNonce').pc = "scan" /\ ToScan(mapNonce').released = FALSE
      BY <1>1, <2>1, ScanFacts DEF TInv
    <3> QED
      BY <1>4, <1>8, <3>1
  <2> QED
    BY <1>2, <1>3, <1>5, <1>8, <2>1, <2>2, GoesOn
<1> QED
  BY <1>6, <1>7, <1>8 DEF Check

LEMMA AddedTypes ==
    ASSUME TInv, Added
    PROVE  TInv'
<1>1. /\ Awaiting(adding) /\ adding # Idle /\ adding.txTime \in Entry
      /\ Tx.address \in Addresses /\ Tx.nonce \in Nat /\ adding.pc # "idle"
  BY Busy, Turns DEF TInv
<1>2. UNCHANGED <<transactions, orphanTx, queueOpt, view, tip, now>>
  BY DEF Added, chainVars
<1>3. /\ transactions \in Seq(Entry) /\ orphanTx \in [Addresses -> Seq(Entry)]
      /\ NonceMap(mapNonce) /\ DOMAIN balance \subseteq Addresses /\ Operations(queueOpt)
  BY DEF TInv, Types
<1>4. NonceMap(mapNonce') /\ DOMAIN balance' \subseteq Addresses
  <2>1. NonceMap(Put(mapNonce, Tx.address, Tx.nonce))
    BY <1>1, <1>3, PutNonce
  <2>2. DOMAIN Put(balance, Tx.address, adding.got - adding.use) \subseteq Addresses
    BY <1>1, <1>3, PutFacts
  <2> QED
    BY <1>3, <2>1, <2>2 DEF Added
<1>5. Awaiting(Done) /\ Done.pc = "next" /\ Done.released = FALSE /\ Done # Idle
  BY <1>1, DoneFacts
<1>6. /\ Awaiting(ToScan(mapNonce')) /\ ToScan(mapNonce') # Idle
      /\ ToScan(mapNonce').pc = "scan" /\ ToScan(mapNonce').released = FALSE
  BY <1>1, <1>4, ScanFacts DEF TInv
<1>7. /\ Awaiting(adding') /\ adding' # Idle /\ adding'.pc # "check"
      /\ adding'.released = FALSE
  BY <1>5, <1>6 DEF Added
<1> QED
  BY <1>2, <1>3, <1>4, <1>7, GoesOn

\* The orphans that are left: a suffix, without those before the first alive.
Alive(l) == {k \in DOMAIN l : ~IsTimeout(l[k])}
Suffix(l) == IF Alive(l) = {} THEN <<>> ELSE SubSeq(l, Min(Alive(l)), Len(l))

LEMMA SuffixFacts ==
    ASSUME NEW l \in Seq(Entry)
    PROVE  /\ Suffix(l) \in Seq(Entry)
           /\ \A k \in 1 .. Len(l) : IsTimeout(l[k]) \/ \E j \in 1 .. Len(Suffix(l)) : Suffix(l)[j] = l[k]
<1>1. Len(l) \in Nat /\ DOMAIN l = 1 .. Len(l) /\ \A k \in 1 .. Len(l) : l[k] \in Entry
  BY ElementOfSeq, LenProperties
<1>2. CASE Alive(l) = {}
  <2>1. Suffix(l) = <<>> /\ \A k \in 1 .. Len(l) : IsTimeout(l[k])
    BY <1>1, <1>2 DEF Alive, Suffix
  <2> QED
    BY <2>1, EmptySeq
<1>3. CASE Alive(l) # {}
  <2> DEFINE m == Min(Alive(l))
             r == SubSeq(l, m, Len(l))
  <2>1. Alive(l) \in SUBSET Nat /\ Alive(l) \subseteq 1 .. Len(l)
    BY <1>1 DEF Alive
  <2>2. m \in 1 .. Len(l) /\ \A k \in Alive(l) : m <= k
    BY <1>3, <2>1, Smallest
  <2>3. Suffix(l) = r
    BY <1>3 DEF Suffix
  <2> HIDE DEF m
  <2>4. /\ r \in Seq(Entry) /\ Len(r) = Len(l) - m + 1
        /\ \A i \in 1 .. Len(l) - m + 1 : r[i] = l[m + i - 1]
    BY <1>1, <2>2, SubSeqProperties
  <2> HIDE DEF r
  <2>5. ASSUME NEW k \in 1 .. Len(l), ~IsTimeout(l[k])
        PROVE  \E j \in 1 .. Len(r) : r[j] = l[k]
    <3>1. k \in Alive(l)
      BY <1>1, <2>5 DEF Alive
    <3>2. k - m + 1 \in 1 .. Len(l) - m + 1 /\ m + (k - m + 1) - 1 = k
      BY <1>1, <2>2, <3>1
    <3>3. r[k - m + 1] = l[k]
      BY <2>4, <3>2, SMTT(30)
    <3> QED
      BY <2>4, <3>2, <3>3
  <2> QED
    BY <2>3, <2>4, <2>5
<1> QED
  BY <1>2, <1>3

LEMMA ScanCases ==
    ASSUME ScanOrphan
    PROVE  LET rest == Suffix(orphanTx[Tx.address])
           IN  \/ /\ rest # <<>>
                  /\ queueOpt' = Append(queueOpt, AddTx(rest[1]))
                  /\ orphanTx' = [orphanTx EXCEPT ![Tx.address] = Tail(rest)]
               \/ /\ orphanTx' = [orphanTx EXCEPT ![Tx.address] = rest]
                  /\ UNCHANGED queueOpt
BY DEF ScanOrphan, Suffix, Alive

LEMMA ScanOrphanTypes ==
    ASSUME TInv, ScanOrphan
    PROVE  TInv'
<1>1. /\ Awaiting(adding) /\ adding # Idle /\ adding.txTime \in Entry
      /\ Tx.address \in Addresses /\ adding.pc # "idle"
  BY SMTT(30), Busy, Turns DEF TInv
<1> DEFINE l == orphanTx[Tx.address]
           rest == Suffix(l)
<1>2. UNCHANGED <<transactions, mapNonce, balance, view, tip, now>> /\ adding' = Done
  BY DEF ScanOrphan, chainVars
<1>3. /\ transactions \in Seq(Entry) /\ orphanTx \in [Addresses -> Seq(Entry)]
      /\ NonceMap(mapNonce) /\ DOMAIN balance \subseteq Addresses /\ Operations(queueOpt)
  BY DEF TInv, Types
<1>4. Awaiting(Done) /\ Done.pc = "next" /\ Done.released = FALSE /\ Done # Idle
  BY <1>1, DoneFacts
<1>5. rest \in Seq(Entry)
  BY <1>1, <1>3, SuffixFacts
<1>6. \/ /\ rest # <<>>
         /\ queueOpt' = Append(queueOpt, AddTx(rest[1]))
         /\ orphanTx' = [orphanTx EXCEPT ![Tx.address] = Tail(rest)]
      \/ /\ orphanTx' = [orphanTx EXCEPT ![Tx.address] = rest]
         /\ UNCHANGED queueOpt
  BY ScanCases
<1> HIDE DEF rest
<1>7. rest # <<>> => Tail(rest) \in Seq(Entry) /\ rest[1] \in Entry
  BY <1>5, HeadTailProperties
<1>8. orphanTx' \in [Addresses -> Seq(Entry)] /\ Operations(queueOpt')
  <2>1. CASE /\ rest # <<>>
             /\ queueOpt' = Append(queueOpt, AddTx(rest[1]))
             /\ orphanTx' = [orphanTx EXCEPT ![Tx.address] = Tail(rest)]
    <3>1. Operations(Append(queueOpt, AddTx(rest[1])))
      BY <1>3, <1>7, <2>1, AppendFacts
    <3> QED
      BY <1>3, <1>7, <2>1, <3>1
  <2>2. CASE orphanTx' = [orphanTx EXCEPT ![Tx.address] = rest] /\ UNCHANGED queueOpt
    BY <1>3, <1>5, <2>2
  <2> QED
    BY <1>6, <2>1, <2>2
<1> QED
  BY <1>2, <1>3, <1>4, <1>8, GoesOn, ZenonT(40)

\* The types and places hold at first, and every step keeps them.
LEMMA InitTypes == Init => TInv
<1> SUFFICES ASSUME Init PROVE TInv
  OBVIOUS
<1>1. Genesis.nonce \in Nonces
  BY DEF Genesis, Nonces
<1>2. adding.pc = "idle"
  BY DEF Init, Idle
<1>3. Types
  BY <1>1, EmptyFacts, PendingAssumption DEF Init, Types
<1> QED
  BY <1>2, <1>3 DEF Init, TInv, ReplacedStaysInPlace, ReleasedBeforeReset

LEMMA StepTypes == TInv /\ [Next]_vars => TInv'
<1> SUFFICES ASSUME TInv, [Next]_vars PROVE TInv'
  OBVIOUS
<1>1. CASE UNCHANGED vars
  BY <1>1 DEF vars, poolVars, chainVars, TInv, Types, ReplacedStaysInPlace,
              ReleasedBeforeReset, Tx
<1> QED
  BY <1>1, AddTransactionTypes, UpdateTipBlockTypes, SnapshotViewTypes, SnapshotViewFailsTypes,
     StorageNonceTypes, NonceTypes, CheckTypes, AddedTypes, ScanOrphanTypes, NextOptTypes,
     TickTypes DEF Next

\* What is typed stays typed, what a replacement will replace stays where it
\* was found, and an answer of a released view comes before a reset.
THEOREM TypesInvariant == Spec => []TInv
BY InitTypes, StepTypes, PTL DEF Spec

\* Every variable keeps its type, operations wait only while one is under way,
\* and a change of the tip stands in front of all others (addPendingOpt).
THEOREM TypesHold == Spec => []TypeOK
<1>1. TInv => TypeOK
  <2> SUFFICES ASSUME TInv PROVE TypeOK
    OBVIOUS
  <2>1. \A k \in DOMAIN queueOpt : queueOpt[k] = UpdateTip => k = 1
    BY AdditionFacts DEF TInv, Types, Operations
  <2>2. adding # Idle => adding.txTime \in Entry
    BY DEF TInv, Types, Awaiting
  <2>3. adding = Idle => queueOpt = <<>>
    BY AwaitingNotIdle DEF TInv, Types
  <2>4. /\ transactions \in Seq(Entry) /\ orphanTx \in [Addresses -> Seq(Entry)]
        /\ DOMAIN mapNonce \subseteq Addresses /\ DOMAIN balance \subseteq Addresses
    BY DEF TInv, Types, NonceMap
  <2> QED
    BY <2>1, <2>2, <2>3, <2>4, Zenon DEF TypeOK, Entry
<1> QED
  BY <1>1, TypesInvariant, PTL

\* While the balance for a replacement is awaited, the index that was found
\* before still holds the transaction to be replaced: whatever empties the
\* queue waits for the operation to end (addToQueueMayNonceExist).
THEOREM PlacesHold == Spec => []ReplacedStaysInPlace
<1>1. TInv => ReplacedStaysInPlace
  BY DEF TInv
<1> QED
  BY <1>1, TypesInvariant, PTL

-----------------------------------------------------------------------------
(* The nonces in the queue and in memory.                                  *)

\* In the queue q the nonces of an address follow that of N, in order and
\* without a gap.
Consecutive(q, N) ==
    /\ \A k \in DOMAIN q : q[k].tx.nonce > N[q[k].tx.address]
    /\ \A j, k \in DOMAIN q :
           q[j].tx.address = q[k].tx.address /\ j < k => q[j].tx.nonce < q[k].tx.nonce
    /\ \A k \in DOMAIN q : q[k].tx.nonce # N[q[k].tx.address] + 1 =>
           \E j \in DOMAIN q : /\ q[j].tx.address = q[k].tx.address
                               /\ q[j].tx.nonce = q[k].tx.nonce - 1

\* m has the last nonce of every address that is in the queue q.
LastNonces(q, m) ==
    \A a \in Addresses :
        /\ a \in DOMAIN m <=> \E k \in DOMAIN q : q[k].tx.address = a
        /\ a \in DOMAIN m =>
               /\ \E k \in DOMAIN q : q[k].tx.address = a /\ q[k].tx.nonce = m[a]
               /\ \A k \in DOMAIN q : q[k].tx.address = a => q[k].tx.nonce <= m[a]

\* In the value chain the queue is a balance ahead of the nonces in memory.
Noted == IF adding.pc = "added" THEN Put(mapNonce, Tx.address, Tx.nonce) ELSE mapNonce

\* Until a change of the tip is carried out everything is right for the view.
NInv ==
    ~Reset(queueOpt) =>
        /\ Consecutive(transactions, view.nonce)
        /\ LastNonces(transactions, Noted)
        /\ adding.pc = "nonce" => adding.got = GetNonce(Tx.address)
        /\ adding.pc = "check" /\ adding.at = 0 => Tx.nonce = GetNonce(Tx.address) + 1

\* No transaction takes the place of another one in the value chain, which is
\* the only one that waits there.
NoRival == adding.pc = "added" => adding.at = 0

LEMMA InsertKeeps ==
    ASSUME NEW q \in Seq(Entry), NEW N \in Nonces, NEW m, NonceMap(m),
           NEW e \in Entry, NEW p \in 1 .. Len(q) + 1,
           Consecutive(q, N), LastNonces(q, m),
           e.tx.nonce = 1 + (IF e.tx.address \in DOMAIN m THEN m[e.tx.address] ELSE N[e.tx.address]),
           \A k \in 1 .. Len(q) : k >= p =>
               q[k].tx.address # e.tx.address \/ q[k].tx.nonce >= e.tx.nonce
    PROVE  /\ Consecutive(InsertAt(q, p, e), N)
           /\ LastNonces(InsertAt(q, p, e), Put(m, e.tx.address, e.tx.nonce))
<1> DEFINE L == Len(q)
           r == InsertAt(q, p, e)
           a == e.tx.address
           n == e.tx.nonce
           new(j) == IF j < p THEN j ELSE j + 1
           m2 == Put(m, a, n)
<1>1. /\ L \in Nat /\ DOMAIN q = 1 .. L /\ p \in 1 .. L + 1
      /\ \A k \in 1 .. L : q[k].tx.address \in Addresses /\ q[k].tx.nonce \in Nat
  BY ElementOfSeq, LenProperties, EntryFacts
<1>2. /\ DOMAIN r = 1 .. L + 1
      /\ \A k \in 1 .. L + 1 : r[k] = IF k < p THEN q[k] ELSE IF k = p THEN e ELSE q[k - 1]
  <2>1. /\ r \in Seq(Entry) /\ Len(r) = L + 1
        /\ \A k \in 1 .. L + 1 : r[k] = IF k < p THEN q[k] ELSE IF k = p THEN e ELSE q[k - 1]
    BY InsertFacts
  <2> HIDE DEF r
  <2> QED
    BY <2>1, LenProperties
<1>3. a \in Addresses /\ n \in Nat
  BY EntryFacts
<1>4. \A b \in Addresses : N[b] \in Int
  BY DEF Nonces
<1>5. /\ DOMAIN m2 = DOMAIN m \cup {a} /\ m2[a] = n
      /\ \A b \in DOMAIN m : b # a => m2[b] = m[b]
      /\ \A b \in DOMAIN m : m[b] \in Int /\ b \in Addresses
  <2>1. DOMAIN m \subseteq Addresses /\ \A b \in DOMAIN m : m[b] \in Int
    BY DEF NonceMap
  <2> QED
    BY <1>3, <2>1 DEF Put
<1> HIDE DEF r, m2
<1>6. n > N[a] /\ \A k \in 1 .. L : q[k].tx.address = a => q[k].tx.nonce < n
  <2>1. CASE a \in DOMAIN m
    <3>1. n = m[a] + 1 /\ m[a] \in Int
      BY <1>5, <2>1
    <3>2. PICK k \in 1 .. L : q[k].tx.address = a /\ q[k].tx.nonce = m[a]
      BY <1>1, <1>3, <2>1 DEF LastNonces
    <3>3. m[a] > N[a]
      BY <1>1, <3>2 DEF Consecutive
    <3>4. \A i \in 1 .. L : q[i].tx.address = a => q[i].tx.nonce <= m[a]
      BY <1>1, <1>3, <2>1 DEF LastNonces
    <3> QED
      BY <1>1, <1>3, <1>4, <3>1, <3>3, <3>4
  <2>2. CASE a \notin DOMAIN m
    <3>1. \A k \in 1 .. L : q[k].tx.address # a
      BY <1>1, <1>3, <2>2 DEF LastNonces
    <3> QED
      BY <1>3, <1>4, <2>2, <3>1
  <2> QED
    BY <2>1, <2>2
<1>7. \A k \in 1 .. L : k >= p => q[k].tx.address # a
  BY <1>1, <1>3, <1>6
<1>8. \A j \in 1 .. L : new(j) \in 1 .. L + 1 /\ r[new(j)] = q[j]
  <2> SUFFICES ASSUME NEW j \in 1 .. L PROVE new(j) \in 1 .. L + 1 /\ r[new(j)] = q[j]
    OBVIOUS
  <2>1. CASE j < p
    BY <1>1, <1>2, <2>1
  <2>2. CASE ~(j < p)
    <3>1. new(j) = j + 1 /\ j + 1 \in 1 .. L + 1 /\ ~(j + 1 < p) /\ j + 1 # p /\ (j + 1) - 1 = j
      BY <1>1, <2>2
    <3> QED
      BY <1>2, <3>1
  <2> QED
    BY <2>1, <2>2
<1>9. p \in 1 .. L + 1 /\ r[p] = e
  BY <1>1, <1>2
<1>10. \A k \in 1 .. L + 1 :
           \/ k = p /\ r[k] = e
           \/ k < p /\ k \in 1 .. L /\ r[k] = q[k]
           \/ k > p /\ k - 1 \in 1 .. L /\ r[k] = q[k - 1]
  BY <1>1, <1>2
<1> HIDE DEF new
<1>11. ASSUME NEW k \in 1 .. L + 1 PROVE r[k].tx.nonce > N[r[k].tx.address]
  <2>1. \A j \in 1 .. L : q[j].tx.nonce > N[q[j].tx.address]
    BY <1>1 DEF Consecutive
  <2> QED
    BY <1>6, <1>10, <2>1
<1>12. ASSUME NEW j \in 1 .. L + 1, NEW k \in 1 .. L + 1, r[j].tx.address = r[k].tx.address, j < k
       PROVE  r[j].tx.nonce < r[k].tx.nonce
  <2>1. \A i, l \in 1 .. L : q[i].tx.address = q[l].tx.address /\ i < l => q[i].tx.nonce < q[l].tx.nonce
    BY <1>1 DEF Consecutive
  <2>2. CASE k = p
    <3>1. r[k] = e /\ j \in 1 .. L /\ r[j] = q[j]
      BY <1>1, <1>10, <1>12, <2>2
    <3> QED
      BY <1>6, <1>12, <3>1
  <2>3. CASE j = p
    <3>1. r[j] = e /\ k - 1 \in 1 .. L /\ r[k] = q[k - 1] /\ k - 1 >= p
      BY <1>1, <1>10, <1>12, <2>3
    <3> QED
      BY <1>7, <1>12, <3>1
  <2>4. CASE k # p /\ j # p
    <3> DEFINE oj == IF j < p THEN j ELSE j - 1
               ok == IF k < p THEN k ELSE k - 1
    <3>1. oj \in 1 .. L /\ r[j] = q[oj]
      BY <1>1, <1>10, <2>4
    <3>2. ok \in 1 .. L /\ r[k] = q[ok]
      BY <1>1, <1>10, <2>4
    <3>3. oj < ok
      BY <1>1, <1>12, <2>4
    <3> HIDE DEF oj, ok
    <3> QED
      BY <1>12, <2>1, <3>1, <3>2, <3>3
  <2> QED
    BY <2>2, <2>3, <2>4
<1>13. ASSUME NEW k \in 1 .. L + 1, r[k].tx.nonce # N[r[k].tx.address] + 1
       PROVE  \E j \in 1 .. L + 1 : /\ r[j].tx.address = r[k].tx.address
                                   /\ r[j].tx.nonce = r[k].tx.nonce - 1
  <2>1. CASE k = p
    <3>1. r[k] = e /\ n # N[a] + 1
      BY <1>9, <1>13, <2>1
    <3>2. a \in DOMAIN m /\ n = m[a] + 1
      <4>1. a \in DOMAIN m
        BY <1>3, <1>4, <3>1
      <4>2. m[a] \in Int
        BY <1>5, <4>1
      <4> QED
        BY <4>1, <4>2
    <3>3. PICK i \in 1 .. L : q[i].tx.address = a /\ q[i].tx.nonce = m[a]
      BY <1>1, <1>3, <3>2 DEF LastNonces
    <3>4. m[a] \in Int
      BY <1>5, <3>2
    <3>5. q[i].tx.nonce = n - 1
      BY <1>3, <3>2, <3>3, <3>4
    <3>6. new(i) \in 1 .. L + 1 /\ r[new(i)] = q[i]
      BY <1>8
    <3>7. r[k].tx.address = a /\ r[k].tx.nonce = n
      BY <3>1
    <3> QED
      BY <3>3, <3>5, <3>6, <3>7
  <2>2. ASSUME NEW i \in 1 .. L, r[k] = q[i]
        PROVE  \E j \in 1 .. L + 1 : /\ r[j].tx.address = r[k].tx.address
                                    /\ r[j].tx.nonce = r[k].tx.nonce - 1
    <3>1. PICK j \in 1 .. L : /\ q[j].tx.address = q[i].tx.address
                              /\ q[j].tx.nonce = q[i].tx.nonce - 1
      BY <1>1, <1>13, <2>2 DEF Consecutive
    <3> QED
      BY <1>8, <2>2, <3>1
  <2> QED
    BY <1>10, <2>1, <2>2
<1>14. Consecutive(r, N)
  BY <1>2, <1>11, <1>12, <1>13 DEF Consecutive
<1>15. LastNonces(r, m2)
  <2> SUFFICES ASSUME NEW b \in Addresses
               PROVE  /\ b \in DOMAIN m2 <=> \E k \in DOMAIN r : r[k].tx.address = b
                      /\ b \in DOMAIN m2 =>
                          /\ \E k \in DOMAIN r : r[k].tx.address = b /\ r[k].tx.nonce = m2[b]
                          /\ \A k \in DOMAIN r : r[k].tx.address = b => r[k].tx.nonce <= m2[b]
    BY DEF LastNonces
  <2>1. CASE b = a
    <3>1. b \in DOMAIN m2 /\ m2[b] = n
      BY <1>5, <2>1
    <3>2. p \in DOMAIN r /\ r[p].tx.address = b /\ r[p].tx.nonce = n
      BY <1>2, <1>9, <2>1
    <3>3. \A k \in DOMAIN r : r[k].tx.address = b => r[k].tx.nonce <= n
      <4> SUFFICES ASSUME NEW k \in 1 .. L + 1, r[k].tx.address = a PROVE r[k].tx.nonce <= n
        BY <1>2, <2>1
      <4>1. ASSUME NEW i \in 1 .. L, r[k] = q[i] PROVE r[k].tx.nonce <= n
        BY <1>1, <1>3, <1>6, <4>1
      <4>2. CASE r[k] = e
        BY <1>3, <4>2
      <4> QED
        BY <1>10, <4>1, <4>2
    <3> QED
      BY <3>1, <3>2, <3>3
  <2>2. CASE b # a
    <3>1. /\ b \in DOMAIN m2 <=> b \in DOMAIN m
          /\ b \in DOMAIN m => m2[b] = m[b]
      BY <1>5, <2>2
    <3>2. /\ b \in DOMAIN m <=> \E k \in 1 .. L : q[k].tx.address = b
          /\ b \in DOMAIN m =>
              /\ \E k \in 1 .. L : q[k].tx.address = b /\ q[k].tx.nonce = m[b]
              /\ \A k \in 1 .. L : q[k].tx.address = b => q[k].tx.nonce <= m[b]
      BY <1>1 DEF LastNonces
    <3>3. \A k \in DOMAIN r : r[k].tx.address = b => \E i \in 1 .. L : r[k] = q[i]
      BY <1>2, <1>10, <2>2
    <3>4. \A i \in 1 .. L : \E k \in DOMAIN r : r[k] = q[i]
      BY <1>2, <1>8
    <3>5. (\E k \in DOMAIN r : r[k].tx.address = b) <=> \E k \in 1 .. L : q[k].tx.address = b
      BY <3>3, <3>4
    <3>6. ASSUME b \in DOMAIN m2
          PROVE  /\ \E k \in DOMAIN r : r[k].tx.address = b /\ r[k].tx.nonce = m2[b]
                 /\ \A k \in DOMAIN r : r[k].tx.address = b => r[k].tx.nonce <= m2[b]
      BY <3>1, <3>2, <3>3, <3>4, <3>6
    <3> QED
      BY <3>1, <3>2, <3>5, <3>6
  <2> QED
    BY <2>1, <2>2
<1> QED
  BY <1>14, <1>15 DEF r, m2

LEMMA ReplaceKeeps ==
    ASSUME NEW q \in Seq(Entry), NEW N, NEW m, NEW e \in Entry,
           NEW at \in SameNonce(q, e.tx), Consecutive(q, N), LastNonces(q, m)
    PROVE  /\ Consecutive(InsertAt(RemoveAt(q, at), at, e), N)
           /\ LastNonces(InsertAt(RemoveAt(q, at), at, e), m)
<1> DEFINE L == Len(q)
           s == RemoveAt(q, at)
           r == InsertAt(s, at, e)
<1>1. L \in Nat /\ DOMAIN q = 1 .. L
  BY LenProperties
<1>2. at \in 1 .. L /\ q[at].tx.address = e.tx.address /\ q[at].tx.nonce = e.tx.nonce
  BY <1>1 DEF SameNonce
<1>3. /\ s \in Seq(Entry) /\ Len(s) = L - 1
      /\ \A k \in 1 .. L - 1 : s[k] = IF k < at THEN q[k] ELSE q[k + 1]
  BY <1>2, RemoveFacts
<1> HIDE DEF s
<1>4. at \in 1 .. Len(s) + 1 /\ Len(s) + 1 = L
  BY <1>1, <1>2, <1>3
<1>5. /\ r \in Seq(Entry) /\ Len(r) = L
      /\ \A k \in 1 .. L : r[k] = IF k < at THEN s[k] ELSE IF k = at THEN e ELSE s[k - 1]
  <2>1. s \in Seq(Entry) /\ at \in 1 .. Len(s) + 1
    BY <1>3, <1>4
  <2>2. /\ InsertAt(s, at, e) \in Seq(Entry) /\ Len(InsertAt(s, at, e)) = Len(s) + 1
        /\ \A k \in 1 .. Len(s) + 1 :
              InsertAt(s, at, e)[k] = IF k < at THEN s[k] ELSE IF k = at THEN e ELSE s[k - 1]
    BY <2>1, InsertFacts
  <2>3. r = InsertAt(s, at, e)
    OBVIOUS
  <2> HIDE DEF r
  <2> QED
    BY <1>4, <2>2, <2>3
<1> HIDE DEF r
<1>6. DOMAIN r = 1 .. L
  BY <1>5, LenProperties
<1>7. ASSUME NEW k \in 1 .. L
      PROVE  r[k].tx.address = q[k].tx.address /\ r[k].tx.nonce = q[k].tx.nonce
  <2>1. CASE k < at
    <3>1. k \in 1 .. L - 1
      BY <1>1, <1>2, <2>1
    <3> QED
      BY <1>3, <1>5, <2>1, <3>1
  <2>2. CASE k = at
    BY <1>2, <1>5, <2>2
  <2>3. CASE k > at
    <3>1. k - 1 \in 1 .. L - 1 /\ ~(k - 1 < at) /\ (k - 1) + 1 = k /\ ~(k < at) /\ k # at
      BY <1>1, <1>2, <2>3
    <3>2. s[k - 1] = q[k]
      BY <1>3, <3>1
    <3> QED
      BY <1>5, <3>1, <3>2
  <2> QED
    BY <1>2, <2>1, <2>2, <2>3
<1>8. Consecutive(r, N)
  <2>1. \A k \in 1 .. L : r[k].tx.nonce > N[r[k].tx.address]
    BY <1>1, <1>7 DEF Consecutive
  <2>2. \A j, k \in 1 .. L :
           r[j].tx.address = r[k].tx.address /\ j < k => r[j].tx.nonce < r[k].tx.nonce
    BY <1>1, <1>7 DEF Consecutive
  <2>3. \A k \in 1 .. L : r[k].tx.nonce # N[r[k].tx.address] + 1 =>
           \E j \in 1 .. L : /\ r[j].tx.address = r[k].tx.address
                             /\ r[j].tx.nonce = r[k].tx.nonce - 1
    BY <1>1, <1>7 DEF Consecutive
  <2> QED
    BY <1>6, <2>1, <2>2, <2>3 DEF Consecutive
<1>9. LastNonces(r, m)
  BY <1>1, <1>6, <1>7 DEF LastNonces
<1> QED
  BY <1>8, <1>9 DEF r, s

LEMMA EmptyKeeps ==
    ASSUME NEW N
    PROVE  Consecutive(<<>>, N) /\ LastNonces(<<>>, <<>>)
BY EmptyFacts DEF Consecutive, LastNonces

\* Wherever the loop goes on the queue is what it was, or empty.
LEMMA RunNonces ==
    ASSUME TInv, NEW q, Operations(q), NEW v, v.nonce \in Nonces, RunQueue(q, v),
           Reset(q) \/ /\ Consecutive(transactions, view'.nonce)
                       /\ LastNonces(transactions, mapNonce)
    PROVE  NInv'
<1>1. transactions \in Seq(Entry) /\ NonceMap(mapNonce)
  BY DEF TInv, Types
<1>2. /\ adding'.pc \in {"idle", "storageNonce", "next"}
      /\ Reset(q) => transactions' = <<>> /\ mapNonce' = <<>>
      /\ ~Reset(q) => transactions' = transactions /\ mapNonce' = mapNonce
  BY <1>1, RunFacts
<1>3. Noted' = mapNonce' /\ adding'.pc # "nonce" /\ adding'.pc # "check"
  BY <1>2 DEF Noted
<1>4. Consecutive(transactions', view'.nonce) /\ LastNonces(transactions', mapNonce')
  BY <1>2, EmptyKeeps
<1> QED
  BY <1>3, <1>4 DEF NInv

LEMMA AddTransactionNonces ==
    ASSUME TInv, NInv, NEW tx \in Txs, AddTransaction(tx)
    PROVE  NInv'
<1> DEFINE e == [tx |-> tx, ct |-> now]
           q == Append(queueOpt, AddTx(e))
<1>1. e \in Entry
  BY DEF TInv, Types, Entry
<1> HIDE DEF e
<1>2. Operations(q) /\ (Reset(queueOpt) <=> Reset(q))
  BY <1>1, AppendFacts DEF TInv, Types
<1> HIDE DEF q
<1>3. view' = view /\ view.nonce \in Nonces
  BY DEF AddTransaction, chainVars, TInv, Types
<1>4. \/ UNCHANGED <<transactions, mapNonce, queueOpt, adding>>
      \/ adding = Idle /\ RunQueue(q, view)
      \/ queueOpt' = q /\ UNCHANGED <<transactions, mapNonce, adding>>
  BY DEF AddTransaction, RunUnlessBusy, q, e
<1>5. CASE UNCHANGED <<transactions, mapNonce, queueOpt, adding>>
  BY <1>3, <1>5 DEF NInv, Noted, GetNonce, Tx
<1>6. CASE adding = Idle /\ RunQueue(q, view)
  <2>1. queueOpt = <<>> /\ adding.pc = "idle"
    BY <1>6, AwaitingNotIdle DEF TInv, Types, Idle
  <2>2. ~Reset(queueOpt) /\ Noted = mapNonce
    BY <2>1 DEF Reset, Noted
  <2>3. Consecutive(transactions, view'.nonce) /\ LastNonces(transactions, mapNonce)
    BY <1>3, <2>2 DEF NInv
  <2> QED
    BY <1>2, <1>3, <1>6, <2>3, RunNonces
<1>7. CASE queueOpt' = q /\ UNCHANGED <<transactions, mapNonce, adding>>
  BY <1>2, <1>3, <1>7 DEF NInv, Noted, GetNonce, Tx
<1> QED
  BY <1>4, <1>5, <1>6, <1>7

LEMMA SnapshotViewNonces ==
    ASSUME TInv, NInv, SnapshotView
    PROVE  NInv'
<1> DEFINE q == UpdateTipFirst(queueOpt)
<1>1. Operations(q) /\ Reset(q)
  BY FirstFacts DEF TInv, Types
<1> HIDE DEF q
<1>2. tip.nonce \in Nonces
  BY DEF TInv, Types
<1>3. RunQueue(q, tip) \/ queueOpt' = q
  BY DEF SnapshotView, q
<1>4. CASE RunQueue(q, tip)
  BY <1>1, <1>2, <1>4, RunNonces
<1>5. CASE queueOpt' = q
  BY <1>1, <1>5 DEF NInv
<1> QED
  BY <1>3, <1>4, <1>5

LEMMA NextOptNonces ==
    ASSUME TInv, NInv, NextOpt
    PROVE  NInv'
<1>1. RunQueue(queueOpt, view) /\ view' = view /\ adding.pc = "next"
  BY DEF NextOpt, chainVars
<1>2. Operations(queueOpt) /\ view.nonce \in Nonces /\ Noted = mapNonce
  BY <1>1 DEF TInv, Types, Noted
<1>3. Reset(queueOpt) \/ /\ Consecutive(transactions, view'.nonce)
                         /\ LastNonces(transactions, mapNonce)
  BY <1>1, <1>2 DEF NInv
<1> QED
  BY <1>1, <1>2, <1>3, RunNonces

LEMMA StorageNonceNonces ==
    ASSUME TInv, NInv, StorageNonce
    PROVE  NInv'
<1> DEFINE got == GetNonce(Tx.address)
           waits == Tx.address \notin DOMAIN mapNonce
           w == Await("nonce", adding.txTime, got, waits)
<1>1. Awaiting(adding) /\ adding.txTime \in Entry /\ Tx.address \in Addresses
  BY Busy, Turns DEF TInv
<1>2. UNCHANGED <<transactions, mapNonce, queueOpt, view>> /\ adding.pc = "storageNonce"
  BY DEF StorageNonce, poolVars, chainVars
<1>3. adding' = Done \/ adding' = w
  BY DEF StorageNonce
<1>4. Done.pc = "next"
  BY <1>1, DoneFacts
<1> HIDE DEF got, waits
<1>5. w.pc = "nonce" /\ w.txTime = adding.txTime /\ w.got = got
  BY DEF Await
<1> HIDE DEF w
<1>6. Noted = mapNonce /\ Noted' = mapNonce'
  BY <1>2, <1>3, <1>4, <1>5 DEF Noted
<1>7. adding'.pc = "nonce" => adding'.got = GetNonce(Tx.address)'
  BY <1>2, <1>3, <1>4, <1>5 DEF GetNonce, Tx, got
<1>8. adding'.pc # "check"
  BY <1>3, <1>4, <1>5
<1> QED
  BY <1>2, <1>6, <1>7, <1>8 DEF NInv

LEMMA NonceNonces ==
    ASSUME TInv, NInv, Nonce
    PROVE  NInv'
<1>1. Awaiting(adding) /\ adding.pc = "nonce" /\ adding.pc # "idle"
  BY Busy, Turns DEF TInv
<1>2. UNCHANGED <<transactions, mapNonce, queueOpt, view>>
  BY DEF Nonce, chainVars
<1>3. Done.pc = "next"
  BY <1>1, DoneFacts
<1>4. CASE adding' = Done
  <2>1. Noted = mapNonce /\ Noted' = mapNonce'
    BY <1>1, <1>3, <1>4 DEF Noted
  <2> QED
    BY <1>2, <1>3, <1>4, <2>1 DEF NInv
<1>5. ASSUME NEW at \in Nat, OnCheck(at), at = 0 => adding.got + 1 = Tx.nonce
      PROVE  NInv'
  <2>1. /\ adding'.pc = "check" /\ adding'.at = at /\ adding'.txTime = adding.txTime
    BY <1>1, <1>5, CheckFacts
  <2>2. Noted = mapNonce /\ Noted' = mapNonce'
    BY <1>1, <2>1 DEF Noted
  <2>3. ~Reset(queueOpt) => adding.got = GetNonce(Tx.address)
    BY <1>1 DEF NInv
  <2>4. Tx' = Tx /\ GetNonce(Tx.address)' = GetNonce(Tx.address)
    BY <1>2, <2>1 DEF GetNonce, Tx
  <2>5. ~Reset(queueOpt) => (adding'.at = 0 => Tx'.nonce = GetNonce(Tx.address)' + 1)
    BY <1>5, <2>1, <2>3, <2>4
  <2> QED
    BY <1>2, <2>1, <2>2, <2>5 DEF NInv
<1>6. \/ adding.got + 1 = Tx.nonce /\ OnCheck(0)
      \/ adding' = Done
      \/ AddToQueueMayNonceExist
  BY DEF Nonce
<1>7. CASE AddToQueueMayNonceExist
  BY <1>1, <1>4, <1>5, <1>7, ExistFacts
<1> QED
  BY <1>4, <1>5, <1>6, <1>7

LEMMA CheckNonces ==
    ASSUME TInv, NInv, NoRival', Check
    PROVE  NInv'
<1>1. /\ Awaiting(adding) /\ adding.pc = "check" /\ adding.pc # "idle"
      /\ adding.txTime \in Entry /\ Tx.address \in Addresses /\ Tx.nonce \in Nat
  BY Busy, Turns DEF TInv
<1>2. UNCHANGED <<queueOpt, view>>
  BY DEF Check, chainVars
<1>3. /\ transactions \in Seq(Entry) /\ NonceMap(mapNonce) /\ view.nonce \in Nonces
  BY DEF TInv, Types
<1>4. Done.pc = "next"
  BY <1>1, DoneFacts
<1>5. Noted = mapNonce
  BY <1>1 DEF Noted
<1>6. SUFFICES ASSUME ~Reset(queueOpt) PROVE NInv'
  BY <1>2 DEF NInv
<1>7. /\ Consecutive(transactions, view.nonce) /\ LastNonces(transactions, mapNonce)
      /\ adding.at = 0 => Tx.nonce = GetNonce(Tx.address) + 1
  BY <1>1, <1>5, <1>6 DEF NInv
<1>8. adding.at \in Nat /\ (adding.at # 0 => adding.at \in 1 .. Len(transactions))
  BY <1>1, PlaceFacts
<1> DEFINE r == AddToQueue(adding.txTime, adding.at)
           m == Put(mapNonce, Tx.address, Tx.nonce)
<1>9. adding.at = 0 => Consecutive(r, view.nonce) /\ LastNonces(r, m)
  <2> SUFFICES ASSUME adding.at = 0 PROVE Consecutive(r, view.nonce) /\ LastNonces(r, m)
    OBVIOUS
  <2>1. PICK i \in 1 .. Len(transactions) + 1 :
           /\ r = InsertAt(transactions, i, adding.txTime)
           /\ \A k \in 1 .. Len(transactions) : k >= i =>
                  \/ transactions[k].tx.address # Tx.address
                  \/ transactions[k].tx.nonce >= Tx.nonce
    BY <1>1, <1>3, <1>8, AddFacts, PendingAssumption DEF Tx
  <2>2. GetNonce(Tx.address) \in Int
    BY <1>1, GetNonceFacts DEF TInv
  <2>3. Tx.nonce = 1 + (IF Tx.address \in DOMAIN mapNonce THEN mapNonce[Tx.address]
                        ELSE view.nonce[Tx.address])
    BY <1>7, <2>2 DEF GetNonce
  <2> HIDE DEF r
  <2> QED
    BY <1>1, <1>3, <1>7, <2>1, <2>3, InsertKeeps DEF Tx
<1>10. adding.at # 0 /\ ~ValueChain =>
          Consecutive(r, view.nonce) /\ LastNonces(r, mapNonce)
  <2> SUFFICES ASSUME adding.at # 0, ~ValueChain
               PROVE  Consecutive(r, view.nonce) /\ LastNonces(r, mapNonce)
    OBVIOUS
  <2>1. r = InsertAt(RemoveAt(transactions, adding.at), adding.at, adding.txTime)
    BY <1>1, <1>3, <1>8, AddFacts, PendingAssumption
  <2>2. adding.at \in SameNonce(transactions, adding.txTime.tx)
    BY <1>1 DEF TInv, ReplacedStaysInPlace, Tx
  <2> HIDE DEF r
  <2> QED
    BY <1>1, <1>3, <1>7, <2>1, <2>2, ReplaceKeeps
<1>11. CASE adding' = Done /\ UNCHANGED <<transactions, mapNonce>>
  <2>1. Noted' = mapNonce'
    BY <1>4, <1>11 DEF Noted
  <2> QED
    BY <1>2, <1>4, <1>7, <1>11, <2>1 DEF NInv
<1>12. CASE /\ transactions' = r
            /\ adding' = [adding EXCEPT !.pc = "added", !.got = GetBalance(Tx.address),
                                       !.reading = Tx.address \notin DOMAIN balance,
                                       !.released = FALSE]
            /\ UNCHANGED mapNonce
  <2> DEFINE got == GetBalance(Tx.address)
             reading == Tx.address \notin DOMAIN balance
  <2> HIDE DEF r, m, got, reading
  <2>0. adding' = [adding EXCEPT !.pc = "added", !.got = got, !.reading = reading,
                                 !.released = FALSE]
    BY <1>12 DEF got, reading
  <2>1. adding'.pc = "added" /\ adding'.at = adding.at /\ adding'.txTime = adding.txTime
    BY <1>1, <2>0 DEF Awaiting, Fields
  <2>2. adding.at = 0
    BY <2>1 DEF NoRival
  <2>3. Noted' = m
    BY <1>12, <2>1 DEF Noted, Tx, m
  <2> QED
    BY <1>2, <1>9, <1>12, <2>1, <2>2, <2>3 DEF NInv
<1>13. CASE /\ ~ValueChain /\ transactions' = r
            /\ mapNonce' = NonceOfAdded
            /\ adding' = IF adding.at = 0 THEN ToScan(mapNonce') ELSE Done
  <2>1. mapNonce' = IF adding.at = 0 THEN m ELSE mapNonce
    BY <1>13 DEF NonceOfAdded
  <2>2. ToScan(mapNonce').pc = "scan"
    BY DEF ToScan, Await
  <2> HIDE DEF r, m
  <2>3. adding'.pc \in {"scan", "next"}
    BY <1>4, <1>13, <2>2
  <2>4. Noted' = mapNonce'
    BY <2>3 DEF Noted
  <2> QED
    BY <1>2, <1>9, <1>10, <1>13, <2>1, <2>3, <2>4 DEF NInv
<1> QED
  BY <1>11, <1>12, <1>13 DEF Check

LEMMA AddedNonces ==
    ASSUME TInv, NInv, Added
    PROVE  NInv'
<1>1. Awaiting(adding) /\ adding # Idle /\ adding.pc = "added"
  BY Busy, Turns DEF TInv
<1>2. UNCHANGED <<transactions, queueOpt, view>>
  BY DEF Added, chainVars
<1>3. SUFFICES ASSUME ~Reset(queueOpt) PROVE NInv'
  BY <1>2 DEF NInv
<1>4. ~adding.released
  BY <1>1, <1>3 DEF TInv, ReleasedBeforeReset
<1>5. mapNonce' = Noted
  BY <1>1, <1>4 DEF Added, Noted
<1>6. Done.pc = "next" /\ ToScan(mapNonce').pc = "scan"
  BY <1>1, DoneFacts DEF ToScan, Await
<1>7. adding'.pc \in {"scan", "next"}
  BY <1>6 DEF Added
<1>8. Noted' = mapNonce'
  BY <1>7 DEF Noted
<1> QED
  BY <1>2, <1>3, <1>5, <1>7, <1>8 DEF NInv

LEMMA ScanOrphanNonces ==
    ASSUME TInv, NInv, ScanOrphan
    PROVE  NInv'
<1>1. Awaiting(adding) /\ adding.pc = "scan" /\ Tx.address \in Addresses
  BY SMTT(30), Busy, Turns DEF TInv
<1> DEFINE rest == Suffix(orphanTx[Tx.address])
<1>2. UNCHANGED <<transactions, mapNonce, view>> /\ adding' = Done
  BY DEF ScanOrphan, chainVars
<1>3. Done.pc = "next"
  BY <1>1, DoneFacts
<1>4. orphanTx[Tx.address] \in Seq(Entry) /\ Operations(queueOpt)
  BY <1>1 DEF TInv, Types
<1>5. rest \in Seq(Entry)
  BY <1>4, SuffixFacts
<1>6. (rest # <<>> /\ queueOpt' = Append(queueOpt, AddTx(rest[1]))) \/ queueOpt' = queueOpt
  BY ScanCases
<1> HIDE DEF rest
<1>7. rest # <<>> => rest[1] \in Entry
  BY <1>5, HeadTailProperties
<1>8. Reset(queueOpt) <=> Reset(queueOpt')
  BY <1>4, <1>6, <1>7, AppendFacts
<1>9. Noted = mapNonce /\ Noted' = mapNonce'
  BY <1>1, <1>2, <1>3 DEF Noted
<1> QED
  BY <1>2, <1>3, <1>8, <1>9, SMTT(30) DEF NInv

LEMMA StepNonces ==
    TInv /\ NInv /\ NoRival' /\ [Next]_vars => NInv'
<1> SUFFICES ASSUME TInv, NInv, NoRival', [Next]_vars PROVE NInv'
  OBVIOUS
<1>1. CASE UNCHANGED <<transactions, mapNonce, queueOpt, adding, view>>
  BY <1>1 DEF NInv, Noted, GetNonce, Tx
<1>2. CASE UNCHANGED vars \/ UpdateTipBlock \/ SnapshotViewFails \/ Tick
  <2>1. UNCHANGED <<transactions, mapNonce, queueOpt, adding, view>>
    BY <1>2 DEF vars, poolVars, chainVars, UpdateTipBlock, SnapshotViewFails, Tick
  <2> QED
    BY <1>1, <2>1
<1> QED
  BY <1>2, AddTransactionNonces, SnapshotViewNonces, StorageNonceNonces, NonceNonces,
     CheckNonces, AddedNonces, ScanOrphanNonces, NextOptNonces DEF Next

LEMMA InitNonces == Init => NInv
<1> SUFFICES ASSUME Init PROVE NInv
  OBVIOUS
<1>1. transactions = <<>> /\ mapNonce = <<>> /\ adding.pc = "idle"
  BY DEF Init, Idle
<1>2. Noted = <<>>
  BY <1>1 DEF Noted
<1> QED
  BY <1>1, <1>2, EmptyKeeps DEF NInv

\* Unless one transaction replaces another in the value chain, the queue and
\* the nonces in memory are right for the ledger until the tip changes.
THEOREM NoncesInvariant == Spec /\ []NoRival => []NInv
BY InitNonces, StepNonces, TypesInvariant, PTL DEF Spec

\* The last of the earlier transactions of an address has the nonce before.
LEMMA FollowsLast ==
    ASSUME NEW q \in Seq(Entry), NEW N \in Nonces, Consecutive(q, N), NEW k \in 1 .. Len(q)
    PROVE  NonceAfter(N, [j \in DOMAIN q |-> q[j].tx], k - 1, q[k].tx.address) = q[k].tx.nonce - 1
<1> DEFINE L == Len(q)
           txs == [j \in DOMAIN q |-> q[j].tx]
           a == q[k].tx.address
           n == q[k].tx.nonce
           own == {j \in 1 .. k - 1 : txs[j].address = a}
<1>1. /\ L \in Nat /\ DOMAIN q = 1 .. L /\ k \in 1 .. L
      /\ \A j \in 1 .. L : q[j] \in Entry
  BY ElementOfSeq, LenProperties
<1>2. \A j \in 1 .. L : q[j].tx.address \in Addresses /\ q[j].tx.nonce \in Nat
  BY <1>1, EntryFacts
<1>3. \A b \in Addresses : N[b] \in Int
  BY DEF Nonces
<1>4. \A j \in 1 .. L : txs[j] = q[j].tx
  BY <1>1
<1> HIDE DEF txs
<1>5. own = {j \in 1 .. k - 1 : q[j].tx.address = a}
  BY <1>1, <1>4
<1>6. \A j \in own : j \in 1 .. L /\ j < k /\ q[j].tx.nonce < n /\ q[j].tx.nonce > N[a]
  BY <1>1, <1>5 DEF Consecutive
<1>7. CASE n = N[a] + 1
  <2>1. N[a] \in Int
    BY <1>1, <1>2, <1>3
  <2>2. ASSUME NEW j \in own PROVE FALSE
    BY <1>2, <1>6, <1>7, <2>1
  <2>3. own = {}
    BY <2>2
  <2> QED
    BY <1>1, <1>2, <1>3, <1>7, <2>1, <2>3 DEF NonceAfter, txs
<1>8. CASE n # N[a] + 1
  <2>1. PICK j \in 1 .. L : q[j].tx.address = a /\ q[j].tx.nonce = n - 1
    BY <1>1, <1>8 DEF Consecutive
  <2>2. j < k
    <3> SUFFICES ASSUME ~(j < k) PROVE FALSE
      OBVIOUS
    <3>1. CASE j = k
      BY <1>1, <1>2, <2>1, <3>1
    <3>2. CASE k < j
      <4>1. q[k].tx.nonce < q[j].tx.nonce
        BY <1>1, <2>1, <3>2 DEF Consecutive
      <4> QED
        BY <1>2, <2>1, <4>1
    <3> QED
      BY <1>1, <3>1, <3>2
  <2>3. j \in own
    BY <1>1, <1>5, <2>1, <2>2
  <2>4. ASSUME NEW i \in own PROVE i <= j
    <3> SUFFICES ASSUME i > j PROVE FALSE
      BY <1>1, <1>6
    <3>1. q[j].tx.nonce < q[i].tx.nonce /\ q[i].tx.nonce < n
      BY <1>1, <1>5, <1>6, <2>1 DEF Consecutive
    <3> QED
      BY <1>2, <1>6, <2>1, <3>1
  <2>5. own \in SUBSET Nat
    BY <1>6
  <2> HIDE DEF own
  <2>6. Max(own) = j /\ own # {}
    BY <2>3, <2>4, <2>5, MaxIs
  <2>7. NonceAfter(N, txs, k - 1, a) = txs[j].nonce
    BY <2>6 DEF NonceAfter, own
  <2> QED
    BY <1>4, <2>1, <2>7 DEF txs
<1> QED
  BY <1>7, <1>8

\* What the miner takes executes on the tip: each nonce follows that of the
\* ledger or of a transaction before it, for any number of changes of the tip
\* that overtake each other, any reads of released views and any time-outs.
THEOREM QueueExecutes == Spec /\ []NoRival => []QueueExecutable
<1>1. TInv /\ NInv => QueueExecutable
  <2> SUFFICES ASSUME TInv, NInv, Settled, NEW k \in DOMAIN Queue
               PROVE  Queue[k].nonce = NonceAfter(tip.nonce, Queue, k - 1, Queue[k].address) + 1
    BY DEF QueueExecutable, DealNonce
  <2>1. view = tip /\ ~Reset(queueOpt)
    BY DEF Settled, Reset
  <2>2. Consecutive(transactions, tip.nonce)
    BY <2>1 DEF NInv
  <2>3. /\ transactions \in Seq(Entry) /\ tip.nonce \in Nonces
        /\ DOMAIN transactions = 1 .. Len(transactions)
    BY LenProperties DEF TInv, Types
  <2>4. k \in 1 .. Len(transactions) /\ Queue[k] = transactions[k].tx
    BY <2>3 DEF Queue
  <2>5. NonceAfter(tip.nonce, Queue, k - 1, Queue[k].address) = transactions[k].tx.nonce - 1
    BY <2>2, <2>3, <2>4, FollowsLast DEF Queue
  <2>6. transactions[k].tx.nonce \in Nat
    BY <2>3, <2>4, ElementOfSeq, EntryFacts
  <2> QED
    BY <2>4, <2>5, <2>6
<1> QED
  BY <1>1, TypesInvariant, NoncesInvariant, PTL

\* The nonce in memory is that of the last transaction in the queue, and there
\* is one exactly for the addresses in the queue (onAddedTx, updateTip).
THEOREM NoncesHold == Spec /\ []NoRival => []NonceInMemory
<1>1. TInv /\ NInv => NonceInMemory
  <2> SUFFICES ASSUME TInv, NInv, Settled, adding.pc # "added", NEW a \in Addresses
               PROVE  /\ (a \in DOMAIN mapNonce) <=> (Own(a) # {})
                      /\ Own(a) # {} => mapNonce[a] = transactions[Max(Own(a))].tx.nonce
    BY DEF NonceInMemory
  <2>1. view = tip /\ ~Reset(queueOpt) /\ Noted = mapNonce
    BY DEF Settled, Reset, Noted
  <2>2. Consecutive(transactions, tip.nonce) /\ LastNonces(transactions, mapNonce)
    BY <2>1 DEF NInv
  <2>3. /\ transactions \in Seq(Entry) /\ DOMAIN transactions = 1 .. Len(transactions)
        /\ Len(transactions) \in Nat
        /\ \A k \in 1 .. Len(transactions) : transactions[k] \in Entry
    BY LenProperties, ElementOfSeq DEF TInv, Types
  <2>4. (a \in DOMAIN mapNonce) <=> (Own(a) # {})
    BY <2>2 DEF LastNonces, Own
  <2>5. ASSUME Own(a) # {} PROVE mapNonce[a] = transactions[Max(Own(a))].tx.nonce
    <3>1. PICK k \in DOMAIN transactions :
              transactions[k].tx.address = a /\ transactions[k].tx.nonce = mapNonce[a]
      BY <2>2, <2>4, <2>5 DEF LastNonces
    <3>2. \A j \in Own(a) : transactions[j].tx.nonce <= mapNonce[a]
      BY <2>2, <2>4, <2>5 DEF LastNonces, Own
    <3>3. k \in Own(a) /\ Own(a) \in SUBSET Nat
      BY <2>3, <3>1 DEF Own
    <3>4. ASSUME NEW j \in Own(a) PROVE j <= k
      <4>1. j \in DOMAIN transactions /\ transactions[j].tx.address = a
        BY DEF Own
      <4>2. transactions[j].tx.nonce \in Nat /\ transactions[k].tx.nonce \in Nat
        BY <2>3, <3>1, <4>1, EntryFacts
      <4>3. k < j => transactions[k].tx.nonce < transactions[j].tx.nonce
        BY <2>2, <3>1, <4>1 DEF Consecutive
      <4> QED
        BY <2>3, <3>1, <3>2, <4>1, <4>2, <4>3
    <3>5. Max(Own(a)) = k
      BY <3>3, <3>4, MaxIs
    <3> QED
      BY <3>1, <3>5
  <2> QED
    BY <2>4, <2>5
<1> QED
  BY <1>1, TypesInvariant, NoncesInvariant, PTL


\* Only the value chain waits for a balance once a transaction is in the queue.
NeverAdded == adding.pc # "added"

LEMMA StepNeverAdded ==
    ASSUME TInv, ~ValueChain, NeverAdded, [Next]_vars
    PROVE  NeverAdded'
<1>1. CASE adding' = adding
  BY <1>1 DEF NeverAdded
<1>2. ASSUME NEW q, Operations(q), NEW v, v.nonce \in Nonces, RunQueue(q, v)
      PROVE  NeverAdded'
  <2>1. adding'.pc \in {"idle", "storageNonce", "next"}
    BY <1>2, RunFacts DEF TInv, Types
  <2> QED
    BY <2>1 DEF NeverAdded
<1>3. Operations(queueOpt) /\ view.nonce \in Nonces /\ tip.nonce \in Nonces
  BY DEF TInv, Types
<1>4. ASSUME NEW tx \in Txs, AddTransaction(tx) PROVE NeverAdded'
  <2> DEFINE x == [tx |-> tx, ct |-> now]
             q == Append(queueOpt, AddTx(x))
  <2>1. x \in Entry
    BY DEF TInv, Types, Entry
  <2>2. adding' = adding \/ RunQueue(q, view)
    BY <1>4 DEF AddTransaction, RunUnlessBusy
  <2> HIDE DEF x
  <2>3. Operations(q)
    BY <1>3, <2>1, AppendFacts
  <2> HIDE DEF q
  <2> QED
    BY <1>1, <1>2, <1>3, <2>2, <2>3
<1>5. CASE SnapshotView
  <2>1. CASE adding = Idle
    <3>1. RunQueue(UpdateTipFirst(queueOpt), tip)
      BY <1>5, <2>1 DEF SnapshotView
    <3>2. Operations(UpdateTipFirst(queueOpt))
      BY <1>3, FirstFacts
    <3> QED
      BY <1>2, <1>3, <3>1, <3>2
  <2>2. CASE adding # Idle
    <3>1. adding' = [adding EXCEPT !.released = adding.reading] /\ Awaiting(adding)
      BY <1>5, <2>2 DEF SnapshotView, TInv, Types
    <3>2. adding'.pc = adding.pc
      BY <3>1, ReleaseFacts
    <3> QED
      BY <3>2 DEF NeverAdded
  <2> QED
    BY <2>1, <2>2
<1>6. CASE NextOpt
  BY <1>2, <1>3, <1>6 DEF NextOpt
<1>7. CASE UpdateTipBlock \/ SnapshotViewFails \/ Tick \/ UNCHANGED vars
  <2>1. adding' = adding
    BY <1>7 DEF UpdateTipBlock, SnapshotViewFails, Tick, vars
  <2> QED
    BY <1>1, <2>1
<1>8. ASSUME adding.pc # "idle"
      PROVE  Done.pc = "next" /\ \A m : NonceMap(m) => ToScan(m).pc = "scan"
  BY <1>8, Busy, DoneFacts, ScanFacts DEF TInv
<1>9. CASE StorageNonce
  <2>1. adding' = Done \/ adding'.pc = "nonce"
    BY <1>9 DEF StorageNonce, Await
  <2> QED
    BY <1>8, <1>9, <2>1 DEF StorageNonce, NeverAdded
<1>10. CASE Nonce
  <2>1. adding.pc # "idle"
    BY <1>10 DEF Nonce
  <2>2. ASSUME NEW at \in Nat, OnCheck(at) PROVE NeverAdded'
    BY <2>1, <2>2, CheckFacts DEF NeverAdded
  <2>3. adding' = Done => NeverAdded'
    BY <1>8, <2>1 DEF NeverAdded
  <2> QED
    BY <1>10, <2>1, <2>2, <2>3, ExistFacts DEF Nonce
<1>11. CASE Check
  <2>1. adding.pc # "idle" /\ adding.txTime \in Entry
    BY <1>11, Busy, Turns DEF TInv
  <2>2. adding' = Done \/ (adding' = ToScan(mapNonce') /\ mapNonce' = NonceOfAdded)
    BY <1>11 DEF Check
  <2>3. NonceMap(NonceOfAdded)
    <3>1. Tx.address \in Addresses /\ Tx.nonce \in Int /\ NonceMap(mapNonce)
      BY <2>1, EntryFacts DEF TInv, Types, Tx
    <3> QED
      BY <3>1, PutNonce DEF NonceOfAdded
  <2> QED
    BY <1>8, <2>1, <2>2, <2>3 DEF NeverAdded
<1>12. CASE Added
  BY <1>12, SMTT(30) DEF Added, NeverAdded
<1>13. CASE ScanOrphan
  BY <1>8, <1>13, SMTT(30) DEF ScanOrphan, NeverAdded
<1> QED
  BY <1>4, <1>5, <1>6, <1>7, <1>9, <1>10, <1>11, <1>12, <1>13 DEF Next

\* In a chain without values a transaction that replaces another takes its
\* place, so what the miner takes executes without any condition.
THEOREM PlainQueueExecutes ==
    ASSUME ~ValueChain
    PROVE  Spec => []QueueExecutable
<1>1. Init => NeverAdded
  BY DEF Init, Idle, NeverAdded
<1>2. TInv /\ NeverAdded /\ [Next]_vars => NeverAdded'
  BY StepNeverAdded
<1>3. NeverAdded => NoRival
  BY DEF NeverAdded, NoRival
<1>4. Spec => []NeverAdded
  BY <1>1, <1>2, TypesInvariant, PTL DEF Spec
<1> QED
  BY <1>3, <1>4, QueueExecutes, PTL

-----------------------------------------------------------------------------
(* Nothing vanishes.                                                       *)

Occurs(e, s) == \E k \in DOMAIN s : s[k] = e

InOrphans(e) == \E a \in Addresses : Occurs(e, orphanTx[a])
InOperations(e, q) == \E k \in DOMAIN q : q[k] # UpdateTip /\ q[k].txTime = e
UnderWay(e) == adding.pc \notin {"idle", "added", "scan", "next"} /\ adding.txTime = e

\* The places where a transaction is held.
Somewhere(e) ==
    \/ Occurs(e, transactions) \/ InOrphans(e)
    \/ InOperations(e, queueOpt) \/ UnderWay(e)

Places == \A e : e \in Held <=> Somewhere(e)

\* Held, place by place, and the same of the next state.
LEMMA HeldIs == Places
<1> SUFFICES ASSUME NEW e PROVE e \in Held <=> Somewhere(e)
  BY DEF Places
<1> DEFINE A == ToSet(transactions)
           B == UNION {ToSet(orphanTx[a]) : a \in Addresses}
<1>1. e \in A <=> Occurs(e, transactions)
  BY DEF ToSet, Occurs
<1>2. e \in B <=> InOrphans(e)
  BY DEF ToSet, Occurs, InOrphans
<1>3. e \in InQueueOpt <=> InOperations(e, queueOpt)
  BY DEF InQueueOpt, InOperations
<1>4. e \in InFlight <=> UnderWay(e)
  BY DEF InFlight, UnderWay
<1>5. Held = A \cup B \cup InQueueOpt \cup InFlight
  BY DEF Held
<1> HIDE DEF A, B
<1> QED
  BY <1>1, <1>2, <1>3, <1>4, <1>5 DEF Somewhere

LEMMA HeldNext == Places'
BY HeldIs, PTL

\* An insertion loses nothing.
LEMMA InsertHolds ==
    ASSUME NEW s \in Seq(Entry), NEW i \in 1 .. Len(s) + 1, NEW x \in Entry
    PROVE  /\ Occurs(x, InsertAt(s, i, x))
           /\ \A e : Occurs(e, s) => Occurs(e, InsertAt(s, i, x))
<1> DEFINE r == InsertAt(s, i, x)
<1>1. /\ r \in Seq(Entry) /\ Len(r) = Len(s) + 1 /\ Len(s) \in Nat
      /\ \A k \in 1 .. Len(s) + 1 : r[k] = IF k < i THEN s[k] ELSE IF k = i THEN x ELSE s[k - 1]
  BY InsertFacts, LenProperties
<1> HIDE DEF r
<1>2. DOMAIN s = 1 .. Len(s) /\ DOMAIN r = 1 .. Len(s) + 1
  BY <1>1, LenProperties
<1>3. Occurs(x, r)
  BY <1>1, <1>2 DEF Occurs
<1>4. ASSUME NEW k \in 1 .. Len(s) PROVE Occurs(s[k], r)
  <2>1. CASE k < i
    BY <1>1, <1>2, <2>1, SMTT(30) DEF Occurs
  <2>2. CASE ~(k < i)
    <3>1. k + 1 \in 1 .. Len(s) + 1 /\ ~(k + 1 < i) /\ k + 1 # i /\ (k + 1) - 1 = k
      BY <1>1, <2>2
    <3>2. r[k + 1] = s[k]
      BY <1>1, <3>1
    <3> QED
      BY <1>2, <3>1, <3>2 DEF Occurs
  <2> QED
    BY <2>1, <2>2
<1> QED
  BY <1>2, <1>3, <1>4 DEF r, Occurs

\* A removal loses what it removes.
LEMMA RemoveHolds ==
    ASSUME NEW s \in Seq(Entry), NEW i \in 1 .. Len(s)
    PROVE  \A e : Occurs(e, s) => e = s[i] \/ Occurs(e, RemoveAt(s, i))
<1> DEFINE r == RemoveAt(s, i)
<1>1. /\ r \in Seq(Entry) /\ Len(r) = Len(s) - 1 /\ Len(s) \in Nat
      /\ \A k \in 1 .. Len(s) - 1 : r[k] = IF k < i THEN s[k] ELSE s[k + 1]
  BY RemoveFacts, LenProperties
<1> HIDE DEF r
<1>2. DOMAIN s = 1 .. Len(s) /\ DOMAIN r = 1 .. Len(s) - 1
  BY <1>1, LenProperties
<1>3. ASSUME NEW k \in 1 .. Len(s), k # i PROVE Occurs(s[k], r)
  <2>1. CASE k < i
    BY <1>1, <1>2, <2>1 DEF Occurs
  <2>2. CASE k > i
    <3>1. k - 1 \in 1 .. Len(s) - 1 /\ ~(k - 1 < i) /\ (k - 1) + 1 = k
      BY <1>1, <2>2
    <3>2. r[k - 1] = s[k]
      BY <1>1, <3>1
    <3> QED
      BY <1>2, <3>1, <3>2 DEF Occurs
  <2> QED
    BY <1>3, <2>1, <2>2
<1> QED
  BY <1>2, <1>3 DEF r, Occurs

\* What runs in the queue q of operations stays, unless it is too old.
LEMMA RunHolds ==
    ASSUME TInv, NEW q, Operations(q), NEW v, v.nonce \in Nonces, RunQueue(q, v),
           NEW e, Occurs(e, transactions) \/ InOperations(e, q)
    PROVE  \/ IsTimeout(e) \/ Occurs(e, transactions')
           \/ InOperations(e, queueOpt') \/ UnderWay(e)'
<1> DEFINE r == Rest(q)
<1>1. transactions \in Seq(Entry) /\ NonceMap(mapNonce)
  BY DEF TInv, Types
<1>2. /\ ~Reset(q) => transactions' = transactions
      /\ r # <<>> =>
           /\ queueOpt' = Tail(r) /\ Head(r).txTime \in Entry
           /\ adding' = StartAddTx(Head(r).txTime, v)
  BY <1>1, RunFacts
<1>3. /\ r \in Seq(Addition) /\ (~Reset(q) => r = q)
      /\ Reset(q) =>
           /\ Len(r) = Len(transactions) + Len(q) - 1
           /\ \A k \in 1 .. Len(transactions) : r[k] = AddTx(transactions[k])
           /\ \A k \in 2 .. Len(q) : r[Len(transactions) + k - 1] = q[k]
  BY <1>1, RestFacts
<1>4. /\ Len(q) \in Nat /\ DOMAIN q = 1 .. Len(q) /\ Len(transactions) \in Nat
      /\ DOMAIN transactions = 1 .. Len(transactions) /\ Len(r) \in Nat /\ DOMAIN r = 1 .. Len(r)
  BY <1>1, <1>3, LenProperties DEF Operations
<1> HIDE DEF r
<1>5. ASSUME NEW i \in 1 .. Len(r), r[i].txTime = e
      PROVE  \/ IsTimeout(e) \/ InOperations(e, queueOpt') \/ UnderWay(e)'
  <2>1. r # <<>>
    BY <1>4, EmptySeq
  <2>2. /\ Head(r) = r[1] /\ Tail(r) \in Seq(Addition) /\ Len(Tail(r)) = Len(r) - 1
        /\ \A k \in 1 .. Len(Tail(r)) : Tail(r)[k] = r[k + 1]
    BY <1>3, <2>1, HeadTailProperties
  <2>3. CASE i = 1
    <3>1. e \in Entry /\ adding' = StartAddTx(e, v)
      BY <1>2, <1>5, <2>1, <2>2, <2>3
    <3>2. adding'.txTime = e /\ (IsTimeout(e) \/ adding'.pc = "storageNonce")
      BY <3>1, StartFacts
    <3> QED
      BY <3>2 DEF UnderWay
  <2>4. CASE i # 1
    <3>1. i - 1 \in 1 .. Len(Tail(r)) /\ (i - 1) + 1 = i
      BY <1>4, <2>2, <2>4
    <3>2. Tail(r)[i - 1] = r[i] /\ i - 1 \in DOMAIN Tail(r)
      BY <2>2, <3>1, LenProperties
    <3>3. r[i] \in Addition
      BY <1>3, ElementOfSeq
    <3>4. r[i] # UpdateTip
      BY <3>3, AdditionFacts
    <3> QED
      BY <1>2, <1>5, <2>1, <3>2, <3>4 DEF InOperations
  <2> QED
    BY <2>3, <2>4
<1>6. CASE ~Reset(q)
  <2>1. InOperations(e, q) => \E i \in 1 .. Len(r) : r[i].txTime = e
    BY <1>3, <1>4, <1>6 DEF InOperations
  <2> QED
    BY <1>2, <1>5, <1>6, <2>1
<1>7. CASE Reset(q)
  <2>1. CASE Occurs(e, transactions)
    <3>1. PICK k \in 1 .. Len(transactions) : transactions[k] = e
      BY <1>4, <2>1 DEF Occurs
    <3>2. r[k] = AddTx(e) /\ k \in 1 .. Len(r)
      <4>1. Len(q) >= 1
        BY <1>4, <1>7, EmptySeq DEF Reset, Operations
      <4> QED
        BY <1>3, <1>4, <1>7, <3>1, <4>1
    <3>3. AddTx(e).txTime = e
      BY DEF AddTx
    <3> QED
      BY <1>5, <3>2, <3>3
  <2>2. CASE InOperations(e, q)
    <3>1. PICK k \in 1 .. Len(q) : q[k] # UpdateTip /\ q[k].txTime = e
      BY <1>4, <2>2 DEF InOperations
    <3>2. k # 1
      BY <1>7, <3>1, HeadTailProperties DEF Reset, Operations
    <3>3. Len(transactions) + k - 1 \in 1 .. Len(r)
      BY <1>3, <1>4, <1>7, <3>2
    <3>4. r[Len(transactions) + k - 1] = q[k]
      BY <1>3, <1>4, <1>7, <3>2
    <3> QED
      BY <1>5, <3>1, <3>3, <3>4
  <2> QED
    BY <2>1, <2>2
<1> QED
  BY <1>6, <1>7

\* A further operation loses no other.
LEMMA AppendHolds ==
    ASSUME NEW q, Operations(q), NEW x \in Entry
    PROVE  /\ InOperations(x, Append(q, AddTx(x)))
           /\ \A e : InOperations(e, q) => InOperations(e, Append(q, AddTx(x)))
<1> DEFINE r == Append(q, AddTx(x))
<1>1. /\ Operations(r) /\ Len(r) = Len(q) + 1 /\ Len(q) \in Nat
      /\ \A k \in 1 .. Len(q) : r[k] = q[k]
      /\ r[Len(q) + 1] = AddTx(x)
  BY AppendFacts
<1> HIDE DEF r
<1>2. DOMAIN q = 1 .. Len(q) /\ DOMAIN r = 1 .. Len(q) + 1
  BY <1>1, LenProperties DEF Operations
<1>3. AddTx(x) # UpdateTip /\ AddTx(x).txTime = x
  BY AdditionFacts
<1>4. InOperations(x, r)
  <2>1. Len(q) + 1 \in DOMAIN r
    BY <1>1, <1>2
  <2> QED
    BY <1>1, <1>3, <2>1 DEF InOperations
<1>5. ASSUME NEW e, InOperations(e, q) PROVE InOperations(e, r)
  <2>1. PICK k \in 1 .. Len(q) : q[k] # UpdateTip /\ q[k].txTime = e
    BY <1>2, <1>5 DEF InOperations
  <2>2. k \in DOMAIN r /\ r[k] = q[k]
    BY <1>1, <1>2
  <2> QED
    BY <2>1, <2>2 DEF InOperations
<1> QED
  BY <1>4, <1>5 DEF r

\* Nor does a change of the tip in front of them.
LEMMA FirstHolds ==
    ASSUME NEW q, Operations(q), NEW e, InOperations(e, q)
    PROVE  InOperations(e, UpdateTipFirst(q))
<1> DEFINE f == UpdateTipFirst(q)
<1>1. /\ f \in Seq(Operation) /\ f # <<>> /\ Tail(f) = IF Reset(q) THEN Tail(q) ELSE q
  BY FirstFacts DEF Operations
<1> HIDE DEF f
<1>2. /\ Len(Tail(f)) = Len(f) - 1 /\ Len(f) \in Nat /\ DOMAIN f = 1 .. Len(f)
      /\ \A k \in 1 .. Len(Tail(f)) : Tail(f)[k] = f[k + 1]
  BY <1>1, HeadTailProperties, LenProperties
<1>3. /\ q \in Seq(Operation) /\ DOMAIN q = 1 .. Len(q) /\ Len(q) \in Nat
  BY LenProperties DEF Operations
<1>4. PICK k \in 1 .. Len(q) : q[k] # UpdateTip /\ q[k].txTime = e
  BY <1>3 DEF InOperations
<1>5. \E j \in 1 .. Len(Tail(f)) : Tail(f)[j] = q[k]
  <2>1. CASE ~Reset(q)
    BY <1>1, <1>4, <2>1
  <2>2. CASE Reset(q)
    <3>1. /\ Head(q) = q[1] /\ Len(Tail(q)) = Len(q) - 1
          /\ \A i \in 1 .. Len(Tail(q)) : Tail(q)[i] = q[i + 1]
      BY <1>3, <2>2, HeadTailProperties DEF Reset
    <3>2. k # 1
      BY <1>4, <2>2, <3>1 DEF Reset
    <3>3. k - 1 \in 1 .. Len(Tail(q)) /\ (k - 1) + 1 = k
      BY <1>3, <3>1, <3>2
    <3>4. Tail(q)[k - 1] = q[k]
      BY <3>1, <3>3
    <3> QED
      BY <1>1, <2>2, <3>3, <3>4
  <2> QED
    BY <2>1, <2>2
<1>6. PICK j \in 1 .. Len(Tail(f)) : Tail(f)[j] = q[k]
  BY <1>5
<1>7. j + 1 \in DOMAIN f /\ f[j + 1] = q[k]
  BY <1>2, <1>6
<1> QED
  BY <1>4, <1>7 DEF f, InOperations

\* The reasons for which a step may let e go.
MayGo(e) ==
    \/ IsTimeout(e)
    \/ adding.released
    \/ adding.pc \in {"storageNonce", "nonce"} /\ adding.got >= e.tx.nonce
    \/ \E f : Somewhere(f)' /\ f.tx.address = e.tx.address /\ f.tx.nonce = e.tx.nonce
    \/ ValueChain /\ adding.pc = "check" /\ adding.got < adding.use

Kept(e) == Somewhere(e)' \/ MayGo(e)

\* Running a queue of operations that lost nothing.
LEMMA RunKept ==
    ASSUME TInv, NEW q, Operations(q), NEW v, v.nonce \in Nonces, RunQueue(q, v),
           orphanTx' = orphanTx, NEW e, Somewhere(e), ~UnderWay(e),
           InOperations(e, queueOpt) => InOperations(e, q)
    PROVE  Kept(e)
<1>1. InOrphans(e) => Somewhere(e)'
  BY DEF InOrphans, Somewhere
<1>2. Occurs(e, transactions) \/ InOperations(e, q) => IsTimeout(e) \/ Somewhere(e)'
  BY RunHolds DEF Somewhere
<1> QED
  BY <1>1, <1>2 DEF Somewhere, Kept, MayGo

LEMMA AddTransactionKept ==
    ASSUME TInv, NEW tx \in Txs, AddTransaction(tx), NEW e, Somewhere(e)
    PROVE  Kept(e)
<1> DEFINE x == [tx |-> tx, ct |-> now]
           q == Append(queueOpt, AddTx(x))
<1>1. x \in Entry
  BY DEF TInv, Types, Entry
<1> HIDE DEF x
<1>2. Operations(q) /\ (InOperations(e, queueOpt) => InOperations(e, q))
  BY <1>1, AppendFacts, AppendHolds DEF TInv, Types
<1>3. orphanTx' = orphanTx /\ view.nonce \in Nonces
  BY DEF AddTransaction, TInv, Types
<1> HIDE DEF q
<1>4. \/ UNCHANGED <<transactions, queueOpt, adding>>
      \/ RunQueue(q, view) /\ adding = Idle
      \/ adding # Idle /\ queueOpt' = q /\ UNCHANGED <<transactions, adding>>
  BY DEF AddTransaction, RunUnlessBusy, q, x
<1>5. CASE UNCHANGED <<transactions, queueOpt, adding>>
  BY <1>3, <1>5 DEF Somewhere, InOrphans, UnderWay, Kept
<1>6. CASE RunQueue(q, view) /\ adding = Idle
  <2>1. ~UnderWay(e)
    BY <1>6 DEF UnderWay, Idle
  <2> QED
    BY <1>2, <1>3, <1>6, <2>1, RunKept
<1>7. CASE adding # Idle /\ queueOpt' = q /\ UNCHANGED <<transactions, adding>>
  BY <1>2, <1>3, <1>7 DEF Somewhere, InOrphans, UnderWay, Kept
<1> QED
  BY <1>4, <1>5, <1>6, <1>7

LEMMA SnapshotViewKept ==
    ASSUME TInv, SnapshotView, NEW e, Somewhere(e)
    PROVE  Kept(e)
<1> DEFINE q == UpdateTipFirst(queueOpt)
<1>1. Operations(q) /\ (InOperations(e, queueOpt) => InOperations(e, q))
  BY FirstFacts, FirstHolds DEF TInv, Types
<1> HIDE DEF q
<1>2. orphanTx' = orphanTx /\ tip.nonce \in Nonces
  BY DEF SnapshotView, TInv, Types
<1>3. CASE adding = Idle
  <2>1. ~UnderWay(e) /\ RunQueue(q, tip)
    BY <1>3 DEF UnderWay, Idle, SnapshotView, q
  <2> QED
    BY <1>1, <1>2, <2>1, RunKept
<1>4. CASE adding # Idle
  <2>1. /\ queueOpt' = q /\ UNCHANGED transactions
        /\ adding' = [adding EXCEPT !.released = adding.reading]
    BY <1>4 DEF SnapshotView, q
  <2>2. adding'.pc = adding.pc /\ adding'.txTime = adding.txTime
    BY <1>4, <2>1, ReleaseFacts DEF TInv, Types
  <2> QED
    BY <1>1, <1>2, <2>1, <2>2 DEF Somewhere, InOrphans, UnderWay, Kept
<1> QED
  BY <1>3, <1>4

LEMMA NextOptKept ==
    ASSUME TInv, NextOpt, NEW e, Somewhere(e)
    PROVE  Kept(e)
<1>1. RunQueue(queueOpt, view) /\ UNCHANGED orphanTx /\ ~UnderWay(e)
  BY DEF NextOpt, UnderWay
<1>2. Operations(queueOpt) /\ view.nonce \in Nonces
  BY DEF TInv, Types
<1> QED
  BY <1>1, <1>2, RunKept

LEMMA StorageNonceKept ==
    ASSUME TInv, StorageNonce, NEW e, Somewhere(e)
    PROVE  Kept(e)
<1>1. UNCHANGED <<transactions, orphanTx, queueOpt>>
  BY DEF StorageNonce, poolVars
<1>2. ~UnderWay(e) => Somewhere(e)'
  BY <1>1 DEF Somewhere, InOrphans
<1>3. CASE UnderWay(e)
  <2>1. e = adding.txTime /\ Tx = e.tx
    BY <1>3 DEF UnderWay, Tx
  <2>2. \/ adding.released \/ adding.got >= Tx.nonce
        \/ adding' = Await("nonce", adding.txTime, GetNonce(Tx.address), Tx.address \notin DOMAIN mapNonce)
    BY DEF StorageNonce
  <2>3. adding' = Await("nonce", adding.txTime, GetNonce(Tx.address), Tx.address \notin DOMAIN mapNonce)
            => adding'.pc = "nonce" /\ adding'.txTime = adding.txTime
    BY DEF Await
  <2>4. adding'.pc = "nonce" /\ adding'.txTime = adding.txTime => UnderWay(e)'
    BY <2>1 DEF UnderWay
  <2> QED
    BY <2>1, <2>2, <2>3, <2>4 DEF StorageNonce, Kept, MayGo, Somewhere
<1> QED
  BY <1>2, <1>3 DEF Kept

\* addToQueueMayNonceExist gives a transaction up only when the queue has one
\* with its nonce, or none did because the nonce is in the past.
LEMMA ExistKept ==
    ASSUME TInv, adding.pc = "nonce", AddToQueueMayNonceExist,
           adding.released \/ adding.got >= Tx.nonce,
           transactions' = transactions, NEW e, UnderWay(e)
    PROVE  Kept(e)
<1> DEFINE same == SameNonce(transactions, Tx)
<1>1. e = adding.txTime /\ Tx = e.tx
  BY DEF UnderWay, Tx
<1>2. CASE same = {}
  BY <1>1 DEF Kept, MayGo
<1>3. CASE same # {}
  <2>1. Min(same) \in same
    BY <1>3, SameFacts DEF TInv, Types
  <2>2. PICK k \in same : TRUE
    BY <1>3
  <2>3. /\ k \in DOMAIN transactions
        /\ transactions[k].tx.address = e.tx.address /\ transactions[k].tx.nonce = e.tx.nonce
    BY <1>1, <2>2 DEF SameNonce
  <2>4. Occurs(transactions[k], transactions)
    BY <2>3 DEF Occurs
  <2>5. Somewhere(transactions[k])'
    BY <2>4 DEF Somewhere, Occurs
  <2> QED
    BY <2>3, <2>5 DEF Kept, MayGo
<1> QED
  BY <1>2, <1>3

\* Among the orphans of its address a transaction finds a place, takes that of
\* one with its nonce, or leaves it alone.
LEMMA OrphanHolds ==
    ASSUME NEW l \in Seq(Entry), NEW x \in Entry
    PROVE  LET r == AddToOrphanMayNonceExist(l, x)
           IN  /\ \A e : Occurs(e, l) =>
                    \/ Occurs(e, r)
                    \/ Occurs(x, r) /\ x.tx.address = e.tx.address /\ x.tx.nonce = e.tx.nonce
               /\ \/ Occurs(x, r)
                  \/ \E f : /\ Occurs(f, r)
                            /\ f.tx.address = x.tx.address /\ f.tx.nonce = x.tx.nonce
<1> DEFINE r == AddToOrphanMayNonceExist(l, x)
           same == SameNonce(l, x.tx)
<1>1. CASE same = {}
  <2>1. PICK i \in 1 .. Len(l) + 1 : r = InsertAt(l, i, x)
    BY <1>1, OrphanFacts
  <2>2. Occurs(x, r) /\ \A e : Occurs(e, l) => Occurs(e, r)
    BY <2>1, InsertHolds
  <2> QED
    BY <2>2
<1>2. CASE same # {}
  <2>1. /\ r \in Seq(Entry) /\ Len(r) = Len(l)
        /\ \A k \in 1 .. Len(l) : r[k] = IF k \in same /\ MayReplace(x, l[k]) THEN x ELSE l[k]
    BY <1>2, OrphanFacts
  <2> HIDE DEF r
  <2>2. DOMAIN l = 1 .. Len(l) /\ DOMAIN r = 1 .. Len(l)
    BY <2>1, LenProperties
  <2>3. \A k \in same : /\ k \in DOMAIN l
                        /\ l[k].tx.address = x.tx.address /\ l[k].tx.nonce = x.tx.nonce
    BY DEF SameNonce
  <2> HIDE DEF same
  <2>4. ASSUME NEW k \in 1 .. Len(l)
        PROVE  \/ Occurs(l[k], r)
               \/ Occurs(x, r) /\ k \in same
    BY <2>1, <2>2 DEF Occurs
  <2>5. ASSUME NEW e, Occurs(e, l)
        PROVE  \/ Occurs(e, r)
               \/ Occurs(x, r) /\ x.tx.address = e.tx.address /\ x.tx.nonce = e.tx.nonce
    <3>1. PICK k \in 1 .. Len(l) : l[k] = e
      BY <2>2, <2>5 DEF Occurs
    <3> QED
      BY <2>3, <2>4, <3>1
  <2>6. PICK k \in same : k \in 1 .. Len(l)
    BY <1>2, <2>2, <2>3
  <2>7. Occurs(x, r) \/ Occurs(l[k], r)
    BY <2>4, <2>6
  <2> QED
    BY <2>3, <2>5, <2>6, <2>7 DEF r
<1> QED
  BY <1>1, <1>2

LEMMA NonceKept ==
    ASSUME TInv, Nonce, NEW e, Somewhere(e)
    PROVE  Kept(e)
<1>1. UNCHANGED <<transactions, queueOpt>> /\ adding.pc = "nonce"
  BY DEF Nonce
<1>2. /\ Awaiting(adding) /\ adding.txTime \in Entry /\ adding.got \in Int
      /\ Tx.address \in Addresses /\ Tx.nonce \in Nat
  BY <1>1, Busy DEF TInv, Awaiting
<1>3. CASE UNCHANGED orphanTx /\ ~UnderWay(e)
  BY <1>1, <1>3 DEF Somewhere, InOrphans, Kept
<1>4. CASE OnCheck(0) /\ UNCHANGED orphanTx /\ UnderWay(e)
  <2>1. adding'.pc = "check" /\ adding'.txTime = adding.txTime
    BY <1>1, <1>4, CheckFacts
  <2> QED
    BY <1>4, <2>1 DEF UnderWay, Somewhere, Kept
<1>5. CASE orphanTx' = [orphanTx EXCEPT
                ![Tx.address] = AddToOrphanMayNonceExist(@, adding.txTime)]
  <2> DEFINE x == adding.txTime
             a == Tx.address
             l == orphanTx[a]
             r == AddToOrphanMayNonceExist(l, x)
  <2>1. l \in Seq(Entry) /\ orphanTx \in [Addresses -> Seq(Entry)]
    BY <1>2 DEF TInv, Types
  <2>2. /\ \A f : Occurs(f, l) =>
             \/ Occurs(f, r)
             \/ Occurs(x, r) /\ x.tx.address = f.tx.address /\ x.tx.nonce = f.tx.nonce
        /\ \/ Occurs(x, r)
           \/ \E f : /\ Occurs(f, r)
                     /\ f.tx.address = x.tx.address /\ f.tx.nonce = x.tx.nonce
    BY <1>2, <2>1, OrphanHolds
  <2>3. orphanTx'[a] = r /\ \A b \in Addresses : b # a => orphanTx'[b] = orphanTx[b]
    BY <1>2, <1>5, <2>1
  <2>4. a \in Addresses
    BY <1>2
  <2> HIDE DEF a, l, r
  <2>5. ASSUME NEW f, Occurs(f, r) PROVE Somewhere(f)'
    <3>1. Occurs(f, orphanTx'[a])
      BY <2>3, <2>5
    <3> QED
      BY <2>4, <3>1 DEF Somewhere, InOrphans
  <2>6. CASE UnderWay(e)
    <3>1. x = e
      BY <2>6 DEF UnderWay
    <3> QED
      BY <2>2, <2>5, <3>1 DEF Kept, MayGo
  <2>7. CASE InOrphans(e)
    <3>1. PICK b \in Addresses : Occurs(e, orphanTx[b])
      BY <2>7 DEF InOrphans
    <3>2. CASE b # a
      <4>1. Occurs(e, orphanTx'[b])
        BY <2>3, <3>1, <3>2
      <4> QED
        BY <4>1 DEF Somewhere, InOrphans, Kept
    <3>3. CASE b = a
      <4>1. Occurs(e, l)
        BY <3>1, <3>3 DEF l
      <4> QED
        BY <2>2, <2>5, <4>1 DEF Kept, MayGo
    <3> QED
      BY <3>2, <3>3
  <2>8. CASE Occurs(e, transactions) \/ InOperations(e, queueOpt)
    BY <1>1, <2>8 DEF Somewhere, Kept
  <2> QED
    BY <2>6, <2>7, <2>8 DEF Somewhere
<1>6. CASE /\ adding.got + 1 > Tx.nonce \/ adding.released
           /\ AddToQueueMayNonceExist
           /\ UnderWay(e)
  <2>1. adding.released \/ adding.got >= Tx.nonce
    BY <1>2, <1>6
  <2> QED
    BY <1>1, <1>6, <2>1, ExistKept
<1> QED
  BY <1>3, <1>4, <1>5, <1>6 DEF Nonce

LEMMA CheckKept ==
    ASSUME TInv, Check, NEW e, Somewhere(e)
    PROVE  Kept(e)
<1>1. UNCHANGED <<orphanTx, queueOpt>> /\ adding.pc = "check"
  BY DEF Check
<1>2. adding.txTime \in Entry /\ transactions \in Seq(Entry)
  BY <1>1, Busy DEF TInv, Types
<1>3. InOrphans(e) \/ InOperations(e, queueOpt) => Kept(e)
  BY <1>1 DEF Somewhere, InOrphans, Kept
<1>4. CASE UNCHANGED transactions /\ (adding.released \/ (ValueChain /\ adding.got < adding.use))
  BY <1>1, <1>3, <1>4 DEF Somewhere, UnderWay, Kept, MayGo
<1>5. CASE transactions' = AddToQueue(adding.txTime, adding.at)
  <2> DEFINE x == adding.txTime
             at == adding.at
             r == AddToQueue(x, at)
  <2>1. at \in Nat /\ (at # 0 => at \in 1 .. Len(transactions))
    BY <1>1, PlaceFacts
  <2>2. /\ at = 0 => \E i \in 1 .. Len(transactions) + 1 : r = InsertAt(transactions, i, x)
        /\ at # 0 => \E i \in 1 .. Len(transactions) :
                r = InsertAt(RemoveAt(transactions, at), i, x)
    BY <1>2, <2>1, AddFacts, PendingAssumption
  <2>3. x \in Entry
    BY <1>2
  <2>4. transactions' = r
    BY <1>5
  <2>5. at # 0 => /\ transactions[at].tx.address = x.tx.address
                  /\ transactions[at].tx.nonce = x.tx.nonce
    BY <1>1 DEF TInv, ReplacedStaysInPlace, SameNonce, Tx
  <2>6. UnderWay(e) => e = x
    BY DEF UnderWay
  <2> HIDE DEF x, at, r
  <2>7. Occurs(x, r) /\ \A f : Occurs(f, transactions) =>
            Occurs(f, r) \/ (f.tx.address = x.tx.address /\ f.tx.nonce = x.tx.nonce)
    <3>1. CASE at = 0
      <4>1. PICK i \in 1 .. Len(transactions) + 1 : r = InsertAt(transactions, i, x)
        BY <2>2, <3>1
      <4> QED
        BY <1>2, <2>3, <4>1, InsertHolds
    <3>2. CASE at # 0
      <4> DEFINE s == RemoveAt(transactions, at)
      <4>1. s \in Seq(Entry) /\ Len(s) = Len(transactions) - 1
            /\ \A f : Occurs(f, transactions) => f = transactions[at] \/ Occurs(f, s)
        BY <1>2, <2>1, <3>2, RemoveFacts, RemoveHolds
      <4>2. PICK i \in 1 .. Len(transactions) : r = InsertAt(s, i, x)
        BY <2>2, <3>2
      <4> HIDE DEF s
      <4>3. i \in 1 .. Len(s) + 1
        BY <1>2, <4>1, LenProperties
      <4>4. Occurs(x, r) /\ \A f : Occurs(f, s) => Occurs(f, r)
        BY <2>3, <4>1, <4>2, <4>3, InsertHolds
      <4> QED
        BY <2>5, <3>2, <4>1, <4>4
    <3> QED
      BY <3>1, <3>2
  <2>8. \A f : Occurs(f, r) => Somewhere(f)'
    <3>1. \A f : Occurs(f, transactions') => Somewhere(f)'
      BY DEF Somewhere
    <3> QED
      BY <2>4, <3>1
  <2>9. Occurs(e, transactions) \/ UnderWay(e) => Kept(e)
    BY <2>6, <2>7, <2>8 DEF Kept, MayGo
  <2> QED
    BY <1>3, <2>9 DEF Somewhere
<1> QED
  BY <1>4, <1>5 DEF Check

LEMMA AddedKept ==
    ASSUME TInv, Added, NEW e, Somewhere(e)
    PROVE  Kept(e)
<1>1. UNCHANGED <<transactions, orphanTx, queueOpt>> /\ ~UnderWay(e)
  BY DEF Added, UnderWay
<1> QED
  BY <1>1 DEF Somewhere, InOrphans, Kept

LEMMA ScanOrphanKept ==
    ASSUME TInv, ScanOrphan, NEW e, Somewhere(e)
    PROVE  Kept(e)
<1> DEFINE a == Tx.address
           l == orphanTx[a]
           rest == Suffix(l)
<1>1. UNCHANGED transactions /\ ~UnderWay(e)
  BY SMTT(30) DEF ScanOrphan, UnderWay
<1>2. a \in Addresses
  BY Busy, Turns DEF TInv
<1>3. orphanTx \in [Addresses -> Seq(Entry)] /\ Operations(queueOpt)
  BY DEF TInv, Types
<1>4. l \in Seq(Entry)
  BY <1>2, <1>3
<1>5. /\ rest \in Seq(Entry)
      /\ \A k \in 1 .. Len(l) : IsTimeout(l[k]) \/ \E j \in 1 .. Len(rest) : rest[j] = l[k]
  BY <1>4, SuffixFacts
<1>6. \/ /\ rest # <<>>
         /\ queueOpt' = Append(queueOpt, AddTx(rest[1]))
         /\ orphanTx' = [orphanTx EXCEPT ![a] = Tail(rest)]
      \/ /\ orphanTx' = [orphanTx EXCEPT ![a] = rest]
         /\ UNCHANGED queueOpt
  BY ScanCases
<1>7. DOMAIN l = 1 .. Len(l)
  BY <1>4, LenProperties
<1>8. \A f : Occurs(f, l) => IsTimeout(f) \/ \E j \in 1 .. Len(rest) : rest[j] = f
  BY <1>5, <1>7 DEF Occurs
<1> HIDE DEF rest
<1>9. /\ \A b \in Addresses : b # a => orphanTx'[b] = orphanTx[b]
      /\ InOperations(e, queueOpt) => InOperations(e, queueOpt')
      /\ \A j \in 1 .. Len(rest) : \/ Occurs(rest[j], orphanTx'[a])
                                   \/ InOperations(rest[j], queueOpt')
  <2>1. CASE /\ rest # <<>>
             /\ queueOpt' = Append(queueOpt, AddTx(rest[1]))
             /\ orphanTx' = [orphanTx EXCEPT ![a] = Tail(rest)]
    <3>1. /\ rest[1] \in Entry /\ Tail(rest) \in Seq(Entry) /\ Len(Tail(rest)) = Len(rest) - 1
          /\ \A i \in 1 .. Len(Tail(rest)) : Tail(rest)[i] = rest[i + 1]
          /\ Len(rest) \in Nat
      BY <1>5, <2>1, HeadTailProperties, LenProperties
    <3>2. /\ InOperations(rest[1], queueOpt')
          /\ InOperations(e, queueOpt) => InOperations(e, queueOpt')
      BY <1>3, <2>1, <3>1, AppendHolds
    <3>3. orphanTx'[a] = Tail(rest) /\ \A b \in Addresses : b # a => orphanTx'[b] = orphanTx[b]
      BY <1>2, <1>3, <2>1
    <3>4. ASSUME NEW j \in 1 .. Len(rest), j # 1
          PROVE  Occurs(rest[j], Tail(rest))
      <4>1. j - 1 \in 1 .. Len(Tail(rest)) /\ (j - 1) + 1 = j
        BY <3>1, <3>4
      <4>2. Tail(rest)[j - 1] = rest[j] /\ j - 1 \in DOMAIN Tail(rest)
        BY <3>1, <4>1, LenProperties
      <4> QED
        BY <4>2 DEF Occurs
    <3> QED
      BY <3>2, <3>3, <3>4
  <2>2. CASE orphanTx' = [orphanTx EXCEPT ![a] = rest] /\ UNCHANGED queueOpt
    <3>1. orphanTx'[a] = rest /\ \A b \in Addresses : b # a => orphanTx'[b] = orphanTx[b]
      BY <1>2, <1>3, <2>2
    <3>2. \A j \in 1 .. Len(rest) : Occurs(rest[j], rest)
      BY <1>5, LenProperties DEF Occurs
    <3> QED
      BY <2>2, <3>1, <3>2
  <2> QED
    BY <1>6, <2>1, <2>2
<1>10. CASE InOrphans(e)
  <2>1. PICK b \in Addresses : Occurs(e, orphanTx[b])
    BY <1>10 DEF InOrphans
  <2>2. CASE b # a
    <3>1. Occurs(e, orphanTx'[b])
      BY <1>9, <2>1, <2>2
    <3> QED
      BY <3>1 DEF Kept, Somewhere, InOrphans
  <2>3. CASE b = a
    <3>1. IsTimeout(e) \/ \E j \in 1 .. Len(rest) : rest[j] = e
      BY <1>8, <2>1, <2>3
    <3>2. IsTimeout(e) \/ Occurs(e, orphanTx'[a]) \/ InOperations(e, queueOpt')
      BY <1>9, <3>1
    <3> QED
      BY <1>2, <3>2 DEF Kept, MayGo, Somewhere, InOrphans
  <2> QED
    BY <2>2, <2>3
<1>11. CASE Occurs(e, transactions) \/ InOperations(e, queueOpt)
  BY <1>1, <1>9, <1>11 DEF Somewhere, Kept
<1> QED
  BY <1>1, <1>10, <1>11, SMTT(30) DEF Somewhere

\* The steps that move no transaction.
LEMMA OthersKept ==
    ASSUME UpdateTipBlock \/ SnapshotViewFails \/ Tick \/ UNCHANGED vars, NEW e, Somewhere(e)
    PROVE  Kept(e)
<1>1. UNCHANGED <<transactions, orphanTx, queueOpt, adding>>
  BY DEF UpdateTipBlock, SnapshotViewFails, Tick, vars, poolVars
<1> QED
  BY <1>1 DEF Kept, Somewhere, InOrphans, UnderWay

\* Every step keeps a transaction or has a reason to let it go.
LEMMA StepKept ==
    ASSUME TInv, [Next]_vars, NEW e, Somewhere(e)
    PROVE  Kept(e)
BY AddTransactionKept, SnapshotViewKept, StorageNonceKept, NonceKept, CheckKept, AddedKept,
   ScanOrphanKept, NextOptKept, OthersKept DEF Next

\* A transaction that was accepted leaves the pool only for one of the reasons
\* the code has: whatever the order of answers, changes of the tip and
\* additions, none falls between two places on the way from one to the other.
THEOREM NothingIsLost == Spec => NothingVanishes
<1> DEFINE A == \A e \in Held \ Held' :
                   \/ IsTimeout(e)
                   \/ adding.released
                   \/ adding.pc \in {"storageNonce", "nonce"} /\ adding.got >= e.tx.nonce
                   \/ \E f \in Held' : f.tx.address = e.tx.address /\ f.tx.nonce = e.tx.nonce
                   \/ ValueChain /\ adding.pc = "check" /\ adding.got < adding.use
<1>1. TInv /\ [Next]_vars => A
  <2> SUFFICES ASSUME TInv, [Next]_vars, NEW e \in Held \ Held'
               PROVE  \/ IsTimeout(e)
                      \/ adding.released
                      \/ adding.pc \in {"storageNonce", "nonce"} /\ adding.got >= e.tx.nonce
                      \/ \E f \in Held' : f.tx.address = e.tx.address /\ f.tx.nonce = e.tx.nonce
                      \/ ValueChain /\ adding.pc = "check" /\ adding.got < adding.use
    OBVIOUS
  <2>1. Kept(e)
    BY HeldIs, StepKept DEF Places
  <2>2. \A f : f \in Held' <=> Somewhere(f)'
    BY HeldNext DEF Places
  <2> QED
    BY <2>1, <2>2 DEF Kept, MayGo
<1>2. [][A]_vars => NothingVanishes
  BY PTL DEF NothingVanishes
<1> QED
  BY <1>1, <1>2, TypesInvariant, PTL DEF Spec

-----------------------------------------------------------------------------
(* The limit of the pool.                                                  *)
(*                                                                         *)
(* addTransaction counts the queue, the orphans and the operations, but    *)
(* not the transaction whose handler waits.  Counted with it, and operations*)
(* one by one even if two hold the same transaction, no step makes the     *)
(* pool larger except addTransaction.                                      *)

OrphanCount == Total([a \in Addresses |-> Len(orphanTx[a])], Addresses)

\* The transactions among the operations q.
WaitingCount(q) == IF Reset(q) THEN Len(q) - 1 ELSE Len(q)

BusyCount == IF adding.pc \in {"idle", "added", "scan", "next"} THEN 0 ELSE 1

PoolCount == Len(transactions) + OrphanCount + WaitingCount(queueOpt) + BusyCount

BInv == PoolCount <= MaxPendingCount + 1

\* The parts of the count are numbers.
LEMMA CountTypes ==
    ASSUME Types, IsFiniteSet(Addresses)
    PROVE  /\ Len(transactions) \in Nat /\ OrphanCount \in Int
           /\ Len(queueOpt) \in Nat
           /\ WaitingCount(queueOpt) \in Nat /\ WaitingCount(queueOpt) <= Len(queueOpt)
           /\ BusyCount \in {0, 1}
<1>1. Len(transactions) \in Nat /\ Len(queueOpt) \in Nat
  BY LenProperties DEF Types, Operations
<1>2. OrphanCount \in Int
  <2> DEFINE f == [a \in Addresses |-> Len(orphanTx[a])]
  <2>1. \A a \in Addresses : f[a] \in Int
    BY LenProperties DEF Types
  <2> HIDE DEF f
  <2>2. Total(f, Addresses) \in Int
    BY <2>1, TotalType
  <2> QED
    BY <2>2 DEF OrphanCount, f
<1>3. Reset(queueOpt) => Len(queueOpt) # 0
  BY EmptySeq DEF Reset, Types, Operations
<1> QED
  BY <1>1, <1>2, <1>3 DEF WaitingCount, BusyCount

\* One address's orphans change.
LEMMA OrphansMove ==
    ASSUME Types, IsFiniteSet(Addresses), NEW a \in Addresses, NEW l \in Seq(Entry),
           orphanTx' = [orphanTx EXCEPT ![a] = l]
    PROVE  OrphanCount' = OrphanCount + (Len(l) - Len(orphanTx[a]))
<1> DEFINE f == [b \in Addresses |-> Len(orphanTx[b])]
           g == [b \in Addresses |-> Len(orphanTx'[b])]
<1>1. orphanTx \in [Addresses -> Seq(Entry)]
  BY DEF Types
<1>2. orphanTx'[a] = l /\ \A b \in Addresses : b # a => orphanTx'[b] = orphanTx[b]
  BY <1>1
<1>3. \A b \in Addresses : f[b] \in Int /\ g[b] \in Int
  BY <1>1, <1>2, LenProperties
<1>4. (\A b \in Addresses \ {a} : g[b] = f[b]) /\ f[a] = Len(orphanTx[a]) /\ g[a] = Len(l)
  BY <1>2
<1> HIDE DEF f, g
<1>5. Total(g, Addresses) = Total(f, Addresses) + (g[a] - f[a])
  BY <1>3, <1>4, TotalChange
<1> QED
  BY <1>4, <1>5 DEF OrphanCount, f, g

\* Running operations moves transactions and makes no more of them.
LEMMA RunCount ==
    ASSUME Types, NEW q, Operations(q), NEW v, v.nonce \in Nonces, RunQueue(q, v)
    PROVE  /\ Len(transactions') \in Nat /\ WaitingCount(queueOpt') \in Nat /\ BusyCount' \in {0, 1}
           /\ Len(transactions') + WaitingCount(queueOpt') + BusyCount'
               <= Len(transactions) + WaitingCount(q)
<1> DEFINE r == Rest(q)
<1>1. /\ transactions \in Seq(Entry) /\ NonceMap(mapNonce)
      /\ Len(transactions) \in Nat /\ Len(q) \in Nat
  BY LenProperties DEF Types, Operations
<1>2. /\ Operations(queueOpt') /\ ~Reset(queueOpt')
      /\ Reset(q) => transactions' = <<>>
      /\ ~Reset(q) => transactions' = transactions
      /\ r = <<>> => queueOpt' = <<>>
      /\ r # <<>> => queueOpt' = Tail(r)
      /\ (adding' = Idle /\ queueOpt' = <<>>) \/ Awaiting(adding')
  BY <1>1, RunFacts
<1>3. r \in Seq(Addition) /\ (~Reset(q) => r = q)
      /\ (Reset(q) => Len(r) = Len(transactions) + Len(q) - 1)
  BY <1>1, RestFacts
<1>4. Len(transactions') + Len(r) = Len(transactions) + WaitingCount(q)
  <2>1. Len(<<>>) = 0
    BY EmptySeq
  <2> HIDE DEF r
  <2> QED
    BY <1>1, <1>2, <1>3, <2>1 DEF WaitingCount
<1>5. /\ WaitingCount(queueOpt') = Len(queueOpt') /\ Len(queueOpt') \in Nat
      /\ BusyCount' \in {0, 1}
  BY <1>2, LenProperties DEF WaitingCount, BusyCount, Operations
<1>6. r = <<>> => adding' = Idle
  BY DEF RunQueue, Rest, Reset
<1>7. r = <<>> => BusyCount' = 0
  BY <1>6 DEF BusyCount, Idle
<1>8. r # <<>> => Len(Tail(r)) = Len(r) - 1
  BY <1>3, HeadTailProperties
<1>9. Len(<<>>) = 0 /\ Len(r) \in Nat
  BY <1>3, EmptySeq, LenProperties
<1>10. Len(transactions') \in Nat
  BY <1>1, <1>2, <1>9
<1> HIDE DEF r
<1>11. CASE r = <<>>
  BY <1>2, <1>4, <1>5, <1>7, <1>9, <1>10, <1>11
<1>12. CASE r # <<>>
  <2>1. Len(queueOpt') = Len(r) - 1
    BY <1>2, <1>8, <1>12
  <2> QED
    BY <1>4, <1>5, <1>9, <1>10, <2>1
<1> QED
  BY <1>11, <1>12

\* The count of orphans changes with the orphans alone.
LEMMA OrphansStay ==
    ASSUME UNCHANGED orphanTx
    PROVE  OrphanCount' = OrphanCount
BY DEF OrphanCount

\* GetPendingCount is the queue and the orphans.
LEMMA PendingCountIs == GetPendingCount = Len(transactions) + OrphanCount
<1> DEFINE f == [a \in Addresses |-> Len(orphanTx[a])]
<1>1. GetPendingCount = Len(transactions) + SumFunction(f)
  BY DEF GetPendingCount
<1>2. DOMAIN f = Addresses
  OBVIOUS
<1> HIDE DEF f
<1>3. SumFunction(f) = Total(f, Addresses)
  BY <1>2 DEF SumFunction, SumFunctionOnSet, FoldFunctionOnSet, Total, MapThenSumSet
<1> QED
  BY <1>1, <1>3 DEF OrphanCount, f

LEMMA AddTransactionCount ==
    ASSUME Types, IsFiniteSet(Addresses), BInv, NEW tx \in Txs, AddTransaction(tx)
    PROVE  BInv'
<1> DEFINE e == [tx |-> tx, ct |-> now]
           q == Append(queueOpt, AddTx(e))
<1>1. e \in Entry
  BY DEF Types, Entry
<1>2. HasRoom /\ UNCHANGED orphanTx
  BY DEF AddTransaction
<1>3. \/ UNCHANGED <<transactions, queueOpt, adding>>
      \/ RunQueue(q, view) /\ adding = Idle
      \/ queueOpt' = q /\ UNCHANGED <<transactions, adding>>
  BY DEF AddTransaction, RunUnlessBusy
<1> HIDE DEF e
<1>4. /\ Operations(q) /\ Len(q) = Len(queueOpt) + 1
      /\ Reset(q) <=> Reset(queueOpt)
  BY <1>1, AppendFacts DEF Types
<1>5. WaitingCount(q) = WaitingCount(queueOpt) + 1
  BY <1>4, CountTypes DEF WaitingCount
<1>6. /\ Len(transactions) + OrphanCount + Len(queueOpt) < MaxPendingCount
      /\ OrphanCount' = OrphanCount /\ MaxPendingCount \in Nat
  BY <1>2, PendingCountIs, OrphansStay, PendingAssumption DEF HasRoom
<1> HIDE DEF q
<1>7. CASE UNCHANGED <<transactions, queueOpt, adding>>
  BY <1>6, <1>7 DEF BInv, PoolCount, WaitingCount, BusyCount, Reset
<1>8. CASE RunQueue(q, view) /\ adding = Idle
  <2>1. /\ Len(transactions') \in Nat /\ WaitingCount(queueOpt') \in Nat /\ BusyCount' \in {0, 1}
        /\ Len(transactions') + WaitingCount(queueOpt') + BusyCount'
            <= Len(transactions) + WaitingCount(q)
    BY <1>4, <1>8, RunCount DEF Types
  <2>2. /\ Len(transactions) \in Nat /\ OrphanCount \in Int /\ WaitingCount(queueOpt) \in Nat
        /\ MaxPendingCount \in Nat /\ BusyCount \in {0, 1}
        /\ WaitingCount(queueOpt) <= Len(queueOpt) /\ Len(queueOpt) \in Nat
    BY <1>6, CountTypes
  <2>3. PoolCount' <= MaxPendingCount
    BY <1>5, <1>6, <2>1, <2>2 DEF PoolCount
  <2>4. PoolCount' \in Int
    BY <1>6, <2>1, <2>2 DEF PoolCount
  <2> QED
    BY <1>6, <2>3, <2>4 DEF BInv
<1>9. CASE queueOpt' = q /\ UNCHANGED <<transactions, adding>>
  <2>1. WaitingCount(queueOpt)' = WaitingCount(queueOpt) + 1 /\ BusyCount' = BusyCount
    BY <1>5, <1>9 DEF WaitingCount, BusyCount, Reset
  <2> QED
    BY <1>6, <1>9, <2>1, CountTypes DEF BInv, PoolCount
<1> QED
  BY <1>3, <1>7, <1>8, <1>9

LEMMA RunKeepsCount ==
    ASSUME Types, IsFiniteSet(Addresses), BInv, NEW q, Operations(q),
           WaitingCount(q) = WaitingCount(queueOpt), NEW v, v.nonce \in Nonces,
           RunQueue(q, v), UNCHANGED orphanTx
    PROVE  BInv'
<1>1. /\ Len(transactions') \in Nat /\ WaitingCount(queueOpt') \in Nat /\ BusyCount' \in {0, 1}
      /\ Len(transactions') + WaitingCount(queueOpt') + BusyCount'
            <= Len(transactions) + WaitingCount(queueOpt)
  BY RunCount
<1>2. /\ Len(transactions) \in Nat /\ OrphanCount \in Int /\ WaitingCount(queueOpt) \in Nat
      /\ MaxPendingCount \in Nat /\ BusyCount \in {0, 1}
      /\ OrphanCount' = OrphanCount
  BY CountTypes, OrphansStay, PendingAssumption
<1>3. PoolCount' = Len(transactions') + OrphanCount' + WaitingCount(queueOpt') + BusyCount'
  BY DEF PoolCount
<1> DEFINE k == Len(transactions')
           m == WaitingCount(queueOpt')
           n == BusyCount'
<1> HIDE DEF k, m, n
<1>4. k \in Nat /\ m \in Nat /\ n \in {0, 1} /\ k + m + n <= Len(transactions) + WaitingCount(queueOpt)
  BY <1>1 DEF k, m, n
<1>5. PoolCount' = k + OrphanCount + m + n
  BY <1>2, <1>3 DEF k, m, n
<1>6. PoolCount' <= PoolCount /\ PoolCount \in Int /\ PoolCount' \in Int
  BY <1>2, <1>4, <1>5 DEF PoolCount
<1> QED
  BY <1>2, <1>6 DEF BInv

LEMMA SnapshotViewCount ==
    ASSUME Types, IsFiniteSet(Addresses), BInv, SnapshotView
    PROVE  BInv'
<1> DEFINE q == UpdateTipFirst(queueOpt)
<1>1. /\ Operations(q) /\ Reset(q) /\ q # <<>>
      /\ Tail(q) = IF Reset(queueOpt) THEN Tail(queueOpt) ELSE queueOpt
  BY FirstFacts DEF Types
<1>2. \/ RunQueue(q, tip)
      \/ queueOpt' = q /\ UNCHANGED transactions /\ adding' = [adding EXCEPT !.released = adding.reading]
  BY DEF SnapshotView
<1>3. UNCHANGED orphanTx /\ tip.nonce \in Nonces
  BY DEF SnapshotView, Types
<1> HIDE DEF q
<1>4. WaitingCount(q) = WaitingCount(queueOpt)
  <2>1. Len(Tail(q)) = Len(q) - 1 /\ Len(q) \in Nat
    BY <1>1, HeadTailProperties, LenProperties DEF Operations
  <2>2. Reset(queueOpt) => Len(Tail(queueOpt)) = Len(queueOpt) - 1
    BY HeadTailProperties DEF Reset, Types, Operations
  <2> QED
    BY <1>1, <2>1, <2>2, CountTypes DEF WaitingCount
<1>5. CASE RunQueue(q, tip)
  BY <1>1, <1>3, <1>4, <1>5, RunKeepsCount
<1>6. CASE queueOpt' = q /\ UNCHANGED transactions /\ adding' = [adding EXCEPT !.released = adding.reading]
  <2>1. adding # Idle => adding'.pc = adding.pc
    BY <1>6 DEF Types, Awaiting
  <2>2. adding = Idle => adding'.pc = adding.pc
    BY <1>6 DEF Idle
  <2>3. BusyCount' = BusyCount
    BY <2>1, <2>2 DEF BusyCount
  <2> QED
    BY <1>3, <1>4, <1>6, <2>3, CountTypes, OrphansStay DEF BInv, PoolCount
<1> QED
  BY <1>2, <1>5, <1>6

LEMMA NextOptCount ==
    ASSUME Types, IsFiniteSet(Addresses), BInv, NextOpt
    PROVE  BInv'
<1>1. RunQueue(queueOpt, view) /\ UNCHANGED orphanTx /\ Operations(queueOpt) /\ view.nonce \in Nonces
  BY DEF NextOpt, Types
<1> QED
  BY <1>1, RunKeepsCount

\* The handler goes on or gives up; the pool is as it was.
LEMMA StayCount ==
    ASSUME Types, IsFiniteSet(Addresses), BInv, UNCHANGED <<transactions, orphanTx, queueOpt>>,
           BusyCount' \in {0, 1}, BusyCount' <= BusyCount
    PROVE  BInv'
<1>1. WaitingCount(queueOpt)' = WaitingCount(queueOpt)
  BY DEF WaitingCount, Reset
<1> QED
  BY <1>1, CountTypes, OrphansStay, PendingAssumption DEF BInv, PoolCount

LEMMA StorageNonceCount ==
    ASSUME Types, IsFiniteSet(Addresses), BInv, StorageNonce
    PROVE  BInv'
<1>1. UNCHANGED <<transactions, orphanTx, queueOpt>> /\ adding.pc = "storageNonce"
  BY DEF StorageNonce, poolVars
<1>2. BusyCount = 1 /\ BusyCount' \in {0, 1}
  BY <1>1 DEF BusyCount
<1> QED
  BY <1>1, <1>2, StayCount

LEMMA AddedCount ==
    ASSUME Types, IsFiniteSet(Addresses), BInv, Added
    PROVE  BInv'
<1>1. UNCHANGED <<transactions, orphanTx, queueOpt>> /\ adding.pc = "added"
  BY DEF Added
<1>2. adding' = Done \/ adding' = ToScan(mapNonce')
  BY DEF Added
<1>3. adding'.pc \in {"next", "scan"}
  BY <1>1, <1>2, Busy, DoneFacts DEF ToScan, Await
<1>4. BusyCount' = 0
  BY <1>3 DEF BusyCount
<1> QED
  BY <1>1, <1>4, StayCount, CountTypes

LEMMA NonceCount ==
    ASSUME Types, IsFiniteSet(Addresses), BInv, Nonce
    PROVE  BInv'
<1>1. UNCHANGED <<transactions, queueOpt>> /\ adding.pc = "nonce"
  BY DEF Nonce
<1>2. BusyCount = 1 /\ BusyCount' \in {0, 1}
  BY <1>1 DEF BusyCount
<1>3. CASE UNCHANGED orphanTx
  BY <1>1, <1>2, <1>3, StayCount
<1>4. CASE /\ orphanTx' = [orphanTx EXCEPT
                ![Tx.address] = AddToOrphanMayNonceExist(@, adding.txTime)]
           /\ adding' = Done
  <2> DEFINE a == Tx.address
             l == AddToOrphanMayNonceExist(orphanTx[a], adding.txTime)
  <2>1. a \in Addresses /\ adding.txTime \in Entry /\ Awaiting(adding)
    BY <1>1, Busy
  <2>2. orphanTx \in [Addresses -> Seq(Entry)]
    BY DEF Types
  <2>3. orphanTx[a] \in Seq(Entry) /\ Len(orphanTx[a]) \in Nat
    BY <2>1, <2>2, LenProperties
  <2>4. l \in Seq(Entry) /\ Len(l) \in {Len(orphanTx[a]), Len(orphanTx[a]) + 1}
    <3>1. CASE SameNonce(orphanTx[a], Tx) = {}
      <4>1. PICK i \in 1 .. Len(orphanTx[a]) + 1 : l = InsertAt(orphanTx[a], i, adding.txTime)
        BY <2>1, <2>3, <3>1, OrphanFacts DEF Tx
      <4> QED
        BY <2>1, <2>3, <4>1, InsertFacts
    <3>2. CASE SameNonce(orphanTx[a], Tx) # {}
      BY <2>1, <2>3, <3>2, OrphanFacts DEF Tx
    <3> QED
      BY <3>1, <3>2
  <2>5. orphanTx' = [orphanTx EXCEPT ![a] = l]
    BY <1>4, <2>1, <2>2
  <2> HIDE DEF a, l
  <2>6. OrphanCount' = OrphanCount + (Len(l) - Len(orphanTx[a]))
    BY <2>1, <2>4, <2>5, OrphansMove
  <2>7. OrphanCount' <= OrphanCount + 1 /\ OrphanCount' \in Int
    BY <2>3, <2>4, <2>6, CountTypes
  <2>8. BusyCount' = 0
    BY <1>4, <2>1, DoneFacts DEF BusyCount
  <2>9. WaitingCount(queueOpt)' = WaitingCount(queueOpt)
    BY <1>1 DEF WaitingCount, Reset
  <2>10. Len(transactions)' = Len(transactions)
    BY <1>1
  <2>11. /\ Len(transactions) \in Nat /\ OrphanCount \in Int /\ WaitingCount(queueOpt) \in Nat
         /\ MaxPendingCount \in Nat
    BY CountTypes, PendingAssumption
  <2>12. PoolCount' <= PoolCount
    BY <1>2, <2>7, <2>8, <2>9, <2>10, <2>11 DEF PoolCount
  <2>13. PoolCount \in Int /\ PoolCount' \in Int
    BY <1>2, <2>7, <2>8, <2>9, <2>10, <2>11 DEF PoolCount
  <2> QED
    BY <2>11, <2>12, <2>13 DEF BInv
<1> QED
  BY <1>3, <1>4 DEF Nonce

LEMMA CheckCount ==
    ASSUME TInv, IsFiniteSet(Addresses), BInv, Check
    PROVE  BInv'
<1>1. UNCHANGED <<orphanTx, queueOpt>> /\ adding.pc = "check"
  BY DEF Check
<1>2. BusyCount = 1 /\ BusyCount' \in {0, 1}
  BY <1>1 DEF BusyCount
<1>3. Types
  BY DEF TInv
<1>4. CASE UNCHANGED transactions
  BY <1>1, <1>2, <1>3, <1>4, StayCount
<1>5. CASE transactions' = AddToQueue(adding.txTime, adding.at)
  <2> DEFINE at == adding.at
             r == AddToQueue(adding.txTime, at)
  <2>1. adding.txTime \in Entry /\ transactions \in Seq(Entry) /\ Len(transactions) \in Nat
    BY <1>1, <1>3, Busy, LenProperties DEF Types
  <2>2. at \in Nat /\ (at # 0 => at \in 1 .. Len(transactions))
    BY <1>1, PlaceFacts
  <2>3. Len(r) \in Nat /\ Len(r) <= Len(transactions) + 1
    <3>1. CASE at = 0
      <4>1. PICK i \in 1 .. Len(transactions) + 1 : r = InsertAt(transactions, i, adding.txTime)
        BY <2>1, <2>2, <3>1, AddFacts, PendingAssumption
      <4>2. Len(r) = Len(transactions) + 1
        BY <2>1, <4>1, InsertFacts
      <4> QED
        BY <2>1, <4>2
    <3>2. CASE at # 0
      <4> DEFINE s == RemoveAt(transactions, at)
      <4>1. s \in Seq(Entry) /\ Len(s) = Len(transactions) - 1
        BY <2>1, <2>2, <3>2, RemoveFacts
      <4>2. PICK i \in 1 .. Len(transactions) : r = InsertAt(s, i, adding.txTime)
        BY <2>1, <2>2, <3>2, AddFacts, PendingAssumption
      <4> HIDE DEF s, r
      <4>3. Len(r) = Len(s) + 1
        BY <2>1, <4>1, <4>2, InsertFacts
      <4> QED
        BY <2>1, <4>1, <4>3
    <3> QED
      BY <3>1, <3>2
  <2>4. Len(transactions)' = Len(r)
    BY <1>5
  <2> HIDE DEF r
  <2>5. BusyCount' = 0
    <3>1. \/ adding' = Done
          \/ adding' = ToScan(mapNonce')
          \/ adding' = [adding EXCEPT !.pc = "added", !.got = GetBalance(Tx.address),
                                      !.reading = Tx.address \notin DOMAIN balance,
                                      !.released = FALSE]
      BY DEF Check
    <3>2. Awaiting(adding)
      BY <1>1, <1>3, Busy
    <3>3. Done.pc = "next" /\ ToScan(mapNonce').pc = "scan"
      BY <3>2, DoneFacts DEF ToScan, Await
    <3>4. [adding EXCEPT !.pc = "added", !.got = GetBalance(Tx.address),
                         !.reading = Tx.address \notin DOMAIN balance,
                         !.released = FALSE].pc = "added"
      BY <3>2 DEF Awaiting, Fields
    <3>5. adding'.pc \in {"next", "added", "scan"}
      BY <3>1, <3>3, <3>4, Zenon
    <3> QED
      BY <3>5 DEF BusyCount
  <2>6. WaitingCount(queueOpt)' = WaitingCount(queueOpt) /\ OrphanCount' = OrphanCount
    BY <1>1, OrphansStay DEF WaitingCount, Reset
  <2>7. /\ Len(transactions) \in Nat /\ OrphanCount \in Int /\ WaitingCount(queueOpt) \in Nat
        /\ MaxPendingCount \in Nat /\ BusyCount \in {0, 1}
    BY <1>3, CountTypes, PendingAssumption
  <2>8. PoolCount' <= PoolCount /\ PoolCount \in Int /\ PoolCount' \in Int
    BY <1>2, <2>3, <2>4, <2>5, <2>6, <2>7 DEF PoolCount
  <2> QED
    BY <2>7, <2>8 DEF BInv
<1> QED
  BY <1>4, <1>5 DEF Check

LEMMA SuffixLength ==
    ASSUME NEW l \in Seq(Entry)
    PROVE  Len(Suffix(l)) \in Nat /\ Len(Suffix(l)) <= Len(l)
<1>1. Len(l) \in Nat /\ Alive(l) \subseteq 1 .. Len(l)
  BY LenProperties DEF Alive
<1>2. CASE Alive(l) = {}
  BY <1>1, <1>2, EmptySeq DEF Suffix
<1>3. CASE Alive(l) # {}
  <2> DEFINE m == Min(Alive(l))
  <2>1. m \in 1 .. Len(l)
    <3>1. Alive(l) \in SUBSET Nat
      BY <1>1
    <3> QED
      BY <1>1, <1>3, <3>1, Smallest
  <2>2. Suffix(l) = SubSeq(l, m, Len(l))
    BY <1>3 DEF Suffix
  <2> HIDE DEF m
  <2>3. Len(SubSeq(l, m, Len(l))) = Len(l) - m + 1
    BY <1>1, <2>1, SubSeqProperties
  <2> QED
    BY <1>1, <2>1, <2>2, <2>3
<1> QED
  BY <1>2, <1>3

LEMMA ScanOrphanCount ==
    ASSUME TInv, IsFiniteSet(Addresses), BInv, ScanOrphan
    PROVE  BInv'
<1> DEFINE a == Tx.address
           l == orphanTx[a]
           rest == Suffix(l)
<1>1. Types /\ UNCHANGED transactions /\ adding' = Done
  BY DEF ScanOrphan, TInv
<1>2. a \in Addresses /\ Awaiting(adding)
  BY <1>1, Busy, Turns
<1>3. orphanTx \in [Addresses -> Seq(Entry)] /\ Operations(queueOpt)
  BY <1>1 DEF Types
<1>4. l \in Seq(Entry) /\ Len(l) \in Nat
  BY <1>2, <1>3, LenProperties
<1>5. rest \in Seq(Entry) /\ Len(rest) \in Nat /\ Len(rest) <= Len(l)
  BY <1>4, SuffixFacts, SuffixLength
<1>6. \/ /\ rest # <<>>
         /\ queueOpt' = Append(queueOpt, AddTx(rest[1]))
         /\ orphanTx' = [orphanTx EXCEPT ![a] = Tail(rest)]
      \/ /\ orphanTx' = [orphanTx EXCEPT ![a] = rest]
         /\ UNCHANGED queueOpt
  BY ScanCases
<1>7. BusyCount' = 0
  BY <1>1, <1>2, DoneFacts DEF BusyCount
<1>8. /\ Len(transactions) \in Nat /\ OrphanCount \in Int /\ WaitingCount(queueOpt) \in Nat
      /\ MaxPendingCount \in Nat /\ BusyCount \in {0, 1} /\ Len(transactions)' = Len(transactions)
  BY <1>1, CountTypes, PendingAssumption
<1>9. \E n \in Nat : /\ WaitingCount(queueOpt)' = WaitingCount(queueOpt) + n
                     /\ OrphanCount' \in Int /\ OrphanCount' <= OrphanCount - n
  <2> HIDE DEF rest
  <2>1. CASE /\ rest # <<>>
             /\ queueOpt' = Append(queueOpt, AddTx(rest[1]))
             /\ orphanTx' = [orphanTx EXCEPT ![a] = Tail(rest)]
    <3>1. Tail(rest) \in Seq(Entry) /\ rest[1] \in Entry /\ Len(Tail(rest)) = Len(rest) - 1
      BY <1>5, <2>1, HeadTailProperties
    <3>2. OrphanCount' = OrphanCount + (Len(Tail(rest)) - Len(l))
      <4> DEFINE t == Tail(rest)
      <4> HIDE DEF t
      <4>1. t \in Seq(Entry) /\ orphanTx' = [orphanTx EXCEPT ![a] = t]
        BY <2>1, <3>1 DEF t
      <4>2. OrphanCount' = OrphanCount + (Len(t) - Len(orphanTx[a]))
        BY <1>1, <1>2, <4>1, OrphansMove
      <4> QED
        BY <4>2 DEF t
    <3>3. WaitingCount(queueOpt)' = WaitingCount(queueOpt) + 1
      <4>1. /\ Reset(queueOpt') <=> Reset(queueOpt)
            /\ Len(queueOpt') = Len(queueOpt) + 1 /\ Len(queueOpt) \in Nat
        BY <1>3, <2>1, <3>1, AppendFacts
      <4> QED
        BY <4>1 DEF WaitingCount
    <3> QED
      BY <1>4, <1>5, <1>8, <3>1, <3>2, <3>3
  <2>2. CASE orphanTx' = [orphanTx EXCEPT ![a] = rest] /\ UNCHANGED queueOpt
    <3>1. OrphanCount' = OrphanCount + (Len(rest) - Len(orphanTx[a]))
      BY <1>1, <1>2, <1>5, <2>2, OrphansMove
    <3>2. WaitingCount(queueOpt)' = WaitingCount(queueOpt)
      BY <2>2 DEF WaitingCount, Reset
    <3> QED
      BY <1>4, <1>5, <1>8, <3>1, <3>2
  <2> QED
    BY <1>6, <2>1, <2>2
<1> HIDE DEF a, l, rest
<1>10. PoolCount' <= PoolCount /\ PoolCount \in Int /\ PoolCount' \in Int
  BY <1>7, <1>8, <1>9 DEF PoolCount
<1> QED
  BY <1>8, <1>10 DEF BInv

LEMMA OthersCount ==
    ASSUME Types, IsFiniteSet(Addresses), BInv,
           UpdateTipBlock \/ SnapshotViewFails \/ Tick \/ UNCHANGED vars
    PROVE  BInv'
<1>1. UNCHANGED <<transactions, orphanTx, queueOpt, adding>>
  BY DEF UpdateTipBlock, SnapshotViewFails, Tick, vars, poolVars
<1>2. BusyCount' = BusyCount
  BY <1>1 DEF BusyCount
<1> QED
  BY <1>1, <1>2, StayCount, CountTypes

LEMMA StepCount ==
    ASSUME TInv, IsFiniteSet(Addresses), BInv, [Next]_vars
    PROVE  BInv'
<1>1. Types
  BY DEF TInv
<1> QED
  BY <1>1, AddTransactionCount, SnapshotViewCount, StorageNonceCount, NonceCount, CheckCount,
     AddedCount, ScanOrphanCount, NextOptCount, OthersCount DEF Next

LEMMA InitCount ==
    ASSUME Init, IsFiniteSet(Addresses)
    PROVE  BInv
<1>1. Len(transactions) = 0 /\ WaitingCount(queueOpt) = 0
  BY EmptySeq DEF Init, WaitingCount, Reset
<1>2. BusyCount = 0
  BY DEF Init, Idle, BusyCount
<1>3. OrphanCount = 0 * Cardinality(Addresses)
  <2> DEFINE f == [a \in Addresses |-> Len(orphanTx[a])]
  <2>1. \A a \in Addresses : f[a] = 0
    BY EmptySeq DEF Init
  <2> HIDE DEF f
  <2>2. Total(f, Addresses) = 0 * Cardinality(Addresses)
    BY <2>1, TotalConstant
  <2> QED
    BY <2>2 DEF OrphanCount, f
<1>4. Cardinality(Addresses) \in Nat
  BY FS_CardinalityType
<1> QED
  BY <1>1, <1>2, <1>3, <1>4, PendingAssumption DEF BInv, PoolCount

\* The operations hold no more transactions than there are operations.
LEMMA OperationsHold ==
    ASSUME Types
    PROVE  IsFiniteSet(InQueueOpt) /\ Cardinality(InQueueOpt) <= WaitingCount(queueOpt)
<1> DEFINE I == {j \in DOMAIN queueOpt : queueOpt[j] # UpdateTip}
           first == IF Reset(queueOpt) THEN 2 ELSE 1
           f == [j \in I |-> queueOpt[j].txTime]
<1>1. queueOpt \in Seq(Operation) /\ Len(queueOpt) \in Nat /\ DOMAIN queueOpt = 1 .. Len(queueOpt)
  BY LenProperties DEF Types, Operations
<1>2. I \subseteq first .. Len(queueOpt)
  <2>1. Reset(queueOpt) => queueOpt[1] = UpdateTip
    BY <1>1 DEF Reset
  <2> QED
    BY <1>1, <2>1
<1>3. IsFiniteSet(first .. Len(queueOpt)) /\ Cardinality(first .. Len(queueOpt)) = WaitingCount(queueOpt)
  <2>1. first \in {1, 2} /\ (Reset(queueOpt) => first = 2 /\ Len(queueOpt) # 0) /\ (~Reset(queueOpt) => first = 1)
    BY <1>1, EmptySeq DEF Reset
  <2> HIDE DEF first
  <2>2. /\ IsFiniteSet(first .. Len(queueOpt))
        /\ Cardinality(first .. Len(queueOpt)) =
               IF first > Len(queueOpt) THEN 0 ELSE Len(queueOpt) - first + 1
    <3> DEFINE n == Len(queueOpt)
    <3> HIDE DEF n
    <3>1. first \in Int /\ n \in Int
      BY <1>1, <2>1 DEF n
    <3>2. IsFiniteSet(first .. n) /\ Cardinality(first .. n) = IF first > n THEN 0 ELSE n - first + 1
      BY <3>1, FS_Interval, Zenon
    <3> QED
      BY <3>2 DEF n
  <2> QED
    BY <1>1, <2>1, <2>2 DEF WaitingCount
<1>4. IsFiniteSet(I) /\ Cardinality(I) <= Cardinality(first .. Len(queueOpt))
  BY <1>2, <1>3, FS_Subset, Zenon
<1>5. InQueueOpt = {queueOpt[k].txTime : k \in I}
  BY DEF InQueueOpt
<1> HIDE DEF I, first
<1>6. f \in Surjection(I, InQueueOpt)
  BY <1>5 DEF Surjection
<1> HIDE DEF f
<1>7. IsFiniteSet(InQueueOpt) /\ Cardinality(InQueueOpt) <= Cardinality(I)
  BY <1>4, <1>6, FS_Surjection
<1>8. Cardinality(InQueueOpt) \in Nat /\ Cardinality(I) \in Nat /\ WaitingCount(queueOpt) \in Nat
  <2>1. Reset(queueOpt) => Len(queueOpt) # 0
    BY <1>1, EmptySeq DEF Reset
  <2> QED
    BY <1>1, <1>4, <1>7, <2>1, FS_CardinalityType DEF WaitingCount
<1> QED
  BY <1>3, <1>4, <1>7, <1>8

(* However transactions, changes of the tip and late answers interleave,    *)
(* the pool holds one transaction more than its limit at most: the one      *)
(* whose handler waits, which addTransaction does not count.                *)
THEOREM PoolStaysBounded ==
    ASSUME IsFiniteSet(Addresses)
    PROVE  Spec => []PoolBounded
<1>1. Init => BInv
  BY InitCount
<1>2. TInv /\ BInv /\ [Next]_vars => BInv'
  BY StepCount
<1>3. TInv /\ BInv => PoolBounded
  <2> SUFFICES ASSUME Types, BInv PROVE PoolBounded
    BY DEF TInv
  <2> DEFINE S == InQueueOpt
             x == adding.txTime
             n == Cardinality(S)
  <2>1. IsFiniteSet(S) /\ n <= WaitingCount(queueOpt) /\ n \in Nat
    BY OperationsHold, FS_CardinalityType
  <2>2. Cardinality(S \cup {x}) = IF x \in S THEN n ELSE n + 1
    BY <2>1, FS_AddElement
  <2>3. /\ BusyCount = 0 => S \cup InFlight = S
        /\ BusyCount = 1 => S \cup InFlight = S \cup {x}
    BY DEF BusyCount, InFlight
  <2>4. /\ Len(transactions) \in Nat /\ OrphanCount \in Int /\ WaitingCount(queueOpt) \in Nat
        /\ BusyCount \in {0, 1} /\ MaxPendingCount \in Nat
    BY CountTypes, PendingAssumption
  <2>5. PoolBounded <=> GetPendingCount + Cardinality(S \cup InFlight) <= MaxPendingCount + 1
    BY DEF PoolBounded
  <2>6. Cardinality(S \cup InFlight) \in {n, n + BusyCount}
    <3>1. Cardinality(S \cup {x}) \in {n, n + 1}
      BY <2>2
    <3> HIDE DEF S, x, n
    <3>2. BusyCount = 0 => Cardinality(S \cup InFlight) = n
      BY <2>3 DEF n
    <3>3. BusyCount = 1 => Cardinality(S \cup InFlight) = Cardinality(S \cup {x})
      BY <2>3
    <3> QED
      BY <2>4, <3>1, <3>2, <3>3
  <2> HIDE DEF S, n
  <2> QED
    BY <2>1, <2>4, <2>5, <2>6, PendingCountIs DEF BInv, PoolCount
<1> QED
  BY <1>1, <1>2, <1>3, TypesInvariant, PTL DEF Spec
=============================================================================
