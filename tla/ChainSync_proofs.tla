-------------------------- MODULE ChainSync_proofs --------------------------
(***************************************************************************)
(* The tip of a node that fetches a chain is verified and stored, for any  *)
(* number of peers and any tree of blocks.                                 *)
(***************************************************************************)
EXTENDS ChainSync, DataFacts

BG == Blocks \cup {Genesis}

-----------------------------------------------------------------------------
(* Paths: the recursion of Path has a solution, since every block descends  *)
(* from the genesis.                                                        *)

\* s leads from the genesis to b.
Way(s, b) ==
    /\ s \in Seq(Blocks)
    /\ b = Genesis => s = <<>>
    /\ b # Genesis => s # <<>> /\ s[Len(s)] = b /\ Parent[s[1]] = Genesis
    /\ \A i \in 1 .. Len(s) - 1 : Parent[s[i + 1]] = s[i]

Front1(s) == SubSeq(s, 1, Len(s) - 1)

LEMMA PartFacts ==
    ASSUME NEW S, NEW s \in Seq(S), NEW m \in 1 .. Len(s) + 1, NEW n \in 0 .. Len(s)
    PROVE  /\ SubSeq(s, m, n) \in Seq(S)
           /\ Len(SubSeq(s, m, n)) = IF m <= n THEN n - m + 1 ELSE 0
           /\ \A i \in 1 .. n - m + 1 : SubSeq(s, m, n)[i] = s[m + i - 1]
<1>1. \A i \in m .. n : s[i] \in S
  OBVIOUS
<1>2. m \in Int /\ n \in Int
  OBVIOUS
<1> QED
  BY <1>1, <1>2, SubSeqProperties

LEMMA PrefixFacts ==
    ASSUME NEW S, NEW s \in Seq(S), NEW n \in 0 .. Len(s)
    PROVE  /\ SubSeq(s, 1, n) \in Seq(S) /\ Len(SubSeq(s, 1, n)) = n
           /\ \A i \in 1 .. n : SubSeq(s, 1, n)[i] = s[i]
<1>1. Len(s) \in Nat /\ 1 \in 1 .. Len(s) + 1
  OBVIOUS
<1>2. /\ SubSeq(s, 1, n) \in Seq(S)
      /\ Len(SubSeq(s, 1, n)) = IF 1 <= n THEN n - 1 + 1 ELSE 0
      /\ \A i \in 1 .. n - 1 + 1 : SubSeq(s, 1, n)[i] = s[1 + i - 1]
  BY <1>1, PartFacts
<1>3. \A i \in 1 .. n : i \in 1 .. n - 1 + 1 /\ 1 + i - 1 = i
  OBVIOUS
<1> QED
  BY <1>1, <1>2, <1>3

LEMMA WayAppend ==
    ASSUME NEW b \in Blocks, NEW s, Way(s, Parent[b])
    PROVE  Way(Append(s, b), b)
<1> DEFINE t == Append(s, b)
<1>1. s \in Seq(Blocks) /\ Len(s) \in Nat
  BY DEF Way
<1>2. /\ t \in Seq(Blocks) /\ Len(t) = Len(s) + 1 /\ t[Len(s) + 1] = b
      /\ \A i \in 1 .. Len(s) : t[i] = s[i]
  BY <1>1
<1> HIDE DEF t
<1>3. b # Genesis /\ t # <<>>
  BY <1>1, <1>2, SyncAssumption
<1>4. Parent[t[1]] = Genesis
  <2>1. CASE s = <<>>
    <3>1. Parent[b] = Genesis
      BY <2>1, SyncAssumption DEF Way
    <3> QED
      BY <1>2, <2>1, <3>1
  <2>2. CASE s # <<>>
    <3>1. Len(s) >= 1
      BY <1>1, <2>2
    <3>2. t[1] = s[1]
      BY <1>1, <1>2, <3>1
    <3>3. Parent[b] # Genesis
      BY <2>2 DEF Way
    <3> QED
      BY <3>2, <3>3 DEF Way
  <2> QED
    BY <2>1, <2>2
<1>5. ASSUME NEW i \in 1 .. Len(t) - 1 PROVE Parent[t[i + 1]] = t[i]
  <2>1. CASE i = Len(s)
    <3>1. s # <<>> /\ Parent[b] # Genesis
      BY <1>1, <1>2, <2>1 DEF Way
    <3>2. s[Len(s)] = Parent[b]
      BY <3>1 DEF Way
    <3> QED
      BY <1>1, <1>2, <2>1, <3>2
  <2>2. CASE i # Len(s)
    <3>1. i \in 1 .. Len(s) - 1 /\ i + 1 \in 1 .. Len(s) /\ i \in 1 .. Len(s)
      BY <1>1, <1>2, <2>2
    <3> QED
      BY <1>2, <3>1 DEF Way
  <2> QED
    BY <2>1, <2>2
<1> QED
  BY <1>1, <1>2, <1>3, <1>4, <1>5 DEF Way, t

LEMMA WayFront ==
    ASSUME NEW b \in Blocks, NEW s, Way(s, b)
    PROVE  Way(Front1(s), Parent[b]) /\ s = Append(Front1(s), b)
<1> DEFINE t == Front1(s)
<1>1. s \in Seq(Blocks) /\ Len(s) \in Nat /\ s # <<>> /\ b # Genesis
  BY SyncAssumption DEF Way
<1>2. Len(s) >= 1
  BY <1>1
<1>3. /\ t \in Seq(Blocks) /\ Len(t) = Len(s) - 1
      /\ \A i \in 1 .. Len(s) - 1 : t[i] = s[i]
  <2>1. Len(s) - 1 \in 0 .. Len(s)
    BY <1>1, <1>2
  <2> QED
    BY <1>1, <2>1, PrefixFacts DEF Front1
<1> HIDE DEF t
<1>4. s = Append(t, b)
  <2>1. s[Len(s)] = b
    BY <1>1 DEF Way
  <2>2. Append(t, b) \in Seq(Blocks) /\ Len(Append(t, b)) = Len(s)
    BY <1>1, <1>2, <1>3
  <2>3. \A i \in 1 .. Len(s) : Append(t, b)[i] = s[i]
    BY <1>1, <1>2, <1>3, <2>1
  <2> QED
    BY <1>1, <2>2, <2>3, SeqEqual
<1>5. CASE Len(s) = 1
  <2>1. t = <<>> /\ Parent[b] = Genesis
    BY <1>1, <1>3, <1>5 DEF Way
  <2> QED
    BY <1>3, <1>4, <2>1 DEF Way, t
<1>6. CASE Len(s) # 1
  <2>1. Len(s) - 1 \in 1 .. Len(s) - 1 /\ Len(t) >= 1
    BY <1>1, <1>2, <1>3, <1>6
  <2>2. Parent[b] = s[Len(s) - 1]
    <3>1. Parent[s[(Len(s) - 1) + 1]] = s[Len(s) - 1]
      BY <2>1 DEF Way
    <3> QED
      BY <1>1, <3>1 DEF Way
  <2>3. s[Len(s) - 1] \in Blocks
    BY <1>1, <2>1
  <2>4. Parent[b] # Genesis /\ t[Len(t)] = Parent[b] /\ t # <<>>
    <3>1. Parent[b] # Genesis
      BY <2>2, <2>3, SyncAssumption
    <3>2. t[Len(t)] = s[Len(s) - 1]
      BY <1>3, <2>1
    <3> QED
      BY <2>1, <2>2, <3>1, <3>2
  <2>5. Parent[t[1]] = Genesis
    BY <1>1, <1>3, <2>1 DEF Way
  <2>6. \A i \in 1 .. Len(t) - 1 : Parent[t[i + 1]] = t[i]
    <3> SUFFICES ASSUME NEW i \in 1 .. Len(t) - 1 PROVE Parent[t[i + 1]] = t[i]
      OBVIOUS
    <3>1. i \in 1 .. Len(s) - 1 /\ i + 1 \in 1 .. Len(s) - 1
      BY <1>1, <1>3
    <3> QED
      BY <1>3, <3>1 DEF Way
  <2> QED
    BY <1>3, <1>4, <2>4, <2>5, <2>6 DEF Way, t
<1> QED
  BY <1>5, <1>6

LEMMA WayExists == \A b \in BG : \E s : Way(s, b)
<1> DEFINE S == {b \in Blocks : ~\E s : Way(s, b)}
<1>1. Way(<<>>, Genesis)
  BY DEF Way
<1>2. SUFFICES ASSUME S # {} PROVE FALSE
  BY <1>1 DEF BG
<1>3. PICK b \in S : Parent[b] \notin S
  BY <1>2, SyncAssumption
<1>4. Parent[b] \in BG
  BY <1>3, SyncAssumption DEF BG
<1>5. PICK s : Way(s, Parent[b])
  BY <1>1, <1>3, <1>4 DEF BG
<1> QED
  BY <1>3, <1>5, WayAppend

LEMMA WayUnique ==
    \A b \in BG : \A s, t : Way(s, b) /\ Way(t, b) => s = t
<1> DEFINE S == {b \in Blocks : \E s, t : Way(s, b) /\ Way(t, b) /\ s # t}
<1>1. SUFFICES ASSUME S # {} PROVE FALSE
  <2>1. \A s, t : Way(s, Genesis) /\ Way(t, Genesis) => s = t
    BY DEF Way
  <2> QED
    BY <2>1 DEF BG
<1>2. PICK b \in S : Parent[b] \notin S
  BY <1>1, SyncAssumption
<1>3. PICK s, t : Way(s, b) /\ Way(t, b) /\ s # t
  BY <1>2
<1>4. Parent[b] \in BG
  BY <1>2, SyncAssumption DEF BG
<1>5. Way(Front1(s), Parent[b]) /\ Way(Front1(t), Parent[b])
  BY <1>2, <1>3, WayFront
<1>6. Front1(s) = Front1(t)
  <2>1. CASE Parent[b] = Genesis
    BY <1>5, <2>1 DEF Way
  <2>2. CASE Parent[b] # Genesis
    <3>1. Parent[b] \in Blocks
      BY <1>4, <2>2 DEF BG
    <3>2. ~\E u, v : Way(u, Parent[b]) /\ Way(v, Parent[b]) /\ u # v
      BY <1>2, <3>1
    <3> QED
      BY <1>5, <3>2
  <2> QED
    BY <2>1, <2>2
<1> QED
  BY <1>2, <1>3, <1>6, WayFront

LEMMA PathIs ==
    Path = [b \in BG |-> IF b = Genesis THEN <<>> ELSE Append(Path[Parent[b]], b)]
<1> DEFINE f == [b \in BG |-> CHOOSE s : Way(s, b)]
<1>1. \A b \in BG : Way(f[b], b)
  BY WayExists
<1>2. ASSUME NEW b \in BG
      PROVE  f[b] = IF b = Genesis THEN <<>> ELSE Append(f[Parent[b]], b)
  <2>1. CASE b = Genesis
    BY <1>1, <2>1 DEF Way
  <2>2. CASE b # Genesis
    <3>1. b \in Blocks /\ Parent[b] \in BG
      BY <2>2, SyncAssumption DEF BG
    <3>2. Way(Append(f[Parent[b]], b), b)
      BY <1>1, <3>1, WayAppend
    <3> HIDE DEF f
    <3> QED
      BY <1>1, <2>2, <3>2, WayUnique
  <2> QED
    BY <2>1, <2>2
<1>3. f = [b \in BG |-> IF b = Genesis THEN <<>> ELSE Append(f[Parent[b]], b)]
  <2> DEFINE g == [b \in BG |-> IF b = Genesis THEN <<>> ELSE Append(f[Parent[b]], b)]
  <2>1. \A b \in BG : f[b] = g[b]
    BY <1>2
  <2>2. f = [b \in BG |-> f[b]] /\ g = [b \in BG |-> g[b]]
    OBVIOUS
  <2> HIDE DEF f, g
  <2> QED
    BY <2>1, <2>2 DEF g
<1> HIDE DEF f
<1>4. \E g : g = [b \in BG |-> IF b = Genesis THEN <<>> ELSE Append(g[Parent[b]], b)]
  BY <1>3
<1> QED
  BY <1>4, Zenon DEF Path, BG

LEMMA PathWay == \A b \in BG : Way(Path[b], b)
<1> DEFINE S == {b \in Blocks : ~Way(Path[b], b)}
<1>1. Way(Path[Genesis], Genesis)
  BY PathIs DEF Way, BG
<1>2. SUFFICES ASSUME S # {} PROVE FALSE
  BY <1>1 DEF BG
<1>3. PICK b \in S : Parent[b] \notin S
  BY <1>2, SyncAssumption
<1>4. Parent[b] \in BG /\ b # Genesis /\ b \in BG
  BY <1>3, SyncAssumption DEF BG
<1>5. Way(Path[Parent[b]], Parent[b])
  BY <1>1, <1>3, <1>4 DEF BG
<1>6. Path[b] = Append(Path[Parent[b]], b)
  BY <1>4, PathIs
<1> QED
  BY <1>3, <1>5, <1>6, WayAppend

\* Headers that follow one another.
Segments == {hs \in Seq(Blocks) : \A i \in 1 .. Len(hs) - 1 : Parent[hs[i + 1]] = hs[i]}

LEMMA PathFacts ==
    ASSUME NEW b \in BG
    PROVE  /\ Path[b] \in Seq(Blocks) /\ Number(b) = Len(Path[b]) /\ Number(b) \in Nat
           /\ Number(b) > 0 <=> b # Genesis
           /\ b # Genesis => Parent[b] \in BG /\ Path[b] = Append(Path[Parent[b]], b)
           /\ \A i \in 1 .. Len(Path[b]) - 1 : Parent[Path[b][i + 1]] = Path[b][i]
<1>1. Way(Path[b], b)
  BY PathWay
<1>2. Path[b] \in Seq(Blocks)
  BY <1>1 DEF Way
<1>3. Len(Path[b]) \in Nat /\ (Len(Path[b]) > 0 <=> Path[b] # <<>>)
  BY <1>2
<1>4. b # Genesis => Parent[b] \in BG /\ Path[b] = Append(Path[Parent[b]], b)
  BY PathIs, SyncAssumption DEF BG
<1> QED
  BY <1>1, <1>2, <1>3, <1>4 DEF Way, Number

LEMMA SegmentOfPath ==
    ASSUME NEW b \in BG, NEW n \in 0 .. Number(b), NEW count \in Nat \ {0}
    PROVE  HeadersTo(b, n, count) \in Segments /\ (n > 0 => HeadersTo(b, n, count) # <<>>)
<1> DEFINE s == Path[b]
           m == IF n < count THEN 1 ELSE n - count + 1
           t == SubSeq(s, m, n)
<1>1. s \in Seq(Blocks) /\ Len(s) = Number(b) /\ Number(b) \in Nat
  BY PathFacts
<1>2. m \in 1 .. Len(s) + 1 /\ (n > 0 => m <= n) /\ n \in 0 .. Len(s) /\ m \in Nat
  BY <1>1
<1>3. \A i \in 1 .. Len(s) - 1 : Parent[s[i + 1]] = s[i]
  BY PathFacts
<1> HIDE DEF s, m
<1>4. /\ t \in Seq(Blocks) /\ Len(t) = IF m <= n THEN n - m + 1 ELSE 0
      /\ \A i \in 1 .. n - m + 1 : t[i] = s[m + i - 1]
  BY <1>1, <1>2, PartFacts
<1>5. n > 0 => t # <<>>
  BY <1>2, <1>4
<1> HIDE DEF t
<1>6. ASSUME NEW i \in 1 .. Len(t) - 1 PROVE Parent[t[i + 1]] = t[i]
  <2>1. /\ i \in 1 .. n - m + 1 /\ i + 1 \in 1 .. n - m + 1
        /\ m + i - 1 \in 1 .. Len(s) - 1 /\ m + (i + 1) - 1 = (m + i - 1) + 1
    BY <1>1, <1>2, <1>4
  <2>2. t[i] = s[m + i - 1] /\ t[i + 1] = s[(m + i - 1) + 1]
    BY <1>4, <2>1, SMTT(25)
  <2>3. Parent[s[(m + i - 1) + 1]] = s[m + i - 1]
    BY <1>3, <2>1
  <2> QED
    BY <2>2, <2>3
<1>7. HeadersTo(b, n, count) = t
  BY DEF HeadersTo, t, s, m
<1> QED
  BY <1>4, <1>5, <1>6, <1>7 DEF Segments

LEMMA AncestorType ==
    ASSUME NEW b \in BG, NEW n \in Int, n <= Number(b)
    PROVE  Ancestor(b, n) \in BG
<1>1. Path[b] \in Seq(Blocks) /\ Number(b) = Len(Path[b])
  BY PathFacts
<1>2. n > 0 => Path[b][n] \in Blocks
  BY <1>1
<1> QED
  BY <1>2 DEF Ancestor, BG

-----------------------------------------------------------------------------
(* Types.                                                                   *)

Opt == BG \cup {None}
Errors == {"OK", "NOT_FOUND", "SKIPPED"}

\* An answer without an error has headers, and whoever announces has no error.
Sound(m) == (m.error = "OK" => m.headers # <<>>) /\ (m.request = None => m.error = "OK")

HeaderPackage ==
    {m \in [type : {"header"}, headers : Segments, request : Opt, error : Errors] : Sound(m)}
BlockPackage == [type : {"block"}, block : Blocks]
Package == HeaderPackage \cup BlockPackage
Question == [type : {"getHeader"}, from : BG] \cup [type : {"getBlock"}, hash : Blocks]

HeaderEntry ==
    {e \in [from : Peers, headers : Segments, request : Opt, error : Errors] : Sound(e)}
BlockEntry == [block : Blocks, from : Peers \cup {None}]
Branch == {"syncing", "synced"}
StepType ==
    [branch : Branch, err : {"OK", "NOT_FOUND", "INVALID_BLOCK"}, toRequest : Seq(Blocks)]
SyncType ==
    {r \in [state : Branch, lastReq : Opt, lastRecv : Opt, more : BOOLEAN, live : BOOLEAN] :
        r.more => r.lastRecv \in BG}
ConnType == [hashes : SUBSET Blocks, wnd : Nat, live : BOOLEAN]

PeerOpts == [Peers -> Opt]
ConnMaps == [Peers -> ConnType \cup {None}]
HashMaps == [Blocks -> Peers \cup {None}]
SourceMaps == [Blocks -> SUBSET Peers]
SyncMaps == [Peers -> SyncType \cup {None}]
States == [BG -> {"absent", "notVerified", "verified", "invalid"}]
ConnStates == [Peers -> {"none", "in", "out"}]
Questions == [Peers -> Seq(Question)]
Packages == [Peers -> Seq(Package)]
SomeBlocks == SUBSET Blocks
BlockQueues == Seq(Blocks)
HeaderEntries == Seq(HeaderEntry)
BlockEntries == Seq(BlockEntry)
StepOpt == StepType \cup {None}
EntryOpt == BlockEntry \cup {None}
Banned == SUBSET Peers

NodeType ==
    [requestingHeaders : PeerOpts, connMap : ConnMaps, hashMap : HashMaps,
     pending : BlockQueues, sources : SourceMaps, stored : SomeBlocks, ready : BlockQueues]
ChainType ==
    [state : Branch, connSync : SyncMaps, headers : HeaderEntries, step : StepOpt,
     blocks : BlockEntries, adding : EntryOpt, verified : States, tip : BG, announced : Opt]
WireType == [conn : ConnStates, banned : Banned, to : Questions, back : Packages]
World == [node : NodeType, chain : ChainType, wire : WireType]

\* Who was asked for a block has a record.
Held(m, c) == \A h \in Blocks : m[h] # None => c[m[h]] \in ConnType

\* Blocks that wait to be added are stored.
Tidy(w) ==
    /\ \A i \in DOMAIN w.chain.blocks : w.chain.blocks[i].block \in w.node.stored
    /\ \A i \in DOMAIN w.node.ready : w.node.ready[i] \in w.node.stored
    /\ Held(w.node.hashMap, w.node.connMap)

\* What no helper touches: the tree, the stored blocks, the work under way.
Same(w, v) ==
    /\ v.chain.verified = w.chain.verified /\ v.chain.tip = w.chain.tip
    /\ v.chain.adding = w.chain.adding /\ v.chain.step = w.chain.step
    /\ v.node.stored = w.node.stored
    /\ w.chain.headers # <<>> =>
           v.chain.headers # <<>> /\ v.chain.headers[1] = w.chain.headers[1]

Keeps(w, v) == v \in World /\ Tidy(v) /\ Same(w, v)

Fine(w) == w \in World /\ Tidy(w)

LEMMA KeepsSelf == ASSUME NEW w, Fine(w) PROVE Keeps(w, w)
  BY DEF Fine, Keeps, Same

LEMMA KeepsTwice ==
    ASSUME NEW w, NEW v, NEW u, Keeps(w, v), Keeps(v, u)
    PROVE  Keeps(w, u)
  BY DEF Keeps, Same

LEMMA KeepsFine == ASSUME NEW w, NEW v, Keeps(w, v) PROVE Fine(v)
  BY DEF Keeps, Fine

-----------------------------------------------------------------------------
(* Folds: one instance of the lemma for every step.                         *)

LEMMA ThoseType ==
    ASSUME NEW S, NEW s \in Seq(S), NEW T
    PROVE  /\ Those(s, T) \in Seq(S)
           /\ \A i \in DOMAIN Those(s, T) :
                  Those(s, T)[i] \in T /\ \E j \in DOMAIN s : Those(s, T)[i] = s[j]
  BY ThoseFacts DEF Chosen

-----------------------------------------------------------------------------
(* The helpers of ChainNode.                                                *)

LEMMA SendKeeps ==
    ASSUME NEW w, Fine(w), NEW p \in Peers, NEW live \in BOOLEAN, NEW pkg \in Question
    PROVE  Keeps(w, Send(w, p, live, pkg))
<1> DEFINE v == [w EXCEPT !.wire.to[p] = Append(@, pkg)]
<1>1. w \in World /\ w.wire \in WireType /\ w.wire.to \in Questions
  BY DEF Fine, World, WireType
<1>2. [w.wire.to EXCEPT ![p] = Append(@, pkg)] \in Questions
  BY <1>1, AppendProperties DEF Questions
<1>3. v.wire \in WireType
  BY <1>1, <1>2 DEF WireType, World
<1>4. v \in World /\ v.node = w.node /\ v.chain = w.chain
  BY <1>1, <1>3 DEF World
<1> HIDE DEF v
<1>5. Keeps(w, v)
  BY <1>1, <1>4 DEF Keeps, Fine, Same, Tidy
<1> QED
  BY <1>5, KeepsSelf DEF Send, v

LEMMA RequestHeadersKeeps ==
    ASSUME NEW w, Fine(w), NEW p \in Peers, NEW live \in BOOLEAN, NEW from \in BG
    PROVE  Keeps(w, RequestHeaders(w, p, live, from))
<1> DEFINE v == [w EXCEPT !.node.requestingHeaders[p] = from]
           pkg == [type |-> "getHeader", from |-> from]
<1>1. w \in World /\ w.node \in NodeType /\ w.node.requestingHeaders \in PeerOpts
  BY DEF Fine, World, NodeType
<1>2. [w.node.requestingHeaders EXCEPT ![p] = from] \in PeerOpts
  BY <1>1 DEF PeerOpts, Opt
<1>3. v.node \in NodeType
  BY <1>1, <1>2 DEF NodeType, World
<1>4. /\ v \in World /\ v.chain = w.chain /\ v.node.stored = w.node.stored /\ v.node.ready = w.node.ready
      /\ v.node.hashMap = w.node.hashMap /\ v.node.connMap = w.node.connMap
  BY <1>1, <1>3 DEF World, NodeType
<1> HIDE DEF v
<1>5. Keeps(w, v)
  BY <1>1, <1>4 DEF Keeps, Fine, Same, Tidy
<1>6. pkg \in Question
  BY DEF Question
<1> HIDE DEF pkg
<1>7. Keeps(w, Send(v, p, live, pkg))
  BY <1>5, <1>6, SendKeeps, KeepsTwice, KeepsFine
<1> QED
  BY <1>7, KeepsSelf DEF RequestHeaders, v, pkg

LEMMA WindowType ==
    ASSUME NEW w, w \in World, NEW p \in Peers, w.node.connMap[p] \in ConnType
    PROVE  Window(w, p) \in Int
<1>1. w.node.connMap[p].wnd \in Nat /\ w.node.connMap[p].hashes \in SUBSET Blocks
  BY DEF ConnType
<1>2. IsFiniteSet(w.node.connMap[p].hashes)
  BY <1>1, FS_Subset, SyncAssumption
<1>3. Cardinality(w.node.connMap[p].hashes) \in Nat
  BY <1>2, FS_CardinalityType
<1> QED
  BY <1>1, <1>3 DEF Window

\* Changes of the tables of ChainNode, and of nothing else.
NodeChanged(w, v, n) ==
    v.node = n /\ v.chain = w.chain /\ v.wire = w.wire /\ v \in World

LEMMA NodeKeeps ==
    ASSUME NEW w, Fine(w), NEW v, NEW n, NodeChanged(w, v, n),
           n.stored = w.node.stored, n.ready = w.node.ready, Held(n.hashMap, n.connMap)
    PROVE  Keeps(w, v)
  BY DEF Fine, NodeChanged, Keeps, Same, Tidy

\* The window of p is known: p has a record.
Open(w, p) == w.node.connMap[p] \in ConnType

LEMMA RequestBlockKeeps ==
    ASSUME NEW w, Fine(w), NEW h \in Blocks, NEW p \in Peers, Open(w, p)
    PROVE  LET v == RequestBlockFromConnection(w, h, p) IN Keeps(w, v) /\ Open(v, p)
<1> DEFINE c == [w.node.connMap EXCEPT ![p].hashes = @ \cup {h}]
           m == [w.node.hashMap EXCEPT ![h] = p]
           q == Those(w.node.pending, Blocks \ {h})
           v == [w EXCEPT !.node.connMap[p].hashes = @ \cup {h},
                          !.node.hashMap[h] = p,
                          !.node.pending = Those(@, Blocks \ {h})]
           pkg == [type |-> "getBlock", hash |-> h]
<1>1. w \in World /\ w.node \in NodeType
  BY DEF Fine, World
<1>2. c \in ConnMaps /\ c[p] \in ConnType /\ c[p].live = w.node.connMap[p].live
  <2>1. w.node.connMap \in ConnMaps
    BY <1>1 DEF NodeType
  <2>2. [w.node.connMap[p] EXCEPT !.hashes = @ \cup {h}] \in ConnType
    BY DEF ConnType, Open
  <2>3. c[p] = [w.node.connMap[p] EXCEPT !.hashes = @ \cup {h}]
    BY <2>1 DEF ConnMaps
  <2>4. c[p].live = w.node.connMap[p].live
    BY <2>3 DEF ConnType, Open
  <2> QED
    BY <2>1, <2>2, <2>3, <2>4 DEF ConnMaps
<1>3. m \in HashMaps
  BY <1>1 DEF NodeType, HashMaps
<1>4. q \in BlockQueues
  BY <1>1, ThoseType DEF NodeType, BlockQueues
<1> HIDE DEF q
<1>13. Held(m, c)
  BY <1>1, <1>2 DEF Held, Fine, Tidy, NodeType, HashMaps, ConnMaps
<1>5. v.node = [w.node EXCEPT !.connMap = c, !.hashMap = m, !.pending = q]
      /\ v.chain = w.chain /\ v.wire = w.wire /\ v = [w EXCEPT !.node = v.node]
  BY <1>1 DEF World, NodeType, q
<1> HIDE DEF c, m, v
<1>6. /\ v.node \in NodeType /\ v.node.connMap = c /\ v.node.hashMap = m
      /\ v.node.stored = w.node.stored /\ v.node.ready = w.node.ready
  BY <1>1, <1>2, <1>3, <1>4, <1>5 DEF NodeType
<1>7. v \in World
  BY <1>1, <1>5, <1>6 DEF World
<1>8. Keeps(w, v) /\ Open(v, p)
  BY <1>2, <1>5, <1>6, <1>7, <1>13, NodeKeeps DEF NodeChanged, Open
<1>9. pkg \in Question /\ w.node.connMap[p].live \in BOOLEAN
  BY DEF Question, Open, ConnType
<1> HIDE DEF pkg
<1>10. Keeps(v, Send(v, p, w.node.connMap[p].live, pkg))
  BY <1>8, <1>9, SendKeeps, KeepsFine
<1>11. Send(v, p, w.node.connMap[p].live, pkg).node = v.node
  BY <1>7 DEF Send, World
<1>12. RequestBlockFromConnection(w, h, p) = Send(v, p, w.node.connMap[p].live, pkg)
  BY DEF RequestBlockFromConnection, v, pkg
<1> QED
  BY <1>8, <1>10, <1>11, <1>12, KeepsTwice DEF Open

LEMMA AddToPendingKeeps ==
    ASSUME NEW w, Fine(w), NEW h \in Blocks, NEW head \in BOOLEAN
    PROVE  LET v == AddToPending(w, h, head)
           IN  Keeps(w, v) /\ v.node.connMap = w.node.connMap
<1> DEFINE q == IF head THEN <<h>> \o w.node.pending ELSE Append(w.node.pending, h)
           v == [w EXCEPT !.node.pending = q]
<1>1. w \in World /\ w.node \in NodeType /\ w.node.pending \in Seq(Blocks)
  BY DEF Fine, World, NodeType, BlockQueues
<1>2. q \in BlockQueues
  BY <1>1 DEF BlockQueues
<1> HIDE DEF q
<1>3. v.node = [w.node EXCEPT !.pending = q] /\ v.chain = w.chain /\ v.wire = w.wire
      /\ v = [w EXCEPT !.node = v.node]
  BY <1>1 DEF World
<1> HIDE DEF v
<1>4. /\ v.node \in NodeType /\ v.node.connMap = w.node.connMap /\ v.node.hashMap = w.node.hashMap
      /\ v.node.stored = w.node.stored /\ v.node.ready = w.node.ready
  BY <1>1, <1>2, <1>3 DEF NodeType
<1>5. v \in World
  BY <1>1, <1>3, <1>4 DEF World
<1>6. Keeps(w, v)
  BY <1>3, <1>4, <1>5, NodeKeeps DEF NodeChanged, Fine, Tidy
<1>7. AddToPending(w, h, head) = IF h \in Range(w.node.pending) THEN w ELSE v
  BY DEF AddToPending, v, q
<1> QED
  BY <1>4, <1>6, <1>7, KeepsSelf

LEMMA RequestOrPendKeeps ==
    ASSUME NEW w, Fine(w), NEW h \in Blocks, NEW p \in Peers, Open(w, p)
    PROVE  LET v == RequestOrPend(w, h, p) IN Keeps(w, v) /\ Open(v, p)
<1>1. Open(AddToPending(w, h, FALSE), p)
  BY AddToPendingKeeps DEF Open
<1> QED
  BY <1>1, RequestBlockKeeps, AddToPendingKeeps DEF RequestOrPend

\* What a fold that asks p keeps.
Asking(v, k, s, p, w) == s \in Seq(Blocks) /\ p \in Peers /\ Keeps(w, v) /\ Open(v, p)

Asked == INSTANCE FoldKeeps WITH Op <- RequestOrPend, Good <- Asking
Freed == INSTANCE FoldKeeps WITH Op <- RequestBlockFromConnection, Good <- Asking

LEMMA AskedKeeps ==
    ASSUME NEW w, Fine(w), NEW p \in Peers, Open(w, p), NEW s \in Seq(Blocks)
    PROVE  LET v == FoldLeft(LAMBDA u, h : RequestOrPend(u, h, p), w, s)
           IN  Keeps(w, v) /\ Open(v, p)
<1>1. FoldLeft(LAMBDA u, h : RequestOrPend(u, h, p), w, s) = Asked!Folded(w, s, p)
  BY DEF FoldLeft, MapThenFoldSet, Max, Asked!Folded, Asked!Iterates, Asked!Last
<1>2. Asking(w, 0, s, p, w)
  BY KeepsSelf DEF Asking
<1>3. ASSUME NEW k \in Nat, NEW v, k < Len(s), Asking(v, k, s, p, w)
      PROVE  Asking(RequestOrPend(v, s[k + 1], p), k + 1, s, p, w)
  <2>1. s[k + 1] \in Blocks
    BY <1>3
  <2> QED
    BY <1>3, <2>1, RequestOrPendKeeps, KeepsTwice, KeepsFine DEF Asking
<1>4. Len(s) \in Nat /\ DOMAIN s = 1 .. Len(s)
  OBVIOUS
<1>5. Asking(Asked!Folded(w, s, p), Len(s), s, p, w)
  BY <1>2, <1>3, <1>4, Asked!FoldKept
<1> QED
  BY <1>1, <1>5 DEF Asking

LEMMA FreedKeeps ==
    ASSUME NEW w, Fine(w), NEW p \in Peers, Open(w, p), NEW s \in Seq(Blocks)
    PROVE  LET v == FoldLeft(LAMBDA u, h : RequestBlockFromConnection(u, h, p), w, s)
           IN  Keeps(w, v) /\ Open(v, p)
<1>1. FoldLeft(LAMBDA u, h : RequestBlockFromConnection(u, h, p), w, s) = Freed!Folded(w, s, p)
  BY DEF FoldLeft, MapThenFoldSet, Max, Freed!Folded, Freed!Iterates, Freed!Last
<1>2. Asking(w, 0, s, p, w)
  BY KeepsSelf DEF Asking
<1>3. ASSUME NEW k \in Nat, NEW v, k < Len(s), Asking(v, k, s, p, w)
      PROVE  Asking(RequestBlockFromConnection(v, s[k + 1], p), k + 1, s, p, w)
  <2>1. s[k + 1] \in Blocks
    BY <1>3
  <2> QED
    BY <1>3, <2>1, RequestBlockKeeps, KeepsTwice, KeepsFine DEF Asking
<1>4. Len(s) \in Nat /\ DOMAIN s = 1 .. Len(s)
  OBVIOUS
<1>5. Asking(Freed!Folded(w, s, p), Len(s), s, p, w)
  BY <1>2, <1>3, <1>4, Freed!FoldKept
<1> QED
  BY <1>1, <1>5 DEF Asking

LEMMA FreeWindowKeeps ==
    ASSUME NEW w, Fine(w), NEW p \in Peers, Open(w, p)
    PROVE  LET v == OnFreeBlockWnd(w, p) IN Keeps(w, v) /\ Open(v, p)
<1> DEFINE mine == Those(w.node.pending, {h \in Blocks : p \in w.node.sources[h]})
           count == IF Window(w, p) > 1 THEN Window(w, p) ELSE 1
           n == IF Len(mine) < count THEN Len(mine) ELSE count
<1>1. w \in World /\ w.node.pending \in Seq(Blocks)
  BY DEF Fine, World, NodeType, BlockQueues
<1>2. mine \in Seq(Blocks)
  BY <1>1, ThoseType
<1>3. count \in Nat
  BY <1>1, WindowType DEF Open
<1> HIDE DEF mine, count
<1>4. Len(mine) \in Nat /\ n \in 0 .. Len(mine)
  BY <1>2, <1>3
<1> HIDE DEF n
<1>5. SubSeq(mine, 1, n) \in Seq(Blocks)
  BY <1>2, <1>4, PrefixFacts
<1>6. OnFreeBlockWnd(w, p) = FoldLeft(LAMBDA v, h : RequestBlockFromConnection(v, h, p), w, SubSeq(mine, 1, n))
  BY DEF OnFreeBlockWnd, mine, count, n
<1> QED
  BY <1>5, <1>6, FreedKeeps

\* The record of p that requestBlocks makes, and p as a source of what misses.
Opened(w, p) ==
    IF w.node.connMap[p] # None THEN w
    ELSE [w EXCEPT !.node.connMap[p] = [hashes |-> {}, wnd |-> InitBlockWnd, live |-> TRUE]]

Sourced(w, p, stored, missing) ==
    [w EXCEPT !.node.ready = @ \o stored,
              !.node.sources = [h \in Blocks |-> IF h \in Range(missing) THEN @[h] \cup {p} ELSE @[h]]]

LEMMA OpenedKeeps ==
    ASSUME NEW w, Fine(w), NEW p \in Peers
    PROVE  LET v == Opened(w, p) IN Keeps(w, v) /\ Open(v, p)
<1> DEFINE c == [w.node.connMap EXCEPT ![p] = [hashes |-> {}, wnd |-> InitBlockWnd, live |-> TRUE]]
           v == [w EXCEPT !.node.connMap[p] = [hashes |-> {}, wnd |-> InitBlockWnd, live |-> TRUE]]
<1>1. w \in World /\ w.node \in NodeType /\ w.node.connMap \in ConnMaps
  BY DEF Fine, World, NodeType
<1>2. CASE w.node.connMap[p] # None
  BY <1>1, <1>2, KeepsSelf DEF ConnMaps, Opened, Open
<1>3. CASE w.node.connMap[p] = None
  <2>1. c \in ConnMaps /\ c[p] \in ConnType
    BY <1>1, SyncAssumption DEF ConnMaps, ConnType
  <2>2. /\ v.node = [w.node EXCEPT !.connMap = c] /\ v.chain = w.chain /\ v.wire = w.wire
        /\ v = [w EXCEPT !.node = v.node]
    BY <1>1 DEF World, NodeType
  <2> HIDE DEF c, v
  <2>3. /\ v.node \in NodeType /\ v.node.connMap = c /\ v.node.hashMap = w.node.hashMap
        /\ v.node.stored = w.node.stored /\ v.node.ready = w.node.ready
    BY <1>1, <2>1, <2>2 DEF NodeType
  <2>4. v \in World
    BY <1>1, <2>2, <2>3 DEF World
  <2>7. Held(w.node.hashMap, c)
    BY <1>1, <1>3, <2>1 DEF Held, Fine, Tidy, ConnMaps, NodeType, HashMaps, c
  <2>5. Keeps(w, v)
    BY <2>2, <2>3, <2>4, <2>7, NodeKeeps DEF NodeChanged
  <2>6. Opened(w, p) = v
    BY <1>3 DEF Opened, v
  <2> QED
    BY <2>1, <2>3, <2>5, <2>6 DEF Open
<1> QED
  BY <1>2, <1>3

LEMMA SourcedKeeps ==
    ASSUME NEW w, Fine(w), NEW p \in Peers, Open(w, p),
           NEW stored \in Seq(Blocks), NEW missing,
           \A i \in DOMAIN stored : stored[i] \in w.node.stored
    PROVE  LET v == Sourced(w, p, stored, missing) IN Keeps(w, v) /\ Open(v, p)
<1> DEFINE r == w.node.ready \o stored
           m == [h \in Blocks |-> IF h \in Range(missing) THEN w.node.sources[h] \cup {p}
                                  ELSE w.node.sources[h]]
           v == Sourced(w, p, stored, missing)
<1>1. w \in World /\ w.node \in NodeType /\ w.node.ready \in Seq(Blocks) /\ w.node.sources \in SourceMaps
  BY DEF Fine, World, NodeType, BlockQueues
<1>2. m \in SourceMaps
  BY <1>1 DEF SourceMaps
<1>3. r \in BlockQueues /\ \A i \in DOMAIN r : r[i] \in w.node.stored
  <2>1. r \in Seq(Blocks) /\ Len(r) = Len(w.node.ready) + Len(stored)
        /\ \A i \in 1 .. Len(r) : r[i] = IF i <= Len(w.node.ready) THEN w.node.ready[i]
                                         ELSE stored[i - Len(w.node.ready)]
    BY <1>1, ConcatProperties
  <2>2. \A i \in DOMAIN w.node.ready : w.node.ready[i] \in w.node.stored
    BY DEF Fine, Tidy
  <2> HIDE DEF r
  <2>3. ASSUME NEW i \in 1 .. Len(r) PROVE r[i] \in w.node.stored
    <3>1. CASE i <= Len(w.node.ready)
      BY <1>1, <2>1, <2>2, <2>3, <3>1
    <3>2. CASE i > Len(w.node.ready)
      <4>1. i - Len(w.node.ready) \in DOMAIN stored
        BY <1>1, <2>1, <2>3, <3>2
      <4> QED
        BY <1>1, <2>1, <2>3, <3>2, <4>1
    <3> QED
      BY <1>1, <2>1, <2>3, <3>1, <3>2
  <2> QED
    BY <2>1, <2>3 DEF BlockQueues
<1> HIDE DEF r, m
<1>4. /\ v.node = [w.node EXCEPT !.ready = r, !.sources = m] /\ v.chain = w.chain /\ v.wire = w.wire
      /\ v = [w EXCEPT !.node = v.node]
  BY <1>1 DEF World, NodeType, Sourced, r, m
<1> HIDE DEF v
<1>5. /\ v.node \in NodeType /\ v.node.connMap = w.node.connMap /\ v.node.hashMap = w.node.hashMap
      /\ v.node.stored = w.node.stored /\ v.node.ready = r
  BY <1>1, <1>2, <1>3, <1>4 DEF NodeType
<1>6. v \in World
  BY <1>1, <1>4, <1>5 DEF World
<1>7. Keeps(w, v)
  BY <1>3, <1>4, <1>5, <1>6 DEF Keeps, Same, Tidy, Fine
<1> QED
  BY <1>5, <1>7 DEF Open, v

LEMMA RequestBlocksKeeps ==
    ASSUME NEW w, Fine(w), NEW p \in Peers, NEW headers \in Seq(Blocks)
    PROVE  Keeps(w, RequestBlocks(w, p, headers))
<1> DEFINE stored  == Those(headers, w.node.stored)
           missing == Those(headers, Blocks \ w.node.stored)
           ask     == Those(missing, {h \in Blocks : /\ p \notin w.node.sources[h]
                                                     /\ w.node.hashMap[h] = None})
           v == Opened(w, p)
           u == Sourced(v, p, stored, missing)
<1>1. stored \in Seq(Blocks) /\ missing \in Seq(Blocks) /\ \A i \in DOMAIN stored : stored[i] \in w.node.stored
  BY ThoseType
<1>2. ask \in Seq(Blocks)
  BY <1>1, ThoseType
<1> HIDE DEF stored, missing, ask
<1>3. Keeps(w, v) /\ Open(v, p) /\ v.node.stored = w.node.stored
  BY OpenedKeeps DEF Keeps, Same
<1> HIDE DEF v
<1>4. Keeps(v, u) /\ Open(u, p)
  BY <1>1, <1>3, SourcedKeeps, KeepsFine
<1>5. RequestBlocks(w, p, headers) = IF ~(w.node.connMap[p] # None) /\ w.wire.conn[p] = "none" THEN w
                         ELSE FoldLeft(LAMBDA x, h : RequestOrPend(x, h, p), u, ask)
  BY DEF RequestBlocks, Opened, Sourced, u, v, stored, missing, ask
<1> HIDE DEF u
<1>6. Keeps(w, FoldLeft(LAMBDA x, h : RequestOrPend(x, h, p), u, ask))
  BY <1>2, <1>3, <1>4, AskedKeeps, KeepsTwice, KeepsFine
<1> QED
  BY <1>5, <1>6, KeepsSelf

-----------------------------------------------------------------------------
(* Connections that end.                                                    *)

LEMMA IdFacts ==
    ASSUME NEW p \in Peers
    PROVE  /\ PeerId(p) \notin Peers /\ FullId(PeerId(p)) = p
           /\ FullId(NetworkName) = NetworkName /\ NetworkName \notin Peers
  BY SyncAssumption DEF PeerId, FullId

LEMMA ClosedKeeps ==
    ASSUME NEW w, Fine(w), NEW p \in Peers
    PROVE  Keeps(w, Closed(w, p))
<1> DEFINE v == Closed(w, p)
           c == [w.node.connMap EXCEPT ![p] = Dead(@)]
           s == [w.chain.connSync EXCEPT ![p] = Dead(@)]
           conn == [w.wire.conn EXCEPT ![p] = "none"]
           to == [w.wire.to EXCEPT ![p] = <<>>]
           back == [w.wire.back EXCEPT ![p] = <<>>]
<1>1. w \in World /\ w.node \in NodeType /\ w.chain \in ChainType /\ w.wire \in WireType
  BY DEF Fine, World
<1>2. c \in ConnMaps
  <2>1. w.node.connMap \in ConnMaps
    BY <1>1 DEF NodeType
  <2>2. \A r \in ConnType \cup {None} : Dead(r) \in ConnType \cup {None}
    BY DEF Dead, ConnType
  <2> QED
    BY <2>1, <2>2 DEF ConnMaps
<1>3. s \in SyncMaps
  <2>1. w.chain.connSync \in SyncMaps
    BY <1>1 DEF ChainType
  <2>2. \A r \in SyncType \cup {None} : Dead(r) \in SyncType \cup {None}
    BY DEF Dead, SyncType
  <2> QED
    BY <2>1, <2>2 DEF SyncMaps
<1>4. conn \in ConnStates /\ to \in Questions /\ back \in Packages
  BY <1>1, EmptySeq DEF WireType, ConnStates, Questions, Packages
<1>5. /\ v.node = [w.node EXCEPT !.connMap = c]
      /\ v.chain = [w.chain EXCEPT !.connSync = s]
      /\ v.wire = [w.wire EXCEPT !.conn = conn, !.to = to, !.back = back]
      /\ v = [node |-> v.node, chain |-> v.chain, wire |-> v.wire]
  BY <1>1 DEF NodeType, ChainType, WireType, Closed
<1> HIDE DEF c, s, conn, to, back, v
<1>6. /\ v.node \in NodeType /\ v.node.stored = w.node.stored /\ v.node.ready = w.node.ready
      /\ v.node.hashMap = w.node.hashMap /\ v.node.connMap = c
  BY <1>1, <1>2, <1>5 DEF NodeType
<1>10. Held(w.node.hashMap, c)
  <2>1. \A r \in ConnType : Dead(r) \in ConnType
    BY DEF Dead, ConnType
  <2>2. w.node.connMap \in ConnMaps /\ w.node.hashMap \in HashMaps
    BY <1>1 DEF NodeType
  <2> QED
    BY <2>1, <2>2 DEF Held, Fine, Tidy, ConnMaps, HashMaps, c
<1>7. /\ v.chain \in ChainType /\ v.chain.verified = w.chain.verified /\ v.chain.tip = w.chain.tip
      /\ v.chain.adding = w.chain.adding /\ v.chain.step = w.chain.step
      /\ v.chain.headers = w.chain.headers /\ v.chain.blocks = w.chain.blocks
  BY <1>1, <1>3, <1>5 DEF ChainType
<1>8. v.wire \in WireType
  BY <1>1, <1>4, <1>5 DEF WireType
<1>9. v \in World
  BY <1>1, <1>5, <1>6, <1>7, <1>8 DEF World
<1> QED
  BY <1>6, <1>7, <1>9, <1>10 DEF Keeps, Same, Fine, Tidy, v

\* The queue without what is of id, but with the first.
Others(queue, id) ==
    SubSeq(queue, 1, IF queue = <<>> THEN 0 ELSE 1)
        \o Those(SubSeq(queue, 2, Len(queue)), {e \in Range(queue) : e.from # id})

LEMMA OthersFacts ==
    ASSUME NEW S, NEW queue \in Seq(S), NEW id
    PROVE  /\ Others(queue, id) \in Seq(S)
           /\ queue # <<>> => Others(queue, id) # <<>> /\ Others(queue, id)[1] = queue[1]
           /\ \A i \in DOMAIN Others(queue, id) : \E j \in DOMAIN queue : Others(queue, id)[i] = queue[j]
<1> DEFINE n == IF queue = <<>> THEN 0 ELSE 1
           a == SubSeq(queue, 1, n)
           t == SubSeq(queue, 2, Len(queue))
           T == {e \in Range(queue) : e.from # id}
           b == Those(t, T)
<1>1. Len(queue) \in Nat /\ n \in 0 .. Len(queue) /\ n \in {0, 1}
  OBVIOUS
<1>2. a \in Seq(S) /\ Len(a) = n /\ \A i \in 1 .. n : a[i] = queue[i]
  BY <1>1, PrefixFacts
<1>3. queue # <<>> => n = 1 /\ Len(queue) >= 1
  OBVIOUS
<1>4. t \in Seq(S) /\ \A i \in DOMAIN t : \E j \in DOMAIN queue : t[i] = queue[j]
  <2>1. CASE queue = <<>>
    <3>1. t = <<>>
      BY <2>1, SubSeqEmpty
    <3> QED
      BY <3>1
  <2>2. CASE queue # <<>>
    <3>1. 2 \in 1 .. Len(queue) + 1 /\ Len(queue) \in 0 .. Len(queue)
      BY <1>1, <1>3, <2>2
    <3>2. /\ t \in Seq(S) /\ Len(t) = IF 2 <= Len(queue) THEN Len(queue) - 2 + 1 ELSE 0
          /\ \A i \in 1 .. Len(queue) - 2 + 1 : t[i] = queue[2 + i - 1]
      BY <3>1, PartFacts
    <3>3. ASSUME NEW i \in DOMAIN t PROVE i \in 1 .. Len(queue) - 2 + 1 /\ 2 + i - 1 \in DOMAIN queue
      BY <1>1, <3>2, <3>3
    <3> QED
      BY <3>2, <3>3
  <2> QED
    BY <2>1, <2>2
<1> HIDE DEF a, t, T, n
<1>5. b \in Seq(S) /\ \A i \in DOMAIN b : \E j \in DOMAIN queue : b[i] = queue[j]
  BY <1>4, ThoseType
<1> HIDE DEF b
<1>6. /\ a \o b \in Seq(S) /\ Len(a \o b) = n + Len(b)
      /\ \A i \in 1 .. Len(a \o b) : (a \o b)[i] = IF i <= n THEN a[i] ELSE b[i - n]
  BY <1>1, <1>2, <1>5, ConcatProperties
<1>7. queue # <<>> => a \o b # <<>> /\ (a \o b)[1] = queue[1]
  BY <1>1, <1>2, <1>3, <1>5, <1>6
<1>8. ASSUME NEW i \in DOMAIN (a \o b) PROVE \E j \in DOMAIN queue : (a \o b)[i] = queue[j]
  <2>1. i \in 1 .. Len(a \o b) /\ Len(b) \in Nat
    BY <1>5, <1>6
  <2>2. CASE i <= n
    BY <1>1, <1>2, <1>6, <2>1, <2>2
  <2>3. CASE i > n
    <3>1. i - n \in DOMAIN b
      BY <1>1, <1>5, <1>6, <2>1, <2>3
    <3>2. (a \o b)[i] = b[i - n]
      BY <1>1, <1>6, <2>1, <2>3
    <3> QED
      BY <1>5, <3>1, <3>2
  <2> QED
    BY <1>1, <2>1, <2>2, <2>3
<1>9. Others(queue, id) = a \o b
  BY DEF Others, a, b, t, T, n
<1> QED
  BY <1>6, <1>7, <1>8, <1>9

LEMMA ForgetKeeps ==
    ASSUME NEW w, Fine(w), NEW p \in Peers
    PROVE  Keeps(w, ForgetConnection(w, p))
<1> DEFINE v == [w EXCEPT !.chain.connSync[p] = None,
                          !.chain.headers = Others(w.chain.headers, p),
                          !.chain.blocks = Others(w.chain.blocks, p)]
           s == [w.chain.connSync EXCEPT ![p] = None]
           h == Others(w.chain.headers, p)
           b == Others(w.chain.blocks, p)
<1>1. w \in World /\ w.chain \in ChainType
  BY DEF Fine, World
<1>2. ForgetConnection(w, p) = v
  BY <1>1 DEF ForgetConnection, Others, World, ChainType
<1>3. s \in SyncMaps
  BY <1>1 DEF ChainType, SyncMaps
<1>4. /\ h \in HeaderEntries /\ b \in BlockEntries
      /\ w.chain.headers # <<>> => h # <<>> /\ h[1] = w.chain.headers[1]
      /\ \A i \in DOMAIN b : b[i].block \in w.node.stored
  <2>1. w.chain.headers \in Seq(HeaderEntry) /\ w.chain.blocks \in Seq(BlockEntry)
    BY <1>1 DEF ChainType, HeaderEntries, BlockEntries
  <2>2. \A i \in DOMAIN w.chain.blocks : w.chain.blocks[i].block \in w.node.stored
    BY DEF Fine, Tidy
  <2>3. b \in Seq(BlockEntry) /\ \A i \in DOMAIN b : \E j \in DOMAIN w.chain.blocks : b[i] = w.chain.blocks[j]
    BY <2>1, OthersFacts
  <2>4. h \in Seq(HeaderEntry) /\ (w.chain.headers # <<>> => h # <<>> /\ h[1] = w.chain.headers[1])
    BY <2>1, OthersFacts
  <2> HIDE DEF h, b
  <2> QED
    BY <2>2, <2>3, <2>4 DEF HeaderEntries, BlockEntries
<1> HIDE DEF s, h, b
<1>5. /\ v.chain = [w.chain EXCEPT !.connSync = s, !.headers = h, !.blocks = b]
      /\ v.node = w.node /\ v.wire = w.wire /\ v = [w EXCEPT !.chain = v.chain]
  BY <1>1 DEF World, ChainType, s, h, b
<1> HIDE DEF v
<1>6. /\ v.chain \in ChainType /\ v.chain.verified = w.chain.verified /\ v.chain.tip = w.chain.tip
      /\ v.chain.adding = w.chain.adding /\ v.chain.step = w.chain.step
      /\ v.chain.headers = h /\ v.chain.blocks = b
  BY <1>1, <1>3, <1>4, <1>5 DEF ChainType
<1>7. v \in World
  BY <1>1, <1>5, <1>6 DEF World
<1> QED
  BY <1>2, <1>4, <1>5, <1>6, <1>7 DEF Keeps, Same, Fine, Tidy

LEMMA BanKeeps ==
    ASSUME NEW w, Fine(w), NEW p \in Peers
    PROVE  Keeps(w, Ban(w, p))
<1> DEFINE u == Closed(w, p)
           v == [u EXCEPT !.wire.banned = @ \cup {p}]
<1>1. Keeps(w, u)
  BY ClosedKeeps
<1>2. u \in World /\ u.wire \in WireType
  BY <1>1 DEF Keeps, World
<1> HIDE DEF u
<1>3. v.wire = [u.wire EXCEPT !.banned = @ \cup {p}] /\ v.node = u.node /\ v.chain = u.chain
      /\ v = [u EXCEPT !.wire = v.wire]
  BY <1>2 DEF World
<1>4. v.wire \in WireType
  BY <1>2, <1>3 DEF WireType, Banned
<1> HIDE DEF v
<1>5. v \in World
  BY <1>2, <1>3, <1>4 DEF World
<1>6. Keeps(u, v)
  BY <1>1, <1>3, <1>5 DEF Keeps, Same, Tidy
<1>7. OnRemoveConnection(v, PeerId(p)) = v
  BY IdFacts, Zenon DEF OnRemoveConnection
<1>8. Ban(w, p) = ForgetConnection(v, p)
  BY <1>7, IdFacts DEF Ban, v, u
<1> QED
  BY <1>1, <1>6, <1>8, ForgetKeeps, KeepsTwice, KeepsFine

LEMMA ChainBanKeeps ==
    ASSUME NEW w, Fine(w), NEW p \in Peers \cup {None}
    PROVE  Keeps(w, ChainBan(w, p))
  BY BanKeeps, KeepsSelf DEF ChainBan

-----------------------------------------------------------------------------
(* The helpers of Chain.                                                    *)

Tracked(w, p) == w.chain.connSync[p] \in SyncType

StillTracked(w, v) == \A p \in Peers : Tracked(w, p) => Tracked(v, p)

LEMMA RequestHeadersChain ==
    ASSUME NEW w, Fine(w), NEW p \in Peers, NEW live, NEW from
    PROVE  RequestHeaders(w, p, live, from).chain = w.chain
  BY DEF RequestHeaders, Send, Fine, World

LEMMA SyncSetKeeps ==
    ASSUME NEW w, Fine(w), NEW p \in Peers, NEW r \in SyncType
    PROVE  LET v == [w EXCEPT !.chain.connSync[p] = r]
           IN  Keeps(w, v) /\ Tracked(v, p) /\ StillTracked(w, v) /\ v.chain.state = w.chain.state
<1> DEFINE v == [w EXCEPT !.chain.connSync[p] = r]
           s == [w.chain.connSync EXCEPT ![p] = r]
<1>1. w \in World /\ w.chain \in ChainType /\ w.chain.connSync \in SyncMaps
  BY DEF Fine, World, ChainType
<1>2. s \in SyncMaps /\ s[p] = r /\ \A q \in Peers : s[q] \in {r, w.chain.connSync[q]}
  BY <1>1 DEF SyncMaps
<1>3. /\ v.chain = [w.chain EXCEPT !.connSync = s]
      /\ v.node = w.node /\ v.wire = w.wire /\ v = [w EXCEPT !.chain = v.chain]
  BY <1>1 DEF World, ChainType
<1> HIDE DEF v, s
<1>4. /\ v.chain \in ChainType /\ v.chain.verified = w.chain.verified /\ v.chain.tip = w.chain.tip
      /\ v.chain.adding = w.chain.adding /\ v.chain.step = w.chain.step
      /\ v.chain.headers = w.chain.headers /\ v.chain.blocks = w.chain.blocks
      /\ v.chain.connSync = s /\ v.chain.state = w.chain.state
  BY <1>1, <1>2, <1>3 DEF ChainType
<1>5. v \in World
  BY <1>1, <1>3, <1>4 DEF World
<1>6. Keeps(w, v)
  BY <1>3, <1>4, <1>5 DEF Keeps, Same, Fine, Tidy
<1> QED
  BY <1>2, <1>4, <1>6 DEF v, Tracked, StillTracked

LEMMA BeginSyncKeeps ==
    ASSUME NEW w, Fine(w), NEW p \in Peers, NEW live \in BOOLEAN, NEW from \in BG
    PROVE  Keeps(w, BeginSync(w, p, live, from))
<1> DEFINE record == IF w.chain.connSync[p] = None THEN SyncRecord("syncing", live)
                     ELSE w.chain.connSync[p]
           r == [record EXCEPT !.state = "syncing", !.lastReq = from]
           v == [w EXCEPT !.chain.connSync[p] = r]
<1>1. w.chain.connSync[p] \in SyncType \cup {None}
  BY DEF Fine, World, ChainType, SyncMaps
<1>2. SyncRecord("syncing", live) \in SyncType
  BY DEF SyncRecord, SyncType, Branch, Opt
<1>3. record \in SyncType
  BY <1>1, <1>2
<1> HIDE DEF record
<1>4. r \in SyncType /\ record.live \in BOOLEAN
  BY <1>3 DEF SyncType, Branch, Opt
<1> HIDE DEF r
<1>5. Keeps(w, v)
  BY <1>4, SyncSetKeeps
<1> HIDE DEF v
<1>6. Keeps(v, RequestHeaders(v, p, record.live, from))
  BY <1>4, <1>5, RequestHeadersKeeps, KeepsFine
<1>7. BeginSync(w, p, live, from) = RequestHeaders(v, p, record.live, from)
  BY DEF BeginSync, record, r, v
<1> QED
  BY <1>5, <1>6, <1>7, KeepsTwice

LEMMA ContinueSyncKeeps ==
    ASSUME NEW w, Fine(w), NEW p \in Peers, Tracked(w, p)
    PROVE  LET v == ContinueSync(w, p) IN Keeps(w, v) /\ StillTracked(w, v)
<1> DEFINE record == w.chain.connSync[p]
           a == [record EXCEPT !.lastReq = record.lastRecv]
           s == [record EXCEPT !.state = "synced", !.more = FALSE]
           u == [w EXCEPT !.chain.connSync[p] = a]
           v == [w EXCEPT !.chain.connSync[p] = s]
           x == [v EXCEPT !.chain.state = "synced", !.chain.announced = w.chain.tip]
<1>1. w \in World /\ w.chain \in ChainType /\ w.chain.connSync \in SyncMaps /\ record \in SyncType
  BY DEF Fine, World, ChainType, Tracked
<1>2. a \in SyncType /\ s \in SyncType /\ record.live \in BOOLEAN /\ (record.more => record.lastRecv \in BG)
  BY <1>1 DEF SyncType, Branch
<1>3. /\ [w EXCEPT !.chain.connSync[p].lastReq = record.lastRecv] = u
      /\ [w EXCEPT !.chain.connSync[p].state = "synced", !.chain.connSync[p].more = FALSE] = v
  BY <1>1, ZenonT(40) DEF World, ChainType, SyncMaps
<1>4. /\ Keeps(w, u) /\ StillTracked(w, u) /\ Keeps(w, v) /\ StillTracked(w, v)
  BY <1>2, SyncSetKeeps
<1>5. ContinueSync(w, p) \in {RequestHeaders(u, p, record.live, record.lastRecv), v, x}
      /\ (record.more => ContinueSync(w, p) = RequestHeaders(u, p, record.live, record.lastRecv))
      /\ (~record.more => ContinueSync(w, p) \in {v, x})
  BY <1>3 DEF ContinueSync
<1> HIDE DEF u, v, a, s, record
<1>6. CASE record.more
  BY <1>2, <1>4, <1>5, <1>6, RequestHeadersKeeps, RequestHeadersChain, KeepsTwice, KeepsFine
     DEF StillTracked, Tracked
<1>7. CASE ~record.more
  <2>1. v \in World /\ v.chain \in ChainType /\ w.chain.tip \in BG
    BY <1>1, <1>4 DEF Keeps, World, ChainType
  <2>2. x.chain = [v.chain EXCEPT !.state = "synced", !.announced = w.chain.tip]
        /\ x.node = v.node /\ x.wire = v.wire /\ x = [v EXCEPT !.chain = x.chain]
    BY <2>1 DEF World, ChainType
  <2> HIDE DEF x
  <2>3. /\ x.chain \in ChainType /\ x.chain.verified = v.chain.verified /\ x.chain.tip = v.chain.tip
        /\ x.chain.adding = v.chain.adding /\ x.chain.step = v.chain.step
        /\ x.chain.headers = v.chain.headers /\ x.chain.blocks = v.chain.blocks
        /\ x.chain.connSync = v.chain.connSync
    BY <2>1, <2>2 DEF ChainType, Branch, Opt
  <2>4. x \in World
    BY <2>1, <2>2, <2>3 DEF World
  <2>5. Keeps(v, x) /\ StillTracked(v, x)
    BY <1>4, <2>2, <2>3, <2>4 DEF Keeps, Same, Tidy, StillTracked, Tracked
  <2> QED
    BY <1>4, <1>5, <1>7, <2>5, KeepsTwice DEF StillTracked
<1> QED
  BY <1>6, <1>7

LEMMA AddPendingKeeps ==
    ASSUME NEW w, Fine(w), NEW b \in Blocks, b \in w.node.stored, NEW from \in Peers \cup {None},
           NEW head \in BOOLEAN
    PROVE  LET v == AddPendingBlock(w, b, from, head)
           IN  Keeps(w, v) /\ v.node = w.node /\ v.wire = w.wire
<1> DEFINE e == [block |-> b, from |-> from]
           q == IF head THEN <<e>> \o w.chain.blocks ELSE Append(w.chain.blocks, e)
           v == [w EXCEPT !.chain.blocks = q]
<1>1. w \in World /\ w.chain \in ChainType /\ w.chain.blocks \in Seq(BlockEntry)
  BY DEF Fine, World, ChainType, BlockEntries
<1>2. e \in BlockEntry /\ e.block \in w.node.stored
  BY DEF BlockEntry
<1>3. q \in BlockEntries /\ \A i \in DOMAIN q : q[i].block \in w.node.stored
  <2>1. \A i \in DOMAIN w.chain.blocks : w.chain.blocks[i].block \in w.node.stored
    BY DEF Fine, Tidy
  <2> HIDE DEF e
  <2>2. Append(w.chain.blocks, e) \in Seq(BlockEntry)
        /\ \A i \in DOMAIN Append(w.chain.blocks, e) : Append(w.chain.blocks, e)[i].block \in w.node.stored
    BY <1>1, <1>2, <2>1
  <2>3. <<e>> \o w.chain.blocks \in Seq(BlockEntry)
        /\ \A i \in DOMAIN (<<e>> \o w.chain.blocks) : (<<e>> \o w.chain.blocks)[i].block \in w.node.stored
    <3> DEFINE t == <<e>> \o w.chain.blocks
    <3>1. /\ t \in Seq(BlockEntry) /\ Len(t) = 1 + Len(w.chain.blocks)
          /\ \A i \in 1 .. Len(t) : t[i] = IF i <= 1 THEN e ELSE w.chain.blocks[i - 1]
      BY <1>1, <1>2
    <3> HIDE DEF t
    <3>2. ASSUME NEW i \in DOMAIN t PROVE t[i].block \in w.node.stored
      BY <1>1, <1>2, <2>1, <3>1, SMTT(25)
    <3> QED
      BY <3>1, <3>2 DEF t
  <2> QED
    BY <2>2, <2>3 DEF BlockEntries
<1> HIDE DEF q
<1>4. /\ v.chain = [w.chain EXCEPT !.blocks = q]
      /\ v.node = w.node /\ v.wire = w.wire /\ v = [w EXCEPT !.chain = v.chain]
  BY <1>1 DEF World, ChainType
<1> HIDE DEF v
<1>5. /\ v.chain \in ChainType /\ v.chain.verified = w.chain.verified /\ v.chain.tip = w.chain.tip
      /\ v.chain.adding = w.chain.adding /\ v.chain.step = w.chain.step
      /\ v.chain.headers = w.chain.headers /\ v.chain.blocks = q
  BY <1>1, <1>3, <1>4 DEF ChainType
<1>6. v \in World
  BY <1>1, <1>4, <1>5 DEF World
<1>7. Keeps(w, v)
  BY <1>3, <1>4, <1>5, <1>6 DEF Keeps, Same, Fine, Tidy
<1>8. AddPendingBlock(w, b, from, head) \in {w, v}
  BY DEF AddPendingBlock, v, q, e
<1> QED
  BY <1>4, <1>7, <1>8, KeepsSelf

-----------------------------------------------------------------------------
(* The invariant.                                                           *)

\* Who is known has a known parent, who is verified a verified one.
Linked(c) == \A b \in Blocks : c.verified[b] # "absent" => c.verified[Parent[b]] # "absent"

Grounded(c) ==
    /\ c.verified[Genesis] = "verified"
    /\ \A b \in Blocks : c.verified[b] = "verified" => c.verified[Parent[b]] = "verified"

Highest(c) ==
    /\ c.verified[c.tip] = "verified"
    /\ \A b \in Blocks : c.verified[b] = "verified" => Number(b) <= Number(c.tip)

\* The block that is executed.
Executable(w) ==
    w.chain.adding # None =>
        /\ w.chain.verified[w.chain.adding.block] = "notVerified"
        /\ w.chain.verified[Parent[w.chain.adding.block]] = "verified"
        /\ w.chain.adding.block \in w.node.stored

VerifiedStored(w) == \A b \in Blocks : w.chain.verified[b] = "verified" => b \in w.node.stored

\* The headers that are being saved are the first of their queue.
StepReady(w) ==
    w.chain.step # None => w.chain.headers # <<>> /\ w.chain.headers[1].error = "OK"

Good(w) ==
    /\ Fine(w)
    /\ Linked(w.chain) /\ Grounded(w.chain) /\ Highest(w.chain)
    /\ Executable(w) /\ VerifiedStored(w) /\ StepReady(w)

IInv == Good(Now) /\ peerBest \in [Peers -> BG]

LEMMA KeepsGood ==
    ASSUME NEW w, NEW v, Good(w), Keeps(w, v)
    PROVE  Good(v)
<1>1. Fine(v)
  BY DEF Keeps, Fine
<1>2. Linked(v.chain) /\ Grounded(v.chain) /\ Highest(v.chain) /\ Executable(v) /\ VerifiedStored(v)
  BY DEF Keeps, Same, Good, Linked, Grounded, Highest, Executable, VerifiedStored
<1>3. StepReady(v)
  BY DEF Keeps, Same, Good, StepReady
<1> QED
  BY <1>1, <1>2, <1>3 DEF Good

LEMMA BecomeNow ==
    ASSUME NEW w, w \in World, Become(w)
    PROVE  Now' = w
<1>1. w = [node |-> w.node, chain |-> w.chain, wire |-> w.wire]
  BY DEF World
<1> QED
  BY <1>1 DEF Become, Now

LEMMA BecomeInv ==
    ASSUME NEW w, Good(w), Become(w), peerBest' \in [Peers -> BG]
    PROVE  IInv'
<1>1. Now' = w
  BY BecomeNow DEF Good, Fine
<1> QED
  BY <1>1 DEF IInv

LEMMA KeptInv ==
    ASSUME IInv, NEW w, Keeps(Now, w), Become(w), peerBest' \in [Peers -> BG]
    PROVE  IInv'
  BY KeepsGood, BecomeInv DEF IInv

LEMMA InitInv == Init => IInv
<1> SUFFICES ASSUME Init PROVE IInv
  OBVIOUS
<1>1. node \in NodeType
  BY EmptySeq DEF Init, NodeType, PeerOpts, Opt, ConnMaps, HashMaps, BlockQueues, SourceMaps, SomeBlocks
<1>2. chain \in ChainType
  BY EmptySeq DEF Init, ChainType, Branch, SyncMaps, HeaderEntries, StepOpt, BlockEntries, EntryOpt,
                  States, BG, Opt
<1>3. wire \in WireType
  BY EmptySeq DEF Init, WireType, ConnStates, Banned, Questions, Packages
<1>4. Now \in World
  BY <1>1, <1>2, <1>3 DEF Now, World
<1>5. Tidy(Now) /\ StepReady(Now) /\ Executable(Now)
  BY DEF Init, Now, Tidy, Held, StepReady, Executable
<1>6. Linked(chain) /\ Grounded(chain) /\ Highest(chain) /\ VerifiedStored(Now)
  BY SyncAssumption DEF Init, Now, Linked, Grounded, Highest, VerifiedStored, BG
<1>7. peerBest \in [Peers -> BG]
  BY SyncAssumption DEF Init, BG
<1> QED
  BY <1>4, <1>5, <1>6, <1>7 DEF IInv, Good, Fine, Now

-----------------------------------------------------------------------------
(* Connections and packages.                                                *)

LEMMA NowFacts ==
    ASSUME IInv
    PROVE  /\ Fine(Now) /\ Now \in World /\ node \in NodeType /\ chain \in ChainType /\ wire \in WireType
           /\ Now.node = node /\ Now.chain = chain /\ Now.wire = wire
<1>1. Now \in World /\ Fine(Now) /\ Now.node = node /\ Now.chain = chain /\ Now.wire = wire
  BY DEF IInv, Good, Fine, Now
<1> QED
  BY <1>1 DEF World

\* Changes of the wire, and of nothing else.
LEMMA WireKeeps ==
    ASSUME NEW w, Fine(w), NEW v, v.node = w.node, v.chain = w.chain, v.wire \in WireType,
           v = [w EXCEPT !.wire = v.wire]
    PROVE  Keeps(w, v)
<1>1. v \in World
  BY DEF Fine, World
<1> QED
  BY <1>1 DEF Keeps, Same, Fine, Tidy

LEMMA OutboundInv ==
    ASSUME IInv, NEW p \in Peers, Outbound(p)
    PROVE  IInv'
<1> DEFINE v == [Now EXCEPT !.wire.conn[p] = "out"]
<1>1. Fine(Now) /\ Now \in World /\ wire \in WireType /\ chain \in ChainType /\ Now.wire = wire
  BY NowFacts
<1>2. v.wire = [wire EXCEPT !.conn[p] = "out"] /\ v.node = Now.node /\ v.chain = Now.chain
      /\ v = [Now EXCEPT !.wire = v.wire]
  BY <1>1 DEF World
<1>3. v.wire \in WireType
  BY <1>1, <1>2 DEF WireType, ConnStates
<1>4. Keeps(Now, v)
  BY <1>1, <1>2, <1>3, WireKeeps
<1>5. Ancestor(chain.tip, Number(chain.tip) - ConfirmDepth) \in BG
  <2>1. chain.tip \in BG /\ ConfirmDepth \in Nat
    BY <1>1, SyncAssumption DEF ChainType
  <2>2. Number(chain.tip) \in Nat
    BY <2>1, PathFacts
  <2> QED
    BY <2>1, <2>2, AncestorType
<1> HIDE DEF v
<1>6. Keeps(Now, BeginSync(v, p, TRUE, Ancestor(chain.tip, Number(chain.tip) - ConfirmDepth)))
  BY <1>4, <1>5, BeginSyncKeeps, KeepsTwice, KeepsFine
<1>7. peerBest' \in [Peers -> BG]
  BY DEF Outbound, IInv
<1> QED
  BY <1>6, <1>7, KeptInv DEF Outbound, v

LEMMA InboundInv ==
    ASSUME IInv, NEW p \in Peers, Inbound(p)
    PROVE  IInv'
<1> DEFINE v == [Now EXCEPT !.wire = wire']
<1>1. Fine(Now) /\ Now \in World /\ wire \in WireType /\ Now.wire = wire /\ Now.node = node /\ Now.chain = chain
  BY NowFacts
<1>2. wire' \in WireType
  BY <1>1 DEF Inbound, WireType, ConnStates
<1>3. v.wire = wire' /\ v.node = Now.node /\ v.chain = Now.chain /\ v = [Now EXCEPT !.wire = v.wire]
  BY <1>1 DEF World
<1> HIDE DEF v
<1>4. Keeps(Now, v)
  BY <1>1, <1>2, <1>3, WireKeeps
<1>5. Become(v) /\ peerBest' \in [Peers -> BG]
  BY <1>1, <1>3 DEF Inbound, Become, IInv
<1> QED
  BY <1>4, <1>5, KeptInv

LEMMA BackInv ==
    ASSUME IInv, NEW p \in Peers, NEW pkg \in Package, NEW t \in WireType,
           t.back = wire.back, wire' = [t EXCEPT !.back[p] = Append(@, pkg)],
           UNCHANGED <<node, chain>>, peerBest' \in [Peers -> BG]
    PROVE  IInv'
<1> DEFINE v == [Now EXCEPT !.wire = wire']
<1>1. Fine(Now) /\ Now \in World /\ Now.wire = wire /\ Now.node = node /\ Now.chain = chain
  BY NowFacts
<1>2. [t.back EXCEPT ![p] = Append(@, pkg)] \in Packages
  BY AppendProperties DEF WireType, Packages
<1>3. wire' = [t EXCEPT !.back = [t.back EXCEPT ![p] = Append(@, pkg)]]
  BY DEF WireType
<1>4. wire' \in WireType
  BY <1>2, <1>3 DEF WireType
<1>5. v.wire = wire' /\ v.node = Now.node /\ v.chain = Now.chain /\ v = [Now EXCEPT !.wire = v.wire]
  BY <1>1 DEF World
<1> HIDE DEF v
<1>6. Keeps(Now, v)
  BY <1>1, <1>4, <1>5, WireKeeps
<1>7. Become(v)
  BY <1>1, <1>5 DEF Become
<1> QED
  BY <1>6, <1>7, KeptInv

LEMMA AnnouncementType ==
    ASSUME NEW b \in BG, Number(b) > 0
    PROVE  Announcement(b) \in HeaderPackage
<1>1. Number(b) \in Nat /\ Number(b) \in 0 .. Number(b) /\ ConfirmDepth + 1 \in Nat \ {0}
  BY PathFacts, SyncAssumption
<1>2. HeadersTo(b, Number(b), ConfirmDepth + 1) \in Segments
      /\ HeadersTo(b, Number(b), ConfirmDepth + 1) # <<>>
  BY <1>1, SegmentOfPath
<1> QED
  BY <1>2 DEF Announcement, HeaderPackage, Opt, Errors, Sound

LEMMA PeerAdoptsInv ==
    ASSUME IInv, NEW p \in Peers, NEW b \in Blocks, NEW announce \in BOOLEAN, PeerAdopts(p, b, announce)
    PROVE  IInv'
<1>1. b \in BG /\ peerBest[p] \in BG /\ Number(b) \in Nat /\ Number(peerBest[p]) \in Nat
  BY PathFacts DEF BG, IInv
<1>2. peerBest' \in [Peers -> BG]
  BY <1>1 DEF PeerAdopts, IInv
<1>3. wire \in WireType
  BY NowFacts
<1>4. CASE announce
  <2>1. Announcement(b) \in Package
    BY <1>1, AnnouncementType DEF PeerAdopts, Package
  <2> QED
    BY <1>2, <1>3, <1>4, <2>1, BackInv DEF PeerAdopts
<1>5. CASE ~announce
  <2>1. Now' = Now
    BY <1>5 DEF PeerAdopts, Now
  <2> QED
    BY <1>2, <2>1 DEF IInv
<1> QED
  BY <1>4, <1>5

LEMMA AnswerType ==
    ASSUME NEW from \in BG, NEW tip \in BG, NEW best \in BG, Number(tip) <= Number(best),
           NEW a \in HeadersAnswer(from, tip, best)
    PROVE  a \in HeaderPackage
<1> DEFINE last == IF Number(from) + HeaderReqLimit > Number(tip)
                   THEN Number(tip) ELSE Number(from) + HeaderReqLimit
           hs == HeadersTo(best, last, last - Number(from))
           missing == Answer(from, <<>>, "NOT_FOUND")
           nothing == Answer(from, <<>>, "SKIPPED")
           found == Answer(from, hs, "OK")
<1>1. Number(from) \in Nat /\ Number(tip) \in Nat /\ Number(best) \in Nat /\ HeaderReqLimit \in Nat \ {0}
  BY PathFacts, SyncAssumption
<1>2. last \in 0 .. Number(best)
  BY <1>1
<1>3. a \in {missing, nothing} \/ (last > Number(from) /\ a = found)
  <2>1. HeadersAnswer(from, tip, best) =
            IF ~OnBest(from, best) THEN {missing}
            ELSE IF tip = from THEN {nothing}
            ELSE IF last <= Number(from) THEN {}
            ELSE {found}
    BY DEF HeadersAnswer
  <2> HIDE DEF last, missing, nothing, found
  <2> QED
    BY <1>1, <1>2, <2>1
<1> HIDE DEF last
<1>4. <<>> \in Segments
  BY EmptySeq DEF Segments
<1>5. from \in Opt /\ from # None
  BY SyncAssumption DEF Opt, BG
<1>6. ASSUME last > Number(from)
      PROVE  HeadersTo(best, last, last - Number(from)) \in Segments
             /\ HeadersTo(best, last, last - Number(from)) # <<>>
  <2>1. last - Number(from) \in Nat \ {0} /\ last > 0
    BY <1>1, <1>2, <1>6
  <2> QED
    BY <1>2, <2>1, SegmentOfPath
<1> QED
  BY <1>3, <1>4, <1>5, <1>6 DEF HeaderPackage, Errors, Sound, Answer

LEMMA PeerRespondsInv ==
    ASSUME IInv, NEW p \in Peers, PeerResponds(p)
    PROVE  IInv'
<1> DEFINE pkg == Head(wire.to[p])
           asked == [wire EXCEPT !.to[p] = Tail(@)]
           bests == {b \in Known[p] : Number(b) > Number(peerBest[p])} \cup {peerBest[p]}
<1>1. wire \in WireType /\ Now.wire = wire
  BY NowFacts
<1>2. wire.to[p] \in Seq(Question) /\ wire.to[p] # <<>>
  BY <1>1 DEF PeerResponds, WireType, Questions
<1>3. pkg \in Question /\ Tail(wire.to[p]) \in Seq(Question)
  BY <1>2
<1>4. asked \in WireType /\ asked.back = wire.back
  BY <1>1, <1>3 DEF WireType, Questions
<1>5. peerBest \in [Peers -> BG] /\ Known[p] \subseteq BG
  BY SyncAssumption DEF IInv, BG
<1>6. CASE pkg.type = "getBlock"
  <2>1. pkg.hash \in Blocks
    BY <1>3, <1>6 DEF Question
  <2>2. [type |-> "block", block |-> pkg.hash] \in Package
    BY <2>1 DEF Package, BlockPackage
  <2>3. wire' = [asked EXCEPT !.back[p] = Append(@, [type |-> "block", block |-> pkg.hash])]
        /\ peerBest' = peerBest /\ UNCHANGED <<node, chain>>
    BY <1>6 DEF PeerResponds
  <2> DEFINE a == [type |-> "block", block |-> pkg.hash]
  <2> HIDE DEF asked, a, pkg
  <2> QED
    BY <1>4, <1>5, <2>2, <2>3, BackInv DEF a
<1>7. CASE pkg.type # "getBlock"
  <2>1. pkg.from \in BG
    BY <1>3, <1>7 DEF Question
  <2>2. PICK best \in bests :
           LET answers == HeadersAnswer(pkg.from, peerBest[p], best)
           IN  /\ peerBest' = [peerBest EXCEPT ![p] = best]
               /\ wire' = IF answers = {} THEN asked
                          ELSE [asked EXCEPT !.back[p] = Append(@, CHOOSE a \in answers : TRUE)]
    BY <1>7, Zenon DEF PeerResponds
  <2>3. UNCHANGED <<node, chain>>
    BY DEF PeerResponds
  <2> HIDE DEF asked, pkg
  <2>4. best \in BG /\ peerBest[p] \in BG /\ Number(peerBest[p]) <= Number(best)
    BY <1>5, PathFacts
  <2>5. peerBest' \in [Peers -> BG]
    BY <1>5, <2>2, <2>4
  <2> DEFINE answers == HeadersAnswer(pkg.from, peerBest[p], best)
             a == CHOOSE x \in answers : TRUE
  <2>6. CASE answers = {}
    <3> DEFINE v == [Now EXCEPT !.wire = wire']
    <3>1. Fine(Now) /\ Now \in World /\ Now.wire = wire /\ Now.node = node /\ Now.chain = chain
      BY NowFacts
    <3>2. wire' \in WireType
      BY <1>4, <2>2, <2>6
    <3>3. v.wire = wire' /\ v.node = Now.node /\ v.chain = Now.chain /\ v = [Now EXCEPT !.wire = v.wire]
      BY <3>1 DEF World
    <3> HIDE DEF v
    <3>4. Keeps(Now, v)
      BY <3>1, <3>2, <3>3, WireKeeps
    <3>5. Become(v)
      BY <2>3, <3>1, <3>3 DEF Become
    <3> QED
      BY <2>5, <3>4, <3>5, KeptInv
  <2>7. CASE answers # {}
    <3>1. a \in answers
      BY <2>7
    <3>2. wire' = [asked EXCEPT !.back[p] = Append(@, a)]
      BY <2>2, <2>7
    <3> HIDE DEF a
    <3>3. a \in Package
      BY <2>1, <2>4, <3>1, AnswerType DEF Package
    <3> QED
      BY <1>4, <2>3, <2>5, <3>2, <3>3, BackInv
  <2> QED
    BY <2>6, <2>7
<1> QED
  BY <1>6, <1>7

LEMMA TookKeeps ==
    ASSUME IInv, NEW p \in Peers, wire.back[p] # <<>>
    PROVE  Keeps(Now, Took(p)) /\ Head(wire.back[p]) \in Package
<1> DEFINE back == [wire.back EXCEPT ![p] = Tail(@)]
<1>1. Fine(Now) /\ Now \in World /\ wire \in WireType /\ Now.wire = wire
  BY NowFacts
<1>2. wire.back \in [Peers -> Seq(Package)]
  BY <1>1 DEF WireType, Packages
<1>3. Head(wire.back[p]) \in Package /\ back \in Packages
  BY <1>2 DEF Packages
<1> HIDE DEF back
<1>4. /\ Took(p).wire = [wire EXCEPT !.back = back]
      /\ Took(p).node = Now.node /\ Took(p).chain = Now.chain
      /\ Took(p) = [Now EXCEPT !.wire = Took(p).wire]
  BY <1>1 DEF Took, World, WireType, back
<1>5. Took(p).wire \in WireType
  BY <1>1, <1>3, <1>4 DEF WireType
<1> QED
  BY <1>1, <1>3, <1>4, <1>5, WireKeeps

LEMMA OnRecvHeadersKeeps ==
    ASSUME NEW w, Fine(w), NEW p \in Peers, NEW pkg \in HeaderPackage
    PROVE  Keeps(w, OnRecvHeaders(w, p, pkg))
<1> DEFINE requesting == [w.node.requestingHeaders EXCEPT ![p] = None]
           entry == [from |-> p, headers |-> pkg.headers, request |-> pkg.request, error |-> pkg.error]
           v == IF pkg.request = None THEN w ELSE [w EXCEPT !.node.requestingHeaders[p] = None]
           u == [v EXCEPT !.chain.headers = Append(@, entry)]
           q == Append(w.chain.headers, entry)
<1>1. w \in World /\ w.node \in NodeType /\ w.chain \in ChainType
  BY DEF Fine, World
<1>2. requesting \in PeerOpts
  BY <1>1 DEF NodeType, PeerOpts, Opt
<1>3. entry \in HeaderEntry
  BY DEF HeaderPackage, HeaderEntry, Sound
<1>4. q \in HeaderEntries /\ (w.chain.headers # <<>> => q # <<>> /\ q[1] = w.chain.headers[1])
  <2>1. w.chain.headers \in Seq(HeaderEntry)
    BY <1>1 DEF ChainType, HeaderEntries
  <2> HIDE DEF entry
  <2> QED
    BY <1>3, <2>1 DEF HeaderEntries
<1> HIDE DEF entry
<1>11. /\ v = [node |-> v.node, chain |-> w.chain, wire |-> w.wire]
       /\ v.node \in {w.node, [w.node EXCEPT !.requestingHeaders = requesting]}
  BY <1>1 DEF World, NodeType
<1> HIDE DEF requesting
<1>12. OnRecvHeaders(w, p, pkg) \in {u, Ban(w, p)}
  BY DEF OnRecvHeaders, entry
<1> HIDE DEF v
<1>6. u = [v EXCEPT !.chain = [w.chain EXCEPT !.headers = q]]
  BY <1>11
<1> HIDE DEF q, u
<1>5. /\ u.chain = [w.chain EXCEPT !.headers = q] /\ u.wire = w.wire
      /\ u.node \in {w.node, [w.node EXCEPT !.requestingHeaders = requesting]}
      /\ u = [node |-> u.node, chain |-> u.chain, wire |-> u.wire]
  BY <1>6, <1>11
<1>7. /\ u.node \in NodeType /\ u.node.stored = w.node.stored /\ u.node.ready = w.node.ready
      /\ u.node.hashMap = w.node.hashMap /\ u.node.connMap = w.node.connMap
  BY <1>1, <1>2, <1>5 DEF NodeType
<1>8. /\ u.chain \in ChainType /\ u.chain.verified = w.chain.verified /\ u.chain.tip = w.chain.tip
      /\ u.chain.adding = w.chain.adding /\ u.chain.step = w.chain.step
      /\ u.chain.headers = q /\ u.chain.blocks = w.chain.blocks
  BY <1>1, <1>4, <1>5 DEF ChainType
<1>9. u \in World
  BY <1>1, <1>5, <1>7, <1>8 DEF World
<1>10. Keeps(w, u)
  BY <1>4, <1>7, <1>8, <1>9 DEF Keeps, Same, Fine, Tidy
<1> QED
  BY <1>10, <1>12, BanKeeps

LEMMA ReceiveHeadersInv ==
    ASSUME IInv, NEW p \in Peers, ReceiveHeaders(p)
    PROVE  IInv'
<1> DEFINE pkg == Head(wire.back[p])
<1>1. Keeps(Now, Took(p)) /\ pkg \in Package
  BY TookKeeps DEF ReceiveHeaders
<1>2. pkg \in HeaderPackage
  <2>1. pkg.type = "header"
    BY DEF ReceiveHeaders
  <2> QED
    BY <1>1, <2>1 DEF Package, BlockPackage
<1> HIDE DEF pkg
<1>3. Keeps(Now, OnRecvHeaders(Took(p), p, pkg))
  BY <1>1, <1>2, OnRecvHeadersKeeps, KeepsTwice, KeepsFine
<1>4. peerBest' \in [Peers -> BG]
  BY DEF ReceiveHeaders, IInv
<1> QED
  BY <1>3, <1>4, KeptInv DEF ReceiveHeaders, pkg

LEMMA StoreGood ==
    ASSUME NEW w, Good(w), NEW b \in Blocks
    PROVE  LET v == [w EXCEPT !.node.stored = @ \cup {b}]
           IN  Good(v) /\ b \in v.node.stored /\ v.node.connMap = w.node.connMap
               /\ v.node.hashMap = w.node.hashMap
<1> DEFINE s == w.node.stored \cup {b}
           v == [w EXCEPT !.node.stored = @ \cup {b}]
<1>1. w \in World /\ w.node \in NodeType /\ s \in SomeBlocks
  BY DEF Good, Fine, World, NodeType, SomeBlocks
<1>2. v.node = [w.node EXCEPT !.stored = s] /\ v.chain = w.chain /\ v.wire = w.wire
      /\ v = [w EXCEPT !.node = v.node]
  BY <1>1 DEF World, NodeType
<1>3. b \in s /\ \A x \in w.node.stored : x \in s
  OBVIOUS
<1> HIDE DEF v, s
<1>4. /\ v.node \in NodeType /\ v.node.stored = s /\ v.node.ready = w.node.ready
      /\ v.node.hashMap = w.node.hashMap /\ v.node.connMap = w.node.connMap
  BY <1>1, <1>2 DEF NodeType
<1>5. v \in World
  BY <1>1, <1>2, <1>4 DEF World
<1>6. Fine(v)
  BY <1>2, <1>3, <1>4, <1>5 DEF Good, Fine, Tidy
<1>7. Executable(v) /\ VerifiedStored(v) /\ StepReady(v)
  BY <1>2, <1>3, <1>4 DEF Good, Executable, VerifiedStored, StepReady
<1> QED
  BY <1>2, <1>3, <1>4, <1>6, <1>7 DEF Good, v

LEMMA TakenKeeps ==
    ASSUME NEW w, Fine(w), NEW p \in Peers, NEW b \in Blocks, Open(w, p)
    PROVE  Keeps(w, Taken(w, p, b)) /\ Open(Taken(w, p, b), p)
<1> DEFINE wnd == w.node.connMap[p].wnd + 1
           size == IF wnd > 3 * InitBlockWnd THEN 3 * InitBlockWnd ELSE wnd
           r == [w.node.connMap[p] EXCEPT !.hashes = @ \ {b}, !.wnd = size]
           c == [w.node.connMap EXCEPT ![p] = r]
           m == [w.node.hashMap EXCEPT ![b] = None]
           o == [w.node.sources EXCEPT ![b] = {}]
           v == Taken(w, p, b)
<1>1. w \in World /\ w.node \in NodeType /\ w.node.connMap \in ConnMaps
  BY DEF Fine, World, NodeType
<1>2. size \in Nat
  BY SyncAssumption DEF Open, ConnType
<1> HIDE DEF size
<1>3. r \in ConnType
  BY <1>2 DEF Open, ConnType
<1>4. v.node = [w.node EXCEPT !.connMap = c, !.hashMap = m, !.sources = o]
      /\ v.chain = w.chain /\ v.wire = w.wire /\ v = [w EXCEPT !.node = v.node]
  BY <1>1 DEF World, NodeType, Taken, ConnMaps, size
<1> HIDE DEF r, v
<1>5. c \in ConnMaps /\ c[p] \in ConnType
  BY <1>1, <1>3 DEF ConnMaps
<1>6. m \in HashMaps /\ o \in SourceMaps
  BY <1>1 DEF NodeType, HashMaps, SourceMaps
<1>7. Held(m, c)
  BY <1>1, <1>3 DEF Held, Fine, Tidy, NodeType, HashMaps, ConnMaps
<1> HIDE DEF c, m, o
<1>8. /\ v.node \in NodeType /\ v.node.connMap = c /\ v.node.hashMap = m
      /\ v.node.stored = w.node.stored /\ v.node.ready = w.node.ready
  BY <1>1, <1>4, <1>5, <1>6 DEF NodeType
<1>9. v \in World
  BY <1>1, <1>4, <1>8 DEF World
<1>10. Keeps(w, v)
  BY <1>4, <1>7, <1>8, <1>9, NodeKeeps DEF NodeChanged
<1> QED
  BY <1>5, <1>8, <1>10 DEF Open, v

LEMMA OnRecvBlockGood ==
    ASSUME NEW w, Good(w), NEW p \in Peers, NEW b \in Blocks
    PROVE  Good(OnRecvBlock(w, p, b))
<1> DEFINE v == [w EXCEPT !.node.stored = @ \cup {b}]
           u == Taken(v, p, b)
           x == OnFreeBlockWnd(u, p)
           y == AddPendingBlock(x, b, p, FALSE)
<1>1. Good(v) /\ Fine(v) /\ b \in v.node.stored /\ v.node.connMap = w.node.connMap
  BY StoreGood DEF Good
<1>2. w \in World /\ w.node \in NodeType
  BY DEF Good, Fine, World
<1>3. OnRecvBlock(w, p, b) = IF w.node.connMap[p] = None \/ w.node.hashMap[b] = None THEN w
                             ELSE IF w.node.hashMap[b] # p THEN v ELSE y
  BY DEF OnRecvBlock
<1> HIDE DEF v
<1>4. ASSUME w.node.connMap[p] # None PROVE Good(y)
  <2>1. Open(v, p)
    BY <1>1, <1>2, <1>4 DEF Open, NodeType, ConnMaps
  <2>2. Keeps(v, u) /\ Open(u, p)
    BY <1>1, <2>1, TakenKeeps
  <2> HIDE DEF u
  <2>3. Keeps(u, x)
    BY <2>2, FreeWindowKeeps, KeepsFine
  <2> HIDE DEF x
  <2>4. b \in x.node.stored
    BY <1>1, <2>2, <2>3 DEF Keeps, Same
  <2>5. Keeps(x, y)
    BY <2>3, <2>4, AddPendingKeeps, KeepsFine
  <2> HIDE DEF y
  <2> QED
    BY <1>1, <2>2, <2>3, <2>5, KeepsGood
<1> QED
  BY <1>1, <1>3, <1>4

LEMMA ReceiveBlockInv ==
    ASSUME IInv, NEW p \in Peers, ReceiveBlock(p)
    PROVE  IInv'
<1> DEFINE pkg == Head(wire.back[p])
<1>1. Keeps(Now, Took(p)) /\ pkg \in Package
  BY TookKeeps DEF ReceiveBlock
<1>2. pkg.block \in Blocks
  <2>1. pkg.type = "block"
    BY DEF ReceiveBlock
  <2> QED
    BY <1>1, <2>1 DEF Package, BlockPackage, HeaderPackage
<1> HIDE DEF pkg
<1>3. Good(OnRecvBlock(Took(p), p, pkg.block))
  BY <1>1, <1>2, OnRecvBlockGood, KeepsGood DEF IInv
<1>4. peerBest' \in [Peers -> BG]
  BY DEF ReceiveBlock, IInv
<1> QED
  BY <1>3, <1>4, BecomeInv DEF ReceiveBlock, pkg

LEMMA StoredBlockInv ==
    ASSUME IInv, StoredBlock
    PROVE  IInv'
<1> DEFINE h == Head(node.ready)
           r == Tail(node.ready)
           v == [Now EXCEPT !.node.ready = Tail(@)]
<1>1. Fine(Now) /\ Now \in World /\ node \in NodeType /\ Now.node = node
  BY NowFacts
<1>2. node.ready \in Seq(Blocks) /\ node.ready # <<>>
  BY <1>1 DEF StoredBlock, NodeType, BlockQueues
<1>3. \A i \in DOMAIN node.ready : node.ready[i] \in node.stored
  BY <1>1 DEF Fine, Tidy
<1>4. h \in Blocks /\ h \in node.stored
  BY <1>2, <1>3
<1>5. r \in BlockQueues /\ \A i \in DOMAIN r : r[i] \in node.stored
  BY <1>2, <1>3 DEF BlockQueues
<1> HIDE DEF r, h
<1>6. v.node = [node EXCEPT !.ready = r] /\ v.chain = Now.chain /\ v.wire = Now.wire
      /\ v = [Now EXCEPT !.node = v.node]
  BY <1>1 DEF World, NodeType, r
<1> HIDE DEF v
<1>7. /\ v.node \in NodeType /\ v.node.connMap = node.connMap /\ v.node.hashMap = node.hashMap
      /\ v.node.stored = node.stored /\ v.node.ready = r
  BY <1>1, <1>5, <1>6 DEF NodeType
<1>8. v \in World
  BY <1>1, <1>6, <1>7 DEF World
<1>9. Keeps(Now, v)
  BY <1>1, <1>5, <1>6, <1>7, <1>8 DEF Keeps, Same, Fine, Tidy
<1>10. Keeps(v, AddPendingBlock(v, h, None, FALSE))
  BY <1>4, <1>7, <1>9, AddPendingKeeps, KeepsFine
<1>11. Keeps(Now, AddPendingBlock(v, h, None, FALSE)) /\ peerBest' \in [Peers -> BG]
  BY <1>9, <1>10, KeepsTwice DEF StoredBlock, IInv
<1> QED
  BY <1>11, KeptInv DEF StoredBlock, v, h

LEMMA ConnectionErrorInv ==
    ASSUME IInv, NEW p \in Peers, ConnectionError(p)
    PROVE  IInv'
<1> DEFINE v == Closed(Now, p)
<1>4. Fine(Now)
  BY DEF IInv, Good
<1>1. Keeps(Now, v)
  BY <1>4, ClosedKeeps
<1>2. OnRemoveConnection(v, NetworkName) = v /\ ForgetConnection(v, FullId(NetworkName)) = v
  BY IdFacts, Zenon DEF OnRemoveConnection, ForgetConnection
<1>3. Become(v) /\ peerBest' \in [Peers -> BG]
  BY <1>2 DEF ConnectionError, IInv
<1> QED
  BY <1>1, <1>3, KeptInv

LEMMA ReceiveMalformedInv ==
    ASSUME IInv, NEW p \in Peers, ReceiveMalformed(p)
    PROVE  IInv'
<1>1. Keeps(Now, Ban(Now, p))
  BY NowFacts, BanKeeps
<1> QED
  BY <1>1, KeptInv DEF ReceiveMalformed, IInv

LEMMA HeadersTimeoutInv ==
    ASSUME IInv, NEW p \in Peers, HeadersTimeout(p)
    PROVE  IInv'
<1>1. Keeps(Now, Ban(Now, p))
  BY NowFacts, BanKeeps
<1> QED
  BY <1>1, KeptInv DEF HeadersTimeout, IInv

LEMMA HalvedKeeps ==
    ASSUME NEW w, Fine(w), NEW h \in Blocks, w.node.hashMap[h] # None
    PROVE  LET p == w.node.hashMap[h]
           IN  p \in Peers /\ Keeps(w, [w EXCEPT !.node.connMap[p].wnd = @ \div 2])
<1> DEFINE p == w.node.hashMap[h]
           r == [w.node.connMap[p] EXCEPT !.wnd = @ \div 2]
           c == [w.node.connMap EXCEPT ![p] = r]
           v == [w EXCEPT !.node.connMap[p].wnd = @ \div 2]
<1>1. w \in World /\ w.node \in NodeType
  BY DEF Fine, World
<1>2. p \in Peers /\ w.node.connMap[p] \in ConnType /\ w.node.connMap \in ConnMaps
  BY <1>1 DEF Fine, Tidy, Held, NodeType, HashMaps
<1> HIDE DEF p
<1>3. r \in ConnType
  BY <1>2 DEF ConnType
<1>4. v.node = [w.node EXCEPT !.connMap = c] /\ v.chain = w.chain /\ v.wire = w.wire
      /\ v = [w EXCEPT !.node = v.node]
  BY <1>1, <1>2 DEF World, NodeType, ConnMaps
<1> HIDE DEF r, v
<1>5. c \in ConnMaps /\ Held(w.node.hashMap, c)
  BY <1>1, <1>2, <1>3 DEF ConnMaps, Held, Fine, Tidy, NodeType, HashMaps
<1> HIDE DEF c
<1>6. /\ v.node \in NodeType /\ v.node.connMap = c /\ v.node.hashMap = w.node.hashMap
      /\ v.node.stored = w.node.stored /\ v.node.ready = w.node.ready
  BY <1>1, <1>4, <1>5 DEF NodeType
<1>7. v \in World
  BY <1>1, <1>4, <1>6 DEF World
<1>8. NodeChanged(w, v, v.node)
  BY <1>4, <1>7 DEF NodeChanged
<1>9. Keeps(w, v)
  BY <1>5, <1>6, <1>8, NodeKeeps
<1> QED
  BY <1>2, <1>9 DEF v, p

LEMMA BlockTimeoutInv ==
    ASSUME IInv, NEW h \in Blocks, BlockTimeout(h)
    PROVE  IInv'
<1> DEFINE p == node.hashMap[h]
           v == [Now EXCEPT !.node.connMap[p].wnd = @ \div 2]
<1>1. Fine(Now) /\ Now.node = node
  BY NowFacts
<1>2. p \in Peers /\ Keeps(Now, v)
  <2>1. Now.node.hashMap[h] # None
    BY <1>1 DEF BlockTimeout
  <2>2. /\ Now.node.hashMap[h] \in Peers
        /\ Keeps(Now, [Now EXCEPT !.node.connMap[Now.node.hashMap[h]].wnd = @ \div 2])
    BY <1>1, <2>1, HalvedKeeps
  <2> QED
    BY <1>1, <2>2
<1>3. Become(Ban(v, p)) \/ Become(v)
  BY Zenon DEF BlockTimeout
<1> HIDE DEF v, p
<1>4. Keeps(Now, Ban(v, p))
  BY <1>2, BanKeeps, KeepsTwice, KeepsFine
<1>5. peerBest' \in [Peers -> BG]
  BY DEF BlockTimeout, IInv
<1> QED
  BY <1>2, <1>3, <1>4, <1>5, KeptInv

-----------------------------------------------------------------------------
(* Headers.                                                                 *)

\* A world is what its three parts are.
LEMMA ChainChanged ==
    ASSUME NEW w, Fine(w), NEW c \in ChainType, NEW v, v = [w EXCEPT !.chain = c],
           \A i \in DOMAIN c.blocks : c.blocks[i].block \in w.node.stored
    PROVE  Fine(v) /\ v.chain = c /\ v.node = w.node /\ v.wire = w.wire
<1>1. v \in World /\ v.chain = c /\ v.node = w.node /\ v.wire = w.wire
  BY DEF Fine, World
<1> QED
  BY <1>1 DEF Fine, Tidy

LEMMA HeadersDoneGood ==
    ASSUME NEW w, Good(w), w.chain.headers # <<>>
    PROVE  Good(HeadersDone(w))
<1> DEFINE t == Tail(w.chain.headers)
           c == [w.chain EXCEPT !.headers = t, !.step = None]
           v == HeadersDone(w)
<1>1. w \in World /\ w.chain \in ChainType /\ w.chain.headers \in Seq(HeaderEntry)
  BY DEF Good, Fine, World, ChainType, HeaderEntries
<1>2. t \in HeaderEntries
  BY <1>1 DEF HeaderEntries
<1>3. v = [w EXCEPT !.chain = c]
  BY <1>1 DEF HeadersDone, World, ChainType
<1> HIDE DEF t, v
<1>4. /\ c \in ChainType /\ c.verified = w.chain.verified /\ c.tip = w.chain.tip
      /\ c.adding = w.chain.adding /\ c.blocks = w.chain.blocks /\ c.step = None
  BY <1>1, <1>2 DEF ChainType, StepOpt
<1> HIDE DEF c
<1>5. Fine(v) /\ v.chain = c /\ v.node = w.node
  BY <1>3, <1>4, ChainChanged DEF Good, Fine, Tidy
<1>6. Linked(c) /\ Grounded(c) /\ Highest(c)
  BY <1>4 DEF Good, Linked, Grounded, Highest
<1>7. Executable(v) /\ VerifiedStored(v) /\ StepReady(v)
  BY <1>4, <1>5 DEF Good, Executable, VerifiedStored, StepReady
<1> QED
  BY <1>5, <1>6, <1>7 DEF Good, v

LEMMA KeptDone ==
    ASSUME NEW w, NEW v, Good(w), w.chain.headers # <<>>, Keeps(w, v)
    PROVE  Good(HeadersDone(v))
  BY KeepsGood, HeadersDoneGood DEF Keeps, Same

LEMMA LeastIndex ==
    ASSUME NEW n \in Nat, NEW S \in SUBSET (1 .. n), S # {}
    PROVE  \E i \in S : \A j \in S : i <= j
<1> DEFINE P == {k \in Nat : \A i \in S : i > k}
<1> SUFFICES ASSUME \A i \in S : \E j \in S : ~(i <= j) PROVE FALSE
  OBVIOUS
<1>1. 0 \in P
  OBVIOUS
<1>2. ASSUME NEW k \in Nat, k \in P PROVE k + 1 \in P
  <2>1. \A i \in S : i \in Nat /\ i >= k + 1
    BY <1>2
  <2>2. k + 1 \notin S
    BY <2>1
  <2> QED
    BY <2>1, <2>2
<1> HIDE DEF P
<1>3. n \in P
  BY <1>1, <1>2, Choice!Induct
<1>4. \A i \in S : i > n
  BY <1>3 DEF P
<1>5. PICK i \in S : i \in 1 .. n
  OBVIOUS
<1> QED
  BY <1>4, <1>5

\* The numbers grow along headers, so none of them is there twice.
LEMMA SegmentDistinct ==
    ASSUME NEW hs \in Segments
    PROVE  Distinct(hs)
<1> DEFINE P == {k \in Nat : k + 1 <= Len(hs) => Number(hs[k + 1]) = Number(hs[1]) + k}
<1>1. hs \in Seq(Blocks) /\ Len(hs) \in Nat /\ DOMAIN hs = 1 .. Len(hs)
      /\ \A i \in 1 .. Len(hs) - 1 : Parent[hs[i + 1]] = hs[i]
  BY DEF Segments
<1>2. ASSUME NEW b \in Blocks PROVE Number(b) = Number(Parent[b]) + 1 /\ Number(Parent[b]) \in Nat
  <2>1. b \in BG /\ b # Genesis /\ Parent[b] \in BG
    BY SyncAssumption DEF BG
  <2>2. Path[b] = Append(Path[Parent[b]], b) /\ Path[Parent[b]] \in Seq(Blocks)
    BY <2>1, PathFacts
  <2> QED
    BY <2>2 DEF Number
<1>3. \A i \in 1 .. Len(hs) : hs[i] \in Blocks /\ Number(hs[i]) \in Nat
  BY <1>1, PathFacts DEF BG
<1>4. 0 \in P
  BY <1>3
<1>5. ASSUME NEW k \in Nat, k \in P PROVE k + 1 \in P
  <2> SUFFICES ASSUME k + 2 <= Len(hs) PROVE Number(hs[k + 2]) = Number(hs[1]) + (k + 1)
    OBVIOUS
  <2>1. k + 1 \in 1 .. Len(hs) - 1 /\ (k + 1) + 1 = k + 2 /\ k + 2 \in 1 .. Len(hs) /\ 1 \in 1 .. Len(hs)
    BY <1>1
  <2>2. Parent[hs[k + 2]] = hs[k + 1]
    BY <1>1, <2>1
  <2>3. Number(hs[k + 1]) = Number(hs[1]) + k
    BY <1>1, <1>5, <2>1
  <2> QED
    BY <1>2, <1>3, <2>1, <2>2, <2>3
<1> HIDE DEF P
<1>6. \A k \in Nat : k \in P
  BY <1>4, <1>5, Choice!Induct
<1>7. ASSUME NEW i \in 1 .. Len(hs) PROVE Number(hs[i]) = Number(hs[1]) + (i - 1)
  <2>1. i - 1 \in Nat /\ (i - 1) + 1 = i
    BY <1>1
  <2> QED
    BY <1>1, <1>6, <2>1 DEF P
<1> SUFFICES ASSUME NEW i \in DOMAIN hs, NEW j \in DOMAIN hs, hs[i] = hs[j] PROVE i = j
  BY DEF Distinct
<1>8. Number(hs[1]) \in Nat /\ Number(hs[1]) + (i - 1) = Number(hs[1]) + (j - 1) /\ i \in Nat /\ j \in Nat
  BY <1>1, <1>3, <1>7
<1> QED
  BY <1>8

\* What VerifyHeaders finds: the headers to save are new, and each follows a known
\* one or another that is saved.
LEMMA VerifyFacts ==
    ASSUME NEW c, c.verified \in States, Linked(c), NEW hs \in Segments, hs # <<>>
    PROVE  LET res == VerifyHeaders(hs, c.verified)
           IN  /\ res.err \in {"OK", "NOT_FOUND", "INVALID_BLOCK"}
               /\ res.toRequest \in Seq(Blocks) /\ Distinct(res.toRequest)
               /\ \A b \in Range(res.toSave) :
                      /\ b \in Blocks /\ c.verified[b] = "absent"
                      /\ Parent[b] \in Range(res.toSave) \/ c.verified[Parent[b]] # "absent"
<1> DEFINE unknown == {i \in DOMAIN hs : c.verified[hs[i]] = "absent"}
           first == IF unknown = {} THEN Len(hs) + 1 ELSE CHOOSE i \in unknown : \A j \in unknown : i <= j
           seen == SubSeq(hs, 1, first - 1)
           save == SubSeq(hs, first, Len(hs))
           ask == Those(seen, {h \in Blocks : c.verified[h] = "notVerified"}) \o save
           lost == [err |-> "NOT_FOUND", toRequest |-> <<>>, toSave |-> <<>>]
           bad == [err |-> "INVALID_BLOCK", toRequest |-> <<>>, toSave |-> <<>>]
           good == [err |-> "OK", toRequest |-> ask, toSave |-> save]
           res == VerifyHeaders(hs, c.verified)
<1>1. hs \in Seq(Blocks) /\ Len(hs) \in Nat /\ DOMAIN hs = 1 .. Len(hs) /\ Len(hs) >= 1
      /\ \A i \in 1 .. Len(hs) - 1 : Parent[hs[i + 1]] = hs[i]
  BY DEF Segments
<1>2. res \in {lost, bad} \/ (c.verified[Parent[hs[1]]] # "absent" /\ res = good)
  BY DEF VerifyHeaders
<1>3. first \in 1 .. Len(hs) + 1 /\ (first \in unknown \/ first = Len(hs) + 1)
      /\ \A i \in 1 .. first - 1 : i \notin unknown
  <2>1. CASE unknown = {}
    BY <1>1, <2>1
  <2>2. CASE unknown # {}
    <3>1. unknown \in SUBSET (1 .. Len(hs))
      BY <1>1
    <3> HIDE DEF unknown
    <3>2. first \in unknown /\ \A j \in unknown : first <= j
      BY <1>1, <2>2, <3>1, LeastIndex
    <3> HIDE DEF first
    <3> QED
      BY <1>1, <3>1, <3>2
  <2> QED
    BY <2>1, <2>2
<1> HIDE DEF res, first
<1>4. /\ seen \in Seq(Blocks) /\ Len(seen) = first - 1
      /\ \A i \in 1 .. first - 1 : seen[i] = hs[i]
  <2>1. first - 1 \in 0 .. Len(hs)
    BY <1>1, <1>3
  <2> QED
    BY <1>1, <2>1, PrefixFacts
<1>5. /\ save \in Seq(Blocks) /\ Len(save) = Len(hs) - first + 1
      /\ \A i \in 1 .. Len(hs) - first + 1 : save[i] = hs[first + i - 1]
  <2>1. Len(hs) \in 0 .. Len(hs)
    BY <1>1
  <2>2. /\ save \in Seq(Blocks) /\ Len(save) = IF first <= Len(hs) THEN Len(hs) - first + 1 ELSE 0
        /\ \A i \in 1 .. Len(hs) - first + 1 : save[i] = hs[first + i - 1]
    BY <1>1, <1>3, <2>1, PartFacts
  <2> QED
    BY <1>1, <1>3, <2>2
<1> HIDE DEF seen, save
<1>7. ASSUME NEW b PROVE b \in Range(save) <=> \E j \in first .. Len(hs) : b = hs[j]
  <2>1. ASSUME b \in Range(save) PROVE \E j \in first .. Len(hs) : b = hs[j]
    <3>1. PICK i \in 1 .. Len(hs) - first + 1 : b = save[i]
      BY <1>1, <1>3, <1>5, <2>1 DEF Range
    <3>2. first + i - 1 \in first .. Len(hs)
      BY <1>1, <1>3
    <3> QED
      BY <1>5, <3>1, <3>2
  <2>2. ASSUME NEW j \in first .. Len(hs), b = hs[j] PROVE b \in Range(save)
    <3>1. j - first + 1 \in 1 .. Len(hs) - first + 1 /\ first + (j - first + 1) - 1 = j
      BY <1>1, <1>3
    <3>2. save[j - first + 1] = b /\ j - first + 1 \in DOMAIN save
      BY <1>1, <1>3, <1>5, <2>2, <3>1
    <3> QED
      BY <3>2 DEF Range
  <2> QED
    BY <2>1, <2>2
<1>8. ASSUME NEW j \in first .. Len(hs) PROVE c.verified[hs[j]] = "absent"
  <2> DEFINE S == {b \in Blocks : (\E i \in first .. Len(hs) : b = hs[i]) /\ c.verified[b] # "absent"}
  <2> SUFFICES ASSUME S # {} PROVE FALSE
    <3>1. hs[j] \in Blocks
      BY <1>1, <1>3
    <3> QED
      BY <3>1
  <2>1. PICK b \in S : Parent[b] \notin S
    BY SyncAssumption
  <2>2. PICK i \in first .. Len(hs) : b = hs[i]
    BY <2>1
  <2>3. c.verified[Parent[b]] # "absent"
    BY <2>1 DEF Linked
  <2>4. i # first
    BY <1>1, <1>3, <2>1, <2>2
  <2>5. i - 1 \in 1 .. Len(hs) - 1 /\ i - 1 \in first .. Len(hs) /\ (i - 1) + 1 = i /\ i - 1 \in DOMAIN hs
    BY <1>1, <1>3, <2>4
  <2>6. Parent[b] = hs[i - 1] /\ hs[i - 1] \in Blocks
    <3>1. Parent[hs[(i - 1) + 1]] = hs[i - 1]
      BY <1>1, <2>5
    <3> QED
      BY <1>1, <2>2, <2>5, <3>1
  <2> QED
    BY <2>1, <2>3, <2>5, <2>6
<1>6. ask \in Seq(Blocks) /\ Distinct(ask)
  <2> DEFINE old == Those(seen, {h \in Blocks : c.verified[h] = "notVerified"})
  <2>1. Distinct(hs)
    BY SegmentDistinct
  <2>2. Distinct(seen) /\ Distinct(save)
    <3>1. DOMAIN seen = 1 .. first - 1 /\ DOMAIN save = 1 .. Len(hs) - first + 1
      BY <1>1, <1>3, <1>4, <1>5
    <3>2. \A i \in DOMAIN seen : seen[i] = hs[i] /\ i \in DOMAIN hs
      BY <1>1, <1>3, <1>4, <3>1
    <3>3. \A i \in DOMAIN save : save[i] = hs[first + i - 1] /\ first + i - 1 \in DOMAIN hs /\ i \in Nat
      <4>1. first \in 1 .. Len(hs) + 1 /\ Len(hs) \in Nat
        BY <1>1, <1>3
      <4>2. \A i \in 1 .. Len(hs) - first + 1 : first + i - 1 \in 1 .. Len(hs) /\ i \in Nat
        BY <4>1
      <4> QED
        BY <1>1, <1>5, <3>1, <4>2
    <3>4. Distinct(seen)
      BY <2>1, <3>2 DEF Distinct
    <3>5. ASSUME NEW i \in DOMAIN save, NEW j \in DOMAIN save, save[i] = save[j] PROVE i = j
      <4>1. first + i - 1 = first + j - 1
        BY <2>1, <3>3, <3>5 DEF Distinct
      <4> QED
        BY <1>3, <1>1, <3>3, <4>1
    <3> QED
      BY <3>4, <3>5 DEF Distinct
  <2>3. Chosen(old, Len(seen), seen, {h \in Blocks : c.verified[h] = "notVerified"}, Blocks)
    BY <1>4, ThoseFacts
  <2>4. old \in Seq(Blocks) /\ Distinct(old) /\ \A i \in DOMAIN old : c.verified[old[i]] = "notVerified"
    BY <2>2, <2>3 DEF Chosen
  <2>5. \A i \in DOMAIN save : c.verified[save[i]] = "absent"
    BY <1>7, <1>8 DEF Range
  <2> HIDE DEF old
  <2>6. ask = old \o save
    BY DEF old
  <2> HIDE DEF ask
  <2>7. ask \in Seq(Blocks)
    BY <1>5, <2>4, <2>6
  <2>8. /\ Len(old) \in Nat /\ Len(save) \in Nat /\ DOMAIN old = 1 .. Len(old) /\ DOMAIN save = 1 .. Len(save)
        /\ DOMAIN ask = 1 .. Len(old) + Len(save)
        /\ \A i \in 1 .. Len(old) + Len(save) :
               ask[i] = IF i <= Len(old) THEN old[i] ELSE save[i - Len(old)]
    BY <1>5, <2>4, <2>6
  <2>9. ASSUME NEW i \in DOMAIN ask, NEW j \in DOMAIN ask, ask[i] = ask[j] PROVE i = j
    <3>1. CASE i <= Len(old) /\ j <= Len(old)
      BY <2>4, <2>8, <2>9, <3>1 DEF Distinct
    <3>2. CASE ~(i <= Len(old)) /\ ~(j <= Len(old))
      <4>1. i - Len(old) \in DOMAIN save /\ j - Len(old) \in DOMAIN save
        BY <2>8, <3>2
      <4>2. save[i - Len(old)] = save[j - Len(old)]
        BY <2>8, <2>9, <3>2
      <4>3. i - Len(old) = j - Len(old)
        BY <2>2, <4>1, <4>2 DEF Distinct
      <4> QED
        BY <2>8, <4>3
    <3>3. ASSUME NEW m \in DOMAIN ask, NEW n \in DOMAIN ask, m <= Len(old), ~(n <= Len(old))
          PROVE  ask[m] # ask[n]
      <4>1. m \in DOMAIN old /\ n - Len(old) \in DOMAIN save
        BY <2>8, <3>3
      <4>2. c.verified[ask[m]] = "notVerified" /\ c.verified[ask[n]] = "absent"
        BY <2>4, <2>5, <2>8, <3>3, <4>1
      <4> QED
        BY <4>2
    <3> QED
      BY <2>9, <3>1, <3>2, <3>3
  <2> QED
    BY <2>7, <2>9 DEF Distinct
<1> HIDE DEF ask
<1>9. ASSUME c.verified[Parent[hs[1]]] # "absent", NEW j \in first .. Len(hs)
      PROVE  Parent[hs[j]] \in Range(save) \/ c.verified[Parent[hs[j]]] # "absent"
  <2>1. CASE j = 1
    BY <1>9, <2>1
  <2>2. CASE j # 1
    <3>1. j - 1 \in 1 .. Len(hs) - 1 /\ (j - 1) + 1 = j /\ j - 1 \in DOMAIN hs
      BY <1>1, <1>3, <2>2
    <3>2. Parent[hs[j]] = hs[j - 1]
      <4>1. Parent[hs[(j - 1) + 1]] = hs[j - 1]
        BY <1>1, <3>1
      <4> QED
        BY <3>1, <4>1
    <3>3. CASE j = first
      <4>1. j - 1 \notin unknown
        BY <1>1, <1>3, <3>1, <3>3
      <4> QED
        BY <3>1, <3>2, <4>1
    <3>4. CASE j # first
      <4>1. j - 1 \in first .. Len(hs)
        BY <1>1, <1>3, <3>4
      <4> QED
        BY <1>7, <3>2, <4>1
    <3> QED
      BY <3>3, <3>4
  <2> QED
    BY <2>1, <2>2
<1>10. CASE res \in {lost, bad}
  <2>1. Range(<<>>) = {} /\ <<>> \in Seq(Blocks) /\ Distinct(<<>>)
    BY EmptySeq DEF Range, Distinct
  <2>2. res.err \in {"NOT_FOUND", "INVALID_BLOCK"} /\ res.toRequest = <<>> /\ res.toSave = <<>>
    BY <1>10
  <2>3. /\ res.err \in {"OK", "NOT_FOUND", "INVALID_BLOCK"}
        /\ res.toRequest \in Seq(Blocks) /\ Distinct(res.toRequest)
        /\ \A b \in Range(res.toSave) :
                      /\ b \in Blocks /\ c.verified[b] = "absent"
                      /\ Parent[b] \in Range(res.toSave) \/ c.verified[Parent[b]] # "absent"
    BY <2>1, <2>2
  <2> QED
    BY <2>3 DEF res
<1>11. CASE c.verified[Parent[hs[1]]] # "absent" /\ res = good
  <2>1. ASSUME NEW b \in Range(save)
        PROVE  /\ b \in Blocks /\ c.verified[b] = "absent"
               /\ Parent[b] \in Range(save) \/ c.verified[Parent[b]] # "absent"
    <3>1. PICK j \in first .. Len(hs) : b = hs[j]
      BY <1>7, <2>1
    <3>2. hs[j] \in Blocks
      BY <1>1, <1>3
    <3> QED
      BY <1>8, <1>9, <1>11, <3>1, <3>2
  <2>2. res.err = "OK" /\ res.toRequest = ask /\ res.toSave = save
    BY <1>11
  <2> HIDE DEF good
  <2>3. /\ res.err \in {"OK", "NOT_FOUND", "INVALID_BLOCK"}
        /\ res.toRequest \in Seq(Blocks) /\ Distinct(res.toRequest)
        /\ \A b \in Range(res.toSave) :
                      /\ b \in Blocks /\ c.verified[b] = "absent"
                      /\ Parent[b] \in Range(res.toSave) \/ c.verified[Parent[b]] # "absent"
    BY <1>6, <2>1, <2>2
  <2> QED
    BY <2>3 DEF res
<1> QED
  BY <1>2, <1>10, <1>11

LEMMA VerifyAndSaveGood ==
    ASSUME NEW w, Good(w), NEW e \in HeaderEntry, NEW branch \in Branch,
           w.chain.headers # <<>>, w.chain.headers[1] = e, e.error = "OK"
    PROVE  Good(VerifyAndSave(w, e, branch))
<1> DEFINE res == VerifyHeaders(e.headers, w.chain.verified)
           step == [branch |-> branch, err |-> res.err, toRequest |-> res.toRequest]
           f == [b \in DOMAIN w.chain.verified |->
                    IF b \in Range(res.toSave) THEN "notVerified" ELSE w.chain.verified[b]]
           c == [w.chain EXCEPT !.step = step, !.verified = f]
           v == VerifyAndSave(w, e, branch)
<1>1. w \in World /\ w.chain \in ChainType /\ w.chain.verified \in States /\ Linked(w.chain)
  BY DEF Good, Fine, World, ChainType
<1>2. e.headers \in Segments /\ e.headers # <<>>
  BY DEF HeaderEntry, Sound
<1>3. /\ res.err \in {"OK", "NOT_FOUND", "INVALID_BLOCK"}
      /\ res.toRequest \in Seq(Blocks)
      /\ \A b \in Range(res.toSave) :
             /\ b \in Blocks /\ w.chain.verified[b] = "absent"
             /\ Parent[b] \in Range(res.toSave) \/ w.chain.verified[Parent[b]] # "absent"
  BY <1>1, <1>2, VerifyFacts
<1>4. v = [w EXCEPT !.chain = c]
  BY <1>1 DEF VerifyAndSave, World, ChainType
<1> HIDE DEF res, v
<1>5. step \in StepOpt
  BY <1>3 DEF StepOpt, StepType
<1>6. /\ f \in States
      /\ \A b \in BG : f[b] = IF b \in Range(res.toSave) THEN "notVerified" ELSE w.chain.verified[b]
  BY <1>1 DEF States
<1> HIDE DEF step, f
<1>7. /\ c \in ChainType /\ c.verified = f /\ c.tip = w.chain.tip /\ c.step = step
      /\ c.adding = w.chain.adding /\ c.blocks = w.chain.blocks /\ c.headers = w.chain.headers
  BY <1>1, <1>5, <1>6 DEF ChainType
<1> HIDE DEF c
<1>8. Fine(v) /\ v.chain = c /\ v.node = w.node
  BY <1>4, <1>7, ChainChanged DEF Good, Fine, Tidy
<1>9. \A b \in Blocks : Parent[b] \in BG /\ b \in BG
  BY SyncAssumption DEF BG
<1>10. \A b \in BG : w.chain.verified[b] # "absent" => f[b] = w.chain.verified[b]
  BY <1>3, <1>6
<1>11. \A b \in BG : f[b] = "verified" => w.chain.verified[b] = "verified"
  BY <1>6
<1>12. Linked(c)
  <2> SUFFICES ASSUME NEW b \in Blocks, f[b] # "absent" PROVE f[Parent[b]] # "absent"
    BY <1>7 DEF Linked
  <2>1. Parent[b] \in BG /\ b \in BG
    BY <1>9
  <2>2. CASE b \in Range(res.toSave)
    BY <1>3, <1>6, <2>1, <2>2
  <2>3. CASE b \notin Range(res.toSave)
    <3>1. w.chain.verified[Parent[b]] # "absent"
      BY <1>1, <1>6, <2>1, <2>3 DEF Linked
    <3> QED
      BY <1>10, <2>1, <3>1
  <2> QED
    BY <2>2, <2>3
<1>13. Grounded(c) /\ Highest(c)
  <2>1. Genesis \in BG /\ w.chain.tip \in BG
    BY <1>1 DEF BG, ChainType
  <2>2. /\ w.chain.verified[Genesis] = "verified" /\ w.chain.verified[w.chain.tip] = "verified"
        /\ \A b \in Blocks : w.chain.verified[b] = "verified" =>
              w.chain.verified[Parent[b]] = "verified" /\ Number(b) <= Number(w.chain.tip)
    BY DEF Good, Grounded, Highest
  <2> QED
    BY <1>7, <1>9, <1>10, <1>11, <2>1, <2>2 DEF Grounded, Highest
<1>14. VerifiedStored(v)
  BY <1>7, <1>8, <1>9, <1>11 DEF Good, VerifiedStored
<1>15. Executable(v)
  <2> SUFFICES ASSUME w.chain.adding # None
               PROVE  LET b == w.chain.adding.block
                      IN  f[b] = "notVerified" /\ f[Parent[b]] = "verified" /\ b \in w.node.stored
    BY <1>7, <1>8 DEF Executable
  <2>1. w.chain.adding.block \in Blocks
    BY <1>1 DEF ChainType, EntryOpt, BlockEntry
  <2> QED
    BY <1>9, <1>10, <2>1 DEF Good, Executable
<1>16. StepReady(v)
  BY <1>7, <1>8 DEF StepReady
<1> QED
  BY <1>7, <1>8, <1>12, <1>13, <1>14, <1>15, <1>16 DEF Good, v

LEMMA AddHeadersSyncingGood ==
    ASSUME NEW w, Good(w), NEW e \in HeaderEntry, w.chain.headers # <<>>, w.chain.headers[1] = e,
           Tracked(w, e.from)
    PROVE  Good(AddHeadersSyncing(w, e))
<1> DEFINE record == w.chain.connSync[e.from]
           back == Ancestor(record.lastReq, Number(record.lastReq) - HeaderReqLimit)
           r == [record EXCEPT !.more = FALSE]
           v == [w EXCEPT !.chain.connSync[e.from].more = FALSE]
           u == [w EXCEPT !.chain.connSync[e.from] = r]
<1>1. Fine(w) /\ e.from \in Peers /\ e.request \in Opt /\ e.error \in Errors /\ record \in SyncType
  BY DEF Good, HeaderEntry, Tracked
<1>2. Keeps(w, w) /\ Keeps(w, ChainBan(w, e.from))
  BY <1>1, KeepsSelf, ChainBanKeeps
<1>3. Keeps(w, ContinueSync(v, e.from))
  <2>1. r \in SyncType
    BY <1>1 DEF SyncType
  <2>2. v = u
    BY <1>1 DEF Fine, World, ChainType, SyncMaps
  <2> HIDE DEF r, u, v
  <2>3. Keeps(w, v) /\ Tracked(v, e.from)
    BY <1>1, <2>1, <2>2, SyncSetKeeps DEF u
  <2> QED
    BY <1>1, <2>3, ContinueSyncKeeps, KeepsTwice, KeepsFine
<1>4. ASSUME e.request # None, e.request = record.lastReq
      PROVE  Keeps(w, BeginSync(w, e.from, FALSE, back))
  <2>1. record.lastReq \in BG
    BY <1>1, <1>4 DEF Opt
  <2>2. Number(record.lastReq) \in Nat /\ HeaderReqLimit \in Nat
    BY <2>1, PathFacts, SyncAssumption
  <2>3. back \in BG
    BY <2>1, <2>2, AncestorType
  <2> QED
    BY <1>1, <2>3, BeginSyncKeeps
<1>5. ASSUME e.request # None, e.error \notin {"SKIPPED", "NOT_FOUND"}
      PROVE  Good(VerifyAndSave(w, e, "syncing"))
  BY <1>1, <1>5, VerifyAndSaveGood DEF Errors, Branch
<1>6. \/ e.request # None /\ e.error \notin {"SKIPPED", "NOT_FOUND"}
         /\ AddHeadersSyncing(w, e) = VerifyAndSave(w, e, "syncing")
      \/ AddHeadersSyncing(w, e) \in {HeadersDone(w), HeadersDone(ChainBan(w, e.from)),
                                      HeadersDone(ContinueSync(v, e.from))}
      \/ (e.request # None /\ e.request = record.lastReq
          /\ AddHeadersSyncing(w, e) = HeadersDone(BeginSync(w, e.from, FALSE, back)))
  BY DEF AddHeadersSyncing
<1> HIDE DEF back, v, record
<1> QED
  BY <1>2, <1>3, <1>4, <1>5, <1>6, KeptDone

LEMMA AddHeadersInv ==
    ASSUME IInv, AddHeaders
    PROVE  IInv'
<1> DEFINE e == Head(chain.headers)
           created == [Now EXCEPT !.chain.connSync[e.from] = SyncRecord("synced", TRUE)]
           unknown == chain.connSync[e.from] = None
<1>1. /\ Fine(Now) /\ Good(Now) /\ Now.node = node /\ Now.chain = chain /\ Now.wire = wire
      /\ chain \in ChainType /\ peerBest' \in [Peers -> BG]
  BY NowFacts DEF IInv, AddHeaders
<1>2. /\ chain.headers # <<>> /\ chain.headers \in Seq(HeaderEntry)
  BY <1>1 DEF ChainType, HeaderEntries, AddHeaders
<1>3. e \in HeaderEntry /\ chain.headers[1] = e
  BY <1>2
<1>4. e.from \in Peers /\ (e.request = None => e.error = "OK") /\ e.request \in Opt
  BY <1>3 DEF HeaderEntry, Sound
<1>5. \/ Become(HeadersDone(Now))
      \/ e.request = None /\ Become(VerifyAndSave(created, e, "synced"))
      \/ ~unknown /\ Become(AddHeadersSyncing(Now, e))
      \/ e.request = None /\ Become(VerifyAndSave(Now, e, "synced"))
      \/ Become(HeadersDone(ChainBan(Now, e.from)))
  BY DEF AddHeaders
<1> HIDE DEF e, unknown
<1>6. Good(HeadersDone(Now)) /\ Good(HeadersDone(ChainBan(Now, e.from)))
  BY <1>1, <1>2, <1>4, KeepsSelf, ChainBanKeeps, KeptDone
<1>7. ASSUME e.request = None
      PROVE  Good(VerifyAndSave(created, e, "synced")) /\ Good(VerifyAndSave(Now, e, "synced"))
  <2>1. SyncRecord("synced", TRUE) \in SyncType
    BY DEF SyncRecord, SyncType, Branch, Opt
  <2>2. Keeps(Now, created)
    BY <1>1, <1>4, <2>1, SyncSetKeeps
  <2> HIDE DEF created
  <2>3. Good(created) /\ created.chain.headers # <<>> /\ created.chain.headers[1] = e
    BY <1>1, <1>2, <1>3, <2>2, KeepsGood DEF Keeps, Same
  <2> QED
    BY <1>1, <1>2, <1>3, <1>4, <1>7, <2>3, VerifyAndSaveGood DEF Branch
<1>8. ASSUME ~unknown PROVE Good(AddHeadersSyncing(Now, e))
  <2>1. Tracked(Now, e.from)
    BY <1>1, <1>4, <1>8 DEF Tracked, ChainType, SyncMaps, unknown
  <2> QED
    BY <1>1, <1>2, <1>3, <2>1, AddHeadersSyncingGood
<1> HIDE DEF created
<1> QED
  BY <1>1, <1>5, <1>6, <1>7, <1>8, BecomeInv

LEMMA ReceivedKeeps ==
    ASSUME NEW w, Fine(w), NEW e \in HeaderEntry, e.headers # <<>>, NEW more \in BOOLEAN
    PROVE  Keeps(w, Received(w, e, more)) /\ StillTracked(w, Received(w, e, more))
<1> DEFINE last == e.headers[Len(e.headers)]
           record == w.chain.connSync[e.from]
           r == [record EXCEPT !.lastRecv = last, !.more = more]
           v == [w EXCEPT !.chain.connSync[e.from] = r]
<1>1. w \in World /\ w.chain.connSync \in SyncMaps /\ e.from \in Peers /\ record \in SyncType \cup {None}
  BY DEF Fine, World, ChainType, SyncMaps, HeaderEntry
<1>2. last \in BG
  BY DEF HeaderEntry, Segments, BG
<1>3. CASE record = None
  BY <1>3, KeepsSelf DEF Received, StillTracked
<1>4. CASE record # None
  <2>1. Received(w, e, more) = v
    BY <1>4 DEF Received
  <2> HIDE DEF last
  <2>2. r \in SyncType
    <3>1. last \in Opt /\ record \in SyncType
      BY <1>1, <1>2, <1>4 DEF Opt
    <3> HIDE DEF record
    <3> QED
      BY <1>2, <3>1 DEF SyncType
  <2> HIDE DEF r
  <2>3. Keeps(w, v) /\ StillTracked(w, v)
    BY <1>1, <2>2, SyncSetKeeps
  <2> HIDE DEF v
  <2> QED
    BY <2>1, <2>3
<1> QED
  BY <1>3, <1>4

LEMMA HeadersVerifiedInv ==
    ASSUME IInv, HeadersVerified
    PROVE  IInv'
<1> DEFINE e    == Head(chain.headers)
           p    == e.from
           step == chain.step
           last == e.headers[Len(e.headers)]
           full == Received(Now, e, Len(e.headers) = HeaderReqLimit)
           kept == Received(Now, e, IF chain.connSync[p] = None THEN FALSE ELSE chain.connSync[p].more)
           back == Ancestor(chain.tip, Number(chain.tip) - ConfirmDepth + 1)
<1>1. /\ Fine(Now) /\ Good(Now) /\ Now.node = node /\ Now.chain = chain /\ Now.wire = wire
      /\ chain \in ChainType /\ peerBest' \in [Peers -> BG]
  BY NowFacts DEF IInv, HeadersVerified
<1>2. step # None /\ chain.headers # <<>> /\ chain.headers[1].error = "OK" /\ chain.headers \in Seq(HeaderEntry)
  BY <1>1 DEF HeadersVerified, Good, StepReady, ChainType, HeaderEntries
<1>3. e \in HeaderEntry /\ e.error = "OK"
  BY <1>2
<1>4. p \in Peers /\ e.headers # <<>> /\ last \in BG
  BY <1>3 DEF HeaderEntry, Sound, Segments, BG
<1>5. step.toRequest \in Seq(Blocks)
  BY <1>1, <1>2 DEF ChainType, StepOpt, StepType
<1>6. back \in BG
  <2>1. chain.tip \in BG /\ ConfirmDepth \in Nat \ {0}
    BY <1>1, SyncAssumption DEF ChainType
  <2>2. Number(chain.tip) \in Nat
    BY <2>1, PathFacts
  <2> QED
    BY <2>1, <2>2, AncestorType
<1>7. \/ Become(HeadersDone(ChainBan(Now, p)))
      \/ Become(HeadersDone(BeginSync(Now, p, FALSE, back)))
      \/ Become(HeadersDone(RequestBlocks(kept, p, step.toRequest)))
      \/ Become(HeadersDone(RequestBlocks(full, p, step.toRequest)))
      \/ chain.connSync[p] # None /\ Become(HeadersDone(ContinueSync(full, p)))
      \/ Become(HeadersDone(RequestHeaders(Now, p, FALSE, last)))
      \/ Become(HeadersDone(Now))
  BY DEF HeadersVerified
<1>8. Keeps(Now, full) /\ StillTracked(Now, full)
  BY <1>1, <1>3, <1>4, ReceivedKeeps
<1>9. Keeps(Now, kept)
  <2>1. (IF chain.connSync[p] = None THEN FALSE ELSE chain.connSync[p].more) \in BOOLEAN
    BY <1>1, <1>4 DEF ChainType, SyncMaps, SyncType
  <2> QED
    BY <1>1, <1>3, <1>4, <2>1, ReceivedKeeps
<1>10. chain.connSync[p] # None => Tracked(full, p)
  BY <1>1, <1>4, <1>8 DEF StillTracked, Tracked, ChainType, SyncMaps
<1> HIDE DEF full, kept, back, p, last, step, e
<1>11. /\ Keeps(Now, Now) /\ Keeps(Now, ChainBan(Now, p))
       /\ Keeps(Now, BeginSync(Now, p, FALSE, back))
       /\ Keeps(Now, RequestHeaders(Now, p, FALSE, last))
  BY <1>1, <1>4, <1>6, KeepsSelf, ChainBanKeeps, BeginSyncKeeps, RequestHeadersKeeps
<1>12. /\ Keeps(Now, RequestBlocks(kept, p, step.toRequest))
       /\ Keeps(Now, RequestBlocks(full, p, step.toRequest))
       /\ chain.connSync[p] # None => Keeps(Now, ContinueSync(full, p))
  BY <1>4, <1>5, <1>8, <1>9, <1>10, RequestBlocksKeeps, ContinueSyncKeeps, KeepsTwice, KeepsFine
<1>13. ASSUME NEW v, Keeps(Now, v) PROVE Good(HeadersDone(v))
  BY <1>1, <1>2, <1>13, KeptDone
<1> QED
  BY <1>1, <1>7, <1>11, <1>12, <1>13, BecomeInv

-----------------------------------------------------------------------------
(* Blocks.                                                                  *)

LEMMA ChainSetGood ==
    ASSUME NEW w, Good(w), NEW c \in ChainType, NEW v, v = [w EXCEPT !.chain = c],
           \A i \in DOMAIN c.blocks : c.blocks[i].block \in w.node.stored,
           Linked(c), Grounded(c), Highest(c),
           c.headers = w.chain.headers, c.step = w.chain.step,
           c.adding # None =>
               /\ c.verified[c.adding.block] = "notVerified"
               /\ c.verified[Parent[c.adding.block]] = "verified"
               /\ c.adding.block \in w.node.stored,
           \A b \in Blocks : c.verified[b] = "verified" => b \in w.node.stored
    PROVE  Good(v)
<1>1. Fine(v) /\ v.chain = c /\ v.node = w.node
  BY ChainChanged DEF Good
<1>2. Executable(v) /\ VerifiedStored(v) /\ StepReady(v)
  BY <1>1 DEF Good, Executable, VerifiedStored, StepReady
<1> QED
  BY <1>1, <1>2 DEF Good

LEMMA TakenGood ==
    ASSUME NEW w, Good(w), w.chain.blocks # <<>>
    PROVE  LET v == [w EXCEPT !.chain.blocks = Tail(@)]
           IN  /\ Good(v) /\ v.chain.verified = w.chain.verified /\ v.chain.adding = w.chain.adding
               /\ v.node = w.node
<1> DEFINE q == Tail(w.chain.blocks)
           c == [w.chain EXCEPT !.blocks = q]
           v == [w EXCEPT !.chain.blocks = Tail(@)]
<1>1. w \in World /\ w.chain \in ChainType /\ w.chain.blocks \in Seq(BlockEntry)
  BY DEF Good, Fine, World, ChainType, BlockEntries
<1>2. \A i \in DOMAIN w.chain.blocks : w.chain.blocks[i].block \in w.node.stored
  BY DEF Good, Fine, Tidy
<1>3. q \in BlockEntries /\ \A i \in DOMAIN q : q[i].block \in w.node.stored
  BY <1>1, <1>2 DEF BlockEntries
<1>4. v = [w EXCEPT !.chain = c]
  BY <1>1 DEF World, ChainType
<1> HIDE DEF q, v
<1>5. /\ c \in ChainType /\ c.verified = w.chain.verified /\ c.tip = w.chain.tip /\ c.step = w.chain.step
      /\ c.adding = w.chain.adding /\ c.blocks = q /\ c.headers = w.chain.headers
  BY <1>1, <1>3 DEF ChainType
<1> HIDE DEF c
<1>6. Linked(c) /\ Grounded(c) /\ Highest(c)
  BY <1>5 DEF Good, Linked, Grounded, Highest
<1>7. Good(v)
  BY <1>3, <1>4, <1>5, <1>6, ChainSetGood DEF Good, Executable, VerifiedStored
<1>8. v.chain = c /\ v.node = w.node
  BY <1>1, <1>4 DEF World
<1> QED
  BY <1>5, <1>7, <1>8 DEF v

LEMMA MarkInvalidGood ==
    ASSUME NEW w, Good(w), NEW b \in Blocks, w.chain.verified[b] = "notVerified",
           w.chain.adding # None => w.chain.adding.block = b
    PROVE  LET v == Marked(w, b, "invalid")
           IN  Good(BlockDone(v)) /\ (w.chain.adding = None => Good(v))
<1> DEFINE f == [w.chain.verified EXCEPT ![b] = "invalid"]
           c == [w.chain EXCEPT !.verified = f]
           d == [c EXCEPT !.adding = None]
           v == Marked(w, b, "invalid")
           u == BlockDone(v)
<1>1. /\ w \in World /\ w.chain \in ChainType /\ w.chain.verified \in States
      /\ \A i \in DOMAIN w.chain.blocks : w.chain.blocks[i].block \in w.node.stored
  BY DEF Good, Fine, World, ChainType, Tidy
<1>2. v = [w EXCEPT !.chain = c] /\ u = [w EXCEPT !.chain = d]
  BY <1>1 DEF World, ChainType, Marked, BlockDone
<1>3. \A x \in Blocks : Parent[x] \in BG /\ x \in BG
  BY SyncAssumption DEF BG
<1>4. f \in States /\ \A x \in BG : f[x] = IF x = b THEN "invalid" ELSE w.chain.verified[x]
  BY <1>1, <1>3 DEF States
<1> HIDE DEF f, v, u
<1>5. /\ c \in ChainType /\ c.verified = f /\ c.tip = w.chain.tip /\ c.step = w.chain.step
      /\ c.adding = w.chain.adding /\ c.blocks = w.chain.blocks /\ c.headers = w.chain.headers
  BY <1>1, <1>4 DEF ChainType
<1> HIDE DEF c
<1>6. /\ d \in ChainType /\ d.verified = f /\ d.tip = w.chain.tip /\ d.step = w.chain.step
      /\ d.adding = None /\ d.blocks = w.chain.blocks /\ d.headers = w.chain.headers
  BY <1>5 DEF ChainType, EntryOpt
<1> HIDE DEF d
<1>7. ASSUME NEW k, k.verified = f, k.tip = w.chain.tip
      PROVE  Linked(k) /\ Grounded(k) /\ Highest(k)
  <2>1. Genesis \in BG /\ w.chain.tip \in BG /\ Genesis # b
    BY <1>1, SyncAssumption DEF BG, ChainType
  <2>2. /\ w.chain.verified[Genesis] = "verified" /\ w.chain.verified[w.chain.tip] = "verified"
        /\ \A x \in Blocks : w.chain.verified[x] = "verified" =>
              w.chain.verified[Parent[x]] = "verified" /\ Number(x) <= Number(w.chain.tip)
        /\ \A x \in Blocks : w.chain.verified[x] # "absent" => w.chain.verified[Parent[x]] # "absent"
    BY DEF Good, Grounded, Highest, Linked
  <2>3. Linked(k)
    BY <1>3, <1>4, <1>7, <2>1, <2>2 DEF Linked
  <2>4. Grounded(k)
    BY <1>3, <1>4, <1>7, <2>1, <2>2 DEF Grounded
  <2>5. Highest(k)
    BY <1>3, <1>4, <1>7, <2>1, <2>2 DEF Highest
  <2> QED
    BY <2>3, <2>4, <2>5
<1>8. \A x \in Blocks : f[x] = "verified" => x \in w.node.stored
  BY <1>3, <1>4 DEF Good, VerifiedStored
<1>9. Good(u)
  BY <1>1, <1>2, <1>6, <1>7, <1>8, ChainSetGood
<1>10. w.chain.adding = None => Good(v)
  BY <1>1, <1>2, <1>5, <1>7, <1>8, ChainSetGood
<1> QED
  BY <1>9, <1>10 DEF u, v

LEMMA AddBlockInv ==
    ASSUME IInv, AddBlock
    PROVE  IInv'
<1> DEFINE e      == Head(chain.blocks)
           taken  == [Now EXCEPT !.chain.blocks = Tail(@)]
           own    == chain.verified[e.block]
           parent == chain.verified[Parent[e.block]]
           v      == [taken EXCEPT !.chain.adding = e]
<1>1. /\ Fine(Now) /\ Good(Now) /\ Now.node = node /\ Now.chain = chain /\ Now.wire = wire
      /\ chain \in ChainType /\ peerBest' \in [Peers -> BG]
  BY NowFacts DEF IInv, AddBlock
<1>2. chain.adding = None /\ chain.blocks # <<>> /\ chain.blocks \in Seq(BlockEntry)
  BY <1>1 DEF AddBlock, ChainType, BlockEntries
<1>3. \A i \in DOMAIN chain.blocks : chain.blocks[i].block \in node.stored
  BY <1>1 DEF Fine, Tidy
<1>4. e \in BlockEntry /\ e.block \in node.stored
  BY <1>2, <1>3
<1>5. e.block \in Blocks /\ e.from \in Peers \cup {None} /\ e.block \in BG /\ Parent[e.block] \in BG
  BY <1>4, SyncAssumption DEF BlockEntry, BG
<1>6. Good(taken) /\ taken.chain.verified = chain.verified /\ taken.chain.adding = None /\ taken.node = node
  BY <1>1, <1>2, TakenGood, Zenon
<1>7. \/ Become(ChainBan(taken, e.from))
      \/ Become(taken)
      \/ own = "notVerified" /\ Become(ChainBan(Marked(taken, e.block, "invalid"), e.from))
      \/ own = "notVerified" /\ parent = "verified" /\ Become(v)
  <2>1. own \in {"absent", "notVerified", "verified", "invalid"}
        /\ parent \in {"absent", "notVerified", "verified", "invalid"}
    BY <1>1, <1>5 DEF ChainType, States
  <2> QED
    BY <2>1, Zenon DEF AddBlock
<1> HIDE DEF e, taken
<1>8. Good(ChainBan(taken, e.from))
  BY <1>5, <1>6, ChainBanKeeps, KeepsGood DEF Good
<1>9. ASSUME own = "notVerified" PROVE Good(ChainBan(Marked(taken, e.block, "invalid"), e.from))
  <2>1. Good(Marked(taken, e.block, "invalid"))
    BY <1>5, <1>6, <1>9, MarkInvalidGood
  <2> QED
    BY <1>5, <2>1, ChainBanKeeps, KeepsGood DEF Good
<1>10. ASSUME own = "notVerified", parent = "verified" PROVE Good(v)
  <2> DEFINE c == [taken.chain EXCEPT !.adding = e]
  <2>1. taken \in World /\ taken.chain \in ChainType
        /\ \A i \in DOMAIN taken.chain.blocks : taken.chain.blocks[i].block \in taken.node.stored
    BY <1>6 DEF Good, Fine, World, Tidy
  <2>2. v = [taken EXCEPT !.chain = c]
    BY <2>1 DEF World, ChainType
  <2> HIDE DEF v
  <2>3. /\ c \in ChainType /\ c.verified = chain.verified /\ c.tip = taken.chain.tip
        /\ c.step = taken.chain.step /\ c.adding = e /\ c.blocks = taken.chain.blocks
        /\ c.headers = taken.chain.headers
    BY <1>4, <1>6, <2>1 DEF ChainType, EntryOpt
  <2> HIDE DEF c
  <2>4. Linked(c) /\ Grounded(c) /\ Highest(c)
    BY <1>6, <2>3 DEF Good, Linked, Grounded, Highest
  <2>5. \A b \in Blocks : c.verified[b] = "verified" => b \in taken.node.stored
    BY <1>6, <2>3 DEF Good, VerifiedStored
  <2> QED
    BY <1>4, <1>6, <1>10, <2>1, <2>2, <2>3, <2>4, <2>5, ChainSetGood
<1> HIDE DEF v, own, parent
<1> QED
  BY <1>1, <1>6, <1>7, <1>8, <1>9, <1>10, BecomeInv

\* Good, but for the block that is executed.
Core(w) ==
    /\ Fine(w)
    /\ Linked(w.chain) /\ Grounded(w.chain) /\ Highest(w.chain)
    /\ VerifiedStored(w) /\ StepReady(w)

LEMMA KeepsCore ==
    ASSUME NEW w, NEW v, Core(w), Keeps(w, v)
    PROVE  Core(v)
<1>1. Fine(v)
  BY DEF Keeps, Fine
<1>2. Linked(v.chain) /\ Grounded(v.chain) /\ Highest(v.chain) /\ VerifiedStored(v)
  BY DEF Keeps, Same, Core, Linked, Grounded, Highest, VerifiedStored
<1>3. StepReady(v)
  BY DEF Keeps, Same, Core, StepReady
<1> QED
  BY <1>1, <1>2, <1>3 DEF Core

LEMMA DoneGood ==
    ASSUME NEW w, Core(w)
    PROVE  Good(BlockDone(w))
<1> DEFINE c == [w.chain EXCEPT !.adding = None]
           v == BlockDone(w)
<1>1. w \in World /\ w.chain \in ChainType /\ Fine(w)
      /\ \A i \in DOMAIN w.chain.blocks : w.chain.blocks[i].block \in w.node.stored
  BY DEF Core, Fine, World, Tidy
<1>2. v = [w EXCEPT !.chain = c]
  BY <1>1 DEF World, ChainType, BlockDone
<1> HIDE DEF v
<1>3. /\ c \in ChainType /\ c.verified = w.chain.verified /\ c.tip = w.chain.tip /\ c.step = w.chain.step
      /\ c.adding = None /\ c.blocks = w.chain.blocks /\ c.headers = w.chain.headers
  BY <1>1 DEF ChainType, EntryOpt
<1> HIDE DEF c
<1>4. Fine(v) /\ v.chain = c /\ v.node = w.node
  BY <1>1, <1>2, <1>3, ChainChanged
<1>5. Linked(c) /\ Grounded(c) /\ Highest(c)
  BY <1>3 DEF Core, Linked, Grounded, Highest
<1>6. Executable(v) /\ VerifiedStored(v) /\ StepReady(v)
  BY <1>3, <1>4 DEF Core, Executable, VerifiedStored, StepReady
<1> QED
  BY <1>4, <1>5, <1>6 DEF Good, v

LEMMA GoodCore == ASSUME NEW w, Good(w) PROVE Core(w)
  BY DEF Good, Core

LEMMA SetToSeqFacts ==
    ASSUME NEW S, IsFiniteSet(S)
    PROVE  SetToSeq(S) \in Seq(S) /\ Distinct(SetToSeq(S))
<1> DEFINE n == Cardinality(S)
           F == {f \in [1 .. n -> S] : IsInjective(f)}
<1>1. n \in Nat /\ ExistsBijection(1 .. n, S)
  BY FS_CardinalityType
<1>2. \E f \in [1 .. n -> S] : IsInjective(f)
  BY <1>1 DEF ExistsBijection, Bijection, Injection
<1>3. SetToSeq(S) \in [1 .. n -> S] /\ IsInjective(SetToSeq(S))
  BY <1>2 DEF SetToSeq
<1> HIDE DEF n
<1>4. SetToSeq(S) \in Seq(S)
  BY <1>1, <1>3 DEF n
<1> QED
  BY <1>3, <1>4 DEF IsInjective, Distinct

\* What only closes connections or asks for headers.
Steady(w, v) ==
    /\ v.node.hashMap = w.node.hashMap /\ v.node.pending = w.node.pending
    /\ v.node.sources = w.node.sources
    /\ \A p \in Peers :
           /\ v.node.connMap[p] = None <=> w.node.connMap[p] = None
           /\ w.node.connMap[p] # None =>
                  /\ v.node.connMap[p].hashes = w.node.connMap[p].hashes
                  /\ v.node.connMap[p].wnd = w.node.connMap[p].wnd

LEMMA SteadySame == ASSUME NEW w, NEW v, v.node = w.node PROVE Steady(w, v)
  BY DEF Steady

LEMMA SteadyTwice ==
    ASSUME NEW w, NEW v, NEW u, Steady(w, v), Steady(v, u)
    PROVE  Steady(w, u)
  BY DEF Steady

LEMMA RequestHeadersSteady ==
    ASSUME NEW w, Fine(w), NEW p, NEW live, NEW from
    PROVE  Steady(w, RequestHeaders(w, p, live, from))
<1> DEFINE v == [w EXCEPT !.node.requestingHeaders[p] = from]
           pkg == [type |-> "getHeader", from |-> from]
<1>1. w \in World /\ w.node \in NodeType
  BY DEF Fine, World
<1>2. v.node = [w.node EXCEPT !.requestingHeaders = [@ EXCEPT ![p] = from]]
      /\ v = [node |-> v.node, chain |-> w.chain, wire |-> w.wire]
  BY <1>1 DEF World, NodeType
<1> HIDE DEF v
<1>3. /\ v.node.connMap = w.node.connMap /\ v.node.hashMap = w.node.hashMap
      /\ v.node.pending = w.node.pending /\ v.node.sources = w.node.sources
  BY <1>1, <1>2 DEF NodeType
<1>4. Send(v, p, live, pkg).node = v.node
  BY <1>2 DEF Send
<1>5. RequestHeaders(w, p, live, from) \in {w, Send(v, p, live, pkg)}
  BY DEF RequestHeaders, v
<1> QED
  BY <1>3, <1>4, <1>5 DEF Steady

LEMMA ContinueSyncSteady ==
    ASSUME NEW w, Fine(w), NEW p \in Peers, Tracked(w, p)
    PROVE  Steady(w, ContinueSync(w, p))
<1> DEFINE record == w.chain.connSync[p]
           a == [record EXCEPT !.lastReq = record.lastRecv]
           u == [w EXCEPT !.chain.connSync[p].lastReq = record.lastRecv]
           v == [w EXCEPT !.chain.connSync[p].state = "synced", !.chain.connSync[p].more = FALSE]
           x == [v EXCEPT !.chain.state = "synced", !.chain.announced = w.chain.tip]
<1>1. w \in World /\ w.chain \in ChainType /\ w.chain.connSync \in SyncMaps /\ record \in SyncType
  BY DEF Fine, World, ChainType, Tracked
<1>2. a \in SyncType \/ ~record.more
  BY <1>1 DEF SyncType, Branch
<1>3. u = [w EXCEPT !.chain.connSync[p] = a]
  BY <1>1 DEF World, ChainType, SyncMaps
<1>4. u.node = w.node /\ x.node = w.node /\ v.node = w.node
  BY <1>1 DEF World
<1>5. ContinueSync(w, p) \in {v, x}
      \/ (record.more /\ ContinueSync(w, p) = RequestHeaders(u, p, record.live, record.lastRecv))
  BY DEF ContinueSync
<1> HIDE DEF v, x
<1>6. CASE ContinueSync(w, p) \in {v, x}
  BY <1>4, <1>6, SteadySame
<1>7. CASE record.more /\ ContinueSync(w, p) = RequestHeaders(u, p, record.live, record.lastRecv)
  <2>1. Fine(u)
    BY <1>2, <1>3, <1>7, SyncSetKeeps, KeepsFine
  <2> HIDE DEF u
  <2>2. Steady(u, ContinueSync(w, p))
    BY <1>7, <2>1, RequestHeadersSteady
  <2> QED
    BY <1>4, <2>2 DEF Steady
<1> QED
  BY <1>5, <1>6, <1>7

\* The folds over the connections that wait, and over the blocks that follow.
Continue(v, p, q) == ContinueSync(v, p)

Continuing(v, k, s, q, w) ==
    Keeps(w, v) /\ Steady(w, v) /\ \A i \in DOMAIN s : Tracked(v, s[i])

Continued == INSTANCE FoldKeeps WITH Op <- Continue, Good <- Continuing

AddNext(v, c, q) == AddPendingBlock(v, c, None, TRUE)

Adding(v, k, s, q, w) == Keeps(w, v) /\ v.node = w.node

Added == INSTANCE FoldKeeps WITH Op <- AddNext, Good <- Adding

LEMMA ContinueWaitingKeeps ==
    ASSUME NEW w, Fine(w), NEW b
    PROVE  Keeps(w, ContinueWaiting(w, b)) /\ Steady(w, ContinueWaiting(w, b))
<1> DEFINE waiting == {p \in Peers : /\ w.chain.connSync[p] # None
                                     /\ w.chain.connSync[p].state = "syncing"
                                     /\ w.chain.connSync[p].lastRecv = b}
           s == SetToSeq(waiting)
<1>1. IsFiniteSet(waiting) /\ waiting \subseteq Peers
  BY FS_Subset, SyncAssumption
<1>2. \A p \in waiting : Tracked(w, p)
  BY DEF Fine, World, ChainType, SyncMaps, Tracked
<1>3. ContinueWaiting(w, b) = Continued!Folded(w, s, None)
  BY DEF ContinueWaiting, FoldLeft, MapThenFoldSet, Max, Continue,
         Continued!Folded, Continued!Iterates, Continued!Last
<1> HIDE DEF waiting
<1>4. s \in Seq(waiting)
  BY <1>1, SetToSeqFacts
<1> HIDE DEF s
<1>5. Len(s) \in Nat /\ DOMAIN s = 1 .. Len(s) /\ \A i \in DOMAIN s : s[i] \in Peers /\ Tracked(w, s[i])
  BY <1>1, <1>2, <1>4
<1>6. Continuing(w, 0, s, None, w)
  BY <1>5, KeepsSelf, SteadySame DEF Continuing
<1>7. ASSUME NEW k \in Nat, NEW v, k < Len(s), Continuing(v, k, s, None, w)
      PROVE  Continuing(Continue(v, s[k + 1], None), k + 1, s, None, w)
  <2>1. k + 1 \in DOMAIN s
    BY <1>5, <1>7
  <2>2. Keeps(w, v) /\ Steady(w, v) /\ Fine(v) /\ s[k + 1] \in Peers /\ Tracked(v, s[k + 1])
    BY <1>5, <1>7, <2>1, KeepsFine DEF Continuing
  <2>3. Keeps(v, ContinueSync(v, s[k + 1])) /\ StillTracked(v, ContinueSync(v, s[k + 1]))
    BY <2>2, ContinueSyncKeeps
  <2>4. Keeps(w, ContinueSync(v, s[k + 1])) /\ Steady(w, ContinueSync(v, s[k + 1]))
    BY <2>2, <2>3, KeepsTwice, ContinueSyncSteady, SteadyTwice
  <2> QED
    BY <1>5, <1>7, <2>3, <2>4 DEF Continuing, Continue, StillTracked
<1>8. Continuing(Continued!Folded(w, s, None), Len(s), s, None, w)
  BY <1>5, <1>6, <1>7, Continued!FoldKept
<1> QED
  BY <1>3, <1>8 DEF Continuing

LEMMA AddNextKeeps ==
    ASSUME NEW w, Fine(w), NEW b
    PROVE  Keeps(w, AddNextBlocks(w, b)) /\ AddNextBlocks(w, b).node = w.node
<1> DEFINE next == {c \in Blocks : /\ Parent[c] = b
                                   /\ w.chain.verified[c] # "absent"
                                   /\ c \in w.node.stored}
           s == SetToSeq(next)
<1>1. IsFiniteSet(next) /\ next \subseteq Blocks /\ \A c \in next : c \in w.node.stored
  BY FS_Subset, SyncAssumption
<1>2. AddNextBlocks(w, b) = Added!Folded(w, s, None)
  BY DEF AddNextBlocks, FoldLeft, MapThenFoldSet, Max, AddNext,
         Added!Folded, Added!Iterates, Added!Last
<1> HIDE DEF next
<1>3. s \in Seq(next)
  BY <1>1, SetToSeqFacts
<1> HIDE DEF s
<1>4. Len(s) \in Nat /\ DOMAIN s = 1 .. Len(s)
      /\ \A i \in DOMAIN s : s[i] \in Blocks /\ s[i] \in w.node.stored
  BY <1>1, <1>3
<1>5. Adding(w, 0, s, None, w)
  BY KeepsSelf DEF Adding
<1>6. ASSUME NEW k \in Nat, NEW v, k < Len(s), Adding(v, k, s, None, w)
      PROVE  Adding(AddNext(v, s[k + 1], None), k + 1, s, None, w)
  <2>1. k + 1 \in DOMAIN s
    BY <1>4, <1>6
  <2>2. Keeps(w, v) /\ Fine(v) /\ s[k + 1] \in Blocks /\ s[k + 1] \in v.node.stored
    BY <1>4, <1>6, <2>1, KeepsFine DEF Adding, Keeps, Same
  <2>3. Keeps(v, AddPendingBlock(v, s[k + 1], None, TRUE))
        /\ AddPendingBlock(v, s[k + 1], None, TRUE).node = v.node
    BY <2>2, AddPendingKeeps
  <2> QED
    BY <1>6, <2>2, <2>3, KeepsTwice DEF Adding, AddNext
<1>7. Adding(Added!Folded(w, s, None), Len(s), s, None, w)
  BY <1>4, <1>5, <1>6, Added!FoldKept
<1> QED
  BY <1>2, <1>7 DEF Adding

LEMMA AnnounceTipKeeps ==
    ASSUME NEW before, NEW w, Fine(w), NEW b \in BG
    PROVE  Keeps(w, AnnounceTip(before, w, b))
<1> DEFINE c == [w.chain EXCEPT !.announced = b]
           v == [w EXCEPT !.chain.announced = b]
<1>1. w \in World /\ w.chain \in ChainType
      /\ \A i \in DOMAIN w.chain.blocks : w.chain.blocks[i].block \in w.node.stored
  BY DEF Fine, World, Tidy
<1>2. v = [w EXCEPT !.chain = c]
  BY <1>1 DEF World, ChainType
<1>3. AnnounceTip(before, w, b) \in {w, v}
  BY DEF AnnounceTip
<1> HIDE DEF v
<1>4. /\ c \in ChainType /\ c.verified = w.chain.verified /\ c.tip = w.chain.tip /\ c.step = w.chain.step
      /\ c.adding = w.chain.adding /\ c.blocks = w.chain.blocks /\ c.headers = w.chain.headers
  BY <1>1 DEF ChainType, Opt
<1> HIDE DEF c
<1>5. Fine(v) /\ v.chain = c /\ v.node = w.node
  BY <1>1, <1>2, <1>4, ChainChanged
<1>6. Keeps(w, v)
  BY <1>4, <1>5 DEF Keeps, Same, Fine
<1> QED
  BY <1>3, <1>6, KeepsSelf

\* A block whose parent is verified becomes verified, and the tip if it is higher.
LEMMA VerifiedCore ==
    ASSUME NEW w, Good(w), w.chain.adding # None
    PROVE  LET b == w.chain.adding.block
               m == Marked(w, b, "verified")
           IN  Core(IF Number(b) > Number(w.chain.tip) THEN [m EXCEPT !.chain.tip = b] ELSE m)
<1> DEFINE b == w.chain.adding.block
           f == [w.chain.verified EXCEPT ![b] = "verified"]
           tip == IF Number(b) > Number(w.chain.tip) THEN b ELSE w.chain.tip
           c == [w.chain EXCEPT !.verified = f, !.tip = tip]
           m == Marked(w, b, "verified")
           v == IF Number(b) > Number(w.chain.tip) THEN [m EXCEPT !.chain.tip = b] ELSE m
<1>1. /\ w \in World /\ w.chain \in ChainType /\ w.chain.verified \in States /\ Fine(w)
      /\ \A i \in DOMAIN w.chain.blocks : w.chain.blocks[i].block \in w.node.stored
  BY DEF Good, Fine, World, ChainType, Tidy
<1>2. b \in Blocks
  BY <1>1 DEF ChainType, EntryOpt, BlockEntry
<1>3. w.chain.verified[b] = "notVerified" /\ w.chain.verified[Parent[b]] = "verified" /\ b \in w.node.stored
  BY DEF Good, Executable
<1> HIDE DEF b
<1>4. v = [w EXCEPT !.chain = c]
  BY <1>1 DEF World, ChainType, Marked
<1>5. \A x \in Blocks : Parent[x] \in BG /\ x \in BG
  BY SyncAssumption DEF BG
<1>6. f \in States /\ \A x \in BG : f[x] = IF x = b THEN "verified" ELSE w.chain.verified[x]
  BY <1>1, <1>2, <1>5 DEF States
<1>7. /\ tip \in BG /\ tip \in {b, w.chain.tip}
      /\ Number(b) <= Number(tip) /\ Number(w.chain.tip) <= Number(tip) /\ Number(tip) \in Nat
  <2>1. w.chain.tip \in BG /\ b \in BG
    BY <1>1, <1>2, <1>5 DEF ChainType
  <2>2. Number(b) \in Nat /\ Number(w.chain.tip) \in Nat
    BY <2>1, PathFacts
  <2> QED
    BY <2>1, <2>2
<1> HIDE DEF f, tip, v
<1>8. /\ c \in ChainType /\ c.verified = f /\ c.tip = tip /\ c.step = w.chain.step
      /\ c.adding = w.chain.adding /\ c.blocks = w.chain.blocks /\ c.headers = w.chain.headers
  BY <1>1, <1>6, <1>7 DEF ChainType
<1> HIDE DEF c
<1>9. Fine(v) /\ v.chain = c /\ v.node = w.node
  BY <1>1, <1>4, <1>8, ChainChanged
<1>10. /\ w.chain.verified[Genesis] = "verified" /\ w.chain.verified[w.chain.tip] = "verified"
       /\ \A x \in Blocks : w.chain.verified[x] = "verified" =>
             /\ w.chain.verified[Parent[x]] = "verified" /\ Number(x) <= Number(w.chain.tip)
             /\ x \in w.node.stored
       /\ \A x \in Blocks : w.chain.verified[x] # "absent" => w.chain.verified[Parent[x]] # "absent"
  BY DEF Good, Grounded, Highest, Linked, VerifiedStored
<1>11. Linked(c)
  BY <1>3, <1>5, <1>6, <1>8, <1>10 DEF Linked
<1>12. Grounded(c)
  <2>1. Genesis \in BG
    BY DEF BG
  <2> QED
    BY <1>3, <1>5, <1>6, <1>8, <1>10, <2>1 DEF Grounded
<1>13. Highest(c)
  <2>1. w.chain.tip \in BG /\ Number(w.chain.tip) \in Nat
    BY <1>1, PathFacts DEF ChainType
  <2>2. c.verified[c.tip] = "verified"
    BY <1>2, <1>5, <1>6, <1>7, <1>8, <1>10, <2>1
  <2>3. ASSUME NEW x \in Blocks, c.verified[x] = "verified" PROVE Number(x) <= Number(c.tip)
    <3>1. CASE x = b
      BY <1>7, <1>8, <3>1
    <3>2. CASE x # b
      <4>1. Number(x) <= Number(w.chain.tip) /\ Number(x) \in Nat
        BY <1>5, <1>6, <1>8, <1>10, <2>3, <3>2, PathFacts
      <4> QED
        BY <1>7, <1>8, <2>1, <4>1
    <3> QED
      BY <3>1, <3>2
  <2> QED
    BY <2>2, <2>3 DEF Highest
<1>14. VerifiedStored(v)
  BY <1>3, <1>5, <1>6, <1>8, <1>9, <1>10 DEF VerifiedStored
<1>15. StepReady(v)
  BY <1>8, <1>9 DEF Good, StepReady
<1> QED
  BY <1>8, <1>9, <1>11, <1>12, <1>13, <1>14, <1>15 DEF Core, v, b

LEMMA BlockVerifiedInv ==
    ASSUME IInv, BlockVerified
    PROVE  IInv'
<1> DEFINE b == chain.adding.block
           m == Marked(Now, b, "verified")
           added == IF Number(b) > Number(chain.tip) THEN [m EXCEPT !.chain.tip = b] ELSE m
           v == ContinueWaiting(added, b)
           u == AnnounceTip(added, v, b)
           x == AddNextBlocks(u, b)
<1>1. Good(Now) /\ Now.chain = chain /\ chain \in ChainType /\ chain.adding # None
      /\ peerBest' \in [Peers -> BG]
  BY NowFacts DEF IInv, BlockVerified
<1>2. b \in BG
  BY <1>1 DEF ChainType, EntryOpt, BlockEntry, BG
<1>3. Core(added)
  BY <1>1, VerifiedCore
<1>4. Become(BlockDone(x))
  BY DEF BlockVerified
<1> HIDE DEF added, b
<1>5. Core(v)
  BY <1>3, ContinueWaitingKeeps, KeepsCore DEF Core
<1> HIDE DEF v
<1>6. Core(u)
  BY <1>2, <1>5, AnnounceTipKeeps, KeepsCore DEF Core
<1> HIDE DEF u
<1>7. Core(x)
  BY <1>6, AddNextKeeps, KeepsCore DEF Core
<1> HIDE DEF x
<1> QED
  BY <1>1, <1>4, <1>7, DoneGood, BecomeInv

LEMMA BlockRefusedInv ==
    ASSUME IInv, NEW fault \in BOOLEAN, BlockRefused(fault)
    PROVE  IInv'
<1> DEFINE b == chain.adding.block
           v == ChainBan(Now, chain.adding.from)
<1>1. /\ Fine(Now) /\ Good(Now) /\ Now.chain = chain /\ chain \in ChainType /\ chain.adding # None
      /\ peerBest' \in [Peers -> BG]
  BY NowFacts DEF IInv, BlockRefused
<1>2. b \in Blocks /\ chain.adding.from \in Peers \cup {None}
  BY <1>1 DEF ChainType, EntryOpt, BlockEntry
<1>3. Keeps(Now, v)
  BY <1>1, <1>2, ChainBanKeeps
<1>4. Become(BlockDone(Marked(v, b, "invalid")))
  BY DEF BlockRefused
<1> HIDE DEF v
<1>5. Good(v) /\ v.chain.adding = chain.adding /\ v.chain.verified = chain.verified
  BY <1>1, <1>3, KeepsGood DEF Keeps, Same
<1>6. chain.verified[b] = "notVerified"
  BY <1>1 DEF Good, Executable
<1>7. Good(BlockDone(Marked(v, b, "invalid")))
  BY <1>2, <1>5, <1>6, MarkInvalidGood
<1> QED
  BY <1>1, <1>4, <1>7, BecomeInv

LEMMA BlockFailedInv ==
    ASSUME IInv, BlockFailed
    PROVE  IInv'
<1>1. Good(BlockDone(Now)) /\ peerBest' \in [Peers -> BG]
  BY GoodCore, DoneGood DEF IInv, BlockFailed
<1> QED
  BY <1>1, BecomeInv DEF BlockFailed

-----------------------------------------------------------------------------
(* The theorem.                                                             *)

LEMMA NextInv == IInv /\ [Next]_vars => IInv'
<1> SUFFICES ASSUME IInv, [Next]_vars PROVE IInv'
  OBVIOUS
<1>1. ASSUME NEW p \in Peers, Outbound(p) PROVE IInv'
  BY <1>1, OutboundInv
<1>2. ASSUME NEW p \in Peers, Inbound(p) PROVE IInv'
  BY <1>2, InboundInv
<1>3. ASSUME NEW p \in Peers, NEW b \in Blocks, NEW announce \in BOOLEAN, PeerAdopts(p, b, announce)
      PROVE  IInv'
  BY <1>3, PeerAdoptsInv
<1>4. CASE Deliver
  BY <1>4, PeerRespondsInv, ReceiveHeadersInv, ReceiveBlockInv DEF Deliver
<1>5. CASE Work
  BY <1>5, StoredBlockInv, AddHeadersInv, HeadersVerifiedInv, AddBlockInv, BlockVerifiedInv,
     BlockRefusedInv DEF Work
<1>6. CASE Fault
  BY <1>6, ConnectionErrorInv, ReceiveMalformedInv, HeadersTimeoutInv, BlockTimeoutInv,
     BlockRefusedInv, BlockFailedInv DEF Fault
<1>7. CASE UNCHANGED vars
  BY <1>7 DEF vars, IInv, Now
<1> QED
  BY <1>1, <1>2, <1>3, <1>4, <1>5, <1>6, <1>7 DEF Next

\* Below a verified block everything is verified.
LEMMA PathVerified ==
    ASSUME NEW w, Good(w), NEW b \in BG, w.chain.verified[b] = "verified"
    PROVE  \A x \in Range(Path[b]) : x \in Blocks /\ w.chain.verified[x] = "verified"
<1> DEFINE S == {x \in Blocks : /\ w.chain.verified[x] = "verified"
                                /\ \E y \in Range(Path[x]) :
                                      ~(y \in Blocks /\ w.chain.verified[y] = "verified")}
<1>1. Range(Path[Genesis]) = {}
  <2>1. Path[Genesis] = <<>>
    BY PathIs DEF BG
  <2> QED
    BY <2>1 DEF Range
<1>2. SUFFICES ASSUME S # {} PROVE FALSE
  BY <1>1 DEF BG
<1>3. PICK x \in S : Parent[x] \notin S
  BY <1>2, SyncAssumption
<1>4. x \in BG /\ x # Genesis /\ Parent[x] \in BG
  BY <1>3, SyncAssumption DEF BG
<1>5. w.chain.verified[Parent[x]] = "verified"
  BY <1>3 DEF Good, Grounded
<1>6. \A y \in Range(Path[Parent[x]]) : y \in Blocks /\ w.chain.verified[y] = "verified"
  BY <1>1, <1>3, <1>4, <1>5 DEF BG
<1>7. \A y \in Range(Path[x]) : y \in Range(Path[Parent[x]]) \/ y = x
  <2>1. Path[x] = Append(Path[Parent[x]], x) /\ Path[Parent[x]] \in Seq(Blocks)
    BY <1>4, PathFacts
  <2> QED
    BY <2>1 DEF Range
<1> QED
  BY <1>3, <1>6, <1>7

LEMMA InvTip == IInv => TipVerified
<1> SUFFICES ASSUME IInv PROVE TipVerified
  OBVIOUS
<1>1. Good(Now) /\ Now.chain = chain /\ Now.node = node /\ chain \in ChainType
  BY NowFacts DEF IInv
<1>2. chain.tip \in BG /\ chain.verified[chain.tip] = "verified"
  BY <1>1 DEF ChainType, Good, Highest
<1>3. \A x \in Range(Path[chain.tip]) : x \in Blocks /\ chain.verified[x] = "verified"
  BY <1>1, <1>2, PathVerified
<1> QED
  BY <1>1, <1>3 DEF TipVerified, Good, Highest, VerifiedStored

\* The tip of a node that fetches a chain (chain.tip) is always a verified chain
\* down to the genesis whose blocks are stored, and no verified block is above it:
\* for any number of peers, tree of blocks, window, limit and number of faults, in
\* whatever order headers, blocks, timeouts and lost connections come
\* (Chain._addHeaders, _addBlock, _addVerifiedBlock).
THEOREM TipHolds == Spec => []TipVerified
<1>1. Init => IInv
  BY InitInv
<1>2. IInv /\ [Next]_vars => IInv'
  BY NextInv
<1>3. IInv => TipVerified
  BY InvTip
<1> QED
  BY <1>1, <1>2, <1>3, PTL DEF Spec

-----------------------------------------------------------------------------
(* Requests.                                                                *)

HashesOf(n, p) == IF n.connMap[p] = None THEN {} ELSE n.connMap[p].hashes

\* RequestsAgree of a node, and a window is closed only for somebody who owes an
\* answer.
Agreeing(n) ==
    /\ \A b \in Blocks, p \in Peers : b \in HashesOf(n, p) <=> n.hashMap[b] = p
    /\ Distinct(n.pending)
    /\ \A i \in DOMAIN n.pending :
           n.hashMap[n.pending[i]] = None /\ n.sources[n.pending[i]] # {}
    /\ \A b \in Blocks : n.hashMap[b] # None => n.hashMap[b] \in n.sources[b]
    /\ \A p \in Peers : n.connMap[p] # None /\ n.connMap[p].wnd = 0 => HashesOf(n, p) # {}

\* A source of b owes an answer.
Owed(n, b) == \E p \in n.sources[b] : HashesOf(n, p) # {}

Served(n) == Agreeing(n) /\ \A i \in DOMAIN n.pending : Owed(n, n.pending[i])

StepDistinct(c) == c.step # None => Distinct(c.step.toRequest)

RInv == IInv /\ Served(node) /\ StepDistinct(chain)

LEMMA SteadyServed ==
    ASSUME NEW w, Fine(w), Served(w.node), NEW v, Steady(w, v)
    PROVE  Served(v.node)
<1> DEFINE n == w.node
           m == v.node
<1>1. n.sources \in SourceMaps /\ n.pending \in Seq(Blocks)
  BY DEF Fine, World, NodeType, BlockQueues
<1>2. m.hashMap = n.hashMap /\ m.pending = n.pending /\ m.sources = n.sources
  BY DEF Steady
<1>3. \A p \in Peers : /\ HashesOf(m, p) = HashesOf(n, p)
                       /\ m.connMap[p] # None => n.connMap[p] # None /\ m.connMap[p].wnd = n.connMap[p].wnd
  BY DEF Steady, HashesOf
<1>4. Agreeing(n) /\ \A i \in DOMAIN n.pending : Owed(n, n.pending[i])
  BY DEF Served
<1>5. \A i \in DOMAIN n.pending : n.sources[n.pending[i]] \subseteq Peers
  BY <1>1 DEF SourceMaps
<1> HIDE DEF n, m
<1>6. Agreeing(m)
  BY <1>2, <1>3, <1>4 DEF Agreeing
<1>7. \A i \in DOMAIN m.pending : Owed(m, m.pending[i])
  BY <1>2, <1>3, <1>4, <1>5 DEF Owed
<1> QED
  BY <1>6, <1>7 DEF Served, m

LEMMA ClosedSteady ==
    ASSUME NEW w, Fine(w), NEW p \in Peers
    PROVE  Steady(w, Closed(w, p))
<1> DEFINE c == [w.node.connMap EXCEPT ![p] = Dead(@)]
           v == Closed(w, p)
<1>1. w \in World /\ w.node \in NodeType /\ w.node.connMap \in ConnMaps
  BY DEF Fine, World, NodeType
<1>2. v.node = [w.node EXCEPT !.connMap = c]
  BY <1>1 DEF NodeType, Closed
<1> HIDE DEF v
<1>3. /\ v.node.connMap = c /\ v.node.hashMap = w.node.hashMap
      /\ v.node.pending = w.node.pending /\ v.node.sources = w.node.sources
  BY <1>1, <1>2 DEF NodeType
<1>4. \A r \in ConnType \cup {None} :
          /\ Dead(r) = None <=> r = None
          /\ r # None => Dead(r).hashes = r.hashes /\ Dead(r).wnd = r.wnd
  <2>1. ASSUME NEW r \in ConnType, r # None
        PROVE  Dead(r) # None /\ Dead(r).hashes = r.hashes /\ Dead(r).wnd = r.wnd
    <3>1. Dead(r) = [r EXCEPT !.live = FALSE]
      BY <2>1 DEF Dead
    <3>2. Dead(r) \in ConnType /\ Dead(r).hashes = r.hashes /\ Dead(r).wnd = r.wnd
      BY <3>1 DEF ConnType
    <3> QED
      BY <3>2, SyncAssumption DEF ConnType
  <2> QED
    BY <2>1 DEF Dead
<1>5. \A q \in Peers : c[q] \in {w.node.connMap[q], Dead(w.node.connMap[q])}
  BY <1>1 DEF ConnMaps
<1>6. \A q \in Peers : w.node.connMap[q] \in ConnType \cup {None}
  BY <1>1 DEF ConnMaps
<1> HIDE DEF c
<1> QED
  BY <1>3, <1>4, <1>5, <1>6 DEF Steady, v

LEMMA ForgetNode ==
    ASSUME NEW w, Fine(w), NEW p
    PROVE  ForgetConnection(w, p).node = w.node
  BY DEF ForgetConnection, Fine, World

LEMMA BanSteady ==
    ASSUME NEW w, Fine(w), NEW p \in Peers
    PROVE  Steady(w, Ban(w, p))
<1> DEFINE u == Closed(w, p)
           v == [u EXCEPT !.wire.banned = @ \cup {p}]
<1>1. Keeps(w, u) /\ Steady(w, u)
  BY ClosedKeeps, ClosedSteady
<1>2. u \in World /\ u.wire \in WireType
  BY <1>1 DEF Keeps, World
<1> HIDE DEF u
<1>3. v.node = u.node /\ v = [node |-> v.node, chain |-> u.chain, wire |-> v.wire]
  BY <1>2 DEF World
<1> HIDE DEF v
<1>4. OnRemoveConnection(v, PeerId(p)) = v
  BY IdFacts, Zenon DEF OnRemoveConnection
<1>5. Ban(w, p) = ForgetConnection(v, p)
  BY <1>4, IdFacts DEF Ban, v, u
<1>6. ForgetConnection(v, p).node = v.node
  BY <1>3 DEF ForgetConnection
<1> QED
  BY <1>1, <1>3, <1>5, <1>6 DEF Steady

LEMMA ChainBanSteady ==
    ASSUME NEW w, Fine(w), NEW p \in Peers \cup {None}
    PROVE  Steady(w, ChainBan(w, p))
  BY BanSteady, SteadySame DEF ChainBan

LEMMA BeginSyncSteady ==
    ASSUME NEW w, Fine(w), NEW p \in Peers, NEW live \in BOOLEAN, NEW from \in BG
    PROVE  Steady(w, BeginSync(w, p, live, from))
<1> DEFINE record == IF w.chain.connSync[p] = None THEN SyncRecord("syncing", live)
                     ELSE w.chain.connSync[p]
           r == [record EXCEPT !.state = "syncing", !.lastReq = from]
           v == [w EXCEPT !.chain.connSync[p] = r]
<1>1. w.chain.connSync[p] \in SyncType \cup {None}
  BY DEF Fine, World, ChainType, SyncMaps
<1>2. SyncRecord("syncing", live) \in SyncType
  BY DEF SyncRecord, SyncType, Branch, Opt
<1>3. record \in SyncType
  BY <1>1, <1>2
<1> HIDE DEF record
<1>4. r \in SyncType
  BY <1>3 DEF SyncType, Branch, Opt
<1> HIDE DEF r
<1>5. Keeps(w, v)
  BY <1>4, SyncSetKeeps
<1>6. v.node = w.node
  BY DEF Fine, World
<1> HIDE DEF v
<1>7. Steady(v, RequestHeaders(v, p, record.live, from))
  BY <1>5, RequestHeadersSteady, KeepsFine
<1>8. BeginSync(w, p, live, from) = RequestHeaders(v, p, record.live, from)
  BY DEF BeginSync, record, r, v
<1> QED
  BY <1>6, <1>7, <1>8 DEF Steady

\* What p owes is not forgotten, and the sources stay.
Grows(n, m) ==
    m.sources = n.sources /\ \A q \in Peers : HashesOf(n, q) \subseteq HashesOf(m, q)

LEMMA GrowsOwed ==
    ASSUME NEW n, n.sources \in SourceMaps, NEW m, Grows(n, m), NEW b \in Blocks, Owed(n, b)
    PROVE  Owed(m, b)
<1>1. PICK p \in n.sources[b] : HashesOf(n, p) # {}
  BY DEF Owed
<1>2. p \in Peers
  BY <1>1 DEF SourceMaps
<1> QED
  BY <1>1, <1>2 DEF Owed, Grows

\* A block that nobody was asked for is asked of one of its sources.
LEMMA RequestAgrees ==
    ASSUME NEW w, Fine(w), NEW h \in Blocks, NEW p \in Peers, Open(w, p),
           Agreeing(w.node), w.node.hashMap[h] = None, p \in w.node.sources[h]
    PROVE  LET v == RequestBlockFromConnection(w, h, p)
           IN  /\ Agreeing(v.node) /\ Grows(w.node, v.node) /\ HashesOf(v.node, p) # {}
               /\ v.node.hashMap = [w.node.hashMap EXCEPT ![h] = p]
               /\ \A i \in DOMAIN v.node.pending :
                      \E j \in DOMAIN w.node.pending : v.node.pending[i] = w.node.pending[j]
<1> DEFINE r == [w.node.connMap[p] EXCEPT !.hashes = @ \cup {h}]
           c == [w.node.connMap EXCEPT ![p] = r]
           m == [w.node.hashMap EXCEPT ![h] = p]
           q == Those(w.node.pending, Blocks \ {h})
           u == [w EXCEPT !.node.connMap[p].hashes = @ \cup {h},
                          !.node.hashMap[h] = p,
                          !.node.pending = Those(@, Blocks \ {h})]
           pkg == [type |-> "getBlock", hash |-> h]
           v == RequestBlockFromConnection(w, h, p)
           n == w.node
           o == v.node
<1>1. w \in World /\ n \in NodeType /\ n.connMap \in ConnMaps /\ n.pending \in Seq(Blocks)
      /\ n.hashMap \in HashMaps /\ n.sources \in SourceMaps
  BY DEF Fine, World, NodeType, BlockQueues
<1>2. /\ u.node = [n EXCEPT !.connMap = c, !.hashMap = m, !.pending = q]
      /\ u = [w EXCEPT !.node = u.node]
  BY <1>1 DEF World, NodeType, ConnMaps
<1>3. v = Send(u, p, n.connMap[p].live, pkg)
  BY DEF RequestBlockFromConnection
<1>4. Send(u, p, n.connMap[p].live, pkg).node = u.node
  BY <1>1, <1>2 DEF Send, World
<1> HIDE DEF u, v, q, pkg
<1>5. o.connMap = c /\ o.hashMap = m /\ o.pending = q /\ o.sources = n.sources
  BY <1>1, <1>2, <1>3, <1>4 DEF NodeType
<1>6. /\ q \in Seq(Blocks)
      /\ \A i \in DOMAIN q : q[i] \in Blocks \ {h} /\ \E j \in DOMAIN n.pending : q[i] = n.pending[j]
      /\ Distinct(q)
  <2>1. Chosen(q, Len(n.pending), n.pending, Blocks \ {h}, Blocks)
    BY <1>1, ThoseFacts DEF q
  <2>2. Distinct(n.pending) /\ DOMAIN n.pending = 1 .. Len(n.pending)
    BY <1>1 DEF Agreeing
  <2> QED
    BY <2>1, <2>2 DEF Chosen
<1>7. r.hashes = n.connMap[p].hashes \cup {h} /\ r.wnd = n.connMap[p].wnd /\ r \in ConnType
  BY DEF Open, ConnType
<1>8. None \notin ConnType
  BY SyncAssumption DEF ConnType
<1> HIDE DEF r
<1>9. /\ \A x \in Peers : x # p => c[x] = n.connMap[x]
      /\ c[p] = r /\ r # None /\ n.connMap[p] # None
      /\ \A x \in Blocks : m[x] = IF x = h THEN p ELSE n.hashMap[x]
  BY <1>1, <1>7, <1>8 DEF ConnMaps, HashMaps, Open
<1> HIDE DEF c, m, n, o
<1>10. /\ HashesOf(o, p) = HashesOf(n, p) \cup {h}
       /\ \A x \in Peers : x # p => HashesOf(o, x) = HashesOf(n, x)
  BY <1>5, <1>7, <1>9 DEF HashesOf, n
<1>11. Grows(n, o) /\ HashesOf(o, p) # {}
  BY <1>5, <1>10 DEF Grows
<1>12. \A b \in Blocks, x \in Peers : b \in HashesOf(n, x) <=> n.hashMap[b] = x
  BY DEF Agreeing, n
<1>13. None \notin Peers
  BY SyncAssumption
<1>14. \A b \in Blocks, x \in Peers : b \in HashesOf(o, x) <=> o.hashMap[b] = x
  BY <1>5, <1>9, <1>10, <1>12, <1>13 DEF n
<1>15. ASSUME NEW i \in DOMAIN o.pending
       PROVE  o.hashMap[o.pending[i]] = None /\ o.sources[o.pending[i]] # {}
  <2>1. PICK j \in DOMAIN n.pending : q[i] = n.pending[j]
    BY <1>5, <1>6
  <2>2. q[i] \in Blocks /\ q[i] # h
    BY <1>5, <1>6
  <2>3. n.hashMap[n.pending[j]] = None /\ n.sources[n.pending[j]] # {}
    BY DEF Agreeing, n
  <2> QED
    BY <1>5, <1>9, <2>1, <2>2, <2>3
<1>16. ASSUME NEW b \in Blocks, o.hashMap[b] # None PROVE o.hashMap[b] \in o.sources[b]
  BY <1>5, <1>9, <1>16 DEF Agreeing, n
<1>17. ASSUME NEW x \in Peers, o.connMap[x] # None, o.connMap[x].wnd = 0 PROVE HashesOf(o, x) # {}
  BY <1>5, <1>9, <1>10, <1>17 DEF Agreeing, n
<1>18. Agreeing(o)
  BY <1>5, <1>6, <1>14, <1>15, <1>16, <1>17 DEF Agreeing
<1>19. o.hashMap = [n.hashMap EXCEPT ![h] = p]
  BY <1>5 DEF m, n
<1> QED
  BY <1>5, <1>6, <1>11, <1>18, <1>19 DEF o, n, v

\* A block that nobody was asked for waits.
LEMMA PendAgrees ==
    ASSUME NEW w, Fine(w), NEW h \in Blocks, Agreeing(w.node), w.node.hashMap[h] = None,
           w.node.sources[h] # {}
    PROVE  LET v == AddToPending(w, h, FALSE)
           IN  /\ Agreeing(v.node) /\ Grows(w.node, v.node) /\ v.node.hashMap = w.node.hashMap
               /\ \A i \in DOMAIN v.node.pending :
                      \/ v.node.pending[i] = h
                      \/ \E j \in DOMAIN w.node.pending : v.node.pending[i] = w.node.pending[j]
<1> DEFINE q == Append(w.node.pending, h)
           v == [w EXCEPT !.node.pending = q]
           n == w.node
           o == v.node
<1>1. w \in World /\ n \in NodeType /\ n.pending \in Seq(Blocks)
  BY DEF Fine, World, NodeType, BlockQueues
<1>2. o = [n EXCEPT !.pending = q]
  BY <1>1 DEF World
<1>3. AddToPending(w, h, FALSE) = IF h \in Range(n.pending) THEN w ELSE v
  BY DEF AddToPending
<1>4. CASE h \in Range(n.pending)
  BY <1>3, <1>4 DEF Grows
<1>5. CASE h \notin Range(n.pending)
  <2> HIDE DEF v
  <2>1. o.connMap = n.connMap /\ o.hashMap = n.hashMap /\ o.sources = n.sources /\ o.pending = q
    BY <1>1, <1>2 DEF NodeType
  <2>2. /\ Len(n.pending) \in Nat /\ DOMAIN n.pending = 1 .. Len(n.pending)
        /\ DOMAIN q = 1 .. Len(n.pending) + 1 /\ q[Len(n.pending) + 1] = h
        /\ \A i \in DOMAIN n.pending : q[i] = n.pending[i]
    BY <1>1
  <2>3. \A i \in DOMAIN q : i \in DOMAIN n.pending \/ i = Len(n.pending) + 1
    BY <2>2
  <2>4. \A i \in DOMAIN n.pending : n.pending[i] # h
    BY <1>5 DEF Range
  <2> HIDE DEF q, n, o
  <2>5. Distinct(n.pending) /\ \A i \in DOMAIN n.pending :
            n.hashMap[n.pending[i]] = None /\ n.sources[n.pending[i]] # {}
    BY DEF Agreeing, n
  <2>6. Distinct(q)
    BY <2>2, <2>3, <2>4, <2>5 DEF Distinct
  <2>7. \A x \in Peers : HashesOf(o, x) = HashesOf(n, x)
    BY <2>1 DEF HashesOf
  <2>8. \A i \in DOMAIN q : n.hashMap[q[i]] = None /\ n.sources[q[i]] # {}
    BY <2>2, <2>3, <2>5 DEF n
  <2>9. Agreeing(n)
    BY DEF n
  <2>10. Agreeing(o)
    BY <2>1, <2>6, <2>7, <2>8, <2>9 DEF Agreeing
  <2>11. Grows(n, o)
    BY <2>1, <2>7 DEF Grows
  <2> QED
    BY <1>3, <1>5, <2>1, <2>2, <2>3, <2>10, <2>11 DEF o, n
<1> QED
  BY <1>4, <1>5

LEMMA RequestOrPendServed ==
    ASSUME NEW w, Fine(w), NEW h \in Blocks, NEW p \in Peers, Open(w, p),
           Served(w.node), w.node.hashMap[h] = None, p \in w.node.sources[h]
    PROVE  LET v == RequestOrPend(w, h, p)
           IN  /\ Served(v.node) /\ v.node.sources = w.node.sources
               /\ \A b \in Blocks : b # h => v.node.hashMap[b] = w.node.hashMap[b]
<1> DEFINE n == w.node
           v == RequestBlockFromConnection(w, h, p)
           u == AddToPending(w, h, FALSE)
<1>1. n.sources \in SourceMaps /\ n.pending \in Seq(Blocks) /\ n.hashMap \in HashMaps /\ w \in World
  BY DEF Fine, World, NodeType, BlockQueues
<1>2. Agreeing(n) /\ \A i \in DOMAIN n.pending : n.pending[i] \in Blocks /\ Owed(n, n.pending[i])
  BY <1>1 DEF Served
<1>3. CASE Window(w, p) > 0
  <2>1. /\ Agreeing(v.node) /\ Grows(n, v.node)
        /\ v.node.hashMap = [n.hashMap EXCEPT ![h] = p]
        /\ \A i \in DOMAIN v.node.pending : \E j \in DOMAIN n.pending : v.node.pending[i] = n.pending[j]
    BY <1>2, RequestAgrees
  <2>2. RequestOrPend(w, h, p) = v
    BY <1>3 DEF RequestOrPend
  <2> HIDE DEF v
  <2>3. \A i \in DOMAIN v.node.pending : Owed(v.node, v.node.pending[i])
    BY <1>1, <1>2, <2>1, GrowsOwed
  <2>4. \A b \in Blocks : b # h => v.node.hashMap[b] = n.hashMap[b]
    BY <1>1, <2>1 DEF HashMaps
  <2> QED
    BY <2>1, <2>2, <2>3, <2>4 DEF Served, Grows
<1>4. CASE ~(Window(w, p) > 0)
  <2>1. /\ Agreeing(u.node) /\ Grows(n, u.node) /\ u.node.hashMap = n.hashMap
        /\ \A i \in DOMAIN u.node.pending :
               u.node.pending[i] = h \/ \E j \in DOMAIN n.pending : u.node.pending[i] = n.pending[j]
    BY <1>2, PendAgrees
  <2>2. RequestOrPend(w, h, p) = u
    BY <1>4 DEF RequestOrPend
  <2> HIDE DEF u
  <2>3. HashesOf(n, p) # {}
    <3>1. n.connMap[p] \in ConnType /\ n.connMap[p] # None
      BY SyncAssumption DEF Open, ConnType
    <3>2. n.connMap[p].wnd \in Nat /\ HashesOf(n, p) = n.connMap[p].hashes
      BY <3>1 DEF ConnType, HashesOf
    <3>3. CASE n.connMap[p].wnd = 0
      BY <1>2, <3>1, <3>3 DEF Agreeing
    <3>4. CASE n.connMap[p].wnd # 0
      <4> SUFFICES ASSUME HashesOf(n, p) = {} PROVE FALSE
        OBVIOUS
      <4>1. Cardinality(n.connMap[p].hashes) = 0
        BY <3>2, FS_EmptySet
      <4> QED
        BY <1>4, <3>2, <3>4, <4>1 DEF Window
    <3> QED
      BY <3>3, <3>4
  <2>4. Owed(n, h)
    BY <2>3 DEF Owed
  <2>5. \A i \in DOMAIN u.node.pending : Owed(u.node, u.node.pending[i])
    BY <1>1, <1>2, <2>1, <2>4, GrowsOwed
  <2> QED
    BY <2>1, <2>2, <2>5 DEF Served, Grows
<1> QED
  BY <1>3, <1>4

\* The loop of requestBlocks, before the element after the first k.
Serving(v, k, s, p, w) ==
    /\ s \in Seq(Blocks) /\ Distinct(s) /\ p \in Peers
    /\ Fine(v) /\ Open(v, p) /\ Served(v.node)
    /\ \A i \in DOMAIN s : p \in v.node.sources[s[i]] /\ (i > k => v.node.hashMap[s[i]] = None)

AskedServing == INSTANCE FoldKeeps WITH Op <- RequestOrPend, Good <- Serving

RequestedOrPended(w, s, p) == FoldLeft(LAMBDA u, h : RequestOrPend(u, h, p), w, s)

LEMMA AskedServed ==
    ASSUME NEW w, NEW p, NEW s, Serving(w, 0, s, p, w)
    PROVE  Served(RequestedOrPended(w, s, p).node)
<1>1. RequestedOrPended(w, s, p) = AskedServing!Folded(w, s, p)
  BY DEF RequestedOrPended, FoldLeft, MapThenFoldSet, Max, AskedServing!Folded, AskedServing!Iterates, AskedServing!Last
<1>2. s \in Seq(Blocks) /\ Len(s) \in Nat /\ DOMAIN s = 1 .. Len(s)
  BY DEF Serving
<1>3. ASSUME NEW k \in Nat, NEW v, k < Len(s), Serving(v, k, s, p, w)
      PROVE  Serving(RequestOrPend(v, s[k + 1], p), k + 1, s, p, w)
  <2> DEFINE h == s[k + 1]
             u == RequestOrPend(v, h, p)
  <2>1. k + 1 \in DOMAIN s /\ h \in Blocks /\ k + 1 > k
    BY <1>2, <1>3
  <2>2. /\ Distinct(s) /\ p \in Peers /\ Fine(v) /\ Open(v, p) /\ Served(v.node)
        /\ v.node.hashMap[h] = None /\ p \in v.node.sources[h]
        /\ \A i \in DOMAIN s : p \in v.node.sources[s[i]] /\ (i > k => v.node.hashMap[s[i]] = None)
    BY <1>3, <2>1 DEF Serving
  <2>3. Fine(u) /\ Open(u, p)
    BY <2>1, <2>2, RequestOrPendKeeps, KeepsFine
  <2>4. /\ Served(u.node) /\ u.node.sources = v.node.sources
        /\ \A b \in Blocks : b # h => u.node.hashMap[b] = v.node.hashMap[b]
    BY <2>1, <2>2, RequestOrPendServed
  <2> HIDE DEF u
  <2>5. ASSUME NEW i \in DOMAIN s, i > k + 1 PROVE u.node.hashMap[s[i]] = None
    <3>1. i > k /\ i # k + 1 /\ s[i] \in Blocks
      BY <1>2, <1>3, <2>5
    <3>2. s[i] # h
      BY <2>1, <2>2, <3>1 DEF Distinct
    <3> QED
      BY <2>2, <2>4, <3>1, <3>2
  <2> QED
    BY <1>2, <2>2, <2>3, <2>4, <2>5 DEF Serving, u
<1>4. Serving(AskedServing!Folded(w, s, p), Len(s), s, p, w)
  BY <1>2, <1>3, AskedServing!FoldKept
<1> QED
  BY <1>1, <1>4 DEF Serving

\* The loop of _onFreeBlockWnd: what waits is owed by somebody, or p can be asked.
Freeing(v, k, s, p, w) ==
    /\ s \in Seq(Blocks) /\ Distinct(s) /\ p \in Peers
    /\ Fine(v) /\ Open(v, p) /\ Agreeing(v.node)
    /\ Grows(w.node, v.node)
    /\ k > 0 => HashesOf(v.node, p) # {}
    /\ \A i \in DOMAIN v.node.pending :
           \E j \in DOMAIN w.node.pending : v.node.pending[i] = w.node.pending[j]
    /\ \A i \in DOMAIN s : p \in v.node.sources[s[i]] /\ (i > k => v.node.hashMap[s[i]] = None)

FreedServing == INSTANCE FoldKeeps WITH Op <- RequestBlockFromConnection, Good <- Freeing

Requested(w, s, p) == FoldLeft(LAMBDA u, h : RequestBlockFromConnection(u, h, p), w, s)

LEMMA FreedAgrees ==
    ASSUME NEW w, NEW p, NEW s, Freeing(w, 0, s, p, w)
    PROVE  Freeing(Requested(w, s, p), Len(s), s, p, w)
<1>1. Requested(w, s, p) = FreedServing!Folded(w, s, p)
  BY DEF Requested, FoldLeft, MapThenFoldSet, Max, FreedServing!Folded, FreedServing!Iterates, FreedServing!Last
<1>2. s \in Seq(Blocks) /\ Len(s) \in Nat /\ DOMAIN s = 1 .. Len(s)
  BY DEF Freeing
<1>3. ASSUME NEW k \in Nat, NEW v, k < Len(s), Freeing(v, k, s, p, w)
      PROVE  Freeing(RequestBlockFromConnection(v, s[k + 1], p), k + 1, s, p, w)
  <2> DEFINE h == s[k + 1]
             u == RequestBlockFromConnection(v, h, p)
  <2>1. k + 1 \in DOMAIN s /\ h \in Blocks /\ k + 1 > k
    BY <1>2, <1>3
  <2>2. /\ Distinct(s) /\ p \in Peers /\ Fine(v) /\ Open(v, p) /\ Agreeing(v.node)
        /\ Grows(w.node, v.node)
        /\ v.node.hashMap[h] = None /\ p \in v.node.sources[h]
        /\ \A i \in DOMAIN v.node.pending :
               \E j \in DOMAIN w.node.pending : v.node.pending[i] = w.node.pending[j]
        /\ \A i \in DOMAIN s : p \in v.node.sources[s[i]] /\ (i > k => v.node.hashMap[s[i]] = None)
    BY <1>3, <2>1 DEF Freeing
  <2>3. Fine(u) /\ Open(u, p)
    BY <2>1, <2>2, RequestBlockKeeps, KeepsFine
  <2>4. /\ Agreeing(u.node) /\ Grows(v.node, u.node) /\ HashesOf(u.node, p) # {}
        /\ u.node.hashMap = [v.node.hashMap EXCEPT ![h] = p]
        /\ \A i \in DOMAIN u.node.pending :
               \E j \in DOMAIN v.node.pending : u.node.pending[i] = v.node.pending[j]
    BY <2>1, <2>2, RequestAgrees
  <2>5. v.node.hashMap \in HashMaps
    BY <2>2 DEF Fine, World, NodeType
  <2> HIDE DEF u
  <2>6. ASSUME NEW i \in DOMAIN s, i > k + 1 PROVE u.node.hashMap[s[i]] = None
    <3>1. i > k /\ i # k + 1 /\ s[i] \in Blocks
      BY <1>2, <1>3, <2>6
    <3>2. s[i] # h
      BY <2>1, <2>2, <3>1 DEF Distinct
    <3> QED
      BY <2>2, <2>4, <2>5, <3>1, <3>2 DEF HashMaps
  <2>7. Grows(w.node, u.node) /\ u.node.sources = v.node.sources
    BY <2>2, <2>4 DEF Grows
  <2>8. \A i \in DOMAIN u.node.pending :
            \E j \in DOMAIN w.node.pending : u.node.pending[i] = w.node.pending[j]
    BY <2>2, <2>4
  <2> QED
    BY <1>2, <2>2, <2>3, <2>4, <2>6, <2>7, <2>8 DEF Freeing, u
<1>4. Freeing(FreedServing!Folded(w, s, p), Len(s), s, p, w)
  BY <1>2, <1>3, FreedServing!FoldKept
<1> QED
  BY <1>1, <1>4

\* A free window of p serves whatever waits for p alone.
LEMMA FreeWindowServed ==
    ASSUME NEW w, Fine(w), NEW p \in Peers, Open(w, p), Agreeing(w.node),
           \A i \in DOMAIN w.node.pending :
               Owed(w.node, w.node.pending[i]) \/ p \in w.node.sources[w.node.pending[i]]
    PROVE  Served(OnFreeBlockWnd(w, p).node)
<1> DEFINE n == w.node
           T == {h \in Blocks : p \in n.sources[h]}
           mine == Those(n.pending, T)
           count == IF Window(w, p) > 1 THEN Window(w, p) ELSE 1
           size == IF Len(mine) < count THEN Len(mine) ELSE count
           s == SubSeq(mine, 1, size)
           v == OnFreeBlockWnd(w, p)
<1>1. w \in World /\ n.pending \in Seq(Blocks) /\ n.sources \in SourceMaps
  BY DEF Fine, World, NodeType, BlockQueues
<1>2. Chosen(mine, Len(n.pending), n.pending, T, Blocks)
  BY <1>1, ThoseFacts
<1>3. count \in Nat /\ count >= 1
  BY <1>1, WindowType DEF Open
<1>4. v = Requested(w, s, p)
  BY DEF OnFreeBlockWnd, Requested
<1> HIDE DEF mine, count, v
<1>5. /\ mine \in Seq(Blocks) /\ Len(mine) \in Nat /\ DOMAIN mine = 1 .. Len(mine)
      /\ DOMAIN n.pending = 1 .. Len(n.pending)
      /\ \A i \in DOMAIN mine : mine[i] \in T /\ \E j \in DOMAIN n.pending : mine[i] = n.pending[j]
      /\ \A j \in DOMAIN n.pending : n.pending[j] \in T => \E i \in DOMAIN mine : mine[i] = n.pending[j]
      /\ Distinct(mine)
  BY <1>1, <1>2 DEF Chosen, Agreeing
<1>6. size \in 0 .. Len(mine) /\ (size = 0 => Len(mine) = 0)
  BY <1>3, <1>5
<1> HIDE DEF size
<1>7. s \in Seq(Blocks) /\ Len(s) = size /\ \A i \in 1 .. size : s[i] = mine[i]
  BY <1>5, <1>6, PrefixFacts
<1> HIDE DEF s
<1>8. DOMAIN s = 1 .. size /\ \A i \in DOMAIN s : i \in DOMAIN mine /\ s[i] = mine[i]
  BY <1>5, <1>6, <1>7
<1>9. Freeing(w, 0, s, p, w)
  <2>1. Distinct(s)
    BY <1>5, <1>8 DEF Distinct
  <2>2. \A i \in DOMAIN s : p \in n.sources[s[i]] /\ n.hashMap[s[i]] = None
    BY <1>5, <1>8 DEF Agreeing
  <2>3. Grows(n, n)
    BY DEF Grows
  <2> QED
    BY <1>7, <2>1, <2>2, <2>3 DEF Freeing
<1>10. Freeing(v, size, s, p, w)
  BY <1>4, <1>7, <1>9, FreedAgrees
<1>11. /\ Agreeing(v.node) /\ Grows(n, v.node) /\ (size > 0 => HashesOf(v.node, p) # {})
       /\ \A i \in DOMAIN v.node.pending : \E j \in DOMAIN n.pending : v.node.pending[i] = n.pending[j]
  BY <1>10 DEF Freeing
<1>12. ASSUME NEW i \in DOMAIN v.node.pending PROVE Owed(v.node, v.node.pending[i])
  <2>1. PICK j \in DOMAIN n.pending : v.node.pending[i] = n.pending[j]
    BY <1>11
  <2>2. n.pending[j] \in Blocks
    BY <1>1
  <2>3. CASE Owed(n, n.pending[j])
    BY <1>1, <1>11, <2>1, <2>2, <2>3, GrowsOwed
  <2>4. CASE p \in n.sources[n.pending[j]]
    <3>1. Len(mine) # 0
      BY <1>5, <2>2, <2>4
    <3>2. HashesOf(v.node, p) # {} /\ v.node.sources = n.sources
      BY <1>6, <1>11, <3>1 DEF Grows
    <3> QED
      BY <2>1, <2>4, <3>2 DEF Owed
  <2> QED
    BY <2>3, <2>4
<1> QED
  BY <1>11, <1>12 DEF Served, v

LEMMA OpenedServed ==
    ASSUME NEW w, Fine(w), NEW p \in Peers, Served(w.node)
    PROVE  LET v == Opened(w, p)
           IN  Served(v.node) /\ v.node.hashMap = w.node.hashMap /\ v.node.sources = w.node.sources
<1> DEFINE r == [hashes |-> {}, wnd |-> InitBlockWnd, live |-> TRUE]
           c == [w.node.connMap EXCEPT ![p] = r]
           v == [w EXCEPT !.node.connMap[p] = r]
           n == w.node
           o == v.node
<1>1. CASE n.connMap[p] # None
  BY <1>1 DEF Opened
<1>2. CASE n.connMap[p] = None
  <2>1. w \in World /\ n \in NodeType /\ n.connMap \in ConnMaps /\ n.sources \in SourceMaps
        /\ n.pending \in Seq(Blocks)
    BY DEF Fine, World, NodeType, BlockQueues
  <2>2. o = [n EXCEPT !.connMap = c]
    BY <2>1 DEF World, NodeType
  <2>3. r.hashes = {} /\ r.wnd # 0
    BY SyncAssumption
  <2>4. Opened(w, p) = v
    BY <1>2 DEF Opened
  <2> HIDE DEF r, v
  <2>5. c[p] = r /\ \A x \in Peers : x # p => c[x] = n.connMap[x]
    BY <2>1 DEF ConnMaps
  <2> HIDE DEF c
  <2>6. o.connMap = c /\ o.hashMap = n.hashMap /\ o.sources = n.sources /\ o.pending = n.pending
    BY <2>1, <2>2 DEF NodeType
  <2> HIDE DEF o
  <2>7. \A x \in Peers : HashesOf(o, x) = HashesOf(n, x)
    BY <1>2, <2>3, <2>5, <2>6 DEF HashesOf
  <2>8. Agreeing(n) /\ \A i \in DOMAIN n.pending : n.pending[i] \in Blocks /\ Owed(n, n.pending[i])
    BY <2>1 DEF Served
  <2>9. \A x \in Peers : o.connMap[x] # None /\ o.connMap[x].wnd = 0 => HashesOf(o, x) # {}
    <3>1. \A x \in Peers : n.connMap[x] # None /\ n.connMap[x].wnd = 0 => HashesOf(n, x) # {}
      BY <2>8 DEF Agreeing
    <3> QED
      BY <2>3, <2>5, <2>6, <2>7, <3>1
  <2> HIDE DEF n
  <2>10. Agreeing(o)
    BY <2>6, <2>7, <2>8, <2>9 DEF Agreeing
  <2>11. Grows(n, o)
    BY <2>6, <2>7 DEF Grows
  <2>12. \A i \in DOMAIN o.pending : Owed(o, o.pending[i])
    BY <2>1, <2>6, <2>8, <2>11, GrowsOwed
  <2> QED
    BY <2>4, <2>6, <2>10, <2>12 DEF Served, o, n
<1> QED
  BY <1>1, <1>2

LEMMA SourcedServed ==
    ASSUME NEW w, Fine(w), NEW p \in Peers, Served(w.node), NEW stored, NEW missing \in Seq(Blocks)
    PROVE  LET v == Sourced(w, p, stored, missing)
           IN  /\ Served(v.node) /\ v.node.hashMap = w.node.hashMap
               /\ \A i \in DOMAIN missing : p \in v.node.sources[missing[i]]
<1> DEFINE m == [h \in Blocks |-> IF h \in Range(missing) THEN w.node.sources[h] \cup {p}
                                  ELSE w.node.sources[h]]
           r == w.node.ready \o stored
           v == Sourced(w, p, stored, missing)
           n == w.node
           o == v.node
<1>1. w \in World /\ n \in NodeType /\ n.connMap \in ConnMaps /\ n.sources \in SourceMaps
      /\ n.pending \in Seq(Blocks)
  BY DEF Fine, World, NodeType, BlockQueues
<1>2. o = [n EXCEPT !.ready = r, !.sources = m]
  BY <1>1 DEF World, NodeType, Sourced
<1> HIDE DEF v, r
<1>3. /\ \A h \in Blocks : n.sources[h] \subseteq m[h] /\ m[h] \subseteq Peers
      /\ \A i \in DOMAIN missing : missing[i] \in Blocks /\ p \in m[missing[i]]
  BY <1>1 DEF SourceMaps, Range
<1> HIDE DEF m
<1>4. o.connMap = n.connMap /\ o.hashMap = n.hashMap /\ o.sources = m /\ o.pending = n.pending
  BY <1>1, <1>2 DEF NodeType
<1> HIDE DEF o
<1>5. \A x \in Peers : HashesOf(o, x) = HashesOf(n, x)
  BY <1>4 DEF HashesOf
<1>6. Agreeing(n) /\ \A i \in DOMAIN n.pending : n.pending[i] \in Blocks /\ Owed(n, n.pending[i])
  BY <1>1 DEF Served
<1> HIDE DEF n
<1>7. \A i \in DOMAIN o.pending : o.hashMap[o.pending[i]] = None /\ o.sources[o.pending[i]] # {}
  BY <1>3, <1>4, <1>6 DEF Agreeing
<1>8. \A b \in Blocks : o.hashMap[b] # None => o.hashMap[b] \in o.sources[b]
  BY <1>3, <1>4, <1>6 DEF Agreeing
<1>9. Agreeing(o)
  BY <1>4, <1>5, <1>6, <1>7, <1>8 DEF Agreeing
<1>10. \A i \in DOMAIN o.pending : Owed(o, o.pending[i])
  BY <1>3, <1>4, <1>5, <1>6 DEF Owed
<1> QED
  BY <1>3, <1>4, <1>9, <1>10 DEF Served, o, n, v

\* Requests of a list without doubles keep the tables in step.
LEMMA RequestBlocksServed ==
    ASSUME NEW w, Fine(w), NEW p \in Peers, NEW headers \in Seq(Blocks), Distinct(headers),
           Served(w.node)
    PROVE  Served(RequestBlocks(w, p, headers).node)
<1> DEFINE stored  == Those(headers, w.node.stored)
           missing == Those(headers, Blocks \ w.node.stored)
           T == {h \in Blocks : p \notin w.node.sources[h] /\ w.node.hashMap[h] = None}
           ask == Those(missing, T)
           v == Opened(w, p)
           u == Sourced(v, p, stored, missing)
<1>1. stored \in Seq(Blocks) /\ \A i \in DOMAIN stored : stored[i] \in w.node.stored
  BY ThoseType
<1>2. missing \in Seq(Blocks) /\ Distinct(missing)
  BY ThoseFacts DEF Chosen
<1>6. RequestBlocks(w, p, headers) = IF ~(w.node.connMap[p] # None) /\ w.wire.conn[p] = "none" THEN w
                         ELSE RequestedOrPended(u, ask, p)
  BY DEF RequestBlocks, Opened, Sourced, RequestedOrPended
<1> HIDE DEF missing, stored
<1>3. /\ ask \in Seq(Blocks) /\ Distinct(ask)
      /\ \A i \in DOMAIN ask : ask[i] \in T /\ \E j \in DOMAIN missing : ask[i] = missing[j]
  <2>1. Chosen(ask, Len(missing), missing, T, Blocks) /\ DOMAIN missing = 1 .. Len(missing)
    BY <1>2, ThoseFacts
  <2> QED
    BY <1>2, <2>1 DEF Chosen
<1> HIDE DEF ask
<1>4. /\ Keeps(w, v) /\ Open(v, p) /\ Served(v.node) /\ v.node.stored = w.node.stored
      /\ v.node.hashMap = w.node.hashMap
  BY OpenedKeeps, OpenedServed DEF Keeps, Same
<1> HIDE DEF v
<1>5. /\ Fine(u) /\ Open(u, p) /\ Served(u.node) /\ u.node.hashMap = v.node.hashMap
      /\ \A i \in DOMAIN missing : p \in u.node.sources[missing[i]]
  BY <1>1, <1>2, <1>4, SourcedKeeps, SourcedServed, KeepsFine
<1> HIDE DEF u
<1>7. Serving(u, 0, ask, p, u)
  BY <1>3, <1>4, <1>5 DEF Serving
<1>8. Served(RequestedOrPended(u, ask, p).node)
  BY <1>7, AskedServed
<1> QED
  BY <1>6, <1>8

\* A block that came is requested no more; what waits for p alone can be asked.
LEMMA TakenAgrees ==
    ASSUME NEW w, Fine(w), NEW p \in Peers, NEW b \in Blocks, Open(w, p), w.node.hashMap[b] = p,
           Served(w.node)
    PROVE  LET n == Taken(w, p, b).node
           IN  /\ Agreeing(n)
               /\ \A i \in DOMAIN n.pending : Owed(n, n.pending[i]) \/ p \in n.sources[n.pending[i]]
<1> DEFINE wnd == w.node.connMap[p].wnd + 1
           size == IF wnd > 3 * InitBlockWnd THEN 3 * InitBlockWnd ELSE wnd
           r == [w.node.connMap[p] EXCEPT !.hashes = @ \ {b}, !.wnd = size]
           c == [w.node.connMap EXCEPT ![p] = r]
           m == [w.node.hashMap EXCEPT ![b] = None]
           s == [w.node.sources EXCEPT ![b] = {}]
           n == w.node
           o == Taken(w, p, b).node
<1>1. w \in World /\ n \in NodeType /\ n.connMap \in ConnMaps /\ n.sources \in SourceMaps
      /\ n.pending \in Seq(Blocks) /\ n.hashMap \in HashMaps
  BY DEF Fine, World, NodeType, BlockQueues
<1>2. n.connMap[p] \in ConnType /\ size \in Nat /\ size # 0
  BY SyncAssumption DEF Open, ConnType
<1>3. o = [n EXCEPT !.connMap = c, !.hashMap = m, !.sources = s]
  BY <1>1 DEF World, NodeType, Taken, ConnMaps
<1> HIDE DEF size, o
<1>4. r.hashes = n.connMap[p].hashes \ {b} /\ r.wnd = size
  BY <1>2 DEF ConnType
<1>19. r \in ConnType
  BY <1>2 DEF ConnType
<1>20. r # None
  BY <1>19, SyncAssumption DEF ConnType
<1> HIDE DEF r
<1>5. /\ \A x \in Peers : x # p => c[x] = n.connMap[x]
      /\ c[p] = r
      /\ \A x \in Blocks : m[x] = IF x = b THEN None ELSE n.hashMap[x]
      /\ \A x \in Blocks : s[x] = IF x = b THEN {} ELSE n.sources[x]
  BY <1>1 DEF ConnMaps, HashMaps, SourceMaps
<1>6. n.connMap[p] # None /\ None \notin Peers
  BY SyncAssumption DEF Open, ConnType
<1> HIDE DEF c, m, s
<1>7. o.connMap = c /\ o.hashMap = m /\ o.sources = s /\ o.pending = n.pending
  BY <1>1, <1>3 DEF NodeType
<1>8. Agreeing(n) /\ \A i \in DOMAIN n.pending : n.pending[i] \in Blocks /\ Owed(n, n.pending[i])
  BY <1>1 DEF Served
<1>18. n.hashMap[b] = p
  OBVIOUS
<1> HIDE DEF n
<1>9. \A x \in Blocks, q \in Peers : x \in HashesOf(n, q) <=> n.hashMap[x] = q
  BY <1>8 DEF Agreeing
<1>10. /\ \A q \in Peers : q # p => HashesOf(o, q) = HashesOf(n, q)
       /\ \A x \in Blocks : x \in HashesOf(o, p) <=> x \in HashesOf(n, p) /\ x # b
  BY <1>4, <1>5, <1>6, <1>7, <1>20 DEF HashesOf
<1>11. \A x \in Blocks, q \in Peers : x \in HashesOf(o, q) <=> o.hashMap[x] = q
  BY <1>5, <1>6, <1>7, <1>9, <1>10, <1>18
<1>12. \A i \in DOMAIN n.pending : n.pending[i] # b
  BY <1>6, <1>8, <1>18 DEF Agreeing
<1>13. \A i \in DOMAIN o.pending : o.hashMap[o.pending[i]] = None /\ o.sources[o.pending[i]] # {}
  BY <1>5, <1>7, <1>8, <1>12 DEF Agreeing
<1>14. \A x \in Blocks : o.hashMap[x] # None => o.hashMap[x] \in o.sources[x]
  BY <1>5, <1>7, <1>8 DEF Agreeing
<1>15. \A x \in Peers : o.connMap[x] # None /\ o.connMap[x].wnd = 0 => HashesOf(o, x) # {}
  <2>1. \A x \in Peers : n.connMap[x] # None /\ n.connMap[x].wnd = 0 => HashesOf(n, x) # {}
    BY <1>8 DEF Agreeing
  <2> QED
    BY <1>2, <1>4, <1>5, <1>7, <1>10, <2>1
<1>16. Agreeing(o)
  BY <1>7, <1>8, <1>11, <1>13, <1>14, <1>15 DEF Agreeing
<1>17. ASSUME NEW i \in DOMAIN o.pending
       PROVE  Owed(o, o.pending[i]) \/ p \in o.sources[o.pending[i]]
  <2>1. n.pending[i] \in Blocks /\ n.pending[i] # b /\ Owed(n, n.pending[i])
    BY <1>7, <1>8, <1>12
  <2>2. o.pending[i] = n.pending[i] /\ o.sources[n.pending[i]] = n.sources[n.pending[i]]
    BY <1>5, <1>7, <2>1
  <2>3. PICK q \in n.sources[n.pending[i]] : HashesOf(n, q) # {}
    BY <2>1 DEF Owed
  <2>4. q \in Peers
    BY <1>1, <2>1, <2>3 DEF SourceMaps, n
  <2> QED
    BY <1>10, <2>2, <2>3, <2>4 DEF Owed
<1> QED
  BY <1>16, <1>17 DEF o

LEMMA OnRecvBlockServed ==
    ASSUME NEW w, Good(w), Served(w.node), NEW p \in Peers, NEW b \in Blocks
    PROVE  Served(OnRecvBlock(w, p, b).node)
<1> DEFINE s == w.node.stored \cup {b}
           v == [w EXCEPT !.node.stored = @ \cup {b}]
           u == Taken(v, p, b)
           x == OnFreeBlockWnd(u, p)
           y == AddPendingBlock(x, b, p, FALSE)
<1>1. Good(v) /\ Fine(v) /\ b \in v.node.stored /\ v.node.connMap = w.node.connMap
      /\ v.node.hashMap = w.node.hashMap
  BY StoreGood DEF Good
<1>2. w \in World /\ w.node \in NodeType /\ Fine(w)
  BY DEF Good, Fine, World
<1>3. OnRecvBlock(w, p, b) = IF w.node.connMap[p] = None \/ w.node.hashMap[b] = None THEN w
                             ELSE IF w.node.hashMap[b] # p THEN v ELSE y
  BY DEF OnRecvBlock
<1>4. v.node = [w.node EXCEPT !.stored = s]
  BY <1>2 DEF World, NodeType
<1> HIDE DEF v, s
<1>5. Steady(w, v)
  BY <1>2, <1>4 DEF Steady, NodeType
<1>6. Served(v.node)
  BY <1>2, <1>5, SteadyServed
<1>7. ASSUME w.node.connMap[p] # None, w.node.hashMap[b] = p PROVE Served(y.node)
  <2>1. Open(v, p) /\ v.node.hashMap[b] = p
    BY <1>1, <1>2, <1>7 DEF Open, NodeType, ConnMaps
  <2>2. Keeps(v, u) /\ Open(u, p) /\ Fine(u)
    BY <1>1, <2>1, TakenKeeps, KeepsFine
  <2>3. /\ Agreeing(u.node)
        /\ \A i \in DOMAIN u.node.pending :
               Owed(u.node, u.node.pending[i]) \/ p \in u.node.sources[u.node.pending[i]]
    BY <1>1, <1>6, <2>1, TakenAgrees
  <2> HIDE DEF u
  <2>4. Served(x.node)
    BY <2>2, <2>3, FreeWindowServed
  <2>5. Keeps(u, x)
    BY <2>2, FreeWindowKeeps
  <2> HIDE DEF x
  <2>6. b \in x.node.stored /\ Fine(x)
    BY <1>1, <2>2, <2>5, KeepsFine DEF Keeps, Same
  <2>7. y.node = x.node
    BY <2>6, AddPendingKeeps
  <2> QED
    BY <2>4, <2>7
<1> HIDE DEF y
<1> QED
  BY <1>3, <1>6, <1>7

\* A window that shrinks below one ends the connection, and its request stays.
LEMMA HalvedServed ==
    ASSUME NEW w, Fine(w), Served(w.node), NEW h \in Blocks, w.node.hashMap[h] # None
    PROVE  LET p == w.node.hashMap[h]
           IN  Served([w EXCEPT !.node.connMap[p].wnd = @ \div 2].node)
<1> DEFINE p == w.node.hashMap[h]
           r == [w.node.connMap[p] EXCEPT !.wnd = @ \div 2]
           c == [w.node.connMap EXCEPT ![p] = r]
           v == [w EXCEPT !.node.connMap[p].wnd = @ \div 2]
           n == w.node
           o == v.node
<1>1. w \in World /\ n \in NodeType /\ n.connMap \in ConnMaps /\ n.pending \in Seq(Blocks)
      /\ n.sources \in SourceMaps
  BY DEF Fine, World, NodeType, BlockQueues
<1>2. p \in Peers /\ n.connMap[p] \in ConnType
  BY <1>1 DEF Fine, Tidy, Held, NodeType, HashMaps
<1>3. Agreeing(n) /\ \A i \in DOMAIN n.pending : n.pending[i] \in Blocks /\ Owed(n, n.pending[i])
  BY <1>1 DEF Served
<1>4. h \in HashesOf(n, p)
  BY <1>2, <1>3 DEF Agreeing
<1> HIDE DEF p
<1>5. o = [n EXCEPT !.connMap = c]
  BY <1>1, <1>2 DEF World, NodeType, ConnMaps
<1>6. r \in ConnType /\ r.hashes = n.connMap[p].hashes
  BY <1>2 DEF ConnType
<1>7. None \notin ConnType
  BY SyncAssumption DEF ConnType
<1> HIDE DEF v, r
<1>8. c[p] = r /\ \A x \in Peers : x # p => c[x] = n.connMap[x]
  BY <1>1, <1>2 DEF ConnMaps
<1> HIDE DEF c, o
<1>9. o.connMap = c /\ o.hashMap = n.hashMap /\ o.sources = n.sources /\ o.pending = n.pending
  BY <1>1, <1>5 DEF NodeType
<1> HIDE DEF n
<1>10. \A x \in Peers : HashesOf(o, x) = HashesOf(n, x)
  <2>1. n.connMap[p] # None /\ r # None
    BY <1>2, <1>6, <1>7
  <2> QED
    BY <1>6, <1>8, <1>9, <2>1 DEF HashesOf
<1>11. \A x \in Peers : o.connMap[x] # None /\ o.connMap[x].wnd = 0 => HashesOf(o, x) # {}
  <2>1. \A x \in Peers : n.connMap[x] # None /\ n.connMap[x].wnd = 0 => HashesOf(n, x) # {}
    BY <1>3 DEF Agreeing
  <2> QED
    BY <1>4, <1>8, <1>9, <1>10, <2>1
<1>12. Agreeing(o)
  BY <1>3, <1>9, <1>10, <1>11 DEF Agreeing
<1>13. Grows(n, o)
  BY <1>9, <1>10 DEF Grows
<1>14. \A i \in DOMAIN o.pending : Owed(o, o.pending[i])
  BY <1>1, <1>3, <1>9, <1>13, GrowsOwed DEF n
<1> QED
  BY <1>12, <1>14 DEF Served, o, v, p

\* The steps.
LEMMA SameRequests == ASSUME RInv, IInv', UNCHANGED <<node, chain>> PROVE RInv'
  BY DEF RInv

LEMMA BecomeRequests ==
    ASSUME IInv', NEW w, Become(w), Served(w.node), StepDistinct(w.chain)
    PROVE  RInv'
  BY DEF RInv, Become

LEMMA SteadyRequests ==
    ASSUME RInv, IInv', NEW w, Become(w), Steady(Now, w), w.chain.step = chain.step
    PROVE  RInv'
<1>1. Fine(Now) /\ Now.node = node /\ Served(Now.node)
  BY NowFacts DEF RInv
<1>2. Served(w.node)
  BY <1>1, SteadyServed
<1>3. StepDistinct(w.chain)
  BY DEF RInv, StepDistinct
<1> QED
  BY <1>2, <1>3, BecomeRequests

LEMMA DoneRequests ==
    ASSUME IInv', NEW w, Fine(w), Become(HeadersDone(w)), Served(w.node)
    PROVE  RInv'
<1> DEFINE v == HeadersDone(w)
           c == [w.chain EXCEPT !.headers = Tail(w.chain.headers), !.step = None]
<1>1. w \in World /\ w.chain \in ChainType
  BY DEF Fine, World
<1>2. v = [w EXCEPT !.chain = c]
  BY <1>1 DEF HeadersDone, World, ChainType
<1> HIDE DEF v
<1>3. c.step = None
  BY <1>1 DEF ChainType
<1> HIDE DEF c
<1>4. v.node = w.node /\ v.chain = c
  BY <1>1, <1>2 DEF World
<1>5. StepDistinct(v.chain)
  BY <1>3, <1>4 DEF StepDistinct
<1> QED
  BY <1>4, <1>5, BecomeRequests DEF v

LEMMA OutboundRequests ==
    ASSUME RInv, IInv', NEW p \in Peers, Outbound(p)
    PROVE  RInv'
<1> DEFINE v == [Now EXCEPT !.wire.conn[p] = "out"]
           from == Ancestor(chain.tip, Number(chain.tip) - ConfirmDepth)
           u == BeginSync(v, p, TRUE, from)
<1>1. Fine(Now) /\ Now \in World /\ wire \in WireType /\ chain \in ChainType /\ Now.wire = wire
      /\ Now.chain = chain
  BY NowFacts DEF RInv
<1>2. v.wire = [wire EXCEPT !.conn[p] = "out"] /\ v.node = Now.node /\ v.chain = Now.chain
      /\ v = [Now EXCEPT !.wire = v.wire]
  BY <1>1 DEF World
<1>3. v.wire \in WireType
  BY <1>1, <1>2 DEF WireType, ConnStates
<1>4. Keeps(Now, v)
  BY <1>1, <1>2, <1>3, WireKeeps
<1>5. from \in BG
  <2>1. chain.tip \in BG /\ ConfirmDepth \in Nat
    BY <1>1, SyncAssumption DEF ChainType
  <2>2. Number(chain.tip) \in Nat
    BY <2>1, PathFacts
  <2> QED
    BY <2>1, <2>2, AncestorType
<1>6. Become(u)
  BY DEF Outbound
<1> HIDE DEF v, from
<1>7. Keeps(Now, u)
  BY <1>4, <1>5, BeginSyncKeeps, KeepsTwice, KeepsFine
<1>8. Steady(Now, u)
  BY <1>2, <1>4, <1>5, SteadySame, BeginSyncSteady, SteadyTwice, KeepsFine
<1> HIDE DEF u
<1> QED
  BY <1>1, <1>6, <1>7, <1>8, SteadyRequests DEF Keeps, Same

LEMMA OnRecvHeadersSteady ==
    ASSUME NEW w, Fine(w), NEW p \in Peers, NEW pkg
    PROVE  Steady(w, OnRecvHeaders(w, p, pkg))
<1> DEFINE requesting == [w.node.requestingHeaders EXCEPT ![p] = None]
           entry == [from |-> p, headers |-> pkg.headers, request |-> pkg.request, error |-> pkg.error]
           v == IF pkg.request = None THEN w ELSE [w EXCEPT !.node.requestingHeaders[p] = None]
           u == [v EXCEPT !.chain.headers = Append(@, entry)]
<1>1. w \in World /\ w.node \in NodeType
  BY DEF Fine, World
<1>2. OnRecvHeaders(w, p, pkg) \in {u, Ban(w, p)}
  BY DEF OnRecvHeaders
<1> HIDE DEF entry
<1>3. /\ v = [node |-> v.node, chain |-> w.chain, wire |-> w.wire]
      /\ v.node \in {w.node, [w.node EXCEPT !.requestingHeaders = requesting]}
  BY <1>1 DEF World, NodeType
<1> HIDE DEF requesting, v
<1>4. u.node = v.node
  BY <1>3
<1> HIDE DEF u
<1>5. Steady(w, u)
  BY <1>1, <1>3, <1>4 DEF Steady, NodeType
<1> QED
  BY <1>2, <1>5, BanSteady

LEMMA ReceiveHeadersRequests ==
    ASSUME RInv, IInv', NEW p \in Peers, ReceiveHeaders(p)
    PROVE  RInv'
<1> DEFINE pkg == Head(wire.back[p])
           w == OnRecvHeaders(Took(p), p, pkg)
<1>1. IInv /\ Now.node = node /\ Now.chain = chain
  BY NowFacts DEF RInv
<1>2. Keeps(Now, Took(p)) /\ pkg \in Package
  BY <1>1, TookKeeps DEF ReceiveHeaders
<1>3. pkg \in HeaderPackage
  <2>1. pkg.type = "header"
    BY DEF ReceiveHeaders
  <2> QED
    BY <1>2, <2>1 DEF Package, BlockPackage
<1>4. Become(w)
  BY DEF ReceiveHeaders
<1> HIDE DEF pkg
<1>5. Took(p).node = Now.node
  BY <1>1, NowFacts DEF Took, World
<1>6. Keeps(Now, w)
  BY <1>2, <1>3, OnRecvHeadersKeeps, KeepsTwice, KeepsFine
<1>7. Steady(Now, w)
  BY <1>2, <1>5, SteadySame, OnRecvHeadersSteady, SteadyTwice, KeepsFine
<1> HIDE DEF w
<1> QED
  BY <1>1, <1>4, <1>6, <1>7, SteadyRequests DEF Keeps, Same

\* What AddPendingBlock leaves alone.
LEMMA AddPendingRest ==
    ASSUME NEW w \in World, NEW b, NEW from, NEW head \in BOOLEAN
    PROVE  LET v == AddPendingBlock(w, b, from, head)
           IN  v.node = w.node /\ v.chain.step = w.chain.step
<1> DEFINE e == [block |-> b, from |-> from]
           q == IF head THEN <<e>> \o w.chain.blocks ELSE Append(w.chain.blocks, e)
           v == [w EXCEPT !.chain.blocks = q]
<1>1. AddPendingBlock(w, b, from, head) \in {w, v}
  BY DEF AddPendingBlock
<1> HIDE DEF q
<1>2. v.node = w.node /\ v.chain.step = w.chain.step
  BY DEF World, ChainType
<1> QED
  BY <1>1, <1>2

LEMMA OnRecvBlockStep ==
    ASSUME NEW w, Good(w), NEW p \in Peers, NEW b \in Blocks
    PROVE  OnRecvBlock(w, p, b).chain.step = w.chain.step
<1> DEFINE v == [w EXCEPT !.node.stored = @ \cup {b}]
           u == Taken(v, p, b)
           x == OnFreeBlockWnd(u, p)
           y == AddPendingBlock(x, b, p, FALSE)
<1>1. Fine(v) /\ v.node.connMap = w.node.connMap
  BY StoreGood DEF Good
<1>2. w \in World /\ w.node \in NodeType
  BY DEF Good, Fine, World
<1>3. OnRecvBlock(w, p, b) \in {w, v} \/ (w.node.connMap[p] # None /\ OnRecvBlock(w, p, b) = y)
  BY DEF OnRecvBlock
<1>4. v.chain = w.chain
  BY <1>2 DEF World
<1> HIDE DEF v
<1>5. ASSUME w.node.connMap[p] # None PROVE y.chain.step = v.chain.step
  <2>1. Open(v, p)
    BY <1>1, <1>2, <1>5 DEF Open, NodeType, ConnMaps
  <2>2. Keeps(v, u) /\ Open(u, p)
    BY <1>1, <2>1, TakenKeeps
  <2> HIDE DEF u
  <2>3. Keeps(u, x)
    BY <2>2, FreeWindowKeeps, KeepsFine
  <2> HIDE DEF x
  <2>4. x \in World /\ x.chain.step = v.chain.step
    BY <2>2, <2>3 DEF Keeps, Same
  <2> QED
    BY <2>4, AddPendingRest
<1> HIDE DEF y
<1> QED
  BY <1>3, <1>4, <1>5

LEMMA ReceiveBlockRequests ==
    ASSUME RInv, IInv', NEW p \in Peers, ReceiveBlock(p)
    PROVE  RInv'
<1> DEFINE pkg == Head(wire.back[p])
           w == OnRecvBlock(Took(p), p, pkg.block)
<1>1. IInv /\ Good(Now) /\ Now.node = node /\ Now.chain = chain /\ Now \in World
  BY NowFacts DEF RInv, IInv
<1>2. Keeps(Now, Took(p)) /\ pkg \in Package
  BY <1>1, TookKeeps DEF ReceiveBlock
<1>3. pkg.block \in Blocks
  <2>1. pkg.type = "block"
    BY DEF ReceiveBlock
  <2> QED
    BY <1>2, <2>1 DEF Package, BlockPackage, HeaderPackage
<1>4. Become(w)
  BY DEF ReceiveBlock
<1> HIDE DEF pkg
<1>5. Took(p).node = node /\ Took(p).chain = chain
  BY <1>1 DEF Took, World
<1>6. Good(Took(p)) /\ Served(Took(p).node)
  BY <1>1, <1>2, <1>5, KeepsGood DEF RInv
<1>7. Served(w.node)
  BY <1>3, <1>6, OnRecvBlockServed
<1>8. w.chain.step = chain.step
  BY <1>3, <1>5, <1>6, OnRecvBlockStep
<1> HIDE DEF w
<1>9. StepDistinct(w.chain)
  BY <1>8 DEF RInv, StepDistinct
<1> QED
  BY <1>4, <1>7, <1>9, BecomeRequests

LEMMA StoredBlockRequests ==
    ASSUME RInv, IInv', StoredBlock
    PROVE  RInv'
<1> DEFINE r == Tail(node.ready)
           v == [Now EXCEPT !.node.ready = Tail(@)]
           w == AddPendingBlock(v, Head(node.ready), None, FALSE)
<1>1. Now \in World /\ node \in NodeType /\ Now.node = node /\ Now.chain = chain
  BY NowFacts DEF RInv
<1>2. r \in BlockQueues
  BY <1>1 DEF StoredBlock, NodeType, BlockQueues
<1>3. v = [Now EXCEPT !.node = [node EXCEPT !.ready = r]]
  BY <1>1
<1>4. Become(w)
  BY DEF StoredBlock
<1> HIDE DEF v, r
<1>5. v \in World /\ v.node = [node EXCEPT !.ready = r] /\ v.chain = chain
  BY <1>1, <1>2, <1>3 DEF World, NodeType
<1>6. Steady(Now, v)
  BY <1>1, <1>5 DEF Steady, NodeType
<1>7. w.node = v.node /\ w.chain.step = v.chain.step
  BY <1>5, AddPendingRest
<1> HIDE DEF w
<1>8. Steady(Now, w)
  BY <1>6, <1>7 DEF Steady
<1> QED
  BY <1>4, <1>5, <1>7, <1>8, SteadyRequests

LEMMA ConnectionErrorRequests ==
    ASSUME RInv, IInv', NEW p \in Peers, ConnectionError(p)
    PROVE  RInv'
<1> DEFINE v == Closed(Now, p)
<1>1. Fine(Now) /\ Now.chain = chain
  BY NowFacts DEF RInv
<1>2. Keeps(Now, v) /\ Steady(Now, v)
  BY <1>1, ClosedKeeps, ClosedSteady
<1>3. OnRemoveConnection(v, NetworkName) = v /\ ForgetConnection(v, FullId(NetworkName)) = v
  BY IdFacts, Zenon DEF OnRemoveConnection, ForgetConnection
<1>4. Become(v)
  BY <1>3 DEF ConnectionError
<1> HIDE DEF v
<1> QED
  BY <1>1, <1>2, <1>4, SteadyRequests DEF Keeps, Same

LEMMA BanRequests ==
    ASSUME RInv, IInv', NEW p \in Peers, Become(Ban(Now, p))
    PROVE  RInv'
<1>1. Fine(Now) /\ Now.chain = chain
  BY NowFacts DEF RInv
<1>2. Keeps(Now, Ban(Now, p)) /\ Steady(Now, Ban(Now, p))
  BY <1>1, BanKeeps, BanSteady
<1> QED
  BY <1>1, <1>2, SteadyRequests DEF Keeps, Same

LEMMA BlockTimeoutRequests ==
    ASSUME RInv, IInv', NEW h \in Blocks, BlockTimeout(h)
    PROVE  RInv'
<1> DEFINE p == node.hashMap[h]
           v == [Now EXCEPT !.node.connMap[p].wnd = @ \div 2]
<1>1. Fine(Now) /\ Now.chain = chain /\ Now.node = node
  BY NowFacts DEF RInv
<1>2. Served(v.node) /\ p \in Peers /\ Keeps(Now, v)
  <2>1. Now.node.hashMap[h] # None /\ Served(Now.node)
    BY <1>1 DEF BlockTimeout, RInv
  <2>2. Served([Now EXCEPT !.node.connMap[Now.node.hashMap[h]].wnd = @ \div 2].node)
    BY <1>1, <2>1, HalvedServed
  <2>3. /\ Now.node.hashMap[h] \in Peers
        /\ Keeps(Now, [Now EXCEPT !.node.connMap[Now.node.hashMap[h]].wnd = @ \div 2])
    BY <1>1, <2>1, HalvedKeeps
  <2> QED
    BY <1>1, <2>2, <2>3
<1>3. Become(Ban(v, p)) \/ Become(v)
  BY Zenon DEF BlockTimeout
<1> HIDE DEF v, p
<1>4. Keeps(Now, Ban(v, p)) /\ Served(Ban(v, p).node)
  BY <1>2, BanKeeps, BanSteady, SteadyServed, KeepsTwice, KeepsFine
<1>5. \A u : Keeps(Now, u) => StepDistinct(u.chain)
  BY <1>1 DEF Keeps, Same, RInv, StepDistinct
<1> QED
  BY <1>2, <1>3, <1>4, <1>5, BecomeRequests

LEMMA VerifyAndSaveRequests ==
    ASSUME IInv', NEW w, Fine(w), Linked(w.chain), Served(w.node), NEW e \in HeaderEntry, e.error = "OK",
           NEW branch, Become(VerifyAndSave(w, e, branch))
    PROVE  RInv'
<1> DEFINE res == VerifyHeaders(e.headers, w.chain.verified)
           step == [branch |-> branch, err |-> res.err, toRequest |-> res.toRequest]
           f == [b \in DOMAIN w.chain.verified |->
                    IF b \in Range(res.toSave) THEN "notVerified" ELSE w.chain.verified[b]]
           c == [w.chain EXCEPT !.step = step, !.verified = f]
           v == VerifyAndSave(w, e, branch)
<1>1. w \in World /\ w.chain \in ChainType /\ w.chain.verified \in States
  BY DEF Fine, World, ChainType
<1>2. e.headers \in Segments /\ e.headers # <<>>
  BY DEF HeaderEntry, Sound
<1>3. Distinct(res.toRequest)
  BY <1>1, <1>2, VerifyFacts
<1>4. v = [w EXCEPT !.chain = c]
  BY <1>1 DEF VerifyAndSave, World, ChainType
<1> HIDE DEF res, v, f
<1>5. v.node = w.node /\ v.chain = c
  BY <1>1, <1>4 DEF World
<1>6. c.step = step /\ step.toRequest = res.toRequest
  BY <1>1 DEF ChainType
<1> HIDE DEF c, step
<1>7. StepDistinct(v.chain)
  BY <1>3, <1>5, <1>6 DEF StepDistinct
<1> QED
  BY <1>5, <1>7, BecomeRequests DEF v

LEMMA AddHeadersRequests ==
    ASSUME RInv, IInv', AddHeaders
    PROVE  RInv'
<1> DEFINE e == Head(chain.headers)
           created == [Now EXCEPT !.chain.connSync[e.from] = SyncRecord("synced", TRUE)]
           record == chain.connSync[e.from]
           back == Ancestor(record.lastReq, Number(record.lastReq) - HeaderReqLimit)
           r == [record EXCEPT !.more = FALSE]
           v == [Now EXCEPT !.chain.connSync[e.from].more = FALSE]
           u == [Now EXCEPT !.chain.connSync[e.from] = r]
<1>1. /\ Fine(Now) /\ Good(Now) /\ Now.node = node /\ Now.chain = chain /\ Now \in World
      /\ chain \in ChainType /\ Linked(Now.chain) /\ Served(Now.node)
  BY NowFacts DEF RInv, IInv, Good
<1>2. /\ chain.headers # <<>> /\ chain.headers \in Seq(HeaderEntry)
  BY <1>1 DEF ChainType, HeaderEntries, AddHeaders
<1>3. e \in HeaderEntry
  BY <1>2
<1>4. e.from \in Peers /\ (e.request = None => e.error = "OK") /\ e.request \in Opt /\ e.error \in Errors
      /\ record \in SyncType \cup {None}
  BY <1>1, <1>3 DEF HeaderEntry, Sound, ChainType, SyncMaps
<1>5. \/ Become(HeadersDone(Now))
      \/ e.request = None /\ Become(VerifyAndSave(created, e, "synced"))
      \/ record # None /\ Become(AddHeadersSyncing(Now, e))
      \/ e.request = None /\ Become(VerifyAndSave(Now, e, "synced"))
      \/ Become(HeadersDone(ChainBan(Now, e.from)))
  BY Zenon DEF AddHeaders
<1>6. \/ e.error \notin {"SKIPPED", "NOT_FOUND"}
         /\ AddHeadersSyncing(Now, e) = VerifyAndSave(Now, e, "syncing")
      \/ AddHeadersSyncing(Now, e) \in {HeadersDone(Now), HeadersDone(ChainBan(Now, e.from)),
                                        HeadersDone(ContinueSync(v, e.from))}
      \/ (e.request # None /\ e.request = record.lastReq
          /\ AddHeadersSyncing(Now, e) = HeadersDone(BeginSync(Now, e.from, FALSE, back)))
  BY <1>1 DEF AddHeadersSyncing
<1>7. ASSUME NEW w, Keeps(Now, w), Steady(Now, w), Become(HeadersDone(w)) PROVE RInv'
  BY <1>1, <1>7, SteadyServed, KeepsFine, DoneRequests
<1>8. ASSUME e.error = "OK", NEW branch, Become(VerifyAndSave(Now, e, branch)) PROVE RInv'
  BY <1>1, <1>3, <1>8, VerifyAndSaveRequests
<1>9. ASSUME e.error = "OK", Become(VerifyAndSave(created, e, "synced")) PROVE RInv'
  <2>1. SyncRecord("synced", TRUE) \in SyncType
    BY DEF SyncRecord, SyncType, Branch, Opt
  <2>2. Keeps(Now, created) /\ created.node = node
    BY <1>1, <1>4, <2>1, SyncSetKeeps DEF World
  <2> HIDE DEF created
  <2>3. Good(created)
    BY <1>1, <2>2, KeepsGood
  <2> QED
    BY <1>1, <1>3, <1>9, <2>2, <2>3, VerifyAndSaveRequests DEF Good
<1>10. /\ Keeps(Now, Now) /\ Steady(Now, Now)
       /\ Keeps(Now, ChainBan(Now, e.from)) /\ Steady(Now, ChainBan(Now, e.from))
  BY <1>1, <1>4, KeepsSelf, SteadySame, ChainBanKeeps, ChainBanSteady
<1>11. ASSUME record # None
       PROVE  Keeps(Now, ContinueSync(v, e.from)) /\ Steady(Now, ContinueSync(v, e.from))
  <2>1. r \in SyncType
    BY <1>4, <1>11 DEF SyncType
  <2>2. v = u /\ v.node = Now.node
    BY <1>1, <1>4 DEF World, ChainType, SyncMaps
  <2> HIDE DEF r, u, v
  <2>3. Keeps(Now, v) /\ Tracked(v, e.from)
    BY <1>1, <1>4, <2>1, <2>2, SyncSetKeeps DEF u
  <2> QED
    BY <1>1, <1>4, <2>2, <2>3, ContinueSyncKeeps, ContinueSyncSteady, SteadySame, SteadyTwice,
       KeepsTwice, KeepsFine
<1>12. ASSUME record # None, e.request # None, e.request = record.lastReq
       PROVE  /\ Keeps(Now, BeginSync(Now, e.from, FALSE, back))
              /\ Steady(Now, BeginSync(Now, e.from, FALSE, back))
  <2>1. record.lastReq \in BG
    BY <1>4, <1>12 DEF Opt
  <2>2. Number(record.lastReq) \in Nat /\ HeaderReqLimit \in Nat
    BY <2>1, PathFacts, SyncAssumption
  <2>3. back \in BG
    BY <2>1, <2>2, AncestorType
  <2> QED
    BY <1>1, <1>4, <2>3, BeginSyncKeeps, BeginSyncSteady
<1> HIDE DEF e, created, record, back, v
<1>13. CASE record # None /\ Become(AddHeadersSyncing(Now, e))
  BY <1>4, <1>6, <1>7, <1>8, <1>10, <1>11, <1>12, <1>13 DEF Errors
<1> QED
  BY <1>4, <1>5, <1>7, <1>8, <1>9, <1>10, <1>13

LEMMA ReceivedNode ==
    ASSUME NEW w \in World, NEW e, NEW more \in BOOLEAN
    PROVE  Received(w, e, more).node = w.node
  BY DEF Received, World

LEMMA HeadersVerifiedRequests ==
    ASSUME RInv, IInv', HeadersVerified
    PROVE  RInv'
<1> DEFINE e    == Head(chain.headers)
           p    == e.from
           step == chain.step
           last == e.headers[Len(e.headers)]
           full == Received(Now, e, Len(e.headers) = HeaderReqLimit)
           kept == Received(Now, e, IF chain.connSync[p] = None THEN FALSE ELSE chain.connSync[p].more)
           back == Ancestor(chain.tip, Number(chain.tip) - ConfirmDepth + 1)
<1>1. /\ Fine(Now) /\ Good(Now) /\ Now.node = node /\ Now.chain = chain /\ Now \in World
      /\ chain \in ChainType /\ Served(Now.node)
  BY NowFacts DEF RInv, IInv
<1>2. step # None /\ chain.headers # <<>> /\ chain.headers[1].error = "OK" /\ chain.headers \in Seq(HeaderEntry)
  BY <1>1 DEF HeadersVerified, Good, StepReady, ChainType, HeaderEntries
<1>3. e \in HeaderEntry /\ e.error = "OK"
  BY <1>2
<1>4. p \in Peers /\ e.headers # <<>>
  BY <1>3 DEF HeaderEntry, Sound
<1>5. step.toRequest \in Seq(Blocks) /\ Distinct(step.toRequest)
  BY <1>1, <1>2 DEF ChainType, StepOpt, StepType, RInv, StepDistinct
<1>6. back \in BG
  <2>1. chain.tip \in BG /\ ConfirmDepth \in Nat \ {0}
    BY <1>1, SyncAssumption DEF ChainType
  <2>2. Number(chain.tip) \in Nat
    BY <2>1, PathFacts
  <2> QED
    BY <2>1, <2>2, AncestorType
<1>7. \/ Become(HeadersDone(ChainBan(Now, p)))
      \/ Become(HeadersDone(BeginSync(Now, p, FALSE, back)))
      \/ Become(HeadersDone(RequestBlocks(kept, p, step.toRequest)))
      \/ Become(HeadersDone(RequestBlocks(full, p, step.toRequest)))
      \/ chain.connSync[p] # None /\ Become(HeadersDone(ContinueSync(full, p)))
      \/ Become(HeadersDone(RequestHeaders(Now, p, FALSE, last)))
      \/ Become(HeadersDone(Now))
  BY DEF HeadersVerified
<1>8. Keeps(Now, full) /\ StillTracked(Now, full) /\ full.node = node
  BY <1>1, <1>3, <1>4, ReceivedKeeps, ReceivedNode
<1>9. Keeps(Now, kept) /\ kept.node = node
  <2>1. (IF chain.connSync[p] = None THEN FALSE ELSE chain.connSync[p].more) \in BOOLEAN
    BY <1>1, <1>4 DEF ChainType, SyncMaps, SyncType
  <2> QED
    BY <1>1, <1>3, <1>4, <2>1, ReceivedKeeps, ReceivedNode
<1>10. chain.connSync[p] # None => Tracked(full, p)
  BY <1>1, <1>4, <1>8 DEF StillTracked, Tracked, ChainType, SyncMaps
<1>16. last \in BG
  BY <1>3, <1>4 DEF HeaderEntry, Segments, BG
<1> HIDE DEF full, kept, back, p, last, step, e
<1>11. /\ Fine(Now) /\ Fine(ChainBan(Now, p)) /\ Fine(BeginSync(Now, p, FALSE, back))
       /\ Fine(RequestHeaders(Now, p, FALSE, last))
       /\ Fine(RequestBlocks(kept, p, step.toRequest)) /\ Fine(RequestBlocks(full, p, step.toRequest))
       /\ chain.connSync[p] # None => Fine(ContinueSync(full, p))
  <2>1. Fine(full) /\ Fine(kept)
    BY <1>8, <1>9, KeepsFine
  <2> QED
    BY <1>1, <1>4, <1>5, <1>6, <1>10, <1>16, <2>1, ChainBanKeeps, BeginSyncKeeps, RequestHeadersKeeps,
       RequestBlocksKeeps, ContinueSyncKeeps, KeepsFine
<1>12. /\ Served(ChainBan(Now, p).node) /\ Served(BeginSync(Now, p, FALSE, back).node)
       /\ Served(RequestHeaders(Now, p, FALSE, last).node)
  BY <1>1, <1>4, <1>6, SteadyServed, ChainBanSteady, BeginSyncSteady, RequestHeadersSteady
<1>13. Fine(full) /\ Served(full.node) /\ Fine(kept) /\ Served(kept.node)
  BY <1>1, <1>8, <1>9, KeepsFine
<1>14. /\ Served(RequestBlocks(kept, p, step.toRequest).node)
       /\ Served(RequestBlocks(full, p, step.toRequest).node)
       /\ chain.connSync[p] # None => Served(ContinueSync(full, p).node)
  BY <1>4, <1>5, <1>10, <1>13, RequestBlocksServed, SteadyServed, ContinueSyncSteady
<1>15. ASSUME NEW w, Fine(w), Served(w.node), Become(HeadersDone(w)) PROVE RInv'
  BY <1>15, DoneRequests
<1> QED
  BY <1>1, <1>7, <1>11, <1>12, <1>14, <1>15

\* What is set in the chain leaves the requests alone.
LEMMA MarkedRest ==
    ASSUME NEW w \in World, NEW b, NEW s \in {"verified", "invalid"}
    PROVE  LET v == Marked(w, b, s)
           IN  v.node = w.node /\ v.chain.step = w.chain.step /\ v \in World
<1> DEFINE f == [w.chain.verified EXCEPT ![b] = s]
           c == [w.chain EXCEPT !.verified = f]
<1>1. Marked(w, b, s) = [w EXCEPT !.chain = c]
  BY DEF Marked, World, ChainType
<1>2. w.chain \in ChainType /\ f \in States
  BY DEF World, ChainType, States
<1> HIDE DEF f
<1>3. c.step = w.chain.step /\ c \in ChainType
  BY <1>2 DEF ChainType
<1> HIDE DEF c
<1> QED
  BY <1>1, <1>3 DEF World

LEMMA DoneRest ==
    ASSUME NEW w \in World
    PROVE  BlockDone(w).node = w.node /\ BlockDone(w).chain.step = w.chain.step
<1> DEFINE c == [w.chain EXCEPT !.adding = None]
<1>1. BlockDone(w) = [w EXCEPT !.chain = c]
  BY DEF BlockDone, World, ChainType
<1>2. c.step = w.chain.step
  BY DEF World, ChainType
<1> HIDE DEF c
<1> QED
  BY <1>1, <1>2 DEF World

LEMMA AddBlockRequests ==
    ASSUME RInv, IInv', AddBlock
    PROVE  RInv'
<1> DEFINE e      == Head(chain.blocks)
           q      == Tail(chain.blocks)
           taken  == [Now EXCEPT !.chain.blocks = q]
           marked == Marked(taken, e.block, "invalid")
           v      == [taken EXCEPT !.chain.adding = e]
<1>1. /\ Good(Now) /\ Fine(Now) /\ Now \in World /\ Now.node = node /\ Now.chain = chain
      /\ chain \in ChainType
  BY NowFacts DEF RInv, IInv
<1>2. chain.adding = None /\ chain.blocks # <<>> /\ chain.blocks \in Seq(BlockEntry)
  BY <1>1 DEF AddBlock, ChainType, BlockEntries
<1>3. e \in BlockEntry
  BY <1>2
<1>4. e.block \in Blocks /\ e.from \in Peers \cup {None} /\ e.block \in BG
  BY <1>3 DEF BlockEntry, BG
<1>5. taken = [Now EXCEPT !.chain.blocks = Tail(@)]
  BY <1>1 DEF World
<1>6. Good(taken) /\ taken.chain.verified = chain.verified /\ taken.chain.adding = None
  BY <1>1, <1>2, <1>5, TakenGood, Zenon
<1>7. \/ Become(ChainBan(taken, e.from))
      \/ Become(taken)
      \/ chain.verified[e.block] = "notVerified" /\ Become(ChainBan(marked, e.from))
      \/ Become(v)
  <2>1. chain.verified[e.block] \in {"absent", "notVerified", "verified", "invalid"}
    BY <1>1, <1>4 DEF ChainType, States
  <2> QED
    BY <1>5, <2>1, Zenon DEF AddBlock
<1> HIDE DEF e, q
<1>8. taken.node = node /\ taken.chain.step = chain.step
  BY <1>1 DEF World, ChainType
<1> HIDE DEF taken
<1>9. Fine(taken) /\ taken \in World
  BY <1>6 DEF Good, Fine
<1>10. marked.node = node /\ marked.chain.step = chain.step /\ v.node = node /\ v.chain.step = chain.step
  <2>1. v.node = taken.node /\ v.chain.step = taken.chain.step
    BY <1>9 DEF World, ChainType
  <2> QED
    BY <1>8, <1>9, <2>1, MarkedRest
<1>11. chain.verified[e.block] = "notVerified" => Fine(marked)
  BY <1>4, <1>6, MarkInvalidGood DEF Good
<1> HIDE DEF marked, v
<1>12. ASSUME NEW w, w.node = node, w.chain.step = chain.step, Become(w) PROVE RInv'
  BY <1>1, <1>12, SteadySame, SteadyRequests
<1>13. ASSUME NEW w, w.node = node, w.chain.step = chain.step, Fine(w), Become(ChainBan(w, e.from))
       PROVE  RInv'
  <2>1. Keeps(w, ChainBan(w, e.from)) /\ Steady(w, ChainBan(w, e.from))
    BY <1>4, <1>13, ChainBanKeeps, ChainBanSteady
  <2>2. Steady(Now, ChainBan(w, e.from)) /\ ChainBan(w, e.from).chain.step = chain.step
    BY <1>1, <1>13, <2>1 DEF Steady, Keeps, Same
  <2> QED
    BY <1>13, <2>2, SteadyRequests
<1> QED
  BY <1>7, <1>8, <1>9, <1>10, <1>11, <1>12, <1>13

LEMMA BlockVerifiedRequests ==
    ASSUME RInv, IInv', BlockVerified
    PROVE  RInv'
<1> DEFINE b == chain.adding.block
           m == Marked(Now, b, "verified")
           added == IF Number(b) > Number(chain.tip) THEN [m EXCEPT !.chain.tip = b] ELSE m
           v == ContinueWaiting(added, b)
           u == AnnounceTip(added, v, b)
           x == AddNextBlocks(u, b)
<1>1. /\ Good(Now) /\ Now.chain = chain /\ chain \in ChainType /\ chain.adding # None
      /\ Now \in World /\ Now.node = node
  BY NowFacts DEF RInv, IInv, BlockVerified
<1>2. b \in BG
  BY <1>1 DEF ChainType, EntryOpt, BlockEntry, BG
<1>3. Core(added)
  BY <1>1, VerifiedCore
<1>4. Become(BlockDone(x))
  BY DEF BlockVerified
<1>5. added.node = node /\ added.chain.step = chain.step
  <2>1. m.node = node /\ m.chain.step = chain.step /\ m \in World
    BY <1>1, MarkedRest
  <2> HIDE DEF m, b
  <2>2. [m EXCEPT !.chain.tip = b].node = m.node /\ [m EXCEPT !.chain.tip = b].chain.step = m.chain.step
    BY <2>1 DEF World, ChainType
  <2> QED
    BY <2>1, <2>2
<1> HIDE DEF added, b
<1>6. Fine(added)
  BY <1>3 DEF Core
<1>7. Keeps(added, v) /\ Steady(added, v)
  BY <1>6, ContinueWaitingKeeps
<1> HIDE DEF v
<1>8. Fine(v) /\ Keeps(v, u) /\ u.node = v.node
  <2>1. Fine(v) /\ v \in World
    BY <1>7, KeepsFine DEF Keeps
  <2>2. Keeps(v, u)
    BY <1>2, <2>1, AnnounceTipKeeps
  <2>3. u.node = v.node
    BY <2>1 DEF AnnounceTip, World
  <2> QED
    BY <2>1, <2>2, <2>3
<1> HIDE DEF u
<1>9. Keeps(u, x) /\ x.node = u.node
  BY <1>8, KeepsFine, AddNextKeeps
<1> HIDE DEF x
<1>10. x.node = v.node /\ x.chain.step = chain.step /\ x \in World
  BY <1>5, <1>7, <1>8, <1>9 DEF Keeps, Same
<1>11. BlockDone(x).node = v.node /\ BlockDone(x).chain.step = chain.step
  BY <1>10, DoneRest
<1>12. Steady(Now, BlockDone(x))
  BY <1>1, <1>5, <1>7, <1>11 DEF Steady
<1> QED
  BY <1>4, <1>11, <1>12, SteadyRequests

LEMMA BlockRefusedRequests ==
    ASSUME RInv, IInv', NEW fault \in BOOLEAN, BlockRefused(fault)
    PROVE  RInv'
<1> DEFINE b == chain.adding.block
           v == ChainBan(Now, chain.adding.from)
           u == Marked(v, b, "invalid")
           w == BlockDone(u)
<1>1. /\ Fine(Now) /\ Good(Now) /\ Now.chain = chain /\ chain \in ChainType /\ chain.adding # None
  BY NowFacts DEF RInv, IInv, BlockRefused
<1>2. b \in Blocks /\ chain.adding.from \in Peers \cup {None}
  BY <1>1 DEF ChainType, EntryOpt, BlockEntry
<1>3. Keeps(Now, v) /\ Steady(Now, v)
  BY <1>1, <1>2, ChainBanKeeps, ChainBanSteady
<1>4. Become(w)
  BY DEF BlockRefused
<1> HIDE DEF v, b
<1>5. v \in World /\ v.chain.step = chain.step
  BY <1>1, <1>3 DEF Keeps, Same
<1>6. u.node = v.node /\ u.chain.step = chain.step /\ u \in World
  BY <1>5, MarkedRest
<1> HIDE DEF u
<1>7. w.node = v.node /\ w.chain.step = chain.step
  BY <1>6, DoneRest
<1> HIDE DEF w
<1>8. Steady(Now, w)
  BY <1>3, <1>7 DEF Steady
<1> QED
  BY <1>4, <1>7, <1>8, SteadyRequests

LEMMA BlockFailedRequests ==
    ASSUME RInv, IInv', BlockFailed
    PROVE  RInv'
<1>1. Now \in World /\ Now.chain = chain
  BY NowFacts DEF RInv
<1>2. BlockDone(Now).node = Now.node /\ BlockDone(Now).chain.step = chain.step
  BY <1>1, DoneRest
<1>3. Steady(Now, BlockDone(Now))
  BY <1>2, SteadySame
<1> QED
  BY <1>2, <1>3, SteadyRequests DEF BlockFailed

LEMMA InitRequests == Init => RInv
<1> SUFFICES ASSUME Init PROVE RInv
  OBVIOUS
<1>1. IInv
  BY InitInv
<1>2. /\ node.hashMap = [b \in Blocks |-> None] /\ node.pending = <<>>
      /\ node.sources = [b \in Blocks |-> {}] /\ node.connMap = [p \in Peers |-> None]
      /\ chain.step = None
  BY DEF Init
<1>3. \A b \in Blocks, p \in Peers : b \in HashesOf(node, p) <=> node.hashMap[b] = p
  BY <1>2, SyncAssumption DEF HashesOf
<1>4. DOMAIN node.pending = {} /\ Distinct(node.pending)
  BY <1>2 DEF Distinct
<1>5. Agreeing(node)
  BY <1>2, <1>3, <1>4 DEF Agreeing
<1> QED
  BY <1>1, <1>2, <1>4, <1>5 DEF RInv, Served, StepDistinct

LEMMA NextRequests == RInv /\ [Next]_vars => RInv'
<1> SUFFICES ASSUME RInv, [Next]_vars PROVE RInv'
  OBVIOUS
<1>1. IInv'
  BY NextInv DEF RInv
<1>2. ASSUME NEW p \in Peers, Outbound(p) PROVE RInv'
  BY <1>1, <1>2, OutboundRequests
<1>3. ASSUME NEW p \in Peers, Inbound(p) PROVE RInv'
  BY <1>1, <1>3, SameRequests DEF Inbound
<1>4. ASSUME NEW p \in Peers, NEW b \in Blocks, NEW announce \in BOOLEAN, PeerAdopts(p, b, announce)
      PROVE  RInv'
  BY <1>1, <1>4, SameRequests DEF PeerAdopts
<1>5. CASE Deliver
  <2>1. ASSUME NEW p \in Peers, PeerResponds(p) PROVE RInv'
    <3>1. UNCHANGED <<node, chain>>
      BY <2>1, Zenon DEF PeerResponds
    <3> QED
      BY <1>1, <3>1, SameRequests
  <2> QED
    BY <1>1, <1>5, <2>1, ReceiveHeadersRequests, ReceiveBlockRequests DEF Deliver
<1>6. CASE Work
  BY <1>1, <1>6, StoredBlockRequests, AddHeadersRequests, HeadersVerifiedRequests, AddBlockRequests,
     BlockVerifiedRequests, BlockRefusedRequests DEF Work
<1>7. CASE Fault
  <2>1. ASSUME NEW p \in Peers, ReceiveMalformed(p) \/ HeadersTimeout(p) PROVE RInv'
    BY <1>1, <2>1, BanRequests DEF ReceiveMalformed, HeadersTimeout
  <2> QED
    BY <1>1, <1>7, <2>1, ConnectionErrorRequests, BlockTimeoutRequests, BlockRefusedRequests,
       BlockFailedRequests DEF Fault
<1>8. CASE UNCHANGED vars
  BY <1>1, <1>8, SameRequests DEF vars
<1> QED
  BY <1>2, <1>3, <1>4, <1>5, <1>6, <1>7, <1>8 DEF Next

LEMMA InvRequests == RInv => RequestsKept
<1> SUFFICES ASSUME RInv PROVE RequestsKept
  OBVIOUS
<1>1. \A p \in Peers : Hashes(p) = HashesOf(node, p)
  BY DEF Hashes, HashesOf
<1>2. node \in NodeType /\ node.sources \in SourceMaps /\ node.pending \in Seq(Blocks)
  BY NowFacts DEF RInv, NodeType, BlockQueues
<1>3. Agreeing(node) /\ \A i \in DOMAIN node.pending : Owed(node, node.pending[i])
  BY DEF RInv, Served
<1>4. IsInjective(node.pending)
  BY <1>3 DEF Agreeing, Distinct, IsInjective
<1>5. RequestsAgree
  BY <1>1, <1>3, <1>4 DEF RequestsAgree, Agreeing, Range
<1>6. PendingDriven
  <2> SUFFICES ASSUME NEW i \in DOMAIN node.pending
               PROVE  \E p \in node.sources[node.pending[i]] : Hashes(p) # {}
    BY DEF PendingDriven, Range
  <2>1. PICK p \in node.sources[node.pending[i]] : HashesOf(node, p) # {}
    BY <1>3 DEF Owed
  <2>2. p \in Peers
    BY <1>2 DEF SourceMaps
  <2> QED
    BY <1>1, <2>1, <2>2
<1> QED
  BY <1>5, <1>6 DEF RequestsKept

\* No request of a node that fetches a chain is lost, doubled or forgotten: both
\* tables of ChainNode agree on who was asked for what, and a block that waits for
\* a free window has a source that still owes an answer (requestBlocks,
\* _requestBlockFromConnection, _onFreeBlockWnd, _onRecvBlock, _onReqTimeoutTimer).
THEOREM RequestsStay == Spec => []RequestsKept
<1>1. Init => RInv
  BY InitRequests
<1>2. RInv /\ [Next]_vars => RInv'
  BY NextRequests
<1>3. RInv => RequestsKept
  BY InvRequests
<1> QED
  BY <1>1, <1>2, <1>3, PTL DEF Spec
=============================================================================
