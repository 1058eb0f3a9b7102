-------------------------- MODULE Snapshots_proofs --------------------------
(***************************************************************************)
(* Proofs about Snapshots, for any number of readers, any height and with  *)
(* every kind of failure: the counts of files and of views tell who needs  *)
(* a snapshot, what somebody reads is on disk, and a view is complete      *)
(* unless its file goes back to a rebuild that was not finished.           *)
(***************************************************************************)
EXTENDS Snapshots, FiniteSetTheorems, SequenceTheorems, TLAPS

-----------------------------------------------------------------------------
(* The inductive invariant.                                                *)

ViewRecord == [phase : Phases, users : Nat, owner : Task \cup {None},
               at : Block \cup {NoBlock}, todo : Seq(Block)]

Snap == [file : Seq(Block), ref : Nat \cup {Unlisted}, view : ViewRecord,
         closing : Nat, again : BOOLEAN, partial : BOOLEAN]

ChainRecord ==
    [pc : {"genesis", "failed", "tip", "mork", "pending", "announce", "idle", "copy", "execute"},
     tip : Block, refs : SUBSET Block, pending : Block \cup {NoBlock}, storage : Seq(Block),
     partial : BOOLEAN]

Types ==
    /\ snap \in [Block -> Snap]
    /\ logs \subseteq Block
    /\ wait \in [Task -> Block \cup {NoBlock, Failed, Hung}]
    /\ held \in [Readers -> Block \cup {NoBlock}]
    /\ chain \in ChainRecord

Building == {"walking", "found", "building"}

\* The view of b looks for files at or below b, and b is a block of the chain c.
ViewPlaced(e, b, c) ==
    /\ e.view.users > 0 <=> e.view.phase # "none"
    /\ e.view.at <= b
    /\ e.view.phase \in Building \cup {"checking"} => e.view.at >= 0
    /\ b > c.tip => e.view.phase = "none"

Used(e) == (IF e.view.phase \in {"opening", "open"} THEN 1 ELSE 0) + e.closing

RefAgrees(e) ==
    /\ e.ref <= Used(e)
    /\ ~e.again /\ Used(e) > 0 => e.ref = Used(e)

\* A listed snapshot has its file, but for that of the tip while the chain has
\* not got its view: the miner makes it again while a view of it is built.
FileListed(e, b, c) ==
    ~e.again =>
        /\ e.ref > 0 => e.file # NoFile
        /\ e.view.phase = "exists" /\ e.ref # Unlisted => e.file # NoFile
        /\ e.view.phase = "building" => e.file # NoFile
        /\ e.view.phase \in Building => e.closing = 0
        /\ e.ref = 0 /\ (e.file = NoFile \/ e.view.phase \in Building)
               => b = c.tip /\ c.pc \in {"idle", "copy"}

\* The search for a file ends at genesis.
GenesisFile(e) == e.file # NoFile /\ ~e.again /\ e.view.phase \notin Building

EntryKept(e, b, c) ==
    /\ ViewPlaced(e, b, c) /\ RefAgrees(e) /\ FileListed(e, b, c)
    /\ b = 0 => GenesisFile(e)

EntriesKept == \A b \in Block : EntryKept(snap[b], b, chain)

\* What the chain waits for, and the views it has, at each point of a block.
ChainPlaced ==
    /\ chain.pc \in {"idle", "execute", "announce", "failed"} => wait[Chain] = NoBlock
    /\ chain.pc = "genesis" => wait[Chain] \in {0, Failed, Hung}
    /\ chain.pc \in {"copy", "tip", "pending"} => wait[Chain] \in {chain.tip, Failed, Hung}
    /\ chain.pc = "mork" =>
           /\ wait[Chain] \in {MorkBlock, Failed, Hung}
           /\ MorkBlock # chain.tip /\ chain.refs = {chain.tip}
    /\ chain.pc \in {"genesis", "tip"} => chain.refs = {}
    /\ chain.pc \in {"copy", "execute"} => chain.tip < MaxHeight

\* A reader has a view or waits for one.
OneViewEach == \A r \in Readers : wait[r] # NoBlock => held[r] = NoBlock

\* Who has a view of b already: the readers, the chain, the pending
\* transactions and the start of the chain.
Has(b) ==
    \/ \E r \in Readers : held[r] = b
    \/ b \in chain.refs
    \/ chain.pending = b
    \/ b = 0 /\ chain.pc \notin {"genesis", "failed"}

HeldAreOpen == \A b \in Block : Has(b) => View(b).phase = "open"

CountsAgree == \A b \in Block : View(b).phase # "broken" => View(b).users = Holds(b)

IInv ==
    /\ Types /\ EntriesKept /\ ChainPlaced /\ OneViewEach /\ HeldAreOpen /\ CountsAgree

-----------------------------------------------------------------------------
(* The operators on the records.                                           *)

LEMMA SomeFacts ==
    /\ Block \subseteq Nat /\ 0 \in Block /\ NoBlock \notin Block
    /\ Failed \notin Block /\ Hung \notin Block
    /\ Chain \in Task /\ Readers \subseteq Task /\ Chain \notin Readers
    /\ IsFiniteSet(Task) /\ IsFiniteSet(Readers) /\ NoFile \in Seq(Block)
    /\ None \notin Task
<1>1. IsFiniteSet(Task)
  BY SnapshotsAssumption, FS_AddElement DEF Task
<1> QED
  BY <1>1, SnapshotsAssumption, EmptySeq, SMT
     DEF Block, Task, NoBlock, Failed, Hung, NoFile

\* Asking for a view adds a user, and starts the search if there is none.
LEMMA AcquireFacts ==
    ASSUME NEW e \in Snap, NEW u \in Task, NEW b \in Block
    PROVE  /\ Acquire(e, u, b) \in Snap
           /\ Acquire(e, u, b).file = e.file /\ Acquire(e, u, b).ref = e.ref
           /\ Acquire(e, u, b).closing = e.closing /\ Acquire(e, u, b).again = e.again
           /\ e.view.phase = "none" =>
                /\ Acquire(e, u, b).view.phase = "checking"
                /\ Acquire(e, u, b).view.users = 1 /\ Acquire(e, u, b).view.at = b
           /\ e.view.phase # "none" =>
                /\ Acquire(e, u, b).view.phase = e.view.phase
                /\ Acquire(e, u, b).view.at = e.view.at
                /\ Acquire(e, u, b).view.users = e.view.users + 1
<1>0. e.view \in ViewRecord
  BY DEF Snap
<1>1. CASE e.view.phase = "none"
  <2> DEFINE v == [phase |-> "checking", users |-> 1, owner |-> u, at |-> b, todo |-> <<>>]
  <2>1. v \in ViewRecord /\ v.users = 1 /\ v.phase = "checking" /\ v.at = b
    BY SomeFacts DEF ViewRecord, Phases, NoFile
  <2>2. Acquire(e, u, b) = [e EXCEPT !.view = v]
    BY <1>1 DEF Acquire
  <2> HIDE DEF v
  <2> QED
    BY <1>1, <2>1, <2>2 DEF Snap
<1>2. CASE e.view.phase # "none"
  <2> DEFINE v == [e.view EXCEPT !.users = e.view.users + 1]
  <2>1. v \in ViewRecord /\ v.users = e.view.users + 1 /\ v.phase = e.view.phase
        /\ v.at = e.view.at
    BY <1>0 DEF ViewRecord
  <2>2. Acquire(e, u, b) = [e EXCEPT !.view = v]
    BY <1>2 DEF Acquire
  <2> HIDE DEF v
  <2> QED
    BY <1>2, <2>1, <2>2 DEF Snap
<1> QED
  BY <1>1, <1>2

\* Giving a view back takes a user, and closes it with the last one.
LEMMA ReleaseFacts ==
    ASSUME NEW e \in Snap
    PROVE  /\ Release(e) \in Snap
           /\ Release(e).file = e.file /\ Release(e).ref = e.ref /\ Release(e).again = e.again
           /\ e.view.phase = "none" => Release(e) = e
           /\ e.view.phase # "none" /\ e.view.users > 1 =>
                /\ Release(e).view.users = e.view.users - 1
                /\ Release(e).view.phase = e.view.phase /\ Release(e).view.at = e.view.at
                /\ Release(e).closing = e.closing
           /\ e.view.phase # "none" /\ ~(e.view.users > 1) =>
                /\ Release(e).view.users = 0 /\ Release(e).view.phase = "none"
                /\ Release(e).view.at = NoBlock /\ Release(e).closing = e.closing + 1
<1>0. e.view \in ViewRecord
  BY DEF Snap
<1>1. CASE e.view.phase = "none"
  BY <1>1 DEF Release
<1>2. CASE e.view.phase # "none" /\ e.view.users > 1
  <2> DEFINE v == [e.view EXCEPT !.users = e.view.users - 1]
  <2>1. v \in ViewRecord /\ v.users = e.view.users - 1 /\ v.phase = e.view.phase
        /\ v.at = e.view.at
    BY <1>0, <1>2 DEF ViewRecord
  <2>2. Release(e) = [e EXCEPT !.view = v]
    BY <1>2 DEF Release
  <2> HIDE DEF v
  <2> QED
    BY <1>2, <2>1, <2>2 DEF Snap
<1>3. CASE e.view.phase # "none" /\ ~(e.view.users > 1)
  <2>1. NoView \in ViewRecord /\ NoView.users = 0 /\ NoView.phase = "none"
        /\ NoView.at = NoBlock
    BY SomeFacts DEF NoView, ViewRecord, Phases, NoFile
  <2> DEFINE n == e.closing + 1
             f == [e EXCEPT !.view = NoView, !.closing = n]
  <2>5. n \in Nat
    BY DEF Snap
  <2>2. Release(e) = f
    BY <1>3 DEF Release
  <2> HIDE DEF n
  <2>3. f \in Snap /\ f.view = NoView
    BY <2>1, <2>5 DEF Snap
  <2>4. f.closing = n /\ f.file = e.file /\ f.ref = e.ref /\ f.again = e.again
    BY DEF Snap
  <2> QED
    BY <1>3, <2>1, <2>2, <2>3, <2>4 DEF n
<1> QED
  BY <1>1, <1>2, <1>3

LEMMA OtherFacts ==
    ASSUME NEW e \in Snap
    PROVE  /\ Unreference(e) \in Snap
           /\ Unreference(e).ref = IF e.ref > 0 THEN e.ref - 1 ELSE e.ref
           /\ Unreference(e).file = e.file /\ Unreference(e).view = e.view
           /\ Unreference(e).closing = e.closing /\ Unreference(e).again = e.again
           /\ Recycle(e) \in Snap
           /\ Recycle(e).view = e.view /\ Recycle(e).closing = e.closing
           /\ Recycle(e).again = e.again
           /\ e.ref = 0 => Recycle(e).file = NoFile /\ Recycle(e).ref = Unlisted
           /\ e.ref # 0 => Recycle(e) = e
<1>1. Unreference(e) \in Snap /\ Unreference(e).ref = IF e.ref > 0 THEN e.ref - 1 ELSE e.ref
  BY DEF Unreference, Snap, Unlisted
<1>2. /\ Unreference(e).file = e.file /\ Unreference(e).view = e.view
      /\ Unreference(e).closing = e.closing /\ Unreference(e).again = e.again
  BY DEF Unreference, Snap
<1>3. /\ Recycle(e) \in Snap
      /\ Recycle(e).view = e.view /\ Recycle(e).closing = e.closing
      /\ Recycle(e).again = e.again
      /\ e.ref = 0 => Recycle(e).file = NoFile /\ Recycle(e).ref = Unlisted
      /\ e.ref # 0 => Recycle(e) = e
  BY SomeFacts DEF Recycle, Snap
<1> QED
  BY <1>1, <1>2, <1>3

\* A snapshot that is made has the given file and no references.
LEMMA CreateFacts ==
    ASSUME NEW e \in Snap, NEW content \in Seq(Block), NEW part \in BOOLEAN
    PROVE  /\ CreateSnapshot(e, content, part) \in Snap
           /\ CreateSnapshot(e, content, part).file = content
           /\ CreateSnapshot(e, content, part).ref = 0
           /\ CreateSnapshot(e, content, part).view = e.view
           /\ CreateSnapshot(e, content, part).closing = e.closing
           /\ CreateSnapshot(e, content, part).again = (e.again \/ e.ref > 0)
           /\ CreateSnapshot(e, content, part).partial = (part \/ HalfBuilt(e))
<1> DEFINE half == HalfBuilt(e)
<1>1. half \in BOOLEAN
  BY DEF HalfBuilt
<1> HIDE DEF half
<1> QED
  BY <1>1 DEF CreateSnapshot, Snap, half

-----------------------------------------------------------------------------
(* Who holds views.                                                        *)

\* When one member at most comes or goes the size of a set changes by one.
LEMMA OneMoves ==
    ASSUME NEW S, NEW T, NEW u, IsFiniteSet(S), S \ {u} = T \ {u}
    PROVE  /\ IsFiniteSet(T) /\ Cardinality(S) \in Nat /\ Cardinality(T) \in Nat
           /\ Cardinality(T) = Cardinality(S) - (IF u \in S THEN 1 ELSE 0)
                                              + (IF u \in T THEN 1 ELSE 0)
<1> DEFINE R == S \ {u}
<1>1. IsFiniteSet(R) /\ Cardinality(R) \in Nat
  BY FS_Subset, FS_CardinalityType
<1>2. Cardinality(S) = Cardinality(R) + (IF u \in S THEN 1 ELSE 0) /\ Cardinality(S) \in Nat
  <2>1. CASE u \in S
    <3>1. S = R \cup {u} /\ u \notin R
      BY <2>1
    <3> QED
      BY <1>1, <2>1, <3>1, FS_AddElement
  <2>2. CASE u \notin S
    <3>1. S = R
      BY <2>2
    <3> HIDE DEF R
    <3> QED
      BY <1>1, <2>2, <3>1
  <2> QED
    BY <2>1, <2>2
<1>3. /\ IsFiniteSet(T) /\ Cardinality(T) \in Nat
      /\ Cardinality(T) = Cardinality(R) + (IF u \in T THEN 1 ELSE 0)
  <2>0. R = T \ {u}
    OBVIOUS
  <2>1. CASE u \in T
    <3>1. T = R \cup {u} /\ u \notin R
      BY <2>0, <2>1
    <3> QED
      BY <1>1, <2>1, <3>1, FS_AddElement
  <2>2. CASE u \notin T
    <3>1. T = R
      BY <2>0, <2>2
    <3> HIDE DEF R
    <3> QED
      BY <1>1, <2>2, <3>1
  <2> QED
    BY <2>1, <2>2
<1> QED
  BY <1>1, <1>2, <1>3

LEMMA HoldersFinite ==
    ASSUME Types, NEW b \in Block
    PROVE  IsFiniteSet(Holders(b)) /\ Cardinality(Holders(b)) \in Nat /\ Holders(b) \subseteq Task
<1>1. Holders(b) \subseteq Task
  BY SomeFacts DEF Holders
<1> QED
  BY <1>1, SomeFacts, FS_Subset, FS_CardinalityType

LEMMA HolderIs ==
    ASSUME NEW b \in Block, NEW u \in Task
    PROVE  u \in Holders(b) <=> wait[u] = b \/ (u \in Readers /\ held[u] = b)
BY SomeFacts DEF Holders

\* Only u does something.
LEMMA TaskCount ==
    ASSUME Types, NEW b \in Block, NEW u \in Task,
           \A v \in Task : v # u => wait'[v] = wait[v],
           \A v \in Readers : v # u => held'[v] = held[v]
    PROVE  Cardinality(Holders(b))' = Cardinality(Holders(b))
                - (IF u \in Holders(b) THEN 1 ELSE 0) + (IF u \in Holders(b)' THEN 1 ELSE 0)
<1>1. Holders(b) \ {u} = Holders(b)' \ {u}
  BY SomeFacts DEF Holders
<1> QED
  BY <1>1, HoldersFinite, OneMoves

\* Who has a view or waits for it is counted.
LEMMA HoldsType ==
    Types => \A b \in Block :
        /\ Holds(b) \in Nat
        /\ Has(b) => Holds(b) > 0
        /\ \A u \in Task : wait[u] = b => Holds(b) > 0
<1> SUFFICES ASSUME Types, NEW b \in Block
             PROVE  /\ Holds(b) \in Nat
                    /\ Has(b) => Holds(b) > 0
                    /\ \A u \in Task : wait[u] = b => Holds(b) > 0
  OBVIOUS
<1>1. Cardinality(Holders(b)) \in Nat /\ IsFiniteSet(Holders(b))
  BY HoldersFinite
<1>2. \A u \in Task : u \in Holders(b) => Cardinality(Holders(b)) > 0
  BY <1>1, FS_EmptySet
<1>3. \A u \in Task : wait[u] = b => u \in Holders(b)
  BY HolderIs
<1>4. \A r \in Readers : held[r] = b => r \in Holders(b) /\ r \in Task
  BY SomeFacts DEF Holders
<1> DEFINE card == Cardinality(Holders(b))
<1> HIDE DEF card
<1>5. card \in Nat /\ (\A u \in Task : wait[u] = b => card > 0)
      /\ (\A r \in Readers : held[r] = b => card > 0)
  BY <1>1, <1>2, <1>3, <1>4 DEF card
<1>6. Holds(b) = card + (IF b \in chain.refs THEN 1 ELSE 0)
        + (IF chain.pending = b THEN 1 ELSE 0)
        + (IF b = 0 /\ chain.pc \notin {"genesis", "failed"} THEN 1 ELSE 0)
  BY DEF Holds, card
<1> QED
  BY <1>5, <1>6 DEF Has

-----------------------------------------------------------------------------
(* Steps of the manager.                                                   *)

LEMMA EntryType ==
    ASSUME Types, NEW b \in Block
    PROVE  snap[b] \in Snap /\ View(b) \in ViewRecord /\ View(b) = snap[b].view
<1>1. snap[b] \in Snap
  BY DEF Types
<1> QED
  BY <1>1 DEF Snap, View

\* The entry of b changes, and nobody comes or goes.
LEMMA EntryStep ==
    ASSUME IInv, NEW b \in Block, NEW e \in Snap, SetEntry(b, e),
           EntryKept(e, b, chain), e.view.users = View(b).users,
           View(b).phase = "open" => e.view.phase = "open",
           View(b).phase = "broken" => e.view.phase = "broken",
           logs' = logs, wait' = wait, held' = held, chain' = chain
    PROVE  IInv'
<1>1. snap' \in [Block -> Snap] /\ snap'[b] = e /\ \A c \in Block : c # b => snap'[c] = snap[c]
  BY DEF SetEntry, IInv, Types
<1>2. Types'
  BY <1>1 DEF IInv, Types
<1>3. EntriesKept'
  BY <1>1 DEF IInv, EntriesKept
<1>4. ChainPlaced' /\ OneViewEach'
  BY DEF IInv, ChainPlaced, OneViewEach, MorkBlock
<1>5. HeldAreOpen'
  BY <1>1 DEF IInv, HeldAreOpen, Has, View
<1>6. \A c \in Block : Holds(c)' = Holds(c)
  BY DEF Holds, Holders
<1>7. CountsAgree'
  BY <1>1, <1>6 DEF IInv, CountsAgree, View
<1> QED
  BY <1>2, <1>3, <1>4, <1>5, <1>7 DEF IInv

\* The view of b goes, or never opens, before anybody has it.
LEMMA ViewLost ==
    ASSUME IInv, NEW b \in Block, NEW e \in Snap, NEW other, SetEntry(b, e),
           EntryKept(e, b, chain), View(b).phase # "open", OwnerFails(b, other),
           \/ e.view.phase = "broken" /\ other = b
           \/ e.view.users = 0 /\ other \in {Failed, Hung},
           logs' = logs, held' = held, chain' = chain
    PROVE  IInv'
<1>1. snap' \in [Block -> Snap] /\ snap'[b] = e /\ \A c \in Block : c # b => snap'[c] = snap[c]
  BY DEF SetEntry, IInv, Types
<1>2. /\ wait' \in [Task -> Block \cup {NoBlock, Failed, Hung}]
      /\ \A u \in Task : wait[u] # b => wait'[u] = wait[u]
      /\ \A u \in Task : wait[u] = b => wait'[u] \in {Failed, other}
  BY DEF OwnerFails, IInv, Types
<1>3. Types'
  BY <1>1, <1>2 DEF IInv, Types
<1>4. EntriesKept'
  BY <1>1 DEF IInv, EntriesKept
<1>5. ChainPlaced' /\ OneViewEach'
  BY <1>2, SomeFacts DEF IInv, ChainPlaced, OneViewEach, MorkBlock
<1>6. ~Has(b)
  BY DEF IInv, HeldAreOpen
<1>7. HeldAreOpen'
  BY <1>1, <1>6 DEF IInv, HeldAreOpen, Has, View
<1>8. ASSUME NEW c \in Block, View(c)'.phase # "broken"
      PROVE  View(c)'.users = Holds(c)'
  <2>1. CASE c # b
    <3>1. Holders(c)' = Holders(c)
      BY <1>2, <2>1, SomeFacts DEF Holders
    <3>2. Holds(c)' = Holds(c) /\ View(c)' = View(c)
      BY <1>1, <2>1, <3>1 DEF Holds, View
    <3> QED
      BY <1>8, <3>2 DEF IInv, CountsAgree
  <2>2. CASE c = b
    <3>1. e.view.users = 0 /\ other \in {Failed, Hung} /\ View(c)'.users = 0
      BY <1>1, <1>8, <2>2 DEF View
    <3>2. Holders(c)' = {}
      BY <1>2, <1>6, <2>2, <3>1, SomeFacts DEF Holders, Has
    <3>3. Holds(c)' = 0
      BY <1>6, <2>2, <3>2, FS_EmptySet DEF Holds, Has
    <3> QED
      BY <3>1, <3>3
  <2> QED
    BY <2>1, <2>2
<1> QED
  BY <1>3, <1>4, <1>5, <1>7, <1>8 DEF IInv, CountsAgree

LEMMA EntryNow ==
    ASSUME IInv, NEW b \in Block
    PROVE  /\ snap[b] \in Snap /\ View(b) \in ViewRecord /\ View(b) = snap[b].view
           /\ EntryKept(snap[b], b, chain)
BY EntryType DEF IInv, EntriesKept

LEMMA CheckStep ==
    ASSUME IInv, NEW b \in Block, Check(b)
    PROVE  IInv'
<1> DEFINE v == [View(b) EXCEPT !.phase =
                    IF snap[b].file # NoFile THEN "exists" ELSE "walking"]
           e == [snap[b] EXCEPT !.view = v]
<1>1. /\ snap[b] \in Snap /\ View(b) \in ViewRecord /\ View(b) = snap[b].view
      /\ EntryKept(snap[b], b, chain) /\ View(b).phase = "checking"
  BY EntryNow DEF Check
<1>2. /\ v \in ViewRecord /\ v.users = View(b).users /\ v.at = View(b).at
      /\ v.phase = IF snap[b].file # NoFile THEN "exists" ELSE "walking"
  BY <1>1 DEF ViewRecord, Phases
<1> HIDE DEF v
<1>3. /\ e \in Snap /\ e.view = v /\ e.file = snap[b].file /\ e.ref = snap[b].ref
      /\ e.closing = snap[b].closing /\ e.again = snap[b].again
  BY <1>1, <1>2 DEF Snap
<1>4. SetEntry(b, e) /\ logs' = logs /\ wait' = wait /\ held' = held /\ chain' = chain
  BY DEF Check, SetView, v
<1> HIDE DEF e
<1>5. b = 0 => snap[b].file # NoFile
  BY <1>1 DEF EntryKept, GenesisFile
<1>6. snap[b].ref \in Int /\ snap[b].closing \in Nat
  BY <1>1 DEF Snap, Unlisted
<1>7. EntryKept(e, b, chain)
  <2>1. CASE snap[b].file # NoFile
    BY <1>1, <1>2, <1>3, <1>6, <2>1
       DEF EntryKept, ViewPlaced, RefAgrees, Used, FileListed, GenesisFile, Building
  <2>2. CASE snap[b].file = NoFile
    <3>1. v.phase = "walking"
      BY <1>2, <2>2
    <3>2. ViewPlaced(e, b, chain) /\ RefAgrees(e)
      BY <1>1, <1>2, <1>3, <1>6, <3>1, SomeFacts
         DEF EntryKept, ViewPlaced, RefAgrees, Used, Building
    <3>3. FileListed(e, b, chain)
      BY <1>1, <1>2, <1>3, <1>6, <2>2, <3>1
         DEF EntryKept, RefAgrees, Used, FileListed, Building
    <3> QED
      BY <1>5, <2>2, <3>2, <3>3 DEF EntryKept
  <2> QED
    BY <2>1, <2>2
<1> QED
  BY <1>1, <1>2, <1>3, <1>4, <1>7, EntryStep

LEMMA BreaksStep ==
    ASSUME IInv, NEW b \in Block, Breaks(b), View(b).phase \in {"exists", "found"},
           logs' = logs, held' = held, chain' = chain
    PROVE  IInv'
<1> DEFINE v == [View(b) EXCEPT !.phase = "broken"]
           e == [snap[b] EXCEPT !.view = v]
<1>1. /\ snap[b] \in Snap /\ View(b) \in ViewRecord /\ View(b) = snap[b].view
      /\ EntryKept(snap[b], b, chain)
  BY EntryNow
<1>2. /\ v \in ViewRecord /\ v.users = View(b).users /\ v.at = View(b).at
      /\ v.phase = "broken"
  BY <1>1 DEF ViewRecord, Phases
<1> HIDE DEF v
<1>3. /\ e \in Snap /\ e.view = v /\ e.file = snap[b].file /\ e.ref = snap[b].ref
      /\ e.closing = snap[b].closing /\ e.again = snap[b].again
  BY <1>1, <1>2 DEF Snap
<1>4. SetEntry(b, e) /\ OwnerFails(b, b)
  BY DEF Breaks, SetView, v
<1> HIDE DEF e
<1>5. EntryKept(e, b, chain)
  BY <1>1, <1>2, <1>3 DEF EntryKept, ViewPlaced, RefAgrees, Used, FileListed,
        GenesisFile, Building
<1> QED
  BY <1>1, <1>2, <1>3, <1>4, <1>5, ViewLost

LEMMA UseFileStep ==
    ASSUME IInv, NEW b \in Block, UseFile(b)
    PROVE  IInv'
<1>1. /\ snap[b] \in Snap /\ View(b) \in ViewRecord /\ View(b) = snap[b].view
      /\ EntryKept(snap[b], b, chain) /\ View(b).phase = "exists"
  BY EntryNow DEF UseFile
<1>2. CASE snap[b].ref = Unlisted
  BY <1>1, <1>2, BreaksStep DEF UseFile
<1>3. CASE snap[b].ref # Unlisted
  <2> DEFINE v == [View(b) EXCEPT !.phase = "opening"]
             n == snap[b].ref + 1
             e == [snap[b] EXCEPT !.ref = n, !.view = v]
  <2>1. /\ v \in ViewRecord /\ v.users = View(b).users /\ v.at = View(b).at
        /\ v.phase = "opening"
    BY <1>1 DEF ViewRecord, Phases
  <2>2. n \in Nat /\ snap[b].ref \in Nat
    BY <1>1, <1>3 DEF Snap
  <2>3. SetEntry(b, e) /\ logs' = logs /\ wait' = wait /\ held' = held /\ chain' = chain
    BY <1>1, <1>3 DEF UseFile
  <2> HIDE DEF v, n
  <2>4. /\ e \in Snap /\ e.view = v /\ e.file = snap[b].file /\ e.ref = n
        /\ e.closing = snap[b].closing /\ e.again = snap[b].again
    BY <1>1, <2>1, <2>2 DEF Snap
  <2> HIDE DEF e
  <2>5. EntryKept(e, b, chain)
    BY <1>1, <1>3, <2>1, <2>2, <2>4 DEF n, Snap, EntryKept, ViewPlaced, RefAgrees, Used, FileListed,
        GenesisFile, Building
  <2> QED
    BY <1>1, <2>1, <2>3, <2>4, <2>5, EntryStep
<1> QED
  BY <1>2, <1>3

LEMMA WalkStep ==
    ASSUME IInv, NEW b \in Block, Walk(b)
    PROVE  IInv'
<1>1. /\ snap[b] \in Snap /\ View(b) \in ViewRecord /\ View(b) = snap[b].view
      /\ EntryKept(snap[b], b, chain) /\ View(b).phase = "walking"
      /\ View(b).at \in Block /\ View(b).at <= b
  <2>1. View(b).at \in Block \cup {NoBlock} /\ View(b).at >= 0 /\ View(b).at <= b
    BY EntryNow DEF Walk, ViewRecord, EntryKept, ViewPlaced, Building
  <2> QED
    BY EntryNow, <2>1 DEF Walk, NoBlock
<1>2. PICK v \in ViewRecord :
        /\ SetView(b, v) /\ v.users = View(b).users /\ v.phase \in {"walking", "found"}
        /\ v.at \in Block /\ v.at <= b
  <2>1. CASE snap[View(b).at].file # NoFile
    <3> DEFINE v == [View(b) EXCEPT !.phase = "found"]
    <3>1. v \in ViewRecord /\ v.users = View(b).users /\ v.phase = "found" /\ v.at = View(b).at
      BY <1>1 DEF ViewRecord, Phases
    <3>2. SetView(b, v)
      BY <2>1 DEF Walk
    <3> HIDE DEF v
    <3> QED
      BY <1>1, <3>1, <3>2
  <2>2. CASE snap[View(b).at].file = NoFile
    <3> DEFINE n == View(b).at - 1
               v == [View(b) EXCEPT !.at = n]
    <3>1. View(b).at # 0
      <4>1. EntryKept(snap[0], 0, chain)
        BY SomeFacts, EntryNow
      <4> QED
        BY <2>2, <4>1 DEF EntryKept, GenesisFile
    <3>2. n \in Block /\ n <= b
      BY <1>1, <3>1, SnapshotsAssumption DEF Block
    <3>3. SetView(b, v)
      BY <2>2 DEF Walk
    <3> HIDE DEF n
    <3>4. v \in ViewRecord /\ v.users = View(b).users /\ v.phase = "walking" /\ v.at = n
      BY <1>1, <3>2 DEF ViewRecord
    <3> HIDE DEF v
    <3> QED
      BY <3>2, <3>3, <3>4
  <2> QED
    BY <2>1, <2>2
<1> DEFINE e == [snap[b] EXCEPT !.view = v]
<1>3. /\ e \in Snap /\ e.view = v /\ e.file = snap[b].file /\ e.ref = snap[b].ref
      /\ e.closing = snap[b].closing /\ e.again = snap[b].again
  BY <1>1 DEF Snap
<1>4. SetEntry(b, e) /\ logs' = logs /\ wait' = wait /\ held' = held /\ chain' = chain
  BY <1>2 DEF Walk, SetView
<1> HIDE DEF e
<1>5. v.at \in Nat
  BY <1>2, SomeFacts
<1>6. EntryKept(e, b, chain)
  BY <1>1, <1>2, <1>3, <1>5 DEF EntryKept, ViewPlaced, RefAgrees, Used, FileListed,
        GenesisFile, Building
<1> QED
  BY <1>1, <1>2, <1>3, <1>4, <1>6, EntryStep

LEMMA BlockPathType ==
    ASSUME NEW n \in Block, NEW b \in Block, n <= b
    PROVE  BlockPath(n, b) \in Seq(Block)
<1>1. [k \in 1 .. b - n |-> n + k] \in Seq(Block)
  <2>1. \A k \in 1 .. b - n : n + k \in Block
    BY SnapshotsAssumption DEF Block
  <2>2. b - n \in Nat
    BY SnapshotsAssumption DEF Block
  <2> QED
    BY <2>1, <2>2
<1>2. <<b>> \in Seq(Block)
  OBVIOUS
<1> QED
  BY <1>1, <1>2, ConcatProperties DEF BlockPath

LEMMA CopyStep ==
    ASSUME IInv, NEW b \in Block, Copy(b)
    PROVE  IInv'
<1>1. /\ snap[b] \in Snap /\ View(b) \in ViewRecord /\ View(b) = snap[b].view
      /\ EntryKept(snap[b], b, chain) /\ View(b).phase = "found"
      /\ View(b).at \in Block /\ View(b).at <= b
  <2>1. View(b).at \in Block \cup {NoBlock} /\ View(b).at >= 0 /\ View(b).at <= b
    BY EntryNow DEF Copy, ViewRecord, EntryKept, ViewPlaced, Building
  <2> QED
    BY EntryNow, <2>1 DEF Copy, NoBlock
<1>2. CASE snap[View(b).at].file = NoFile
  BY <1>1, <1>2, BreaksStep DEF Copy
<1>3. CASE snap[View(b).at].file # NoFile
  <2> DEFINE todo == BlockPath(View(b).at, b)
             file == snap[View(b).at].file
             part == snap[View(b).at].partial \/ HalfBuilt(snap[View(b).at])
             v == [View(b) EXCEPT !.phase = "building", !.todo = todo]
             e == [snap[b] EXCEPT !.file = file, !.partial = part, !.view = v]
  <2>1. todo \in Seq(Block) /\ file \in Seq(Block) /\ part \in BOOLEAN
    BY <1>1, BlockPathType, EntryNow DEF Snap, HalfBuilt
  <2>2. SetEntry(b, e) /\ logs' = logs /\ wait' = wait /\ held' = held /\ chain' = chain
    BY <1>3 DEF Copy
  <2>3. file # NoFile
    BY <1>3
  <2> HIDE DEF todo, file, part
  <2>4. /\ v \in ViewRecord /\ v.users = View(b).users /\ v.at = View(b).at
        /\ v.phase = "building"
    BY <1>1, <2>1 DEF ViewRecord, Phases
  <2> HIDE DEF v
  <2>5. /\ e \in Snap /\ e.view = v /\ e.file = file /\ e.ref = snap[b].ref
        /\ e.closing = snap[b].closing /\ e.again = snap[b].again
    BY <1>1, <2>1, <2>4 DEF Snap
  <2> HIDE DEF e
  <2>6. EntryKept(e, b, chain)
    BY <1>1, <2>3, <2>4, <2>5 DEF EntryKept, ViewPlaced, RefAgrees, Used, FileListed,
        GenesisFile, Building
  <2> QED
    BY <1>1, <2>2, <2>4, <2>5, <2>6, EntryStep
<1> QED
  BY <1>2, <1>3

LEMMA RedoStep ==
    ASSUME IInv, NEW b \in Block, Redo(b)
    PROVE  IInv'
<1> DEFINE todo == Tail(View(b).todo)
           file == Append(snap[b].file, Head(View(b).todo))
           v == [View(b) EXCEPT !.todo = todo]
           e == [snap[b] EXCEPT !.file = file, !.view = v]
<1>1. /\ snap[b] \in Snap /\ View(b) \in ViewRecord /\ View(b) = snap[b].view
      /\ EntryKept(snap[b], b, chain) /\ View(b).phase = "building" /\ View(b).todo # <<>>
  BY EntryNow DEF Redo
<1>2. View(b).todo \in Seq(Block) /\ snap[b].file \in Seq(Block)
  BY <1>1 DEF Snap, ViewRecord
<1>3. todo \in Seq(Block) /\ file \in Seq(Block) /\ file # NoFile
  BY <1>1, <1>2 DEF NoFile
<1>4. SetEntry(b, e) /\ logs' = logs /\ wait' = wait /\ held' = held /\ chain' = chain
  BY <1>1 DEF Redo
<1> HIDE DEF todo, file
<1>5. /\ v \in ViewRecord /\ v.users = View(b).users /\ v.at = View(b).at
      /\ v.phase = "building"
  BY <1>1, <1>3 DEF ViewRecord
<1> HIDE DEF v
<1>6. /\ e \in Snap /\ e.view = v /\ e.file = file /\ e.ref = snap[b].ref
      /\ e.closing = snap[b].closing /\ e.again = snap[b].again
  BY <1>1, <1>3, <1>5 DEF Snap
<1> HIDE DEF e
<1>7. EntryKept(e, b, chain)
  BY <1>1, <1>3, <1>5, <1>6 DEF EntryKept, ViewPlaced, RefAgrees, Used, FileListed,
        GenesisFile, Building
<1> QED
  BY <1>1, <1>4, <1>5, <1>6, <1>7, EntryStep

LEMMA BuiltStep ==
    ASSUME IInv, NEW b \in Block, Built(b)
    PROVE  IInv'
<1> DEFINE v == [View(b) EXCEPT !.phase = "opening"]
           e == [snap[b] EXCEPT !.ref = 1, !.view = v]
<1>1. /\ snap[b] \in Snap /\ View(b) \in ViewRecord /\ View(b) = snap[b].view
      /\ EntryKept(snap[b], b, chain) /\ View(b).phase = "building"
  BY EntryNow DEF Built
<1>2. /\ v \in ViewRecord /\ v.users = View(b).users /\ v.at = View(b).at
      /\ v.phase = "opening"
  BY <1>1 DEF ViewRecord, Phases
<1>3. SetEntry(b, e) /\ logs' = logs /\ wait' = wait /\ held' = held /\ chain' = chain
  BY <1>1 DEF Built
<1> HIDE DEF v
<1>4. /\ e \in Snap /\ e.view = v /\ e.file = snap[b].file /\ e.ref = 1
      /\ e.closing = snap[b].closing /\ e.again = snap[b].again
  BY <1>1, <1>2 DEF Snap
<1>5. snap[b].closing \in Nat
  BY <1>1 DEF Snap
<1> HIDE DEF e
<1>6. EntryKept(e, b, chain)
  BY <1>1, <1>2, <1>4, <1>5 DEF EntryKept, ViewPlaced, RefAgrees, Used, FileListed,
        GenesisFile, Building
<1> QED
  BY <1>1, <1>2, <1>3, <1>4, <1>6, EntryStep

LEMMA NoViewFacts ==
    /\ NoView \in ViewRecord /\ NoView.users = 0 /\ NoView.phase = "none"
    /\ NoView.at = NoBlock
BY SomeFacts DEF NoView, ViewRecord, Phases, NoFile

LEMMA BuildFailsStep ==
    ASSUME IInv, NEW b \in Block, BuildFails(b)
    PROVE  IInv'
<1> DEFINE e == [snap[b] EXCEPT !.file = NoFile, !.view = NoView, !.partial = FALSE]
<1>1. /\ snap[b] \in Snap /\ View(b) \in ViewRecord /\ View(b) = snap[b].view
      /\ EntryKept(snap[b], b, chain) /\ View(b).phase = "building"
  BY EntryNow DEF BuildFails
<1>2. /\ e \in Snap /\ e.view = NoView /\ e.file = NoFile /\ e.ref = snap[b].ref
      /\ e.closing = snap[b].closing /\ e.again = snap[b].again
  BY <1>1, NoViewFacts, SomeFacts DEF Snap
<1>3. SetEntry(b, e) /\ OwnerFails(b, Hung) /\ logs' = logs /\ held' = held /\ chain' = chain
  BY DEF BuildFails
<1>4. snap[b].closing \in Nat /\ snap[b].ref \in Int
  BY <1>1 DEF Snap, Unlisted
<1> HIDE DEF e
<1>5. b # 0
  BY <1>1 DEF EntryKept, GenesisFile, Building
<1>6. EntryKept(e, b, chain)
  BY <1>1, <1>2, <1>4, <1>5, NoViewFacts, SomeFacts DEF NoBlock, EntryKept, ViewPlaced, RefAgrees, Used, FileListed,
        GenesisFile, Building
<1> QED
  BY <1>1, <1>2, <1>3, <1>6, NoViewFacts, ViewLost

LEMMA InitFailsStep ==
    ASSUME IInv, NEW b \in Block, InitFails(b)
    PROVE  IInv'
<1> DEFINE e == [snap[b] EXCEPT !.view = NoView, !.partial = TRUE]
<1>1. /\ snap[b] \in Snap /\ View(b) \in ViewRecord /\ View(b) = snap[b].view
      /\ EntryKept(snap[b], b, chain) /\ View(b).phase = "building"
  BY EntryNow DEF InitFails
<1>2. /\ e \in Snap /\ e.view = NoView /\ e.file = snap[b].file /\ e.ref = snap[b].ref
      /\ e.closing = snap[b].closing /\ e.again = snap[b].again
  BY <1>1, NoViewFacts DEF Snap
<1>3. SetEntry(b, e) /\ OwnerFails(b, Hung) /\ logs' = logs /\ held' = held /\ chain' = chain
  BY DEF InitFails
<1>4. snap[b].closing \in Nat /\ snap[b].ref \in Int
  BY <1>1 DEF Snap, Unlisted
<1> HIDE DEF e
<1>5. b # 0
  BY <1>1 DEF EntryKept, GenesisFile, Building
<1>6. EntryKept(e, b, chain)
  BY <1>1, <1>2, <1>4, <1>5, NoViewFacts, SomeFacts DEF NoBlock, EntryKept, ViewPlaced, RefAgrees, Used, FileListed,
        GenesisFile, Building
<1> QED
  BY <1>1, <1>2, <1>3, <1>6, NoViewFacts, ViewLost

LEMMA OpenStep ==
    ASSUME IInv, NEW b \in Block, Open(b)
    PROVE  IInv'
<1> DEFINE v == [View(b) EXCEPT !.phase = "open"]
           e == [snap[b] EXCEPT !.view = v]
<1>1. /\ snap[b] \in Snap /\ View(b) \in ViewRecord /\ View(b) = snap[b].view
      /\ EntryKept(snap[b], b, chain) /\ View(b).phase = "opening"
  BY EntryNow DEF Open
<1>2. /\ v \in ViewRecord /\ v.users = View(b).users /\ v.at = View(b).at
      /\ v.phase = "open"
  BY <1>1 DEF ViewRecord, Phases
<1>3. SetEntry(b, e) /\ logs' = logs /\ wait' = wait /\ held' = held /\ chain' = chain
  BY DEF Open, SetView
<1> HIDE DEF v
<1>4. /\ e \in Snap /\ e.view = v /\ e.file = snap[b].file /\ e.ref = snap[b].ref
      /\ e.closing = snap[b].closing /\ e.again = snap[b].again
  BY <1>1, <1>2 DEF Snap
<1> HIDE DEF e
<1>5. EntryKept(e, b, chain)
  BY <1>1, <1>2, <1>4 DEF EntryKept, ViewPlaced, RefAgrees, Used, FileListed,
        GenesisFile, Building
<1> QED
  BY <1>1, <1>2, <1>3, <1>4, <1>5, EntryStep

LEMMA OpenFailsStep ==
    ASSUME IInv, NEW b \in Block, OpenFails(b)
    PROVE  IInv'
<1> DEFINE f == Unreference(snap[b])
           e == [f EXCEPT !.view = NoView]
<1>1. /\ snap[b] \in Snap /\ View(b) \in ViewRecord /\ View(b) = snap[b].view
      /\ EntryKept(snap[b], b, chain) /\ View(b).phase = "opening"
  BY EntryNow DEF OpenFails
<1>2. /\ f \in Snap /\ f.ref = IF snap[b].ref > 0 THEN snap[b].ref - 1 ELSE snap[b].ref
      /\ f.file = snap[b].file /\ f.closing = snap[b].closing /\ f.again = snap[b].again
  BY <1>1, OtherFacts
<1>3. SetEntry(b, e) /\ OwnerFails(b, Failed) /\ logs' = logs /\ held' = held /\ chain' = chain
  BY DEF OpenFails
<1> HIDE DEF f
<1>4. /\ e \in Snap /\ e.view = NoView /\ e.file = f.file /\ e.ref = f.ref
      /\ e.closing = f.closing /\ e.again = f.again
  BY <1>2, NoViewFacts DEF Snap
<1>5. snap[b].closing \in Nat /\ snap[b].ref \in Int
  BY <1>1 DEF Snap, Unlisted
<1> HIDE DEF e
<1>6. ViewPlaced(e, b, chain) /\ RefAgrees(e)
  BY <1>1, <1>2, <1>4, <1>5, NoViewFacts, SomeFacts
     DEF NoBlock, EntryKept, ViewPlaced, RefAgrees, Used, Building
<1>7. FileListed(e, b, chain) /\ (b = 0 => GenesisFile(e))
  BY <1>1, <1>2, <1>4, <1>5, NoViewFacts
     DEF EntryKept, RefAgrees, Used, FileListed, GenesisFile, Building
<1>8. EntryKept(e, b, chain)
  BY <1>6, <1>7 DEF EntryKept
<1> QED
  BY <1>1, <1>3, <1>4, <1>8, NoViewFacts, ViewLost

LEMMA ClosedStep ==
    ASSUME IInv, NEW b \in Block, Closed(b)
    PROVE  IInv'
<1> DEFINE f == Unreference(snap[b])
           n == snap[b].closing - 1
           e == [f EXCEPT !.closing = n]
<1>1. /\ snap[b] \in Snap /\ View(b) \in ViewRecord /\ View(b) = snap[b].view
      /\ EntryKept(snap[b], b, chain) /\ snap[b].closing > 0
  BY EntryNow DEF Closed
<1>2. /\ f \in Snap /\ f.ref = IF snap[b].ref > 0 THEN snap[b].ref - 1 ELSE snap[b].ref
      /\ f.file = snap[b].file /\ f.closing = snap[b].closing /\ f.again = snap[b].again
      /\ f.view = View(b)
  BY <1>1, OtherFacts
<1>3. SetEntry(b, e) /\ logs' = logs /\ wait' = wait /\ held' = held /\ chain' = chain
  BY <1>2 DEF Closed
<1>4. snap[b].closing \in Nat /\ snap[b].ref \in Int /\ n \in Nat
  BY <1>1 DEF Snap, Unlisted
<1> HIDE DEF f, n
<1>5. /\ e \in Snap /\ e.view = f.view /\ e.file = f.file /\ e.ref = f.ref
      /\ e.closing = n /\ e.again = f.again
  BY <1>2, <1>4 DEF Snap
<1> HIDE DEF e
<1>6. EntryKept(e, b, chain)
  BY <1>1, <1>2, <1>4, <1>5 DEF n, EntryKept, ViewPlaced, RefAgrees, Used, FileListed,
        GenesisFile, Building
<1> QED
  BY <1>1, <1>2, <1>3, <1>5, <1>6, EntryStep

-----------------------------------------------------------------------------
(* Steps of those who use views.                                           *)

\* The users of every view change as those who hold it do.
LEMMA Balanced ==
    ASSUME IInv, Types', EntriesKept', ChainPlaced', OneViewEach',
           NEW change \in [Block -> Int],
           \A c \in Block : Holds(c)' = Holds(c) + change[c],
           \A c \in Block : View(c)'.users = View(c).users + change[c],
           \A c \in Block : View(c).phase = "broken" => View(c)'.phase = "broken",
           \A c \in Block : Has(c)' => View(c).phase = "open",
           \A c \in Block : View(c).phase = "open" => View(c)'.phase \in {"open", "none"}
    PROVE  IInv'
<1>1. CountsAgree'
  <2>1. \A c \in Block : View(c).phase # "broken" => View(c).users = Holds(c)
    BY DEF IInv, CountsAgree
  <2>2. \A c \in Block : View(c)'.phase # "broken" => View(c)'.users = Holds(c)'
    BY <2>1
  <2> QED
    BY <2>2 DEF CountsAgree
<1>2. ASSUME NEW c \in Block, Has(c)'
      PROVE  View(c)'.phase = "open"
  <2>1. Types' => (\A b \in Block :
        /\ Holds(b) \in Nat
        /\ Has(b) => Holds(b) > 0
        /\ \A u \in Task : wait[u] = b => Holds(b) > 0)'
    BY HoldsType, PTL
  <2>2. Holds(c)' > 0
    BY <1>2, <2>1
  <2>3. View(c)'.phase = "none" => ~(View(c)'.users > 0)
    BY DEF EntriesKept, EntryKept, ViewPlaced, View
  <2>4. View(c)'.phase = "none" => View(c)'.users = Holds(c)'
    BY <1>1 DEF CountsAgree
  <2>5. View(c)'.phase \in {"open", "none"}
    BY <1>2
  <2> QED
    BY <2>2, <2>3, <2>4, <2>5
<1> QED
  BY <1>1, <1>2 DEF IInv, HeldAreOpen

LEMMA AcquireKept ==
    ASSUME NEW e \in Snap, NEW u \in Task, NEW b \in Block, NEW c, c.tip \in Block,
           EntryKept(e, b, c), b <= c.tip
    PROVE  /\ Acquire(e, u, b) \in Snap
           /\ EntryKept(Acquire(e, u, b), b, c)
           /\ Acquire(e, u, b).view.users = e.view.users + 1
           /\ e.view.phase \notin {"none"} => Acquire(e, u, b).view.phase = e.view.phase
           /\ e.view.phase = "none" => Acquire(e, u, b).view.phase = "checking"
<1> DEFINE f == Acquire(e, u, b)
<1>1. /\ f \in Snap
      /\ f.file = e.file /\ f.ref = e.ref /\ f.closing = e.closing /\ f.again = e.again
      /\ e.view.phase = "none" => f.view.phase = "checking" /\ f.view.users = 1 /\ f.view.at = b
      /\ e.view.phase # "none" =>
           /\ f.view.phase = e.view.phase /\ f.view.at = e.view.at
           /\ f.view.users = e.view.users + 1
  BY AcquireFacts
<1>2. e.view.users \in Nat
  BY DEF Snap, ViewRecord
<1> HIDE DEF f
<1>3. b \in Nat /\ c.tip \in Nat
  BY SomeFacts
<1>4. f.view.users = e.view.users + 1
  BY <1>1, <1>2 DEF EntryKept, ViewPlaced
<1>5. ViewPlaced(f, b, c)
  BY <1>1, <1>2, <1>3 DEF EntryKept, ViewPlaced, Building
<1>6. RefAgrees(f) /\ FileListed(f, b, c) /\ (b = 0 => GenesisFile(f))
  BY <1>1 DEF EntryKept, RefAgrees, Used, FileListed, GenesisFile, Building
<1> QED
  BY <1>1, <1>4, <1>5, <1>6 DEF EntryKept, f

LEMMA ReleaseKept ==
    ASSUME NEW e \in Snap, NEW b \in Block, NEW c, EntryKept(e, b, c), e.view.phase = "open"
    PROVE  /\ Release(e) \in Snap
           /\ EntryKept(Release(e), b, c)
           /\ Release(e).view.users = e.view.users - 1
           /\ Release(e).view.phase \in {"open", "none"}
<1> DEFINE f == Release(e)
<1>1. /\ f \in Snap /\ f.file = e.file /\ f.ref = e.ref /\ f.again = e.again
      /\ e.view.users > 1 =>
           /\ f.view.users = e.view.users - 1 /\ f.view.phase = "open"
           /\ f.view.at = e.view.at /\ f.closing = e.closing
      /\ ~(e.view.users > 1) =>
           /\ f.view.users = 0 /\ f.view.phase = "none"
           /\ f.view.at = NoBlock /\ f.closing = e.closing + 1
  BY ReleaseFacts
<1>2. e.view.users \in Nat /\ e.view.users > 0 /\ e.closing \in Nat /\ e.ref \in Int
  BY DEF Snap, ViewRecord, EntryKept, ViewPlaced, Unlisted
<1> HIDE DEF f
<1>3. f.view.users = e.view.users - 1 /\ Used(f) = Used(e)
  BY <1>1, <1>2 DEF Used
<1>4. ViewPlaced(f, b, c)
  BY <1>1, <1>2, SomeFacts DEF EntryKept, ViewPlaced, Building, NoBlock
<1>5. RefAgrees(f) /\ FileListed(f, b, c) /\ (b = 0 => GenesisFile(f))
  BY <1>1, <1>3 DEF EntryKept, RefAgrees, FileListed, GenesisFile, Building
<1> QED
  BY <1>1, <1>3, <1>4, <1>5 DEF EntryKept, f

\* What a step of u alone does to the count of b.
LEMMA HoldsBy ==
    ASSUME Types, Types', NEW b \in Block, NEW u \in Task,
           \A v \in Task : v # u => wait'[v] = wait[v],
           \A v \in Readers : v # u => held'[v] = held[v],
           chain' = chain
    PROVE  Holds(b)' = Holds(b) - (IF u \in Holders(b) THEN 1 ELSE 0)
                                + (IF u \in Holders(b)' THEN 1 ELSE 0)
<1>1. Cardinality(Holders(b))' = Cardinality(Holders(b))
                - (IF u \in Holders(b) THEN 1 ELSE 0) + (IF u \in Holders(b)' THEN 1 ELSE 0)
  BY TaskCount
<1>2. Cardinality(Holders(b)) \in Nat
  BY HoldersFinite
<1> DEFINE card == Cardinality(Holders(b))
           more == IF u \in Holders(b)' THEN 1 ELSE 0
           less == IF u \in Holders(b) THEN 1 ELSE 0
<1>3. more \in Nat /\ less \in Nat /\ card \in Nat
      /\ Cardinality(Holders(b))' = card - less + more
  BY <1>1, <1>2
<1> HIDE DEF card, more, less
<1>4. Holds(b) = card + (IF b \in chain.refs THEN 1 ELSE 0)
        + (IF chain.pending = b THEN 1 ELSE 0)
        + (IF b = 0 /\ chain.pc \notin {"genesis", "failed"} THEN 1 ELSE 0)
  BY DEF Holds, card
<1>5. Holds(b)' = (card - less + more) + (IF b \in chain.refs THEN 1 ELSE 0)
        + (IF chain.pending = b THEN 1 ELSE 0)
        + (IF b = 0 /\ chain.pc \notin {"genesis", "failed"} THEN 1 ELSE 0)
  BY <1>3 DEF Holds
<1>6. Holds(b)' = Holds(b) - less + more
  BY <1>3, <1>4, <1>5
<1> QED
  BY <1>6 DEF less, more

LEMMA AskStep ==
    ASSUME IInv, NEW r \in Readers, NEW b \in Block, Ask(r, b)
    PROVE  IInv'
<1> DEFINE e == Acquire(snap[b], r, b)
           change == [c \in Block |-> IF c = b THEN 1 ELSE 0]
<1>1. /\ snap[b] \in Snap /\ EntryKept(snap[b], b, chain) /\ b <= chain.tip
      /\ chain.tip \in Block /\ r \in Task /\ wait[r] = NoBlock /\ held[r] = NoBlock
  BY EntryNow, SomeFacts DEF Ask, IInv, Types, ChainRecord
<1>2. /\ e \in Snap /\ EntryKept(e, b, chain) /\ e.view.users = snap[b].view.users + 1
      /\ snap[b].view.phase # "none" => e.view.phase = snap[b].view.phase
      /\ snap[b].view.phase = "none" => e.view.phase = "checking"
  BY <1>1, AcquireKept
<1> HIDE DEF e
<1>3. /\ snap' \in [Block -> Snap] /\ snap'[b] = e
      /\ \A c \in Block : c # b => snap'[c] = snap[c]
  BY <1>2 DEF Ask, SetEntry, IInv, Types, e
<1>4. /\ wait' \in [Task -> Block \cup {NoBlock, Failed, Hung}] /\ wait'[r] = b
      /\ \A v \in Task : v # r => wait'[v] = wait[v]
      /\ logs' = logs /\ held' = held /\ chain' = chain
  BY <1>1 DEF Ask, IInv, Types
<1>5. Types'
  BY <1>3, <1>4 DEF IInv, Types
<1>6. EntriesKept'
  BY <1>2, <1>3, <1>4 DEF IInv, EntriesKept
<1>7. ChainPlaced' /\ OneViewEach'
  BY <1>1, <1>4, SomeFacts DEF IInv, ChainPlaced, OneViewEach, MorkBlock
<1>8. change \in [Block -> Int]
  OBVIOUS
<1>9. ASSUME NEW c \in Block
      PROVE  Holds(c)' = Holds(c) + change[c]
  <2>1. Holds(c)' = Holds(c) - (IF r \in Holders(c) THEN 1 ELSE 0)
                             + (IF r \in Holders(c)' THEN 1 ELSE 0)
    BY <1>1, <1>4, <1>5, HoldsBy DEF IInv
  <2>2. r \notin Holders(c) /\ (r \in Holders(c)' <=> c = b)
    BY <1>1, <1>4, SomeFacts DEF Holders
  <2>3. Holds(c) \in Nat
    BY HoldsType DEF IInv
  <2> QED
    BY <2>1, <2>2, <2>3
<1>10. \A c \in Block : View(c)'.users = View(c).users + change[c]
  <2>1. \A c \in Block : View(c).users \in Nat
    BY EntryNow DEF ViewRecord
  <2> QED
    BY <1>2, <1>3, <2>1 DEF View
<1>11. \A c \in Block :
         /\ View(c).phase = "broken" => View(c)'.phase = "broken"
         /\ View(c).phase = "open" => View(c)'.phase \in {"open", "none"}
  BY <1>2, <1>3 DEF View
<1>12. \A c \in Block : Has(c)' => View(c).phase = "open"
  BY <1>4 DEF IInv, HeldAreOpen, Has
<1> HIDE DEF change
<1> QED
  BY <1>5, <1>6, <1>7, <1>8, <1>9, <1>10, <1>11, <1>12, Balanced

LEMMA ReceiveStep ==
    ASSUME IInv, NEW r \in Readers, Receive(r)
    PROVE  IInv'
<1> DEFINE change == [c \in Block |-> 0]
<1>1. /\ r \in Task /\ r # Chain /\ wait[r] \in Block /\ View(wait[r]).phase = "open"
      /\ held[r] = NoBlock
  BY SomeFacts DEF Receive, Got, IInv, OneViewEach
<1>2. /\ wait' \in [Task -> Block \cup {NoBlock, Failed, Hung}] /\ wait'[r] = NoBlock
      /\ \A v \in Task : v # r => wait'[v] = wait[v]
      /\ held' \in [Readers -> Block \cup {NoBlock}] /\ held'[r] = wait[r]
      /\ \A v \in Readers : v # r => held'[v] = held[v]
      /\ snap' = snap /\ logs' = logs /\ chain' = chain
  BY <1>1 DEF Receive, IInv, Types
<1>3. Types'
  BY <1>2 DEF IInv, Types
<1>4. EntriesKept'
  BY <1>2 DEF IInv, EntriesKept
<1>5. ChainPlaced' /\ OneViewEach'
  BY <1>1, <1>2, SomeFacts DEF IInv, ChainPlaced, OneViewEach, MorkBlock
<1>6. change \in [Block -> Int]
  OBVIOUS
<1>7. ASSUME NEW c \in Block
      PROVE  Holds(c)' = Holds(c) + change[c]
  <2>1. Holds(c)' = Holds(c) - (IF r \in Holders(c) THEN 1 ELSE 0)
                             + (IF r \in Holders(c)' THEN 1 ELSE 0)
    BY <1>1, <1>2, <1>3, HoldsBy DEF IInv
  <2>2. r \in Holders(c) <=> r \in Holders(c)'
    BY <1>1, <1>2, SomeFacts DEF Holders
  <2>3. Holds(c) \in Nat
    BY HoldsType DEF IInv
  <2> QED
    BY <2>1, <2>2, <2>3
<1>8. \A c \in Block : View(c)'.users = View(c).users + change[c]
  <2>1. \A c \in Block : View(c).users \in Nat
    BY EntryNow DEF ViewRecord
  <2> QED
    BY <1>2, <2>1 DEF View
<1>9. \A c \in Block :
         /\ View(c).phase = "broken" => View(c)'.phase = "broken"
         /\ View(c).phase = "open" => View(c)'.phase \in {"open", "none"}
  BY <1>2 DEF View
<1>10. \A c \in Block : Has(c)' => View(c).phase = "open"
  BY <1>1, <1>2 DEF IInv, HeldAreOpen, Has
<1> HIDE DEF change
<1> QED
  BY <1>3, <1>4, <1>5, <1>6, <1>7, <1>8, <1>9, <1>10, Balanced

LEMMA EndReadStep ==
    ASSUME IInv, NEW r \in Readers, EndRead(r)
    PROVE  IInv'
<1> DEFINE b == held[r]
           e == Release(snap[b])
           change == [c \in Block |-> IF c = b THEN -1 ELSE 0]
<1>1. r \in Task /\ r # Chain /\ b \in Block /\ wait[r] = NoBlock
  BY SomeFacts DEF EndRead, IInv, Types, OneViewEach
<1>2. View(b).phase = "open"
  BY <1>1 DEF IInv, HeldAreOpen, Has
<1>3. /\ snap[b] \in Snap /\ EntryKept(snap[b], b, chain) /\ snap[b].view.phase = "open"
  BY <1>1, <1>2, EntryNow
<1>4. /\ e \in Snap /\ EntryKept(e, b, chain) /\ e.view.users = snap[b].view.users - 1
      /\ e.view.phase \in {"open", "none"}
  BY <1>1, <1>3, ReleaseKept
<1>5. SetEntry(b, e) /\ held' = [held EXCEPT ![r] = NoBlock]
      /\ logs' = logs /\ wait' = wait /\ chain' = chain
  BY DEF EndRead
<1> HIDE DEF e
<1>6. /\ snap' \in [Block -> Snap] /\ snap'[b] = e
      /\ \A c \in Block : c # b => snap'[c] = snap[c]
  BY <1>1, <1>4, <1>5 DEF SetEntry, IInv, Types
<1>7. /\ held' \in [Readers -> Block \cup {NoBlock}] /\ held'[r] = NoBlock
      /\ \A v \in Readers : v # r => held'[v] = held[v]
  BY <1>5 DEF IInv, Types
<1>8. Types'
  BY <1>5, <1>6, <1>7 DEF IInv, Types
<1>9. EntriesKept'
  BY <1>4, <1>5, <1>6 DEF IInv, EntriesKept
<1>10. ChainPlaced' /\ OneViewEach'
  BY <1>5, <1>7 DEF IInv, ChainPlaced, OneViewEach, MorkBlock
<1>11. change \in [Block -> Int]
  OBVIOUS
<1>12. ASSUME NEW c \in Block
       PROVE  Holds(c)' = Holds(c) + change[c]
  <2>1. Holds(c)' = Holds(c) - (IF r \in Holders(c) THEN 1 ELSE 0)
                             + (IF r \in Holders(c)' THEN 1 ELSE 0)
    BY <1>1, <1>5, <1>7, <1>8, HoldsBy DEF IInv
  <2>2. r \notin Holders(c)' /\ (r \in Holders(c) <=> c = b)
    BY <1>1, <1>5, <1>7, SomeFacts DEF Holders
  <2>3. Holds(c) \in Nat
    BY HoldsType DEF IInv
  <2> QED
    BY <2>1, <2>2, <2>3
<1>13. \A c \in Block : View(c)'.users = View(c).users + change[c]
  <2>1. \A c \in Block : View(c).users \in Nat
    BY EntryNow DEF ViewRecord
  <2> QED
    BY <1>4, <1>6, <2>1 DEF View
<1>14. \A c \in Block :
         /\ View(c).phase = "broken" => View(c)'.phase = "broken"
         /\ View(c).phase = "open" => View(c)'.phase \in {"open", "none"}
  BY <1>2, <1>4, <1>6 DEF View
<1>15. \A c \in Block : Has(c)' => View(c).phase = "open"
  BY <1>5, <1>7, SomeFacts DEF IInv, HeldAreOpen, Has
<1> HIDE DEF change
<1> QED
  BY <1>8, <1>9, <1>10, <1>11, <1>12, <1>13, <1>14, <1>15, Balanced

LEMMA ReadFailsStep ==
    ASSUME IInv, NEW r \in Readers, ReadFails(r)
    PROVE  IInv'
<1> DEFINE change == [c \in Block |-> 0]
<1>1. r \in Task /\ r # Chain /\ wait[r] = Failed
  BY SomeFacts DEF ReadFails
<1>2. /\ wait' \in [Task -> Block \cup {NoBlock, Failed, Hung}] /\ wait'[r] = NoBlock
      /\ \A v \in Task : v # r => wait'[v] = wait[v]
      /\ snap' = snap /\ logs' = logs /\ chain' = chain /\ held' = held
  BY <1>1 DEF ReadFails, IInv, Types
<1>3. Types'
  BY <1>2 DEF IInv, Types
<1>4. EntriesKept'
  BY <1>2 DEF IInv, EntriesKept
<1>5. ChainPlaced' /\ OneViewEach'
  BY <1>1, <1>2, SomeFacts DEF IInv, ChainPlaced, OneViewEach, MorkBlock
<1>6. change \in [Block -> Int]
  OBVIOUS
<1>7. ASSUME NEW c \in Block
      PROVE  Holds(c)' = Holds(c) + change[c]
  <2>1. Holds(c)' = Holds(c) - (IF r \in Holders(c) THEN 1 ELSE 0)
                             + (IF r \in Holders(c)' THEN 1 ELSE 0)
    BY <1>1, <1>2, <1>3, HoldsBy DEF IInv
  <2>2. r \in Holders(c) <=> r \in Holders(c)'
    BY <1>1, <1>2, SomeFacts DEF Holders
  <2>3. Holds(c) \in Nat
    BY HoldsType DEF IInv
  <2> QED
    BY <2>1, <2>2, <2>3
<1>8. \A c \in Block : View(c)'.users = View(c).users + change[c]
  <2>1. \A c \in Block : View(c).users \in Nat
    BY EntryNow DEF ViewRecord
  <2> QED
    BY <1>2, <2>1 DEF View
<1>9. \A c \in Block :
         /\ View(c).phase = "broken" => View(c)'.phase = "broken"
         /\ View(c).phase = "open" => View(c)'.phase \in {"open", "none"}
  BY <1>2 DEF View
<1>10. \A c \in Block : Has(c)' => View(c).phase = "open"
  BY <1>2 DEF IInv, HeldAreOpen, Has
<1> HIDE DEF change
<1> QED
  BY <1>3, <1>4, <1>5, <1>6, <1>7, <1>8, <1>9, <1>10, Balanced

-----------------------------------------------------------------------------
(* Steps of the chain.                                                     *)

ChainHolds(c, b) ==
    (IF b \in c.refs THEN 1 ELSE 0) + (IF c.pending = b THEN 1 ELSE 0)
        + (IF b = 0 /\ c.pc \notin {"genesis", "failed"} THEN 1 ELSE 0)

ChainHas(c, b) ==
    b \in c.refs \/ c.pending = b \/ (b = 0 /\ c.pc \notin {"genesis", "failed"})

Waits(w, b) == IF w = b THEN 1 ELSE 0

LEMMA ChainCount ==
    ASSUME Types, Types', NEW b \in Block, held' = held,
           \A v \in Task : v # Chain => wait'[v] = wait[v]
    PROVE  Holds(b)' = Holds(b) - Waits(wait[Chain], b) + Waits(wait'[Chain], b)
                                - ChainHolds(chain, b) + ChainHolds(chain', b)
<1> DEFINE card == Cardinality(Holders(b))
           card1 == Cardinality(Holders(b))'
<1>1. Chain \in Holders(b) <=> wait[Chain] = b
  BY SomeFacts DEF Holders
<1>2. Chain \in Holders(b)' <=> wait'[Chain] = b
  BY SomeFacts DEF Holders
<1>3. card \in Nat /\ card1 = card - Waits(wait[Chain], b) + Waits(wait'[Chain], b)
  BY <1>1, <1>2, SomeFacts, TaskCount, HoldersFinite DEF Waits
<1>4. Holds(b) = card + ChainHolds(chain, b) /\ Holds(b)' = card1 + ChainHolds(chain', b)
  <2>1. Holds(b) = card + ChainHolds(chain, b)
    <3> DEFINE i == IF b \in chain.refs THEN 1 ELSE 0
               j == IF chain.pending = b THEN 1 ELSE 0
               k == IF b = 0 /\ chain.pc \notin {"genesis", "failed"} THEN 1 ELSE 0
    <3>1. Holds(b) = card + i + j + k /\ ChainHolds(chain, b) = i + j + k
      BY DEF Holds, ChainHolds
    <3>2. i \in Nat /\ j \in Nat /\ k \in Nat
      OBVIOUS
    <3> HIDE DEF i, j, k, card
    <3> QED
      BY <1>3, <3>1, <3>2
  <2>2. Holds(b)' = card1 + ChainHolds(chain', b)
    <3> DEFINE i == IF b \in chain'.refs THEN 1 ELSE 0
               j == IF chain'.pending = b THEN 1 ELSE 0
               k == IF b = 0 /\ chain'.pc \notin {"genesis", "failed"} THEN 1 ELSE 0
    <3>1. Holds(b)' = card1 + i + j + k /\ ChainHolds(chain', b) = i + j + k
      BY DEF Holds, ChainHolds
    <3>2. i \in Nat /\ j \in Nat /\ k \in Nat
      OBVIOUS
    <3>3. card1 \in Int
      BY <1>3 DEF Waits
    <3> HIDE DEF i, j, k, card1
    <3> QED
      BY <3>3, <3>1, <3>2
  <2> QED
    BY <2>1, <2>2
<1>5. ChainHolds(chain, b) \in Int /\ ChainHolds(chain', b) \in Int
      /\ Waits(wait[Chain], b) \in Int /\ Waits(wait'[Chain], b) \in Int
  BY DEF ChainHolds, Waits
<1> HIDE DEF card, card1
<1> QED
  BY <1>3, <1>4, <1>5

\* A block of the chain does not turn one that is not built into a listed one.
LEMMA KeptAfter ==
    ASSUME NEW e, NEW b, NEW c, NEW d, EntryKept(e, b, c), d.tip = c.tip,
           c.pc \in {"idle", "copy"} => d.pc \in {"idle", "copy"}
    PROVE  EntryKept(e, b, d)
<1>1. ViewPlaced(e, b, d)
  BY DEF EntryKept, ViewPlaced
<1>2. FileListed(e, b, d)
  BY DEF EntryKept, FileListed
<1> QED
  BY <1>1, <1>2 DEF EntryKept

\* The chain asks for the view of t, whatever it did to the entries before.
LEMMA GoOnStep ==
    ASSUME IInv, NEW s \in [Block -> Snap], NEW t \in Block, NEW d \in ChainRecord,
           GoOn(s, t, d), logs' \subseteq Block, ChainPlaced', t <= d.tip,
           \A c \in Block : EntryKept(s[c], c, d),
           NEW change \in [Block -> Int],
           \A c \in Block : s[c].view.users = View(c).users + change[c],
           \A c \in Block : ChainHolds(d, c) - ChainHolds(chain, c) - Waits(wait[Chain], c)
                                = change[c],
           \A c \in Block : View(c).phase = "broken" => s[c].view.phase = "broken",
           \A c \in Block : View(c).phase = "open" => s[c].view.phase \in {"open", "none"},
           s[t].view.phase = "none" => View(t).phase # "open",
           \A c \in Block : ChainHas(d, c) => View(c).phase = "open"
    PROVE  IInv'
<1> DEFINE e == Acquire(s[t], Chain, t)
           more == [c \in Block |-> change[c] + Waits(t, c)]
<1>1. s[t] \in Snap /\ d.tip \in Block /\ Chain \in Task
  BY SomeFacts DEF ChainRecord
<1>2. /\ e \in Snap /\ EntryKept(e, t, d) /\ e.view.users = s[t].view.users + 1
      /\ s[t].view.phase # "none" => e.view.phase = s[t].view.phase
      /\ s[t].view.phase = "none" => e.view.phase = "checking"
  BY <1>1, AcquireKept
<1>3. /\ snap' = [s EXCEPT ![t] = e] /\ wait' = [wait EXCEPT ![Chain] = t]
      /\ chain' = d /\ held' = held
  BY DEF GoOn
<1> HIDE DEF e
<1>4. /\ snap' \in [Block -> Snap] /\ snap'[t] = e
      /\ \A c \in Block : c # t => snap'[c] = s[c]
  BY <1>2, <1>3
<1>5. /\ wait' \in [Task -> Block \cup {NoBlock, Failed, Hung}] /\ wait'[Chain] = t
      /\ \A v \in Task : v # Chain => wait'[v] = wait[v]
  BY <1>1, <1>3 DEF IInv, Types
<1>6. Types'
  BY <1>3, <1>4, <1>5 DEF IInv, Types
<1>7. EntriesKept'
  BY <1>2, <1>3, <1>4 DEF EntriesKept
<1>8. OneViewEach'
  BY <1>3, <1>5, SomeFacts DEF IInv, OneViewEach
<1>9. more \in [Block -> Int]
  BY DEF Waits
<1>10. ASSUME NEW c \in Block
       PROVE  Holds(c)' = Holds(c) + more[c]
  <2>1. Holds(c)' = Holds(c) - Waits(wait[Chain], c) + Waits(t, c)
                             - ChainHolds(chain, c) + ChainHolds(d, c)
    BY <1>3, <1>5, <1>6, ChainCount DEF IInv
  <2>2. /\ Holds(c) \in Int /\ Waits(wait[Chain], c) \in Int /\ Waits(t, c) \in Int
        /\ ChainHolds(chain, c) \in Int /\ ChainHolds(d, c) \in Int
    BY HoldsType DEF IInv, Waits, ChainHolds
  <2>3. more[c] = change[c] + Waits(t, c)
    OBVIOUS
  <2>4. change[c] = ChainHolds(d, c) - ChainHolds(chain, c) - Waits(wait[Chain], c)
    OBVIOUS
  <2> QED
    BY <2>1, <2>2, <2>3, <2>4
<1>11. ASSUME NEW c \in Block
       PROVE  View(c)'.users = View(c).users + more[c]
  <2>1. View(c).users \in Int /\ change[c] \in Int
    BY EntryNow DEF ViewRecord
  <2>2. s[c].view.users = View(c).users + change[c] /\ more[c] = change[c] + Waits(t, c)
    OBVIOUS
  <2>3. CASE c = t
    <3>1. View(c)'.users = s[c].view.users + 1 /\ Waits(t, c) = 1
      BY <1>2, <1>4, <2>3 DEF View, Waits
    <3> QED
      BY SMTT(30), <2>1, <2>2, <3>1
  <2>4. CASE c # t
    <3>1. View(c)'.users = s[c].view.users /\ Waits(t, c) = 0
      BY <1>4, <2>4 DEF View, Waits
    <3> QED
      BY <2>1, <2>2, <3>1
  <2> QED
    BY <2>3, <2>4
<1>12. \A c \in Block :
         /\ View(c).phase = "broken" => View(c)'.phase = "broken"
         /\ View(c).phase = "open" => View(c)'.phase \in {"open", "none"}
  BY <1>2, <1>4 DEF View
<1>13. \A c \in Block : Has(c)' => View(c).phase = "open"
  BY <1>3 DEF IInv, HeldAreOpen, Has, ChainHas
<1> HIDE DEF more
<1> QED
  BY <1>6, <1>7, <1>8, <1>9, <1>10, <1>11, <1>12, <1>13, Balanced

\* The same where the views stay as they are.
LEMMA GoOnSame ==
    ASSUME IInv, NEW s \in [Block -> Snap], NEW t \in Block, NEW d \in ChainRecord,
           GoOn(s, t, d), logs' \subseteq Block, ChainPlaced', t <= d.tip,
           \A c \in Block : EntryKept(s[c], c, d) /\ s[c].view = View(c),
           \A c \in Block : ChainHolds(d, c) = ChainHolds(chain, c) + Waits(wait[Chain], c),
           \A c \in Block : ChainHas(d, c) => View(c).phase = "open"
    PROVE  IInv'
<1> DEFINE change == [c \in Block |-> 0]
<1>1. change \in [Block -> Int]
  OBVIOUS
<1>2. \A c \in Block : s[c].view.users = View(c).users + change[c]
  BY EntryNow DEF ViewRecord
<1>3. \A c \in Block :
        ChainHolds(d, c) - ChainHolds(chain, c) - Waits(wait[Chain], c) = change[c]
  BY DEF ChainHolds, Waits
<1> HIDE DEF change
<1> QED
  BY SMTT(30), <1>1, <1>2, <1>3, GoOnStep

\* The chain has its view, or an error, and goes on by itself.
LEMMA StopStep ==
    ASSUME IInv, snap' \in [Block -> Snap], NEW d \in ChainRecord, chain' = d,
           wait' = [wait EXCEPT ![Chain] = NoBlock], held' = held, logs' \subseteq Block,
           ChainPlaced', \A c \in Block : EntryKept(snap'[c], c, d),
           NEW change \in [Block -> Int],
           \A c \in Block : snap'[c].view.users = View(c).users + change[c],
           \A c \in Block : ChainHolds(d, c) - ChainHolds(chain, c) - Waits(wait[Chain], c)
                                = change[c],
           \A c \in Block : View(c).phase = "broken" => snap'[c].view.phase = "broken",
           \A c \in Block : View(c).phase = "open" => snap'[c].view.phase \in {"open", "none"},
           \A c \in Block : ChainHas(d, c) => View(c).phase = "open"
    PROVE  IInv'
<1>1. /\ wait' \in [Task -> Block \cup {NoBlock, Failed, Hung}] /\ wait'[Chain] = NoBlock
      /\ \A v \in Task : v # Chain => wait'[v] = wait[v]
  BY SomeFacts DEF IInv, Types
<1>2. Types'
  BY <1>1 DEF IInv, Types
<1>3. EntriesKept'
  BY DEF EntriesKept
<1>4. OneViewEach'
  BY <1>1, SomeFacts DEF IInv, OneViewEach
<1>5. ASSUME NEW c \in Block
      PROVE  Holds(c)' = Holds(c) + change[c]
  <2>1. Holds(c)' = Holds(c) - Waits(wait[Chain], c) + Waits(NoBlock, c)
                             - ChainHolds(chain, c) + ChainHolds(d, c)
    BY <1>1, <1>2, ChainCount DEF IInv
  <2>2. /\ Holds(c) \in Int /\ Waits(wait[Chain], c) \in Int
        /\ ChainHolds(chain, c) \in Int /\ ChainHolds(d, c) \in Int
    BY HoldsType DEF IInv, Waits, ChainHolds
  <2>3. Waits(NoBlock, c) = 0
    BY SomeFacts DEF Waits
  <2>4. change[c] = ChainHolds(d, c) - ChainHolds(chain, c) - Waits(wait[Chain], c)
    OBVIOUS
  <2> QED
    BY <2>1, <2>2, <2>3, <2>4
<1>6. \A c \in Block : View(c)'.users = View(c).users + change[c]
  BY DEF View
<1>7. \A c \in Block :
         /\ View(c).phase = "broken" => View(c)'.phase = "broken"
         /\ View(c).phase = "open" => View(c)'.phase \in {"open", "none"}
  BY DEF View
<1>8. \A c \in Block : Has(c)' => View(c).phase = "open"
  BY DEF IInv, HeldAreOpen, Has, ChainHas
<1> QED
  BY <1>2, <1>3, <1>4, <1>5, <1>6, <1>7, <1>8, Balanced

LEMMA ChainNow ==
    ASSUME IInv
    PROVE  /\ chain \in ChainRecord /\ snap \in [Block -> Snap] /\ logs \subseteq Block
           /\ chain.tip \in Block /\ chain.tip \in Nat
           /\ \A c \in Block : ChainHas(chain, c) => View(c).phase = "open"
           /\ \A c \in Block : snap[c] \in Snap /\ EntryKept(snap[c], c, chain)
                                 /\ View(c) = snap[c].view
           /\ wait[Chain] \notin {NoBlock, Failed, Hung} => wait[Chain] \in Block
<1>1. /\ chain \in ChainRecord /\ snap \in [Block -> Snap] /\ logs \subseteq Block
      /\ wait[Chain] \notin {NoBlock, Failed, Hung} => wait[Chain] \in Block
  BY SomeFacts DEF IInv, Types
<1>2. chain.tip \in Block /\ chain.tip \in Nat
  BY <1>1, SomeFacts DEF ChainRecord
<1>3. \A c \in Block : ChainHas(chain, c) => View(c).phase = "open"
  BY DEF IInv, HeldAreOpen, Has, ChainHas
<1> QED
  BY <1>1, <1>2, <1>3, EntryNow

LEMMA LoadGenesisStep ==
    ASSUME IInv, LoadGenesis
    PROVE  IInv'
<1> DEFINE d == [chain EXCEPT !.pc = "tip"]
<1>1. chain.pc = "genesis" /\ wait[Chain] = 0 /\ View(0).phase = "open" /\ chain.refs = {}
  BY SomeFacts DEF LoadGenesis, At, Got, IInv, ChainPlaced
<1>2. /\ d \in ChainRecord /\ d.pc = "tip" /\ d.tip = chain.tip /\ d.refs = {}
      /\ d.pending = chain.pending
  BY <1>1, ChainNow DEF ChainRecord
<1>3. GoOn(snap, chain.tip, d) /\ logs' = logs
  BY DEF LoadGenesis
<1> HIDE DEF d
<1>4. chain' = d /\ wait'[Chain] = chain.tip
  BY <1>3, SomeFacts DEF GoOn, IInv, Types
<1>5. ChainPlaced'
  BY <1>2, <1>4 DEF ChainPlaced
<1>6. \A c \in Block : EntryKept(snap[c], c, d) /\ snap[c].view = View(c)
  BY <1>1, <1>2, ChainNow, KeptAfter
<1>7. \A c \in Block : ChainHolds(d, c) = ChainHolds(chain, c) + Waits(wait[Chain], c)
  BY <1>1, <1>2 DEF ChainHolds, Waits
<1>8. \A c \in Block : ChainHas(d, c) => View(c).phase = "open"
  BY <1>1, <1>2, ChainNow DEF ChainHas
<1> QED
  BY <1>2, <1>3, <1>5, <1>6, <1>7, <1>8, ChainNow, GoOnSame

LEMMA VerifyBlockStep ==
    ASSUME IInv, VerifyBlock
    PROVE  IInv'
<1> DEFINE d == [chain EXCEPT !.pc = "copy"]
<1>1. chain.pc = "idle" /\ wait[Chain] = NoBlock /\ chain.tip < MaxHeight
  BY DEF VerifyBlock, IInv, ChainPlaced
<1>2. /\ d \in ChainRecord /\ d.pc = "copy" /\ d.tip = chain.tip /\ d.refs = chain.refs
      /\ d.pending = chain.pending
  BY <1>1, ChainNow DEF ChainRecord
<1>3. GoOn(snap, chain.tip, d) /\ logs' = logs
  BY DEF VerifyBlock
<1> HIDE DEF d
<1>4. chain' = d /\ wait'[Chain] = chain.tip
  BY <1>3, SomeFacts DEF GoOn, IInv, Types
<1>5. ChainPlaced'
  BY <1>1, <1>2, <1>4 DEF ChainPlaced
<1>6. \A c \in Block : EntryKept(snap[c], c, d) /\ snap[c].view = View(c)
  BY <1>1, <1>2, ChainNow, KeptAfter
<1>7. \A c \in Block : ChainHolds(d, c) = ChainHolds(chain, c) + Waits(wait[Chain], c)
  BY <1>1, <1>2, SomeFacts DEF ChainHolds, Waits
<1>8. \A c \in Block : ChainHas(d, c) => View(c).phase = "open"
  BY <1>1, <1>2, ChainNow DEF ChainHas
<1> QED
  BY <1>2, <1>3, <1>5, <1>6, <1>7, <1>8, ChainNow, GoOnSame

LEMMA MorkFacts ==
    ASSUME chain.tip \in Block
    PROVE  MorkBlock \in Block /\ MorkBlock <= chain.tip
BY SnapshotsAssumption DEF MorkBlock, Block

LEMMA MorkViewStep ==
    ASSUME IInv, MorkView
    PROVE  IInv'
<1> DEFINE d == [chain EXCEPT !.pc = "mork", !.refs = {chain.tip}]
<1>1. /\ chain.pc = "tip" /\ wait[Chain] = chain.tip /\ View(chain.tip).phase = "open"
      /\ chain.refs = {} /\ MorkBlock # chain.tip
  BY SomeFacts DEF MorkView, At, Got, IInv, ChainPlaced
<1>2. /\ d \in ChainRecord /\ d.pc = "mork" /\ d.tip = chain.tip /\ d.refs = {chain.tip}
      /\ d.pending = chain.pending
  BY <1>1, ChainNow DEF ChainRecord
<1>3. GoOn(snap, MorkBlock, d) /\ logs' = logs
  BY DEF MorkView
<1> HIDE DEF d
<1>4. chain' = d /\ wait'[Chain] = MorkBlock
  BY <1>3, SomeFacts DEF GoOn, IInv, Types
<1>5. ChainPlaced'
  BY <1>1, <1>2, <1>4 DEF ChainPlaced, MorkBlock
<1>6. \A c \in Block : EntryKept(snap[c], c, d) /\ snap[c].view = View(c)
  BY <1>1, <1>2, ChainNow, KeptAfter
<1>7. \A c \in Block : ChainHolds(d, c) = ChainHolds(chain, c) + Waits(wait[Chain], c)
  BY <1>1, <1>2 DEF ChainHolds, Waits
<1>8. \A c \in Block : ChainHas(d, c) => View(c).phase = "open"
  BY <1>1, <1>2, ChainNow DEF ChainHas
<1>9. MorkBlock \in Block /\ MorkBlock <= d.tip
  BY <1>2, MorkFacts, ChainNow
<1> QED
  BY <1>2, <1>3, <1>5, <1>6, <1>7, <1>8, <1>9, ChainNow, GoOnSame

\* Nothing that is built or read is recycled.
LEMMA RecycleKept ==
    ASSUME NEW e \in Snap, NEW b \in Block, NEW c, EntryKept(e, b, c),
           c.pc \notin {"idle", "copy"},
           b = 0 => e.view.phase = "open"
    PROVE  Recycle(e) \in Snap /\ EntryKept(Recycle(e), b, c) /\ Recycle(e).view = e.view
<1> DEFINE f == Recycle(e)
<1>1. /\ f \in Snap /\ f.view = e.view /\ f.closing = e.closing /\ f.again = e.again
      /\ e.ref = 0 => f.file = NoFile /\ f.ref = Unlisted
      /\ e.ref # 0 => f = e
  BY OtherFacts
<1> HIDE DEF f
<1>2. CASE e.ref = 0
  <2>0. e.closing \in Nat
    BY DEF Snap
  <2>1. ViewPlaced(f, b, c)
    BY <1>1 DEF EntryKept, ViewPlaced
  <2>2. RefAgrees(f)
    BY <1>1, <1>2, <2>0 DEF EntryKept, RefAgrees, Used, Unlisted
  <2>3. b # 0
    BY <1>2, <2>0 DEF EntryKept, RefAgrees, Used, GenesisFile
  <2>4. FileListed(f, b, c)
    BY <1>1, <1>2 DEF EntryKept, FileListed, Unlisted, Building
  <2> QED
    BY <1>1, <2>1, <2>2, <2>3, <2>4 DEF EntryKept, f
<1>3. CASE e.ref # 0
  BY <1>1, <1>3 DEF f
<1> QED
  BY <1>2, <1>3

LEMMA RecycleSnapshotsStep ==
    ASSUME IInv, RecycleSnapshots
    PROVE  IInv'
<1> DEFINE w == wait[Chain]
           s == RecycleAll(snap)
           d == [chain EXCEPT !.pc = "pending", !.refs = @ \cup {w}]
<1>1. /\ chain.pc \in {"tip", "mork"} /\ w \in Block /\ View(w).phase = "open"
      /\ w \notin chain.refs
  BY SomeFacts DEF RecycleSnapshots, At, Got, IInv, ChainPlaced
<1>2. /\ d \in ChainRecord /\ d.pc = "pending" /\ d.tip = chain.tip
      /\ d.refs = chain.refs \cup {w} /\ d.pending = chain.pending
  BY <1>1, ChainNow DEF ChainRecord
<1>3. GoOn(s, chain.tip, d) /\ logs' = logs
  BY DEF RecycleSnapshots
<1> HIDE DEF d
<1>4. chain' = d /\ wait'[Chain] = chain.tip
  BY <1>3, SomeFacts DEF GoOn, IInv, Types
<1>5. ChainPlaced'
  BY <1>2, <1>4 DEF ChainPlaced
<1>6. ASSUME NEW c \in Block
      PROVE  s[c] \in Snap /\ EntryKept(s[c], c, d) /\ s[c].view = View(c)
  <2>1. c = 0 => View(c).phase = "open"
    BY <1>1, ChainNow DEF ChainHas
  <2>2. /\ Recycle(snap[c]) \in Snap /\ EntryKept(Recycle(snap[c]), c, chain)
        /\ Recycle(snap[c]).view = View(c)
    BY <1>1, <2>1, ChainNow, RecycleKept
  <2>3. s[c] = Recycle(snap[c])
    BY DEF RecycleAll
  <2>4. EntryKept(s[c], c, d)
    BY <1>1, <1>2, <2>2, <2>3, KeptAfter
  <2> QED
    BY <2>2, <2>3, <2>4
<1>7. s \in [Block -> Snap]
  BY <1>6 DEF RecycleAll
<1>8. \A c \in Block : ChainHolds(d, c) = ChainHolds(chain, c) + Waits(wait[Chain], c)
  BY <1>1, <1>2 DEF ChainHolds, Waits
<1>9. \A c \in Block : ChainHas(d, c) => View(c).phase = "open"
  BY <1>1, <1>2, ChainNow DEF ChainHas
<1> HIDE DEF s
<1> QED
  BY <1>2, <1>3, <1>5, <1>6, <1>7, <1>8, <1>9, ChainNow, GoOnSame

\* Once the view of the tip is open every listed snapshot has its file.
LEMMA KeptOnceOpen ==
    ASSUME NEW e \in Snap, NEW b, NEW c, NEW d, EntryKept(e, b, c), d.tip = c.tip,
           b = c.tip => e.view.phase = "open"
    PROVE  EntryKept(e, b, d)
<1>1. ViewPlaced(e, b, d)
  BY DEF EntryKept, ViewPlaced
<1>2. FileListed(e, b, d)
  <2>1. e.closing \in Nat
    BY DEF Snap
  <2> QED
    BY <2>1 DEF EntryKept, FileListed, RefAgrees, Used
<1> QED
  BY <1>1, <1>2 DEF EntryKept

LEMMA CopyStorageStep ==
    ASSUME IInv, CopyStorage
    PROVE  IInv'
<1> DEFINE tip == chain.tip
           e == Release(snap[tip])
           d == [chain EXCEPT !.pc = "execute", !.storage = snap[tip].file,
                              !.partial = snap[tip].partial]
           change == [c \in Block |-> IF c = tip THEN -1 ELSE 0]
<1>1. /\ chain.pc = "copy" /\ wait[Chain] = tip /\ View(tip).phase = "open"
      /\ tip < MaxHeight /\ tip \in Block /\ snap[tip] \in Snap
  BY SomeFacts, ChainNow DEF CopyStorage, At, Got, IInv, ChainPlaced
<1>2. snap[tip].file \in Seq(Block) /\ snap[tip].partial \in BOOLEAN
  BY <1>1 DEF Snap
<1>3. /\ d \in ChainRecord /\ d.pc = "execute" /\ d.tip = chain.tip /\ d.refs = chain.refs
      /\ d.pending = chain.pending
  BY <1>1, <1>2, ChainNow DEF ChainRecord
<1>4. /\ SetEntry(tip, e) /\ chain' = d /\ wait' = [wait EXCEPT ![Chain] = NoBlock]
      /\ logs' = logs /\ held' = held
  BY DEF CopyStorage
<1> HIDE DEF d
<1>5. \A c \in Block : EntryKept(snap[c], c, d)
  BY <1>1, <1>3, ChainNow, KeptOnceOpen
<1>6. /\ e \in Snap /\ EntryKept(e, tip, d) /\ e.view.users = snap[tip].view.users - 1
      /\ e.view.phase \in {"open", "none"}
  <2>1. snap[tip].view.phase = "open" /\ EntryKept(snap[tip], tip, d)
    BY <1>1, <1>5, ChainNow
  <2> HIDE DEF tip
  <2> QED
    BY <1>1, <2>1, ReleaseKept
<1> HIDE DEF e
<1>7. /\ snap' \in [Block -> Snap] /\ snap'[tip] = e
      /\ \A c \in Block : c # tip => snap'[c] = snap[c]
  BY <1>1, <1>4, <1>6, ChainNow DEF SetEntry
<1>8. ChainPlaced'
  <2>1. wait'[Chain] = NoBlock
    BY <1>4, SomeFacts DEF IInv, Types
  <2> QED
    BY <1>1, <1>3, <1>4, <2>1 DEF ChainPlaced
<1>9. \A c \in Block : EntryKept(snap'[c], c, d)
  BY <1>5, <1>6, <1>7
<1>10. change \in [Block -> Int]
  OBVIOUS
<1>11. \A c \in Block : snap'[c].view.users = View(c).users + change[c]
  <2>1. \A c \in Block : View(c).users \in Nat
    BY EntryNow DEF ViewRecord
  <2> QED
    BY <1>6, <1>7, <2>1 DEF View
<1>12. \A c \in Block :
         ChainHolds(d, c) - ChainHolds(chain, c) - Waits(wait[Chain], c) = change[c]
  BY <1>1, <1>3 DEF ChainHolds, Waits
<1>13. \A c \in Block :
         /\ View(c).phase = "broken" => snap'[c].view.phase = "broken"
         /\ View(c).phase = "open" => snap'[c].view.phase \in {"open", "none"}
  BY <1>1, <1>6, <1>7 DEF View
<1>14. \A c \in Block : ChainHas(d, c) => View(c).phase = "open"
  BY <1>1, <1>3, ChainNow DEF ChainHas
<1> HIDE DEF change
<1> QED
  BY <1>3, <1>4, <1>7, <1>8, <1>9, <1>10, <1>11, <1>12, <1>13, <1>14, ChainNow, StopStep

LEMMA AddVerifiedBlockStep ==
    ASSUME IInv, AddVerifiedBlock
    PROVE  IInv'
<1> DEFINE b == chain.tip + 1
           content == Append(chain.storage, b)
           new == CreateSnapshot(snap[b], content, chain.partial)
           created == [snap EXCEPT ![b] = new]
           s == ReleaseAll(created, chain.refs)
           d == [chain EXCEPT !.pc = "tip", !.tip = b, !.refs = {}, !.storage = NoFile,
                              !.partial = FALSE]
           change == [c \in Block |-> IF c \in chain.refs THEN -1 ELSE 0]
<1>1. /\ chain.pc = "execute" /\ wait[Chain] = NoBlock /\ chain.tip < MaxHeight
      /\ chain.tip \in Block
  BY ChainNow DEF AddVerifiedBlock, IInv, ChainPlaced
<1>2. b \in Block /\ b > chain.tip /\ b # 0
  BY <1>1, SnapshotsAssumption DEF Block
<1>3. content \in Seq(Block) /\ content # NoFile
  <2>1. chain.storage \in Seq(Block)
    BY ChainNow DEF ChainRecord
  <2> QED
    BY <1>2, <2>1 DEF NoFile
<1>4. /\ snap[b] \in Snap /\ EntryKept(snap[b], b, chain) /\ snap[b].view.phase = "none"
      /\ View(b) = snap[b].view
  BY <1>2, ChainNow DEF EntryKept, ViewPlaced
<1>5. b \notin chain.refs /\ chain.pending # b
  BY <1>2, <1>4, ChainNow DEF ChainHas
<1>6. /\ d \in ChainRecord /\ d.pc = "tip" /\ d.tip = b /\ d.refs = {}
      /\ d.pending = chain.pending
  BY <1>2, ChainNow, SomeFacts DEF ChainRecord
<1>7. GoOn(s, b, d) /\ logs' = logs \cup {b}
  BY DEF AddVerifiedBlock
<1> HIDE DEF content, d
<1>8. /\ new \in Snap /\ new.file = content /\ new.ref = 0 /\ new.view = snap[b].view
      /\ new.closing = snap[b].closing /\ new.again = (snap[b].again \/ snap[b].ref > 0)
  <2>1. chain.partial \in BOOLEAN
    BY ChainNow DEF ChainRecord
  <2> HIDE DEF b
  <2> QED
    BY <1>3, <1>4, <2>1, CreateFacts
<1> HIDE DEF new
<1>9. created \in [Block -> Snap] /\ created[b] = new
      /\ \A c \in Block : c # b => created[c] = snap[c]
  BY <1>2, <1>8, ChainNow
<1> HIDE DEF created
<1>10. \A c \in Block : s[c] = IF c \in chain.refs THEN Release(created[c]) ELSE created[c]
  BY DEF ReleaseAll
<1>11. EntryKept(new, b, d)
  <2>1. snap[b].closing \in Nat /\ snap[b].ref \in Int
    BY <1>4 DEF Snap, Unlisted
  <2>2. ViewPlaced(new, b, d)
    BY <1>4, <1>6, <1>8 DEF EntryKept, ViewPlaced, Building
  <2>3. RefAgrees(new)
    <3>1. ~new.again => ~snap[b].again /\ ~(snap[b].ref > 0)
      BY <1>8
    <3>2. Used(new) = Used(snap[b]) /\ Used(new) >= 0
      BY <1>4, <1>8, <2>1 DEF Used
    <3> QED
      BY <1>4, <1>8, <2>1, <3>1, <3>2 DEF EntryKept, RefAgrees
  <2>4. FileListed(new, b, d)
    BY <1>3, <1>4, <1>8 DEF FileListed, Building
  <2> QED
    BY <1>2, <2>2, <2>3, <2>4 DEF EntryKept
<1>12. ASSUME NEW c \in Block, c # b
       PROVE  EntryKept(snap[c], c, d)
  <2>1. EntryKept(snap[c], c, chain)
    BY ChainNow
  <2>2. c > d.tip => c > chain.tip
    <3>1. c \in Nat /\ chain.tip \in Nat
      BY ChainNow, SomeFacts
    <3> QED
      BY <1>6, <3>1
  <2>3. ViewPlaced(snap[c], c, d)
    BY <2>1, <2>2 DEF EntryKept, ViewPlaced
  <2>4. FileListed(snap[c], c, d)
    BY <1>1, <2>1 DEF EntryKept, FileListed
  <2> QED
    BY <2>1, <2>3, <2>4 DEF EntryKept
<1>13. ASSUME NEW c \in Block
       PROVE  /\ s[c] \in Snap /\ EntryKept(s[c], c, d)
              /\ s[c].view.users = View(c).users + change[c]
              /\ View(c).phase = "broken" => s[c].view.phase = "broken"
              /\ View(c).phase = "open" => s[c].view.phase \in {"open", "none"}
  <2>1. View(c).users \in Nat /\ View(c) = snap[c].view /\ snap[c] \in Snap
    BY EntryNow DEF ViewRecord
  <2>2. CASE c \in chain.refs
    <3>1. c # b /\ snap[c].view.phase = "open" /\ s[c] = Release(snap[c])
      BY <1>5, <1>9, <1>10, <2>2, ChainNow DEF ChainHas
    <3>2. /\ s[c] \in Snap /\ EntryKept(s[c], c, d)
          /\ s[c].view.users = snap[c].view.users - 1
          /\ s[c].view.phase \in {"open", "none"}
      BY <1>12, <2>1, <3>1, ReleaseKept
    <3>3. change[c] = -1
      BY <2>2
    <3> QED
      BY <2>1, <3>1, <3>2, <3>3
  <2>3. CASE c \notin chain.refs
    <3>1. s[c] = created[c] /\ change[c] = 0
      BY <1>10, <2>3
    <3>2. s[c] \in Snap /\ EntryKept(s[c], c, d) /\ s[c].view = View(c)
      BY <1>8, <1>9, <1>11, <1>12, <2>1, <3>1
    <3> QED
      BY <2>1, <3>1, <3>2
  <2> QED
    BY <2>2, <2>3
<1>14. s \in [Block -> Snap]
  BY <1>13 DEF ReleaseAll
<1>15. s[b].view.phase = "none" => View(b).phase # "open"
  BY <1>4
<1>16. chain' = d /\ wait'[Chain] = b
  BY <1>7, SomeFacts DEF GoOn, IInv, Types
<1>17. ChainPlaced'
  BY <1>6, <1>16 DEF ChainPlaced
<1>18. change \in [Block -> Int]
  OBVIOUS
<1>19. \A c \in Block :
         ChainHolds(d, c) - ChainHolds(chain, c) - Waits(wait[Chain], c) = change[c]
  BY <1>1, <1>6, SomeFacts DEF ChainHolds, Waits
<1>20. \A c \in Block : ChainHas(d, c) => View(c).phase = "open"
  BY <1>1, <1>6, ChainNow DEF ChainHas
<1>21. /\ d \in ChainRecord /\ b \in Block /\ GoOn(s, b, d)
       /\ logs' \subseteq Block /\ b <= d.tip
  BY <1>2, <1>6, <1>7, ChainNow, SomeFacts
<1>22. /\ \A c \in Block : EntryKept(s[c], c, d)
       /\ \A c \in Block : s[c].view.users = View(c).users + change[c]
       /\ \A c \in Block : View(c).phase = "broken" => s[c].view.phase = "broken"
       /\ \A c \in Block : View(c).phase = "open" => s[c].view.phase \in {"open", "none"}
  BY <1>13
<1> HIDE DEF change, s, b
<1> QED
  BY <1>14, <1>15, <1>17, <1>18, <1>19, <1>20, <1>21, <1>22, GoOnStep

LEMMA UpdatePendingStep ==
    ASSUME IInv, UpdatePending
    PROVE  IInv'
<1> DEFINE p == chain.pending
           change == [c \in Block |-> IF c = p THEN -1 ELSE 0]
<1>1. /\ chain.pc = "pending" /\ wait[Chain] = chain.tip /\ View(chain.tip).phase = "open"
      /\ chain.tip \in Block
  BY SomeFacts, ChainNow DEF UpdatePending, At, Got, IInv, ChainPlaced
<1>2. PICK pc \in {"idle", "announce"} : chain' = [chain EXCEPT !.pc = pc, !.pending = chain.tip]
  BY DEF UpdatePending
<1> DEFINE d == [chain EXCEPT !.pc = pc, !.pending = chain.tip]
<1>3. /\ d \in ChainRecord /\ d.pc = pc /\ d.tip = chain.tip /\ d.refs = chain.refs
      /\ d.pending = chain.tip
  BY <1>1, ChainNow DEF ChainRecord
<1>4. /\ chain' = d /\ wait' = [wait EXCEPT ![Chain] = NoBlock]
      /\ logs' = logs /\ held' = held
  BY <1>2 DEF UpdatePending
<1> HIDE DEF d
<1>5. \A c \in Block : EntryKept(snap[c], c, d)
  BY <1>1, <1>3, ChainNow, KeptAfter
<1>6. /\ snap' \in [Block -> Snap]
      /\ \A c \in Block : c # p => snap'[c] = snap[c]
      /\ \A c \in Block : c = p => snap'[c] = Release(snap[c])
  <2>1. CASE p = NoBlock
    BY <2>1, ChainNow, SomeFacts DEF UpdatePending
  <2>2. CASE p # NoBlock
    <3>1. p \in Block
      BY <2>2, ChainNow DEF ChainRecord
    <3>2. Release(snap[p]) \in Snap
      BY <3>1, ChainNow, ReleaseFacts
    <3> QED
      BY <2>2, <3>1, <3>2, ChainNow DEF UpdatePending, SetEntry
  <2> QED
    BY <2>1, <2>2
<1>7. ASSUME NEW c \in Block
      PROVE  /\ EntryKept(snap'[c], c, d)
             /\ snap'[c].view.users = View(c).users + change[c]
             /\ View(c).phase = "broken" => snap'[c].view.phase = "broken"
             /\ View(c).phase = "open" => snap'[c].view.phase \in {"open", "none"}
  <2>1. View(c).users \in Nat /\ View(c) = snap[c].view /\ snap[c] \in Snap
    BY EntryNow DEF ViewRecord
  <2>2. CASE c = p
    <3>1. snap[c].view.phase = "open" /\ snap'[c] = Release(snap[c])
      BY <1>6, <2>1, <2>2, ChainNow DEF ChainHas
    <3>2. /\ EntryKept(snap'[c], c, d) /\ snap'[c].view.users = snap[c].view.users - 1
          /\ snap'[c].view.phase \in {"open", "none"}
      BY <1>5, <2>1, <3>1, ReleaseKept
    <3>3. change[c] = -1
      BY <2>2
    <3> QED
      BY <2>1, <3>1, <3>2, <3>3
  <2>3. CASE c # p
    <3>1. snap'[c] = snap[c] /\ change[c] = 0
      BY <1>6, <2>3
    <3> QED
      BY <1>5, <2>1, <3>1
  <2> QED
    BY <2>2, <2>3
<1>8. ChainPlaced'
  <2>1. wait'[Chain] = NoBlock
    BY <1>4, SomeFacts DEF IInv, Types
  <2> QED
    BY <1>2, <1>3, <1>4, <2>1 DEF ChainPlaced
<1>9. change \in [Block -> Int]
  OBVIOUS
<1>10. \A c \in Block :
         ChainHolds(d, c) - ChainHolds(chain, c) - Waits(wait[Chain], c) = change[c]
  BY <1>1, <1>2, <1>3 DEF ChainHolds, Waits
<1>11. \A c \in Block : ChainHas(d, c) => View(c).phase = "open"
  BY <1>1, <1>3, ChainNow DEF ChainHas
<1>12. /\ \A c \in Block : EntryKept(snap'[c], c, d)
       /\ \A c \in Block : snap'[c].view.users = View(c).users + change[c]
       /\ \A c \in Block : View(c).phase = "broken" => snap'[c].view.phase = "broken"
       /\ \A c \in Block : View(c).phase = "open" => snap'[c].view.phase \in {"open", "none"}
  BY <1>7
<1>13. d \in ChainRecord /\ snap' \in [Block -> Snap] /\ logs' \subseteq Block
  BY <1>3, <1>4, <1>6, ChainNow
<1> HIDE DEF change
<1> QED
  BY <1>4, <1>8, <1>9, <1>10, <1>11, <1>12, <1>13, StopStep

\* Steps of the chain that leave the views alone.
LEMMA StopSame ==
    ASSUME IInv, snap' \in [Block -> Snap], NEW d \in ChainRecord, chain' = d,
           wait[Chain] \notin Block, wait' = [wait EXCEPT ![Chain] = NoBlock],
           held' = held, logs' \subseteq Block, ChainPlaced',
           \A c \in Block : EntryKept(snap'[c], c, d) /\ snap'[c].view = View(c),
           d.refs = chain.refs, d.pending = chain.pending,
           d.pc \in {"genesis", "failed"} <=> chain.pc \in {"genesis", "failed"}
    PROVE  IInv'
<1> DEFINE change == [c \in Block |-> 0]
<1>1. change \in [Block -> Int]
  OBVIOUS
<1>2. \A c \in Block : snap'[c].view.users = View(c).users + change[c]
  BY EntryNow DEF ViewRecord
<1>3. \A c \in Block :
        ChainHolds(d, c) - ChainHolds(chain, c) - Waits(wait[Chain], c) = change[c]
  BY DEF ChainHolds, Waits
<1>4. \A c \in Block : ChainHas(d, c) => View(c).phase = "open"
  BY ChainNow DEF ChainHas
<1> HIDE DEF change
<1> QED
  BY <1>1, <1>2, <1>3, <1>4, StopStep

LEMMA AnnounceTipStep ==
    ASSUME IInv, AnnounceTip
    PROVE  IInv'
<1> DEFINE d == [chain EXCEPT !.pc = "idle"]
<1>1. chain.pc = "announce" /\ wait[Chain] = NoBlock
  BY DEF AnnounceTip, IInv, ChainPlaced
<1>2. /\ d \in ChainRecord /\ d.pc = "idle" /\ d.tip = chain.tip /\ d.refs = chain.refs
      /\ d.pending = chain.pending
  BY ChainNow DEF ChainRecord
<1>3. /\ snap' = RecycleAll(snap) /\ chain' = d /\ wait' = wait /\ logs' = logs /\ held' = held
  BY DEF AnnounceTip
<1> HIDE DEF d
<1>4. ASSUME NEW c \in Block
      PROVE  snap'[c] \in Snap /\ EntryKept(snap'[c], c, d) /\ snap'[c].view = View(c)
  <2>1. c = 0 => View(c).phase = "open"
    BY <1>1, ChainNow DEF ChainHas
  <2>2. /\ Recycle(snap[c]) \in Snap /\ EntryKept(Recycle(snap[c]), c, chain)
        /\ Recycle(snap[c]).view = View(c)
    BY <1>1, <2>1, ChainNow, RecycleKept
  <2>3. snap'[c] = Recycle(snap[c])
    BY <1>3 DEF RecycleAll
  <2>4. EntryKept(snap'[c], c, d)
    BY <1>1, <1>2, <2>2, <2>3, KeptAfter
  <2> QED
    BY <2>2, <2>3, <2>4
<1>5. snap' \in [Block -> Snap]
  BY <1>3, <1>4 DEF RecycleAll
<1>6. ChainPlaced'
  BY <1>1, <1>2, <1>3 DEF ChainPlaced
<1>7. wait' = [wait EXCEPT ![Chain] = NoBlock] /\ wait[Chain] \notin Block
  BY <1>1, <1>3, SomeFacts DEF IInv, Types
<1> QED
  BY <1>1, <1>2, <1>3, <1>4, <1>5, <1>6, <1>7, ChainNow, StopSame

LEMMA ChainFailsStep ==
    ASSUME IInv, ChainFails
    PROVE  IInv'
<1> DEFINE pc == IF chain.pc = "genesis" THEN "failed" ELSE "idle"
           d == [chain EXCEPT !.pc = pc]
<1>1. wait[Chain] = Failed /\ chain.pc \notin {"idle", "execute", "announce", "failed"}
  BY SomeFacts DEF ChainFails, IInv, ChainPlaced, NoBlock, Failed
<1>2. /\ d \in ChainRecord /\ d.pc = pc /\ d.tip = chain.tip /\ d.refs = chain.refs
      /\ d.pending = chain.pending
  BY ChainNow DEF ChainRecord
<1>3. /\ chain' = d /\ wait' = [wait EXCEPT ![Chain] = NoBlock]
      /\ snap' = snap /\ logs' = logs /\ held' = held
  BY DEF ChainFails
<1> HIDE DEF d
<1>4. \A c \in Block : EntryKept(snap'[c], c, d) /\ snap'[c].view = View(c)
  BY <1>2, <1>3, ChainNow, KeptAfter
<1>5. ChainPlaced'
  <2>1. wait'[Chain] = NoBlock
    BY <1>3, SomeFacts DEF IInv, Types
  <2> QED
    BY <1>2, <1>3, <2>1 DEF ChainPlaced
<1>6. d.pc \in {"genesis", "failed"} <=> chain.pc \in {"genesis", "failed"}
  BY <1>1, <1>2
<1> QED
  BY <1>1, <1>2, <1>3, <1>4, <1>5, <1>6, ChainNow, SomeFacts, StopSame

\* The branch up to a block is a file of blocks, and never the missing file.
LEMMA PathIsBranch ==
    ASSUME NEW b \in Block
    PROVE  PathTo(b) \in Seq(Block) /\ PathTo(b) # NoFile
<1>1. \A k \in 1 .. b + 1 : k - 1 \in Block
  BY SnapshotsAssumption DEF Block
<1>2. b + 1 \in Nat /\ b + 1 # 0
  BY SnapshotsAssumption DEF Block
<1>3. \A n \in Nat : (\A k \in 1 .. n : k - 1 \in Block) =>
          [k \in 1 .. n |-> k - 1] \in Seq(Block) /\ Len([k \in 1 .. n |-> k - 1]) = n
  OBVIOUS
<1>4. PathTo(b) \in Seq(Block) /\ Len(PathTo(b)) = b + 1
  BY <1>1, <1>2, <1>3 DEF PathTo
<1>5. Len(NoFile) = 0
  BY DEF NoFile
<1> QED
  BY <1>2, <1>4, <1>5

LEMMA MineSameBlockStep ==
    ASSUME IInv, MineSameBlock
    PROVE  IInv'
<1> DEFINE tip == chain.tip
           content == PathTo(tip)
           new == CreateSnapshot(snap[tip], content, FALSE)
<1>1. chain.pc = "idle" /\ wait[Chain] = NoBlock /\ tip > 0 /\ tip \in Block
  BY ChainNow DEF MineSameBlock, IInv, ChainPlaced
<1>2. content \in Seq(Block) /\ content # NoFile
  BY <1>1, PathIsBranch
<1>3. /\ SetEntry(tip, new) /\ logs' = logs \cup {tip} /\ wait' = wait /\ held' = held
      /\ chain' = chain
  BY DEF MineSameBlock
<1>4. snap[tip] \in Snap /\ EntryKept(snap[tip], tip, chain)
  BY <1>1, ChainNow
<1> HIDE DEF content
<1>5. /\ new \in Snap /\ new.file = content /\ new.ref = 0 /\ new.view = snap[tip].view
      /\ new.closing = snap[tip].closing /\ new.again = (snap[tip].again \/ snap[tip].ref > 0)
  BY <1>2, <1>4, CreateFacts
<1> HIDE DEF new
<1>6. /\ snap' \in [Block -> Snap] /\ snap'[tip] = new
      /\ \A c \in Block : c # tip => snap'[c] = snap[c]
  BY <1>1, <1>3, <1>5, ChainNow DEF SetEntry
<1>7. EntryKept(new, tip, chain)
  <2>1. snap[tip].closing \in Nat /\ snap[tip].ref \in Int
    BY <1>4 DEF Snap, Unlisted
  <2>2. ViewPlaced(new, tip, chain)
    BY <1>4, <1>5 DEF EntryKept, ViewPlaced
  <2>3. ~new.again => ~snap[tip].again /\ ~(snap[tip].ref > 0)
    BY <1>5
  <2>4. Used(new) = Used(snap[tip]) /\ Used(new) >= 0
    BY <1>4, <1>5, <2>1 DEF Used
  <2>5. RefAgrees(new)
    BY <1>4, <1>5, <2>1, <2>3, <2>4 DEF EntryKept, RefAgrees
  <2>6. FileListed(new, tip, chain)
    BY <1>1, <1>2, <1>4, <1>5, <2>3 DEF EntryKept, FileListed
  <2> QED
    BY <1>1, <2>2, <2>5, <2>6 DEF EntryKept
<1>8. \A c \in Block : EntryKept(snap'[c], c, chain) /\ snap'[c].view = View(c)
  BY <1>5, <1>6, <1>7, ChainNow
<1>9. wait' = [wait EXCEPT ![Chain] = NoBlock] /\ wait[Chain] \notin Block
  BY <1>1, <1>3, SomeFacts DEF IInv, Types
<1>10. ChainPlaced'
  BY <1>3 DEF IInv, ChainPlaced, MorkBlock
<1>11. logs' \subseteq Block
  BY <1>1, <1>3, ChainNow
<1> QED
  BY <1>3, <1>6, <1>8, <1>9, <1>10, <1>11, ChainNow, StopSame

-----------------------------------------------------------------------------
(* The start of the process, and the theorems.                             *)

\* Every file is a snapshot, and the chain asks for the view of genesis.
Started ==
    \E listed \in [Block -> Snap], tip \in Block :
        /\ \A c \in Block :
             /\ listed[c].view = NoView /\ listed[c].closing = 0 /\ ~listed[c].again
             /\ listed[c].ref = IF listed[c].file = NoFile THEN Unlisted ELSE 0
        /\ listed[0].file # NoFile
        /\ snap = [listed EXCEPT ![0] = Acquire(listed[0], Chain, 0)]
        /\ logs \subseteq Block
        /\ wait = [u \in Task |-> IF u = Chain THEN 0 ELSE NoBlock]
        /\ held = [r \in Readers |-> NoBlock]
        /\ chain = [pc |-> "genesis", tip |-> tip, refs |-> {}, pending |-> NoBlock,
                    storage |-> NoFile, partial |-> FALSE]

LEMMA StartKeeps == Started => IInv
<1> SUFFICES ASSUME Started PROVE IInv
  OBVIOUS
<1>1. PICK listed \in [Block -> Snap], tip \in Block :
        /\ \A c \in Block :
             /\ listed[c].view = NoView /\ listed[c].closing = 0 /\ ~listed[c].again
             /\ listed[c].ref = IF listed[c].file = NoFile THEN Unlisted ELSE 0
        /\ listed[0].file # NoFile
        /\ snap = [listed EXCEPT ![0] = Acquire(listed[0], Chain, 0)]
        /\ logs \subseteq Block
        /\ wait = [u \in Task |-> IF u = Chain THEN 0 ELSE NoBlock]
        /\ held = [r \in Readers |-> NoBlock]
        /\ chain = [pc |-> "genesis", tip |-> tip, refs |-> {}, pending |-> NoBlock,
                    storage |-> NoFile, partial |-> FALSE]
  BY DEF Started
<1> DEFINE e == Acquire(listed[0], Chain, 0)
<1>2. chain \in ChainRecord /\ chain.pc = "genesis" /\ chain.tip = tip /\ chain.refs = {}
      /\ chain.pending = NoBlock
  BY <1>1, SomeFacts DEF ChainRecord
<1>3. ASSUME NEW c \in Block
      PROVE  EntryKept(listed[c], c, chain)
  <2>1. ViewPlaced(listed[c], c, chain)
    BY <1>1, NoViewFacts, SomeFacts DEF ViewPlaced, Building, NoBlock
  <2>2. RefAgrees(listed[c])
    BY <1>1, NoViewFacts DEF RefAgrees, Used, Unlisted
  <2>3. FileListed(listed[c], c, chain)
    BY <1>1, NoViewFacts DEF FileListed, Building, Unlisted
  <2>4. c = 0 => GenesisFile(listed[c])
    BY <1>1, NoViewFacts DEF GenesisFile, Building
  <2> QED
    BY <2>1, <2>2, <2>3, <2>4 DEF EntryKept
<1>4. /\ e \in Snap /\ EntryKept(e, 0, chain) /\ e.view.users = 1 /\ e.view.phase = "checking"
  <2>1. 0 \in Block /\ 0 <= chain.tip /\ chain.tip \in Block /\ listed[0] \in Snap
        /\ listed[0].view.users = 0 /\ listed[0].view.phase = "none"
    BY <1>1, <1>2, NoViewFacts, SomeFacts
  <2>2. EntryKept(listed[0], 0, chain)
    BY <1>3, <2>1
  <2> QED
    BY <2>1, <2>2, SomeFacts, AcquireKept
<1> HIDE DEF e
<1>5. snap \in [Block -> Snap] /\ snap[0] = e /\ \A c \in Block : c # 0 => snap[c] = listed[c]
  BY <1>1, <1>4, SomeFacts DEF e
<1>6. Types
  BY <1>1, <1>2, <1>5, SomeFacts DEF Types
<1>7. EntriesKept
  BY <1>3, <1>4, <1>5 DEF EntriesKept
<1>8. wait[Chain] = 0 /\ (\A r \in Readers : wait[r] = NoBlock /\ held[r] = NoBlock)
  BY <1>1, SomeFacts
<1>9. ChainPlaced /\ OneViewEach
  BY <1>2, <1>8 DEF ChainPlaced, OneViewEach
<1>10. \A c \in Block : ~Has(c)
  BY <1>2, <1>8, SomeFacts DEF Has
<1>11. ASSUME NEW c \in Block
       PROVE  View(c).users = Holds(c)
  <2>1. Holds(c) = Cardinality(Holders(c))
    <3>1. Cardinality(Holders(c)) \in Nat
      BY <1>6, HoldersFinite
    <3> QED
      BY <1>10, <3>1 DEF Holds, Has
  <2>2. CASE c = 0
    <3>1. Holders(c) = {Chain}
      BY <1>8, <2>2, SomeFacts DEF Holders, Task
    <3> QED
      BY <1>4, <1>5, <2>1, <2>2, <3>1, FS_Singleton DEF View
  <2>3. CASE c # 0
    <3>1. Holders(c) = {}
      BY <1>8, <2>3, SomeFacts DEF Holders, Task
    <3> QED
      BY <1>1, <1>5, <2>1, <2>3, <3>1, NoViewFacts, FS_EmptySet DEF View
  <2> QED
    BY <2>2, <2>3
<1> QED
  BY <1>6, <1>7, <1>9, <1>10, <1>11 DEF IInv, HeldAreOpen, CountsAgree

LEMMA InitKeeps == Init => IInv
<1> SUFFICES ASSUME Init PROVE Started
  BY StartKeeps
<1> DEFINE listed == [b \in Block |->
            [file |-> IF b = 0 THEN PathTo(0) ELSE NoFile,
             ref |-> IF b = 0 THEN 0 ELSE Unlisted, view |-> NoView, closing |-> 0,
             again |-> FALSE, partial |-> FALSE]]
<1>1. PathTo(0) \in Seq(Block) /\ PathTo(0) # NoFile
  BY PathIsBranch, SomeFacts
<1>2. listed \in [Block -> Snap]
  BY <1>1, NoViewFacts, SomeFacts DEF Snap
<1>3. /\ \A c \in Block :
           /\ listed[c].view = NoView /\ listed[c].closing = 0 /\ ~listed[c].again
           /\ listed[c].ref = IF listed[c].file = NoFile THEN Unlisted ELSE 0
      /\ listed[0].file # NoFile
  BY <1>1, SomeFacts
<1>4. /\ snap = [listed EXCEPT ![0] = Acquire(listed[0], Chain, 0)]
      /\ logs = {}
      /\ wait = [u \in Task |-> IF u = Chain THEN 0 ELSE NoBlock]
      /\ held = [r \in Readers |-> NoBlock]
      /\ chain = [pc |-> "genesis", tip |-> 0, refs |-> {}, pending |-> NoBlock,
                  storage |-> NoFile, partial |-> FALSE]
  BY DEF Init
<1> HIDE DEF listed
<1>5. logs \subseteq Block /\ 0 \in Block
  BY <1>4, SomeFacts
<1> QED
  BY <1>2, <1>3, <1>4, <1>5 DEF Started

LEMMA CrashKeeps ==
    ASSUME IInv, Crash
    PROVE  IInv'
<1> SUFFICES Started'
  BY StartKeeps, PTL
<1> DEFINE listed == [b \in Block |->
               [file |-> snap[b].file, ref |-> IF snap[b].file = NoFile THEN Unlisted ELSE 0,
                view |-> NoView, closing |-> 0, again |-> FALSE,
                partial |-> snap[b].partial \/ HalfBuilt(snap[b])]]
<1>1. \A b \in Block : /\ snap[b].file \in Seq(Block)
                         /\ (snap[b].partial \/ HalfBuilt(snap[b])) \in BOOLEAN
  BY ChainNow DEF Snap, HalfBuilt
<1>2. listed \in [Block -> Snap]
  BY <1>1, NoViewFacts DEF Snap
<1>3. snap[0].file # NoFile
  BY ChainNow, SomeFacts DEF EntryKept, GenesisFile
<1>4. /\ \A c \in Block :
           /\ listed[c].view = NoView /\ listed[c].closing = 0 /\ ~listed[c].again
           /\ listed[c].ref = IF listed[c].file = NoFile THEN Unlisted ELSE 0
      /\ listed[0].file # NoFile
  BY <1>3, SomeFacts
<1>5. /\ snap' = [listed EXCEPT ![0] = Acquire(listed[0], Chain, 0)]
      /\ logs' = logs
      /\ wait' = [u \in Task |-> IF u = Chain THEN 0 ELSE NoBlock]
      /\ held' = [r \in Readers |-> NoBlock]
      /\ chain' = [pc |-> "genesis", tip |-> chain.tip, refs |-> {}, pending |-> NoBlock,
                   storage |-> NoFile, partial |-> FALSE]
  BY DEF Crash
<1> HIDE DEF listed
<1>6. logs' \subseteq Block /\ chain.tip \in Block
  BY <1>5, ChainNow
<1> QED
  BY <1>2, <1>4, <1>5, <1>6 DEF Started

LEMMA StepKeeps == IInv /\ [Next]_vars => IInv'
<1> SUFFICES ASSUME IInv, [Next]_vars PROVE IInv'
  OBVIOUS
<1>1. CASE UNCHANGED vars
  BY <1>1 DEF vars, IInv, Types, EntriesKept, ChainPlaced, OneViewEach, HeldAreOpen,
              CountsAgree, Has, View, Holds, Holders, MorkBlock
<1>2. ASSUME NEW b \in Block, OpenSteps(b) PROVE IInv'
  BY <1>2, CheckStep, UseFileStep, WalkStep, CopyStep, RedoStep, BuiltStep, BuildFailsStep,
     InitFailsStep, OpenStep, OpenFailsStep, ClosedStep DEF OpenSteps
<1>3. ASSUME NEW r \in Readers, NEW b \in Block, Ask(r, b) PROVE IInv'
  BY <1>3, AskStep
<1>4. ASSUME NEW r \in Readers, Receive(r) \/ EndRead(r) \/ ReadFails(r) PROVE IInv'
  BY <1>4, ReceiveStep, EndReadStep, ReadFailsStep
<1>5. CASE ChainSteps
  BY <1>5, LoadGenesisStep, VerifyBlockStep, CopyStorageStep, AddVerifiedBlockStep,
     MorkViewStep, RecycleSnapshotsStep, UpdatePendingStep, AnnounceTipStep, ChainFailsStep
     DEF ChainSteps
<1>6. CASE MineSameBlock
  BY <1>6, MineSameBlockStep
<1>7. CASE Crash
  BY <1>7, CrashKeeps
<1> QED
  BY <1>1, <1>2, <1>3, <1>4, <1>5, <1>6, <1>7 DEF Next

\* In every run the invariant holds.
LEMMA Invariance == Spec => []IInv
BY InitKeeps, StepKeeps, PTL DEF Spec

\* Every record has its type whatever fails: a view that has users is one that
\* somebody asked for, and one that has none is gone (storage_manager.ts).
THEOREM TypesHold == Spec => []TypeOK
<1>1. IInv => TypeOK
  <2> SUFFICES ASSUME IInv PROVE TypeOK
    OBVIOUS
  <2>1. ASSUME NEW b \in Block
        PROVE  /\ snap[b].file \in Seq(Block) /\ snap[b].ref \in Nat \cup {Unlisted}
               /\ snap[b].closing \in Nat
               /\ snap[b].again \in BOOLEAN /\ snap[b].partial \in BOOLEAN
               /\ View(b).phase \in Phases /\ (View(b).users > 0 <=> View(b).phase # "none")
               /\ View(b).at \in Block \cup {NoBlock}
    <3>1. snap[b] \in Snap /\ View(b) \in ViewRecord /\ View(b) = snap[b].view
          /\ EntryKept(snap[b], b, chain)
      BY EntryNow
    <3>2. View(b).phase \in Phases /\ View(b).at \in Block \cup {NoBlock}
      BY <3>1 DEF ViewRecord
    <3>3. View(b).users > 0 <=> View(b).phase # "none"
      BY <3>1 DEF EntryKept, ViewPlaced
    <3> QED
      BY <3>1, <3>2, <3>3 DEF Snap
  <2>2. /\ chain.tip \in Block /\ chain.refs \subseteq Block
        /\ chain.pending \in Block \cup {NoBlock}
    BY ChainNow DEF ChainRecord
  <2> QED
    BY <2>1, <2>2 DEF TypeOK, IInv, Types
<1> QED
  BY <1>1, Invariance, PTL

\* Both counts are right at any time: the references of a snapshot are those of
\* its view and of the views being closed, and the users of a view are those
\* who have it or wait for it, so that no release comes without its acquisition
\* and none is missing, whatever fails and whenever the process restarts.
THEOREM CountsHold == Spec => []UsersCounted
<1>1. IInv => UsersCounted
  <2> SUFFICES ASSUME IInv PROVE RefsAgree /\ ViewsCounted
    BY DEF UsersCounted
  <2>1. ASSUME NEW b \in Block
        PROVE  LET used == Referenced(b) + snap[b].closing
               IN  /\ snap[b].ref <= used
                   /\ ~snap[b].again /\ used > 0 => snap[b].ref = used
    <3>1. RefAgrees(snap[b]) /\ Used(snap[b]) = Referenced(b) + snap[b].closing
      BY EntryNow DEF EntryKept, Used, Referenced, View
    <3> QED
      BY <3>1 DEF RefAgrees
  <2>2. ASSUME NEW b \in Block
        PROVE  /\ View(b).phase \notin {"none", "broken"} => View(b).users = Holds(b)
               /\ View(b).phase = "none" =>
                    {r \in Readers : held[r] = b} = {} /\ b \notin chain.refs
    BY DEF IInv, CountsAgree, HeldAreOpen, Has
  <2> QED
    BY <2>1, <2>2 DEF RefsAgree, ViewsCounted
<1> QED
  BY <1>1, Invariance, PTL

\* What somebody reads is on disk: nothing is recycled under a reader, the
\* chain or the pending transactions, unless createSnapshot had taken the
\* references of the snapshot away.
THEOREM ReadersHaveFiles == Spec => []ReadableViews
<1>1. IInv => ReadableViews
  <2> SUFFICES ASSUME IInv, NEW b \in Block, Referenced(b) = 1, ~snap[b].again
               PROVE  snap[b].file # NoFile
    BY DEF ReadableViews
  <2>1. snap[b] \in Snap /\ EntryKept(snap[b], b, chain)
    BY EntryNow
  <2>2. snap[b].closing \in Nat /\ Used(snap[b]) = 1 + snap[b].closing
    BY <2>1 DEF Snap, Used, Referenced, View
  <2>3. snap[b].ref > 0
    BY <2>1, <2>2 DEF EntryKept, RefAgrees
  <2> QED
    BY <2>1, <2>3 DEF EntryKept, FileListed
<1> QED
  BY <1>1, Invariance, PTL

-----------------------------------------------------------------------------
(* What the files hold.                                                    *)

\* What an entry's file is, and while it is built what it will be.
FileFilled(e, b) == ~e.partial =>
    IF e.view.phase = "building" THEN e.file # NoFile /\ Complete(e.file \o e.view.todo, b)
    ELSE e.file # NoFile => Complete(e.file, b)

\* The block that the chain executes is executed on the state after its parent.
StorageFilled == chain.pc = "execute" /\ ~chain.partial => Complete(chain.storage, chain.tip)

FInv == IInv /\ (\A b \in Block : FileFilled(snap[b], b)) /\ StorageFilled

LEMMA CompleteIs ==
    ASSUME NEW f \in Seq(Block), NEW b \in Block
    PROVE  Complete(f, b) <=>
             /\ \A i \in 1 .. Len(f) : f[i] \in 0 .. b
             /\ \A x \in 0 .. b : \E i \in 1 .. Len(f) : f[i] = x
             /\ \A i, j \in 1 .. Len(f) : i < j => f[i] <= f[j]
<1>1. DOMAIN f = 1 .. Len(f)
  OBVIOUS
<1> QED
  BY <1>1 DEF Complete, ToSet

\* The redo logs above a file that is complete complete it for the block.
LEMMA PathCompletes ==
    ASSUME NEW n \in Block, NEW b \in Block, n <= b, NEW f \in Seq(Block), Complete(f, n)
    PROVE  Complete(f \o BlockPath(n, b), b)
<1> DEFINE up == [k \in 1 .. b - n |-> n + k]
           p == BlockPath(n, b)
           g == f \o p
           l == Len(f)
<1>1. n \in Nat /\ b \in Nat /\ b - n \in Nat /\ l \in Nat
  BY SomeFacts
<1>2. up \in Seq(Block) /\ Len(up) = b - n /\ \A k \in 1 .. b - n : up[k] = n + k
  <2>1. \A k \in 1 .. b - n : n + k \in Block
    BY <1>1, SnapshotsAssumption DEF Block
  <2> QED
    BY <1>1, <2>1
<1>3. /\ p \in Seq(Block) /\ Len(p) = b - n + 1 /\ p[b - n + 1] = b
      /\ \A k \in 1 .. b - n : p[k] = n + k
  <2>1. <<b>> \in Seq(Block) /\ Len(<<b>>) = 1 /\ <<b>>[1] = b /\ p = up \o <<b>>
    BY DEF BlockPath
  <2> HIDE DEF up, p
  <2>2. p \in Seq(Block) /\ Len(p) = b - n + 1
    BY <1>2, <2>1, ConcatProperties
  <2>3. \A k \in 1 .. Len(p) : p[k] = IF k <= b - n THEN up[k] ELSE <<b>>[k - (b - n)]
    BY <1>2, <2>1, ConcatProperties
  <2>4. p[b - n + 1] = b
    <3>1. b - n + 1 \in 1 .. Len(p) /\ ~(b - n + 1 <= b - n) /\ (b - n + 1) - (b - n) = 1
      BY <1>1, <2>2
    <3> QED
      BY <2>1, <2>3, <3>1
  <2>5. ASSUME NEW k \in 1 .. b - n PROVE p[k] = n + k
    <3>1. k \in 1 .. Len(p) /\ k <= b - n
      BY <1>1, <2>2
    <3> QED
      BY <1>2, <2>3, <3>1
  <2> QED
    BY <2>2, <2>4, <2>5
<1> HIDE DEF up, p
<1>4. /\ g \in Seq(Block) /\ Len(g) = l + b - n + 1
      /\ \A i \in 1 .. l : g[i] = f[i]
      /\ \A k \in 1 .. b - n : g[l + k] = n + k
      /\ g[Len(g)] = b
  <2>1. g \in Seq(Block) /\ Len(g) = l + Len(p)
    BY <1>3, ConcatProperties
  <2>2. \A i \in 1 .. Len(g) : g[i] = IF i <= l THEN f[i] ELSE p[i - l]
    BY <1>3, <2>1, ConcatProperties
  <2> HIDE DEF g
  <2>3. Len(g) = l + b - n + 1
    BY <1>1, <1>3, <2>1
  <2>4. ASSUME NEW k \in 1 .. b - n + 1 PROVE g[l + k] = p[k]
    <3>1. l + k \in 1 .. Len(g) /\ ~(l + k <= l) /\ (l + k) - l = k
      BY <1>1, <2>3
    <3> QED
      BY <2>2, <3>1
  <2>5. \A i \in 1 .. l : g[i] = f[i]
    BY <1>1, <2>2, <2>3
  <2>6. ASSUME NEW k \in 1 .. b - n PROVE g[l + k] = n + k
    <3>1. k \in 1 .. b - n + 1
      BY <1>1
    <3> QED
      BY <1>3, <2>4, <3>1
  <2>7. g[Len(g)] = b
    <3>1. b - n + 1 \in 1 .. b - n + 1 /\ Len(g) = l + (b - n + 1)
      BY <1>1, <2>3
    <3> QED
      BY <1>3, <2>4, <3>1
  <2> QED
    BY <2>1, <2>3, <2>5, <2>6, <2>7
<1> HIDE DEF g, l
<1>5. /\ \A i \in 1 .. l : f[i] \in 0 .. n
      /\ \A x \in 0 .. n : \E i \in 1 .. l : f[i] = x
      /\ \A i, j \in 1 .. l : i < j => f[i] <= f[j]
  BY CompleteIs DEF l
<1>6. ASSUME NEW i \in 1 .. Len(g)
      PROVE  \/ i \in 1 .. l /\ g[i] = f[i]
             \/ i > l /\ i < Len(g) /\ g[i] = n + (i - l)
             \/ i = Len(g) /\ g[i] = b
  <2>1. CASE i \in 1 .. l
    BY <1>4, <2>1
  <2>2. CASE i > l /\ i # Len(g)
    <3>1. i - l \in 1 .. b - n /\ l + (i - l) = i
      BY <1>1, <1>4, <2>2
    <3>2. g[i] = n + (i - l)
      BY <1>4, <3>1
    <3> QED
      BY <1>1, <1>4, <2>2, <3>2
  <2>3. i \in 1 .. l \/ i > l
    BY <1>1
  <2> QED
    BY <1>4, <2>1, <2>2, <2>3
<1>7. \A i \in 1 .. Len(g) : g[i] \in 0 .. b
  <2> SUFFICES ASSUME NEW i \in 1 .. Len(g) PROVE g[i] \in 0 .. b
    OBVIOUS
  <2>1. CASE i \in 1 .. l /\ g[i] = f[i]
    <3>1. f[i] \in 0 .. n
      BY <1>5, <2>1
    <3> QED
      BY <1>1, <2>1, <3>1
  <2>2. CASE i > l /\ i < Len(g) /\ g[i] = n + (i - l)
    <3>1. i - l \in 1 .. b - n
      BY <1>1, <1>4, <2>2
    <3> QED
      BY <1>1, <2>2, <3>1
  <2>3. CASE i = Len(g) /\ g[i] = b
    BY <1>1, <2>3
  <2> QED
    BY <1>6, <2>1, <2>2, <2>3
<1>8. \A x \in 0 .. b : \E i \in 1 .. Len(g) : g[i] = x
  <2> SUFFICES ASSUME NEW x \in 0 .. b PROVE \E i \in 1 .. Len(g) : g[i] = x
    OBVIOUS
  <2>1. CASE x <= n
    <3>1. PICK i \in 1 .. l : f[i] = x
      BY <1>1, <1>5, <2>1
    <3>2. i \in 1 .. Len(g) /\ g[i] = x
      BY <1>1, <1>4, <3>1
    <3> QED
      BY <3>2
  <2>2. CASE x > n
    <3>1. x - n \in 1 .. b - n /\ l + (x - n) \in 1 .. Len(g)
      BY <1>1, <1>4, <2>2
    <3>2. g[l + (x - n)] = n + (x - n)
      BY <1>4, <3>1
    <3> QED
      BY <1>1, <3>1, <3>2
  <2> QED
    BY <1>1, <2>1, <2>2
<1>9. \A i, j \in 1 .. Len(g) : i < j => g[i] <= g[j]
  <2> SUFFICES ASSUME NEW i \in 1 .. Len(g), NEW j \in 1 .. Len(g), i < j PROVE g[i] <= g[j]
    OBVIOUS
  <2>1. CASE i \in 1 .. l /\ j \in 1 .. l
    BY <1>4, <1>5, <2>1
  <2>2. CASE i \in 1 .. l /\ j > l
    BY <1>1, <1>4, <1>5, <1>6, <2>2
  <2>3. CASE i > l
    <3>1. i < Len(g) /\ g[i] = n + (i - l)
      BY <1>1, <1>4, <1>6, <2>3
    <3>2. j > l /\ ((j < Len(g) /\ g[j] = n + (j - l)) \/ g[j] = b)
      BY <1>1, <1>4, <1>6, <2>3
    <3> QED
      BY <1>1, <1>4, <1>7, <3>1, <3>2
  <2> QED
    BY <1>1, <2>1, <2>2, <2>3
<1> QED
  <2>1. Complete(g, b)
    BY <1>4, <1>7, <1>8, <1>9, CompleteIs
  <2> QED
    BY <2>1 DEF g, p

\* So does the next block.
LEMMA NextCompletes ==
    ASSUME NEW n \in Block, n + 1 \in Block, NEW f \in Seq(Block), Complete(f, n)
    PROVE  Complete(Append(f, n + 1), n + 1)
<1> DEFINE g == Append(f, n + 1)
<1>1. n \in Nat /\ Len(f) \in Nat
  BY SomeFacts
<1>2. /\ g \in Seq(Block) /\ Len(g) = Len(f) + 1 /\ g[Len(f) + 1] = n + 1
      /\ \A i \in 1 .. Len(f) : g[i] = f[i]
  OBVIOUS
<1>3. /\ \A i \in 1 .. Len(f) : f[i] \in 0 .. n
      /\ \A x \in 0 .. n : \E i \in 1 .. Len(f) : f[i] = x
      /\ \A i, j \in 1 .. Len(f) : i < j => f[i] <= f[j]
  BY CompleteIs
<1> HIDE DEF g
<1>4. /\ \A i \in 1 .. Len(g) : g[i] \in 0 .. n + 1
      /\ \A x \in 0 .. n + 1 : \E i \in 1 .. Len(g) : g[i] = x
      /\ \A i, j \in 1 .. Len(g) : i < j => g[i] <= g[j]
  <2>0. ASSUME NEW i \in 1 .. Len(g)
        PROVE  \/ i \in 1 .. Len(f) /\ g[i] = f[i]
               \/ i = Len(g) /\ g[i] = n + 1
    <3>1. i \in 1 .. Len(f) \/ i = Len(f) + 1
      BY <1>1, <1>2
    <3> QED
      BY <1>2, <3>1
  <2>1. ASSUME NEW i \in 1 .. Len(g) PROVE g[i] \in 0 .. n + 1
    <3>1. CASE i \in 1 .. Len(f) /\ g[i] = f[i]
      <4>1. f[i] \in 0 .. n
        BY <1>3, <3>1
      <4> QED
        BY <1>1, <3>1, <4>1
    <3>2. CASE i = Len(g) /\ g[i] = n + 1
      BY <1>1, <3>2
    <3> QED
      BY <2>0, <3>1, <3>2
  <2>2. ASSUME NEW x \in 0 .. n + 1 PROVE \E i \in 1 .. Len(g) : g[i] = x
    <3>1. CASE x = n + 1
      BY <1>1, <1>2, <3>1
    <3>2. CASE x # n + 1
      <4>1. PICK i \in 1 .. Len(f) : f[i] = x
        BY <1>1, <1>3, <3>2
      <4>2. i \in 1 .. Len(g) /\ g[i] = x
        BY <1>1, <1>2, <4>1
      <4> QED
        BY <4>2
    <3> QED
      BY <3>1, <3>2
  <2>3. ASSUME NEW i \in 1 .. Len(g), NEW j \in 1 .. Len(g), i < j PROVE g[i] <= g[j]
    <3>1. i \in 1 .. Len(f) /\ g[i] = f[i]
      BY <1>1, <1>2, <2>3
    <3>2. CASE j \in 1 .. Len(f) /\ g[j] = f[j]
      BY <1>3, <2>3, <3>1, <3>2
    <3>3. CASE j = Len(g) /\ g[j] = n + 1
      <4>1. f[i] \in 0 .. n
        BY <1>3, <3>1
      <4> QED
        BY <1>1, <3>1, <3>3, <4>1
    <3> QED
      BY <2>0, <3>2, <3>3
  <2> QED
    BY <2>1, <2>2, <2>3
<1> QED
  BY <1>2, <1>4, CompleteIs DEF g

LEMMA BranchComplete ==
    ASSUME NEW b \in Block
    PROVE  Complete(PathTo(b), b)
<1> DEFINE f == PathTo(b)
<1>1. b \in Nat
  BY SomeFacts
<1>2. f \in Seq(Block) /\ Len(f) = b + 1 /\ \A i \in 1 .. b + 1 : f[i] = i - 1
  BY <1>1, PathIsBranch DEF PathTo
<1> HIDE DEF f
<1>3. \A i \in 1 .. Len(f) : f[i] \in 0 .. b
  BY <1>1, <1>2
<1>4. ASSUME NEW x \in 0 .. b PROVE \E i \in 1 .. Len(f) : f[i] = x
  <2>1. x + 1 \in 1 .. b + 1 /\ f[x + 1] = (x + 1) - 1
    BY <1>1, <1>2
  <2> QED
    BY <1>1, <1>2, <2>1
<1>5. \A i, j \in 1 .. Len(f) : i < j => f[i] <= f[j]
  BY <1>1, <1>2
<1>6. Complete(f, b)
  BY <1>2, <1>3, <1>4, <1>5, CompleteIs
<1> QED
  BY <1>6 DEF f

\* A log that is applied goes from what is to be done to what is done.
LEMMA RedoneSame ==
    ASSUME NEW f \in Seq(Block), NEW todo \in Seq(Block), todo # <<>>
    PROVE  Append(f, Head(todo)) \o Tail(todo) = f \o todo
<1> DEFINE h == <<Head(todo)>>
<1>1. Head(todo) \in Block /\ Tail(todo) \in Seq(Block) /\ h \in Seq(Block)
  BY HeadTailProperties
<1>2. Append(f, Head(todo)) = f \o h
  BY <1>1, AppendIsConcat
<1>3. todo = h \o Tail(todo)
  BY HeadTailProperties, <1>1, ConcatProperties, SeqEqual
<1> QED
  BY <1>1, <1>2, <1>3, ConcatAssociative

\* A change of an entry that leaves file and rebuild alone.
Quiet(e, f) ==
    /\ f.file = e.file /\ f.partial = e.partial
    /\ f.view.phase = "building" <=> e.view.phase = "building"
    /\ e.view.phase = "building" => f.view.todo = e.view.todo

LEMMA QuietFilled ==
    ASSUME NEW e, NEW f, NEW b, Quiet(e, f), FileFilled(e, b)
    PROVE  FileFilled(f, b)
BY DEF Quiet, FileFilled

LEMMA AcquireQuiet ==
    ASSUME NEW e \in Snap, NEW u \in Task, NEW b \in Block
    PROVE  Quiet(e, Acquire(e, u, b))
<1>0. e.view \in ViewRecord
  BY DEF Snap
<1>1. CASE e.view.phase = "none"
  <2> DEFINE v == [phase |-> "checking", users |-> 1, owner |-> u, at |-> b, todo |-> <<>>]
  <2>1. Acquire(e, u, b) = [e EXCEPT !.view = v]
    BY <1>1 DEF Acquire
  <2>2. v.phase = "checking"
    OBVIOUS
  <2> HIDE DEF v
  <2> QED
    BY <1>1, <2>1, <2>2 DEF Snap, Quiet
<1>2. CASE e.view.phase # "none"
  <2> DEFINE v == [e.view EXCEPT !.users = e.view.users + 1]
  <2>1. Acquire(e, u, b) = [e EXCEPT !.view = v]
    BY <1>2 DEF Acquire
  <2>2. v.phase = e.view.phase /\ v.todo = e.view.todo
    BY <1>0 DEF ViewRecord
  <2> HIDE DEF v
  <2> QED
    BY <2>1, <2>2 DEF Snap, Quiet
<1> QED
  BY <1>1, <1>2

\* Only an open view is given back.
LEMMA ReleaseQuiet ==
    ASSUME NEW e \in Snap, e.view.phase # "building"
    PROVE  Quiet(e, Release(e))
<1>0. e.view \in ViewRecord
  BY DEF Snap
<1>1. CASE e.view.phase = "none"
  BY <1>1 DEF Release, Quiet
<1>2. CASE e.view.phase # "none" /\ e.view.users > 1
  <2> DEFINE v == [e.view EXCEPT !.users = e.view.users - 1]
  <2>1. Release(e) = [e EXCEPT !.view = v]
    BY <1>2 DEF Release
  <2>2. v.phase = e.view.phase
    BY <1>0 DEF ViewRecord
  <2> HIDE DEF v
  <2> QED
    BY <2>1, <2>2 DEF Snap, Quiet
<1>3. CASE e.view.phase # "none" /\ ~(e.view.users > 1)
  <2> DEFINE n == e.closing + 1
  <2>1. Release(e) = [e EXCEPT !.view = NoView, !.closing = n]
    BY <1>3 DEF Release
  <2> HIDE DEF n
  <2> QED
    BY <2>1, NoViewFacts DEF Snap, Quiet
<1> QED
  BY <1>1, <1>2, <1>3

\* A file that is recycled is gone, or partial if it was being built.
LEMMA RecycleFilled ==
    ASSUME NEW e \in Snap, NEW b, FileFilled(e, b)
    PROVE  FileFilled(Recycle(e), b)
<1> DEFINE half == e.view.phase = "building"
<1>1. CASE e.ref = 0
  <2>1. Recycle(e) = [e EXCEPT !.file = NoFile, !.ref = Unlisted, !.partial = half]
    BY <1>1 DEF Recycle
  <2>2. half => e.view.phase = "building"
    OBVIOUS
  <2>3. ~half => e.view.phase # "building"
    OBVIOUS
  <2> HIDE DEF half
  <2>4. Recycle(e).file = NoFile /\ Recycle(e).partial = half /\ Recycle(e).view = e.view
    BY <2>1 DEF Snap
  <2> QED
    BY <2>2, <2>3, <2>4 DEF FileFilled
<1>2. CASE e.ref # 0
  BY <1>2 DEF Recycle
<1> QED
  BY <1>1, <1>2

\* A file that is written at once is complete, unless redo logs follow.
LEMMA CreateFilled ==
    ASSUME NEW e \in Snap, NEW content \in Seq(Block), NEW part \in BOOLEAN, NEW b \in Block,
           content # NoFile, ~part => Complete(content, b)
    PROVE  FileFilled(CreateSnapshot(e, content, part), b)
<1> DEFINE f == CreateSnapshot(e, content, part)
<1>1. f.file = content /\ f.view = e.view /\ f.partial = (part \/ HalfBuilt(e))
  BY CreateFacts
<1> HIDE DEF f
<1>2. ASSUME ~f.partial, f.view.phase = "building"
      PROVE  f.file # NoFile /\ Complete(f.file \o f.view.todo, b)
  <2>1. e.view.todo = <<>> /\ ~part
    BY <1>1, <1>2 DEF HalfBuilt
  <2>2. content \o <<>> = content
    BY ConcatEmptySeq
  <2> QED
    BY <1>1, <2>1, <2>2
<1>3. FileFilled(f, b)
  BY <1>1, <1>2 DEF FileFilled
<1> QED
  BY <1>3 DEF f

LEMMA FilledNow ==
    ASSUME FInv, NEW b \in Block
    PROVE  /\ snap[b] \in Snap /\ View(b) \in ViewRecord /\ View(b) = snap[b].view
           /\ EntryKept(snap[b], b, chain) /\ FileFilled(snap[b], b)
BY EntryNow DEF FInv

\* The entry of b changes, and the chain does not.
LEMMA FilledStep ==
    ASSUME FInv, IInv', NEW b \in Block, NEW e, SetEntry(b, e), FileFilled(e, b), chain' = chain
    PROVE  FInv'
<1>1. snap' = [snap EXCEPT ![b] = e] /\ snap \in [Block -> Snap]
  BY ChainNow DEF SetEntry, FInv
<1>2. \A c \in Block : FileFilled(snap'[c], c)
  BY <1>1 DEF FInv
<1> QED
  BY <1>2 DEF FInv, StorageFilled

\* The files stay as they are, and the storage of the chain as well, or it is not used.
LEMMA QuietStep ==
    ASSUME FInv, IInv', \A c \in Block : Quiet(snap[c], snap'[c]),
           chain' = chain \/ chain'.pc # "execute"
    PROVE  FInv'
<1>1. \A c \in Block : FileFilled(snap'[c], c)
  BY QuietFilled DEF FInv
<1> QED
  BY <1>1 DEF FInv, StorageFilled

\* What one entry's step must show.
LEMMA EntryQuiet ==
    ASSUME FInv, IInv', NEW b \in Block, NEW e, SetEntry(b, e), Quiet(snap[b], e), chain' = chain
    PROVE  FInv'
<1>1. FileFilled(e, b)
  BY FilledNow, QuietFilled
<1> QED
  BY <1>1, FilledStep

\* Before and after it was built a view may go on as it likes.
LEMMA ViewQuiet ==
    ASSUME FInv, IInv', NEW b \in Block, NEW v, SetView(b, v), chain' = chain,
           View(b).phase # "building", v.phase # "building"
    PROVE  FInv'
<1> DEFINE e == [snap[b] EXCEPT !.view = v]
<1>1. e.file = snap[b].file /\ e.partial = snap[b].partial /\ e.view = v
  BY FilledNow DEF Snap
<1>2. SetEntry(b, e)
  BY DEF SetView
<1> HIDE DEF e
<1>3. Quiet(snap[b], e)
  BY <1>1, FilledNow DEF Quiet
<1> QED
  BY <1>2, <1>3, EntryQuiet

LEMMA BreaksFilled ==
    ASSUME FInv, IInv', NEW b \in Block, View(b).phase # "building", Breaks(b), chain' = chain
    PROVE  FInv'
<1> DEFINE v == [View(b) EXCEPT !.phase = "broken"]
<1>1. v.phase = "broken"
  BY FilledNow DEF ViewRecord
<1>2. SetView(b, v)
  BY DEF Breaks
<1> HIDE DEF v
<1> QED
  BY <1>1, <1>2, ViewQuiet

LEMMA CheckFilled ==
    ASSUME FInv, IInv', NEW b \in Block, Check(b)
    PROVE  FInv'
<1> DEFINE v == [View(b) EXCEPT !.phase = IF snap[b].file # NoFile THEN "exists" ELSE "walking"]
<1>1. v.phase \in {"exists", "walking"}
  BY FilledNow DEF ViewRecord
<1>2. SetView(b, v) /\ chain' = chain /\ View(b).phase = "checking"
  BY DEF Check
<1> HIDE DEF v
<1> QED
  BY <1>1, <1>2, ViewQuiet

LEMMA UseFileFilled ==
    ASSUME FInv, IInv', NEW b \in Block, UseFile(b)
    PROVE  FInv'
<1>1. View(b).phase = "exists" /\ chain' = chain
  BY DEF UseFile
<1>2. CASE snap[b].ref = Unlisted
  BY <1>1, <1>2, BreaksFilled DEF UseFile
<1>3. CASE snap[b].ref # Unlisted
  <2> DEFINE v == [View(b) EXCEPT !.phase = "opening"]
             e == [snap[b] EXCEPT !.ref = snap[b].ref + 1, !.view = v]
  <2>1. SetEntry(b, e)
    BY <1>3, FilledNow DEF UseFile
  <2>2. v.phase = "opening"
    BY FilledNow DEF ViewRecord
  <2> HIDE DEF v
  <2>3. e.file = snap[b].file /\ e.partial = snap[b].partial /\ e.view = v
    BY FilledNow DEF Snap
  <2> HIDE DEF e
  <2>4. Quiet(snap[b], e)
    BY <1>1, <2>2, <2>3, FilledNow DEF Quiet
  <2> QED
    BY <1>1, <2>1, <2>4, EntryQuiet
<1> QED
  BY <1>2, <1>3

LEMMA WalkFilled ==
    ASSUME FInv, IInv', NEW b \in Block, Walk(b)
    PROVE  FInv'
<1> DEFINE v == IF snap[View(b).at].file # NoFile THEN [View(b) EXCEPT !.phase = "found"]
                ELSE [View(b) EXCEPT !.at = View(b).at - 1]
<1>1. SetView(b, v) /\ chain' = chain /\ View(b).phase = "walking"
  BY DEF Walk
<1>2. v.phase \in {"found", "walking"}
  BY <1>1, FilledNow DEF ViewRecord
<1> HIDE DEF v
<1> QED
  BY <1>1, <1>2, ViewQuiet

\* The nearest snapshot is that of the block it is found at, and is complete if none of its
\* redo logs is left; the rest is in the logs above it.
LEMMA CopyFilled ==
    ASSUME FInv, IInv', NEW b \in Block, Copy(b)
    PROVE  FInv'
<1> DEFINE n == View(b).at
           todo == BlockPath(n, b)
           file == snap[n].file
           part == snap[n].partial \/ HalfBuilt(snap[n])
           v == [View(b) EXCEPT !.phase = "building", !.todo = todo]
           e == [snap[b] EXCEPT !.file = file, !.partial = part, !.view = v]
<1>1. View(b).phase = "found" /\ chain' = chain
  BY DEF Copy
<1>2. n \in Block /\ n <= b
  <2>1. n \in Block \cup {NoBlock} /\ n >= 0 /\ n <= b
    BY <1>1, FilledNow DEF ViewRecord, EntryKept, ViewPlaced, Building
  <2> QED
    BY <2>1 DEF NoBlock
<1>3. CASE file = NoFile
  BY <1>1, <1>3, BreaksFilled DEF Copy
<1>4. CASE file # NoFile
  <2>1. SetEntry(b, e)
    BY <1>4 DEF Copy
  <2>2. file \in Seq(Block) /\ snap[n].view.todo \in Seq(Block)
    BY <1>2, FilledNow DEF Snap, ViewRecord
  <2>3. ASSUME ~part PROVE Complete(file, n)
    <3>1. ~snap[n].partial /\ (snap[n].view.phase = "building" => snap[n].view.todo = <<>>)
      BY <2>3 DEF HalfBuilt
    <3>2. file \o <<>> = file
      BY <2>2, ConcatEmptySeq
    <3>3. FileFilled(snap[n], n)
      BY <1>2, FilledNow
    <3> QED
      BY <1>4, <3>1, <3>2, <3>3 DEF FileFilled
  <2>4. ~part => Complete(file \o todo, b)
    BY <1>2, <2>2, <2>3, PathCompletes
  <2> HIDE DEF todo, file, part
  <2>5. v.phase = "building" /\ v.todo = todo
    BY FilledNow DEF ViewRecord
  <2> HIDE DEF v
  <2>6. e.file = file /\ e.partial = part /\ e.view = v
    BY FilledNow DEF Snap
  <2> HIDE DEF e
  <2>7. FileFilled(e, b)
    BY <1>4, <2>4, <2>5, <2>6 DEF FileFilled
  <2> QED
    BY <1>1, <2>1, <2>7, FilledStep
<1> QED
  BY <1>3, <1>4

LEMMA RedoFilled ==
    ASSUME FInv, IInv', NEW b \in Block, Redo(b)
    PROVE  FInv'
<1> DEFINE old == View(b).todo
           todo == Tail(old)
           file == Append(snap[b].file, Head(old))
           v == [View(b) EXCEPT !.todo = todo]
           e == [snap[b] EXCEPT !.file = file, !.view = v]
<1>1. View(b).phase = "building" /\ old # <<>> /\ chain' = chain
  BY DEF Redo
<1>2. SetEntry(b, e)
  BY FilledNow DEF Redo
<1>3. old \in Seq(Block) /\ snap[b].file \in Seq(Block)
  BY FilledNow DEF Snap, ViewRecord
<1>4. file \o todo = snap[b].file \o old
  BY <1>1, <1>3, RedoneSame
<1>5. file # NoFile
  BY <1>1, <1>3, HeadTailProperties, AppendProperties DEF NoFile
<1> HIDE DEF todo, file
<1>6. v.phase = "building" /\ v.todo = todo
  BY <1>1, FilledNow DEF ViewRecord
<1> HIDE DEF v
<1>7. e.file = file /\ e.partial = snap[b].partial /\ e.view = v
  BY FilledNow DEF Snap
<1> HIDE DEF e
<1>8. FileFilled(e, b)
  BY <1>1, <1>4, <1>5, <1>6, <1>7, FilledNow DEF FileFilled
<1> QED
  BY <1>1, <1>2, <1>8, FilledStep

LEMMA BuiltFilled ==
    ASSUME FInv, IInv', NEW b \in Block, Built(b)
    PROVE  FInv'
<1> DEFINE v == [View(b) EXCEPT !.phase = "opening"]
           e == [snap[b] EXCEPT !.ref = 1, !.view = v]
<1>1. View(b).phase = "building" /\ View(b).todo = <<>> /\ chain' = chain
  BY DEF Built
<1>2. SetEntry(b, e)
  BY FilledNow DEF Built
<1>3. v.phase = "opening"
  BY FilledNow DEF ViewRecord
<1> HIDE DEF v
<1>4. e.file = snap[b].file /\ e.partial = snap[b].partial /\ e.view = v
  BY FilledNow DEF Snap
<1>5. snap[b].file \o <<>> = snap[b].file
  BY FilledNow, ConcatEmptySeq DEF Snap
<1> HIDE DEF e
<1>6. FileFilled(e, b)
  BY <1>1, <1>3, <1>4, <1>5, FilledNow DEF FileFilled
<1> QED
  BY <1>1, <1>2, <1>6, FilledStep

LEMMA FailsFilled ==
    ASSUME FInv, IInv', NEW b \in Block, BuildFails(b) \/ InitFails(b)
    PROVE  FInv'
<1>1. CASE BuildFails(b)
  <2> DEFINE e == [snap[b] EXCEPT !.file = NoFile, !.view = NoView, !.partial = FALSE]
  <2>1. SetEntry(b, e) /\ chain' = chain
    BY <1>1 DEF BuildFails
  <2>2. e.file = NoFile /\ e.view = NoView
    BY FilledNow DEF Snap
  <2> HIDE DEF e
  <2>3. FileFilled(e, b)
    BY <2>2, NoViewFacts DEF FileFilled
  <2> QED
    BY <2>1, <2>3, FilledStep
<1>2. CASE InitFails(b)
  <2> DEFINE e == [snap[b] EXCEPT !.view = NoView, !.partial = TRUE]
  <2>1. SetEntry(b, e) /\ chain' = chain
    BY <1>2 DEF InitFails
  <2>2. e.partial
    BY FilledNow DEF Snap
  <2> HIDE DEF e
  <2>3. FileFilled(e, b)
    BY <2>2 DEF FileFilled
  <2> QED
    BY <2>1, <2>3, FilledStep
<1> QED
  BY <1>1, <1>2

LEMMA OpenFilled ==
    ASSUME FInv, IInv', NEW b \in Block, Open(b)
    PROVE  FInv'
<1> DEFINE v == [View(b) EXCEPT !.phase = "open"]
<1>1. SetView(b, v) /\ chain' = chain /\ View(b).phase = "opening"
  BY DEF Open
<1>2. v.phase = "open"
  BY FilledNow DEF ViewRecord
<1> HIDE DEF v
<1> QED
  BY <1>1, <1>2, ViewQuiet

LEMMA UnreferenceFacts ==
    ASSUME NEW e \in Snap
    PROVE  /\ Unreference(e) \in Snap /\ Unreference(e).file = e.file
           /\ Unreference(e).view = e.view /\ Unreference(e).partial = e.partial
<1> DEFINE n == IF e.ref > 0 THEN e.ref - 1 ELSE e.ref
<1>1. Unreference(e) = [e EXCEPT !.ref = n]
  BY DEF Unreference
<1> HIDE DEF n
<1>2. Unreference(e).file = e.file /\ Unreference(e).view = e.view /\ Unreference(e).partial = e.partial
  BY <1>1 DEF Snap
<1> QED
  BY <1>2, OtherFacts

LEMMA CloseFilled ==
    ASSUME FInv, IInv', NEW b \in Block, OpenFails(b) \/ Closed(b)
    PROVE  FInv'
<1> DEFINE f == Unreference(snap[b])
<1>1. f \in Snap /\ f.file = snap[b].file /\ f.view = snap[b].view /\ f.partial = snap[b].partial
  BY FilledNow, UnreferenceFacts
<1> HIDE DEF f
<1>2. CASE OpenFails(b)
  <2> DEFINE e == [f EXCEPT !.view = NoView]
  <2>1. SetEntry(b, e) /\ chain' = chain /\ View(b).phase = "opening"
    BY <1>2 DEF OpenFails, f
  <2>2. e.file = snap[b].file /\ e.partial = snap[b].partial /\ e.view = NoView
    BY <1>1 DEF Snap
  <2> HIDE DEF e
  <2>3. Quiet(snap[b], e)
    BY <2>1, <2>2, FilledNow, NoViewFacts DEF Quiet
  <2> QED
    BY <2>1, <2>3, EntryQuiet
<1>3. CASE Closed(b)
  <2> DEFINE m == f.closing - 1
             e == [f EXCEPT !.closing = m]
  <2>1. SetEntry(b, e) /\ chain' = chain
    BY <1>3 DEF Closed, f
  <2> HIDE DEF m
  <2>2. e.file = snap[b].file /\ e.partial = snap[b].partial /\ e.view = snap[b].view
    BY <1>1 DEF Snap
  <2> HIDE DEF e
  <2>3. Quiet(snap[b], e)
    BY <2>2 DEF Quiet
  <2> QED
    BY <2>1, <2>3, EntryQuiet
<1> QED
  BY <1>2, <1>3

\* What is held is open, and is given back open.
LEMMA HeldFilled ==
    ASSUME FInv, NEW b \in Block, Has(b)
    PROVE  Quiet(snap[b], Release(snap[b]))
<1>1. snap[b].view.phase = "open" /\ snap[b] \in Snap
  BY FilledNow DEF FInv, IInv, HeldAreOpen
<1> QED
  BY <1>1, ReleaseQuiet

LEMMA ReaderFilled ==
    ASSUME FInv, IInv', NEW r \in Readers,
           \/ \E b \in Block : Ask(r, b)
           \/ Receive(r) \/ EndRead(r) \/ ReadFails(r)
    PROVE  FInv'
<1>1. ASSUME NEW b \in Block, Ask(r, b) PROVE FInv'
  <2>1. SetEntry(b, Acquire(snap[b], r, b)) /\ chain' = chain
    BY <1>1 DEF Ask
  <2>2. Quiet(snap[b], Acquire(snap[b], r, b))
    BY FilledNow, AcquireQuiet, SomeFacts
  <2> QED
    BY <2>1, <2>2, EntryQuiet
<1>2. CASE EndRead(r)
  <2> DEFINE b == held[r]
  <2>1. b \in Block
    BY <1>2, SomeFacts DEF EndRead, FInv, IInv, Types
  <2>2. Quiet(snap[b], Release(snap[b]))
    BY <2>1, HeldFilled DEF Has
  <2>3. SetEntry(b, Release(snap[b])) /\ chain' = chain
    BY <1>2 DEF EndRead
  <2> QED
    BY <2>1, <2>2, <2>3, EntryQuiet
<1>3. CASE Receive(r) \/ ReadFails(r)
  <2>1. snap' = snap /\ chain' = chain
    BY <1>3 DEF Receive, ReadFails
  <2> QED
    BY <2>1, QuietStep DEF Quiet
<1> QED
  BY <1>1, <1>2, <1>3

\* The chain asks for a view and goes on; it executes nothing meanwhile.
LEMMA GoOnFilled ==
    ASSUME FInv, IInv', NEW s, NEW b \in Block, NEW d, GoOn(s, b, d), d.pc # "execute",
           \A c \in Block : s[c] \in Snap /\ FileFilled(s[c], c), s \in [Block -> Snap]
    PROVE  FInv'
<1>1. snap' = [s EXCEPT ![b] = Acquire(s[b], Chain, b)] /\ chain' = d
  BY DEF GoOn
<1>2. FileFilled(Acquire(s[b], Chain, b), b)
  BY AcquireQuiet, QuietFilled, SomeFacts
<1>3. \A c \in Block : FileFilled(snap'[c], c)
  BY <1>1, <1>2
<1> QED
  BY <1>1, <1>3 DEF FInv, StorageFilled

LEMMA ViewsAsked ==
    ASSUME FInv, IInv', LoadGenesis \/ VerifyBlock \/ MorkView
    PROVE  FInv'
<1>1. /\ snap \in [Block -> Snap] /\ chain.tip \in Block /\ MorkBlock \in Block
      /\ chain \in ChainRecord
  BY ChainNow, MorkFacts DEF FInv
<1>2. \A c \in Block : snap[c] \in Snap /\ FileFilled(snap[c], c)
  BY FilledNow
<1>3. CASE LoadGenesis
  <2> DEFINE d == [chain EXCEPT !.pc = "tip"]
  <2>1. GoOn(snap, chain.tip, d) /\ d.pc = "tip"
    BY <1>1, <1>3 DEF LoadGenesis, ChainRecord
  <2> HIDE DEF d
  <2> QED
    BY <1>1, <1>2, <2>1, GoOnFilled
<1>4. CASE VerifyBlock
  <2> DEFINE d == [chain EXCEPT !.pc = "copy"]
  <2>1. GoOn(snap, chain.tip, d) /\ d.pc = "copy"
    BY <1>1, <1>4 DEF VerifyBlock, ChainRecord
  <2> HIDE DEF d
  <2> QED
    BY <1>1, <1>2, <2>1, GoOnFilled
<1>5. CASE MorkView
  <2> DEFINE d == [chain EXCEPT !.pc = "mork", !.refs = {chain.tip}]
  <2>1. GoOn(snap, MorkBlock, d) /\ d.pc = "mork"
    BY <1>1, <1>5 DEF MorkView, ChainRecord
  <2> HIDE DEF d
  <2> QED
    BY <1>1, <1>2, <2>1, GoOnFilled
<1> QED
  BY <1>3, <1>4, <1>5

LEMMA CopyStorageFilled ==
    ASSUME FInv, IInv', CopyStorage
    PROVE  FInv'
<1> DEFINE tip == chain.tip
           d == [chain EXCEPT !.pc = "execute", !.storage = snap[tip].file,
                              !.partial = snap[tip].partial]
<1>1. tip \in Block /\ chain \in ChainRecord
  BY ChainNow DEF FInv
<1>2. View(tip).phase = "open" /\ snap[tip].file # NoFile
  BY SomeFacts DEF CopyStorage, At, Got, FInv, IInv, ChainPlaced
<1>3. /\ d.pc = "execute" /\ d.tip = tip /\ d.storage = snap[tip].file
      /\ d.partial = snap[tip].partial
  BY <1>1 DEF ChainRecord
<1>4. SetEntry(tip, Release(snap[tip])) /\ chain' = d
  BY DEF CopyStorage
<1> HIDE DEF d
<1>5. Quiet(snap[tip], Release(snap[tip]))
  BY <1>1, <1>2, FilledNow, ReleaseQuiet
<1>6. snap' = [snap EXCEPT ![tip] = Release(snap[tip])] /\ snap \in [Block -> Snap]
  BY <1>4, ChainNow DEF SetEntry, FInv
<1>7. \A c \in Block : FileFilled(snap'[c], c)
  BY <1>1, <1>5, <1>6, FilledNow, QuietFilled
<1>8. ~snap[tip].partial => Complete(snap[tip].file, tip)
  BY <1>1, <1>2, FilledNow DEF FileFilled
<1> QED
  BY <1>3, <1>4, <1>7, <1>8 DEF FInv, StorageFilled

\* The new snapshot is what the block made of that of its parent.
LEMMA AddVerifiedBlockFilled ==
    ASSUME FInv, IInv', AddVerifiedBlock
    PROVE  FInv'
<1> DEFINE b == chain.tip + 1
           content == Append(chain.storage, b)
           new == CreateSnapshot(snap[b], content, chain.partial)
           created == [snap EXCEPT ![b] = new]
           s == ReleaseAll(created, chain.refs)
           d == [chain EXCEPT !.pc = "tip", !.tip = b, !.refs = {}, !.storage = NoFile,
                              !.partial = FALSE]
<1>1. /\ chain.pc = "execute" /\ chain.tip < MaxHeight /\ chain.tip \in Block
      /\ chain \in ChainRecord /\ snap \in [Block -> Snap]
  BY ChainNow DEF AddVerifiedBlock, FInv, IInv, ChainPlaced
<1>2. b \in Block /\ b > chain.tip
  BY <1>1, SnapshotsAssumption DEF Block
<1>3. chain.storage \in Seq(Block) /\ chain.partial \in BOOLEAN
  BY <1>1 DEF ChainRecord
<1>4. content \in Seq(Block) /\ content # NoFile
  BY <1>2, <1>3, AppendProperties DEF NoFile
<1>5. ~chain.partial => Complete(content, b)
  BY <1>1, <1>2, <1>3, NextCompletes DEF FInv, StorageFilled
<1>6. GoOn(s, b, d) /\ d.pc = "tip"
  BY <1>1 DEF AddVerifiedBlock, ChainRecord
<1>7. b \notin chain.refs
  BY <1>2, ChainNow DEF FInv, EntryKept, ViewPlaced, ChainHas
<1> HIDE DEF b, content, d
<1>8. new \in Snap /\ FileFilled(new, b)
  BY <1>2, <1>3, <1>4, <1>5, FilledNow, CreateFacts, CreateFilled
<1> HIDE DEF new
<1>9. \A c \in Block : created[c] = IF c = b THEN new ELSE snap[c]
  BY <1>1
<1>10. s = [c \in Block |-> IF c \in chain.refs THEN Release(created[c]) ELSE created[c]]
  BY DEF ReleaseAll
<1> HIDE DEF created, s
<1>11. ASSUME NEW c \in Block
       PROVE  s[c] \in Snap /\ FileFilled(s[c], c)
  <2>1. CASE c \in chain.refs
    <3>1. s[c] = Release(snap[c])
      BY <1>7, <1>9, <1>10, <2>1
    <3>2. Quiet(snap[c], Release(snap[c]))
      BY <2>1, HeldFilled DEF Has
    <3> QED
      BY <3>1, <3>2, FilledNow, QuietFilled, ReleaseFacts
  <2>2. CASE c \notin chain.refs
    BY <1>8, <1>9, <1>10, <2>2, FilledNow
  <2> QED
    BY <2>1, <2>2
<1>12. s \in [Block -> Snap]
  BY <1>10, <1>11
<1> QED
  BY <1>2, <1>6, <1>11, <1>12, GoOnFilled

LEMMA RecycledFilled ==
    ASSUME FInv
    PROVE  /\ RecycleAll(snap) \in [Block -> Snap]
           /\ \A c \in Block : RecycleAll(snap)[c] \in Snap /\ FileFilled(RecycleAll(snap)[c], c)
<1>1. \A c \in Block : Recycle(snap[c]) \in Snap /\ FileFilled(Recycle(snap[c]), c)
  BY FilledNow, OtherFacts, RecycleFilled
<1> QED
  BY <1>1 DEF RecycleAll

LEMMA RecycleSnapshotsFilled ==
    ASSUME FInv, IInv', RecycleSnapshots \/ AnnounceTip
    PROVE  FInv'
<1>1. chain.tip \in Block /\ chain \in ChainRecord
  BY ChainNow DEF FInv
<1>2. CASE RecycleSnapshots
  <2> DEFINE refs == chain.refs \cup {wait[Chain]}
             d == [chain EXCEPT !.pc = "pending", !.refs = refs]
  <2>1. GoOn(RecycleAll(snap), chain.tip, d)
    BY <1>1, <1>2 DEF RecycleSnapshots, ChainRecord
  <2> HIDE DEF refs
  <2>2. d.pc = "pending"
    BY <1>1 DEF ChainRecord
  <2> HIDE DEF d
  <2> QED
    BY <1>1, <2>1, <2>2, RecycledFilled, GoOnFilled
<1>3. CASE AnnounceTip
  <2>1. snap' = RecycleAll(snap) /\ chain' = [chain EXCEPT !.pc = "idle"]
    BY <1>3 DEF AnnounceTip
  <2>2. chain'.pc = "idle"
    BY <1>1, <2>1 DEF ChainRecord
  <2> QED
    BY <2>1, <2>2, RecycledFilled DEF FInv, StorageFilled
<1> QED
  BY <1>2, <1>3

LEMMA ChainEnds ==
    ASSUME FInv, IInv', UpdatePending \/ ChainFails
    PROVE  FInv'
<1>1. chain \in ChainRecord /\ snap \in [Block -> Snap]
  BY ChainNow DEF FInv
<1>2. CASE UpdatePending
  <2>1. chain'.pc \in {"idle", "announce"}
    BY <1>1, <1>2 DEF UpdatePending, ChainRecord
  <2>2. CASE chain.pending = NoBlock
    <3>1. snap' = snap
      BY <1>2, <2>2 DEF UpdatePending
    <3> QED
      BY <2>1, <3>1, QuietStep DEF Quiet
  <2>3. CASE chain.pending # NoBlock
    <3> DEFINE p == chain.pending
    <3>1. p \in Block
      BY <1>1, <2>3 DEF ChainRecord
    <3>2. snap' = [snap EXCEPT ![p] = Release(snap[p])]
      BY <1>2, <2>3 DEF UpdatePending, SetEntry
    <3>3. Quiet(snap[p], Release(snap[p]))
      BY <3>1, HeldFilled DEF Has
    <3>4. \A c \in Block : Quiet(snap[c], snap'[c])
      BY <1>1, <3>2, <3>3 DEF Quiet
    <3> QED
      BY <2>1, <3>4, QuietStep
  <2> QED
    BY <2>2, <2>3
<1>3. CASE ChainFails
  <2>1. snap' = snap /\ chain'.pc \in {"failed", "idle"}
    BY <1>1, <1>3 DEF ChainFails, ChainRecord
  <2> QED
    BY <2>1, QuietStep DEF Quiet
<1> QED
  BY <1>2, <1>3

LEMMA MineSameBlockFilled ==
    ASSUME FInv, IInv', MineSameBlock
    PROVE  FInv'
<1> DEFINE tip == chain.tip
           content == PathTo(tip)
<1>1. tip \in Block
  BY ChainNow DEF FInv
<1>2. content \in Seq(Block) /\ content # NoFile /\ Complete(content, tip)
  BY <1>1, PathIsBranch, BranchComplete
<1>3. SetEntry(tip, CreateSnapshot(snap[tip], content, FALSE)) /\ chain' = chain
  BY DEF MineSameBlock
<1> HIDE DEF tip, content
<1>4. FileFilled(CreateSnapshot(snap[tip], content, FALSE), tip)
  BY <1>1, <1>2, FilledNow, CreateFilled
<1> QED
  BY <1>1, <1>3, <1>4, FilledStep

\* A restart knows nothing of a rebuild: what is left of it is partial.
LEMMA CrashFilled ==
    ASSUME FInv, IInv', Crash
    PROVE  FInv'
<1> DEFINE part(b) == snap[b].partial \/ HalfBuilt(snap[b])
           listed == [b \in Block |->
               [file |-> snap[b].file, ref |-> IF snap[b].file = NoFile THEN Unlisted ELSE 0,
                view |-> NoView, closing |-> 0, again |-> FALSE, partial |-> part(b)]]
<1>1. /\ snap' = [listed EXCEPT ![0] = Acquire(listed[0], Chain, 0)]
      /\ chain'.pc = "genesis"
  BY DEF Crash
<1>2. ASSUME NEW b \in Block
      PROVE  listed[b] \in Snap /\ FileFilled(listed[b], b)
  <2> DEFINE e == listed[b]
  <2>1. /\ snap[b] \in Snap /\ snap[b].file \in Seq(Block) /\ part(b) \in BOOLEAN
        /\ FileFilled(snap[b], b)
    BY FilledNow DEF Snap, HalfBuilt
  <2> HIDE DEF part
  <2>2. e.file = snap[b].file /\ e.view = NoView /\ e.partial = part(b)
    OBVIOUS
  <2>3. e \in Snap
    BY <2>1, NoViewFacts DEF Snap
  <2> HIDE DEF listed
  <2>4. snap[b].file \o <<>> = snap[b].file
    BY <2>1, ConcatEmptySeq
  <2>5. FileFilled(e, b)
    BY <2>1, <2>2, <2>4, NoViewFacts DEF FileFilled, HalfBuilt, part
  <2> QED
    BY <2>3, <2>5
<1>3. listed = [b \in Block |-> listed[b]]
  OBVIOUS
<1> HIDE DEF listed
<1>4. FileFilled(Acquire(listed[0], Chain, 0), 0)
  BY <1>2, SomeFacts, AcquireQuiet, QuietFilled
<1>5. \A c \in Block : FileFilled(snap'[c], c)
  BY <1>1, <1>2, <1>3, <1>4
<1> QED
  BY <1>1, <1>5 DEF FInv, StorageFilled

LEMMA InitFilled == Init => FInv
<1> SUFFICES ASSUME Init PROVE FInv
  OBVIOUS
<1> DEFINE listed == [b \in Block |->
            [file |-> IF b = 0 THEN PathTo(0) ELSE NoFile,
             ref |-> IF b = 0 THEN 0 ELSE Unlisted, view |-> NoView, closing |-> 0,
             again |-> FALSE, partial |-> FALSE]]
<1>1. snap = [listed EXCEPT ![0] = Acquire(listed[0], Chain, 0)] /\ chain.pc = "genesis"
  BY DEF Init
<1>2. \A b \in Block : /\ listed[b].view = NoView /\ ~listed[b].partial
                       /\ listed[b].file = IF b = 0 THEN PathTo(0) ELSE NoFile
  OBVIOUS
<1>3. listed[0] \in Snap
  BY NoViewFacts, PathIsBranch, SomeFacts DEF Snap
<1>4. listed = [b \in Block |-> listed[b]]
  OBVIOUS
<1> HIDE DEF listed
<1>5. \A b \in Block : FileFilled(listed[b], b)
  BY <1>2, NoViewFacts, BranchComplete DEF FileFilled
<1>6. FileFilled(Acquire(listed[0], Chain, 0), 0)
  BY <1>3, <1>5, SomeFacts, AcquireQuiet, QuietFilled
<1>7. \A c \in Block : FileFilled(snap[c], c)
  BY <1>1, <1>4, <1>5, <1>6
<1> QED
  BY <1>1, <1>7, InitKeeps DEF FInv, StorageFilled

LEMMA StepFilled == FInv /\ [Next]_vars => FInv'
<1> SUFFICES ASSUME FInv, [Next]_vars PROVE FInv'
  OBVIOUS
<1>1. IInv'
  BY StepKeeps DEF FInv
<1>2. CASE UNCHANGED vars
  BY <1>1, <1>2, QuietStep DEF vars, Quiet
<1>3. ASSUME NEW b \in Block, OpenSteps(b) PROVE FInv'
  BY <1>1, <1>3, CheckFilled, UseFileFilled, WalkFilled, CopyFilled, RedoFilled, BuiltFilled,
     FailsFilled, OpenFilled, CloseFilled DEF OpenSteps
<1>4. ASSUME NEW r \in Readers,
             \/ \E b \in Block : Ask(r, b)
             \/ Receive(r) \/ EndRead(r) \/ ReadFails(r)
      PROVE  FInv'
  BY <1>1, <1>4, ReaderFilled
<1>5. CASE ChainSteps
  BY <1>1, <1>5, ViewsAsked, CopyStorageFilled, AddVerifiedBlockFilled, RecycleSnapshotsFilled,
     ChainEnds DEF ChainSteps
<1>6. CASE MineSameBlock \/ Crash
  BY <1>1, <1>6, MineSameBlockFilled, CrashFilled
<1> QED
  BY <1>2, <1>3, <1>4, <1>5, <1>6 DEF Next

\* An open view has the effects of every block up to its own in their order, whether its file
\* was written after the block, copied and redone (getSnapshot), rebuilt more than once or made
\* again by the miner; only a file that goes back to an unfinished rebuild may lack some.
THEOREM ViewsComplete == Spec => []ViewComplete
<1>1. FInv => ViewComplete
  BY FilledNow DEF ViewComplete, FileFilled
<1> QED
  BY <1>1, InitFilled, StepFilled, PTL DEF Spec
=============================================================================
