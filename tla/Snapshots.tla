----------------------------- MODULE Snapshots -----------------------------
(***************************************************************************)
(* Snapshots of the state after each block: storage/storage_manager.ts     *)
(* with its views, log_snapshot_manager.ts and dump_snapshot_manager.ts    *)
(* with the files and their references, and those who use them: the chain  *)
(* that executes blocks and moves its tip, the pending transactions, and   *)
(* readers.                                                                *)
(*                                                                         *)
(* A block is its height.  A file holds the blocks whose effects are in    *)
(* it, in the order they were applied.  A recycled file is built again     *)
(* from the nearest one below and the redo logs.                           *)
(***************************************************************************)
EXTENDS Integers, Sequences, FiniteSets, SequencesExt

CONSTANTS
    Readers,        \* calls of executeViewMethod that may run at one time
    Chain, None,    \* the task of the chain, and no task
    Mork,           \* _morkSnapshot
    ConfirmDepth,   \* _confirmDepth
    SharedMining,   \* the miner may finish a block the chain got from a peer
    IOErrors,       \* storage may fail
    MaxHeight,      \* bound: height of the chain
    MaxClosing,     \* bound: storages of one snapshot a reader leaves closing
    MaxCrashes      \* bound: restarts

ASSUME SnapshotsAssumption ==
    /\ IsFiniteSet(Readers)
    /\ Chain \notin Readers /\ None \notin Readers \cup {Chain}
    /\ {Mork, SharedMining, IOErrors} \subseteq BOOLEAN
    /\ {ConfirmDepth, MaxHeight, MaxClosing, MaxCrashes} \subseteq Nat

VARIABLES
    snap,     \* per block: its file, its reference count and its view, and,
              \* for the properties, whether createSnapshot took references away (again)
              \* and whether its file may be a part of what it should be (partial)
    logs,     \* blocks with a redo log on disk
    wait,     \* the view each task waits for
    held,     \* the view each reader has
    chain,    \* the chain: what it is doing, its tip and the views it holds, and
              \* the storage of the block it executes, with whether it is partial
    crashes   \* restarts so far

vars == <<snap, logs, wait, held, chain, crashes>>

Block == 0 .. MaxHeight
Task == Readers \cup {Chain}

NoBlock == -1
Failed == -2    \* the task got an error instead of the view
Hung == -3      \* the task waits for an event that will not come
NoFile == <<>>
Unlisted == -1  \* not in m_snapshots

\* The blocks from genesis to b.
PathTo(b) == [k \in 1 .. b + 1 |-> k - 1]

-----------------------------------------------------------------------------
(* What the methods of the managers do to the record of one block.         *)

NoView == [phase |-> "none", users |-> 0, owner |-> None, at |-> NoBlock, todo |-> <<>>]

\* _getSnapshotStorage for the view of b by task u, up to its first await.
Acquire(e, u, b) ==
    IF e.view.phase = "none"
    THEN [e EXCEPT !.view = [phase |-> "checking", users |-> 1, owner |-> u, at |-> b,
                             todo |-> <<>>]]
    ELSE [e EXCEPT !.view.users = @ + 1]

\* Mutant: the view of the last user stays.
LeakyRelease(e) ==
    IF e.view.phase = "none" THEN e ELSE [e EXCEPT !.view.users = @ - 1]

\* releaseSnapshotView up to its await of the storage's uninit.
Release(e) ==
    IF e.view.phase = "none" THEN e
    ELSE IF e.view.users > 1 THEN [e EXCEPT !.view.users = @ - 1]
    ELSE [e EXCEPT !.view = NoView, !.closing = @ + 1]

\* Mutant: the views of the last tip stay referenced.
KeepAll(s, blocks) == s

ReleaseAll(s, blocks) ==
    [b \in Block |-> IF b \in blocks THEN Release(s[b]) ELSE s[b]]

\* releaseSnapshot
Unreference(e) == [e EXCEPT !.ref = IF @ > 0 THEN @ - 1 ELSE @]

\* Mutant: whatever nobody has a view of is removed.
RecycleUnviewed(e) ==
    IF e.ref # Unlisted /\ e.view.phase # "open"
    THEN [e EXCEPT !.file = NoFile, !.ref = Unlisted] ELSE e

\* recycle, for one snapshot
Recycle(e) ==
    IF e.ref = 0 THEN [e EXCEPT !.file = NoFile, !.ref = Unlisted, !.partial = e.view.phase = "building"]
    ELSE e

RecycleAll(s) == [b \in Block |-> Recycle(s[b])]

\* Redo logs are still to be applied to the file.
HalfBuilt(e) == e.view.phase = "building" /\ e.view.todo # <<>>

\* createSnapshot: the file, the redo log, and a fresh entry.
CreateSnapshot(e, content, partial) ==
    [e EXCEPT !.file = content, !.ref = 0, !.again = @ \/ e.ref > 0, !.partial = partial \/ HalfBuilt(e)]

-----------------------------------------------------------------------------
(* Opening a view.                                                         *)

View(b) == snap[b].view

SetEntry(b, entry) == snap' = [snap EXCEPT ![b] = entry]
SetView(b, view) == SetEntry(b, [snap[b] EXCEPT !.view = view])

WaitingFor(b) == {u \in Task : wait[u] = b}

\* The owner gets the error; for who else waits, see `others'.
OwnerFails(b, others) ==
    wait' = [u \in Task |-> IF wait[u] # b THEN wait[u]
                            ELSE IF u = View(b).owner THEN Failed ELSE others]

\* An exception: nobody removes the view, and it never opens.
Breaks(b) ==
    /\ SetView(b, [View(b) EXCEPT !.phase = "broken"])
    /\ OwnerFails(b, b)

\* The dump manager has looked for the file: nothing is awaited in between.
Check(b) ==
    /\ View(b).phase = "checking"
    /\ SetView(b, [View(b) EXCEPT
           !.phase = IF snap[b].file # NoFile THEN "exists" ELSE "walking"])
    /\ UNCHANGED <<logs, wait, held, chain, crashes>>

\* The file existed; its entry may have been recycled since.
UseFile(b) ==
    /\ View(b).phase = "exists"
    /\ IF snap[b].ref = Unlisted THEN Breaks(b)
       ELSE /\ SetEntry(b, [snap[b] EXCEPT !.ref = @ + 1, !.view.phase = "opening"])
            /\ UNCHANGED wait
    /\ UNCHANGED <<logs, held, chain, crashes>>

\* One turn of the loop that looks for the nearest snapshot.
Walk(b) ==
    /\ View(b).phase = "walking"
    /\ SetView(b, IF snap[View(b).at].file # NoFile
                  THEN [View(b) EXCEPT !.phase = "found"]
                  ELSE [View(b) EXCEPT !.at = View(b).at - 1])
    /\ UNCHANGED <<logs, wait, held, chain, crashes>>

\* Mutant: the redo logs are those above the block after the nearest one.
ShortBlockPath(nearest, b) == [k \in 1 .. b - nearest - 1 |-> nearest + k + 1] \o <<b>>

\* blockPath, reversed: b is pushed before the loop and again inside it.
BlockPath(nearest, b) == [k \in 1 .. b - nearest |-> nearest + k] \o <<b>>

\* The nearest snapshot is copied; it may have been recycled since, and it may be one that
\* another rebuild still writes.
Copy(b) ==
    /\ View(b).phase = "found"
    /\ LET nearest == View(b).at
       IN  IF snap[nearest].file = NoFile THEN Breaks(b)
           ELSE /\ SetEntry(b, [snap[b] EXCEPT !.file = snap[nearest].file,
                        !.partial = snap[nearest].partial \/ HalfBuilt(snap[nearest]),
                        !.view = [View(b) EXCEPT !.phase = "building",
                                                 !.todo = BlockPath(nearest, b)]])
                /\ UNCHANGED wait
    /\ UNCHANGED <<logs, held, chain, crashes>>

Redo(b) ==
    /\ View(b).phase = "building" /\ View(b).todo # <<>>
    /\ Head(View(b).todo) \in logs
    /\ SetEntry(b, [snap[b] EXCEPT !.file = Append(@, Head(View(b).todo)),
                                   !.view.todo = Tail(@)])
    /\ UNCHANGED <<logs, wait, held, chain, crashes>>

Built(b) ==
    /\ View(b).phase = "building" /\ View(b).todo = <<>>
    /\ SetEntry(b, [snap[b] EXCEPT !.ref = 1, !.view.phase = "opening"])
    /\ UNCHANGED <<logs, wait, held, chain, crashes>>

\* A redo log is missing or storage fails: the file goes, and those who only
\* wait for the view's event are never told.
BuildFails(b) ==
    /\ View(b).phase = "building"
    /\ IOErrors \/ (View(b).todo # <<>> /\ Head(View(b).todo) \notin logs)
    /\ SetEntry(b, [snap[b] EXCEPT !.file = NoFile, !.view = NoView, !.partial = FALSE])
    /\ OwnerFails(b, Hung)
    /\ UNCHANGED <<logs, held, chain, crashes>>

\* The copy cannot be opened: it stays on disk, and nobody lists it.
InitFails(b) ==
    /\ IOErrors
    /\ View(b).phase = "building" /\ View(b).todo = BlockPath(View(b).at, b)
    /\ SetEntry(b, [snap[b] EXCEPT !.view = NoView, !.partial = TRUE])
    /\ OwnerFails(b, Hung)
    /\ UNCHANGED <<logs, held, chain, crashes>>

Open(b) ==
    /\ View(b).phase = "opening"
    /\ SetView(b, [View(b) EXCEPT !.phase = "open"])
    /\ UNCHANGED <<logs, wait, held, chain, crashes>>

OpenFails(b) ==
    /\ IOErrors
    /\ View(b).phase = "opening"
    /\ SetEntry(b, [Unreference(snap[b]) EXCEPT !.view = NoView])
    /\ OwnerFails(b, Failed)
    /\ UNCHANGED <<logs, held, chain, crashes>>

\* The storage of a released view is closed, and its reference given back.
Closed(b) ==
    /\ snap[b].closing > 0
    /\ SetEntry(b, [Unreference(snap[b]) EXCEPT !.closing = @ - 1])
    /\ UNCHANGED <<logs, wait, held, chain, crashes>>

-----------------------------------------------------------------------------
(* Readers: executeViewMethod.                                             *)

Got(u) == wait[u] \in Block /\ View(wait[u]).phase = "open"

Ask(r, b) ==
    /\ chain.pc # "genesis" /\ b <= chain.tip
    /\ wait[r] = NoBlock /\ held[r] = NoBlock
    /\ snap[b].closing < MaxClosing
    /\ SetEntry(b, Acquire(snap[b], r, b))
    /\ wait' = [wait EXCEPT ![r] = b]
    /\ UNCHANGED <<logs, held, chain, crashes>>

Receive(r) ==
    /\ Got(r)
    /\ held' = [held EXCEPT ![r] = wait[r]]
    /\ wait' = [wait EXCEPT ![r] = NoBlock]
    /\ UNCHANGED <<snap, logs, chain, crashes>>

EndRead(r) ==
    /\ held[r] # NoBlock
    /\ SetEntry(held[r], Release(snap[held[r]]))
    /\ held' = [held EXCEPT ![r] = NoBlock]
    /\ UNCHANGED <<logs, wait, chain, crashes>>

\* The call returns an error.
ReadFails(r) ==
    /\ wait[r] = Failed
    /\ wait' = [wait EXCEPT ![r] = NoBlock]
    /\ UNCHANGED <<snap, logs, held, chain, crashes>>

-----------------------------------------------------------------------------
(* The chain, one block at a time, with the pending transactions.          *)

GoOn(s, b, c) ==
    /\ snap' = [s EXCEPT ![b] = Acquire(@, Chain, b)]
    /\ wait' = [wait EXCEPT ![Chain] = b]
    /\ chain' = c
    /\ UNCHANGED <<held, crashes>>

At(pc) == chain.pc = pc /\ Got(Chain)

\* _loadGenesis keeps its view; then the tip is loaded.
LoadGenesis ==
    /\ At("genesis")
    /\ GoOn(snap, chain.tip, [chain EXCEPT !.pc = "tip"])
    /\ UNCHANGED logs

\* verifyBlock asks for the storage of the block before.
VerifyBlock ==
    /\ chain.pc = "idle"
    /\ chain.tip < MaxHeight
    /\ GoOn(snap, chain.tip, [chain EXCEPT !.pc = "copy"])
    /\ UNCHANGED logs

\* createStorage copies the file, which throws without one, and releases the view; the block
\* executes.
CopyStorage ==
    /\ At("copy")
    /\ snap[chain.tip].file # NoFile
    /\ chain' = [chain EXCEPT !.pc = "execute", !.storage = snap[chain.tip].file,
                              !.partial = snap[chain.tip].partial]
    /\ SetEntry(chain.tip, Release(snap[chain.tip]))
    /\ wait' = [wait EXCEPT ![Chain] = NoBlock]
    /\ UNCHANGED <<logs, held, crashes>>

\* The block is valid: its snapshot is made and it becomes the tip.  The
\* views of the old tip are released before that of the new one is awaited.
AddVerifiedBlock ==
    /\ chain.pc = "execute"
    /\ LET b == chain.tip + 1
           created == [snap EXCEPT ![b] = CreateSnapshot(@, Append(chain.storage, b), chain.partial)]
       IN  /\ GoOn(ReleaseAll(created, chain.refs), b,
                   [chain EXCEPT !.pc = "tip", !.tip = b, !.refs = {}, !.storage = NoFile,
                              !.partial = FALSE])
           /\ logs' = logs \cup {b}

MorkBlock == IF chain.tip > 2 * ConfirmDepth THEN chain.tip - 2 * ConfirmDepth ELSE 0

\* _updateTip has the view of the tip, and asks for that of the fork point.
MorkView ==
    /\ At("tip")
    /\ Mork /\ MorkBlock # chain.tip
    /\ GoOn(snap, MorkBlock, [chain EXCEPT !.pc = "mork", !.refs = {chain.tip}])
    /\ UNCHANGED logs

\* All views are there: recycle, and the pending transactions ask for theirs.
RecycleSnapshots ==
    /\ \/ At("mork")
       \/ At("tip") /\ ~(Mork /\ MorkBlock # chain.tip)
    /\ GoOn(RecycleAll(snap), chain.tip,
            [chain EXCEPT !.pc = "pending", !.refs = @ \cup {wait[Chain]}])
    /\ UNCHANGED logs

\* updateTipBlock of the pending transactions, which had a view of the old tip.
UpdatePending ==
    /\ At("pending")
    /\ IF chain.pending = NoBlock THEN UNCHANGED snap
       ELSE SetEntry(chain.pending, Release(snap[chain.pending]))
    /\ \E pc \in {"idle", "announce"} :
           chain' = [chain EXCEPT !.pc = pc, !.pending = chain.tip]
    /\ wait' = [wait EXCEPT ![Chain] = NoBlock]
    /\ UNCHANGED <<logs, held, crashes>>

\* With the event tipBlock the chain recycles once more.
AnnounceTip ==
    /\ chain.pc = "announce"
    /\ snap' = RecycleAll(snap)
    /\ chain' = [chain EXCEPT !.pc = "idle"]
    /\ UNCHANGED <<logs, wait, held, crashes>>

\* The error ends the block, or the start of the node.
ChainFails ==
    /\ wait[Chain] = Failed
    /\ wait' = [wait EXCEPT ![Chain] = NoBlock]
    /\ chain' = [chain EXCEPT !.pc = IF @ = "genesis" THEN "failed" ELSE "idle"]
    /\ UNCHANGED <<snap, logs, held, crashes>>

\* The miner executed the block as well and makes its snapshot again;
\* addMinedBlock then fails, for the header is known.
MineSameBlock ==
    /\ SharedMining
    /\ chain.pc = "idle" /\ chain.tip > 0
    /\ SetEntry(chain.tip, CreateSnapshot(snap[chain.tip], PathTo(chain.tip), FALSE))
    /\ logs' = logs \cup {chain.tip}
    /\ UNCHANGED <<wait, held, chain, crashes>>

\* The process restarts: files and logs stay, and every file is a snapshot.
Crash ==
    /\ crashes < MaxCrashes
    /\ crashes' = crashes + 1
    /\ LET listed == [b \in Block |->
               [file |-> snap[b].file, ref |-> IF snap[b].file = NoFile THEN Unlisted ELSE 0,
                view |-> NoView, closing |-> 0, again |-> FALSE,
                partial |-> snap[b].partial \/ HalfBuilt(snap[b])]]
       IN  snap' = [listed EXCEPT ![0] = Acquire(@, Chain, 0)]
    /\ wait' = [u \in Task |-> IF u = Chain THEN 0 ELSE NoBlock]
    /\ held' = [r \in Readers |-> NoBlock]
    /\ chain' = [pc |-> "genesis", tip |-> chain.tip, refs |-> {}, pending |-> NoBlock,
                 storage |-> NoFile, partial |-> FALSE]
    /\ UNCHANGED logs

-----------------------------------------------------------------------------
Init ==
    LET created == [b \in Block |->
            [file |-> IF b = 0 THEN PathTo(0) ELSE NoFile,
             ref |-> IF b = 0 THEN 0 ELSE Unlisted, view |-> NoView, closing |-> 0, again |-> FALSE,
             partial |-> FALSE]]
    IN  /\ snap = [created EXCEPT ![0] = Acquire(@, Chain, 0)]
        /\ logs = {}
        /\ wait = [u \in Task |-> IF u = Chain THEN 0 ELSE NoBlock]
        /\ held = [r \in Readers |-> NoBlock]
        /\ chain = [pc |-> "genesis", tip |-> 0, refs |-> {}, pending |-> NoBlock,
                    storage |-> NoFile, partial |-> FALSE]
        /\ crashes = 0

OpenSteps(b) ==
    \/ Check(b) \/ UseFile(b) \/ Walk(b) \/ Copy(b) \/ Redo(b) \/ Built(b)
    \/ BuildFails(b) \/ InitFails(b) \/ Open(b) \/ OpenFails(b) \/ Closed(b)

ChainSteps ==
    \/ LoadGenesis \/ VerifyBlock \/ CopyStorage \/ AddVerifiedBlock \/ MorkView
    \/ RecycleSnapshots \/ UpdatePending \/ AnnounceTip \/ ChainFails

Next ==
    \/ \E b \in Block : OpenSteps(b)
    \/ \E r \in Readers :
           \/ \E b \in Block : Ask(r, b)
           \/ Receive(r)
           \/ EndRead(r)
           \/ ReadFails(r)
    \/ ChainSteps
    \/ MineSameBlock
    \/ Crash

Spec == Init /\ [][Next]_vars

-----------------------------------------------------------------------------
(* Properties.                                                             *)

Phases == {"none", "checking", "exists", "walking", "found", "building", "opening",
           "open", "broken"}

TypeOK ==
    /\ \A b \in Block :
           /\ snap[b].file \in Seq(Block)
           /\ snap[b].ref \in Nat \cup {Unlisted}
           /\ snap[b].closing \in Nat
           /\ snap[b].again \in BOOLEAN /\ snap[b].partial \in BOOLEAN
           /\ View(b).phase \in Phases
           /\ View(b).users > 0 <=> View(b).phase # "none"
           /\ View(b).at \in Block \cup {NoBlock}
    /\ logs \subseteq Block
    /\ wait \in [Task -> Block \cup {NoBlock, Failed, Hung}]
    /\ held \in [Readers -> Block \cup {NoBlock}]
    /\ chain.tip \in Block /\ chain.refs \subseteq Block
    /\ chain.pending \in Block \cup {NoBlock}

Referenced(b) == IF View(b).phase \in {"opening", "open"} THEN 1 ELSE 0

\* The count of a snapshot is that of its view and of the views being closed:
\* it is neither recycled under one nor kept when there is none.  Where
\* createSnapshot took references away, none is kept too long (m_snapshots).
RefsAgree ==
    \A b \in Block :
        LET used == Referenced(b) + snap[b].closing
        IN  /\ snap[b].ref <= used
            /\ ~snap[b].again /\ used > 0 => snap[b].ref = used

\* What somebody reads is on disk, unless createSnapshot took the reference
\* of the reader away (recycle).
ReadableViews ==
    \A b \in Block : Referenced(b) = 1 /\ ~snap[b].again => snap[b].file # NoFile

\* Those who have the view of b or will get it.
Holders(b) ==
    {u \in Task : wait[u] = b} \cup {r \in Readers : held[r] = b}
Holds(b) ==
    Cardinality(Holders(b)) + (IF b \in chain.refs THEN 1 ELSE 0)
        + (IF chain.pending = b THEN 1 ELSE 0)
        + (IF b = 0 /\ chain.pc \notin {"genesis", "failed"} THEN 1 ELSE 0)

\* Every release of a view answers one acquisition: the count of its users is
\* the number of those who have it or wait for it, the chain's tip and fork
\* point, the pending transactions and the genesis block included.
ViewsCounted ==
    \A b \in Block :
        /\ View(b).phase \notin {"none", "broken"} => View(b).users = Holds(b)
        /\ View(b).phase = "none" => {r \in Readers : held[r] = b} = {} /\ b \notin chain.refs

\* Both counts tell who needs a snapshot: those of files and those of views.
UsersCounted == RefsAgree /\ ViewsCounted

\* The file f has the effects of every block up to b, in their order.
Complete(f, b) == ToSet(f) = 0 .. b /\ \A i, j \in DOMAIN f : i < j => f[i] <= f[j]

\* The file of an open view has the effects of every block up to its own, in their order, from
\* whatever file it was rebuilt, with whatever failures; unless it goes back to one that a
\* rebuild had not finished, of which the search for the nearest snapshot (getSnapshot) and a
\* restart (init) take no notice.
ViewComplete == \A b \in Block :
    View(b).phase = "open" /\ snap[b].file # NoFile /\ ~snap[b].partial => Complete(snap[b].file, b)

\* The same without the exception: a redo log is applied to a whole file.
RebuiltFromWhole ==
    \A b \in Block : View(b).phase = "open" /\ snap[b].file # NoFile => Complete(snap[b].file, b)

\* A view has exactly the effects of the blocks up to its own.
ViewExact == \A b \in Block : View(b).phase = "open" => snap[b].file = PathTo(b)

\* assert(this.m_snapshots.get(blockHash)) in getSnapshot.
ListedWhenUsed == \A b \in Block : View(b).phase = "exists" => snap[b].ref # Unlisted

\* assert(stub.ref > 0) in releaseSnapshot.
ReferencedWhenReleased == \A b \in Block : snap[b].closing > 0 => snap[b].ref # 0
=============================================================================
