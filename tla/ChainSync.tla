----------------------------- MODULE ChainSync -----------------------------
(***************************************************************************)
(* How a node gets the chain of its peers: the requests of ChainNode       *)
(* (chain/chain_node.ts) and the handling of headers and blocks by Chain   *)
(* (chain/chain.ts).  A peer answers with the same code; what else it does *)
(* is to adopt a higher block and, unless it is syncing itself, to         *)
(* announce it.                                                            *)
(*                                                                         *)
(* A handler runs up to its first await at once.  _addHeaders is split at  *)
(* the await of _verifyAndSaveHeaders, _addBlock at the await of the       *)
(* execution of the block.                                                 *)
(***************************************************************************)
EXTENDS Selections, Integers, FiniteSets, Functions

CONSTANTS
    Peers,          \* the full ids (network^peerid) of the peers
    NetworkName,    \* the name of the network, what 'error' events carry
    None,           \* undefined
    Genesis,        \* block 0
    Blocks,         \* the blocks above the genesis
    Parent,         \* [Blocks -> Blocks \cup {Genesis}], preBlockHash
    Known,          \* [Peers -> SUBSET (Blocks \cup {Genesis})], the tips a peer may have
    Invalid,        \* the blocks whose execution does not give their header
    InitBlockWnd,   \* initBlockWnd
    HeaderReqLimit, \* headerReqLimit
    ConfirmDepth,   \* confirmDepth, also the depth of an announcement
    InitialPeers,   \* initializePeerCount
    MaxFaults       \* bound on lost connections, timeouts, failed executions

\* Every block descends from the genesis.  An id of a peer is network^peerid, so it
\* is neither the name of the network nor a peerid.  undefined is not a record.
\* With a confirmDepth of 0 the chain would ask for the header above its tip.
ASSUME SyncAssumption ==
    /\ IsFiniteSet(Peers) /\ IsFiniteSet(Blocks)
    /\ Genesis \notin Blocks /\ None \notin Peers \cup Blocks \cup {Genesis}
    /\ None \notin [hashes : SUBSET Blocks, wnd : Nat, live : BOOLEAN]
    /\ Parent \in [Blocks -> Blocks \cup {Genesis}]
    /\ \A S \in SUBSET Blocks : S # {} => \E b \in S : Parent[b] \notin S
    /\ Known \in [Peers -> SUBSET (Blocks \cup {Genesis})]
    /\ Invalid \subseteq Blocks
    /\ {InitBlockWnd, HeaderReqLimit, ConfirmDepth} \subseteq Nat \ {0}
    /\ {InitialPeers, MaxFaults} \subseteq Nat
    /\ NetworkName \notin Peers
    /\ \A p \in Peers : <<p>> \notin Peers \cup {NetworkName}

VARIABLES
    node,       \* the members of ChainNode
    chain,      \* the members of Chain, and its header storage
    wire,       \* the connections and the packages on them
    peerBest,   \* [Peers -> block], the tip of each peer
    faults      \* how many faults happened

vars == <<node, chain, wire, peerBest, faults>>

(***************************************************************************)
(* Blocks                                                                  *)
(***************************************************************************)
\* The headers from block 1 to b.
Path[b \in Blocks \cup {Genesis}] ==
    IF b = Genesis THEN <<>> ELSE Append(Path[Parent[b]], b)

Number(b) == Len(Path[b])

Ancestor(b, n) == IF n <= 0 THEN Genesis ELSE Path[b][n]

OnBest(b, best) == b = Genesis \/ b \in Range(Path[best])

\* The count headers up to number n, without the genesis.
HeadersTo(b, n, count) == SubSeq(Path[b], IF n < count THEN 1 ELSE n - count + 1, n)

(***************************************************************************)
(* The whole state as one value, for the helpers that touch all of it.     *)
(***************************************************************************)
Now == [node |-> node, chain |-> chain, wire |-> wire]

Become(w) == /\ node' = w.node
             /\ chain' = w.chain
             /\ wire' = w.wire

\* addPendingWriter of the connection a record holds: live says whether it is
\* the one there is.
Send(w, p, live, pkg) ==
    IF live THEN [w EXCEPT !.wire.to[p] = Append(@, pkg)] ELSE w

(***************************************************************************)
(* ChainNode: what is asked of whom                                        *)
(***************************************************************************)
\* requestHeaders: one request at a time; a second one is dropped and its
\* error is looked at by no caller.
RequestHeaders(w, p, live, from) ==
    IF w.node.requestingHeaders[p] # None THEN w
    ELSE Send([w EXCEPT !.node.requestingHeaders[p] = from], p, live,
              [type |-> "getHeader", from |-> from])

Window(w, p) == w.node.connMap[p].wnd - Cardinality(w.node.connMap[p].hashes)

\* Mutant: the block stays pending as well.
RequestLeavingItPending(w, h, p) ==
    Send([w EXCEPT !.node.connMap[p].hashes = @ \cup {h}, !.node.hashMap[h] = p],
         p, w.node.connMap[p].live, [type |-> "getBlock", hash |-> h])

RequestBlockFromConnection(w, h, p) ==
    Send([w EXCEPT !.node.connMap[p].hashes = @ \cup {h},
                   !.node.hashMap[h] = p,
                   !.node.pending = Those(@, Blocks \ {h})],
         p, w.node.connMap[p].live, [type |-> "getBlock", hash |-> h])

AddToPending(w, h, head) ==
    IF h \in Range(w.node.pending) THEN w
    ELSE [w EXCEPT !.node.pending = IF head THEN <<h>> \o @ ELSE Append(@, h)]

RequestOrPend(w, h, p) ==
    IF Window(w, p) > 0 THEN RequestBlockFromConnection(w, h, p) ELSE AddToPending(w, h, FALSE)

\* requestBlocks: a stored block is handed over at the next turn of the event
\* loop, another one gets p as a source and is asked for unless it already is.
RequestBlocks(w, p, headers) ==
    LET known   == w.node.connMap[p] # None
        opened  == IF known THEN w
                   ELSE [w EXCEPT !.node.connMap[p] = [hashes |-> {}, wnd |-> InitBlockWnd, live |-> TRUE]]
        stored  == Those(headers, w.node.stored)
        missing == Those(headers, Blocks \ w.node.stored)
        ask     == Those(missing, {h \in Blocks : /\ p \notin w.node.sources[h]
                                                  /\ w.node.hashMap[h] = None})
        sourced == [opened EXCEPT
                      !.node.ready = @ \o stored,
                      !.node.sources = [h \in Blocks |->
                          IF h \in Range(missing) THEN @[h] \cup {p} ELSE @[h]]]
    IN  IF ~known /\ w.wire.conn[p] = "none" THEN w
        ELSE FoldLeft(LAMBDA v, h : RequestOrPend(v, h, p), sourced, ask)

\* _onFreeBlockWnd: the first pending block of p is requested whatever the
\* window is, the next ones while it lasts.
OnFreeBlockWnd(w, p) ==
    LET mine  == Those(w.node.pending, {h \in Blocks : p \in w.node.sources[h]})
        count == IF Window(w, p) > 1 THEN Window(w, p) ELSE 1
    IN  FoldLeft(LAMBDA v, h : RequestBlockFromConnection(v, h, p), w,
                 SubSeq(mine, 1, IF Len(mine) < count THEN Len(mine) ELSE count))

\* _onRemoveConnection: what was asked of the connection is asked of others.
FirstWithWindow(w, h) ==
    LET free == {p \in w.node.sources[h] : Window(w, p) > 0}
    IN  IF free = {} THEN w ELSE RequestBlockFromConnection(w, h, CHOOSE p \in free : TRUE)

DropSource(w, h, id) ==
    LET left == [w EXCEPT !.node.sources[h] = @ \ {id}]
    IN  IF id \notin w.node.sources[h] THEN w
        ELSE IF left.node.sources[h] = {}
             THEN [left EXCEPT !.node.pending = Those(@, Blocks \ {h})]
             ELSE FirstWithWindow(left, h)

OnRemoveConnection(w, id) ==
    LET asked   == SetToSeq(w.node.connMap[id].hashes)
        back    == FoldLeft(LAMBDA v, h : AddToPending([v EXCEPT !.node.hashMap[h] = None], h, TRUE),
                            w, asked)
        removed == [(IF w.node.connMap[id] = None THEN w ELSE back)
                        EXCEPT !.node.connMap[id] = None,
                               !.node.requestingHeaders[id] = None]
    IN  IF id \notin Peers THEN w
        ELSE FoldLeft(LAMBDA v, h : DropSource(v, h, id), removed, removed.node.pending)

(***************************************************************************)
(* Connections that end.  ChainNode keeps its records under the full id,   *)
(* but listens to events that carry another one: 'error' of Network is     *)
(* emitted with (conn.network, conn.remote) and its listener takes the     *)
(* first for the peer; 'ban' carries the peerid without the network.       *)
(***************************************************************************)
PeerId(p) == <<p>>

FullId(id) == IF id = NetworkName THEN NetworkName ELSE id[1]

\* The records keep the connection they were made with.
Dead(record) == IF record = None THEN None ELSE [record EXCEPT !.live = FALSE]

Closed(w, p) ==
    [node  |-> [w.node EXCEPT !.connMap[p] = Dead(@)],
     chain |-> [w.chain EXCEPT !.connSync[p] = Dead(@)],
     wire  |-> [w.wire EXCEPT !.conn[p] = "none", !.to[p] = <<>>, !.back[p] = <<>>]]

\* Chain._onConnectionError; the first of a queue is the one that is handled.
ForgetConnection(w, id) ==
    LET others(queue) ==
            SubSeq(queue, 1, IF queue = <<>> THEN 0 ELSE 1)
                \o Those(SubSeq(queue, 2, Len(queue)), {e \in Range(queue) : e.from # id})
    IN  IF id \notin Peers THEN w
        ELSE [w EXCEPT !.chain.connSync[id] = None,
                       !.chain.headers = others(@),
                       !.chain.blocks = others(@)]

\* Network.banConnection and the listeners of 'ban'.
Ban(w, p) ==
    LET closed == [Closed(w, p) EXCEPT !.wire.banned = @ \cup {p}]
    IN  ForgetConnection(OnRemoveConnection(closed, PeerId(p)), FullId(PeerId(p)))

\* Chain._banConnection: only a remote with a record.
ChainBan(w, p) == IF p = None \/ w.chain.connSync[p] = None THEN w ELSE Ban(w, p)

\* The connection breaks: INode closes it, then tells.
ConnectionError(p) ==
    /\ faults < MaxFaults
    /\ wire.conn[p] # "none"
    /\ LET told == OnRemoveConnection(Closed(Now, p), NetworkName)
       IN  Become(ForgetConnection(told, FullId(NetworkName)))
    /\ faults' = faults + 1
    /\ UNCHANGED peerBest

(***************************************************************************)
(* Chain: the state of the sync with each connection                       *)
(***************************************************************************)
SyncRecord(state, live) ==
    [state |-> state, lastReq |-> None, lastRecv |-> None, more |-> FALSE, live |-> live]

\* _beginSyncWithConnection.  What was received last is kept.
BeginSync(w, p, live, from) ==
    LET record == IF w.chain.connSync[p] = None THEN SyncRecord("syncing", live)
                  ELSE w.chain.connSync[p]
    IN  RequestHeaders([w EXCEPT !.chain.connSync[p] =
                            [record EXCEPT !.state = "syncing", !.lastReq = from]],
                       p, record.live, from)

SyncedOutbounds(w) ==
    {p \in Peers : /\ w.wire.conn[p] = "out"
                   /\ w.chain.connSync[p] # None
                   /\ w.chain.connSync[p].state = "synced"}

\* _continueSyncWithConnection
ContinueSync(w, p) ==
    LET record == w.chain.connSync[p]
        synced == [w EXCEPT !.chain.connSync[p].state = "synced", !.chain.connSync[p].more = FALSE]
        enough == /\ w.chain.state = "syncing"
                  /\ Cardinality(SyncedOutbounds(synced)) >= InitialPeers
    IN  IF record.more
        THEN RequestHeaders([w EXCEPT !.chain.connSync[p].lastReq = record.lastRecv],
                            p, record.live, record.lastRecv)
        ELSE IF enough
             THEN [synced EXCEPT !.chain.state = "synced", !.chain.announced = w.chain.tip]
             ELSE synced

\* _addPendingBlocks: a block that is queued or being added is not queued again.
AddPendingBlock(w, b, from, head) ==
    LET queued == {e.block : e \in Range(w.chain.blocks)}
        entry  == [block |-> b, from |-> from]
    IN  IF b \in queued \/ (w.chain.adding # None /\ w.chain.adding.block = b) THEN w
        ELSE [w EXCEPT !.chain.blocks = IF head THEN <<entry>> \o @ ELSE Append(@, entry)]

(***************************************************************************)
(* Connections and peers                                                   *)
(***************************************************************************)
\* A new outbound connection, and the listener of _initialBlockDownload.
Outbound(p) ==
    /\ wire.conn[p] = "none"
    /\ p \notin wire.banned
    /\ Become(BeginSync([Now EXCEPT !.wire.conn[p] = "out"], p, TRUE,
                        Ancestor(chain.tip, Number(chain.tip) - ConfirmDepth)))
    /\ UNCHANGED <<peerBest, faults>>

\* The chain listens once it is synced; an inbound connection starts nothing.
Inbound(p) ==
    /\ chain.state = "synced"
    /\ wire.conn[p] = "none"
    /\ p \notin wire.banned
    /\ wire' = [wire EXCEPT !.conn[p] = "in"]
    /\ UNCHANGED <<node, chain, peerBest, faults>>

Announcement(b) ==
    [type |-> "header", headers |-> HeadersTo(b, Number(b), ConfirmDepth + 1),
     request |-> None, error |-> "OK"]

\* A peer takes a higher block for its tip.  While it is syncing with others
\* it announces nothing.
PeerAdopts(p, b, announce) ==
    /\ b \in Known[p] /\ Number(b) > Number(peerBest[p])
    /\ peerBest' = [peerBest EXCEPT ![p] = b]
    /\ announce => wire.conn[p] # "none"
    /\ wire' = IF announce THEN [wire EXCEPT !.back[p] = Append(@, Announcement(b))] ELSE wire
    /\ UNCHANGED <<node, chain, faults>>

Answer(from, hs, err) == [type |-> "header", headers |-> hs, request |-> from, error |-> err]

\* _responseHeaders of the peer, whose tip was tip when it began and is best
\* when it looks for from.
HeadersAnswer(from, tip, best) ==
    LET last == IF Number(from) + HeaderReqLimit > Number(tip)
                THEN Number(tip) ELSE Number(from) + HeaderReqLimit
    IN  IF ~OnBest(from, best) THEN {Answer(from, <<>>, "NOT_FOUND")}
        ELSE IF tip = from THEN {Answer(from, <<>>, "SKIPPED")}
        ELSE IF last <= Number(from) THEN {}    \* an assertion fails, nothing is sent
        ELSE {Answer(from, HeadersTo(best, last, last - Number(from)), "OK")}

PeerResponds(p) ==
    /\ wire.to[p] # <<>>
    /\ LET pkg    == Head(wire.to[p])
           asked  == [wire EXCEPT !.to[p] = Tail(@)]
           bests  == {b \in Known[p] : Number(b) > Number(peerBest[p])} \cup {peerBest[p]}
           reply(a) == [asked EXCEPT !.back[p] = Append(@, a)]
       IN  IF pkg.type = "getBlock"
           THEN wire' = reply([type |-> "block", block |-> pkg.hash]) /\ UNCHANGED peerBest
           ELSE \E best \in bests :
                  LET answers == HeadersAnswer(pkg.from, peerBest[p], best)
                  IN  /\ peerBest' = [peerBest EXCEPT ![p] = best]
                      /\ wire' = IF answers = {} THEN asked ELSE reply(CHOOSE a \in answers : TRUE)
    /\ UNCHANGED <<node, chain, faults>>

(***************************************************************************)
(* ChainNode: packages                                                     *)
(***************************************************************************)
Took(p) == [Now EXCEPT !.wire.back[p] = Tail(@)]

\* _onRecvHeaders: an answer nobody waits for gets its sender banned.
OnRecvHeaders(w, p, pkg) ==
    LET answered == IF pkg.request = None THEN w ELSE [w EXCEPT !.node.requestingHeaders[p] = None]
        entry    == [from |-> p, headers |-> pkg.headers, request |-> pkg.request, error |-> pkg.error]
    IN  IF pkg.request = None \/ w.node.requestingHeaders[p] = pkg.request
        THEN [answered EXCEPT !.chain.headers = Append(@, entry)]
        ELSE Ban(w, p)

\* A package of headers; the 'headers' event queues them.
ReceiveHeaders(p) ==
    /\ wire.back[p] # <<>> /\ Head(wire.back[p]).type = "header"
    /\ Become(OnRecvHeaders(Took(p), p, Head(wire.back[p])))
    /\ UNCHANGED <<peerBest, faults>>

\* The block b came from p, who was asked for it: nobody is asked any more, and
\* the window of p grows.
Taken(w, p, b) ==
    LET record == w.node.connMap[p]
        wnd    == record.wnd + 1
    IN  [w EXCEPT !.node = [@ EXCEPT
            !.hashMap[b] = None,
            !.sources[b] = {},
            !.connMap[p] = [record EXCEPT
                !.hashes = @ \ {b},
                !.wnd = IF wnd > 3 * InitBlockWnd THEN 3 * InitBlockWnd ELSE wnd]]]

\* _onRecvBlock.  A block that nobody, or somebody else, was asked for ends in
\* a failed assertion, the second one stored.
OnRecvBlock(w, p, b) ==
    LET stored == [w EXCEPT !.node.stored = @ \cup {b}]
    IN  IF w.node.connMap[p] = None \/ w.node.hashMap[b] = None THEN w
        ELSE IF w.node.hashMap[b] # p THEN stored
        ELSE AddPendingBlock(OnFreeBlockWnd(Taken(stored, p, b), p), b, p, FALSE)

\* A package with a block; the 'blocks' event queues it.
ReceiveBlock(p) ==
    /\ wire.back[p] # <<>> /\ Head(wire.back[p]).type = "block"
    /\ Become(OnRecvBlock(Took(p), p, Head(wire.back[p]).block))
    /\ UNCHANGED <<peerBest, faults>>

\* A package that cannot be decoded or does not pass the checks of its kind.
ReceiveMalformed(p) ==
    /\ faults < MaxFaults
    /\ wire.conn[p] # "none"
    /\ Become(Ban(Now, p))
    /\ faults' = faults + 1
    /\ UNCHANGED peerBest

\* The setImmediate of requestBlocks.
StoredBlock ==
    /\ node.ready # <<>>
    /\ Become(AddPendingBlock([Now EXCEPT !.node.ready = Tail(@)], Head(node.ready), None, FALSE))
    /\ UNCHANGED <<peerBest, faults>>

\* _onReqTimeoutTimer: the time of the request stays, so the next tick halves
\* the window again.
BlockTimeout(h) ==
    /\ faults < MaxFaults
    /\ node.hashMap[h] # None
    /\ LET p      == node.hashMap[h]
           halved == [Now EXCEPT !.node.connMap[p].wnd = @ \div 2]
       IN  Become(IF halved.node.connMap[p].wnd < 1 THEN Ban(halved, p) ELSE halved)
    /\ faults' = faults + 1
    /\ UNCHANGED peerBest

HeadersTimeout(p) ==
    /\ faults < MaxFaults
    /\ node.requestingHeaders[p] # None
    /\ Become(Ban(Now, p))
    /\ faults' = faults + 1
    /\ UNCHANGED peerBest

(***************************************************************************)
(* Chain: headers                                                          *)
(***************************************************************************)
\* _verifyAndSaveHeaders up to the headers to save.
VerifyHeaders(headers, verified) ==
    LET unknown == {i \in DOMAIN headers : verified[headers[i]] = "absent"}
        first   == IF unknown = {} THEN Len(headers) + 1 ELSE CHOOSE i \in unknown : \A j \in unknown : i <= j
        seen    == SubSeq(headers, 1, first - 1)
        save    == SubSeq(headers, first, Len(headers))
        result(err, toRequest, toSave) == [err |-> err, toRequest |-> toRequest, toSave |-> toSave]
    IN  IF verified[Parent[headers[1]]] = "absent" THEN result("NOT_FOUND", <<>>, <<>>)
        ELSE IF \E i \in DOMAIN seen : verified[seen[i]] = "invalid"
             THEN result("INVALID_BLOCK", <<>>, <<>>)
             ELSE result("OK", Those(seen, {h \in Blocks : verified[h] = "notVerified"}) \o save, save)

HeadersDone(w) == [w EXCEPT !.chain.headers = Tail(@), !.chain.step = None]

\* _addHeaders up to the end of _verifyAndSaveHeaders, or to its end.
VerifyAndSave(w, e, branch) ==
    LET res == VerifyHeaders(e.headers, w.chain.verified)
    IN  [w EXCEPT !.chain.step = [branch |-> branch, err |-> res.err, toRequest |-> res.toRequest],
                  !.chain.verified = [b \in DOMAIN @ |->
                        IF b \in Range(res.toSave) THEN "notVerified" ELSE @[b]]]

AddHeadersSyncing(w, e) ==
    LET record == w.chain.connSync[e.from]
        back   == Ancestor(record.lastReq, Number(record.lastReq) - HeaderReqLimit)
    IN  IF e.request = None THEN HeadersDone(w)
        ELSE IF e.request # record.lastReq THEN HeadersDone(ChainBan(w, e.from))
        ELSE IF e.error = "SKIPPED"
             THEN HeadersDone(ContinueSync([w EXCEPT !.chain.connSync[e.from].more = FALSE], e.from))
        ELSE IF e.error = "NOT_FOUND" THEN HeadersDone(BeginSync(w, e.from, FALSE, back))
        ELSE VerifyAndSave(w, e, "syncing")

AddHeaders ==
    /\ chain.headers # <<>> /\ chain.step = None
    /\ LET e       == Head(chain.headers)
           unknown == chain.connSync[e.from] = None
           created == [Now EXCEPT !.chain.connSync[e.from] = SyncRecord("synced", TRUE)]
       IN  Become(IF unknown /\ (e.request # None \/ wire.conn[e.from] = "none") THEN HeadersDone(Now)
                  ELSE IF unknown THEN VerifyAndSave(created, e, "synced")
                  ELSE IF chain.connSync[e.from].state = "syncing" THEN AddHeadersSyncing(Now, e)
                  ELSE IF e.request = None THEN VerifyAndSave(Now, e, "synced")
                  ELSE HeadersDone(ChainBan(Now, e.from)))
    /\ UNCHANGED <<peerBest, faults>>

\* The record the handler holds may have left the map: what is written to it
\* then is lost, but the blocks are requested.
Received(w, e, more) ==
    IF w.chain.connSync[e.from] = None THEN w
    ELSE [w EXCEPT !.chain.connSync[e.from] =
             [@ EXCEPT !.lastRecv = e.headers[Len(e.headers)], !.more = more]]

\* Mutant: the sync goes on before the blocks came.
HeadersVerifiedNotWaiting ==
    /\ chain.step # None
    /\ LET e    == Head(chain.headers)
           full == Received(Now, e, Len(e.headers) = HeaderReqLimit)
           asked == RequestBlocks(full, e.from, chain.step.toRequest)
       IN  Become(HeadersDone(IF chain.connSync[e.from] = None THEN Now
                              ELSE ContinueSync(asked, e.from)))
    /\ UNCHANGED <<peerBest, faults>>

\* _addHeaders after _verifyAndSaveHeaders.
HeadersVerified ==
    /\ chain.step # None
    /\ LET e    == Head(chain.headers)
           p    == e.from
           step == chain.step
           full == Received(Now, e, Len(e.headers) = HeaderReqLimit)
           kept == Received(Now, e, IF chain.connSync[p] = None THEN FALSE ELSE chain.connSync[p].more)
           back == Ancestor(chain.tip, Number(chain.tip) - ConfirmDepth + 1)
       IN  Become(HeadersDone(
             IF step.err = "INVALID_BLOCK" \/ (step.err = "NOT_FOUND" /\ step.branch = "syncing")
             THEN ChainBan(Now, p)
             ELSE IF step.err = "NOT_FOUND" THEN BeginSync(Now, p, FALSE, back)
             ELSE IF step.branch = "synced" THEN RequestBlocks(kept, p, step.toRequest)
             ELSE IF step.toRequest # <<>> THEN RequestBlocks(full, p, step.toRequest)
             ELSE IF chain.connSync[p] # None THEN ContinueSync(full, p)
             ELSE IF Len(e.headers) = HeaderReqLimit
                  THEN RequestHeaders(Now, p, FALSE, e.headers[Len(e.headers)])
             ELSE Now))
    /\ UNCHANGED <<peerBest, faults>>

(***************************************************************************)
(* Chain: blocks                                                           *)
(***************************************************************************)
Marked(w, b, v) == [w EXCEPT !.chain.verified[b] = v]

\* Mutant: the parent may be unverified.
AddBlockOnAnyParent ==
    /\ chain.adding = None /\ chain.blocks # <<>>
    /\ LET e     == Head(chain.blocks)
           taken == [Now EXCEPT !.chain.blocks = Tail(@)]
       IN  Become(IF chain.verified[e.block] # "notVerified" THEN taken
                  ELSE [taken EXCEPT !.chain.adding = e])
    /\ UNCHANGED <<peerBest, faults>>

\* _addBlock up to the execution of the block.
AddBlock ==
    /\ chain.adding = None /\ chain.blocks # <<>>
    /\ LET e      == Head(chain.blocks)
           taken  == [Now EXCEPT !.chain.blocks = Tail(@)]
           own    == chain.verified[e.block]
           parent == chain.verified[Parent[e.block]]
       IN  Become(IF own \in {"absent", "invalid"} THEN ChainBan(taken, e.from)
                  ELSE IF own = "verified" \/ parent \in {"absent", "notVerified"} THEN taken
                  ELSE IF parent = "invalid" THEN ChainBan(Marked(taken, e.block, "invalid"), e.from)
                  ELSE [taken EXCEPT !.chain.adding = e])
    /\ UNCHANGED <<peerBest, faults>>

BlockDone(w) == [w EXCEPT !.chain.adding = None]

\* Mutant: nobody goes on.
ContinueNone(w, b) == w

\* The connections that wait for b go on with their sync.
ContinueWaiting(w, b) ==
    LET waiting == {p \in Peers : /\ w.chain.connSync[p] # None
                                  /\ w.chain.connSync[p].state = "syncing"
                                  /\ w.chain.connSync[p].lastRecv = b}
    IN  FoldLeft(ContinueSync, w, SetToSeq(waiting))

\* The 'tipBlock' event: only if no connection waits and one was ahead.
AnnounceTip(before, w, b) ==
    LET last(p) == before.chain.connSync[p] # None /\ before.chain.connSync[p].lastRecv = b
        ahead(s) == \E p \in Peers : last(p) /\ before.chain.connSync[p].state = s
    IN  IF ~ahead("syncing") /\ ahead("synced") /\ w.chain.tip = b
        THEN [w EXCEPT !.chain.announced = b] ELSE w

\* Stored blocks whose header follows b are tried next.
AddNextBlocks(w, b) ==
    LET next == {c \in Blocks : /\ Parent[c] = b
                                /\ w.chain.verified[c] # "absent"
                                /\ c \in w.node.stored}
    IN  FoldLeft(LAMBDA v, c : AddPendingBlock(v, c, None, TRUE), w, SetToSeq(next))

\* _addBlock after an execution that gives the header; _addVerifiedBlock.
BlockVerified ==
    /\ chain.adding # None /\ chain.adding.block \notin Invalid
    /\ LET b     == chain.adding.block
           marked == Marked(Now, b, "verified")
           added == IF Number(b) > Number(chain.tip) THEN [marked EXCEPT !.chain.tip = b] ELSE marked
       IN  Become(BlockDone(AddNextBlocks(AnnounceTip(added, ContinueWaiting(added, b), b), b)))
    /\ UNCHANGED <<peerBest, faults>>

\* The execution gives another header, or ends without a verdict: both are
\* taken for an invalid block.
BlockRefused(fault) ==
    /\ chain.adding # None
    /\ IF fault THEN faults < MaxFaults ELSE chain.adding.block \in Invalid
    /\ Become(BlockDone(Marked(ChainBan(Now, chain.adding.from), chain.adding.block, "invalid")))
    /\ faults' = IF fault THEN faults + 1 ELSE faults
    /\ UNCHANGED peerBest

\* A local failure before the verdict or while the verdict is stored.
BlockFailed ==
    /\ chain.adding # None
    /\ faults < MaxFaults
    /\ Become(BlockDone(Now))
    /\ faults' = faults + 1
    /\ UNCHANGED peerBest

(***************************************************************************)
(* Specification                                                           *)
(***************************************************************************)
Init ==
    /\ node = [requestingHeaders |-> [p \in Peers |-> None],
               connMap |-> [p \in Peers |-> None],
               hashMap |-> [b \in Blocks |-> None],
               pending |-> <<>>,
               sources |-> [b \in Blocks |-> {}],
               stored |-> {},
               ready |-> <<>>]
    /\ chain = [state |-> "syncing",
                connSync |-> [p \in Peers |-> None],
                headers |-> <<>>, step |-> None,
                blocks |-> <<>>, adding |-> None,
                verified |-> [b \in Blocks \cup {Genesis} |->
                                  IF b = Genesis THEN "verified" ELSE "absent"],
                tip |-> Genesis, announced |-> None]
    /\ wire = [conn |-> [p \in Peers |-> "none"], banned |-> {},
               to |-> [p \in Peers |-> <<>>], back |-> [p \in Peers |-> <<>>]]
    /\ peerBest \in {f \in [Peers -> Blocks \cup {Genesis}] : \A p \in Peers : f[p] \in Known[p]}
    /\ faults = 0

Deliver == \E p \in Peers : PeerResponds(p) \/ ReceiveHeaders(p) \/ ReceiveBlock(p)

Work == StoredBlock \/ AddHeaders \/ HeadersVerified \/ AddBlock \/ BlockVerified \/ BlockRefused(FALSE)

Fault ==
    \/ \E p \in Peers : ConnectionError(p) \/ ReceiveMalformed(p) \/ HeadersTimeout(p)
    \/ \E h \in Blocks : BlockTimeout(h)
    \/ BlockRefused(TRUE)
    \/ BlockFailed

Next ==
    \/ \E p \in Peers : Outbound(p) \/ Inbound(p)
    \/ \E p \in Peers, b \in Blocks, announce \in BOOLEAN : PeerAdopts(p, b, announce)
    \/ Deliver
    \/ Work
    \/ Fault

Spec == Init /\ [][Next]_vars
\* The event loop goes on while a connection can be made, a package is on its
\* way or a handler has work left.
Fairness == WF_vars((\E p \in Peers : Outbound(p)) \/ Deliver \/ Work)

FairSpec == Spec /\ Fairness

(***************************************************************************)
(* Properties                                                              *)
(***************************************************************************)
Hashes(p) == IF node.connMap[p] = None THEN {} ELSE node.connMap[p].hashes

\* Both tables of requested blocks agree, a block that waits for a window is
\* not requested as well, and whatever is requested or waits has a source: the
\* assertion of _onFreeBlockWnd never fails.  Blocks come, connections end and
\* windows shrink in any order.
RequestsAgree ==
    /\ \A b \in Blocks, p \in Peers : b \in Hashes(p) <=> node.hashMap[b] = p
    /\ IsInjective(node.pending)
    /\ \A b \in Range(node.pending) : node.hashMap[b] = None /\ node.sources[b] # {}
    /\ \A b \in Blocks : node.hashMap[b] # None => node.hashMap[b] \in node.sources[b]

\* A block waits only while a source of it owes an answer: pending blocks are
\* looked at when a block arrives and at no other time, so without that answer
\* the block would never be requested.
PendingDriven == \A b \in Range(node.pending) : \E p \in node.sources[b] : Hashes(p) # {}

\* No request is lost, doubled or forgotten.
RequestsKept == RequestsAgree /\ PendingDriven

\* The tip is a verified chain whose blocks are stored, and no verified block
\* is above it, in whatever order headers and blocks came.
TipVerified ==
    /\ \A b \in Range(Path[chain.tip]) : chain.verified[b] = "verified" /\ b \in node.stored
    /\ \A b \in Blocks : chain.verified[b] = "verified" => Number(b) <= Number(chain.tip)

\* The chain leaves the initial sync only with the last header that enough of
\* its outbound peers sent, or knew of, in its own verified chain or below its
\* tip.
SyncedCaughtUp ==
    [][chain.state = "syncing" /\ chain'.state = "synced" =>
         LET last(r) == IF r.lastRecv = None THEN r.lastReq ELSE r.lastRecv
             caughtUp(r) == r # None /\ r.state = "synced" /\ Number(last(r)) <= Number(chain'.tip)
         IN  InitialPeers <= Cardinality({p \in Peers : caughtUp(chain'.connSync[p])})]_vars

\* Without a fault and without a peer that is banned, the initial sync ends.
SyncEnds == <>(chain.state = "synced" \/ faults > 0 \/ wire.banned # {})

\* A comment of _addHeaders says of a synced connection that headers which were
\* not broadcast are always wrong, and their sender is banned for good.  A peer
\* that only answers and announces is not banned.
HonestNotBanned == faults = 0 /\ Invalid = {} => wire.banned = {}

\* Not checked by a run: a connection that ended leaves no headers request (the
\* comment of _onRecvHeaders), and the sync with each connection ends.
LostForgotten == \A p \in Peers : wire.conn[p] = "none" => node.requestingHeaders[p] = None

ConnectionSyncEnds ==
    \A p \in Peers : <>(\/ faults > 0 \/ wire.banned # {}
                        \/ chain.connSync[p] # None /\ chain.connSync[p].state = "synced")
=============================================================================
