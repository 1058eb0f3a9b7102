--------------------------- MODULE DbftConsensus ---------------------------
(***************************************************************************)
(* The dBFT consensus of src/src/core/dbft_chain: the state machine of     *)
(* consensus_node.ts, driven by the timers and messages it handles, with   *)
(* the miner (miner.ts of dbft_chain and of chain) that creates, executes  *)
(* and mines blocks for it, and as much of the chain as decides the tip.   *)
(*                                                                         *)
(* One JavaScript turn is one action: everything a handler does before it  *)
(* first awaits.  What it does after an await is a job of the miner.       *)
(***************************************************************************)
EXTENDS DbftContext

CONSTANTS
    Correct,        \* the nodes that run; the others are down throughout
    Links,          \* pairs of nodes that have a connection, both ways
    ExecOutcomes,   \* whether local storage and execution may fail
    EarlyTimers,    \* TRUE in it: a timer may fire just before its deadline
    Laggards,       \* nodes whose messages and work the clock may overtake
    MaxSkew,        \* bound: distance between two clocks
    MaxCrashes,     \* bound: restarts
    MaxLost,        \* bound: messages lost by broken connections
    MaxHeight,      \* bound: height of the chain
    MaxView,        \* bound: views of one height
    MaxTime         \* bound: block intervals since the genesis block

ASSUME ConsensusAssumption ==
    /\ Correct \subseteq Node
    /\ Links \subseteq Node \X Node
    /\ ExecOutcomes \subseteq BOOLEAN
    /\ EarlyTimers \subseteq BOOLEAN
    /\ Laggards \subseteq Node
    /\ {MaxSkew, MaxCrashes, MaxLost, MaxHeight, MaxView, MaxTime} \subseteq Nat
    /\ \A n \in 0 .. MaxHeight : GetElectionBlockNumber(n + 1) \in DOMAIN MinerLists

\* Arithmetic the proofs need and their provers do not know.
ASSUME PowersOfTwo ==
    \A v \in 0 .. MaxView + 2 :
        /\ 2 ^ v \in Nat
        /\ 2 ^ v > v
        /\ \A w \in 0 .. v : 2 ^ w <= 2 ^ v

VARIABLES
    headers,   \* every block header ever created; a block is its index here
    node,      \* DbftConsensusNode of each node
    miner,     \* DbftMiner of each node, with the tip of its chain
    net,       \* net[i][j]: messages on the wire from i to j, in order
    mined,     \* blocks that left a miner, with the signatures they carry
    signed,    \* <<address, block>>: every signature ever made
    clock,     \* Date.now() of each node, in block intervals after genesis
    crashes,   \* restarts so far
    lost       \* messages lost so far

vars == <<headers, node, miner, net, mined, signed, clock, crashes, lost>>

NoBlock == 0
NoTimer == 0
Genesis == 1

\* States that only exist while a handler runs, unless the node is no validator.
TransientStates == {"none", "changeViewSucc"}
ConsensusStates == TransientStates \cup
    {"waitingCreate", "waitingProposal", "waitingVerify", "waitingAgree",
     "waitingBlock", "changeViewSent"}

Validators(tip) == MembersOf(NextMinersAt(headers[tip].number))

DueMiner(tip, view) ==
    GetDueNextMiner(headers[tip], NextMinersAt(headers[tip].number), view)

IsPreBlock(tip, b) == headers[b].pre = tip

-----------------------------------------------------------------------------
(* The consensus node: what its methods make of its record.                *)

InitialNode ==
    [tip |-> NoBlock, state |-> "none", view |-> 0, expectView |-> 0,
     block |-> NoBlock, signs |-> {}, changeView |-> [a \in Node |-> 0],
     timer |-> NoTimer]

\* A node with a fresh context in the given state.
InState(n, state) == [n EXCEPT !.state = state, !.block = NoBlock, !.signs = {}]

\* The end of the interval the node waits in: the proposer creates its block
\* 2^(view+1)-1 intervals after the tip's time, the view ends at 2^(view+2)-2.
NextTime(n) ==
    headers[n.tip].totalView +
        IF n.state = "waitingCreate" THEN 2 ^ (n.view + 1) - 1
                                     ELSE 2 ^ (n.view + 2) - 2

\* The node i when _nextTimeout considers view v.
AtView(i, n, v) ==
    IF v = n.view /\ n.state \notin TransientStates
    THEN n
    ELSE [InState(n, IF i = DueMiner(n.tip, v) THEN "waitingCreate" ELSE "waitingProposal")
             EXCEPT !.view = v]

\* Mutant: a view whose deadline is now is entered once more.
LazyResetTimer(i, n, now) ==
    IF i \notin Validators(n.tip)
    THEN {n}
    ELSE {[AtView(i, n, v) EXCEPT !.timer = NextTime(AtView(i, n, v))] :
             v \in {w \in n.view .. MaxView :
                       /\ NextTime(AtView(i, n, w)) >= now
                       /\ \A u \in n.view .. w - 1 : NextTime(AtView(i, n, u)) < now}}

\* _resetTimer and _nextTimeout at time now: views whose time is over are
\* skipped.  The set has one element unless the views run out (MaxView).
ResetTimer(i, n, now) ==
    IF i \notin Validators(n.tip)
    THEN {n}
    ELSE {[AtView(i, n, v) EXCEPT !.timer = NextTime(AtView(i, n, v))] :
             v \in {w \in n.view .. MaxView :
                       /\ NextTime(AtView(i, n, w)) > now
                       /\ \A u \in n.view .. w - 1 : NextTime(AtView(i, n, u)) <= now}}

\* _cancel, after updateTip set the new tip.
WithTip(n, b) ==
    [InState(n, "none") EXCEPT !.tip = b, !.view = 0, !.changeView = [a \in Node |-> 0]]

\* _onChangeView up to its call of _resetTimer.
CountChangeView(n, view, id) ==
    LET votes == [n.changeView EXCEPT ![id] = view]
        count == Cardinality({a \in Node : votes[a] = view})
    IN  IF n.changeView[id] = view
        THEN n
        ELSE IF IsAgreeRateReached(Len(NextMinersAt(headers[n.tip].number)), count)
             THEN [InState(n, "changeViewSucc")
                      EXCEPT !.view = view, !.changeView = [a \in Node |-> 0]]
             ELSE [n EXCEPT !.changeView = votes]

\* _onPrepareResponse up to the event mineBlock; s is [addr, hash].
AddSign(n, s) ==
    LET fresh == \A t \in n.signs : t.addr # s.addr
        signs == n.signs \cup {s}
        enough == IsAgreeRateReached(Len(NextMinersAt(headers[n.tip].number)), Cardinality(signs))
    IN  IF s.addr \notin Validators(n.tip) \/ ~fresh
        THEN n
        ELSE CASE n.state \in {"waitingProposal", "waitingVerify"} ->
                     [n EXCEPT !.signs = signs]
               [] n.state = "waitingAgree" /\ s.hash = n.block ->
                     [n EXCEPT !.signs = signs,
                               !.state = IF enough THEN "waitingBlock" ELSE @]
               [] OTHER -> n

\* Mutant: signatures received early are taken over for whatever block they sign.
CarelessAgree(n, b) == [n EXCEPT !.state = "waitingAgree", !.block = b]

\* agreeProposal up to its own _onPrepareResponse.
Agree(n, b) ==
    [n EXCEPT !.state = "waitingAgree", !.block = b,
              !.signs = {s \in n.signs : s.hash = b}]

\* broadcastToValidators reaches the validators the node is connected to;
\* a connection keeps the order.
Broadcast(i, m) ==
    LET to == {j \in Validators(node[i].tip) \cap Correct : <<i, j>> \in Links /\ j # i}
    IN  [net EXCEPT ![i] = [j \in Node |-> IF j \in to THEN Append(@[j], m) ELSE @[j]]]

PrepareRequest(b) == [type |-> "prepareRequest", block |-> b]
PrepareResponse(i, b) == [type |-> "prepareResponse", addr |-> i, hash |-> b]
\* Mutant: the message asks for the view the sender is in.
StaleChangeView(i, view) ==
    [type |-> "changeview", addr |-> i, view |-> node[i].view, tip |-> node[i].tip]

\* The signature of a changeview message covers the hash of the sender's tip.
ChangeView(i, view) ==
    [type |-> "changeview", addr |-> i, view |-> view, tip |-> node[i].tip]

-----------------------------------------------------------------------------
(* The miner.                                                              *)

Job(op, b, signs) == [op |-> op, block |-> b, signs |-> signs]

AddJob(m, job) == [m EXCEPT !.jobs = @ \cup {job}]

\* The job moves on to another await, or ends.
Continue(m, job, next) == [m EXCEPT !.jobs = (@ \ {job}) \cup next]

\* _createExecuteRoutine: the new routine takes the miner over.
CreateRoutine(m, b) == [m EXCEPT !.routine = b]

\* _setIdle: only the routine that owns the miner frees it.
SetIdle(m, b) == [m EXCEPT !.routine = IF @ = b THEN NoBlock ELSE @]

\* The handler of mineBlock resolves the promise of _mineBlock; the routine
\* that waited for it goes on to the snapshot unless it was taken over.
MineBlock(m, n) ==
    IF m.routine = n.block
    THEN AddJob(SetIdle(m, n.block), Job("snapshot", n.block, n.signs))
    ELSE m

\* The miner after its consensus node went from n to n2 handling a signature.
AfterSign(m, n, n2) ==
    IF n.state # "waitingBlock" /\ n2.state = "waitingBlock" THEN MineBlock(m, n2) ELSE m

\* The ancestor of block b at height n, or b itself.
AncestorAt(b, n) ==
    LET up[x \in 1 .. Len(headers)] ==
            IF headers[x].number <= n THEN x ELSE up[headers[x].pre]
    IN  up[b]

\* DbftHeaderStorage.getMiners and getNextMiners find validators for block b only
\* if the block that elected them has a row in the miners table.
KnowsMiners(m, b) == AncestorAt(b, GetElectionBlockNumber(headers[b].number)) \in m.rows
KnowsNextMiners(m, b) == AncestorAt(b, GetElectionBlockNumber(headers[b].number + 1)) \in m.rows

\* DbftBlockHeader._verifySigns, with the validators getMiners finds for it.
VerifySigns(m) ==
    LET h == headers[m.block]
        miners == MinerLists[GetElectionBlockNumber(h.number)]
        valid == {a \in MembersOf(miners) : [addr |-> a, hash |-> m.block] \in m.signs}
    IN  /\ h.miner = GetDueNextMiner(headers[h.pre], miners, h.view)
        /\ IsAgreeRateReached(Cardinality(MembersOf(miners)), Cardinality(valid))

\* Mutant: a block of the tip's height replaces the tip.
EagerAddVerifiedBlock(m, b) ==
    IF headers[b].number >= headers[m.chainTip].number
    THEN [m EXCEPT !.stored = @ \cup {b}, !.chainTip = b,
                   !.rows = IF headers[b].pre \in @ THEN @ \cup {b} ELSE @]
    ELSE [m EXCEPT !.stored = @ \cup {b}]

\* _addVerifiedBlock.  A block higher than the tip becomes the tip;
\* DbftHeaderStorage.addHeader gives it a row, but fails when its parent has
\* none, because the parent never was the tip.
AddVerifiedBlock(m, b) ==
    IF headers[b].number > headers[m.chainTip].number
    THEN [m EXCEPT !.stored = @ \cup {b}, !.chainTip = b,
                   !.rows = IF headers[b].pre \in @ THEN @ \cup {b} ELSE @]
    ELSE [m EXCEPT !.stored = @ \cup {b}]

\* The chain emits tipBlock for a block that is its tip.
EmitTipBlock(m, b) == IF m.chainTip = b THEN [m EXCEPT !.tipUpdates = @ \cup {b}] ELSE m

-----------------------------------------------------------------------------
Init ==
    /\ headers = <<[pre |-> NoBlock, number |-> 0, view |-> 0,
                    miner |-> CHOOSE a \in Node : TRUE, totalView |-> 1]>>
    /\ node = [i \in Node |-> InitialNode]
    /\ miner = [i \in Node |-> [routine |-> NoBlock, jobs |-> {}, miningBlocks |-> {},
                                chainTip |-> Genesis, tipUpdates |-> {Genesis},
                                stored |-> {Genesis}, rows |-> {Genesis}]]
    /\ net = [i \in Node |-> [j \in Node |-> <<>>]]
    /\ mined = {}
    /\ signed = {}
    /\ clock = [i \in Node |-> 0]
    /\ crashes = 0
    /\ lost = 0

\* Mutant: _cancel forgets to set the timer for the new tip.
SilentUpdateTip(i) ==
    \E b \in miner[i].tipUpdates :
        /\ node' = IF node[i].tip = b
                   THEN node
                   ELSE [node EXCEPT ![i] = WithTip(@, b)]
        /\ miner' = [miner EXCEPT ![i].tipUpdates = @ \ {b}]
        /\ UNCHANGED <<headers, net, mined, signed, clock, crashes, lost>>

\* DbftMiner._updateTip ends: it looked up the validators and the total view
\* of a tip the chain announced.  Lookups of two tips may end in any order, and
\* a lookup that fails leaves the consensus node on the tip it has.
UpdateTip(i) ==
    \E b \in miner[i].tipUpdates, ok \in ExecOutcomes :
        /\ IF ~ok \/ ~KnowsNextMiners(miner[i], b) \/ b \notin miner[i].rows \/ node[i].tip = b
           THEN UNCHANGED node
           ELSE \E n \in ResetTimer(i, WithTip(node[i], b), clock[i]) :
                    node' = [node EXCEPT ![i] = n]
        /\ miner' = [miner EXCEPT ![i].tipUpdates = @ \ {b}]
        /\ UNCHANGED <<headers, net, mined, signed, clock, crashes, lost>>

TimerFires(i) ==
    /\ node[i].timer # NoTimer
    /\ node[i].timer <= clock[i]
    /\ headers[node[i].tip].number < MaxHeight

\* _onTimeout of the proposer: a header is created, and the handler of
\* createBlock starts to fill the block if the chain is still on that tip.
OnTimeoutCreate(i) ==
    LET n == node[i]
        b == Len(headers) + 1
        fired == [InState(n, "waitingProposal") EXCEPT !.timer = NoTimer]
    IN  /\ TimerFires(i)
        /\ n.state = "waitingCreate"
        /\ headers' = Append(headers,
               [pre |-> n.tip, number |-> headers[n.tip].number + 1, view |-> n.view, miner |-> i,
                totalView |-> headers[n.tip].totalView + 2 ^ (n.view + 1) - 1])
        /\ \E r \in ResetTimer(i, fired, clock[i]) : node' = [node EXCEPT ![i] = r]
        /\ miner' = IF miner[i].chainTip = n.tip
                    THEN [miner EXCEPT ![i] = AddJob(@, Job("decorate", b, {}))]
                    ELSE miner
        /\ UNCHANGED <<net, mined, signed, clock, crashes, lost>>

\* _onTimeout in any other state asks for the next view.  If the timer was
\* early, its deadline is still ahead when _resetTimer looks at the time.
OnTimeoutChangeView(i) ==
    \E early \in EarlyTimers :
    LET n == node[i]
        newView == (IF n.state = "changeViewSent" THEN n.expectView ELSE n.view) + 1
        sent == [InState(n, "changeViewSent") EXCEPT !.expectView = newView, !.timer = NoTimer]
    IN  /\ TimerFires(i)
        /\ n.state # "waitingCreate"
        /\ early => n.timer = clock[i]
        /\ newView <= MaxView
        /\ \E r \in ResetTimer(i, CountChangeView(sent, newView, i),
                               IF early THEN clock[i] - 1 ELSE clock[i]) :
               node' = [node EXCEPT ![i] = r]
        /\ net' = Broadcast(i, ChangeView(i, newView))
        /\ UNCHANGED <<headers, miner, mined, signed, clock, crashes, lost>>

\* Mutant: an agreed view is entered without setting the timer for it.
SilentOnChangeView(i, m) ==
    /\ m.type = "changeview"
    /\ node' = IF m.tip # node[i].tip
               THEN node
               ELSE [node EXCEPT ![i] = CountChangeView(@, m.view, m.addr)]
    /\ UNCHANGED <<headers, miner, mined, signed, clock, crashes, lost>>

\* A changeview message is dropped unless it was signed for the receiver's tip.
OnChangeView(i, m) ==
    LET n == CountChangeView(node[i], m.view, m.addr)
    IN  /\ m.type = "changeview"
        /\ IF m.tip # node[i].tip
           THEN UNCHANGED node
           ELSE \E r \in IF n.state = "changeViewSucc" THEN ResetTimer(i, n, clock[i]) ELSE {n} :
                    node' = [node EXCEPT ![i] = r]
        /\ UNCHANGED <<headers, miner, mined, signed, clock, crashes, lost>>

\* The proposal of the view the node waits in; the handler of verifyBlock
\* takes the miner over with a routine that executes the block.
AcceptsProposal(n, b) ==
    /\ n.tip # NoBlock
    /\ n.state = "waitingProposal"
    /\ IsPreBlock(n.tip, b)
    /\ headers[b].view = n.view
    /\ headers[b].miner = DueMiner(n.tip, n.view)

OnPrepareRequest(i, m) ==
    /\ m.type = "prepareRequest"
    /\ IF AcceptsProposal(node[i], m.block)
       THEN /\ node' = [node EXCEPT ![i] = [@ EXCEPT !.state = "waitingVerify", !.block = m.block]]
            /\ miner' = [miner EXCEPT ![i] =
                   AddJob(CreateRoutine(@, m.block), Job("execute", m.block, {}))]
       ELSE UNCHANGED <<node, miner>>
    /\ UNCHANGED <<headers, mined, signed, clock, crashes, lost>>

OnPrepareResponse(i, m) ==
    LET n == IF node[i].tip = NoBlock
             THEN node[i]
             ELSE AddSign(node[i], [addr |-> m.addr, hash |-> m.hash])
    IN  /\ m.type = "prepareResponse"
        /\ node' = [node EXCEPT ![i] = n]
        /\ miner' = [miner EXCEPT ![i] = AfterSign(@, node[i], n)]
        /\ UNCHANGED <<headers, mined, signed, clock, crashes, lost>>

Receive(i) ==
    \E j \in Node :
        /\ net[j][i] # <<>>
        /\ net' = [net EXCEPT ![j][i] = Tail(@)]
        /\ LET m == Head(net[j][i])
           IN  OnChangeView(i, m) \/ OnPrepareRequest(i, m) \/ OnPrepareResponse(i, m)

\* A connection breaks and loses a message.
Lose ==
    /\ lost < MaxLost
    /\ lost' = lost + 1
    /\ \E i, j \in Node :
          /\ net[i][j] # <<>>
          /\ net' = [net EXCEPT ![i][j] = Tail(@)]
    /\ UNCHANGED <<headers, node, miner, mined, signed, clock, crashes>>

\* DbftMiner._createBlock after _decorateBlock: the routine is created ...
CreateBlock(i) ==
    \E job \in miner[i].jobs :
        /\ job.op = "decorate"
        /\ miner' = [miner EXCEPT ![i] =
               Continue(CreateRoutine(@, job.block), job, {Job("propose", job.block, {})})]
        /\ UNCHANGED <<headers, node, net, mined, signed, clock, crashes, lost>>

\* ... and once its storage exists, newProposal is called.  newProposal looks
\* at the state and at the tip, not at the view the block was created for.
NewProposal(i) ==
    \E job \in miner[i].jobs, ok \in ExecOutcomes :
        LET b == job.block
            accepted == ok /\ node[i].state = "waitingProposal" /\ IsPreBlock(node[i].tip, b)
        IN  /\ job.op = "propose"
            /\ IF accepted
               THEN /\ node' = [node EXCEPT ![i] = [InState(@, "waitingVerify") EXCEPT !.block = b]]
                    /\ net' = Broadcast(i, PrepareRequest(b))
                    /\ miner' = [miner EXCEPT ![i] = Continue(@, job, {Job("execute", b, {})})]
               ELSE /\ miner' = [miner EXCEPT ![i] = SetIdle(Continue(@, job, {}), b)]
                    /\ UNCHANGED <<node, net>>
            /\ UNCHANGED <<headers, mined, signed, clock, crashes, lost>>

\* The execution of a block ends.  Unless it failed, was cancelled by a later
\* routine or belongs to a block mined before, _mineBlock calls agreeProposal,
\* which signs the executed block if the node still waits for a verification.
Execute(i) ==
    \E job \in miner[i].jobs, ok \in ExecOutcomes :
        LET b == job.block
            n == node[i]
            m == Continue(miner[i], job, {})
            mining == [m EXCEPT !.miningBlocks = @ \cup {b}]
            agreed == AddSign(Agree(n, b), [addr |-> i, hash |-> b])
        IN  /\ job.op = "execute"
            /\ IF ~ok \/ m.routine # b \/ b \in m.miningBlocks
               THEN /\ miner' = [miner EXCEPT ![i] = SetIdle(m, b)]
                    /\ UNCHANGED <<node, net, signed>>
               ELSE IF n.state = "waitingVerify" /\ IsPreBlock(n.tip, b)
               THEN /\ node' = [node EXCEPT ![i] = agreed]
                    /\ miner' = [miner EXCEPT ![i] = AfterSign(mining, n, agreed)]
                    /\ net' = Broadcast(i, PrepareResponse(i, b))
                    /\ signed' = signed \cup {<<i, b>>}
               ELSE /\ miner' = [miner EXCEPT ![i] = mining]
                    /\ UNCHANGED <<node, net, signed>>
            /\ UNCHANGED <<headers, mined, clock, crashes, lost>>

\* createSnapshot ends and addMinedBlock hands the block to the chain.
AddMinedBlock(i) ==
    \E job \in miner[i].jobs, ok \in ExecOutcomes :
        LET m == Continue(miner[i], job, {})
        IN  /\ job.op = "snapshot"
            /\ miner' = [miner EXCEPT ![i] =
                   IF ok THEN EmitTipBlock(AddVerifiedBlock(m, job.block), job.block) ELSE m]
            /\ mined' = IF ok THEN mined \cup {[block |-> job.block, signs |-> job.signs]} ELSE mined
            /\ UNCHANGED <<headers, node, net, signed, clock, crashes, lost>>

\* The chain of node i gets a mined block from a peer, over a block it has, and
\* verifies it.  It does not tell the miner while it is synchronising with the
\* peer, which only happens to a node that fell behind.
AddBlock(i) ==
    \E m \in mined, syncing \in BOOLEAN :
        /\ syncing => i \in Laggards
        /\ m.block \notin miner[i].stored
        /\ headers[m.block].pre \in miner[i].stored
        /\ KnowsMiners(miner[i], m.block)
        /\ VerifySigns(m)
        /\ LET added == AddVerifiedBlock(miner[i], m.block)
           IN  miner' = [miner EXCEPT ![i] =
                            IF syncing THEN added ELSE EmitTipBlock(added, m.block)]
        /\ UNCHANGED <<headers, node, net, mined, signed, clock, crashes, lost>>

\* The process restarts: only the chain on disk survives.
Crash(i) ==
    /\ crashes < MaxCrashes
    /\ crashes' = crashes + 1
    /\ node' = [node EXCEPT ![i] = InitialNode]
    /\ miner' = [miner EXCEPT ![i] = [@ EXCEPT !.routine = NoBlock, !.jobs = {},
                     !.miningBlocks = {}, !.tipUpdates = {miner[i].chainTip}]]
    /\ net' = [j \in Node |-> [net[j] EXCEPT ![i] = <<>>]]
    /\ UNCHANGED <<headers, mined, signed, clock, lost>>

\* The nodes that keep up have nothing left to do before the clock moves on.
Quiet ==
    LET timely == Correct \ Laggards
    IN  \A i \in timely :
          /\ miner[i].jobs = {} /\ miner[i].tipUpdates = {}
          /\ ~TimerFires(i)
          /\ \A j \in timely :
                /\ net[j][i] = <<>>
                /\ headers[miner[j].chainTip].number <= headers[miner[i].chainTip].number

\* Time passes at the nodes of a set S.
Tick ==
    \E S \in SUBSET Correct \ {{}} :
        /\ Quiet
        /\ clock' = [i \in Node |-> IF i \in S THEN clock[i] + 1 ELSE clock[i]]
        /\ \A i, j \in Correct : clock'[i] <= MaxTime /\ clock'[i] - clock'[j] <= MaxSkew
        /\ UNCHANGED <<headers, node, miner, net, mined, signed, crashes, lost>>

NodeStep(i) ==
    \/ UpdateTip(i) \/ OnTimeoutCreate(i) \/ OnTimeoutChangeView(i) \/ Receive(i)
    \/ CreateBlock(i) \/ NewProposal(i) \/ Execute(i) \/ AddMinedBlock(i) \/ AddBlock(i)

Next == Tick \/ Lose \/ \E i \in Correct : NodeStep(i) \/ Crash(i)

Spec == Init /\ [][Next]_vars

\* Running nodes keep handling events, and time goes on.
FairSpec == Spec /\ WF_vars(Tick) /\ \A i \in Correct : WF_vars(NodeStep(i))

-----------------------------------------------------------------------------
(* Properties.                                                             *)

Sign == [addr : Node, hash : Nat]
Header == [pre : Nat, number : Nat, view : 0 .. MaxView, miner : Node, totalView : Nat]
NodeRecord ==
    [tip : Nat, state : ConsensusStates, view : 0 .. MaxView, expectView : 0 .. MaxView,
     block : Nat, signs : SUBSET Sign, changeView : [Node -> 0 .. MaxView], timer : Nat]
JobRecord ==
    [op : {"decorate", "propose", "execute", "snapshot"}, block : Nat, signs : SUBSET Sign]
MinerRecord ==
    [routine : Nat, jobs : SUBSET JobRecord, miningBlocks : SUBSET Nat,
     chainTip : Nat, tipUpdates : SUBSET Nat, stored : SUBSET Nat, rows : SUBSET Nat]
Message ==
    [type : {"prepareRequest"}, block : Nat]
        \cup [type : {"prepareResponse"}, addr : Node, hash : Nat]
        \cup [type : {"changeview"}, addr : Node, view : 1 .. MaxView, tip : Nat]

\* Every variable holds values of the shape the code gives it.
TypeOK ==
    /\ headers \in Seq(Header)
    /\ node \in [Node -> NodeRecord]
    /\ miner \in [Node -> MinerRecord]
    /\ net \in [Node -> [Node -> Seq(Message)]]
    /\ mined \subseteq [block : Nat, signs : SUBSET Sign]
    /\ signed \subseteq Node \X Nat
    /\ clock \in [Node -> Nat]
    /\ crashes \in 0 .. MaxCrashes
    /\ lost \in 0 .. MaxLost

\* A proposer creates at most one block for a view over one parent, although it
\* may enter the view again on a late quorum of changeview messages or after a
\* restart: by then the time to create it is over (_nextTimeout).
OneProposalPerView ==
    \A b1, b2 \in 1 .. Len(headers) :
        headers[b1].pre = headers[b2].pre /\ headers[b1].view = headers[b2].view => b1 = b2

\* A block that leaves the miner passes the check every other node makes of
\* it: it comes from the proposer its view is due to and carries signatures,
\* for this block, of the agreed share of the validators (block.ts).
MinedBlocksVerify == \A m \in mined : VerifySigns(m)

\* A validator that knows a tip always has a timer, set for the deadline of
\* the view and state it is in: no handler may leave it waiting for ever.
TimerArmed ==
    \A i \in Correct :
        node[i].tip # NoBlock /\ i \in Validators(node[i].tip) =>
            /\ node[i].state \notin TransientStates
            /\ node[i].timer = NextTime(node[i])

\* The certified blocks and the chains behave like the tree of BlockTree.
Decided ==
    {[id |-> b, pre |-> headers[b].pre, number |-> headers[b].number, view |-> headers[b].view] :
        b \in {Genesis} \cup {m.block : m \in mined}}

Tree == INSTANCE BlockTree WITH
            decided <- Decided, tip <- [i \in Node |-> miner[i].chainTip]

TreeSpec == Tree!Spec

\* "won't fork" (chain.ts of dbft_chain): certified blocks of one height are equal.
NoFork ==
    \A m1, m2 \in mined :
        headers[m1.block].number = headers[m2.block].number => m1.block = m2.block

\* The tip of the consensus node is replaced only by a tip of more work.
TipGainsWork ==
    [][\A i \in Correct :
          node[i].tip # NoBlock /\ node'[i].tip # NoBlock /\ node'[i].tip # node[i].tip =>
              headers'[node'[i].tip].number > headers[node[i].tip].number]_vars

\* If messages and executions are faster than the clock, the running nodes
\* agree on block after block, also over the views of a proposer that is down.
BlocksGetMined ==
    <>(\A i \in Correct : headers[miner[i].chainTip].number = MaxHeight)
=============================================================================
