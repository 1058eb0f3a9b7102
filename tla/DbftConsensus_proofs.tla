------------------------ MODULE DbftConsensus_proofs ------------------------
(***************************************************************************)
(* The safety of the dBFT consensus, for any set of nodes, validators,     *)
(* bounds and faults.  First one view: a proposer makes one block of it,   *)
(* so it certifies at most one block, and no validator is left without a   *)
(* timer.  Then what certified blocks are worth (below).                   *)
(*                                                                         *)
(* The argument is about time.  A node only starts to wait for the moment  *)
(* of its proposal while that moment is ahead of its clock (ResetTimer),   *)
(* it proposes when the moment has come, and its clock never goes back,    *)
(* not in a restart either.  So whoever waits has not proposed yet.        *)
(***************************************************************************)
EXTENDS DbftConsensus, FiniteSetTheorems, SequenceTheorems, TLAPS

Known == 1 .. Len(headers)

\* The moment at which the proposer of a view over a tip makes its block.
CreateTime(tip, view) == headers[tip].totalView + 2 ^ (view + 1) - 1

\* Every header but the first has a parent, comes from the proposer its view is
\* due to, and was made when its time had come on that proposer's clock.
ProposalsInTime ==
    \A b \in Known \ {Genesis} :
        /\ headers[b].pre \in Known
        /\ headers[b].miner = DueMiner(headers[b].pre, headers[b].view)
        /\ clock[headers[b].miner] >= CreateTime(headers[b].pre, headers[b].view)

GenesisFirst == headers # <<>> /\ headers[Genesis].pre = NoBlock

\* A node that waits to propose is the proposer and has not proposed yet.
NotProposedYet(i, n) ==
    /\ n.tip \in Known
    /\ i = DueMiner(n.tip, n.view)
    /\ \A b \in Known : headers[b].pre = n.tip => headers[b].view # n.view

\* What holds of the record of one consensus node i.
NodeOK(i, n) ==
    /\ n \in NodeRecord
    /\ n.tip \in Known \cup {NoBlock}
    /\ n.tip = NoBlock => n.timer = NoTimer /\ n.state = "none"
    /\ n.state \in {"waitingVerify", "waitingAgree", "waitingBlock"} => n.block \in Known
    /\ n.state = "changeViewSent" => n.expectView >= n.view
    /\ n.state = "waitingCreate" => NotProposedYet(i, n)
    /\ n.tip # NoBlock /\ i \in Validators(n.tip) =>
          n.state \notin TransientStates /\ n.timer = NextTime(n)

\* What holds of a miner: it only knows blocks that exist.
MinerOK(m) ==
    /\ m \in MinerRecord
    /\ m.chainTip \in Known
    /\ m.tipUpdates \subseteq Known
    /\ \A job \in m.jobs : job.block \in Known

KnownMessage ==
    {m \in Message :
        /\ m.type = "prepareRequest" => m.block \in Known
        /\ m.type = "changeview" => m.tip \in Known}

\* The wires between the nodes carry such messages.
Wires == [Node -> [Node -> Seq(KnownMessage)]]

IInv ==
    /\ TypeOK
    /\ GenesisFirst
    /\ ProposalsInTime
    /\ OneProposalPerView
    /\ \A i \in Node : NodeOK(i, node[i])
    /\ \A i \in Node : MinerOK(miner[i])
    /\ net \in Wires
    /\ \A m \in mined : m.block \in Known

-----------------------------------------------------------------------------
(* Operators.                                                              *)

\* A list of validators has a member, so there is a node.
LEMMA MinersNotEmpty ==
    ASSUME NEW k \in DOMAIN MinerLists
    PROVE  Len(MinerLists[k]) \in Nat \ {0} /\ MinerLists[k] \in Seq(Node) /\ Node # {}
  <1>1. MinerLists[k] \in Seq(Node) /\ MinerLists[k] # <<>>
    BY ContextAssumption DEF ContextAssumption
  <1>2. Len(MinerLists[k]) # 0 /\ Len(MinerLists[k]) \in Nat
    BY <1>1
  <1>3. MinerLists[k][1] \in Node
    BY <1>1, <1>2
  <1> QED
    BY <1>1, <1>2, <1>3

LEMMA MaxViewType == MaxView \in Nat /\ MaxHeight \in Nat
  BY ConsensusAssumption DEF ConsensusAssumption

\* The powers of two of the deadlines of a view.
LEMMA Powers ==
    ASSUME NEW v \in 0 .. MaxView
    PROVE  /\ 2 ^ (v + 1) \in Nat \ {0}
           /\ 2 ^ (v + 2) \in Nat \ {0, 1, 2}
  <1>1. v + 1 \in 0 .. MaxView + 2 /\ v + 2 \in 0 .. MaxView + 2
    BY ConsensusAssumption DEF ConsensusAssumption
  <1>2. 2 ^ (v + 1) \in Nat /\ 2 ^ (v + 1) > v + 1
    BY <1>1, PowersOfTwo DEF PowersOfTwo
  <1>3. 2 ^ (v + 2) \in Nat /\ 2 ^ (v + 2) > v + 2
    BY <1>1, PowersOfTwo DEF PowersOfTwo
  <1> QED
    BY <1>2, <1>3

LEMMA PowersGrow ==
    ASSUME NEW v \in 0 .. MaxView, NEW w \in 0 .. MaxView, v < w
    PROVE  2 ^ (v + 2) <= 2 ^ (w + 1)
  <1>1. w + 1 \in 0 .. MaxView + 2 /\ v + 2 \in 0 .. w + 1
    BY ConsensusAssumption DEF ConsensusAssumption
  <1> QED
    BY <1>1, PowersOfTwo DEF PowersOfTwo

LEMMA HeaderType ==
    ASSUME TypeOK, NEW b \in Known
    PROVE  headers[b] \in Header
  BY DEF TypeOK, Known

\* The deadline of a node is a time.
LEMMA NextTimeType ==
    ASSUME TypeOK, NEW n \in NodeRecord, n.tip \in Known
    PROVE  /\ NextTime(n) \in Nat
           /\ n.state = "waitingCreate" => NextTime(n) = CreateTime(n.tip, n.view)
           /\ n.state # "waitingCreate" =>
                 NextTime(n) = headers[n.tip].totalView + 2 ^ (n.view + 2) - 2
  <1>1. n.view \in 0 .. MaxView
    BY DEF NodeRecord
  <1>2. headers[n.tip].totalView \in Nat
    BY HeaderType DEF Header
  <1>3. 2 ^ (n.view + 1) \in Nat \ {0} /\ 2 ^ (n.view + 2) \in Nat \ {0, 1, 2}
    BY <1>1, Powers
  <1> QED
    BY <1>2, <1>3 DEF NextTime, CreateTime

\* A record that only changes what the deadline does not depend on.
LEMMA InStateType ==
    ASSUME NEW n \in NodeRecord, NEW s \in ConsensusStates
    PROVE  /\ InState(n, s) \in NodeRecord
           /\ InState(n, s).state = s
           /\ InState(n, s).tip = n.tip
           /\ InState(n, s).view = n.view
           /\ InState(n, s).expectView = n.expectView
           /\ InState(n, s).timer = n.timer
  BY DEF InState, NodeRecord, NoBlock

\* A node that moves to a view it is not in yet waits for its first step there.
LEMMA AtViewType ==
    ASSUME NEW i \in Node, NEW n \in NodeRecord, NEW v \in 0 .. MaxView
    PROVE  /\ AtView(i, n, v) \in NodeRecord
           /\ AtView(i, n, v).tip = n.tip
           /\ AtView(i, n, v).view = v
           /\ AtView(i, n, v).state \notin TransientStates
           /\ \/ AtView(i, n, v) = n /\ v = n.view
              \/ /\ AtView(i, n, v).state = "waitingCreate"
                 /\ i = DueMiner(n.tip, v)
                 /\ v # n.view \/ n.state \in TransientStates
              \/ AtView(i, n, v).state = "waitingProposal"
  <1>1. CASE v = n.view /\ n.state \notin TransientStates
    BY <1>1 DEF AtView
  <1>2. CASE ~(v = n.view /\ n.state \notin TransientStates)
    <2> DEFINE s == IF i = DueMiner(n.tip, v) THEN "waitingCreate" ELSE "waitingProposal"
    <2>1. s \in ConsensusStates /\ s \notin TransientStates
      BY DEF ConsensusStates, TransientStates
    <2>2. AtView(i, n, v) = [InState(n, s) EXCEPT !.view = v]
      BY <1>2 DEF AtView
    <2>3. /\ InState(n, s) \in NodeRecord
          /\ InState(n, s).state = s
          /\ InState(n, s).tip = n.tip
      BY <2>1, InStateType
    <2> HIDE DEF s
    <2>4. /\ AtView(i, n, v) \in NodeRecord
          /\ AtView(i, n, v).tip = n.tip
          /\ AtView(i, n, v).view = v
          /\ AtView(i, n, v).state = s
      BY <2>2, <2>3 DEF NodeRecord
    <2> QED
      BY <2>1, <2>4, <1>2 DEF s
  <1> QED
    BY <1>1, <1>2

\* Where _resetTimer may find a node: not in the middle of a round.
Resettable(n) ==
    /\ n \in NodeRecord
    /\ n.tip \in Known
    /\ n.state \in {"none", "changeViewSucc", "waitingProposal", "changeViewSent"}
    /\ n.state = "changeViewSent" => n.expectView >= n.view

\* The moments still to come after now, at the views a node can move to, are
\* moments its clock has not reached.
AheadOfClock(i, n, now) ==
    \A v \in 0 .. MaxView :
        /\ v > n.view \/ (v = n.view /\ n.state \in TransientStates)
        /\ CreateTime(n.tip, v) > now
        => CreateTime(n.tip, v) > clock[i]

\* A proposal whose time is still to come has not been made.
LEMMA StillToCome ==
    ASSUME TypeOK, GenesisFirst, ProposalsInTime,
           NEW i \in Node, NEW tip \in Known, NEW v \in 0 .. MaxView,
           i = DueMiner(tip, v), CreateTime(tip, v) > clock[i],
           NEW b \in Known, headers[b].pre = tip
    PROVE  headers[b].view # v
  <1>1. b # Genesis
    BY DEF GenesisFirst, Known, NoBlock
  <1>2. /\ headers[b].miner = DueMiner(tip, headers[b].view)
        /\ clock[headers[b].miner] >= CreateTime(tip, headers[b].view)
    BY <1>1 DEF ProposalsInTime
  <1>3. SUFFICES ASSUME headers[b].view = v PROVE FALSE
    OBVIOUS
  <1>4. clock[i] >= CreateTime(tip, v)
    BY <1>2, <1>3
  <1>5. clock[i] \in Nat /\ CreateTime(tip, v) \in Int
    <2>1. headers[tip].totalView \in Nat
      BY HeaderType DEF Header
    <2> QED
      BY <2>1, Powers DEF TypeOK, CreateTime
  <1> QED
    BY <1>4, <1>5

\* _resetTimer leaves a validator in a view with a timer set for its deadline.
LEMMA ResetTimerOK ==
    ASSUME TypeOK, GenesisFirst, ProposalsInTime,
           NEW i \in Node, NEW n, NEW now \in Int,
           Resettable(n), AheadOfClock(i, n, now),
           NEW r \in ResetTimer(i, n, now)
    PROVE  NodeOK(i, r)
  <1>1. CASE i \notin Validators(n.tip)
    <2>1. r = n
      BY <1>1 DEF ResetTimer
    <2>2. n.tip # NoBlock
      BY DEF Resettable, Known, NoBlock
    <2> QED
      BY <1>1, <2>1, <2>2 DEF NodeOK, Resettable
  <1>2. CASE i \in Validators(n.tip)
    <2>1. PICK v \in n.view .. MaxView :
             /\ NextTime(AtView(i, n, v)) > now
             /\ r = [AtView(i, n, v) EXCEPT !.timer = NextTime(AtView(i, n, v))]
      BY <1>2 DEF ResetTimer
    <2> DEFINE at == AtView(i, n, v)
    <2>2. n \in NodeRecord /\ n.tip \in Known /\ v \in 0 .. MaxView /\ v >= n.view
      BY DEF Resettable, NodeRecord
    <2>3. /\ at \in NodeRecord
          /\ at.tip = n.tip
          /\ at.view = v
          /\ at.state \notin TransientStates
      BY <2>2, AtViewType
    <2>4. \/ at = n /\ v = n.view
          \/ /\ at.state = "waitingCreate"
             /\ i = DueMiner(n.tip, v)
             /\ v # n.view \/ n.state \in TransientStates
          \/ at.state = "waitingProposal"
      BY <2>2, AtViewType
    <2>5. NextTime(at) \in Nat
      BY <2>2, <2>3, NextTimeType
    <2>6. at.state = "waitingCreate" => NextTime(at) = CreateTime(n.tip, v)
      BY <2>2, <2>3, NextTimeType
    <2>7. r = [at EXCEPT !.timer = NextTime(at)] /\ NextTime(at) > now
      BY <2>1
    <2> HIDE DEF at
    <2>8. /\ r \in NodeRecord
          /\ r.tip = at.tip /\ r.view = at.view /\ r.state = at.state
          /\ r.expectView = at.expectView /\ r.timer = NextTime(at)
      BY <2>3, <2>5, <2>7 DEF NodeRecord
    <2>9. NextTime(r) = NextTime(at)
      BY <2>8 DEF NextTime
    <2>10. at.state \in {"waitingCreate", "none", "changeViewSucc", "waitingProposal", "changeViewSent"}
      BY <2>4 DEF Resettable
    <2>11. r.state = "changeViewSent" => r.expectView >= r.view
      BY <2>4, <2>8 DEF Resettable
    <2>12. r.state = "waitingCreate" => NotProposedYet(i, r)
      <3> SUFFICES ASSUME r.state = "waitingCreate" PROVE NotProposedYet(i, r)
        OBVIOUS
      <3>1. /\ at.state = "waitingCreate"
            /\ i = DueMiner(n.tip, v)
            /\ v # n.view \/ n.state \in TransientStates
        BY <2>4, <2>8 DEF Resettable
      <3>2. v > n.view \/ (v = n.view /\ n.state \in TransientStates)
        BY <2>2, <3>1 DEF NodeRecord
      <3>3. CreateTime(n.tip, v) > now
        BY <2>6, <2>7, <3>1
      <3>4. CreateTime(n.tip, v) > clock[i]
        BY <2>2, <3>2, <3>3 DEF AheadOfClock
      <3>5. \A b \in Known : headers[b].pre = n.tip => headers[b].view # v
        BY <2>2, <3>1, <3>4, StillToCome
      <3> QED
        BY <2>2, <2>3, <2>8, <3>1, <3>5 DEF NotProposedYet
    <2> QED
      BY <2>2, <2>3, <2>8, <2>9, <2>10, <2>11, <2>12 DEF NodeOK, Known, NoBlock
  <1> QED
    BY <1>1, <1>2

\* A timer that fires on time looks at the very clock.
LEMMA OnTime ==
    ASSUME NEW i, NEW n
    PROVE  AheadOfClock(i, n, clock[i])
  BY DEF AheadOfClock

\* The fields of a record that its deadline depends on, but for the state.
SamePlace(n, c) ==
    /\ c.tip = n.tip
    /\ c.view = n.view
    /\ c.expectView = n.expectView
    /\ c.timer = n.timer

RoundStates == {"waitingProposal", "waitingVerify", "waitingAgree", "waitingBlock"}

\* Steps of a round, and steps that change neither state nor block, keep NodeOK.
LEMMA RoundOK ==
    ASSUME NEW i \in Node, NEW n, NodeOK(i, n), NEW c \in NodeRecord, SamePlace(n, c),
           \/ c.state = n.state /\ c.block = n.block
           \/ /\ n.state \in RoundStates /\ c.state \in RoundStates \ {"waitingProposal"}
              /\ c.block \in Known
    PROVE  NodeOK(i, c)
  <1>1. CASE c.state = n.state /\ c.block = n.block
    <2>1. NextTime(c) = NextTime(n)
      BY <1>1 DEF NextTime, SamePlace
    <2>2. NotProposedYet(i, n) => NotProposedYet(i, c)
      BY DEF NotProposedYet, SamePlace
    <2> QED
      BY <1>1, <2>1, <2>2 DEF NodeOK, SamePlace
  <1>2. CASE /\ n.state \in RoundStates /\ c.state \in RoundStates \ {"waitingProposal"}
             /\ c.block \in Known
    <2>1. NextTime(c) = NextTime(n)
      BY <1>2 DEF NextTime, SamePlace, RoundStates
    <2>2. n.tip # NoBlock
      BY <1>2 DEF NodeOK, RoundStates, NotProposedYet
    <2> QED
      BY <1>2, <2>1 DEF NodeOK, SamePlace, RoundStates, TransientStates
  <1> QED
    BY <1>1, <1>2

LEMMA WithTipOK ==
    ASSUME NEW n \in NodeRecord, NEW b \in Known
    PROVE  Resettable(WithTip(n, b))
  <1>1. "none" \in ConsensusStates
    BY DEF ConsensusStates, TransientStates
  <1>2. InState(n, "none") \in NodeRecord /\ InState(n, "none").state = "none"
    BY <1>1, InStateType
  <1>3. WithTip(n, b) = [InState(n, "none") EXCEPT !.tip = b, !.view = 0,
                            !.changeView = [a \in Node |-> 0]]
    BY DEF WithTip
  <1>4. [a \in Node |-> 0] \in [Node -> 0 .. MaxView] /\ 0 \in 0 .. MaxView /\ b \in Nat
    BY MaxViewType DEF Known
  <1>5. /\ WithTip(n, b) \in NodeRecord
        /\ WithTip(n, b).tip = b
        /\ WithTip(n, b).state = "none"
    BY <1>2, <1>3, <1>4 DEF NodeRecord
  <1> QED
    BY <1>5 DEF Resettable

LEMMA CountChangeViewType ==
    ASSUME NEW n \in NodeRecord, NEW view \in 0 .. MaxView, NEW id \in Node,
           NEW c, c = CountChangeView(n, view, id)
    PROVE  /\ c \in NodeRecord
           /\ c.tip = n.tip
           /\ c.expectView = n.expectView
           /\ c.timer = n.timer
           /\ \/ c.state = "changeViewSucc" /\ c.view = view
              \/ c.state = n.state /\ c.view = n.view /\ c.block = n.block
  <1> DEFINE votes == [n.changeView EXCEPT ![id] = view]
             succ == [InState(n, "changeViewSucc")
                         EXCEPT !.view = view, !.changeView = [a \in Node |-> 0]]
  <1>1. \/ c = n
        \/ c = succ
        \/ c = [n EXCEPT !.changeView = votes]
    BY DEF CountChangeView
  <1>2. CASE c = n
    BY <1>2
  <1>3. CASE c = succ
    <2>1. "changeViewSucc" \in ConsensusStates
      BY DEF ConsensusStates, TransientStates
    <2>2. /\ InState(n, "changeViewSucc") \in NodeRecord
          /\ InState(n, "changeViewSucc").state = "changeViewSucc"
          /\ InState(n, "changeViewSucc").tip = n.tip
          /\ InState(n, "changeViewSucc").expectView = n.expectView
          /\ InState(n, "changeViewSucc").timer = n.timer
      BY <2>1, InStateType
    <2>3. [a \in Node |-> 0] \in [Node -> 0 .. MaxView]
      BY MaxViewType
    <2> QED
      BY <1>3, <2>2, <2>3 DEF NodeRecord
  <1>4. CASE c = [n EXCEPT !.changeView = votes]
    <2>1. votes \in [Node -> 0 .. MaxView]
      BY DEF NodeRecord
    <2> HIDE DEF votes
    <2> QED
      BY <1>4, <2>1 DEF NodeRecord
  <1> QED
    BY <1>1, <1>2, <1>3, <1>4

LEMMA AddSignType ==
    ASSUME NEW n \in NodeRecord, NEW s \in Sign, NEW c, c = AddSign(n, s)
    PROVE  /\ c \in NodeRecord
           /\ SamePlace(n, c)
           /\ c.block = n.block
           /\ \/ c.state = n.state
              \/ n.state = "waitingAgree" /\ c.state = "waitingBlock"
  <1> DEFINE signs == n.signs \cup {s}
  <1>1. signs \in SUBSET Sign
    BY DEF NodeRecord
  <1>2. \/ c = n
        \/ c = [n EXCEPT !.signs = signs]
        \/ c = [n EXCEPT !.signs = signs, !.state = n.state]
        \/ n.state = "waitingAgree" /\ c = [n EXCEPT !.signs = signs, !.state = "waitingBlock"]
    BY DEF AddSign
  <1> HIDE DEF signs
  <1>3. "waitingBlock" \in ConsensusStates
    BY DEF ConsensusStates
  <1> QED
    BY <1>1, <1>2, <1>3 DEF NodeRecord, SamePlace

LEMMA SeqMonotone ==
    ASSUME NEW S, NEW T, S \subseteq T
    PROVE  Seq(S) \subseteq Seq(T)
  <1> SUFFICES ASSUME NEW s \in Seq(S) PROVE s \in Seq(T)
    OBVIOUS
  <1>1. Len(s) \in Nat /\ s \in [1 .. Len(s) -> S]
    OBVIOUS
  <1>2. s \in [1 .. Len(s) -> T]
    BY <1>1
  <1> QED
    BY <1>1, <1>2, SeqDef

LEMMA WiresType ==
    ASSUME NEW w \in Wires
    PROVE  w \in [Node -> [Node -> Seq(Message)]]
  <1>1. KnownMessage \subseteq Message
    BY DEF KnownMessage
  <1>2. Seq(KnownMessage) \subseteq Seq(Message)
    BY <1>1, SeqMonotone
  <1> QED
    BY <1>2 DEF Wires

LEMMA BroadcastOK ==
    ASSUME net \in Wires, NEW i \in Node, NEW m \in KnownMessage
    PROVE  Broadcast(i, m) \in Wires
  <1> DEFINE to == {j \in Validators(node[i].tip) \cap Correct : <<i, j>> \in Links /\ j # i}
             out == [j \in Node |-> IF j \in to THEN Append(net[i][j], m) ELSE net[i][j]]
  <1>1. out \in [Node -> Seq(KnownMessage)]
    BY DEF Wires
  <1>2. Broadcast(i, m) = [net EXCEPT ![i] = out]
    BY DEF Broadcast
  <1> HIDE DEF out
  <1> QED
    BY <1>1, <1>2 DEF Wires

\* The head of a wire is a message; the rest stays a wire.
LEMMA TailOK ==
    ASSUME net \in Wires, NEW i \in Node, NEW j \in Node, net[j][i] # <<>>
    PROVE  /\ Head(net[j][i]) \in KnownMessage
           /\ [net EXCEPT ![j][i] = Tail(@)] \in Wires
  <1>1. net[j][i] \in Seq(KnownMessage)
    BY DEF Wires
  <1>2. Head(net[j][i]) \in KnownMessage /\ Tail(net[j][i]) \in Seq(KnownMessage)
    BY <1>1
  <1>3. [net[j] EXCEPT ![i] = Tail(net[j][i])] \in [Node -> Seq(KnownMessage)]
    BY <1>2 DEF Wires
  <1> QED
    BY <1>2, <1>3 DEF Wires

-----------------------------------------------------------------------------
(* The miner.                                                              *)

LEMMA ContinueOK ==
    ASSUME NEW m, MinerOK(m), NEW job, NEW next \in SUBSET JobRecord,
           \A j \in next : j.block \in Known
    PROVE  MinerOK(Continue(m, job, next))
  <1> DEFINE jobs == (m.jobs \ {job}) \cup next
  <1>1. jobs \in SUBSET JobRecord /\ \A j \in jobs : j.block \in Known
    BY DEF MinerOK, MinerRecord
  <1>2. Continue(m, job, next) = [m EXCEPT !.jobs = jobs]
    BY DEF Continue
  <1> HIDE DEF jobs
  <1> QED
    BY <1>1, <1>2 DEF MinerOK, MinerRecord

LEMMA AddJobOK ==
    ASSUME NEW m, MinerOK(m), NEW job \in JobRecord, job.block \in Known
    PROVE  MinerOK(AddJob(m, job))
  <1> DEFINE jobs == m.jobs \cup {job}
  <1>1. jobs \in SUBSET JobRecord /\ \A j \in jobs : j.block \in Known
    BY DEF MinerOK, MinerRecord
  <1> HIDE DEF jobs
  <1>2. MinerOK([m EXCEPT !.jobs = jobs])
    BY <1>1 DEF MinerOK, MinerRecord
  <1> QED
    BY <1>2 DEF jobs, AddJob

LEMMA RoutineOK ==
    ASSUME NEW m, MinerOK(m), NEW b \in Known
    PROVE  MinerOK(CreateRoutine(m, b)) /\ MinerOK(SetIdle(m, b))
  <1>1. b \in Nat /\ NoBlock \in Nat /\ m.routine \in Nat
    BY DEF Known, NoBlock, MinerOK, MinerRecord
  <1>2. MinerOK([m EXCEPT !.routine = b])
    BY <1>1 DEF MinerOK, MinerRecord
  <1>3. ASSUME NEW x \in Nat PROVE MinerOK([m EXCEPT !.routine = x])
    BY DEF MinerOK, MinerRecord
  <1> QED
    BY <1>1, <1>2, <1>3 DEF CreateRoutine, SetIdle

LEMMA AddVerifiedBlockOK ==
    ASSUME NEW m, MinerOK(m), NEW b \in Known
    PROVE  MinerOK(AddVerifiedBlock(m, b))
  <1> DEFINE rows == IF headers[b].pre \in m.rows THEN m.rows \cup {b} ELSE m.rows
             stored == m.stored \cup {b}
             higher == [m EXCEPT !.stored = stored, !.chainTip = b, !.rows = rows]
             lower == [m EXCEPT !.stored = stored]
  <1>1. b \in Nat /\ rows \in SUBSET Nat /\ stored \in SUBSET Nat
    BY DEF Known, MinerOK, MinerRecord
  <1>2. AddVerifiedBlock(m, b) = higher \/ AddVerifiedBlock(m, b) = lower
    BY DEF AddVerifiedBlock
  <1> HIDE DEF rows, stored
  <1>3. MinerOK(higher)
    BY <1>1 DEF MinerOK, MinerRecord
  <1>4. MinerOK(lower)
    BY <1>1 DEF MinerOK, MinerRecord
  <1> QED
    BY <1>2, <1>3, <1>4

LEMMA EmitTipBlockOK ==
    ASSUME NEW m, MinerOK(m), NEW b \in Known
    PROVE  MinerOK(EmitTipBlock(m, b))
  <1> DEFINE updates == m.tipUpdates \cup {b}
  <1>1. updates \in SUBSET Nat /\ updates \subseteq Known
    BY DEF Known, MinerOK, MinerRecord
  <1>2. EmitTipBlock(m, b) = m \/ EmitTipBlock(m, b) = [m EXCEPT !.tipUpdates = updates]
    BY DEF EmitTipBlock
  <1> HIDE DEF updates
  <1> QED
    BY <1>1, <1>2 DEF MinerOK, MinerRecord

LEMMA JobType ==
    ASSUME NEW op \in {"decorate", "propose", "execute", "snapshot"},
           NEW b \in Known, NEW signs \in SUBSET Sign
    PROVE  Job(op, b, signs) \in JobRecord /\ Job(op, b, signs).block = b
  BY DEF Job, JobRecord, Known

LEMMA AfterSignOK ==
    ASSUME NEW m, MinerOK(m), NEW i, NEW n, NodeOK(i, n), NEW c, NodeOK(i, c)
    PROVE  MinerOK(AfterSign(m, n, c))
  <1>1. CASE n.state # "waitingBlock" /\ c.state = "waitingBlock" /\ m.routine = c.block
    <2>1. c.block \in Known /\ c.signs \in SUBSET Sign
      BY <1>1 DEF NodeOK, NodeRecord
    <2>2. /\ Job("snapshot", c.block, c.signs) \in JobRecord
          /\ Job("snapshot", c.block, c.signs).block \in Known
      BY <2>1, JobType
    <2>3. MinerOK(SetIdle(m, c.block))
      BY <2>1, RoutineOK
    <2>4. MinerOK(AddJob(SetIdle(m, c.block), Job("snapshot", c.block, c.signs)))
      BY <2>2, <2>3, AddJobOK
    <2> QED
      BY <1>1, <2>4 DEF AfterSign, MineBlock
  <1>2. CASE ~(n.state # "waitingBlock" /\ c.state = "waitingBlock" /\ m.routine = c.block)
    BY <1>2 DEF AfterSign, MineBlock
  <1> QED
    BY <1>1, <1>2

-----------------------------------------------------------------------------
(* Steps.                                                                  *)

\* What a step may do to the variables the argument does not depend on.
OthersOK ==
    /\ mined' \subseteq [block : Nat, signs : SUBSET Sign]
    /\ \A m \in mined' : m.block \in Known
    /\ signed' \subseteq Node \X Nat
    /\ crashes' \in 0 .. MaxCrashes
    /\ lost' \in 0 .. MaxLost

\* A step that makes no header keeps the invariant if it keeps every record in
\* order and takes no clock back.
LEMMA SameHeaders ==
    ASSUME IInv, UNCHANGED headers,
           node' \in [Node -> NodeRecord], \A i \in Node : NodeOK(i, node'[i]),
           miner' \in [Node -> MinerRecord], \A i \in Node : MinerOK(miner'[i]),
           net' \in Wires, OthersOK,
           clock' \in [Node -> Nat], \A i \in Node : clock'[i] >= clock[i]
    PROVE  IInv'
  <1>1. Known' = Known
    BY DEF Known
  <1>2. \A m : m \in KnownMessage' <=> m \in KnownMessage
    BY <1>1 DEF KnownMessage
  <1>3. KnownMessage' = KnownMessage
    BY <1>2
  <1>4. TypeOK'
    <2>1. net' \in [Node -> [Node -> Seq(Message)]]
      BY WiresType
    <2> QED
      BY <2>1 DEF IInv, TypeOK, OthersOK
  <1>5. GenesisFirst'
    BY DEF IInv, GenesisFirst
  <1>6. OneProposalPerView'
    BY DEF IInv, OneProposalPerView
  <1>7. ProposalsInTime'
    <2> SUFFICES ASSUME NEW b \in Known \ {Genesis}
                 PROVE  /\ headers'[b].pre \in Known
                        /\ headers'[b].miner = DueMiner(headers[b].pre, headers[b].view)'
                        /\ clock'[headers'[b].miner] >=
                              CreateTime(headers[b].pre, headers[b].view)'
      BY <1>1 DEF ProposalsInTime
    <2>1. /\ headers[b].pre \in Known
          /\ headers[b].miner = DueMiner(headers[b].pre, headers[b].view)
          /\ clock[headers[b].miner] >= CreateTime(headers[b].pre, headers[b].view)
      BY DEF IInv, ProposalsInTime
    <2>2. headers[b].miner \in Node /\ headers[b].view \in 0 .. MaxView
      BY HeaderType DEF IInv, Header
    <2>3. CreateTime(headers[b].pre, headers[b].view) \in Int
      <3>1. headers[headers[b].pre].totalView \in Nat
        BY <2>1, HeaderType DEF IInv, Header
      <3> QED
        BY <2>2, <3>1, Powers DEF CreateTime
    <2>4. clock[headers[b].miner] \in Nat /\ clock'[headers[b].miner] \in Nat
          /\ clock'[headers[b].miner] >= clock[headers[b].miner]
      BY <2>2 DEF IInv, TypeOK
    <2>5. clock'[headers[b].miner] >= CreateTime(headers[b].pre, headers[b].view)
      BY <2>1, <2>3, <2>4
    <2> QED
      BY <2>1, <2>5 DEF DueMiner, CreateTime
  <1>8. \A i \in Node : NodeOK(i, node[i])'
    <2> SUFFICES ASSUME NEW i \in Node PROVE NodeOK(i, node[i])'
      OBVIOUS
    <2>1. NodeOK(i, node'[i])
      OBVIOUS
    <2>2. NotProposedYet(i, node'[i]) => NotProposedYet(i, node[i])'
      BY <1>1 DEF NotProposedYet, DueMiner
    <2>3. NextTime(node[i])' = NextTime(node'[i])
      BY DEF NextTime
    <2>4. Validators(node[i].tip)' = Validators(node'[i].tip)
      BY DEF Validators
    <2> QED
      BY <1>1, <2>1, <2>2, <2>3, <2>4 DEF NodeOK
  <1>9. \A i \in Node : MinerOK(miner[i])'
    BY <1>1 DEF MinerOK
  <1>10. (net \in Wires)'
    BY <1>3 DEF Wires
  <1>11. (\A m \in mined : m.block \in Known)'
    BY <1>1 DEF OthersOK
  <1> QED
    BY <1>4, <1>5, <1>6, <1>7, <1>8, <1>9, <1>10, <1>11 DEF IInv, Wires

\* The step of one node that makes no header.
LEMMA OneNode ==
    ASSUME IInv, UNCHANGED <<headers, clock>>, NEW i \in Node,
           node' \in [Node -> NodeRecord], NodeOK(i, node'[i]),
           \A j \in Node \ {i} : node'[j] = node[j],
           miner' \in [Node -> MinerRecord], MinerOK(miner'[i]),
           \A j \in Node \ {i} : miner'[j] = miner[j],
           net' \in Wires, OthersOK
    PROVE  IInv'
  <1>1. \A j \in Node : NodeOK(j, node'[j])
    <2> SUFFICES ASSUME NEW j \in Node, j # i PROVE NodeOK(j, node'[j])
      OBVIOUS
    <2>1. NodeOK(j, node[j]) /\ node'[j] = node[j]
      BY DEF IInv
    <2> QED
      BY <2>1
  <1>2. \A j \in Node : MinerOK(miner'[j])
    <2> SUFFICES ASSUME NEW j \in Node, j # i PROVE MinerOK(miner'[j])
      OBVIOUS
    <2>1. MinerOK(miner[j]) /\ miner'[j] = miner[j]
      BY DEF IInv
    <2> QED
      BY <2>1
  <1>3. clock' \in [Node -> Nat] /\ \A j \in Node : clock'[j] >= clock[j]
    BY DEF IInv, TypeOK
  <1> QED
    BY <1>1, <1>2, <1>3, SameHeaders

\* The same, when the step is written with EXCEPT.
LEMMA NodeAndMiner ==
    ASSUME IInv, UNCHANGED <<headers, clock>>, NEW i \in Node,
           NEW n, NodeOK(i, n), node' = [node EXCEPT ![i] = n],
           NEW m, MinerOK(m), miner' = [miner EXCEPT ![i] = m],
           net' \in Wires, OthersOK
    PROVE  IInv'
  <1>1. n \in NodeRecord /\ m \in MinerRecord
    BY DEF NodeOK, MinerOK
  <1>2. node \in [Node -> NodeRecord] /\ miner \in [Node -> MinerRecord]
    BY DEF IInv, TypeOK
  <1>3. node' \in [Node -> NodeRecord] /\ miner' \in [Node -> MinerRecord]
    BY <1>1, <1>2
  <1>4. node'[i] = n /\ miner'[i] = m
    BY <1>2
  <1>5. \A j \in Node \ {i} : node'[j] = node[j] /\ miner'[j] = miner[j]
    BY <1>2
  <1> QED
    BY <1>3, <1>4, <1>5, OneNode

\* Variables left alone by a step.
LEMMA Unchanged ==
    ASSUME IInv
    PROVE  /\ \A i \in Node : NodeOK(i, node[i]) /\ MinerOK(miner[i])
           /\ \A i \in Node : node = [node EXCEPT ![i] = node[i]]
           /\ \A i \in Node : miner = [miner EXCEPT ![i] = miner[i]]
           /\ net \in Wires
           /\ UNCHANGED <<mined, signed, crashes, lost>> => OthersOK
  BY DEF IInv, TypeOK, Wires, OthersOK

LEMMA UpdateTipStep ==
    ASSUME IInv, NEW i \in Node, UpdateTip(i)
    PROVE  IInv'
  <1>1. PICK b \in miner[i].tipUpdates, ok \in ExecOutcomes :
           /\ IF \/ ~ok \/ ~KnowsNextMiners(miner[i], b)
                 \/ b \notin miner[i].rows \/ node[i].tip = b
              THEN UNCHANGED node
              ELSE \E n \in ResetTimer(i, WithTip(node[i], b), clock[i]) :
                       node' = [node EXCEPT ![i] = n]
           /\ miner' = [miner EXCEPT ![i].tipUpdates = @ \ {b}]
           /\ UNCHANGED <<headers, net, mined, signed, clock, crashes, lost>>
    BY DEF UpdateTip
  <1> DEFINE m == [miner[i] EXCEPT !.tipUpdates = @ \ {b}]
  <1>2. NodeOK(i, node[i]) /\ MinerOK(miner[i])
    BY Unchanged
  <1>3. b \in Known
    BY <1>2 DEF MinerOK
  <1>4. MinerOK(m) /\ miner' = [miner EXCEPT ![i] = m]
    BY <1>1, <1>2 DEF MinerOK, MinerRecord
  <1>5. net' \in Wires /\ OthersOK
    BY <1>1, Unchanged
  <1>6. \E n : NodeOK(i, n) /\ node' = [node EXCEPT ![i] = n]
    <2>1. CASE UNCHANGED node
      BY <1>1, <1>2, <2>1, Unchanged
    <2>2. CASE \E n \in ResetTimer(i, WithTip(node[i], b), clock[i]) :
                  node' = [node EXCEPT ![i] = n]
      <3>1. PICK n \in ResetTimer(i, WithTip(node[i], b), clock[i]) :
               node' = [node EXCEPT ![i] = n]
        BY <1>1, <2>2
      <3>2. Resettable(WithTip(node[i], b))
        BY <1>2, <1>3, WithTipOK DEF NodeOK
      <3>3. AheadOfClock(i, WithTip(node[i], b), clock[i])
        BY OnTime
      <3>4. clock[i] \in Int
        BY DEF IInv, TypeOK
      <3>5. NodeOK(i, n)
        BY <3>2, <3>3, <3>4, ResetTimerOK DEF IInv
      <3> QED
        BY <3>1, <3>5
    <2> QED
      BY <1>1, <2>1, <2>2
  <1> HIDE DEF m
  <1> QED
    BY <1>1, <1>4, <1>5, <1>6, NodeAndMiner

LEMMA OnTimeoutChangeViewStep ==
    ASSUME IInv, NEW i \in Node, OnTimeoutChangeView(i)
    PROVE  IInv'
  <1> DEFINE n == node[i]
             newView == (IF n.state = "changeViewSent" THEN n.expectView ELSE n.view) + 1
             sent == [InState(n, "changeViewSent")
                         EXCEPT !.expectView = newView, !.timer = NoTimer]
             counted == CountChangeView(sent, newView, i)
  <1>1. PICK early \in EarlyTimers :
           /\ TimerFires(i)
           /\ n.state # "waitingCreate"
           /\ early => n.timer = clock[i]
           /\ newView <= MaxView
           /\ \E r \in ResetTimer(i, counted, IF early THEN clock[i] - 1 ELSE clock[i]) :
                  node' = [node EXCEPT ![i] = r]
           /\ net' = Broadcast(i, ChangeView(i, newView))
           /\ UNCHANGED <<headers, miner, mined, signed, clock, crashes, lost>>
    BY DEF OnTimeoutChangeView
  <1> DEFINE now == IF early THEN clock[i] - 1 ELSE clock[i]
  <1>2. NodeOK(i, n) /\ MinerOK(miner[i]) /\ clock[i] \in Nat /\ early \in BOOLEAN
    BY Unchanged, ConsensusAssumption DEF IInv, TypeOK, ConsensusAssumption
  <1>3. n \in NodeRecord /\ n.tip \in Known
    BY <1>1, <1>2 DEF NodeOK, TimerFires
  <1>4. newView \in 1 .. MaxView /\ newView > n.view
    BY <1>1, <1>2, <1>3, MaxViewType DEF NodeOK, NodeRecord
  <1>5. /\ sent \in NodeRecord
        /\ sent.tip = n.tip /\ sent.view = n.view
        /\ sent.expectView = newView /\ sent.state = "changeViewSent"
    <2>1. "changeViewSent" \in ConsensusStates
      BY DEF ConsensusStates
    <2>2. /\ InState(n, "changeViewSent") \in NodeRecord
          /\ InState(n, "changeViewSent").tip = n.tip
          /\ InState(n, "changeViewSent").view = n.view
          /\ InState(n, "changeViewSent").state = "changeViewSent"
      BY <1>3, <2>1, InStateType
    <2>3. newView \in 0 .. MaxView /\ NoTimer \in Nat
      BY <1>4 DEF NoTimer
    <2> DEFINE st == InState(n, "changeViewSent")
    <2>4. sent = [st EXCEPT !.expectView = newView, !.timer = NoTimer]
      OBVIOUS
    <2> HIDE DEF newView, n, st, sent
    <2>5. /\ sent \in NodeRecord
          /\ sent.tip = st.tip /\ sent.view = st.view
          /\ sent.expectView = newView /\ sent.state = st.state
      BY <2>2, <2>3, <2>4 DEF NodeRecord, st
    <2> QED
      BY <2>2, <2>5 DEF st
  <1> HIDE DEF sent, newView
  <1>6. /\ counted \in NodeRecord
        /\ counted.tip = n.tip
        /\ counted.expectView = newView
        /\ \/ counted.state = "changeViewSucc" /\ counted.view = newView
           \/ counted.state = "changeViewSent" /\ counted.view = n.view
    <2>1. newView \in 0 .. MaxView
      BY <1>4
    <2> QED
      BY <1>5, <2>1, CountChangeViewType
  <1>7. Resettable(counted)
    <2>1. n.view \in 0 .. MaxView /\ newView \in 0 .. MaxView
      BY <1>3, <1>4 DEF NodeRecord
    <2> QED
      BY <1>3, <1>4, <1>6, <2>1 DEF Resettable
  <1>8. i \in Validators(n.tip) => AheadOfClock(i, counted, now)
    <2>1. CASE ~early
      BY <2>1, OnTime
    <2>2. CASE early
      <3> SUFFICES ASSUME i \in Validators(n.tip), NEW v \in 0 .. MaxView,
                          v > counted.view \/ (v = counted.view /\ counted.state \in TransientStates)
                   PROVE  CreateTime(n.tip, v) > clock[i]
        BY <1>6 DEF AheadOfClock
      <3>1. v > n.view /\ n.view \in 0 .. MaxView
        BY <1>3, <1>4, <1>6 DEF NodeRecord, TransientStates
      <3>2. 2 ^ (n.view + 2) <= 2 ^ (v + 1)
        BY <3>1, PowersGrow
      <3>3. n.timer = NextTime(n) /\ n.timer = clock[i]
        BY <1>1, <1>2, <1>3, <2>2 DEF NodeOK, Known, NoBlock
      <3>4. NextTime(n) = headers[n.tip].totalView + 2 ^ (n.view + 2) - 2
        BY <1>1, <1>3, NextTimeType DEF IInv
      <3>5. headers[n.tip].totalView \in Nat
        BY <1>3, HeaderType DEF Header, IInv
      <3>6. 2 ^ (n.view + 2) \in Nat /\ 2 ^ (v + 1) \in Nat
        BY <3>1, Powers
      <3>7. CreateTime(n.tip, v) = headers[n.tip].totalView + 2 ^ (v + 1) - 1
        BY DEF CreateTime
      <3> DEFINE t == headers[n.tip].totalView
                 p == 2 ^ (n.view + 2)
                 q == 2 ^ (v + 1)
      <3>8. p <= q /\ t \in Nat /\ p \in Nat /\ q \in Nat
        BY <3>2, <3>5, <3>6
      <3>9. clock[i] = t + p - 2 /\ CreateTime(n.tip, v) = t + q - 1
        BY <3>3, <3>4, <3>7
      <3> HIDE DEF t, p, q
      <3> QED
        BY <3>8, <3>9
    <2> QED
      BY <1>2, <2>1, <2>2
  <1>9. PICK r \in ResetTimer(i, counted, now) : node' = [node EXCEPT ![i] = r]
    BY <1>1
  <1>10. NodeOK(i, r)
    <2>1. now \in Int
      BY <1>2
    <2>2. CASE i \in Validators(n.tip)
      BY <1>7, <1>8, <1>9, <2>1, <2>2, ResetTimerOK DEF IInv
    <2>3. CASE i \notin Validators(n.tip)
      <3>1. r = counted
        BY <1>6, <1>9, <2>3 DEF ResetTimer
      <3> QED
        BY <1>3, <1>6, <1>7, <2>3, <3>1 DEF NodeOK, Resettable, Known, NoBlock
    <2> QED
      BY <2>2, <2>3
  <1>11. ChangeView(i, newView) \in KnownMessage
    BY <1>3, <1>4 DEF ChangeView, KnownMessage, Message, Known
  <1>12. net' \in Wires /\ OthersOK
    <2>1. net \in Wires
      BY Unchanged
    <2>2. Broadcast(i, ChangeView(i, newView)) \in Wires
      BY <1>11, <2>1, BroadcastOK
    <2> QED
      BY <1>1, <2>2, Unchanged
  <1> HIDE DEF counted, now, n
  <1> QED
    BY <1>1, <1>2, <1>9, <1>10, <1>12, Unchanged, NodeAndMiner

LEMMA OnChangeViewStep ==
    ASSUME IInv, NEW i \in Node, NEW m \in KnownMessage, OnChangeView(i, m), net' \in Wires
    PROVE  IInv'
  <1> DEFINE n == CountChangeView(node[i], m.view, m.addr)
  <1>1. /\ m.type = "changeview"
        /\ IF m.tip # node[i].tip
           THEN UNCHANGED node
           ELSE \E r \in IF n.state = "changeViewSucc" THEN ResetTimer(i, n, clock[i]) ELSE {n} :
                    node' = [node EXCEPT ![i] = r]
        /\ UNCHANGED <<headers, miner, mined, signed, clock, crashes, lost>>
    BY DEF OnChangeView
  <1>2. m.addr \in Node /\ m.view \in 0 .. MaxView /\ m.tip \in Known
    BY <1>1 DEF KnownMessage, Message
  <1>3. NodeOK(i, node[i]) /\ MinerOK(miner[i]) /\ clock[i] \in Int
    BY Unchanged DEF IInv, TypeOK
  <1>4. \E r : NodeOK(i, r) /\ node' = [node EXCEPT ![i] = r]
    <2>1. CASE m.tip # node[i].tip
      BY <1>1, <1>3, <2>1, Unchanged
    <2>2. CASE m.tip = node[i].tip
      <3>1. /\ n \in NodeRecord
            /\ n.tip = node[i].tip
            /\ n.expectView = node[i].expectView
            /\ n.timer = node[i].timer
            /\ \/ n.state = "changeViewSucc" /\ n.view = m.view
               \/ n.state = node[i].state /\ n.view = node[i].view /\ n.block = node[i].block
        BY <1>2, <1>3, CountChangeViewType DEF NodeOK
      <3>2. PICK r \in IF n.state = "changeViewSucc" THEN ResetTimer(i, n, clock[i]) ELSE {n} :
               node' = [node EXCEPT ![i] = r]
        BY <1>1, <2>2
      <3> HIDE DEF n
      <3>3. CASE n.state = "changeViewSucc"
        <4>1. Resettable(n) /\ r \in ResetTimer(i, n, clock[i])
          BY <1>2, <2>2, <3>1, <3>2, <3>3 DEF Resettable
        <4>2. NodeOK(i, r)
          BY <1>3, <4>1, OnTime, ResetTimerOK DEF IInv
        <4> QED
          BY <3>2, <4>2
      <3>4. CASE n.state # "changeViewSucc"
        <4>1. r = n /\ SamePlace(node[i], n) /\ n.state = node[i].state /\ n.block = node[i].block
          BY <3>1, <3>2, <3>4 DEF SamePlace
        <4>2. NodeOK(i, r)
          BY <1>3, <3>1, <4>1, RoundOK
        <4> QED
          BY <3>2, <4>2
      <3> QED
        BY <3>3, <3>4
    <2> QED
      BY <2>1, <2>2
  <1> HIDE DEF n
  <1> QED
    BY <1>1, <1>3, <1>4, Unchanged, NodeAndMiner

LEMMA OnPrepareRequestStep ==
    ASSUME IInv, NEW i \in Node, NEW m \in KnownMessage, OnPrepareRequest(i, m), net' \in Wires
    PROVE  IInv'
  <1>1. /\ m.type = "prepareRequest"
        /\ UNCHANGED <<headers, mined, signed, clock, crashes, lost>>
    BY DEF OnPrepareRequest
  <1>2. m.block \in Known
    BY <1>1 DEF KnownMessage
  <1>3. NodeOK(i, node[i]) /\ MinerOK(miner[i])
    BY Unchanged
  <1>4. CASE AcceptsProposal(node[i], m.block)
    <2> DEFINE n == [node[i] EXCEPT !.state = "waitingVerify", !.block = m.block]
               routine == CreateRoutine(miner[i], m.block)
               job == Job("execute", m.block, {})
               mine == AddJob(routine, job)
    <2>1. node' = [node EXCEPT ![i] = n] /\ miner' = [miner EXCEPT ![i] = mine]
      BY <1>4 DEF OnPrepareRequest
    <2>2. n \in NodeRecord /\ SamePlace(node[i], n) /\ n.state = "waitingVerify" /\ n.block = m.block
      <3>1. "waitingVerify" \in ConsensusStates /\ m.block \in Nat
        BY <1>2 DEF ConsensusStates, Known
      <3> QED
        BY <1>3, <3>1 DEF NodeOK, NodeRecord, SamePlace
    <2>3. NodeOK(i, n)
      BY <1>2, <1>3, <1>4, <2>2, RoundOK DEF RoundStates, AcceptsProposal
    <2>4. job \in JobRecord /\ job.block \in Known
      BY <1>2, JobType
    <2>5. MinerOK(mine)
      BY <1>2, <1>3, <2>4, RoutineOK, AddJobOK
    <2> HIDE DEF n, mine
    <2> QED
      BY <1>1, <2>1, <2>3, <2>5, Unchanged, NodeAndMiner
  <1>5. CASE ~AcceptsProposal(node[i], m.block)
    <2>1. UNCHANGED <<node, miner>>
      BY <1>5 DEF OnPrepareRequest
    <2> QED
      BY <1>1, <1>3, <2>1, Unchanged, NodeAndMiner
  <1> QED
    BY <1>4, <1>5

LEMMA OnPrepareResponseStep ==
    ASSUME IInv, NEW i \in Node, NEW m \in KnownMessage, OnPrepareResponse(i, m), net' \in Wires
    PROVE  IInv'
  <1> DEFINE s == [addr |-> m.addr, hash |-> m.hash]
             n == IF node[i].tip = NoBlock THEN node[i] ELSE AddSign(node[i], s)
  <1>1. /\ m.type = "prepareResponse"
        /\ node' = [node EXCEPT ![i] = n]
        /\ miner' = [miner EXCEPT ![i] = AfterSign(@, node[i], n)]
        /\ UNCHANGED <<headers, mined, signed, clock, crashes, lost>>
    BY DEF OnPrepareResponse
  <1>2. s \in Sign
    BY <1>1 DEF KnownMessage, Message, Sign
  <1>3. NodeOK(i, node[i]) /\ MinerOK(miner[i]) /\ node[i] \in NodeRecord
    BY Unchanged DEF NodeOK
  <1>4. NodeOK(i, n)
    <2>1. CASE node[i].tip = NoBlock
      BY <1>3, <2>1
    <2>2. CASE node[i].tip # NoBlock
      <3> HIDE DEF s
      <3>1. /\ n \in NodeRecord /\ SamePlace(node[i], n) /\ n.block = node[i].block
            /\ \/ n.state = node[i].state
               \/ node[i].state = "waitingAgree" /\ n.state = "waitingBlock"
        BY <1>2, <1>3, <2>2, AddSignType
      <3> HIDE DEF n
      <3>2. CASE n.state = node[i].state
        BY <1>3, <3>1, <3>2, RoundOK
      <3>3. CASE node[i].state = "waitingAgree" /\ n.state = "waitingBlock"
        <4>1. n.block \in Known
          BY <1>3, <3>1, <3>3 DEF NodeOK
        <4> QED
          BY <1>3, <3>1, <3>3, <4>1, RoundOK DEF RoundStates
      <3> QED
        BY <3>1, <3>2, <3>3
    <2> QED
      BY <2>1, <2>2
  <1>5. MinerOK(AfterSign(miner[i], node[i], n))
    BY <1>3, <1>4, AfterSignOK
  <1>6. miner' = [miner EXCEPT ![i] = AfterSign(miner[i], node[i], n)]
    BY <1>1
  <1> HIDE DEF n
  <1> QED
    BY <1>1, <1>4, <1>5, <1>6, Unchanged, NodeAndMiner

LEMMA ReceiveStep ==
    ASSUME IInv, NEW i \in Node, Receive(i)
    PROVE  IInv'
  <1>1. PICK j \in Node :
           /\ net[j][i] # <<>>
           /\ net' = [net EXCEPT ![j][i] = Tail(@)]
           /\ \/ OnChangeView(i, Head(net[j][i]))
              \/ OnPrepareRequest(i, Head(net[j][i]))
              \/ OnPrepareResponse(i, Head(net[j][i]))
    BY DEF Receive
  <1>2. Head(net[j][i]) \in KnownMessage /\ net' \in Wires
    BY <1>1, Unchanged, TailOK
  <1> QED
    BY <1>1, <1>2, OnChangeViewStep, OnPrepareRequestStep, OnPrepareResponseStep

LEMMA CreateBlockStep ==
    ASSUME IInv, NEW i \in Node, CreateBlock(i)
    PROVE  IInv'
  <1>1. PICK job \in miner[i].jobs :
           /\ miner' = [miner EXCEPT ![i] =
                  Continue(CreateRoutine(@, job.block), job, {Job("propose", job.block, {})})]
           /\ UNCHANGED <<headers, node, net, mined, signed, clock, crashes, lost>>
    BY DEF CreateBlock
  <1> DEFINE routine == CreateRoutine(miner[i], job.block)
             m == Continue(routine, job, {Job("propose", job.block, {})})
  <1>2. NodeOK(i, node[i]) /\ MinerOK(miner[i])
    BY Unchanged
  <1>3. job.block \in Known
    BY <1>2 DEF MinerOK
  <1>4. /\ Job("propose", job.block, {}) \in JobRecord
        /\ Job("propose", job.block, {}).block \in Known
    BY <1>3, JobType
  <1>5. MinerOK(routine)
    BY <1>2, <1>3, RoutineOK
  <1> HIDE DEF routine
  <1>6. MinerOK(m)
    BY <1>4, <1>5, ContinueOK
  <1>7. miner' = [miner EXCEPT ![i] = m]
    BY <1>1 DEF routine
  <1> HIDE DEF m
  <1> QED
    BY <1>1, <1>2, <1>6, <1>7, Unchanged, NodeAndMiner

LEMMA NewProposalStep ==
    ASSUME IInv, NEW i \in Node, NewProposal(i)
    PROVE  IInv'
  <1>1. PICK job \in miner[i].jobs, ok \in ExecOutcomes :
           /\ IF ok /\ node[i].state = "waitingProposal" /\ IsPreBlock(node[i].tip, job.block)
              THEN /\ node' = [node EXCEPT ![i] =
                          [InState(@, "waitingVerify") EXCEPT !.block = job.block]]
                   /\ net' = Broadcast(i, PrepareRequest(job.block))
                   /\ miner' = [miner EXCEPT ![i] =
                          Continue(@, job, {Job("execute", job.block, {})})]
              ELSE /\ miner' = [miner EXCEPT ![i] = SetIdle(Continue(@, job, {}), job.block)]
                   /\ UNCHANGED <<node, net>>
           /\ UNCHANGED <<headers, mined, signed, clock, crashes, lost>>
    BY DEF NewProposal
  <1>2. NodeOK(i, node[i]) /\ MinerOK(miner[i]) /\ node[i] \in NodeRecord
    BY Unchanged DEF NodeOK
  <1>3. job.block \in Known
    BY <1>2 DEF MinerOK
  <1>4. /\ Job("execute", job.block, {}) \in JobRecord
        /\ Job("execute", job.block, {}).block \in Known
    BY <1>3, JobType
  <1>5. CASE ok /\ node[i].state = "waitingProposal" /\ IsPreBlock(node[i].tip, job.block)
    <2> DEFINE st == InState(node[i], "waitingVerify")
               n == [st EXCEPT !.block = job.block]
               m == Continue(miner[i], job, {Job("execute", job.block, {})})
    <2>1. node' = [node EXCEPT ![i] = n] /\ miner' = [miner EXCEPT ![i] = m]
      BY <1>1, <1>5
    <2>2. MinerOK(m)
      BY <1>2, <1>4, ContinueOK
    <2>3. "waitingVerify" \in ConsensusStates /\ job.block \in Nat
      BY <1>3 DEF ConsensusStates, Known
    <2>4. /\ st \in NodeRecord
          /\ st.state = "waitingVerify"
          /\ SamePlace(node[i], st)
      BY <1>2, <2>3, InStateType DEF SamePlace
    <2> HIDE DEF st
    <2>5. /\ n \in NodeRecord
          /\ n.state = "waitingVerify" /\ n.block = job.block
          /\ SamePlace(node[i], n)
      BY <2>3, <2>4 DEF NodeRecord, SamePlace
    <2> HIDE DEF n
    <2>6. NodeOK(i, n)
      BY <1>2, <1>3, <1>5, <2>5, RoundOK DEF RoundStates
    <2>7. PrepareRequest(job.block) \in KnownMessage
      BY <1>3 DEF PrepareRequest, KnownMessage, Message, Known
    <2>8. net' \in Wires /\ OthersOK
      <3>1. Broadcast(i, PrepareRequest(job.block)) \in Wires
        BY <2>7, Unchanged, BroadcastOK
      <3> QED
        BY <1>1, <1>5, <3>1, Unchanged
    <2> HIDE DEF m
    <2> QED
      BY <1>1, <2>1, <2>2, <2>6, <2>8, NodeAndMiner
  <1>6. CASE ~(ok /\ node[i].state = "waitingProposal" /\ IsPreBlock(node[i].tip, job.block))
    <2> DEFINE m == SetIdle(Continue(miner[i], job, {}), job.block)
    <2>1. miner' = [miner EXCEPT ![i] = m] /\ UNCHANGED <<node, net>>
      BY <1>1, <1>6
    <2>2. MinerOK(Continue(miner[i], job, {}))
      BY <1>2, ContinueOK
    <2>3. MinerOK(m)
      BY <1>3, <2>2, RoutineOK
    <2> HIDE DEF m
    <2> QED
      BY <1>1, <1>2, <2>1, <2>3, Unchanged, NodeAndMiner
  <1> QED
    BY <1>5, <1>6

LEMMA AddMinedBlockStep ==
    ASSUME IInv, NEW i \in Node, AddMinedBlock(i)
    PROVE  IInv'
  <1>1. PICK job \in miner[i].jobs, ok \in ExecOutcomes :
           LET m == Continue(miner[i], job, {})
           IN  /\ miner' = [miner EXCEPT ![i] =
                      IF ok THEN EmitTipBlock(AddVerifiedBlock(m, job.block), job.block) ELSE m]
               /\ mined' = IF ok THEN mined \cup {[block |-> job.block, signs |-> job.signs]} ELSE mined
               /\ UNCHANGED <<headers, node, net, signed, clock, crashes, lost>>
    BY DEF AddMinedBlock
  <1> DEFINE m == Continue(miner[i], job, {})
             m2 == IF ok THEN EmitTipBlock(AddVerifiedBlock(m, job.block), job.block) ELSE m
  <1>2. NodeOK(i, node[i]) /\ MinerOK(miner[i])
    BY Unchanged
  <1>3. job.block \in Known /\ job \in JobRecord
    BY <1>2 DEF MinerOK, MinerRecord
  <1>4. MinerOK(m)
    BY <1>2, ContinueOK
  <1>5. MinerOK(m2)
    BY <1>3, <1>4, AddVerifiedBlockOK, EmitTipBlockOK
  <1>6. /\ mined' \subseteq [block : Nat, signs : SUBSET Sign]
        /\ \A d \in mined' : d.block \in Known
    <2>1. [block |-> job.block, signs |-> job.signs] \in [block : Nat, signs : SUBSET Sign]
      BY <1>3 DEF JobRecord
    <2> QED
      BY <1>1, <1>3, <2>1 DEF IInv, TypeOK
  <1>7. OthersOK
    BY <1>1, <1>6 DEF OthersOK, IInv, TypeOK
  <1>8. miner' = [miner EXCEPT ![i] = m2]
    BY <1>1
  <1> HIDE DEF m2
  <1> QED
    BY <1>1, <1>2, <1>5, <1>7, <1>8, Unchanged, NodeAndMiner

LEMMA AddBlockStep ==
    ASSUME IInv, NEW i \in Node, AddBlock(i)
    PROVE  IInv'
  <1>1. PICK d \in mined, syncing \in BOOLEAN :
           LET added == AddVerifiedBlock(miner[i], d.block)
           IN  /\ miner' = [miner EXCEPT ![i] =
                      IF syncing THEN added ELSE EmitTipBlock(added, d.block)]
               /\ UNCHANGED <<headers, node, net, mined, signed, clock, crashes, lost>>
    BY DEF AddBlock
  <1> DEFINE added == AddVerifiedBlock(miner[i], d.block)
             m2 == IF syncing THEN added ELSE EmitTipBlock(added, d.block)
  <1>2. NodeOK(i, node[i]) /\ MinerOK(miner[i]) /\ d.block \in Known
    BY Unchanged DEF IInv
  <1>3. MinerOK(added)
    BY <1>2, AddVerifiedBlockOK
  <1>4. MinerOK(m2)
    BY <1>2, <1>3, EmitTipBlockOK
  <1>5. miner' = [miner EXCEPT ![i] = m2]
    BY <1>1
  <1> HIDE DEF m2
  <1> QED
    BY <1>1, <1>2, <1>4, <1>5, Unchanged, NodeAndMiner

LEMMA ExecuteStep ==
    ASSUME IInv, NEW i \in Node, Execute(i)
    PROVE  IInv'
  <1>1. PICK job \in miner[i].jobs, ok \in ExecOutcomes :
           LET b == job.block
               n == node[i]
               m == Continue(miner[i], job, {})
               mining == [m EXCEPT !.miningBlocks = @ \cup {b}]
               agreed == AddSign(Agree(n, b), [addr |-> i, hash |-> b])
           IN  /\ IF ~ok \/ m.routine # b \/ b \in m.miningBlocks
                  THEN /\ miner' = [miner EXCEPT ![i] = SetIdle(m, b)]
                       /\ UNCHANGED <<node, net, signed>>
                  ELSE IF n.state = "waitingVerify" /\ IsPreBlock(n.tip, b)
                  THEN /\ node' = [node EXCEPT ![i] = agreed]
                       /\ miner' = [miner EXCEPT ![i] = AfterSign(mining, n, agreed)]
                       /\ net' = Broadcast(i, PrepareResponse(i, b))
                       /\ signed' = signed \cup {<<i, b>>}
                  ELSE /\ miner' = [miner EXCEPT ![i] = mining]
                       /\ UNCHANGED <<node, net, signed>>
               /\ UNCHANGED <<headers, mined, clock, crashes, lost>>
    BY DEF Execute
  <1> DEFINE b == job.block
             n == node[i]
             m == Continue(miner[i], job, {})
             mining == [m EXCEPT !.miningBlocks = @ \cup {b}]
             sign == [addr |-> i, hash |-> b]
             agreed == AddSign(Agree(n, b), sign)
             stops == ~ok \/ m.routine # b \/ b \in m.miningBlocks
             agrees == n.state = "waitingVerify" /\ IsPreBlock(n.tip, b)
  <1>2. NodeOK(i, n) /\ MinerOK(miner[i]) /\ n \in NodeRecord
    BY Unchanged DEF NodeOK
  <1>3. b \in Known /\ b \in Nat
    BY <1>2 DEF MinerOK, Known
  <1>4. MinerOK(m)
    BY <1>2, ContinueOK
  <1>5. MinerOK(mining)
    <2> HIDE DEF m, b
    <2> QED
      BY <1>3, <1>4 DEF MinerOK, MinerRecord
  <1>6. CASE stops
    <2>1. miner' = [miner EXCEPT ![i] = SetIdle(m, b)] /\ UNCHANGED <<node, net, signed>>
      BY <1>1, <1>6
    <2>2. MinerOK(SetIdle(m, b))
      BY <1>3, <1>4, RoutineOK
    <2> HIDE DEF m, b, stops
    <2> QED
      BY <1>1, <1>2, <2>1, <2>2, Unchanged, NodeAndMiner
  <1>7. CASE ~stops /\ agrees
    <2>1. /\ node' = [node EXCEPT ![i] = agreed]
          /\ miner' = [miner EXCEPT ![i] = AfterSign(mining, n, agreed)]
          /\ net' = Broadcast(i, PrepareResponse(i, b))
          /\ signed' = signed \cup {<<i, b>>}
      BY <1>1, <1>7
    <2>2. sign \in Sign /\ "waitingAgree" \in ConsensusStates
      BY <1>3 DEF Sign, ConsensusStates
    <2>3. /\ Agree(n, b) \in NodeRecord
          /\ Agree(n, b).state = "waitingAgree"
          /\ Agree(n, b).block = b
          /\ SamePlace(n, Agree(n, b))
      <3>1. {s \in n.signs : s.hash = b} \in SUBSET Sign
        BY <1>2 DEF NodeRecord
      <3> HIDE DEF b, n
      <3> QED
        BY <1>2, <1>3, <2>2, <3>1 DEF Agree, NodeRecord, SamePlace
    <2>4. NodeOK(i, Agree(n, b))
      BY <1>2, <1>3, <1>7, <2>3, RoundOK DEF RoundStates
    <2>5. /\ agreed \in NodeRecord
          /\ SamePlace(Agree(n, b), agreed)
          /\ agreed.block = b
          /\ agreed.state \in {"waitingAgree", "waitingBlock"}
      <3> HIDE DEF sign, b, n
      <3> QED
        BY <2>2, <2>3, AddSignType
    <2>6. NodeOK(i, agreed)
      <3> HIDE DEF agreed, b, n
      <3> QED
        BY <1>3, <2>3, <2>4, <2>5, RoundOK DEF RoundStates
    <2>7. MinerOK(AfterSign(mining, n, agreed))
      BY <1>2, <1>5, <2>6, AfterSignOK
    <2>8. PrepareResponse(i, b) \in KnownMessage
      <3>1. PrepareResponse(i, b) \in Message
        BY <1>3 DEF PrepareResponse, Message
      <3> QED
        BY <3>1 DEF KnownMessage, PrepareResponse
    <2>9. net' \in Wires /\ OthersOK
      <3>1. Broadcast(i, PrepareResponse(i, b)) \in Wires
        BY <2>8, Unchanged, BroadcastOK
      <3>2. signed' \subseteq Node \X Nat
        BY <1>3, <2>1 DEF IInv, TypeOK
      <3> QED
        BY <1>1, <2>1, <3>1, <3>2 DEF OthersOK, IInv, TypeOK
    <2> HIDE DEF agreed, mining, n, b
    <2> QED
      BY <1>1, <2>1, <2>6, <2>7, <2>9, NodeAndMiner
  <1>8. CASE ~stops /\ ~agrees
    <2>1. miner' = [miner EXCEPT ![i] = mining] /\ UNCHANGED <<node, net, signed>>
      BY <1>1, <1>8
    <2> HIDE DEF mining, stops, agrees, n
    <2> QED
      BY <1>1, <1>2, <1>5, <2>1, Unchanged, NodeAndMiner
  <1> QED
    BY <1>6, <1>7, <1>8

LEMMA InitialNodeOK ==
    ASSUME NEW i \in Node
    PROVE  NodeOK(i, InitialNode)
  <1>1. 0 \in 0 .. MaxView /\ [a \in Node |-> 0] \in [Node -> 0 .. MaxView]
    BY MaxViewType
  <1>2. "none" \in ConsensusStates
    BY DEF ConsensusStates, TransientStates
  <1>3. InitialNode \in NodeRecord
    BY <1>1, <1>2 DEF InitialNode, NodeRecord, NoBlock, NoTimer
  <1> QED
    BY <1>3 DEF NodeOK, InitialNode, NoBlock, NoTimer

LEMMA CrashStep ==
    ASSUME IInv, NEW i \in Node, Crash(i)
    PROVE  IInv'
  <1> DEFINE m == [miner[i] EXCEPT !.routine = NoBlock, !.jobs = {},
                      !.miningBlocks = {}, !.tipUpdates = {miner[i].chainTip}]
  <1>1. /\ node' = [node EXCEPT ![i] = InitialNode]
        /\ miner' = [miner EXCEPT ![i] = m]
        /\ net' = [j \in Node |-> [net[j] EXCEPT ![i] = <<>>]]
        /\ UNCHANGED <<headers, mined, signed, clock, lost>>
    BY DEF Crash
  <1>2. MinerOK(m)
    BY ZenonT(40), Unchanged DEF MinerOK, MinerRecord, NoBlock
  <1>3. net' \in Wires
    <2>1. \A j \in Node : [net[j] EXCEPT ![i] = <<>>] \in [Node -> Seq(KnownMessage)]
      BY Unchanged DEF Wires
    <2> QED
      BY <1>1, <2>1 DEF Wires
  <1>4. OthersOK
    <2>1. crashes' \in 0 .. MaxCrashes
      BY ConsensusAssumption DEF Crash, ConsensusAssumption, IInv, TypeOK
    <2> QED
      BY <1>1, <2>1 DEF OthersOK, IInv, TypeOK
  <1> HIDE DEF m
  <1> QED
    BY <1>1, <1>2, <1>3, <1>4, InitialNodeOK, NodeAndMiner

LEMMA LoseStep ==
    ASSUME IInv, Lose
    PROVE  IInv'
  <1>1. PICK i \in Node, j \in Node :
           net[i][j] # <<>> /\ net' = [net EXCEPT ![i][j] = Tail(@)]
    BY DEF Lose
  <1>2. net' \in Wires
    BY <1>1, Unchanged, TailOK
  <1>3. lost' \in 0 .. MaxLost
    BY ConsensusAssumption DEF Lose, ConsensusAssumption, IInv, TypeOK
  <1>4. OthersOK
    BY <1>3 DEF Lose, OthersOK, IInv, TypeOK
  <1>5. NodeOK(i, node[i]) /\ MinerOK(miner[i])
    BY Unchanged
  <1> QED
    BY <1>2, <1>4, <1>5, Unchanged, NodeAndMiner DEF Lose

LEMMA TickStep ==
    ASSUME IInv, Tick
    PROVE  IInv'
  <1>1. PICK S \in SUBSET Correct :
           /\ clock' = [i \in Node |-> IF i \in S THEN clock[i] + 1 ELSE clock[i]]
           /\ UNCHANGED <<headers, node, miner, net, mined, signed, crashes, lost>>
    BY DEF Tick
  <1>2. clock' \in [Node -> Nat] /\ \A i \in Node : clock'[i] >= clock[i]
    BY <1>1 DEF IInv, TypeOK
  <1>3. OthersOK /\ net' \in Wires
    BY <1>1, Unchanged
  <1>4. node' \in [Node -> NodeRecord] /\ miner' \in [Node -> MinerRecord]
    BY <1>1 DEF IInv, TypeOK
  <1> QED
    BY <1>1, <1>2, <1>3, <1>4, Unchanged, SameHeaders

\* The proposer of a view is one of the validators.
LEMMA DueMinerIsValidator ==
    ASSUME TypeOK, NEW tip \in Known, headers[tip].number < MaxHeight, NEW view \in Nat
    PROVE  DueMiner(tip, view) \in Validators(tip)
  <1> DEFINE miners == NextMinersAt(headers[tip].number)
             pre == headers[tip]
             behind == {k \in DOMAIN miners : miners[k] = pre.miner}
             offset == IF IsElectionBlockNumber(pre.number) \/ behind = {}
                       THEN view
                       ELSE view + (CHOOSE k \in behind : TRUE)
  <1>1. headers[tip].number \in 0 .. MaxHeight
    BY HeaderType, MaxViewType DEF Header
  <1>2. GetElectionBlockNumber(headers[tip].number + 1) \in DOMAIN MinerLists
    BY <1>1, ConsensusAssumption DEF ConsensusAssumption
  <1>3. Len(miners) \in Nat \ {0} /\ miners \in Seq(Node)
    BY <1>2, MinersNotEmpty DEF NextMinersAt
  <1> HIDE DEF miners, pre
  <1>4. DOMAIN miners = 1 .. Len(miners)
    BY <1>3
  <1>5. offset \in Nat
    BY <1>4
  <1> HIDE DEF offset
  <1>6. (offset % Len(miners)) + 1 \in 1 .. Len(miners)
    BY <1>3, <1>5
  <1>7. GetDueNextMiner(pre, miners, view) = miners[(offset % Len(miners)) + 1]
    BY DEF GetDueNextMiner, offset
  <1>8. GetDueNextMiner(pre, miners, view) \in MembersOf(miners)
    BY <1>4, <1>6, <1>7 DEF MembersOf
  <1> QED
    BY <1>8 DEF DueMiner, Validators, miners, pre

\* A node that starts to wait for its proposal has entered another view.
LEMMA ResetTimerMoves ==
    ASSUME NEW i \in Node, NEW n \in NodeRecord, n.state = "waitingProposal", NEW now,
           NEW r \in ResetTimer(i, n, now), r.state = "waitingCreate"
    PROVE  r.view # n.view
  <1>1. i \in Validators(n.tip)
    BY DEF ResetTimer
  <1>2. PICK v \in n.view .. MaxView :
           r = [AtView(i, n, v) EXCEPT !.timer = NextTime(AtView(i, n, v))]
    BY <1>1 DEF ResetTimer
  <1>3. v \in 0 .. MaxView
    BY <1>2 DEF NodeRecord
  <1> DEFINE at == AtView(i, n, v)
  <1>4. /\ at \in NodeRecord
        /\ at.view = v
        /\ \/ at = n /\ v = n.view
           \/ v # n.view \/ n.state \in TransientStates
           \/ at.state = "waitingProposal"
    BY <1>3, AtViewType
  <1> HIDE DEF at
  <1>5. r.state = at.state /\ r.view = at.view
    BY <1>2, <1>4 DEF NodeRecord, at
  <1> QED
    BY <1>4, <1>5 DEF TransientStates

LEMMA OnTimeoutCreateStep ==
    ASSUME IInv, NEW i \in Node, OnTimeoutCreate(i)
    PROVE  IInv'
  <1> DEFINE n == node[i]
             b == Len(headers) + 1
             fired == [InState(n, "waitingProposal") EXCEPT !.timer = NoTimer]
             h == [pre |-> n.tip, number |-> headers[n.tip].number + 1, view |-> n.view,
                   miner |-> i, totalView |-> headers[n.tip].totalView + 2 ^ (n.view + 1) - 1]
  <1>1. /\ TimerFires(i)
        /\ n.state = "waitingCreate"
        /\ headers' = Append(headers, h)
        /\ \E r \in ResetTimer(i, fired, clock[i]) : node' = [node EXCEPT ![i] = r]
        /\ miner' = IF miner[i].chainTip = n.tip
                    THEN [miner EXCEPT ![i] = AddJob(@, Job("decorate", b, {}))]
                    ELSE miner
        /\ UNCHANGED <<net, mined, signed, clock, crashes, lost>>
    BY DEF OnTimeoutCreate
  <1>2. PICK r \in ResetTimer(i, fired, clock[i]) : node' = [node EXCEPT ![i] = r]
    BY <1>1
  <1>3. NodeOK(i, n) /\ MinerOK(miner[i]) /\ n \in NodeRecord /\ clock[i] \in Nat
    BY Unchanged DEF NodeOK, IInv, TypeOK
  <1>4. n.tip \in Known /\ i = DueMiner(n.tip, n.view) /\ n.view \in 0 .. MaxView
    BY <1>1, <1>3 DEF NodeOK, NotProposedYet, NodeRecord
  <1>5. clock[i] >= CreateTime(n.tip, n.view)
    <2>1. i \in Validators(n.tip)
      BY <1>1, <1>4, DueMinerIsValidator DEF TimerFires, IInv
    <2>2. n.timer = NextTime(n)
      BY <1>3, <1>4, <2>1 DEF NodeOK, Known, NoBlock
    <2>3. NextTime(n) = CreateTime(n.tip, n.view) /\ NextTime(n) \in Nat
      BY <1>1, <1>3, <1>4, NextTimeType DEF IInv
    <2> QED
      BY <1>1, <1>3, <2>2, <2>3 DEF TimerFires
  <1>6. h \in Header
    <2>1. headers[n.tip].number \in Nat /\ headers[n.tip].totalView \in Nat
      BY <1>4, HeaderType DEF Header, IInv
    <2>2. 2 ^ (n.view + 1) \in Nat \ {0}
      BY <1>4, Powers
    <2>3. headers[n.tip].totalView + 2 ^ (n.view + 1) - 1 \in Nat
      BY <2>1, <2>2
    <2> DEFINE number == headers[n.tip].number + 1
               total == headers[n.tip].totalView + 2 ^ (n.view + 1) - 1
    <2>4. number \in Nat /\ total \in Nat /\ n.tip \in Nat /\ n.view \in 0 .. MaxView
      BY SMTT(30), <1>4, <2>1, <2>3 DEF Known
    <2>5. h = [pre |-> n.tip, number |-> number, view |-> n.view, miner |-> i, totalView |-> total]
      OBVIOUS
    <2> HIDE DEF n, h, number, total
    <2> QED
      BY <2>4, <2>5 DEF Header
  <1> HIDE DEF h
  <1>7. /\ headers' \in Seq(Header)
        /\ Len(headers) \in Nat
        /\ Known' = Known \cup {b} /\ b \notin Known
        /\ \A k \in Known : headers'[k] = headers[k]
        /\ headers'[b] = h
    BY <1>1, <1>6 DEF IInv, TypeOK, Known
  <1>8. /\ fired \in NodeRecord
        /\ fired.state = "waitingProposal" /\ fired.tip = n.tip /\ fired.view = n.view
    <2> DEFINE st == InState(n, "waitingProposal")
    <2>1. "waitingProposal" \in ConsensusStates
      BY DEF ConsensusStates
    <2>2. /\ st \in NodeRecord
          /\ st.state = "waitingProposal" /\ st.tip = n.tip /\ st.view = n.view
      BY <1>3, <2>1, InStateType
    <2>3. fired = [st EXCEPT !.timer = NoTimer]
      OBVIOUS
    <2> HIDE DEF st, fired, n
    <2> QED
      BY <2>2, <2>3 DEF NodeRecord, NoTimer
  <1> HIDE DEF fired
  <1>9. NodeOK(i, r)
    <2>1. Resettable(fired)
      BY <1>4, <1>8 DEF Resettable
    <2>2. AheadOfClock(i, fired, clock[i])
      BY OnTime
    <2>3. clock[i] \in Int
      BY <1>3
    <2> QED
      BY <1>2, <2>1, <2>2, <2>3, ResetTimerOK DEF IInv
  <1>10. r.state = "waitingCreate" => r.view # n.view
    BY <1>8, ResetTimerMoves
  <1>11. h.pre = n.tip /\ h.view = n.view /\ h.miner = i
    BY DEF h
  <1>12. r \in NodeRecord /\ node \in [Node -> NodeRecord]
    BY <1>9 DEF NodeOK, IInv, TypeOK
  <1>13. node' \in [Node -> NodeRecord] /\ \A j \in Node : NodeOK(j, node'[j])
    BY <1>2, <1>9, <1>12 DEF IInv
  <1>14. \A j \in Node : node'[j].state = "waitingCreate" =>
            ~(h.pre = node'[j].tip /\ h.view = node'[j].view)
    <2> SUFFICES ASSUME NEW j \in Node, node'[j].state = "waitingCreate",
                        h.pre = node'[j].tip, h.view = node'[j].view
                 PROVE  FALSE
      OBVIOUS
    <2>1. CASE j = i
      BY <1>2, <1>10, <1>11, <1>12, <2>1
    <2>2. CASE j # i
      <3>1. j = DueMiner(h.pre, h.view)
        BY <1>13 DEF NodeOK, NotProposedYet
      <3>2. i = DueMiner(h.pre, h.view)
        BY <1>4, <1>11
      <3> QED
        BY <2>2, <3>1, <3>2
    <2> QED
      BY <2>1, <2>2
  <1>15. miner' \in [Node -> MinerRecord] /\ \A j \in Node : MinerOK(miner[j])'
    <2>1. \A m : MinerOK(m) => /\ m \in MinerRecord
                              /\ m.chainTip \in Known'
                              /\ m.tipUpdates \subseteq Known'
                              /\ \A job \in m.jobs : job.block \in Known'
      BY <1>7 DEF MinerOK
    <2>2. \A j \in Node : j # i => MinerOK(miner'[j])
      BY <1>1, Unchanged DEF IInv, TypeOK
    <2> DEFINE job == Job("decorate", b, {})
    <2>3. job \in JobRecord /\ job.block = b
      BY <1>7 DEF Job, JobRecord
    <2> HIDE DEF job
    <2>4. /\ AddJob(miner[i], job) \in MinerRecord
          /\ AddJob(miner[i], job).chainTip \in Known'
          /\ AddJob(miner[i], job).tipUpdates \subseteq Known'
          /\ \A k \in AddJob(miner[i], job).jobs : k.block \in Known'
      BY <1>3, <1>7, <2>3 DEF AddJob, MinerOK, MinerRecord
    <2>5. miner'[i] = miner[i] \/ miner'[i] = AddJob(miner[i], job)
      BY <1>1 DEF IInv, TypeOK, job
    <2>6. \A j \in Node : /\ miner'[j] \in MinerRecord
                          /\ miner'[j].chainTip \in Known'
                          /\ miner'[j].tipUpdates \subseteq Known'
                          /\ \A k \in miner'[j].jobs : k.block \in Known'
      BY <1>3, <2>1, <2>2, <2>4, <2>5
    <2>7. miner' \in [Node -> MinerRecord]
      BY <1>1, <2>6 DEF IInv, TypeOK
    <2> QED
      BY <2>6, <2>7 DEF MinerOK
  <1>16. (net \in Wires)'
    <2>1. \A m : m \in KnownMessage => m \in KnownMessage'
      BY <1>7 DEF KnownMessage
    <2>2. Seq(KnownMessage) \subseteq Seq(KnownMessage')
      BY <2>1, SeqMonotone
    <2>3. net \in [Node -> [Node -> Seq(KnownMessage)]]
      BY Unchanged DEF Wires
    <2>4. net' \in [Node -> [Node -> Seq(KnownMessage')]]
      BY <1>1, <2>2, <2>3
    <2> QED
      BY <2>4 DEF Wires
  <1>17. GenesisFirst'
    <2>1. Genesis \in Known
      BY DEF IInv, TypeOK, GenesisFirst, Known, Genesis
    <2>2. headers' # <<>>
      <3>1. b \in 1 .. Len(headers')
        BY <1>7 DEF Known
      <3> QED
        BY <1>7, <3>1
    <2> QED
      BY <1>7, <2>1, <2>2 DEF IInv, GenesisFirst
  <1>18. ProposalsInTime'
    <2> SUFFICES ASSUME NEW k \in Known', k # Genesis
                 PROVE  /\ headers'[k].pre \in Known'
                        /\ headers'[k].miner = DueMiner(headers[k].pre, headers[k].view)'
                        /\ clock'[headers'[k].miner] >=
                              CreateTime(headers[k].pre, headers[k].view)'
      BY SMTT(30) DEF ProposalsInTime
    <2>1. CASE k = b
      <3>1. headers'[k] = h /\ headers'[n.tip] = headers[n.tip] /\ n.tip \in Known'
        BY <1>4, <1>7, <2>1
      <3>2. i = DueMiner(headers[k].pre, headers[k].view)'
        BY <1>4, <1>11, <3>1 DEF DueMiner
      <3>3. CreateTime(headers[k].pre, headers[k].view)' = CreateTime(n.tip, n.view)
        BY <1>11, <3>1 DEF CreateTime
      <3> QED
        BY <1>1, <1>5, <1>11, <3>1, <3>2, <3>3
    <2>2. CASE k \in Known
      <3>1. /\ headers[k].pre \in Known
            /\ headers[k].miner = DueMiner(headers[k].pre, headers[k].view)
            /\ clock[headers[k].miner] >= CreateTime(headers[k].pre, headers[k].view)
        BY <2>2 DEF IInv, ProposalsInTime
      <3> QED
        BY <1>1, <1>7, <2>2, <3>1 DEF DueMiner, CreateTime
    <2> QED
      BY <1>7, <2>1, <2>2
  <1>19. OneProposalPerView'
    <2>1. \A k \in Known : headers[k].pre = n.tip => headers[k].view # n.view
      BY <1>1, <1>3 DEF NodeOK, NotProposedYet
    <2>2. \A k \in Known : ~(headers'[k].pre = h.pre /\ headers'[k].view = h.view)
      BY <1>7, <1>11, <2>1
    <2>3. \A k1, k2 \in Known : headers'[k1].pre = headers'[k2].pre
                                /\ headers'[k1].view = headers'[k2].view => k1 = k2
      BY <1>7 DEF IInv, OneProposalPerView, Known
    <2>4. \A k1, k2 \in Known' : headers'[k1].pre = headers'[k2].pre
                                /\ headers'[k1].view = headers'[k2].view => k1 = k2
      BY <1>7, <2>2, <2>3
    <2> QED
      BY <2>4 DEF OneProposalPerView, Known
  <1>20. \A j \in Node : NodeOK(j, node[j])'
    <2> SUFFICES ASSUME NEW j \in Node PROVE NodeOK(j, node[j])'
      OBVIOUS
    <2>1. NodeOK(j, node'[j])
      BY <1>13
    <2>2. node'[j].tip \in Known =>
             /\ headers'[node'[j].tip] = headers[node'[j].tip]
      BY <1>7
    <2>3. node'[j].state = "waitingCreate" => NotProposedYet(j, node[j])'
      BY <1>7, <1>14, <2>1, <2>2 DEF NodeOK, NotProposedYet, DueMiner
    <2>4. node'[j].tip \in Known => NextTime(node[j])' = NextTime(node'[j])
      BY <2>2 DEF NextTime
    <2>5. node'[j].tip \in Known => Validators(node[j].tip)' = Validators(node'[j].tip)
      BY <2>2 DEF Validators
    <2> QED
      BY <1>7, <2>1, <2>3, <2>4, <2>5 DEF NodeOK
  <1>21. TypeOK'
    <2>1. net' \in [Node -> [Node -> Seq(Message)]]
      BY <1>1 DEF IInv, TypeOK
    <2> QED
      BY <1>1, <1>7, <1>13, <1>15, <2>1 DEF IInv, TypeOK
  <1>22. (\A m \in mined : m.block \in Known)'
    BY <1>1, <1>7 DEF IInv
  <1> QED
    BY <1>15, <1>16, <1>17, <1>18, <1>19, <1>20, <1>21, <1>22 DEF IInv, Wires

LEMMA InitStep ==
    ASSUME Init
    PROVE  IInv
  <1> DEFINE h == [pre |-> NoBlock, number |-> 0, view |-> 0,
                   miner |-> CHOOSE a \in Node : TRUE, totalView |-> 1]
             m == [routine |-> NoBlock, jobs |-> {}, miningBlocks |-> {},
                   chainTip |-> Genesis, tipUpdates |-> {Genesis},
                   stored |-> {Genesis}, rows |-> {Genesis}]
  <1>1. Node # {}
    <2>1. GetElectionBlockNumber(0 + 1) \in DOMAIN MinerLists
      BY ConsensusAssumption, MaxViewType DEF ConsensusAssumption
    <2> QED
      BY <2>1, MinersNotEmpty
  <1>2. h \in Header
    BY <1>1, MaxViewType DEF Header, NoBlock
  <1>3. /\ headers = <<h>>
        /\ node = [i \in Node |-> InitialNode]
        /\ miner = [i \in Node |-> m]
        /\ net = [i \in Node |-> [j \in Node |-> <<>>]]
        /\ mined = {} /\ signed = {}
        /\ clock = [i \in Node |-> 0]
        /\ crashes = 0 /\ lost = 0
    BY DEF Init
  <1> HIDE DEF h
  <1>4. /\ headers \in Seq(Header) /\ Len(headers) = 1 /\ headers[1] = h /\ headers # <<>>
        /\ Known = {Genesis}
    BY <1>2, <1>3 DEF Known, Genesis
  <1>5. GenesisFirst
    BY <1>4 DEF GenesisFirst, Genesis, h
  <1>6. ProposalsInTime /\ OneProposalPerView
    BY <1>4 DEF ProposalsInTime, OneProposalPerView
  <1>7. \A i \in Node : NodeOK(i, node[i])
    BY <1>3, InitialNodeOK
  <1>8. m \in MinerRecord /\ MinerOK(m)
    BY <1>4 DEF MinerOK, MinerRecord, NoBlock, Genesis
  <1> HIDE DEF m
  <1>9. net \in Wires /\ net \in [Node -> [Node -> Seq(Message)]]
    BY <1>3 DEF Wires
  <1>10. TypeOK
    <2>1. node \in [Node -> NodeRecord]
      BY <1>3, InitialNodeOK DEF NodeOK
    <2>2. 0 \in 0 .. MaxCrashes /\ 0 \in 0 .. MaxLost
      BY ConsensusAssumption DEF ConsensusAssumption
    <2> QED
      BY <1>3, <1>4, <1>8, <1>9, <2>1, <2>2 DEF TypeOK
  <1> QED
    BY <1>3, <1>5, <1>6, <1>7, <1>8, <1>9, <1>10 DEF IInv, Wires

LEMMA NextStep ==
    ASSUME IInv, [Next]_vars
    PROVE  IInv'
  <1>1. CASE Tick
    BY <1>1, TickStep
  <1>2. CASE Lose
    BY <1>2, LoseStep
  <1>3. ASSUME NEW i \in Correct, NodeStep(i) \/ Crash(i)
        PROVE  IInv'
    <2>1. i \in Node
      BY ConsensusAssumption DEF ConsensusAssumption
    <2> QED
      BY <1>3, <2>1, UpdateTipStep, OnTimeoutCreateStep, OnTimeoutChangeViewStep, ReceiveStep,
         CreateBlockStep, NewProposalStep, ExecuteStep, AddMinedBlockStep, AddBlockStep, CrashStep
         DEF NodeStep
  <1>4. CASE UNCHANGED vars
    <2>1. clock' \in [Node -> Nat] /\ \A i \in Node : clock'[i] >= clock[i]
      BY <1>4 DEF vars, IInv, TypeOK
    <2>2. node' \in [Node -> NodeRecord] /\ miner' \in [Node -> MinerRecord]
      BY <1>4 DEF vars, IInv, TypeOK
    <2>3. UNCHANGED <<headers, node, miner, net, mined, signed, crashes, lost>>
      BY <1>4 DEF vars
    <2>4. OthersOK /\ net' \in Wires
      BY <2>3, Unchanged
    <2> QED
      BY <2>1, <2>2, <2>3, <2>4, Unchanged, SameHeaders
  <1> QED
    BY <1>1, <1>2, <1>3, <1>4 DEF Next

\* The inductive invariant holds in every behaviour of the consensus.
THEOREM Invariance == Spec => []IInv
  <1>1. Init => IInv
    BY InitStep
  <1>2. IInv /\ [Next]_vars => IInv'
    BY NextStep
  <1> QED
    BY <1>1, <1>2, PTL DEF Spec

-----------------------------------------------------------------------------
(* Theorems.                                                               *)

\* The variables keep the shape the code gives them.
THEOREM TypeCorrect == Spec => []TypeOK
  <1>1. IInv => TypeOK
    BY DEF IInv
  <1> QED
    BY <1>1, Invariance, PTL

\* A proposer creates one block for a view over one parent: entering a view
\* again, restarting, or a message lost or late does not make it a second one
\* (_nextTimeout, consensus_node.ts).
THEOREM OneProposal == Spec => []OneProposalPerView
  <1>1. IInv => OneProposalPerView
    BY DEF IInv
  <1> QED
    BY <1>1, Invariance, PTL

\* No handler of a timer, a message or a new tip leaves a validator without a
\* timer for the state it is in, so a round that got stuck ends (_resetTimer).
THEOREM Armed == Spec => []TimerArmed
  <1>1. IInv => TimerArmed
    BY ConsensusAssumption DEF IInv, TimerArmed, NodeOK, ConsensusAssumption
  <1> QED
    BY <1>1, Invariance, PTL
-----------------------------------------------------------------------------
(***************************************************************************)
(* What blocks are worth: a block that leaves a miner passes the check     *)
(* every other node makes of it, and the certified blocks and the chains   *)
(* behave like the tree of BlockTree.                                      *)
(*                                                                         *)
(* A node only agrees to a child of its tip, drops the signatures of other *)
(* blocks when it does, and counts only validators of that tip; so the     *)
(* signatures of the job that stores the block are those the check looks   *)
(* for.  Tips are certified blocks, hence so are the parents of blocks.    *)
(***************************************************************************)

(* The inductive invariant.                                                *)

Certified == {Genesis} \cup {m.block : m \in mined}

\* A header follows a certified block and has the next number.
Numbered ==
    /\ \A b \in Known : headers[b].number \in 0 .. MaxHeight
    /\ \A b \in Known \ {Genesis} :
          /\ headers[b].number = headers[headers[b].pre].number + 1
          /\ headers[b].pre \in Certified

\* m carries the signatures its block needs.
Proved(m) == m.block # Genesis /\ VerifySigns(m)

\* The tip is one of C, and whoever signed is one of its validators.
NodeCert(n, C) ==
    /\ n.tip # NoBlock => n.tip \in C /\ \A s \in n.signs : s.addr \in Validators(n.tip)
    /\ n.state = "waitingAgree" =>
          headers[n.block].pre = n.tip /\ \A s \in n.signs : s.hash = n.block

\* The chain ends with one of C, and blocks to be stored are certified.
MinerCert(m, C) ==
    /\ m.chainTip \in C /\ m.tipUpdates \subseteq C
    /\ \A job \in m.jobs : job.op = "snapshot" => Proved(job)

CInv ==
    /\ Numbered
    /\ \A i \in Node : NodeCert(node[i], Certified)
    /\ \A i \in Node : MinerCert(miner[i], Certified)
    /\ \A m \in mined : Proved(m)

\* No header, certificate or height of a chain is ever lost.
Climbs ==
    /\ Known \subseteq Known' /\ \A b \in Known : headers'[b] = headers[b]
    /\ mined \subseteq mined'
    /\ \A i \in Node :
          \/ miner'[i].chainTip = miner[i].chainTip
          \/ headers'[miner'[i].chainTip].number > headers'[miner[i].chainTip].number

-----------------------------------------------------------------------------
(* Enough signatures.                                                      *)

LEMMA CertifiedKnown ==
    ASSUME IInv
    PROVE  Certified \subseteq Known
<1>1. Genesis \in Known
  BY DEF IInv, TypeOK, GenesisFirst, Known, Genesis
<1> QED
  BY <1>1 DEF IInv, Certified

\* A list of validators names each of them once.
LEMMA MembersCount ==
    ASSUME NEW k \in DOMAIN MinerLists
    PROVE  /\ IsFiniteSet(MembersOf(MinerLists[k]))
           /\ Cardinality(MembersOf(MinerLists[k])) = Len(MinerLists[k])
           /\ MembersOf(MinerLists[k]) \subseteq Node
<1> DEFINE l == MinerLists[k]
           n == Len(l)
           f == [j \in 1 .. n |-> l[j]]
<1>1. l \in Seq(Node) /\ \A i, j \in DOMAIN l : l[i] = l[j] => i = j
  BY ContextAssumption DEF ContextAssumption
<1> HIDE DEF l
<1>2. n \in Nat /\ DOMAIN l = 1 .. n /\ \A j \in 1 .. n : l[j] \in Node
  BY <1>1, LenProperties, ElementOfSeq
<1> HIDE DEF n
<1>3. MembersOf(l) = {l[j] : j \in 1 .. n}
  BY <1>2 DEF MembersOf
<1>4. f \in Bijection(1 .. n, MembersOf(l))
  <2>0. f = [j \in 1 .. n |-> l[j]]
    OBVIOUS
  <2> HIDE DEF f
  <2>1. f \in [1 .. n -> MembersOf(l)]
    BY <1>3, <2>0
  <2>2. \A i, j \in 1 .. n : f[i] = f[j] => i = j
    BY <1>1, <1>2, <2>0
  <2>3. \A x \in MembersOf(l) : \E j \in 1 .. n : f[j] = x
    BY <1>3, <2>0
  <2> QED
    BY <2>1, <2>2, <2>3 DEF Bijection, Injection, Surjection, IsInjective
<1>5. IsFiniteSet(1 .. n) /\ Cardinality(1 .. n) = n
  BY <1>2, FS_Interval
<1>6. IsFiniteSet(MembersOf(l)) /\ Cardinality(MembersOf(l)) = n
  BY <1>4, <1>5, FS_Bijection DEF ExistsBijection
<1>7. MembersOf(l) \subseteq Node
  BY <1>2, <1>3
<1> QED
  BY <1>6, <1>7 DEF l, n

\* Signatures of one block by validators of its parent certify it when they
\* are as many as the agreed share.
LEMMA Certifies ==
    ASSUME IInv, Numbered, NEW b \in Known, NEW t \in Known, headers[b].pre = t,
           NEW S, \A s \in S : s \in Sign /\ s.addr \in Validators(t) /\ s.hash = b,
           IsAgreeRateReached(Len(NextMinersAt(headers[t].number)), Cardinality(S)),
           NEW m, m.block = b, m.signs = S
    PROVE  Proved(m)
<1>1. b # Genesis
  BY DEF IInv, GenesisFirst, Known, NoBlock
<1>2. /\ headers[b].number = headers[t].number + 1
      /\ headers[b].number \in 0 .. MaxHeight /\ headers[t].number \in 0 .. MaxHeight
  BY <1>1 DEF Numbered
<1> DEFINE k == GetElectionBlockNumber(headers[t].number + 1)
           miners == MinerLists[k]
           valid == {a \in MembersOf(miners) : [addr |-> a, hash |-> b] \in S}
           f == [a \in valid |-> [addr |-> a, hash |-> b]]
<1>3. k \in DOMAIN MinerLists
  BY <1>2, ConsensusAssumption DEF ConsensusAssumption
<1>4. miners = NextMinersAt(headers[t].number) /\ MembersOf(miners) = Validators(t)
  BY DEF NextMinersAt, Validators
<1>5. headers[b].miner = GetDueNextMiner(headers[t], miners, headers[b].view)
  BY <1>1, <1>4 DEF IInv, ProposalsInTime, DueMiner
<1>6. /\ IsFiniteSet(MembersOf(miners)) /\ Cardinality(MembersOf(miners)) = Len(miners)
  BY <1>3, MembersCount
<1> HIDE DEF miners
<1>7. Cardinality(valid) = Cardinality(S)
  <2>1. f \in [valid -> S]
    OBVIOUS
  <2>2. \A x, y \in valid : f[x] = f[y] => x = y
    OBVIOUS
  <2>3. \A s \in S : \E a \in valid : f[a] = s
    <3> SUFFICES ASSUME NEW s \in S PROVE \E a \in valid : f[a] = s
      OBVIOUS
    <3>1. s = [addr |-> s.addr, hash |-> b]
      BY DEF Sign
    <3>2. s.addr \in valid
      BY <1>4, <3>1
    <3> QED
      BY <3>1, <3>2
  <2>4. f \in Bijection(valid, S)
    BY <2>1, <2>2, <2>3 DEF Bijection, Injection, Surjection, IsInjective
  <2>5. IsFiniteSet(valid)
    BY <1>6, FS_Subset
  <2> QED
    BY <2>4, <2>5, FS_Bijection DEF ExistsBijection
<1>8. IsAgreeRateReached(Cardinality(MembersOf(miners)), Cardinality(valid))
  BY <1>4, <1>6, <1>7
<1>9. GetElectionBlockNumber(headers[b].number) = k
  BY <1>2
<1> HIDE DEF k
<1>10. VerifySigns(m)
  BY <1>5, <1>8, <1>9 DEF VerifySigns, miners
<1> QED
  BY <1>1, <1>10 DEF Proved

-----------------------------------------------------------------------------
(* The records.                                                            *)

\* n2 is n as far as certificates go, or not about to be certified.
Similar(n, n2) ==
    /\ n2.tip = n.tip
    /\ \/ n2.state = n.state /\ n2.signs = n.signs /\ n2.block = n.block
       \/ n2.state # "waitingAgree" /\ n2.signs \subseteq n.signs

LEMMA SimilarCert ==
    ASSUME NEW C, NEW n, NodeCert(n, C), NEW n2, Similar(n, n2)
    PROVE  NodeCert(n2, C)
BY DEF Similar, NodeCert

LEMMA SimilarTrans ==
    ASSUME NEW n, NEW n2, NEW n3, Similar(n, n2), Similar(n2, n3)
    PROVE  Similar(n, n3)
BY DEF Similar

LEMMA InStateSimilar ==
    ASSUME NEW n \in NodeRecord, NEW s, s # "waitingAgree"
    PROVE  /\ Similar(n, InState(n, s)) /\ InState(n, s).signs = {}
           /\ InState(n, s).state = s /\ InState(n, s).tip = n.tip
           /\ DOMAIN InState(n, s) = DOMAIN n
BY DEF InState, NodeRecord, Similar

LEMMA ResetSimilar ==
    ASSUME NEW i \in Node, NEW n \in NodeRecord, NEW now, NEW r \in ResetTimer(i, n, now)
    PROVE  Similar(n, r)
<1>1. CASE i \notin Validators(n.tip)
  BY <1>1 DEF ResetTimer, Similar
<1>2. CASE i \in Validators(n.tip)
  <2>1. PICK v \in n.view .. MaxView :
           r = [AtView(i, n, v) EXCEPT !.timer = NextTime(AtView(i, n, v))]
    BY <1>2 DEF ResetTimer
  <2> DEFINE s == IF i = DueMiner(n.tip, v) THEN "waitingCreate" ELSE "waitingProposal"
             at == AtView(i, n, v)
             t == NextTime(at)
             st == InState(n, s)
  <2>2. at = n \/ at = [st EXCEPT !.view = v]
    BY DEF AtView
  <2>3. s # "waitingAgree"
    OBVIOUS
  <2>4. r = [at EXCEPT !.timer = t]
    BY <2>1
  <2>5. /\ Similar(n, st) /\ DOMAIN st = DOMAIN n
    BY <2>3, InStateSimilar
  <2> HIDE DEF t, st
  <2>6. Similar(n, at) /\ DOMAIN at = DOMAIN n
    BY <2>2, <2>5 DEF Similar, NodeRecord
  <2> HIDE DEF at
  <2> QED
    BY <2>4, <2>6 DEF Similar, NodeRecord
<1> QED
  BY <1>1, <1>2

LEMMA CountSimilar ==
    ASSUME NEW n \in NodeRecord, NEW view, NEW id
    PROVE  Similar(n, CountChangeView(n, view, id))
<1> DEFINE votes == [n.changeView EXCEPT ![id] = view]
           zero == [a \in Node |-> 0]
           st == InState(n, "changeViewSucc")
           c == CountChangeView(n, view, id)
<1>1. \/ c = n
      \/ c = [st EXCEPT !.view = view, !.changeView = zero]
      \/ c = [n EXCEPT !.changeView = votes]
  BY DEF CountChangeView
<1>2. Similar(n, st) /\ DOMAIN st = DOMAIN n
  BY InStateSimilar
<1> HIDE DEF votes, zero, st, c
<1>3. Similar(n, c)
  BY <1>1, <1>2 DEF Similar, NodeRecord
<1> QED
  BY <1>3 DEF c

\* A node with a new tip starts anew.
LEMMA WithTipCert ==
    ASSUME NEW C, NEW n \in NodeRecord, NEW b \in C
    PROVE  NodeCert(WithTip(n, b), C)
<1> DEFINE zero == [a \in Node |-> 0]
           st == InState(n, "none")
<1>1. WithTip(n, b) = [st EXCEPT !.tip = b, !.view = 0, !.changeView = zero]
  BY DEF WithTip
<1>2. st.signs = {} /\ st.state = "none" /\ DOMAIN st = DOMAIN n
  BY InStateSimilar
<1> HIDE DEF st, zero
<1> QED
  BY <1>1, <1>2 DEF NodeCert, NodeRecord

\* A signature is only counted when it is one of those needed, and a node that
\* has enough of them has a certificate.
LEMMA AddSignCert ==
    ASSUME IInv, Numbered, NEW C, NEW n \in NodeRecord, NodeCert(n, C), n.tip \in Known,
           n.state = "waitingAgree" => n.block \in Known,
           NEW s \in Sign, NEW c, c = AddSign(n, s)
    PROVE  /\ NodeCert(c, C)
           /\ n.state # "waitingBlock" /\ c.state = "waitingBlock" =>
                 \A m : m.block = c.block /\ m.signs = c.signs => Proved(m)
<1> DEFINE signs == n.signs \cup {s}
           enough == IsAgreeRateReached(Len(NextMinersAt(headers[n.tip].number)), Cardinality(signs))
           state == IF enough THEN "waitingBlock" ELSE n.state
<1>1. \/ c = n
      \/ /\ s.addr \in Validators(n.tip) /\ n.state \in {"waitingProposal", "waitingVerify"}
         /\ c = [n EXCEPT !.signs = signs]
      \/ /\ s.addr \in Validators(n.tip) /\ n.state = "waitingAgree" /\ s.hash = n.block
         /\ c = [n EXCEPT !.signs = signs, !.state = state]
  BY DEF AddSign
<1>2. signs \subseteq Sign
  BY DEF NodeRecord
<1>3. n.tip # NoBlock
  BY DEF Known, NoBlock
<1>4. CASE c = n
  BY <1>4
<1>5. CASE /\ s.addr \in Validators(n.tip) /\ n.state \in {"waitingProposal", "waitingVerify"}
           /\ c = [n EXCEPT !.signs = signs]
  <2>1. \A x \in signs : x.addr \in Validators(n.tip)
    BY <1>3, <1>5 DEF NodeCert
  <2> HIDE DEF signs
  <2>2. c.signs = signs /\ c.tip = n.tip /\ c.state = n.state
    BY <1>5 DEF NodeRecord
  <2> QED
    BY <1>5, <2>1, <2>2 DEF NodeCert
<1>6. CASE /\ s.addr \in Validators(n.tip) /\ n.state = "waitingAgree" /\ s.hash = n.block
           /\ c = [n EXCEPT !.signs = signs, !.state = state]
  <2>1. /\ \A x \in signs : x \in Sign /\ x.addr \in Validators(n.tip) /\ x.hash = n.block
        /\ headers[n.block].pre = n.tip
    BY <1>2, <1>3, <1>6 DEF NodeCert
  <2> HIDE DEF signs, state
  <2>2. c.signs = signs /\ c.tip = n.tip /\ c.state = state /\ c.block = n.block
    BY <1>6 DEF NodeRecord
  <2>3. NodeCert(c, C)
    BY <2>1, <2>2, <1>3 DEF NodeCert
  <2>4. c.state = "waitingBlock" => enough
    BY <1>6, <2>2 DEF state
  <2>5. ASSUME enough, NEW m, m.block = n.block, m.signs = signs
        PROVE  Proved(m)
    <3>1. n.block \in Known
      BY <1>6
    <3> QED
      BY <2>1, <2>5, <3>1, Certifies
  <2> QED
    BY <2>2, <2>3, <2>4, <2>5
<1> QED
  BY <1>1, <1>4, <1>5, <1>6

\* The miner keeps its certificates when it gets no more of them.
LEMMA JobsCert ==
    ASSUME NEW C, NEW m \in MinerRecord, MinerCert(m, C), NEW m2,
           m2.chainTip = m.chainTip, m2.tipUpdates = m.tipUpdates,
           \A job \in m2.jobs : job.op = "snapshot" => job \in m.jobs \/ Proved(job)
    PROVE  MinerCert(m2, C)
BY DEF MinerCert

LEMMA MinerFields ==
    ASSUME NEW m \in MinerRecord, NEW job, NEW next, NEW b
    PROVE  /\ Continue(m, job, next).jobs = (m.jobs \ {job}) \cup next
           /\ AddJob(m, job).jobs = m.jobs \cup {job}
           /\ CreateRoutine(m, b).jobs = m.jobs /\ SetIdle(m, b).jobs = m.jobs
           /\ \A x \in {Continue(m, job, next), AddJob(m, job), CreateRoutine(m, b), SetIdle(m, b)} :
                  x.chainTip = m.chainTip /\ x.tipUpdates = m.tipUpdates
BY DEF Continue, AddJob, CreateRoutine, SetIdle, MinerRecord

\* The chain of a miner climbs to a block of C.
LEMMA AddVerifiedCert ==
    ASSUME NEW C, NEW m \in MinerRecord, MinerCert(m, C), NEW b \in C,
           NEW x, x = AddVerifiedBlock(m, b)
    PROVE  /\ MinerCert(x, C) /\ MinerCert(EmitTipBlock(x, b), C)
           /\ EmitTipBlock(x, b).chainTip = x.chainTip
           /\ x.chainTip = m.chainTip \/ headers[x.chainTip].number > headers[m.chainTip].number
<1> DEFINE rows == IF headers[b].pre \in m.rows THEN m.rows \cup {b} ELSE m.rows
           stored == m.stored \cup {b}
<1>1. \/ /\ headers[b].number > headers[m.chainTip].number
         /\ x = [m EXCEPT !.stored = stored, !.chainTip = b, !.rows = rows]
      \/ x = [m EXCEPT !.stored = stored]
  BY DEF AddVerifiedBlock
<1> HIDE DEF rows, stored
<1>2. /\ x.chainTip = m.chainTip
         \/ (x.chainTip = b /\ headers[b].number > headers[m.chainTip].number)
      /\ x.tipUpdates = m.tipUpdates /\ x.jobs = m.jobs /\ DOMAIN x = DOMAIN m
  BY <1>1 DEF MinerRecord
<1>3. MinerCert(x, C)
  BY <1>2 DEF MinerCert
<1> DEFINE updates == x.tipUpdates \cup {b}
           y == EmitTipBlock(x, b)
<1>4. y = x \/ y = [x EXCEPT !.tipUpdates = updates]
  BY DEF EmitTipBlock
<1>5. updates \subseteq C
  BY <1>3 DEF MinerCert
<1> HIDE DEF updates, y
<1>6. y.chainTip = x.chainTip /\ y.jobs = x.jobs /\ y.tipUpdates \in {x.tipUpdates, updates}
  BY <1>2, <1>4 DEF MinerRecord
<1>7. MinerCert(y, C)
  BY <1>3, <1>5, <1>6 DEF MinerCert
<1> QED
  BY <1>2, <1>3, <1>6, <1>7 DEF y

LEMMA AfterSignCert ==
    ASSUME NEW C, NEW m \in MinerRecord, MinerCert(m, C), NEW n, NEW c,
           n.state # "waitingBlock" /\ c.state = "waitingBlock" =>
               \A p : p.block = c.block /\ p.signs = c.signs => Proved(p)
    PROVE  /\ MinerCert(AfterSign(m, n, c), C)
           /\ AfterSign(m, n, c).chainTip = m.chainTip
<1>1. CASE n.state # "waitingBlock" /\ c.state = "waitingBlock" /\ m.routine = c.block
  <2> DEFINE job == Job("snapshot", c.block, c.signs)
             idle == SetIdle(m, c.block)
  <2>1. Proved(job)
    BY <1>1 DEF Job
  <2>2. AfterSign(m, n, c) = AddJob(idle, job)
    BY <1>1 DEF AfterSign, MineBlock
  <2>3. idle.jobs = m.jobs /\ idle.chainTip = m.chainTip /\ idle.tipUpdates = m.tipUpdates
        /\ DOMAIN idle = DOMAIN m
    BY DEF SetIdle, MinerRecord
  <2> HIDE DEF job, idle
  <2> DEFINE jobs == idle.jobs \cup {job}
             y == AddJob(idle, job)
  <2>4. y = [idle EXCEPT !.jobs = jobs]
    BY DEF AddJob
  <2>5. \A k \in jobs : k \in m.jobs \/ k = job
    BY <2>3
  <2> HIDE DEF jobs, y
  <2>6. y.jobs = jobs /\ y.chainTip = m.chainTip /\ y.tipUpdates = m.tipUpdates
    BY <2>3, <2>4 DEF MinerRecord
  <2>7. MinerCert(y, C)
    BY <2>1, <2>5, <2>6, JobsCert
  <2> QED
    BY <2>2, <2>6, <2>7 DEF y
<1>2. CASE ~(n.state # "waitingBlock" /\ c.state = "waitingBlock" /\ m.routine = c.block)
  BY <1>2 DEF AfterSign, MineBlock
<1> QED
  BY <1>1, <1>2

-----------------------------------------------------------------------------
(* The steps.                                                              *)

LEMMA CertMonotone ==
    ASSUME NEW C, NEW D, C \subseteq D
    PROVE  /\ \A n : NodeCert(n, C) => NodeCert(n, D)
           /\ \A m : MinerCert(m, C) => MinerCert(m, D)
<1>1. ASSUME NEW n, NodeCert(n, C) PROVE NodeCert(n, D)
  BY <1>1 DEF NodeCert
<1>2. ASSUME NEW m, MinerCert(m, C) PROVE MinerCert(m, D)
  BY <1>2 DEF MinerCert
<1> QED
  BY <1>1, <1>2

\* While the headers stay, so does what they say of records.
LEMMA SameMeaning ==
    ASSUME UNCHANGED headers
    PROVE  /\ Known' = Known
           /\ \A b : Validators(b)' = Validators(b)
           /\ \A m : Proved(m)' <=> Proved(m)
           /\ \A n, C : NodeCert(n, C)' <=> NodeCert(n, C)
           /\ \A m, C : MinerCert(m, C)' <=> MinerCert(m, C)
BY DEF Known, Validators, Proved, VerifySigns, NodeCert, MinerCert

\* A step of one node and its miner that creates no header.
LEMMA OneNodeCert ==
    ASSUME IInv, CInv, UNCHANGED headers,
           mined \subseteq mined', \A d \in mined' : Proved(d),
           NEW i \in Node,
           NEW n, NodeCert(n, Certified), node' = [node EXCEPT ![i] = n],
           NEW m, MinerCert(m, Certified'), miner' = [miner EXCEPT ![i] = m],
           \/ m.chainTip = miner[i].chainTip
           \/ headers[m.chainTip].number > headers[miner[i].chainTip].number
    PROVE  CInv' /\ Climbs
<1>1. Certified \subseteq Certified'
  BY DEF Certified
<1>2. /\ node \in [Node -> NodeRecord] /\ miner \in [Node -> MinerRecord]
  BY DEF IInv, TypeOK
<1>3. \A j \in Node : NodeCert(node'[j], Certified')
  <2>1. \A j \in Node : NodeCert(node'[j], Certified)
    BY <1>2 DEF CInv
  <2> HIDE DEF Certified
  <2> QED
    BY <1>1, <2>1, CertMonotone
<1>4. \A j \in Node : MinerCert(miner'[j], Certified')
  <2>1. \A j \in Node : MinerCert(miner[j], Certified)
    BY DEF CInv
  <2>2. \A j \in Node : MinerCert(miner[j], Certified')
    BY <1>1, <2>1, CertMonotone
  <2> QED
    BY <1>2, <2>2
<1>5. Numbered'
  BY <1>1, SameMeaning DEF CInv, Numbered
<1>6. CInv'
  <2>1. \A j \in Node : NodeCert(node[j], Certified)'
    BY <1>3, SameMeaning
  <2>2. \A j \in Node : MinerCert(miner[j], Certified)'
    BY <1>4, SameMeaning
  <2>3. (\A d \in mined : Proved(d))'
    BY SameMeaning
  <2> QED
    BY <1>5, <2>1, <2>2, <2>3 DEF CInv
<1>7. Climbs
  <2>1. \A j \in Node : miner'[j].chainTip = miner[j].chainTip
                        \/ headers[miner'[j].chainTip].number > headers[miner[j].chainTip].number
    BY <1>2
  <2> QED
    BY <2>1, SameMeaning DEF Climbs
<1> QED
  BY <1>6, <1>7

\* What the invariants say of one node and its miner.
LEMMA NodeNow ==
    ASSUME IInv, CInv, NEW i \in Node
    PROVE  /\ node[i] \in NodeRecord /\ NodeCert(node[i], Certified)
           /\ node[i].tip # NoBlock => node[i].tip \in Known
           /\ node[i].state \in {"waitingVerify", "waitingAgree", "waitingBlock"} =>
                 node[i].block \in Known
           /\ miner[i] \in MinerRecord /\ MinerCert(miner[i], Certified)
           /\ miner[i].tipUpdates \subseteq Known /\ \A job \in miner[i].jobs : job.block \in Known
           /\ node = [node EXCEPT ![i] = node[i]] /\ miner = [miner EXCEPT ![i] = miner[i]]
<1>1. NodeOK(i, node[i]) /\ MinerOK(miner[i])
  BY DEF IInv
<1>2. NodeCert(node[i], Certified) /\ MinerCert(miner[i], Certified)
  BY DEF CInv
<1>3. node = [node EXCEPT ![i] = node[i]] /\ miner = [miner EXCEPT ![i] = miner[i]]
  BY DEF IInv, TypeOK
<1>4. /\ node[i] \in NodeRecord
      /\ node[i].tip # NoBlock => node[i].tip \in Known
      /\ node[i].state \in {"waitingVerify", "waitingAgree", "waitingBlock"} =>
            node[i].block \in Known
  BY <1>1 DEF NodeOK
<1>5. /\ miner[i] \in MinerRecord
      /\ miner[i].tipUpdates \subseteq Known /\ \A job \in miner[i].jobs : job.block \in Known
  BY <1>1 DEF MinerOK
<1> QED
  BY <1>2, <1>3, <1>4, <1>5

LEMMA SameMined ==
    ASSUME CInv, UNCHANGED mined
    PROVE  Certified' = Certified /\ mined \subseteq mined' /\ \A d \in mined' : Proved(d)
BY DEF CInv, Certified

\* A step of one node and its miner in which nothing is mined.
LEMMA NothingMined ==
    ASSUME IInv, CInv, UNCHANGED <<headers, mined>>, NEW i \in Node,
           \E n : NodeCert(n, Certified) /\ node' = [node EXCEPT ![i] = n],
           \E m : /\ MinerCert(m, Certified) /\ m.chainTip = miner[i].chainTip
                  /\ miner' = [miner EXCEPT ![i] = m]
    PROVE  CInv' /\ Climbs
<1>1. Certified' = Certified /\ mined \subseteq mined' /\ \A d \in mined' : Proved(d)
  BY SameMined
<1>2. PICK n : NodeCert(n, Certified) /\ node' = [node EXCEPT ![i] = n]
  OBVIOUS
<1>3. PICK m : /\ MinerCert(m, Certified) /\ m.chainTip = miner[i].chainTip
               /\ miner' = [miner EXCEPT ![i] = m]
  OBVIOUS
<1>4. MinerCert(m, Certified')
  BY <1>1, <1>3
<1> QED
  BY <1>1, <1>2, <1>3, <1>4, OneNodeCert

\* Neither the records nor the certificates change.
LEMMA SameRecords ==
    ASSUME IInv, CInv, UNCHANGED <<headers, node, miner, mined>>
    PROVE  CInv' /\ Climbs
<1>1. CInv'
  BY SameMeaning DEF CInv, Numbered, Certified
<1> QED
  BY <1>1, SameMeaning DEF Climbs

LEMMA UpdateTipCert ==
    ASSUME IInv, CInv, NEW i \in Node, UpdateTip(i)
    PROVE  CInv' /\ Climbs
<1>1. PICK b \in miner[i].tipUpdates, ok \in ExecOutcomes :
         /\ IF \/ ~ok \/ ~KnowsNextMiners(miner[i], b)
               \/ b \notin miner[i].rows \/ node[i].tip = b
            THEN UNCHANGED node
            ELSE \E n \in ResetTimer(i, WithTip(node[i], b), clock[i]) :
                     node' = [node EXCEPT ![i] = n]
         /\ miner' = [miner EXCEPT ![i].tipUpdates = @ \ {b}]
         /\ UNCHANGED <<headers, net, mined, signed, clock, crashes, lost>>
  BY DEF UpdateTip
<1>0. /\ node[i] \in NodeRecord /\ MinerCert(miner[i], Certified)
      /\ miner[i] \in MinerRecord /\ miner[i].tipUpdates \subseteq Known
  BY NodeNow
<1> DEFINE updates == miner[i].tipUpdates \ {b}
           m == [miner[i] EXCEPT !.tipUpdates = updates]
<1>2. miner' = [miner EXCEPT ![i] = m]
  BY <1>1
<1>3. /\ MinerCert(m, Certified) /\ m.chainTip = miner[i].chainTip
  <2>1. m.chainTip = miner[i].chainTip /\ m.jobs = miner[i].jobs /\ m.tipUpdates = updates
    BY <1>0 DEF MinerRecord
  <2> HIDE DEF m
  <2>2. MinerCert(m, Certified)
    BY <1>0, <2>1 DEF MinerCert
  <2> QED
    BY <1>1, <2>1, <2>2
<1> HIDE DEF m
<1>4. \E n : NodeCert(n, Certified) /\ node' = [node EXCEPT ![i] = n]
  <2>1. CASE UNCHANGED node
    BY <2>1, NodeNow
  <2>2. CASE \E n \in ResetTimer(i, WithTip(node[i], b), clock[i]) :
                node' = [node EXCEPT ![i] = n]
    <3>1. PICK n \in ResetTimer(i, WithTip(node[i], b), clock[i]) :
             node' = [node EXCEPT ![i] = n]
      BY <2>2
    <3>2. b \in Certified /\ b \in Known /\ node[i] \in NodeRecord
      BY <1>0 DEF MinerCert
    <3>3. NodeCert(WithTip(node[i], b), Certified)
      BY <3>2, WithTipCert
    <3>4. WithTip(node[i], b) \in NodeRecord
      BY <3>2, WithTipOK DEF Resettable
    <3>5. NodeCert(n, Certified)
      BY <3>1, <3>3, <3>4, ResetSimilar, SimilarCert
    <3> QED
      BY <3>1, <3>5
  <2> QED
    BY <1>1, <2>1, <2>2
<1> QED
  BY <1>1, <1>2, <1>3, <1>4, NothingMined

LEMMA OnTimeoutChangeViewCert ==
    ASSUME IInv, CInv, NEW i \in Node, OnTimeoutChangeView(i)
    PROVE  CInv' /\ Climbs
<1> DEFINE n == node[i]
           newView == (IF n.state = "changeViewSent" THEN n.expectView ELSE n.view) + 1
           st == InState(n, "changeViewSent")
           sent == [st EXCEPT !.expectView = newView, !.timer = NoTimer]
           counted == CountChangeView(sent, newView, i)
<1>1. PICK early \in EarlyTimers :
         /\ newView <= MaxView
         /\ \E r \in ResetTimer(i, counted, IF early THEN clock[i] - 1 ELSE clock[i]) :
                node' = [node EXCEPT ![i] = r]
         /\ UNCHANGED <<headers, miner, mined, signed, clock, crashes, lost>>
  BY DEF OnTimeoutChangeView
<1>2. /\ n \in NodeRecord /\ NodeCert(n, Certified)
      /\ MinerCert(miner[i], Certified) /\ miner = [miner EXCEPT ![i] = miner[i]]
  BY NodeNow
<1>3. newView \in 0 .. MaxView /\ newView \in Nat
  BY <1>1, <1>2, MaxViewType DEF NodeRecord
<1>4. /\ st \in NodeRecord /\ Similar(n, st)
  <2>1. "changeViewSent" \in ConsensusStates
    BY DEF ConsensusStates
  <2> HIDE DEF n
  <2> QED
    BY <1>2, <2>1, InStateType, InStateSimilar
<1> HIDE DEF n, st, newView
<1>5. sent \in NodeRecord /\ Similar(st, sent)
  BY <1>3, <1>4 DEF NodeRecord, NoTimer, Similar
<1> HIDE DEF sent
<1>6. counted \in NodeRecord /\ Similar(sent, counted)
  BY <1>3, <1>5, CountSimilar, CountChangeViewType
<1> HIDE DEF counted
<1>7. PICK r \in ResetTimer(i, counted, IF early THEN clock[i] - 1 ELSE clock[i]) :
         node' = [node EXCEPT ![i] = r]
  BY <1>1
<1>8. Similar(counted, r)
  BY <1>6, <1>7, ResetSimilar
<1>9. NodeCert(r, Certified)
  BY <1>2, <1>4, <1>5, <1>6, <1>8, SimilarCert
<1> QED
  BY <1>1, <1>2, <1>7, <1>9, NothingMined

LEMMA OnChangeViewCert ==
    ASSUME IInv, CInv, NEW i \in Node, NEW m \in KnownMessage, OnChangeView(i, m)
    PROVE  CInv' /\ Climbs
<1> DEFINE n == CountChangeView(node[i], m.view, m.addr)
<1>1. /\ m.type = "changeview"
      /\ IF m.tip # node[i].tip
         THEN UNCHANGED node
         ELSE \E r \in IF n.state = "changeViewSucc" THEN ResetTimer(i, n, clock[i]) ELSE {n} :
                  node' = [node EXCEPT ![i] = r]
      /\ UNCHANGED <<headers, miner, mined, signed, clock, crashes, lost>>
  BY DEF OnChangeView
<1>2. /\ node[i] \in NodeRecord /\ NodeCert(node[i], Certified)
      /\ MinerCert(miner[i], Certified)
      /\ node = [node EXCEPT ![i] = node[i]] /\ miner = [miner EXCEPT ![i] = miner[i]]
  BY NodeNow
<1>3. m.addr \in Node /\ m.view \in 0 .. MaxView
  BY <1>1 DEF KnownMessage, Message
<1>4. n \in NodeRecord /\ Similar(node[i], n)
  BY <1>2, <1>3, CountSimilar, CountChangeViewType
<1> HIDE DEF n
<1>5. NodeCert(n, Certified)
  BY <1>2, <1>4, SimilarCert
<1>6. \E r : NodeCert(r, Certified) /\ node' = [node EXCEPT ![i] = r]
  <2>1. CASE UNCHANGED node
    BY <1>2, <2>1
  <2>2. CASE \E r \in ResetTimer(i, n, clock[i]) : node' = [node EXCEPT ![i] = r]
    BY <1>4, <1>5, <2>2, ResetSimilar, SimilarCert
  <2>3. CASE node' = [node EXCEPT ![i] = n]
    BY <1>5, <2>3
  <2> QED
    BY <1>1, <2>1, <2>2, <2>3
<1> QED
  BY <1>1, <1>2, <1>6, NothingMined

LEMMA OnPrepareRequestCert ==
    ASSUME IInv, CInv, NEW i \in Node, NEW m \in KnownMessage, OnPrepareRequest(i, m)
    PROVE  CInv' /\ Climbs
<1>1. /\ UNCHANGED <<headers, mined, signed, clock, crashes, lost>>
  BY DEF OnPrepareRequest
<1>2. /\ node[i] \in NodeRecord /\ NodeCert(node[i], Certified)
      /\ miner[i] \in MinerRecord /\ MinerCert(miner[i], Certified)
      /\ node = [node EXCEPT ![i] = node[i]] /\ miner = [miner EXCEPT ![i] = miner[i]]
  BY NodeNow
<1>3. CASE AcceptsProposal(node[i], m.block)
  <2> DEFINE n == [node[i] EXCEPT !.state = "waitingVerify", !.block = m.block]
             routine == CreateRoutine(miner[i], m.block)
             job == Job("execute", m.block, {})
             mine == AddJob(routine, job)
  <2>1. node' = [node EXCEPT ![i] = n] /\ miner' = [miner EXCEPT ![i] = mine]
    BY <1>3 DEF OnPrepareRequest
  <2>2. n.tip = node[i].tip /\ n.signs = node[i].signs /\ n.state = "waitingVerify"
    BY <1>2 DEF NodeRecord
  <2> HIDE DEF n
  <2>3. NodeCert(n, Certified)
    BY <1>2, <2>2, SimilarCert DEF Similar
  <2>4. job.op = "execute"
    BY DEF Job
  <2> HIDE DEF job
  <2>5. /\ mine.jobs = miner[i].jobs \cup {job}
        /\ mine.chainTip = miner[i].chainTip /\ mine.tipUpdates = miner[i].tipUpdates
    BY <1>2 DEF AddJob, CreateRoutine, MinerRecord
  <2> HIDE DEF mine
  <2>6. MinerCert(mine, Certified)
    BY <1>2, <2>4, <2>5, JobsCert
  <2> QED
    BY <1>1, <2>1, <2>3, <2>5, <2>6, NothingMined
<1>4. CASE ~AcceptsProposal(node[i], m.block)
  BY <1>1, <1>4, SameRecords DEF OnPrepareRequest
<1> QED
  BY <1>3, <1>4

LEMMA OnPrepareResponseCert ==
    ASSUME IInv, CInv, NEW i \in Node, NEW m \in KnownMessage, OnPrepareResponse(i, m)
    PROVE  CInv' /\ Climbs
<1> DEFINE s == [addr |-> m.addr, hash |-> m.hash]
           n == IF node[i].tip = NoBlock THEN node[i] ELSE AddSign(node[i], s)
           mine == AfterSign(miner[i], node[i], n)
<1>1. /\ m.type = "prepareResponse"
      /\ node' = [node EXCEPT ![i] = n]
      /\ miner' = [miner EXCEPT ![i] = mine]
      /\ UNCHANGED <<headers, mined, signed, clock, crashes, lost>>
  BY DEF OnPrepareResponse
<1>2. s \in Sign
  BY <1>1 DEF KnownMessage, Message, Sign
<1>3. /\ node[i] \in NodeRecord /\ NodeCert(node[i], Certified)
      /\ node[i].tip # NoBlock => node[i].tip \in Known
      /\ node[i].state = "waitingAgree" => node[i].block \in Known
      /\ miner[i] \in MinerRecord /\ MinerCert(miner[i], Certified)
  BY NodeNow
<1> HIDE DEF s
<1>4. /\ NodeCert(n, Certified)
      /\ node[i].state # "waitingBlock" /\ n.state = "waitingBlock" =>
            \A p : p.block = n.block /\ p.signs = n.signs => Proved(p)
  <2>1. CASE node[i].tip = NoBlock
    BY <1>3, <2>1
  <2>2. CASE node[i].tip # NoBlock
    <3>1. n = AddSign(node[i], s)
      BY <2>2
    <3> HIDE DEF n
    <3> QED
      BY <1>2, <1>3, <2>2, <3>1, AddSignCert DEF CInv
  <2> QED
    BY <2>1, <2>2
<1> HIDE DEF n
<1>5. MinerCert(mine, Certified) /\ mine.chainTip = miner[i].chainTip
  BY <1>3, <1>4, AfterSignCert
<1> HIDE DEF mine
<1> QED
  BY <1>1, <1>4, <1>5, NothingMined

LEMMA ReceiveCert ==
    ASSUME IInv, CInv, NEW i \in Node, Receive(i)
    PROVE  CInv' /\ Climbs
<1>1. PICK j \in Node :
         /\ net[j][i] # <<>>
         /\ \/ OnChangeView(i, Head(net[j][i]))
            \/ OnPrepareRequest(i, Head(net[j][i]))
            \/ OnPrepareResponse(i, Head(net[j][i]))
  BY DEF Receive
<1>2. Head(net[j][i]) \in KnownMessage
  BY <1>1, Unchanged, TailOK
<1> QED
  BY <1>1, <1>2, OnChangeViewCert, OnPrepareRequestCert, OnPrepareResponseCert

\* A job that only goes on leaves the certificates alone.
LEMMA ContinueCert ==
    ASSUME NEW C, NEW m \in MinerRecord, MinerCert(m, C), NEW job, NEW next,
           \A k \in next : k.op # "snapshot"
    PROVE  /\ MinerCert(Continue(m, job, next), C)
           /\ Continue(m, job, next).chainTip = m.chainTip
<1> DEFINE jobs == (m.jobs \ {job}) \cup next
           x == Continue(m, job, next)
<1>1. x = [m EXCEPT !.jobs = jobs]
  BY DEF Continue
<1>2. \A k \in jobs : k.op = "snapshot" => k \in m.jobs
  OBVIOUS
<1> HIDE DEF jobs, x
<1>3. /\ x.jobs = jobs /\ x.chainTip = m.chainTip /\ x.tipUpdates = m.tipUpdates
      /\ DOMAIN x = DOMAIN m
  BY <1>1 DEF MinerRecord
<1>4. MinerCert(x, C)
  BY <1>2, <1>3, JobsCert
<1> QED
  BY <1>3, <1>4 DEF x

\* Nor does who owns the miner matter to them.
LEMMA RoutineCert ==
    ASSUME NEW C, NEW m \in MinerRecord, MinerCert(m, C), NEW b
    PROVE  /\ MinerCert(SetIdle(m, b), C) /\ SetIdle(m, b).chainTip = m.chainTip
           /\ MinerCert(CreateRoutine(m, b), C) /\ CreateRoutine(m, b).chainTip = m.chainTip
<1> DEFINE owner == IF m.routine = b THEN NoBlock ELSE m.routine
<1>1. SetIdle(m, b) = [m EXCEPT !.routine = owner] /\ CreateRoutine(m, b) = [m EXCEPT !.routine = b]
  BY DEF SetIdle, CreateRoutine
<1> HIDE DEF owner
<1> QED
  BY <1>1 DEF MinerRecord, MinerCert

LEMMA CreateBlockCert ==
    ASSUME IInv, CInv, NEW i \in Node, CreateBlock(i)
    PROVE  CInv' /\ Climbs
<1>1. PICK job \in miner[i].jobs :
         /\ miner' = [miner EXCEPT ![i] =
                Continue(CreateRoutine(@, job.block), job, {Job("propose", job.block, {})})]
         /\ UNCHANGED <<headers, node, net, mined, signed, clock, crashes, lost>>
  BY DEF CreateBlock
<1> DEFINE routine == CreateRoutine(miner[i], job.block)
           propose == Job("propose", job.block, {})
           m == Continue(routine, job, {propose})
<1>2. /\ NodeCert(node[i], Certified) /\ node = [node EXCEPT ![i] = node[i]]
      /\ miner[i] \in MinerRecord /\ MinerCert(miner[i], Certified)
      /\ job.block \in Known
  BY NodeNow
<1>3. MinerCert(routine, Certified) /\ routine.chainTip = miner[i].chainTip
  BY <1>2, RoutineCert
<1>4. routine \in MinerRecord
  BY <1>2 DEF CreateRoutine, MinerRecord, Known
<1>5. propose.op # "snapshot"
  BY DEF Job
<1>6. miner' = [miner EXCEPT ![i] = m]
  BY <1>1
<1> HIDE DEF routine, propose
<1>7. MinerCert(m, Certified) /\ m.chainTip = miner[i].chainTip
  BY <1>3, <1>4, <1>5, ContinueCert
<1> HIDE DEF m
<1> QED
  BY <1>1, <1>2, <1>6, <1>7, NothingMined

LEMMA NewProposalCert ==
    ASSUME IInv, CInv, NEW i \in Node, NewProposal(i)
    PROVE  CInv' /\ Climbs
<1>1. PICK job \in miner[i].jobs, ok \in ExecOutcomes :
         /\ IF ok /\ node[i].state = "waitingProposal" /\ IsPreBlock(node[i].tip, job.block)
            THEN /\ node' = [node EXCEPT ![i] =
                        [InState(@, "waitingVerify") EXCEPT !.block = job.block]]
                 /\ miner' = [miner EXCEPT ![i] =
                        Continue(@, job, {Job("execute", job.block, {})})]
            ELSE /\ miner' = [miner EXCEPT ![i] = SetIdle(Continue(@, job, {}), job.block)]
                 /\ UNCHANGED <<node, net>>
         /\ UNCHANGED <<headers, mined, signed, clock, crashes, lost>>
  BY DEF NewProposal
<1>2. /\ NodeCert(node[i], Certified) /\ node = [node EXCEPT ![i] = node[i]]
      /\ node[i] \in NodeRecord
      /\ miner[i] \in MinerRecord /\ MinerCert(miner[i], Certified)
  BY NodeNow
<1> DEFINE takes == ok /\ node[i].state = "waitingProposal" /\ IsPreBlock(node[i].tip, job.block)
<1>3. CASE takes
  <2> DEFINE st == InState(node[i], "waitingVerify")
             n == [st EXCEPT !.block = job.block]
             execute == Job("execute", job.block, {})
             m == Continue(miner[i], job, {execute})
  <2>1. node' = [node EXCEPT ![i] = n] /\ miner' = [miner EXCEPT ![i] = m]
    BY <1>1, <1>3
  <2>2. Similar(node[i], st) /\ st.state = "waitingVerify" /\ DOMAIN st = DOMAIN node[i]
    BY <1>2, InStateSimilar
  <2>3. execute.op # "snapshot"
    BY DEF Job
  <2> HIDE DEF st, execute
  <2>4. Similar(st, n)
    BY <1>2, <2>2 DEF NodeRecord, Similar
  <2> HIDE DEF n
  <2>5. NodeCert(n, Certified)
    BY <1>2, <2>2, <2>4, SimilarCert
  <2>6. MinerCert(m, Certified) /\ m.chainTip = miner[i].chainTip
    BY <1>2, <2>3, ContinueCert
  <2> HIDE DEF m
  <2> QED
    BY <1>1, <2>1, <2>5, <2>6, NothingMined
<1>4. CASE ~takes
  <2> DEFINE ended == Continue(miner[i], job, {})
             m == SetIdle(ended, job.block)
  <2>1. miner' = [miner EXCEPT ![i] = m] /\ UNCHANGED node
    BY <1>1, <1>4
  <2>2. MinerCert(ended, Certified) /\ ended.chainTip = miner[i].chainTip
    BY <1>2, ContinueCert
  <2>3. ended \in MinerRecord
    BY <1>2 DEF Continue, MinerRecord
  <2> HIDE DEF ended
  <2>4. MinerCert(m, Certified) /\ m.chainTip = miner[i].chainTip
    BY <2>2, <2>3, RoutineCert
  <2> HIDE DEF m
  <2> QED
    BY <1>1, <1>2, <2>1, <2>4, NothingMined
<1> QED
  BY <1>3, <1>4

LEMMA ExecuteCert ==
    ASSUME IInv, CInv, NEW i \in Node, Execute(i)
    PROVE  CInv' /\ Climbs
<1>1. PICK job \in miner[i].jobs, ok \in ExecOutcomes :
         LET b == job.block
             n == node[i]
             m == Continue(miner[i], job, {})
             mining == [m EXCEPT !.miningBlocks = @ \cup {b}]
             agreed == AddSign(Agree(n, b), [addr |-> i, hash |-> b])
         IN  /\ IF ~ok \/ m.routine # b \/ b \in m.miningBlocks
                THEN /\ miner' = [miner EXCEPT ![i] = SetIdle(m, b)]
                     /\ UNCHANGED <<node, net, signed>>
                ELSE IF n.state = "waitingVerify" /\ IsPreBlock(n.tip, b)
                THEN /\ node' = [node EXCEPT ![i] = agreed]
                     /\ miner' = [miner EXCEPT ![i] = AfterSign(mining, n, agreed)]
                     /\ net' = Broadcast(i, PrepareResponse(i, b))
                     /\ signed' = signed \cup {<<i, b>>}
                ELSE /\ miner' = [miner EXCEPT ![i] = mining]
                     /\ UNCHANGED <<node, net, signed>>
             /\ UNCHANGED <<headers, mined, clock, crashes, lost>>
  BY DEF Execute
<1> DEFINE b == job.block
           n == node[i]
           m == Continue(miner[i], job, {})
           blocks == m.miningBlocks \cup {b}
           mining == [m EXCEPT !.miningBlocks = blocks]
           sign == [addr |-> i, hash |-> b]
           agree == Agree(n, b)
           agreed == AddSign(agree, sign)
           stops == ~ok \/ m.routine # b \/ b \in m.miningBlocks
           agrees == n.state = "waitingVerify" /\ IsPreBlock(n.tip, b)
<1>2. /\ NodeCert(n, Certified) /\ node = [node EXCEPT ![i] = n]
      /\ n \in NodeRecord /\ (n.tip # NoBlock => n.tip \in Known)
      /\ n.state = "waitingVerify" => n.tip # NoBlock
      /\ miner[i] \in MinerRecord /\ MinerCert(miner[i], Certified)
      /\ b \in Known
  <2>1. NodeOK(i, n)
    BY DEF IInv
  <2>2. n.state = "waitingVerify" => n.tip # NoBlock
    BY <2>1 DEF NodeOK
  <2> QED
    BY <2>2, NodeNow
<1>3. /\ MinerCert(m, Certified) /\ m.chainTip = miner[i].chainTip /\ m \in MinerRecord
  <2>1. m \in MinerRecord
    BY <1>2 DEF Continue, MinerRecord
  <2>2. MinerCert(m, Certified) /\ m.chainTip = miner[i].chainTip
    BY <1>2, ContinueCert
  <2> QED
    BY <2>1, <2>2
<1>4. /\ MinerCert(mining, Certified) /\ mining.chainTip = miner[i].chainTip
      /\ mining \in MinerRecord
  <2>1. blocks \subseteq Nat
    BY <1>2, <1>3 DEF MinerRecord, Known
  <2> HIDE DEF m, blocks
  <2>2. /\ mining.jobs = m.jobs /\ mining.chainTip = m.chainTip
        /\ mining.tipUpdates = m.tipUpdates /\ mining \in MinerRecord
    BY <1>3, <2>1 DEF MinerRecord
  <2> QED
    BY <1>3, <2>2 DEF MinerCert
<1>5. CASE stops
  <2> DEFINE m2 == SetIdle(m, b)
  <2>1. miner' = [miner EXCEPT ![i] = m2] /\ UNCHANGED <<node, headers, mined>>
    BY <1>1, <1>5
  <2> HIDE DEF m, b
  <2>2. MinerCert(m2, Certified) /\ m2.chainTip = miner[i].chainTip
    BY <1>3, RoutineCert
  <2> HIDE DEF m2, n
  <2> QED
    BY <1>2, <2>1, <2>2, NothingMined
<1>6. CASE ~stops /\ agrees
  <2> DEFINE m2 == AfterSign(mining, n, agreed)
  <2>1. /\ node' = [node EXCEPT ![i] = agreed]
        /\ miner' = [miner EXCEPT ![i] = m2]
        /\ UNCHANGED <<headers, mined>>
    BY <1>1, <1>6
  <2>2. sign \in Sign
    BY <1>2 DEF Sign, Known
  <2>3. headers[b].pre = n.tip /\ n.tip \in Known /\ n.state = "waitingVerify"
    BY <1>2, <1>6 DEF IsPreBlock
  <2>4. "waitingAgree" \in ConsensusStates
    BY DEF ConsensusStates
  <2> HIDE DEF b, n, m, mining, sign
  <2>5. /\ agree \in NodeRecord /\ agree.tip = n.tip
        /\ agree.state = "waitingAgree" /\ agree.block = b
        /\ agree.signs = {s \in n.signs : s.hash = b}
    <3> DEFINE signs == {s \in n.signs : s.hash = b}
    <3>1. agree = [n EXCEPT !.state = "waitingAgree", !.block = b, !.signs = signs]
      BY DEF Agree
    <3>2. signs \subseteq Sign /\ b \in Nat
      BY <1>2 DEF NodeRecord, Known
    <3> HIDE DEF signs, agree
    <3>3. agree.signs = signs /\ agree \in NodeRecord /\ agree.tip = n.tip
          /\ agree.state = "waitingAgree" /\ agree.block = b
      BY <1>2, <2>4, <3>1, <3>2 DEF NodeRecord
    <3> QED
      BY <3>3 DEF signs
  <2> HIDE DEF agree
  <2>6. NodeCert(agree, Certified)
    BY <1>2, <2>3, <2>5 DEF NodeCert
  <2>7. /\ NodeCert(agreed, Certified)
        /\ agree.state # "waitingBlock" /\ agreed.state = "waitingBlock" =>
              \A p : p.block = agreed.block /\ p.signs = agreed.signs => Proved(p)
    BY <1>2, <2>2, <2>3, <2>5, <2>6, AddSignCert DEF CInv
  <2> HIDE DEF agreed
  <2>8. MinerCert(m2, Certified) /\ m2.chainTip = miner[i].chainTip
    BY <1>4, <2>5, <2>7, AfterSignCert
  <2> HIDE DEF m2
  <2> QED
    BY <2>1, <2>7, <2>8, NothingMined
<1>7. CASE ~stops /\ ~agrees
  <2>1. miner' = [miner EXCEPT ![i] = mining] /\ UNCHANGED <<node, headers, mined>>
    BY <1>1, <1>7
  <2> HIDE DEF mining, n
  <2> QED
    BY <1>2, <1>4, <2>1, NothingMined
<1> QED
  BY <1>5, <1>6, <1>7

LEMMA AddMinedBlockCert ==
    ASSUME IInv, CInv, NEW i \in Node, AddMinedBlock(i)
    PROVE  CInv' /\ Climbs
<1>1. PICK job \in miner[i].jobs, ok \in ExecOutcomes :
         LET m == Continue(miner[i], job, {})
         IN  /\ job.op = "snapshot"
             /\ miner' = [miner EXCEPT ![i] =
                    IF ok THEN EmitTipBlock(AddVerifiedBlock(m, job.block), job.block) ELSE m]
             /\ mined' = IF ok THEN mined \cup {[block |-> job.block, signs |-> job.signs]} ELSE mined
             /\ UNCHANGED <<headers, node, net, signed, clock, crashes, lost>>
  BY DEF AddMinedBlock
<1> DEFINE b == job.block
           m == Continue(miner[i], job, {})
           added == AddVerifiedBlock(m, b)
           m2 == EmitTipBlock(added, b)
           block == [block |-> b, signs |-> job.signs]
<1>2. /\ NodeCert(node[i], Certified) /\ node = [node EXCEPT ![i] = node[i]]
      /\ miner[i] \in MinerRecord /\ MinerCert(miner[i], Certified)
  BY NodeNow
<1>3. /\ MinerCert(m, Certified) /\ m.chainTip = miner[i].chainTip /\ m \in MinerRecord
  <2>1. m \in MinerRecord
    BY <1>2 DEF Continue, MinerRecord
  <2>2. MinerCert(m, Certified) /\ m.chainTip = miner[i].chainTip
    BY <1>2, ContinueCert
  <2> QED
    BY <2>1, <2>2
<1>4. CASE ok
  <2>1. /\ miner' = [miner EXCEPT ![i] = m2] /\ mined' = mined \cup {block}
        /\ UNCHANGED <<headers, node>>
    BY <1>1, <1>4
  <2>2. Proved(job)
    BY <1>1, <1>2 DEF MinerCert
  <2>3. Proved(block)
    BY <2>2 DEF Proved, VerifySigns
  <2>4. \A d \in mined' : Proved(d)
    BY <2>1, <2>3 DEF CInv
  <2>5. b \in Certified' /\ Certified \subseteq Certified'
    <3>1. block \in mined' /\ block.block = b /\ mined \subseteq mined'
      BY <2>1
    <3> HIDE DEF block, b
    <3> QED
      BY <3>1 DEF Certified
  <2> HIDE DEF m, block, b
  <2>6. MinerCert(m, Certified')
    BY <1>3, <2>5, CertMonotone
  <2>7. /\ MinerCert(m2, Certified') /\ m2.chainTip = added.chainTip
        /\ added.chainTip = m.chainTip \/ headers[added.chainTip].number > headers[m.chainTip].number
    BY <1>3, <2>5, <2>6, AddVerifiedCert
  <2> HIDE DEF m2, added
  <2> QED
    BY <1>2, <1>3, <2>1, <2>4, <2>7, OneNodeCert
<1>5. CASE ~ok
  <2>1. miner' = [miner EXCEPT ![i] = m] /\ UNCHANGED <<headers, node, mined>>
    BY <1>1, <1>5
  <2> HIDE DEF m
  <2> QED
    BY <1>2, <1>3, <2>1, NothingMined
<1> QED
  BY <1>4, <1>5

LEMMA AddBlockCert ==
    ASSUME IInv, CInv, NEW i \in Node, AddBlock(i)
    PROVE  CInv' /\ Climbs
<1>1. PICK d \in mined, syncing \in BOOLEAN :
         LET added == AddVerifiedBlock(miner[i], d.block)
         IN  /\ miner' = [miner EXCEPT ![i] =
                    IF syncing THEN added ELSE EmitTipBlock(added, d.block)]
             /\ UNCHANGED <<headers, node, net, mined, signed, clock, crashes, lost>>
  BY DEF AddBlock
<1> DEFINE added == AddVerifiedBlock(miner[i], d.block)
           emitted == EmitTipBlock(added, d.block)
           m2 == IF syncing THEN added ELSE emitted
<1>2. /\ NodeCert(node[i], Certified) /\ node = [node EXCEPT ![i] = node[i]]
      /\ miner[i] \in MinerRecord /\ MinerCert(miner[i], Certified)
  BY NodeNow
<1>3. d.block \in Certified
  BY DEF Certified
<1>4. /\ MinerCert(added, Certified) /\ MinerCert(emitted, Certified)
      /\ emitted.chainTip = added.chainTip
      /\ added.chainTip = miner[i].chainTip
         \/ headers[added.chainTip].number > headers[miner[i].chainTip].number
  BY <1>2, <1>3, AddVerifiedCert
<1>5. miner' = [miner EXCEPT ![i] = m2] /\ UNCHANGED <<headers, node, mined>>
  BY <1>1
<1>6. Certified' = Certified /\ mined \subseteq mined' /\ \A e \in mined' : Proved(e)
  BY <1>5, SameMined
<1>7. /\ MinerCert(m2, Certified) /\ m2.chainTip = added.chainTip
  BY <1>4
<1> HIDE DEF m2, added, emitted
<1>8. MinerCert(m2, Certified')
  BY <1>6, <1>7
<1> QED
  BY <1>2, <1>4, <1>5, <1>6, <1>7, <1>8, OneNodeCert

LEMMA CrashCert ==
    ASSUME IInv, CInv, NEW i \in Node, Crash(i)
    PROVE  CInv' /\ Climbs
<1> DEFINE tip == miner[i].chainTip
           m == [miner[i] EXCEPT !.routine = NoBlock, !.jobs = {},
                    !.miningBlocks = {}, !.tipUpdates = {tip}]
<1>1. /\ node' = [node EXCEPT ![i] = InitialNode]
      /\ miner' = [miner EXCEPT ![i] = m]
      /\ UNCHANGED <<headers, mined>>
  BY DEF Crash
<1>2. NodeCert(InitialNode, Certified)
  BY DEF NodeCert, InitialNode
<1>3. miner[i] \in MinerRecord /\ MinerCert(miner[i], Certified)
  BY NodeNow
<1>4. tip \in Certified
  BY <1>3 DEF MinerCert
<1> HIDE DEF tip
<1>5. m.chainTip = miner[i].chainTip /\ m.jobs = {} /\ m.tipUpdates = {tip}
  BY <1>3 DEF MinerRecord
<1> HIDE DEF m
<1>6. MinerCert(m, Certified)
  BY <1>3, <1>4, <1>5 DEF MinerCert
<1> QED
  BY <1>1, <1>2, <1>5, <1>6, NothingMined

LEMMA OnTimeoutCreateCert ==
    ASSUME IInv, IInv', CInv, NEW i \in Node, OnTimeoutCreate(i)
    PROVE  CInv' /\ Climbs
<1> DEFINE n == node[i]
           b == Len(headers) + 1
           st == InState(n, "waitingProposal")
           fired == [st EXCEPT !.timer = NoTimer]
           h == [pre |-> n.tip, number |-> headers[n.tip].number + 1, view |-> n.view,
                 miner |-> i, totalView |-> headers[n.tip].totalView + 2 ^ (n.view + 1) - 1]
           job == Job("decorate", b, {})
<1>1. /\ TimerFires(i)
      /\ n.state = "waitingCreate"
      /\ headers' = Append(headers, h)
      /\ \E r \in ResetTimer(i, fired, clock[i]) : node' = [node EXCEPT ![i] = r]
      /\ miner' = IF miner[i].chainTip = n.tip
                  THEN [miner EXCEPT ![i] = AddJob(@, job)]
                  ELSE miner
      /\ UNCHANGED <<net, mined, signed, clock, crashes, lost>>
  BY DEF OnTimeoutCreate
<1>2. /\ n \in NodeRecord /\ NodeCert(n, Certified)
      /\ miner[i] \in MinerRecord /\ MinerCert(miner[i], Certified)
  BY NodeNow
<1>3. n.tip \in Known /\ n.tip # NoBlock /\ n.tip \in Certified
  <2>1. NodeOK(i, n)
    BY DEF IInv
  <2>2. n.tip \in Known
    BY <1>1, <2>1 DEF NodeOK, NotProposedYet
  <2> QED
    BY <1>2, <2>2 DEF Known, NoBlock, NodeCert
<1>4. headers[n.tip].number \in 0 .. MaxHeight /\ headers[n.tip].number < MaxHeight
  BY <1>1, <1>3 DEF TimerFires, CInv, Numbered
<1>5. h.pre = n.tip /\ h.number = headers[n.tip].number + 1
  OBVIOUS
<1> HIDE DEF h
<1>6. /\ Known' = Known \cup {b} /\ b \notin Known
      /\ \A k \in Known : headers'[k] = headers[k]
      /\ headers'[b] = h
  BY <1>1 DEF IInv, TypeOK, Known
<1>7. Certified' = Certified /\ Certified \subseteq Known
  BY <1>1, CertifiedKnown DEF Certified
<1> HIDE DEF b
<1>8. Numbered'
  <2>1. \A k \in Known' : headers'[k].number \in 0 .. MaxHeight
    BY <1>4, <1>5, <1>6, MaxViewType DEF CInv, Numbered
  <2>2. ASSUME NEW k \in Known' \ {Genesis}
        PROVE  /\ headers'[k].number = headers'[headers'[k].pre].number + 1
               /\ headers'[k].pre \in Certified'
    <3>1. CASE k = b
      BY <1>3, <1>5, <1>6, <1>7, <3>1
    <3>2. CASE k \in Known
      <4>1. /\ headers[k].number = headers[headers[k].pre].number + 1
            /\ headers[k].pre \in Certified
        BY <2>2, <3>2 DEF CInv, Numbered
      <4> QED
        BY <1>6, <1>7, <3>2, <4>1
    <3> QED
      BY <1>6, <2>2, <3>1, <3>2
  <2> QED
    BY <2>1, <2>2 DEF Numbered
\* What records say of known blocks stays.
<1>9. \A t \in Known : Validators(t)' = Validators(t)
  BY <1>6 DEF Validators
<1>10. ASSUME NEW m, m.block \in Known, Proved(m)
       PROVE  Proved(m)'
  <2>1. m.block # Genesis
    BY <1>10 DEF Proved
  <2>2. headers[m.block].pre \in Known
    BY <1>10, <2>1 DEF IInv, ProposalsInTime
  <2>3. headers'[m.block] = headers[m.block]
        /\ headers'[headers[m.block].pre] = headers[headers[m.block].pre]
    BY <1>6, <1>10, <2>2
  <2> QED
    BY <1>10, <2>1, <2>3 DEF Proved, VerifySigns
<1>11. ASSUME NEW x, NodeCert(x, Certified), x.state = "waitingAgree" => x.block \in Known
       PROVE  NodeCert(x, Certified)'
  <2>1. x.tip # NoBlock => /\ x.tip \in Certified'
                           /\ \A s \in x.signs : s.addr \in Validators(x.tip)'
    BY <1>7, <1>9, <1>11 DEF NodeCert
  <2>2. x.state = "waitingAgree" => /\ headers'[x.block].pre = x.tip
                                    /\ \A s \in x.signs : s.hash = x.block
    BY <1>6, <1>11 DEF NodeCert
  <2> QED
    BY <2>1, <2>2 DEF NodeCert
<1>12. ASSUME NEW j \in Node PROVE NodeCert(node[j], Certified)'
  <2>1. PICK r \in ResetTimer(i, fired, clock[i]) : node' = [node EXCEPT ![i] = r]
    BY <1>1
  <2>2. node \in [Node -> NodeRecord]
    BY DEF IInv, TypeOK
  <2>3. CASE j = i
    <3>1. st \in NodeRecord /\ Similar(n, st) /\ st.state = "waitingProposal"
      <4>1. "waitingProposal" \in ConsensusStates
        BY DEF ConsensusStates
      <4> HIDE DEF n
      <4> QED
        BY <1>2, <4>1, InStateType, InStateSimilar
    <3> HIDE DEF st, n
    <3>2. fired \in NodeRecord /\ Similar(st, fired) /\ fired.state = "waitingProposal"
      BY <3>1 DEF NodeRecord, NoTimer, Similar
    <3> HIDE DEF fired
    <3>3. Similar(fired, r)
      BY <2>1, <3>2, ResetSimilar
    <3>4. r.state # "waitingAgree"
      BY <3>2, <3>3 DEF Similar
    <3>5. NodeCert(r, Certified)
      BY <1>2, <3>1, <3>2, <3>3, SimilarCert
    <3>6. NodeCert(r, Certified)'
      BY <1>11, <3>4, <3>5
    <3>7. node'[j] = r
      BY <2>1, <2>2, <2>3
    <3> QED
      BY <3>6, <3>7 DEF NodeCert
  <2>4. CASE j # i
    <3>1. node'[j] = node[j]
      BY <2>1, <2>2, <2>4
    <3>2. PICK x : x = node[j]
      OBVIOUS
    <3>3. NodeCert(x, Certified) /\ (x.state = "waitingAgree" => x.block \in Known)
      BY <3>2, NodeNow
    <3>4. NodeCert(x, Certified)'
      BY <1>11, <3>3
    <3> QED
      BY <3>1, <3>2, <3>4 DEF NodeCert
  <2> QED
    BY <2>3, <2>4
<1>13. \A j \in Node : miner'[j].chainTip = miner[j].chainTip
  <2>1. miner \in [Node -> MinerRecord]
    BY DEF IInv, TypeOK
  <2>2. AddJob(miner[i], job).chainTip = miner[i].chainTip
    BY <1>2, MinerFields
  <2> HIDE DEF job, n
  <2> QED
    BY <1>1, <2>1, <2>2
<1>14. ASSUME NEW j \in Node PROVE MinerCert(miner[j], Certified)'
  <2>1. miner \in [Node -> MinerRecord] /\ MinerCert(miner[j], Certified)
    BY DEF IInv, TypeOK, CInv
  <2>2. \A k \in miner[j].jobs : k.block \in Known
    BY NodeNow
  <2>3. job.op # "snapshot"
    BY DEF Job
  <2> HIDE DEF job, n
  <2>4. /\ miner'[j].chainTip = miner[j].chainTip /\ miner'[j].tipUpdates = miner[j].tipUpdates
        /\ miner'[j].jobs \subseteq miner[j].jobs \cup {job}
    <3>1. miner'[j] = miner[j] \/ miner'[j] = AddJob(miner[j], job)
      BY <1>1, <2>1
    <3>2. miner[j] \in MinerRecord
      BY <2>1
    <3>3. /\ AddJob(miner[j], job).jobs = miner[j].jobs \cup {job}
          /\ AddJob(miner[j], job).chainTip = miner[j].chainTip
          /\ AddJob(miner[j], job).tipUpdates = miner[j].tipUpdates
      BY <3>2, MinerFields
    <3> QED
      BY <3>1, <3>3
  <2>5. ASSUME NEW k \in miner'[j].jobs, k.op = "snapshot" PROVE Proved(k)'
    <3>1. k \in miner[j].jobs
      BY <2>3, <2>4, <2>5
    <3>2. Proved(k) /\ k.block \in Known
      BY <2>1, <2>2, <2>5, <3>1 DEF MinerCert
    <3> QED
      BY <1>10, <3>2
  <2>6. /\ miner'[j].chainTip \in Certified' /\ miner'[j].tipUpdates \subseteq Certified'
    BY <1>7, <2>1, <2>4 DEF MinerCert
  <2> QED
    BY <2>5, <2>6 DEF MinerCert
<1>15. ASSUME NEW d \in mined' PROVE Proved(d)'
  <2>1. d \in mined /\ d.block \in Known /\ Proved(d)
    BY <1>1, <1>7 DEF CInv, IInv
  <2> QED
    BY <1>10, <2>1
<1>16. CInv'
  BY <1>8, <1>12, <1>14, <1>15 DEF CInv
<1>17. Climbs
  BY <1>1, <1>6, <1>13 DEF Climbs
<1> QED
  BY <1>16, <1>17

-----------------------------------------------------------------------------
(* The invariant holds.                                                    *)

LEMMA InitCert ==
    ASSUME Init
    PROVE  CInv
<1> DEFINE h == [pre |-> NoBlock, number |-> 0, view |-> 0,
                 miner |-> CHOOSE a \in Node : TRUE, totalView |-> 1]
           m == [routine |-> NoBlock, jobs |-> {}, miningBlocks |-> {},
                 chainTip |-> Genesis, tipUpdates |-> {Genesis},
                 stored |-> {Genesis}, rows |-> {Genesis}]
<1>1. /\ headers = <<h>> /\ node = [i \in Node |-> InitialNode]
      /\ miner = [i \in Node |-> m] /\ mined = {}
  BY DEF Init
<1>2. h.number = 0
  OBVIOUS
<1> HIDE DEF h
<1>3. Known = {Genesis} /\ headers[Genesis] = h /\ Certified = {Genesis}
  BY <1>1 DEF Known, Genesis, Certified
<1>4. Numbered
  BY <1>2, <1>3, MaxViewType DEF Numbered
<1>5. NodeCert(InitialNode, Certified)
  BY DEF NodeCert, InitialNode
<1>6. MinerCert(m, Certified)
  BY <1>3 DEF MinerCert
<1> HIDE DEF m
<1>7. /\ \A i \in Node : NodeCert(node[i], Certified)
      /\ \A i \in Node : MinerCert(miner[i], Certified)
      /\ \A d \in mined : Proved(d)
  BY <1>1, <1>5, <1>6
<1> QED
  BY <1>4, <1>7 DEF CInv

LEMMA NextCert ==
    ASSUME IInv, IInv', CInv, [Next]_vars
    PROVE  CInv' /\ Climbs
<1>1. CASE Tick
  BY <1>1, SameRecords DEF Tick
<1>2. CASE Lose
  BY <1>2, SameRecords DEF Lose
<1>3. ASSUME NEW i \in Correct, NodeStep(i) \/ Crash(i)
      PROVE  CInv' /\ Climbs
  <2>1. i \in Node
    BY ConsensusAssumption DEF ConsensusAssumption
  <2> QED
    BY <1>3, <2>1, UpdateTipCert, OnTimeoutCreateCert, OnTimeoutChangeViewCert, ReceiveCert,
       CreateBlockCert, NewProposalCert, ExecuteCert, AddMinedBlockCert, AddBlockCert, CrashCert
       DEF NodeStep
<1>4. CASE UNCHANGED vars
  BY <1>4, SameRecords DEF vars
<1> QED
  BY <1>1, <1>2, <1>3, <1>4 DEF Next

\* The inductive invariant of the certificates holds in every behaviour.
THEOREM CertificateInvariance == Spec => []CInv
<1>1. Init => CInv
  BY InitCert
<1>2. IInv /\ IInv' /\ CInv /\ [Next]_vars => CInv'
  BY NextCert
<1> QED
  BY <1>1, <1>2, Invariance, PTL DEF Spec

-----------------------------------------------------------------------------
(* Theorems.                                                               *)

\* A block only leaves the miner of a node (addMinedBlock) with what the check
\* of every other node looks for (_verifySigns of block.ts): its miner is due
\* in its view, and the agreed share of the validators signed this very block.
\* No early signature, late quorum, restart or change of the tip while the
\* block was made lets one out that the others would refuse.
THEOREM MinedVerify == Spec => []MinedBlocksVerify
<1>1. CInv => MinedBlocksVerify
  BY DEF CInv, Proved, MinedBlocksVerify
<1> QED
  BY <1>1, CertificateInvariance, PTL

\* The first state is that of the tree.
LEMMA InitTree ==
    ASSUME Init
    PROVE  Tree!Init
<1> DEFINE h == [pre |-> NoBlock, number |-> 0, view |-> 0,
                 miner |-> CHOOSE a \in Node : TRUE, totalView |-> 1]
           m == [routine |-> NoBlock, jobs |-> {}, miningBlocks |-> {},
                 chainTip |-> Genesis, tipUpdates |-> {Genesis},
                 stored |-> {Genesis}, rows |-> {Genesis}]
<1>1. headers = <<h>> /\ miner = [i \in Node |-> m] /\ mined = {}
  BY DEF Init
<1>2. headers[Genesis] = h /\ h.pre = 0 /\ h.number = 0 /\ h.view = 0 /\ m.chainTip = Genesis
  BY <1>1 DEF Genesis, NoBlock
<1> HIDE DEF h, m
<1>3. Decided = {[id |-> Genesis, pre |-> 0, number |-> 0, view |-> 0]}
  BY <1>1, <1>2 DEF Decided
<1>4. [i \in Node |-> miner[i].chainTip] = [i \in Node |-> Genesis]
  BY <1>1, <1>2
<1> QED
  BY <1>3, <1>4 DEF Tree!Init

\* A certified block of the tree.
Entry(b) ==
    [id |-> b, pre |-> headers[b].pre, number |-> headers[b].number, view |-> headers[b].view]

\* The blocks of the tree are the entries of the certified ones, by their ids.
ByEntries ==
    /\ Decided = {Entry(b) : b \in Certified}
    /\ \A b \in Certified : Tree!NumberOf(b, Decided) = headers[b].number

LEMMA DecidedByEntries == ByEntries
<1>1. Decided = {Entry(b) : b \in Certified}
  BY DEF Decided, Entry, Certified
<1>2. ASSUME NEW b \in Certified
      PROVE  Tree!NumberOf(b, Decided) = headers[b].number
  <2>1. Entry(b) \in Decided /\ Entry(b).id = b
    BY <1>1 DEF Entry
  <2>2. \A d \in Decided : d.id = b => d = Entry(b)
    BY <1>1 DEF Entry
  <2>3. (CHOOSE d \in Decided : d.id = b) = Entry(b)
    BY <2>1, <2>2
  <2>4. Entry(b).number = headers[b].number
    BY DEF Entry
  <2> QED
    BY <2>3, <2>4 DEF Tree!NumberOf
<1> QED
  BY <1>1, <1>2 DEF ByEntries

LEMMA NextByEntries == ByEntries'
  BY DecidedByEntries, PTL

\* A step of the nodes grows the tree: no second child of a block for a view
\* is certified, because no second one is ever proposed (OneProposalPerView).
LEMMA StepGrows ==
    ASSUME IInv, IInv', CInv, CInv', Climbs
    PROVE  Tree!Grow
<1> DEFINE Entry2(b) == [id |-> b, pre |-> headers'[b].pre, number |-> headers'[b].number,
                         view |-> headers'[b].view]
<1>1. /\ Decided = {Entry(b) : b \in Certified}
      /\ \A b \in Certified : Tree!NumberOf(b, Decided) = headers[b].number
  BY DecidedByEntries DEF ByEntries
<1>2. /\ Decided' = {Entry2(b) : b \in Certified'}
      /\ \A b \in Certified' : Tree!NumberOf(b, Decided') = headers'[b].number
  <2>1. (Decided = {Entry(b) : b \in Certified})'
    BY NextByEntries DEF ByEntries
  <2>2. \A b \in Certified' : Tree!NumberOf(b, Decided') = headers'[b].number
    BY NextByEntries DEF ByEntries
  <2> QED
    BY <2>1, <2>2 DEF Entry
<1>3. /\ Certified \subseteq Certified' /\ Certified \subseteq Known /\ Certified' \subseteq Known'
      /\ Genesis \in Certified
  <2>1. Certified \subseteq Certified' /\ Genesis \in Certified
    BY DEF Certified, Climbs
  <2>2. Certified \subseteq Known
    BY CertifiedKnown
  <2>3. Certified' \subseteq Known'
    <3>1. Genesis \in Known'
      BY <2>1, <2>2 DEF Climbs
    <3>2. \A d \in mined' : d.block \in Known'
      BY DEF IInv
    <3> QED
      BY <3>1, <3>2 DEF Certified
  <2> QED
    BY <2>1, <2>2, <2>3
<1>4. \A b \in Certified : Entry2(b) = Entry(b) /\ headers'[b] = headers[b]
  BY <1>3 DEF Entry, Climbs
<1>5. Decided \subseteq Decided'
  BY <1>1, <1>2, <1>3, <1>4
<1>6. ASSUME NEW d \in Decided' \ Decided
      PROVE  /\ \A e \in Decided' : e.pre = d.pre /\ e.view = d.view => e = d
             /\ \E p \in Decided' : p.id = d.pre /\ d.number = p.number + 1
  <2>1. PICK b \in Certified' : d = Entry2(b)
    BY <1>2, <1>6
  <2>2. b \notin Certified /\ b # Genesis /\ b \in Known'
    BY <1>1, <1>3, <1>4, <1>6, <2>1
  <2>3. ASSUME NEW e \in Decided', e.pre = d.pre, e.view = d.view
        PROVE  e = d
    <3>1. PICK c \in Certified' : e = Entry2(c)
      BY <1>2, <2>3
    <3>2. headers'[c].pre = headers'[b].pre /\ headers'[c].view = headers'[b].view /\ c \in Known'
      BY <1>3, <2>1, <2>3, <3>1
    <3>3. \A b1, b2 \in Known' : headers'[b1].pre = headers'[b2].pre
                                 /\ headers'[b1].view = headers'[b2].view => b1 = b2
      BY DEF IInv, OneProposalPerView, Known
    <3>4. c = b
      BY <2>2, <3>2, <3>3
    <3> QED
      BY <2>1, <3>1, <3>4
  <2>4. /\ headers'[b].pre \in Certified'
        /\ headers'[b].number = headers'[headers'[b].pre].number + 1
    BY <2>2 DEF CInv, Numbered
  <2> DEFINE p == Entry2(headers'[b].pre)
  <2>5. p \in Decided' /\ p.id = d.pre /\ d.number = p.number + 1
    BY <1>2, <2>1, <2>4
  <2> QED
    BY <2>3, <2>5
<1>7. ASSUME NEW i \in Node, miner'[i].chainTip # miner[i].chainTip
      PROVE  /\ \E d \in Decided' : d.id = miner'[i].chainTip
             /\ Tree!NumberOf(miner'[i].chainTip, Decided') > Tree!NumberOf(miner[i].chainTip, Decided')
  <2>1. miner[i].chainTip \in Certified
    BY DEF CInv, MinerCert
  <2>2. miner'[i].chainTip \in Certified'
    BY DEF CInv, MinerCert
  <2>3. headers'[miner'[i].chainTip].number > headers'[miner[i].chainTip].number
    BY <1>7 DEF Climbs
  <2>4. Entry2(miner'[i].chainTip) \in Decided'
    BY <1>2, <2>2
  <2> QED
    BY <1>2, <1>3, <2>1, <2>2, <2>3, <2>4
<1> HIDE DEF Entry2
<1>8. \A d \in Decided' \ Decided : Tree!MayDecide(d, Decided')
  BY <1>6 DEF Tree!MayDecide
<1> QED
  BY <1>5, <1>7, <1>8 DEF Tree!Grow

\* The consensus implements BlockTree: whatever its nodes do, the certified
\* blocks form a tree in which a block has one child for each view and each
\* number, and no chain steps down or to a block that was not certified
\* (_addVerifiedBlock of chain.ts, newProposal and _onPrepareRequest).
THEOREM TreeImplemented == Spec => TreeSpec
<1> DEFINE tips == [i \in Node |-> miner[i].chainTip]
<1>1. Init => Tree!Init
  BY InitTree
<1>2. IInv /\ IInv' /\ CInv /\ CInv' /\ [Next]_vars => [Tree!Grow]_<<Decided, tips>>
  BY NextCert, StepGrows
<1>3. Spec => []IInv /\ []CInv
  BY Invariance, CertificateInvariance, PTL
<1> QED
  BY <1>1, <1>2, <1>3, PTL DEF Spec, TreeSpec, Tree!Spec
=============================================================================
