--------------------------- MODULE NodeConnections ---------------------------
(***************************************************************************)
(* net/node.ts, block/network.ts, block/node_storage.ts and the two        *)
(* classes that decide whom to dial (random_outbound_network.ts and        *)
(* dbft_chain/validators_network.ts): nodes dial each other, exchange      *)
(* versions, keep one connection to a peer, lose it and ban the peer.      *)
(* A dial has a near end (who dialed) and a far end.  An end that is "up"  *)
(* is in m_outConn or m_inConn of its node.                                *)
(***************************************************************************)
EXTENDS Integers, Sequences, SequencesExt, FiniteSets

CONSTANTS
    Nodes,
    RandomNodes,            \* the nodes with a RandomOutNetwork; the others have a ValidatorsNetwork
    StaticPeers,            \* what randomPeers chooses from
    MinOutbound, Validators, MinConnections,
    Bans,                   \* the lengths of bans, Forever among them
    Forever, NotBanned,
    Times,                  \* the timestamps of the versions
    MaxDials, MaxTime,      \* bounds
    MaxBreaks               \* bound on refused dials, broken connections and bans together

\* A ban has a length in time or no end, and whoever is dialed is a node.
ASSUME ConnectionsAssumption ==
    /\ IsFiniteSet(Nodes) /\ StaticPeers \cup Validators \subseteq Nodes
    /\ Bans \subseteq Nat \cup {Forever} /\ Forever # NotBanned
    /\ Times \subseteq Nat

VARIABLES
    dials,      \* every dial so far
    map,        \* m_remoteMap: the dial of a peer, or 0
    known,      \* m_nodes of the NodeStorage
    ban,        \* m_banNodes: when the ban of a peer ends
    now,
    breaks      \* so far

connectionVars == <<dials, map, known, ban, now, breaks>>

ConnectionsInit ==
    /\ dials = <<>>
    /\ map = [n \in Nodes |-> [p \in Nodes |-> 0]]
    /\ known = [n \in Nodes |-> {}]
    /\ ban = [n \in Nodes |-> [p \in Nodes |-> NotBanned]]
    /\ now = 0
    /\ breaks = 0

-----------------------------------------------------------------------------
(* Connections: c is a record of dials and map.                             *)

Now == [dials |-> dials, map |-> map]

IsEnd(d, n) == n \in {d.from, d.to}
EndOf(d, n) == IF d.from = n THEN d.near ELSE d.far
Remote(d, n) == IF d.from = n THEN d.to ELSE d.from
Put(ds, n, i, state) == [ds EXCEPT ![i] = IF @.from = n THEN [@ EXCEPT !.near = state] ELSE [@ EXCEPT !.far = state]]

\* The peers in m_outConn and m_inConn.
Remotes(n) == {Remote(dials[i], n) : i \in {j \in DOMAIN dials : IsEnd(dials[j], n) /\ EndOf(dials[j], n) = "up"}}

\* m_connecting: Promise.all tells the outcomes of a batch when its last dial has ended.
Connecting(n) == {dials[i].to : i \in {j \in DOMAIN dials : dials[j].from = n /\ ~dials[j].told}}

\* The map loses the peer, whatever connection of it it names.
CloseConnection(c, n, i) ==
    [dials |-> Put(c.dials, n, i, "closed"), map |-> [c.map EXCEPT ![n][Remote(c.dials[i], n)] = 0]]

Open(c, n, i) ==
    [dials |-> Put(c.dials, n, i, "up"), map |-> [c.map EXCEPT ![n][Remote(c.dials[i], n)] = i]]

\* compare of the two versions: who was begun later.  Of equal times m_random decides, which is
\* not sent: each end has drawn its own for a version, so random is any outcome, at each end.
Later(c, i, j, random) ==
    j # 0 /\ (c.dials[i].time > c.dials[j].time \/ (c.dials[i].time = c.dials[j].time /\ random))

\* Mutant: the connection that is replaced stays in its list.
KeepOneOpeningBoth(c, n, i, random) ==
    IF Later(c, i, c.map[n][Remote(c.dials[i], n)], random) THEN [c EXCEPT !.dials = Put(@, n, i, "spare")]
    ELSE Open(c, n, i)

\* What connectTo and _onInbound do once the versions are exchanged.
KeepOne(c, n, i, random) ==
    LET other == c.map[n][Remote(c.dials[i], n)]
    IN  IF Later(c, i, other, random) THEN [c EXCEPT !.dials = Put(@, n, i, "spare")]
        ELSE Open(IF other = 0 THEN c ELSE CloseConnection(c, n, other), n, i)

Becomes(c) == dials' = c.dials /\ map' = c.map

-----------------------------------------------------------------------------
(* Bans: b is the list of one node.                                         *)

Ended(b, p) == b[p] \notin {Forever, NotBanned} /\ now >= b[p]

\* isBan, which also drops a ban that has ended
IsBan(b, p) == b[p] = Forever \/ Ended(b, p)
AfterIsBan(b, asked) == [p \in Nodes |-> IF p \in asked /\ Ended(b, p) THEN NotBanned ELSE b[p]]

\* Mutant: bans are not looked at.
OnWillConnectToBanned(n, b, p) == map[n][p] = 0 /\ p \notin Connecting(n) /\ p # n
OnWillConnectTo(n, b, p) == ~IsBan(b, p) /\ map[n][p] = 0 /\ p \notin Connecting(n) /\ p # n

-----------------------------------------------------------------------------
(* Dialing.                                                                 *)

Dial(n, p, time, refused) ==
    [from |-> n, to |-> p, time |-> time, batch |-> Len(dials), told |-> FALSE, acked |-> FALSE, reset |-> FALSE,
     near |-> IF refused THEN "failed" ELSE "greeting",
     far |-> IF refused THEN "closed" ELSE "greeting"]

\* _connectTo.  The clocks of the nodes differ, so the times of the versions are in any order,
\* and two may be equal.
ConnectTo(n, will, b) ==
    LET dialed == SetToSeq({p \in will : OnWillConnectTo(n, b, p)})
    IN  /\ dialed # <<>>
        /\ Len(dials) + Len(dialed) <= MaxDials
        /\ \E time \in [DOMAIN dialed -> Times], refused \in SUBSET DOMAIN dialed :
              /\ breaks' = breaks + Cardinality(refused)
              /\ dials' = dials \o [i \in DOMAIN dialed |-> Dial(n, dialed[i], time[i], i \in refused)]
        /\ breaks' <= MaxBreaks
        /\ ban' = [ban EXCEPT ![n] = AfterIsBan(b, will)]
        /\ UNCHANGED <<map, known, now>>

\* RandomOutNetwork's timer and _newOutbounds
NewOutbounds(n) ==
    LET count == MinOutbound - Cardinality(Connecting(n)) - Cardinality(Remotes(n))
        stored == {p \in known[n] : OnWillConnectTo(n, ban[n], p)}
        more == IF Cardinality(stored) >= count THEN {}
                ELSE StaticPeers \ ({n} \cup stored \cup Connecting(n) \cup Remotes(n))
    IN  /\ n \in RandomNodes
        /\ count > 0
        /\ Cardinality(stored) < count => more # {}
        /\ ConnectTo(n, stored \cup more, AfterIsBan(ban[n], known[n]))

\* ValidatorsNetwork's timer
CheckConnections(n) ==
    /\ n \notin RandomNodes
    /\ Cardinality({p \in Validators : map[n][p] # 0 \/ p \in Connecting(n)}) < MinConnections
    /\ ConnectTo(n, {p \in Validators : OnWillConnectTo(n, ban[n], p)}, AfterIsBan(ban[n], Validators))

\* The far end answers a version.  If it keeps the connection, the network closes it when the
\* peer is banned.
OnInbound(i, random) ==
    LET d == dials[i]
        c == KeepOne([Now EXCEPT !.dials = [dials EXCEPT ![i].acked = TRUE]], d.to, i, random)
        asks == EndOf(c.dials[i], d.to) = "up"
    IN  /\ d.far = "greeting"
        /\ Becomes(IF asks /\ IsBan(ban[d.to], d.from) THEN CloseConnection(c, d.to, i) ELSE c)
        /\ ban' = [ban EXCEPT ![d.to] = IF asks THEN AfterIsBan(@, {d.from}) ELSE @]
        /\ UNCHANGED <<known, now, breaks>>

\* The near end gets the answer.
OnVersionAck(i, random) ==
    /\ dials[i].near = "greeting" /\ dials[i].acked
    /\ Becomes(KeepOne(Now, dials[i].from, i, random))
    /\ UNCHANGED <<known, ban, now, breaks>>

\* The batch of dial i is over: who gave a connection is stored, whose dial failed is removed.
BatchEnds(i) ==
    LET n == dials[i].from
        batch == {j \in DOMAIN dials : dials[j].batch = dials[i].batch}
        To(states) == {dials[j].to : j \in {k \in batch : dials[k].near \in states}}
    IN  /\ ~dials[i].told
        /\ "greeting" \notin {dials[j].near : j \in batch}
        /\ dials' = [j \in DOMAIN dials |-> IF j \in batch THEN [dials[j] EXCEPT !.told = TRUE] ELSE dials[j]]
        /\ known' = [known EXCEPT ![n] = (@ \cup To({"up", "closed"})) \ To({"failed"})]
        /\ UNCHANGED <<map, ban, now, breaks>>

-----------------------------------------------------------------------------
(* Losing a peer.                                                           *)

Gone(state) == state \in {"failed", "spare", "closed"}

\* The transport of a connection breaks.
Break(i) ==
    /\ breaks < MaxBreaks
    /\ ~dials[i].reset /\ ~(Gone(dials[i].near) /\ Gone(dials[i].far))
    /\ dials' = [dials EXCEPT ![i].reset = TRUE]
    /\ breaks' = breaks + 1
    /\ UNCHANGED <<map, known, ban, now>>

\* The 'error' of end n.  That the other end has closed shows when this one writes.
OnError(n, i) ==
    LET d == dials[i]
        other == EndOf(d, Remote(d, n))
    IN  /\ IsEnd(d, n)
        /\ \/ EndOf(d, n) = "up" /\ (d.reset \/ Gone(other)) /\ Becomes(CloseConnection(Now, n, i))
           \/ EndOf(d, n) = "greeting" /\ d.reset /\ Becomes([Now EXCEPT !.dials = Put(@, n, i, "failed")])
        /\ UNCHANGED <<known, ban, now, breaks>>

\* Network.banConnection
BanConnection(n, p, length) ==
    /\ breaks < MaxBreaks /\ p # n
    /\ breaks' = breaks + 1
    /\ ban' = [ban EXCEPT ![n][p] = IF length = Forever THEN Forever ELSE now + length]
    /\ known' = [known EXCEPT ![n] = @ \ {p}]
    /\ Becomes(IF map[n][p] = 0 THEN Now ELSE CloseConnection(Now, n, map[n][p]))
    /\ UNCHANGED now

\* Time is only compared with the ends of bans.
Tick ==
    /\ now < MaxTime
    /\ \E n, p \in Nodes : ban[n][p] \notin {Forever, NotBanned}
    /\ now' = now + 1
    /\ UNCHANGED <<dials, map, known, ban, breaks>>

ConnectionsNext ==
    \/ \E n \in Nodes : NewOutbounds(n) \/ CheckConnections(n)
    \/ \E i \in DOMAIN dials, random \in BOOLEAN : OnInbound(i, random) \/ OnVersionAck(i, random)
    \/ \E i \in DOMAIN dials : BatchEnds(i) \/ Break(i)
    \/ \E n \in Nodes, i \in DOMAIN dials : OnError(n, i)
    \/ \E n, p \in Nodes, length \in Bans : BanConnection(n, p, length)
    \/ Tick

ConnectionsSpec == ConnectionsInit /\ [][ConnectionsNext]_connectionVars

-----------------------------------------------------------------------------
Between(n, p) == {i \in DOMAIN dials : {dials[i].from, dials[i].to} = {n, p}}

\* The connections in the lists of a node are those of its map, one for a peer, whichever
\* connections replaced, lost or banned each other in whatever order.
MapAgrees == \A n, p \in Nodes : p # n =>
    {i \in Between(n, p) : EndOf(dials[i], n) = "up"} = {map[n][p]} \ {0}

\* Once the versions are exchanged, two nodes that dialed each other have one connection, the same.
HaveOne(n, p) ==
    LET between == Between(n, p)
    IN  \/ between = {} \/ \E i \in between : "greeting" \in {dials[i].near, dials[i].far}
        \/ Cardinality({i \in between : dials[i].near = "up" /\ dials[i].far = "up"}) = 1

NoTie(n, p) == \A i, j \in Between(n, p) : i # j => dials[i].time # dials[j].time

\* Two nodes that dial each other at one time end up with one connection, and with the same:
\* the comparison of the versions (node.ts:185, 356) never makes each close what the other keeps,
\* as long as their timestamps differ.
OneSurvives == breaks = 0 => \A n, p \in Nodes : NoTie(n, p) => HaveOne(n, p)

\* Refuted (README, Deviations): with equal timestamps the ends decide by m_random, each by its
\* own (version.ts:28), so that each may close what the other keeps.
OneSurvivesTies == breaks = 0 => \A n, p \in Nodes : HaveOne(n, p)

\* What a node and its peers make of their connections.
ConnectionsAgree == MapAgrees /\ OneSurvives

\* A node without connections that knows a peer it may dial dials it at its next turn.
NobodyStranded == \A n \in RandomNodes :
    LET stored == {p \in known[n] : OnWillConnectTo(n, ban[n], p)}
    IN  Remotes(n) \cup Connecting(n) = {} /\ stored # {} /\ Cardinality(stored) < MinOutbound
            => StaticPeers \ ({n} \cup stored) # {}

\* Whether a connection to p opens at n, other than by a dial of n that has begun before.
Opens(n, p) ==
    \E i \in DOMAIN dials' : {dials'[i].from, dials'[i].to} = {n, p} /\
        IF dials'[i].from = n THEN i \notin DOMAIN dials
        ELSE i \in DOMAIN dials /\ dials[i].far # "up" /\ dials'[i].far = "up"

\* A peer banned for ever is neither dialed nor let in.
BannedOut == [][\A n, p \in Nodes : ban[n][p] = Forever => ~Opens(n, p)]_connectionVars

\* "The time the ban ends" (node_storage.ts:14): until then the peer is neither dialed nor let in.
BannedUntilEnd == [][\A n, p \in Nodes :
    ban[n][p] \notin {Forever, NotBanned} /\ now < ban[n][p] => ~Opens(n, p)]_connectionVars
=============================================================================
