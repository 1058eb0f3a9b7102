---------------------------- MODULE MCNodeParts ----------------------------
(* What a node stores and how it is connected, one part at a time: a key     *)
(* value (KeyValue), the headers (HeaderStorage), a cache (LRUCache),        *)
(* connections (NodeConnections) and the packages on one of them             *)
(* (PackageStream).  The parts share nothing; part says which one runs.      *)
EXTENDS HeaderStorage, LRUCache, NodeConnections, PackageStream, TLC

CONSTANTS Values, Fields, Default, Undefined, NoTransaction, MaxLen, KeepHandles,
          g, a1, a2, b1, b2, x, y

VARIABLES part,
          kind, live, replica, diverged

keyVars == <<kind, live, replica, diverged>>
peerVars == <<connectionVars, streamVars>>

MCParent == a1 :> g @@ a2 :> a1 @@ b1 :> g @@ b2 :> b1
MCTxs == g :> {} @@ a1 :> {x} @@ a2 :> {y} @@ b1 :> {y} @@ b2 :> {x}
MCPackages == <<[body |-> 1, data |-> 0], [body |-> 0, data |-> 0], [body |-> 1, data |-> 2], [body |-> 0, data |-> 1]>>

Key == INSTANCE KeyValue

PartsInit ==
    /\ part \in {"keyvalue", "headers", "cache", "connections", "stream"}
    /\ Key!Init /\ HeadersInit /\ CacheInit /\ ConnectionsInit /\ StreamInit
    /\ part = "keyvalue" \/ kind = "single"

PartsNext ==
    \/ part = "keyvalue" /\ Key!Next /\ UNCHANGED <<part, headerVars, cacheVars, peerVars>>
    \/ part = "headers" /\ HeadersNext /\ UNCHANGED <<part, keyVars, cacheVars, peerVars>>
    \/ part = "cache" /\ CacheNext /\ UNCHANGED <<part, keyVars, headerVars, peerVars>>
    \/ part = "connections" /\ ConnectionsNext
          /\ UNCHANGED <<part, keyVars, headerVars, cacheVars, streamVars>>
    \/ part = "stream" /\ StreamNext
          /\ UNCHANGED <<part, keyVars, headerVars, cacheVars, connectionVars>>

PartsSpec ==
    /\ PartsInit /\ [][PartsNext]_<<part, keyVars, headerVars, cacheVars, peerVars>>
    /\ WF_headerVars(part = "headers" /\ (Database \/ Verdict)
                       /\ UNCHANGED <<part, keyVars, cacheVars, peerVars>>)

\* The property of the part that is an instance.
EnginesAgree == Key!EnginesAgree
=============================================================================
