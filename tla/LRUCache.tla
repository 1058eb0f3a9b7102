------------------------------ MODULE LRUCache ------------------------------
(***************************************************************************)
(* lib/LRUCache.ts: a map from keys to values and list nodes, and a doubly *)
(* linked list of the nodes, the last used first.  The list is modelled    *)
(* with its pointers, because no operation of the class resets those of a  *)
(* node that it unlinks, and because removeTail leaves the entry of the    *)
(* node it unlinks in the map: a later use of that key unlinks the node a  *)
(* second time.  Of a key, all that matters is the node the map has for it.*)
(***************************************************************************)
EXTENDS Naturals, FiniteSets

CONSTANTS
    MaxCount,   \* the constructor's maxCount
    MaxNodes,   \* bounds on the list nodes made since the cache was empty,
    MaxUses,    \* and on the uses and removals of keys that had one
    Null        \* no node

ASSUME CacheAssumption == {MaxCount, MaxNodes} \subseteq Nat /\ Null \notin 1 .. MaxNodes

VARIABLES
    mapped,     \* m_memValue: the nodes of the keys that have one
    link,       \* m_link: head, tail, count, and the pointers of every node
    made,       \* how many nodes were made, and how many uses there were
    uses,
    broken,     \* the last operation threw
    removed     \* a key was removed since the cache was empty

cacheVars == <<mapped, link, made, uses, broken, removed>>

ListNodes == 1 .. MaxNodes
Pointers == ListNodes \cup {Null}
Empty == [head |-> Null, tail |-> Null, count |-> 0,
          next |-> [n \in ListNodes |-> Null], prev |-> [n \in ListNodes |-> Null]]

\* Mutant: unlinking the only node forgets that the list has a tail, but not that it has a node.
UnlinkedButCounted(l, node) ==
    IF l.count = 0 THEN l
    ELSE [l EXCEPT !.head = IF @ = node THEN l.next[node] ELSE @,
                   !.tail = IF @ = node THEN l.prev[node] ELSE @]

\* DLink.remove
Unlinked(l, node) ==
    IF l.count = 0 THEN l
    ELSE LET before == l.prev[node]
             after == l.next[node]
         IN  [head |-> IF l.head = node THEN after ELSE l.head,
              tail |-> IF l.tail = node THEN before ELSE l.tail,
              count |-> l.count - 1,
              next |-> IF before = Null THEN l.next ELSE [l.next EXCEPT ![before] = after],
              prev |-> IF after = Null THEN l.prev ELSE [l.prev EXCEPT ![after] = before]]

\* DLink.addToHead: it leaves the prev of the node as it was
AtHead(l, node) ==
    [head |-> node,
     tail |-> IF l.count = 0 THEN node ELSE l.tail,
     count |-> l.count + 1,
     next |-> [l.next EXCEPT ![node] = l.head],
     prev |-> IF l.head = Null THEN l.prev ELSE [l.prev EXCEPT ![l.head] = node]]

\* removeTail reads the pointers of the tail, which must be a node.
TailMissing(l) == l.count > 0 /\ l.tail = Null

CacheInit ==
    /\ mapped = {}
    /\ link = Empty
    /\ made = 0
    /\ uses = 0
    /\ broken = FALSE
    /\ removed = FALSE

\* set of a key that has none
Insert ==
    /\ LET full == link.count >= MaxCount
       IN  IF full /\ TailMissing(link)
           THEN broken' = TRUE /\ UNCHANGED <<mapped, link, made>>
           ELSE /\ made < MaxNodes /\ made' = made + 1
                /\ mapped' = mapped \cup {made'}
                /\ link' = AtHead(IF full THEN Unlinked(link, link.tail) ELSE link, made')
                /\ broken' = FALSE
    /\ UNCHANGED <<uses, removed>>

Uses(node) == node \in mapped /\ uses < MaxUses /\ uses' = uses + 1

\* set (and get, which sets what it found) of a key that has a node
Touch(node) ==
    /\ Uses(node)
    /\ link' = AtHead(Unlinked(link, node), node)
    /\ broken' = FALSE
    /\ UNCHANGED <<mapped, made, removed>>

\* remove
RemoveKey(node) ==
    /\ Uses(node)
    /\ link' = Unlinked(link, node)
    /\ mapped' = mapped \ {node}
    /\ broken' = FALSE
    /\ removed' = TRUE
    /\ UNCHANGED made

\* Neither the map nor the list knows a node any more, so the numbers are free again.
Clear ==
    /\ mapped' = {}
    /\ link' = Empty
    /\ made' = 0
    /\ uses' = 0
    /\ broken' = FALSE
    /\ removed' = FALSE

CacheNext ==
    \/ Insert
    \/ \E node \in ListNodes : Touch(node) \/ RemoveKey(node)
    \/ Clear

CacheSpec == CacheInit /\ [][CacheNext]_cacheVars

\* A cache that nobody removes keys from does not throw (the records of the pool, pending.ts:87,
\* and the miners of headers, dbft_chain/header_storage.ts:56): whatever was unlinked twice or
\* counted twice before, removeTail finds a tail when the list counts as full (LRUCache.ts:92-98).
NoThrow == ~removed => ~broken

\* Refuted (README, Deviations), at the bounds where NoThrow holds: the caches of
\* block/header_storage.ts, whose keys are removed, do not throw.
NeverThrows == ~broken

\* Refuted (README, Deviations): no more values than maxCount.
ValuesBounded == Cardinality(mapped) <= MaxCount
=============================================================================
