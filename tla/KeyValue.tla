------------------------------ MODULE KeyValue ------------------------------
(* One key of a key value, in a table and in a tree at once: the same calls, *)
(* transactions and handles reach the SQLite storage and the JSON storage    *)
(* (storage/storage.ts), and a redo log is written of them (storage/logger.ts*)
(* and storage/js_log.ts).                                                   *)
EXTENDS KeyValueOps, FiniteSets

CONSTANTS Values, Fields,
          NoTransaction,
          MaxLen,       \* elements of a list
          KeepHandles   \* whether handles are used after the transaction they
                        \* were opened in, or were open at its rollback

Kinds == {"single", "hash", "list"}
Engines == {"sqlite", "json"}

VARIABLES
    kind,       \* what the callers use the key for
    live,       \* the storage, per engine
    replica,    \* what a replay of the redo log, as far as it is written, has built
    diverged    \* a call was done by one engine and refused by the other

vars == <<kind, live, replica, diverged>>

(* store: the contents of the key; saved: those at the begin of the open     *)
(* transaction; held: what the handle of the caller reads and writes, which  *)
(* is the store as long as it is attached; scope: where the log declared     *)
(* that handle; alive: FALSE when a replay has thrown.                       *)
New(contents) == [store |-> contents, saved |-> NoTransaction, held |-> contents,
                  attached |-> TRUE, scope |-> "outer", alive |-> TRUE]

Init ==
    /\ kind \in Kinds
    /\ live = [sqlite |-> New(<<>>), json |-> New(Undefined)]
    /\ replica = live
    /\ diverged = FALSE

-----------------------------------------------------------------------------
(* Calls.                                                                    *)

Call(op, at, fields, values) == [op |-> op, at |-> at, fields |-> fields, values |-> values]
Lists == {<<v>> : v \in Values} \cup {<<v, w>> : v, w \in Values}
Pairs == {<<f, g>> : f, g \in Fields}

Calls(k, n) ==
    CASE k = "single" -> {Call("set", 0, <<>>, <<v>>) : v \in Values}
      [] k = "hash" -> {Call("hset", f, <<>>, <<v>>) : f \in Fields, v \in Values}
                       \cup {Call("hmset", 0, p, <<v, w>>) : p \in Pairs, v, w \in Values}
                       \cup {Call("hdel", f, <<>>, <<>>) : f \in Fields}
                       \cup {Call("hclean", 0, <<>>, <<>>)}
      [] OTHER -> {Call(op, 0, <<>>, <<v>>) : op \in {"lpush", "rpush"}, v \in Values}
                  \cup {Call(op, 0, <<>>, vs) : op \in {"lpushx", "rpushx"}, vs \in Lists}
                  \cup {Call(op, i, <<>>, <<v>>) : op \in {"lset", "linsert"}, i \in 0 .. n, v \in Values}
                  \cup {Call(op, 0, <<>>, <<>>) : op \in {"lpop", "rpop"}}
                  \cup {Call("lremove", i, <<>>, <<>>) : i \in 0 .. n}

Sqlite(rows, c) ==
    CASE c.op = "set" -> SqliteSet(rows, c)
      [] c.op = "hset" -> SqliteHSet(rows, c)
      [] c.op = "hmset" -> SqliteHMSet(rows, c)
      [] c.op = "hdel" -> SqliteHDel(rows, c)
      [] c.op = "hclean" -> SqliteHClean(rows, c)
      [] c.op = "lset" -> SqliteLSet(rows, c)
      [] c.op = "lpush" -> SqliteLPush(rows, c)
      [] c.op = "lpushx" -> SqliteLPushX(rows, c)
      [] c.op = "lpop" -> SqliteLPop(rows, c)
      [] c.op = "rpush" -> SqliteRPush(rows, c)
      [] c.op = "rpushx" -> SqliteRPushX(rows, c)
      [] c.op = "rpop" -> SqliteRPop(rows, c)
      [] c.op = "linsert" -> SqliteLInsert(rows, c)
      [] c.op = "lremove" -> SqliteLRemove(rows, c)

Json(node, c) ==
    CASE c.op = "set" -> JsonSet(node, c)
      [] c.op = "hset" -> JsonHSet(node, c)
      [] c.op = "hmset" -> JsonHMSet(node, c)
      [] c.op = "hdel" -> JsonHDel(node, c)
      [] c.op = "hclean" -> JsonHClean(node, c)
      [] c.op = "lset" -> JsonLSet(node, c)
      [] c.op = "lpush" -> JsonLPush(node, c)
      [] c.op = "lpushx" -> JsonLPushX(node, c)
      [] c.op = "lpop" -> JsonLPop(node, c)
      [] c.op = "rpush" -> JsonRPush(node, c)
      [] c.op = "rpushx" -> JsonRPushX(node, c)
      [] c.op = "rpop" -> JsonRPop(node, c)
      [] c.op = "linsert" -> JsonLInsert(node, c)
      [] c.op = "lremove" -> JsonLRemove(node, c)

Apply(engine, contents, c) == IF engine = "sqlite" THEN Sqlite(contents, c) ELSE Json(contents, c)
Elements(contents) == IF kind = "list" THEN Len(OrEmpty(contents)) ELSE 0

-----------------------------------------------------------------------------
(* What a storage does, and what is logged.                                  *)

Write(engine, s, c) ==
    LET a == Apply(engine, s.held, c)
    IN  [s EXCEPT !.held = a.store, !.store = IF s.attached THEN a.store ELSE @]

Begin(s) == [s EXCEPT !.saved = s.store]

\* A handle declared in the block of the transaction is gone with it.
CloseScope(s) == [s EXCEPT !.saved = NoTransaction,
                           !.scope = IF @ = "inner" THEN "closed" ELSE @]

Commit(s) == CloseScope(s)

\* JSON: the tree is a copy from now on, and handles keep the old one.
Rollback(engine, s) ==
    LET back == [CloseScope(s) EXCEPT !.store = s.saved]
    IN  IF engine = "json" THEN [back EXCEPT !.attached = FALSE]
        ELSE [back EXCEPT !.held = s.saved]

Open(s) == [s EXCEPT !.held = s.store, !.attached = TRUE,
                     !.scope = IF s.saved = NoTransaction THEN "outer" ELSE "inner"]

\* The replay of a call: a variable that is not in scope throws.
RedoWrite(engine, s, c) ==
    IF s.alive /\ s.scope # "closed" THEN Write(engine, s, c) ELSE [s EXCEPT !.alive = FALSE]

\* A step of every engine and of what its log replays to.
Both(done, redone) == live' = done /\ replica' = redone

InTransaction == live["json"].saved # NoTransaction
UsableHandle == \A e \in Engines : live[e].attached /\ live[e].scope # "closed"

\* Nothing is followed any further after the engines have parted.
Use(c) ==
    /\ ~diverged
    /\ KeepHandles \/ UsableHandle
    /\ Both([e \in Engines |-> Write(e, live[e], c)], [e \in Engines |-> RedoWrite(e, replica[e], c)])
    /\ LET a == [e \in Engines |-> Apply(e, live[e].held, c)]
       IN  diverged' = (diverged \/ (/\ a["sqlite"].err # a["json"].err
                                     /\ \E e \in Engines : a[e].store # live[e].held))
    /\ \A e \in Engines : Elements(live'[e].held) <= MaxLen
    /\ UNCHANGED kind

BeginTransaction ==
    /\ ~InTransaction
    /\ Both([e \in Engines |-> Begin(live[e])], [e \in Engines |-> Begin(replica[e])])
    /\ UNCHANGED <<kind, diverged>>

CommitTransaction ==
    /\ InTransaction
    /\ Both([e \in Engines |-> Commit(live[e])], [e \in Engines |-> Commit(replica[e])])
    /\ UNCHANGED <<kind, diverged>>

RollbackTransaction ==
    /\ InTransaction
    /\ Both([e \in Engines |-> Rollback(e, live[e])], [e \in Engines |-> Rollback(e, replica[e])])
    /\ UNCHANGED <<kind, diverged>>

GetReadWritableKeyValue ==
    /\ Both([e \in Engines |-> Open(live[e])], [e \in Engines |-> Open(replica[e])])
    /\ UNCHANGED <<kind, diverged>>

Next ==
    \/ \E c \in Calls(kind, Elements(live["sqlite"].held)) : Use(c)
    \/ BeginTransaction
    \/ CommitTransaction
    \/ RollbackTransaction
    \/ GetReadWritableKeyValue

Spec == Init /\ [][Next]_vars

-----------------------------------------------------------------------------
(* Properties.                                                               *)

Alike(rows, node) ==
    IF kind = "list"
    THEN /\ {rows[i].field : i \in DOMAIN rows} = 0 .. Len(rows) - 1
         /\ [i \in DOMAIN rows |-> ValueAt(rows, i - 1)] = OrEmpty(node)
    ELSE /\ {rows[i].field : i \in DOMAIN rows} = DOMAIN OrEmpty(node)
         /\ \A i \in DOMAIN rows : node[rows[i].field] = rows[i].value

(* The table holds what the tree holds, whatever calls shifted its rows and   *)
(* whatever transactions were rolled back: the elements of a list are the     *)
(* rows 0, 1, ... and those of an object its fields.                          *)
SameContents == ~diverged => Alike(live["sqlite"].store, live["json"].store)

(* A reader gets the same from both: a length, an element, a range counted    *)
(* from either end, a field; and a call that takes an element returns it.     *)
SameAnswers ==
    LET rows == live["sqlite"].store
        node == live["json"].store
        n == Len(rows)
    IN  ~diverged /\ node # Undefined =>
        IF kind = "list"
        THEN /\ SqliteHLen(rows) = JsonLLen(node)
             /\ \A i \in 0 .. n : SqliteHGet(rows, i) = JsonLIndex(node, i)
             /\ \A i \in -n .. n, j \in -n .. n : SqliteLRange(rows, i, j) = JsonLRange(node, i, j)
             /\ \A c \in Calls(kind, n) : LET a == Sqlite(rows, c) IN
                    ~a.err => a.value = Json(node, c).value
        ELSE /\ SqliteHLen(rows) = JsonHLen(node)
             /\ \A f \in Fields : /\ SqliteHGet(rows, f) = JsonHGet(node, f)
                                  /\ SqliteHExists(rows, f) = JsonHExists(node, f)
             /\ \A p \in Pairs : SqliteHMGet(rows, p) = JsonHMGet(node, p)
             /\ ToSet(SqliteHKeys(rows)) = JsonHKeys(node)
             /\ ToSet(SqliteHValues(rows)) = Range(JsonHValues(node))
             /\ {<<r.field, r.value>> : r \in ToSet(SqliteHGetAll(rows))}
                    = {<<f, node[f]>> : f \in DOMAIN node}

(* A caller cannot tell the engines apart: same contents, same answers.       *)
EnginesAgree == SameContents /\ SameAnswers

(* Refuted where handles are kept (README, Deviations): replaying the redo    *)
(* log on a copy gives the same storage, rows in the same order, since the    *)
(* digest of the file is compared; and the replay ends.                       *)
RedoSame ==
    \A e \in Engines : replica[e].alive /\ replica[e].store = live[e].store

(* lpush puts a value in front of any list (doc/ref_context.md:163).          *)
PushAccepted ==
    kind = "list" => \A v \in Values : ~Sqlite(live["sqlite"].store, Call("lpush", 0, <<>>, <<v>>)).err
=============================================================================
