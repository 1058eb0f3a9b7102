---------------------------- MODULE KeyValueOps ----------------------------
(* The operations of a key value of chainsdk, as functions of what one key   *)
(* holds: for the table of storage_sqlite/storage.ts and for the tree of     *)
(* storage_json/storage.ts.  A call is a record with its operation, its      *)
(* index or field and its values; an answer has the new contents, whether    *)
(* the call failed, and the value it returns.                                *)
EXTENDS Integers, SequencesExt

CONSTANTS Default,      \* the field "____default____" of a single value
          Undefined     \* the value undefined of JavaScript

Answer(contents, err, value) == [store |-> contents, err |-> err, value |-> value]

-----------------------------------------------------------------------------
(* A table.  The rows of a key are a sequence in the order of their rowid,   *)
(* which is the order in which an UPDATE visits them; (name, field) is       *)
(* unique, and a statement that breaks this has no effect.                   *)

Row(f, v) == [field |-> f, value |-> v]
HasRow(rows, f) == \E i \in DOMAIN rows : rows[i].field = f
Without(rows, f) == SelectSeq(rows, LAMBDA r : r.field # f)
ValueAt(rows, f) == IF HasRow(rows, f) THEN (CHOOSE r \in ToSet(rows) : r.field = f).value ELSE Undefined

MoveRow(t, i, by) ==
    LET to == t.rows[i].field + by
    IN  IF t.err \/ HasRow(RemoveAt(t.rows, i), to) THEN [t EXCEPT !.err = TRUE]
        ELSE [t EXCEPT !.rows[i].field = to]

\* Statements, as functions of a table and whether one of them failed.
Insert(f, v) == [do |-> "insert", field |-> f, value |-> v]
Replace(f, v) == [do |-> "replace", field |-> f, value |-> v]
Delete(f) == [do |-> "delete", field |-> f]
Shift(f, by) == [do |-> "shift", field |-> f, by |-> by]
ShiftAll(by) == [do |-> "shiftAll", by |-> by]
Malformed == [do |-> "malformed"]

Exec(t, s) ==
    LET fails == [t EXCEPT !.err = TRUE]
        moved == FoldLeft(LAMBDA u, i : MoveRow(u, i, s.by), t,
                          SelectSeq([i \in DOMAIN t.rows |-> i],
                                    LAMBDA i : s.do = "shiftAll" \/ t.rows[i].field = s.field))
    IN  CASE t.err -> t
          [] s.do = "malformed" -> fails
          [] s.do = "insert" /\ HasRow(t.rows, s.field) -> fails
          [] s.do = "delete" -> [t EXCEPT !.rows = Without(@, s.field)]
          [] s.do \in {"shift", "shiftAll"} -> IF moved.err THEN fails ELSE moved
          [] OTHER -> [t EXCEPT !.rows = Append(Without(@, s.field), Row(s.field, s.value))]

Run(rows, statements, value) ==
    LET t == FoldLeft(Exec, [rows |-> rows, err |-> FALSE], statements)
    IN  Answer(t.rows, t.err, IF t.err THEN Undefined ELSE value)

NotFound(contents) == Answer(contents, TRUE, Undefined)

SqliteSet(rows, c) == Run(rows, <<Replace(Default, c.values[1])>>, Undefined)
SqliteHSet(rows, c) == Run(rows, <<Replace(c.at, c.values[1])>>, Undefined)
SqliteHMSet(rows, c) ==
    Run(rows, [i \in DOMAIN c.values |-> Replace(c.fields[i], c.values[i])], Undefined)
SqliteHDel(rows, c) == Run(rows, <<Delete(c.at)>>, Undefined)
\* The name of the table has a # and is not quoted.
SqliteHClean(rows, c) == Run(rows, <<Malformed>>, Undefined)
SqliteLSet(rows, c) == Run(rows, <<Replace(c.at, c.values[1])>>, Undefined)
SqliteLPush(rows, c) == Run(rows, <<ShiftAll(1), Insert(0, c.values[1])>>, Undefined)
SqliteLPushX(rows, c) ==
    Run(rows, <<ShiftAll(Len(c.values))>> \o [i \in DOMAIN c.values |-> Insert(i - 1, c.values[i])],
        Undefined)
\* Mutant: the elements behind the removed one keep their indexes.
SqliteLRemoveLeavingGap(rows, c) ==
    IF rows = <<>> THEN NotFound(rows) ELSE Run(rows, <<Delete(c.at)>>, ValueAt(rows, c.at))
SqliteLRemove(rows, c) ==
    IF rows = <<>> THEN NotFound(rows)
    ELSE Run(rows, <<Delete(c.at)>> \o SelectSeq([i \in DOMAIN rows |-> Shift(i, -1)],
                                                 LAMBDA s : s.field > c.at /\ s.field < Len(rows)),
             ValueAt(rows, c.at))
SqliteLPop(rows, c) == SqliteLRemove(rows, [c EXCEPT !.at = 0])
SqliteRPush(rows, c) == Run(rows, <<Insert(Len(rows), c.values[1])>>, Undefined)
SqliteRPushX(rows, c) ==
    Run(rows, [i \in DOMAIN c.values |-> Insert(Len(rows) + i - 1, c.values[i])], Undefined)
\* The value is looked up behind the last element.
SqliteRPopBehindEnd(rows, c) ==
    IF rows = <<>> THEN NotFound(rows)
    ELSE Run(rows, <<Delete(Len(rows) - 1)>>, ValueAt(rows, Len(rows)))
SqliteRPop(rows, c) ==
    IF rows = <<>> THEN NotFound(rows)
    ELSE Run(rows, <<Delete(Len(rows) - 1)>>, ValueAt(rows, Len(rows) - 1))
SqliteLInsert(rows, c) ==
    LET n == Len(rows)
        at == IF c.at >= n THEN n ELSE c.at
    IN  Run(rows, [i \in 1 .. n - at |-> Shift(n - i, 1)] \o <<Replace(at, c.values[1])>>, Undefined)

SqliteHGet(rows, f) == ValueAt(rows, f)
SqliteHExists(rows, f) == HasRow(rows, f)
SqliteHMGet(rows, fields) == [i \in DOMAIN fields |-> ValueAt(rows, fields[i])]
SqliteHLen(rows) == Len(rows)
SqliteHKeys(rows) == [i \in DOMAIN rows |-> rows[i].field]
SqliteHValues(rows) == [i \in DOMAIN rows |-> rows[i].value]
SqliteHGetAll(rows) == rows

\* lrange: the ends of the range, counted from the end when negative.
RangeStart(n, start) == IF start < 0 THEN n + start ELSE start
RangeStop(n, stop) == LET s == IF stop < 0 THEN n + stop ELSE stop IN IF s >= n THEN n - 1 ELSE s

SqliteLRange(rows, start, stop) ==
    LET n == Len(rows)
        from == RangeStart(n, start)
        found == SelectSeq(rows, LAMBDA r : r.field \in from .. RangeStop(n, stop))
    IN  IF n = 0 THEN <<>>
        ELSE [i \in DOMAIN found |-> ValueAt(found, from + i - 1)]

-----------------------------------------------------------------------------
(* A tree.  A key holds nothing (Undefined), an array or an object.          *)

Done(contents, value) == Answer(contents, FALSE, value)
Throws(contents) == Answer(contents, TRUE, Undefined)
OrEmpty(node) == IF node = Undefined THEN <<>> ELSE node
Put(object, f, v) == [g \in DOMAIN object \cup {f} |-> IF g = f THEN v ELSE object[g]]
Lookup(object, f) == IF f \in DOMAIN object THEN object[f] ELSE Undefined

JsonSet(node, c) == Done(Put(<<>>, Default, c.values[1]), Undefined)
JsonHSet(node, c) == Done(Put(OrEmpty(node), c.at, c.values[1]), Undefined)
JsonHMSet(node, c) ==
    Done(FoldLeft(LAMBDA o, i : Put(o, c.fields[i], c.values[i]), OrEmpty(node),
                  [i \in DOMAIN c.values |-> i]), Undefined)
JsonHDel(node, c) ==
    IF node = Undefined THEN NotFound(node)
    ELSE Done([f \in DOMAIN node \ {c.at} |-> node[f]], Undefined)
JsonHClean(node, c) == Done(Undefined, Undefined)
JsonLSet(node, c) ==
    IF node = Undefined THEN Throws(node)
    ELSE Done(IF c.at = Len(node) THEN Append(node, c.values[1])
              ELSE [node EXCEPT ![c.at + 1] = c.values[1]], Undefined)
JsonLPush(node, c) == Done(<<c.values[1]>> \o OrEmpty(node), Undefined)
JsonLPushX(node, c) == Done(c.values \o OrEmpty(node), Undefined)
JsonLPop(node, c) ==
    IF OrEmpty(node) = <<>> THEN NotFound(node) ELSE Done(Tail(node), Head(node))
JsonRPush(node, c) == Done(Append(OrEmpty(node), c.values[1]), Undefined)
JsonRPushX(node, c) == Done(OrEmpty(node) \o c.values, Undefined)
JsonRPop(node, c) ==
    IF OrEmpty(node) = <<>> THEN NotFound(node) ELSE Done(Front(node), Last(node))
JsonLInsert(node, c) ==
    IF node = Undefined THEN Throws(node)
    ELSE Done(InsertAt(node, c.at + 1, c.values[1]), Undefined)
JsonLRemove(node, c) ==
    IF node = Undefined THEN Throws(node)
    ELSE IF c.at + 1 \in DOMAIN node THEN Done(RemoveAt(node, c.at + 1), node[c.at + 1])
    ELSE Done(node, Undefined)

JsonHGet(node, f) == IF node = Undefined THEN Undefined ELSE Lookup(node, f)
JsonHExists(node, f) == JsonHGet(node, f) # Undefined
JsonHMGet(node, fields) == [i \in DOMAIN fields |-> JsonHGet(node, fields[i])]
JsonHLen(node) == IF node = Undefined THEN Undefined ELSE Cardinality(DOMAIN node)
JsonHKeys(node) == DOMAIN OrEmpty(node)
JsonHValues(node) == [f \in DOMAIN OrEmpty(node) |-> node[f]]
JsonLIndex(node, i) == IF node = Undefined THEN Undefined ELSE Lookup(node, i + 1)
JsonLLen(node) == IF node = Undefined THEN Undefined ELSE Len(node)
JsonLRange(node, start, stop) ==
    IF OrEmpty(node) = <<>> THEN <<>>
    ELSE SubSeq(node, RangeStart(Len(node), start) + 1, RangeStop(Len(node), stop) + 1)
=============================================================================
