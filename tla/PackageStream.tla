---------------------------- MODULE PackageStream ----------------------------
(***************************************************************************)
(* net/writer.ts, net/reader.ts, the queue of writers of net/node.ts and   *)
(* net_tcp/connection.ts: packages go through one direction of a           *)
(* connection.  A byte is the package it belongs to and its place in it.   *)
(***************************************************************************)
EXTENDS Integers, Sequences, SequencesExt

CONSTANTS
    HeaderLength,
    Packages    \* the lengths of the packages that are sent: a sequence of [body, data]

ASSUME StreamAssumption ==
    HeaderLength \in Nat \ {0} /\ Packages \in Seq([body : Nat, data : Nat])

VARIABLES
    added,      \* the packages handed to addPendingWriter are 1 .. added
    writers,    \* m_pendingWriters: of each its buffers not yet sent; the first one is bound
    blocked,    \* m_pending of the TcpConnection: its socket has not drained
    wire,       \* bytes on their way
    reader,     \* m_stateInfo, and the packages emitted
    closed

streamVars == <<added, writers, blocked, wire, reader, closed>>

StreamInit ==
    /\ added = 0
    /\ writers = <<>>
    /\ blocked = FALSE
    /\ wire = <<>>
    /\ reader = [state |-> "header", package |-> <<>>, pending |-> <<>>, emitted |-> <<>>]
    /\ closed = FALSE

-----------------------------------------------------------------------------
(* Writing.                                                                 *)

Bytes(p, from, length) == [i \in 1 .. length |-> <<p, from + i>>]

TotalLength(p) == HeaderLength + Packages[p].body + Packages[p].data

\* writeData: an empty part makes no buffer.
WriteData(p, from, length) == IF length = 0 THEN <<>> ELSE <<Bytes(p, from, length)>>

FromPackage(p) ==
    LET body == Packages[p].body
    IN  WriteData(p, 0, HeaderLength) \o WriteData(p, HeaderLength, body)
            \o WriteData(p, HeaderLength + body, Packages[p].data)

\* Mutant: what was sent is not spliced off, and is sent again after a drain.
UnsentWithoutSplice(buffers, sent) == IF sent < Len(buffers) THEN buffers ELSE <<>>
Unsent(buffers, sent) == SubSeq(buffers, sent + 1, Len(buffers))

Sent(w, buffers) == FoldLeft(LAMBDA v, b : v \o b, w, buffers)

\* _doSend of the first of ws: buffers go whole to the socket until one fills it.  The socket
\* is full if a buffer is left, and may be so if none is.
DoSend(ws, full) ==
    IF ws = <<>> \/ Head(ws) = <<>> THEN writers' = ws /\ wire' = wire /\ blocked' = full
    ELSE \E sent \in (IF full THEN {0} ELSE 1 .. Len(Head(ws))) :
            /\ wire' = Sent(wire, SubSeq(Head(ws), 1, sent))
            /\ writers' = <<Unsent(Head(ws), sent)>> \o Tail(ws)
            /\ blocked' \in (IF sent < Len(Head(ws)) THEN {TRUE} ELSE BOOLEAN)

AddPendingWriter ==
    /\ ~closed /\ added < Len(Packages)
    /\ added' = added + 1
    /\ LET ws == Append(writers, FromPackage(added'))
       IN  IF writers = <<>> THEN DoSend(ws, blocked) ELSE writers' = ws /\ UNCHANGED <<wire, blocked>>
    /\ UNCHANGED <<reader, closed>>

Drain ==
    /\ ~closed /\ blocked
    /\ DoSend(writers, FALSE)
    /\ UNCHANGED <<added, reader, closed>>

\* 'finish' of the bound writer: the next one is bound.
OnFinish ==
    /\ writers # <<>> /\ Head(writers) = <<>>
    /\ DoSend(Tail(writers), blocked)
    /\ UNCHANGED <<added, reader, closed>>

\* What the socket has taken is still sent.
Close ==
    /\ ~closed
    /\ closed' = TRUE
    /\ writers' = <<>>
    /\ UNCHANGED <<added, blocked, wire, reader>>

-----------------------------------------------------------------------------
(* Reading.                                                                 *)

\* _popPending, if the bytes are there; they join the package.
PopPending(r, length, next) ==
    IF length > Len(r.pending) THEN r
    ELSE [r EXCEPT !.state = next, !.package = @ \o SubSeq(r.pending, 1, length),
                   !.pending = SubSeq(@, length + 1, Len(@))]

\* The lengths of the package, from its header.
Lengths(r) == Packages[Head(r.package)[1]]

Emit(r) == [r EXCEPT !.package = <<>>, !.emitted = Append(@, r.package)]

\* One state of the reader's loop; without enough bytes nothing changes.
Stage(r) ==
    CASE r.state = "header" -> PopPending(r, HeaderLength, "body")
      [] r.state = "body" -> PopPending(r, Lengths(r).body, "data")
      [] r.state = "data" -> LET s == PopPending(r, Lengths(r).data, "header")
                             IN  IF s = r THEN r ELSE Emit(s)

\* Mutant: a call of the listener reads one package at most.
ReadOnce(r) == Stage(Stage(Stage(r)))
\* The loop: more turns than there are bytes change nothing.
Read(r) == FoldLeft(LAMBDA s, i : Stage(s), r, [i \in 1 .. 3 * Len(r.pending) |-> i])

\* A piece of any length arrives.
OnData ==
    /\ \E length \in 1 .. Len(wire) :
          /\ reader' = Read([reader EXCEPT !.pending = @ \o SubSeq(wire, 1, length)])
          /\ wire' = SubSeq(wire, length + 1, Len(wire))
    /\ UNCHANGED <<added, writers, blocked, closed>>

StreamNext == AddPendingWriter \/ Drain \/ OnFinish \/ Close \/ OnData
StreamSpec == StreamInit /\ [][StreamNext]_streamVars

-----------------------------------------------------------------------------
\* However the bytes are cut into buffers and pieces and whenever the socket is full, the
\* packages come out whole and in the order in which they were added.  None is left behind:
\* a writer with something to send waits for the socket, and when nothing is on its way all
\* packages have come out.
PackagesInOrder ==
    /\ Len(reader.emitted) <= added
    /\ \A p \in DOMAIN reader.emitted : reader.emitted[p] = Bytes(p, 0, TotalLength(p))
    /\ writers # <<>> /\ Head(writers) # <<>> => blocked
    /\ writers = <<>> /\ wire = <<>> /\ ~closed => Len(reader.emitted) = added
=============================================================================
