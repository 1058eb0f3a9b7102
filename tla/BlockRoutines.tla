---------------------------- MODULE BlockRoutines ----------------------------
(***************************************************************************)
(* chain/miner.ts, pow_chain/miner.ts, chain/chain.ts (verifyBlock), the   *)
(* two kinds of routines that execute a block, in this process or in a     *)
(* child (inprocess_routine.ts, interprocess_routine.ts), and the one      *)
(* worker that looks for a hash (lib/workpool.ts).  Each tip starts a      *)
(* routine that takes the miner over from the one before it; routines that *)
(* verify run beside them.  Every routine has a storage file of its own.   *)
(***************************************************************************)
EXTENDS Integers

CONSTANTS
    Mining, Verifying,  \* names of routines
    MaxFaults,          \* bound on the steps that fail
    Null

\* Routines are told apart by a hash and a time; what is not there is none of them.
ASSUME Names ==
    /\ Mining \cap Verifying = {}
    /\ Null \notin Mining
    /\ Null \notin [name : Mining, killed : BOOLEAN]
    /\ Null \notin [name : Mining, routine : Mining \cup {Null}]

VARIABLES
    inChild,    \* which kind of routines the node is configured with
    state,      \* of the miner
    context,    \* its m_stateContext, [name, routine], or Null
    run,        \* of each routine: where its promise is, whether it was canceled, its child, its file
    slot,       \* the worker of the pool, [name, killed], or Null
    taken,      \* the routines that lost the miner before they were done with it
    faults

routineVars == <<inChild, state, context, run, slot, taken, faults>>

Routines == Mining \cup Verifying

RoutinesInit ==
    /\ inChild \in BOOLEAN
    /\ state = "idle"
    /\ context = Null
    /\ run = [r \in Routines |-> [at |-> "none", canceled |-> FALSE, child |-> "none", file |-> "none"]]
    /\ slot = Null
    /\ taken = {}
    /\ faults = 0

Fails == faults < MaxFaults /\ faults' = faults + 1
Works == UNCHANGED faults
Goes(r, place) == run' = [run EXCEPT ![r].at = place]

-----------------------------------------------------------------------------
(* Who holds the miner.                                                     *)

\* Mutant: whoever holds the miner now.
CheckCancelAnybody(r) == state = "idle"
CheckCancel(r) == IF state = "idle" THEN TRUE ELSE context.name # r

SetIdle(r) ==
    IF r \in Verifying \/ CheckCancel(r) THEN UNCHANGED <<state, context>>
    ELSE state' = "idle" /\ context' = Null

\* cancel of a routine: one that has not begun never will, one that runs is marked, and its
\* child killed, unless it has sent its result already.
Canceled(x) ==
    CASE x.at = "created" -> [x EXCEPT !.at = "refused"]
      [] x.at \in {"closing", "running"} ->
            [x EXCEPT !.canceled = TRUE, !.child = IF @ \in {"forked", "open"} THEN "killed" ELSE @]
      [] OTHER -> x

\* _createExecuteRoutine until it waits for a storage; _onCancel stops what the context names.
TakeOver(r) ==
    /\ run[r].at = "none"
    /\ run' = [q \in Routines |->
                IF q = r THEN [run[r] EXCEPT !.at = "creating"]
                ELSE IF state = "executing" /\ context.routine = q THEN Canceled(run[q]) ELSE run[q]]
    /\ slot' = IF state = "mining" /\ slot # Null THEN [slot EXCEPT !.killed = TRUE] ELSE slot
    /\ taken' = IF state = "idle" THEN taken ELSE taken \cup {context.name}
    /\ state' = "executing"
    /\ context' = [name |-> r, routine |-> Null]
    /\ UNCHANGED <<inChild, faults>>

VerifyBlock(r) ==
    /\ run[r].at = "none"
    /\ Goes(r, "creating")
    /\ UNCHANGED <<inChild, state, context, slot, taken, faults>>

\* The storage is there.  The routine is noted in the context of whoever holds the miner by
\* now, and if nobody does, that throws and leaves the file behind.
StorageCreated(r) ==
    /\ run[r].at = "creating"
    /\ \/ /\ Fails /\ SetIdle(r)
          /\ Goes(r, "failed")
       \/ /\ Works /\ UNCHANGED state
          /\ IF r \in Mining /\ context = Null
             THEN run' = [run EXCEPT ![r].at = "thrown", ![r].file = "open"] /\ UNCHANGED context
             ELSE /\ run' = [run EXCEPT ![r].at = "created", ![r].file = "open"]
                  /\ context' = IF r \in Mining THEN [context EXCEPT !.routine = r] ELSE context
    /\ UNCHANGED <<inChild, slot, taken>>

\* What ends a routine with an error: the miner is given back, the file removed.
GiveUp(r) ==
    /\ SetIdle(r)
    /\ run' = [run EXCEPT ![r].at = "failed", ![r].file = "removed", ![r].child = IF @ = "sent" THEN "none" ELSE @]

-----------------------------------------------------------------------------
(* Execution.                                                               *)

\* execute and verify of a routine in this process, and of one with a child; a routine that
\* was canceled before ends at once.
Begin(r, place) ==
    \/ run[r].at = "refused" /\ GiveUp(r)
    \/ run[r].at = "created" /\ Goes(r, place) /\ UNCHANGED <<state, context>>

Execute(r) == ~inChild /\ Begin(r, "running") /\ UNCHANGED <<inChild, slot, taken, faults>>
ExecuteOrVerify(r) == inChild /\ Begin(r, "closing") /\ UNCHANGED <<inChild, slot, taken, faults>>

\* WorkerProxy.run: the storage is closed here before the child opens it.  No child if the
\* parameters cannot be written, or when it cannot be spawned.
Fork(r) ==
    /\ run[r].at = "closing"
    /\ \/ Fails /\ GiveUp(r)
       \/ /\ Works
          /\ run' = [run EXCEPT ![r].at = "running", ![r].child = "forked", ![r].file = "closed"]
          /\ UNCHANGED <<state, context>>
    /\ UNCHANGED <<inChild, slot, taken>>

\* The child opens the storage (decodeParams), and closes it before it sends its result, also
\* one that tells an error; it may die on the way.
ChildStep(r) ==
    /\ \/ /\ run[r].child = "forked" /\ Works
          /\ \E next \in {"open", "sent"} : run' = [run EXCEPT ![r].child = next]
       \/ run[r].child = "open" /\ Works /\ run' = [run EXCEPT ![r].child = "sent"]
       \/ run[r].child \in {"forked", "open"} /\ Fails /\ run' = [run EXCEPT ![r].child = "killed"]
    /\ UNCHANGED <<inChild, state, context, slot, taken>>

\* What next() does with an answer: a routine that was canceled or lost the miner gives up, the
\* holder goes on to mine, a verified block gets its snapshot.
Answered(r) ==
    /\ \/ /\ run[r].canceled \/ (r \in Mining /\ CheckCancel(r))
          /\ Works /\ GiveUp(r)
       \/ Fails /\ GiveUp(r)
       \/ /\ Works /\ ~run[r].canceled
          /\ r \in Mining => ~CheckCancel(r)
          /\ run' = [run EXCEPT ![r].at = IF r \in Mining THEN "target" ELSE "dumping", ![r].child = "none"]
          /\ state' = IF r \in Mining THEN "mining" ELSE state
          /\ context' = IF r \in Mining THEN [context EXCEPT !.routine = Null] ELSE context
    /\ UNCHANGED <<inChild, slot, taken>>

\* The block is executed in this process.
Executed(r) == run[r].at = "running" /\ ~inChild /\ Answered(r)
\* The message of the child is there; none comes of a child that was killed.
Message(r) == run[r].at = "running" /\ run[r].child = "sent" /\ Answered(r)

-----------------------------------------------------------------------------
(* Mining.                                                                  *)

\* _mineBlock of a POW miner knows the target and hands the header to the pool, also when
\* another routine holds the miner by now; what push returns without a free worker is
\* not looked at, so the routine waits for an answer nobody owes it.
Push(r) ==
    /\ run[r].at = "target"
    /\ \/ Fails /\ GiveUp(r) /\ UNCHANGED slot
       \/ /\ Works
          /\ Goes(r, IF slot = Null THEN "mining" ELSE "unserved")
          /\ slot' = IF slot = Null THEN [name |-> r, killed |-> FALSE] ELSE slot
          /\ UNCHANGED <<state, context>>
    /\ UNCHANGED <<inChild, taken>>

\* The worker exits, with a hash or without; one that is stopped may have been ready.
WorkerExits ==
    /\ slot # Null
    /\ LET r == slot.name
       IN  \/ /\ slot.killed \/ CheckCancel(r)
              /\ Works /\ GiveUp(r)
           \/ Fails /\ GiveUp(r)
           \/ Works /\ ~CheckCancel(r) /\ SetIdle(r) /\ Goes(r, "dumping")
    /\ slot' = Null
    /\ UNCHANGED <<inChild, taken>>

\* createSnapshot; the miner's file is removed after it, that of a verified block is not.
Dumped(r) ==
    /\ run[r].at = "dumping"
    /\ \/ Fails /\ run' = [run EXCEPT ![r].at = "failed", ![r].file = IF r \in Verifying THEN "removed" ELSE @]
       \/ Works /\ run' = [run EXCEPT ![r].at = "added", ![r].file = IF r \in Mining THEN "removed" ELSE @]
    /\ UNCHANGED <<inChild, state, context, slot, taken>>

RoutinesNext ==
    \/ \E r \in Mining : TakeOver(r) \/ Push(r)
    \/ \E r \in Verifying : VerifyBlock(r)
    \/ \E r \in Routines :
          \/ StorageCreated(r) \/ Dumped(r)
          \/ Execute(r) \/ Executed(r)
          \/ ExecuteOrVerify(r) \/ Fork(r) \/ ChildStep(r) \/ Message(r)
    \/ WorkerExits

RoutinesSpec == RoutinesInit /\ [][RoutinesNext]_routineVars

-----------------------------------------------------------------------------
\* A block comes only of a routine that held the miner from its start until its hash was found.
MinedUndisturbed == \A r \in Mining : run[r].at \in {"dumping", "added"} => r \notin taken

\* Whom the miner's state names is at work and was not canceled, also when a late routine of
\* another tip noted itself in its context; a worker works for whoever waits for it.
HolderWorks ==
    /\ state # "idle" =>
          /\ ~run[context.name].canceled
          /\ run[context.name].at \in IF state = "executing" THEN {"creating", "created", "closing", "running"}
                                      ELSE {"target", "mining", "unserved"}
    /\ \A r \in Mining : run[r].at = "mining" <=> slot # Null /\ slot.name = r

\* A child has a storage open only while this process has closed it and keeps its file.
OneProcess == \A r \in Routines : run[r].child \in {"forked", "open", "sent"} => run[r].file = "closed"

\* Routines of several tips at once do not disturb each other.
RoutinesSettle == MinedUndisturbed /\ HolderWorks /\ OneProcess
=============================================================================
