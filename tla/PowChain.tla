------------------------------ MODULE PowChain ------------------------------
(***************************************************************************)
(* pow_chain/consensus.ts, block.ts and miner.ts: the difficulty that the  *)
(* headers of a POW chain carry, and what nodes with different best chains *)
(* make of it.  The numbers are those of the code with digits to the base  *)
(* Byte, so that a whole 256 bit target shrinks with it; a compact number  *)
(* is its exponent and its mantissa of three digits, the highest of which  *)
(* spends half of its values on the sign (targets are never negative).     *)
(***************************************************************************)
EXTENDS Integers, Sequences, FiniteSets

CONSTANTS
    Nodes,
    Byte,                   \* 256 in the code
    RetargetInterval, TargetTimespan, Limit,
    BasicBits,              \* what blocks carry at first, and instead of a target above Limit
    MaxHeaders, Steps       \* bound on the headers, and the times between a header and its parent

VARIABLES
    headers,    \* every header ever made: [parent, number, time, bits]; the first is the genesis
    known,      \* the headers a node has verified and saved
    executed,   \* those whose blocks it has verified too
    best        \* the end of the best chain of a node

powVars == <<headers, known, executed, best>>

-----------------------------------------------------------------------------
(* Targets and their compact form.                                          *)

ByteLength(n) == CHOOSE k \in 1..15 : Byte^(k - 1) <= n /\ n < Byte^k

FromCompact(c) ==
    IF c.exponent <= 3 THEN c.mantissa \div Byte^(3 - c.exponent)
    ELSE c.mantissa * Byte^(c.exponent - 3)

\* Mutant: a highest digit that would read as the sign stays.
ToCompactUnshifted(n) ==
    LET exponent == IF n = 0 THEN 0 ELSE ByteLength(n)
    IN  [exponent |-> exponent,
         mantissa |-> (IF exponent <= 3 THEN n * Byte^(3 - exponent) ELSE n \div Byte^(exponent - 3))
                        % (Byte^3 \div 2)]

ToCompact(n) ==
    LET exponent == IF n = 0 THEN 0 ELSE ByteLength(n)
        mantissa == IF exponent <= 3 THEN n * Byte^(3 - exponent) ELSE n \div Byte^(exponent - 3)
    IN  IF mantissa < Byte^3 \div 2 THEN [exponent |-> exponent, mantissa |-> mantissa]
        ELSE [exponent |-> exponent + 1, mantissa |-> mantissa \div Byte]

\* A timespan has a least value and no greatest one: what should be its upper
\* limit compares with a property that no options have (targetTimespa).
Timespan(actual) ==
    LET least == TargetTimespan \div 4 IN IF actual < least THEN least ELSE actual

Retarget(bits, actual) ==
    LET target == (FromCompact(bits) * Timespan(actual)) \div TargetTimespan
    IN  IF target > Limit THEN BasicBits ELSE ToCompact(target)

-----------------------------------------------------------------------------
(* Chains of headers.                                                       *)

\* A header and its ancestors.
Path(h) ==
    LET up[i \in DOMAIN headers] == {i} \cup IF headers[i].parent = 0 THEN {} ELSE up[headers[i].parent]
    IN  up[h]

At(path, number) == {h \in path : headers[h].number = number}
WindowStart(number) == number - (RetargetInterval - 1)

\* getTarget for a child of header pre, with the chain that getHeader(height) finds a
\* header in; without one at that height the ancestors of the child are asked.
GetTarget(chain, pre) ==
    LET number == headers[pre].number + 1
        start == WindowStart(number)
        found == At(IF At(chain, start) # {} THEN chain ELSE Path(pre), start)
        from == CHOOSE h \in found : TRUE
    IN  IF (number + 1) % RetargetInterval # 0 THEN headers[pre].bits
        ELSE Retarget(headers[pre].bits, headers[pre].time - headers[from].time)

BestChain(n) == Path(best[n])

Init ==
    /\ headers = <<[parent |-> 0, number |-> 0, time |-> 0, bits |-> BasicBits]>>
    /\ known = [n \in Nodes |-> {1}]
    /\ executed = [n \in Nodes |-> {1}]
    /\ best = [n \in Nodes |-> 1]

\* A miner extends its tip, unless there is no hash below the target (_mineBlock).
Mine(n) ==
    /\ Len(headers) < MaxHeaders
    /\ \E step \in Steps :
          LET bits == GetTarget(BestChain(n), best[n])
              header == [parent |-> best[n], number |-> headers[best[n]].number + 1,
                         time |-> headers[best[n]].time + step, bits |-> bits]
          IN  /\ FromCompact(bits) # 0
              /\ headers' = Append(headers, header)
    /\ known' = [known EXCEPT ![n] = @ \cup {Len(headers')}]
    /\ executed' = [executed EXCEPT ![n] = @ \cup {Len(headers')}]
    /\ best' = [best EXCEPT ![n] = Len(headers')]

\* PowBlockHeader.verify: the bits are those the node itself would have asked for, and
\* they make a target (verifyPOW).
Verify(n, h) ==
    /\ headers[h].bits = GetTarget(BestChain(n), headers[h].parent)
    /\ FromCompact(headers[h].bits) # 0

\* A header whose parent the node has arrives (_verifyAndSaveHeaders).
Receive(n) == \E h \in DOMAIN headers \ known[n] :
    /\ headers[h].parent \in known[n]
    /\ Verify(n, h)
    /\ known' = [known EXCEPT ![n] = @ \cup {h}]
    /\ UNCHANGED <<headers, executed, best>>

\* The higher of two chains is the best one, whatever its targets (_compareWork).
Longer(left, right) == headers[left].number > headers[right].number

\* The block of a header is verified after that of its parent.
AddVerifiedBlock(n) == \E h \in known[n] \ executed[n] :
    /\ headers[h].parent \in executed[n]
    /\ executed' = [executed EXCEPT ![n] = @ \cup {h}]
    /\ best' = [best EXCEPT ![n] = IF Longer(h, @) THEN h ELSE @]
    /\ UNCHANGED <<headers, known>>

Next == \E n \in Nodes : Mine(n) \/ Receive(n) \/ AddVerifiedBlock(n)
Spec == Init /\ [][Next]_powVars

-----------------------------------------------------------------------------
\* Two nodes ask the same target of a child of a header both know, and the target its miner
\* asks who has that header as tip, unless their best chains differ where the window of the
\* target starts: getTarget looks there by height (consensus.ts:169), so a branch made
\* before matters.
TargetsAgree == \A pre \in DOMAIN headers :
    LET start == WindowStart(headers[pre].number + 1)
    IN  \A n \in {k \in Nodes : pre \in known[k]} :
            At(BestChain(n), start) \subseteq Path(pre)
                => GetTarget(BestChain(n), pre) = GetTarget(Path(pre), pre)

\* No header is easier than Limit, and none more than four times as hard as its parent but
\* for the digits a compact number drops.
TargetsBounded == \A h \in DOMAIN headers :
    LET target == FromCompact(headers[h].bits)
    IN  /\ target <= Limit
        /\ headers[h].parent # 0 =>
              LET least == FromCompact(headers[headers[h].parent].bits) \div 4
              IN  headers[h].bits = BasicBits \/ target >= FromCompact(ToCompact(least))

\* What bits go through on their way: a target read back from its compact form is the
\* target without its lowest digits, and written again the same compact number.
CompactKept == \A h \in DOMAIN headers : ToCompact(FromCompact(headers[h].bits)) = headers[h].bits

\* The difficulty of a block: the same for every node that may ask, within bounds, and
\* the same again after it was encoded.
DifficultyAgreed == TargetsAgree /\ TargetsBounded /\ CompactKept
=============================================================================
