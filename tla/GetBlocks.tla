----------------------------- MODULE GetBlocks -----------------------------
(* The serving side of a getblocks request: onGetBlocksRequest of          *)
(* connection.go on a node whose chain holds the blocks 0..height-1.       *)
(* The chain grows between requests; each request is answered from the     *)
(* chain as it is when the request is served.                              *)
EXTENDS Naturals, Sequences

CONSTANTS
    NetworkBlocksPerRequest, \* defaults.NetworkBlocksPerRequest
    Width,          \* bits of the uint32 indexes, reduced so TLC's integers hold them
    MaxIndex,       \* largest FromIndex / ToIndex a request carries
    MaxHeight,      \* largest chain the serving node reaches
    EmptyBlock      \* the zero SerializedBlock that make() fills a slice with

ASSUME NetworkBlocksPerRequest \in Nat \ {0}
ASSUME Width \in Nat /\ MaxIndex + NetworkBlocksPerRequest < 2^Width
ASSUME MaxHeight \in Nat

VARIABLES
    height,         \* blocks the serving node holds: GetBlock(i) # nil iff i < height
    request,        \* the last request served: from, to and the height it saw
    response        \* packetGetBlocksResponse.Blocks of that request

vars == <<height, request, response>>

Index == 0..MaxIndex

\* Arithmetic on uint32.
U32(x) == x % 2^Width

\* blockchain.GetBlock(index) returns a block.
HasBlock(index, h) == index < h

\* The loop of onGetBlocksRequest: from index up to to, inclusive, each
\* block the chain holds is appended; the first missing one ends the loop.
RECURSIVE CollectBlocks(_, _, _, _)
CollectBlocks(index, to, h, acc) ==
    IF index <= to /\ HasBlock(index, h)
    THEN CollectBlocks(U32(index + 1), to, h, Append(acc, index))
    ELSE acc

\* Mutant of onGetBlocksRequest: the swap of a reversed range is missing.
onGetBlocksRequestNoSwap(from, to, h) ==
    LET total == IF U32(to - from) > NetworkBlocksPerRequest
                 THEN NetworkBlocksPerRequest ELSE U32(to - from)
    IN CollectBlocks(from, U32(from + total), h,
                     [i \in 1..total |-> EmptyBlock])

\* onGetBlocksRequest: a reversed range is swapped, the span is clamped to
\* NetworkBlocksPerRequest, the slice is made with length total (total
\* zero blocks) and the loop appends to it.
onGetBlocksRequest(from, to, h) ==
    LET lo == IF from > to THEN to ELSE from
        hi == IF from > to THEN from ELSE to
        total == IF U32(hi - lo) > NetworkBlocksPerRequest
                 THEN NetworkBlocksPerRequest ELSE U32(hi - lo)
    IN CollectBlocks(lo, U32(lo + total), h, [i \in 1..total |-> EmptyBlock])

\* A remote asks for the blocks from..to and gets the response.
Serve(from, to) ==
    /\ request' = [from |-> from, to |-> to, height |-> height]
    /\ response' = onGetBlocksRequest(from, to, height)
    /\ UNCHANGED height

\* The serving node appends a block to its chain.
AddBlock ==
    /\ height < MaxHeight
    /\ height' = height + 1
    /\ UNCHANGED <<request, response>>

Init ==
    /\ height = 0
    /\ request = [from |-> 0, to |-> 0, height |-> 0]
    /\ response = << >>

Next ==
    \/ \E from, to \in Index : Serve(from, to)
    \/ AddBlock

Spec == Init /\ [][Next]_vars

-----------------------------------------------------------------------------
(* Properties                                                             *)

\* The entries of a response that are blocks of the chain.
RealBlocks(seq) == SelectSeq(seq, LAMBDA b : b # EmptyBlock)

\* The real blocks of a response are the chain's blocks lo, lo+1, ... in
\* order, none outside the requested range [min(from,to), max(from,to)]
\* or the chain, and none missing from the first NetworkBlocksPerRequest
\* of them: the swap, the uint32 span, the clamp and the inclusive loop
\* of onGetBlocksRequest together.
BlocksFromRequestedRange ==
    LET lo == IF request.from > request.to THEN request.to ELSE request.from
        hi == IF request.from > request.to THEN request.from ELSE request.to
        real == RealBlocks(response)
    IN /\ \A i \in DOMAIN real : real[i] = lo + i - 1
       /\ \A i \in DOMAIN real : real[i] <= hi /\ HasBlock(real[i], request.height)
       /\ \A b \in lo..hi :
             (b < lo + NetworkBlocksPerRequest /\ HasBlock(b, request.height))
                 => \E i \in DOMAIN real : real[i] = b

\* Spec (section 8, end-to-end scenario 2): a getblocks response carries at most
\* NetworkBlocksPerRequest blocks, all of which decode.
ResponseWithinLimit ==
    Len(response) <= NetworkBlocksPerRequest

=============================================================================
