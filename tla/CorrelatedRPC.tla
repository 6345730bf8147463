---------------------------- MODULE CorrelatedRPC ----------------------------
(* What the protocol engine promises of send_request (spec 4.D and the     *)
(* Correlated RPC property of spec 8), per connection: request ids are     *)
(* allocated in increasing order, and every request issued is completed    *)
(* exactly once, by its response, a timeout or the close.  One step may   *)
(* issue requests on several connections, as a broadcast does.             *)
EXTENDS Naturals

CONSTANTS
    Conns,      \* connections
    Ids         \* the request ids a behaviour may allocate

VARIABLES
    issued,     \* issued[c]: the ids 1..issued[c] have been allocated on c
    open        \* open[c]: the ids of c whose callback has not run yet

vars == <<issued, open>>

Init ==
    /\ issued = [c \in Conns |-> 0]
    /\ open = [c \in Conns |-> {}]

\* send_request on each connection of C: a fresh id, one above the last.
SendRequest(C) ==
    /\ C # {}
    /\ issued' = [c \in Conns |-> IF c \in C THEN issued[c] + 1 ELSE issued[c]]
    /\ open' = [c \in Conns |-> IF c \in C THEN open[c] \cup {issued[c] + 1} ELSE open[c]]

\* The callback of request i of c runs, and the request is forgotten.
Complete(c, i) ==
    /\ i \in open[c]
    /\ open' = [open EXCEPT ![c] = @ \ {i}]
    /\ UNCHANGED issued

Next ==
    \/ \E C \in SUBSET Conns : SendRequest(C)
    \/ \E c \in Conns, i \in Ids : Complete(c, i)

\* No request stays open for ever: the response or the timer completes it.
Spec ==
    /\ Init /\ [][Next]_vars
    /\ \A c \in Conns, i \in Ids : WF_vars(Complete(c, i))

=============================================================================
