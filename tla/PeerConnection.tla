--------------------------- MODULE PeerConnection ---------------------------
(***************************************************************************)
(* The peer connections of a PASL node (src/network/pasl/connection.go)    *)
(* together with the two collaborators they talk to:                       *)
(*   - the framed protocol engine that owns each connection's pending-      *)
(*     request map and dispatches frames to the connection's handlers on   *)
(*     the connection's reader goroutine (protocol.go is not part of the   *)
(*     sources; it is modelled from the spec, section 4.D);                *)
(*   - the node orchestrator, a single goroutine that selects over the     *)
(*     event channels onStateUpdate, onNewBlock, downloadingDone and       *)
(*     closed (not part of the sources; modelled from spec section 4.F).   *)
(*                                                                         *)
(* Each connection's reader goroutine runs one handler at a time; a        *)
(* handler that sends on a full channel blocks the reader in rpc[c].       *)
(* PascalConnection.stateLock is locked[c]: SetState takes it for writing  *)
(* and, because the deferred channel send runs before the deferred         *)
(* Unlock, keeps it while blocked on onStateUpdate.  The orchestrator's    *)
(* GetState takes it for reading.                                          *)
(***************************************************************************)
EXTENDS Naturals, Sequences, SequencesExt, FiniteSets

CONSTANTS
    Peers,        \* the node's connections, one per remote peer
    Outgoing,     \* the connections this node dialled: OnOpen(isOutgoing = TRUE)
    Loopbacks,    \* the connections whose remote is this node: its hello carries our nonce
    Heights,      \* block indices a remote peer may announce in its hello
    ChanCap,      \* capacity of each orchestrator event channel
    MaxHellos,    \* hellos a remote peer sends on one connection, its answer to ours included
    MaxNotifies,  \* notifications (newblock, newoperations) the remote of each connection sends
    MaxRequests,  \* request ids a connection allocates (bound on nextId)
    MaxItems,     \* entries of a list a packet carries: the blocks of a getblocks
                  \* response, the peers of a hello, the operations of a notification
    NoState,      \* PascalConnection.state before the first SetState (nil)
    NoPeer        \* the orchestrator is not downloading from any peer

ASSUME
    /\ Outgoing \subseteq Peers /\ Loopbacks \subseteq Peers
    /\ Heights \subseteq Nat \ {0}
    /\ ChanCap \in Nat \ {0}
    /\ MaxHellos \in Nat
    /\ MaxNotifies \in [Peers -> Nat]
    /\ MaxRequests \in Nat \ {0}
    /\ MaxItems \in Nat
    /\ NoState \notin Nat
    /\ NoPeer \notin Peers

VARIABLES
    \* --- per connection, connection.go and the engine ---
    status,       \* "new", "open", "closing", "closed"
    connState,    \* PascalConnection.state: NoState or the recorded height
    locked,       \* stateLock held for writing by SetState
    rpc,          \* where the reader goroutine is: "idle", "sendUpdate" (SetState),
                  \* "sendPeers" (the peers loop of onHelloCommon), "sendBlocks",
                  \* "sendDone" (download callback), "sendNewBlock", "sendOps" (notifications)
    eventsLeft,   \* events the current handler still has to send on a channel
    pending,      \* the engine's pending-request map: a set of [id, kind]
    nextId,       \* the engine's next request id
    timedOut,     \* ids whose callback ran with nil and whose late answer may still arrive
    hellosIn,     \* hello requests the remote has sent (answers to ours not counted)
    notifiesIn,   \* newblock notifications the remote has sent
    announced,    \* heights carried by hellos actually received from the remote
    \* --- the orchestrator's channels and goroutine (spec 4.F) ---
    stateUpdates, \* onStateUpdate
    newBlocks,    \* onNewBlock: records [from, broadcast]
    peerUpdates,  \* peerUpdates: how many address hints it holds (their content is not used)
    newOps,       \* onNewOperation: the connection each operation event came from
    doneCh,       \* downloadingDone: the peer whose download finished
    closedCh,     \* closed
    orch,         \* [pc |-> "idle"] or [pc |-> "getState", conn |-> c]
    downloading,  \* the peer a download was started from, or NoPeer
    roster        \* peers the orchestrator has not removed

connVars == <<status, connState, locked, rpc, eventsLeft,
              pending, nextId, timedOut, hellosIn, notifiesIn, announced>>
orchVars == <<stateUpdates, newBlocks, peerUpdates, newOps, doneCh, closedCh, orch, downloading, roster>>
vars == <<connVars, orchVars>>

Ids == 1..MaxRequests
Kinds == {"hello", "getblocks", "broadcast"}
Request == [id : Ids, kind : Kinds]

\* A send on a Go channel of capacity ChanCap that is not full.
CanSend(ch) == Len(ch) < ChanCap

\* The hello packet Deserialize produces from an empty payload: every read
\* fails and is ignored (serialize.go Deserialize), so Block.Index is 0 and
\* the nonce is empty, never equal to ours.
ZeroHelloIndex == 0

-----------------------------------------------------------------------------
(* Connection side: connection.go                                         *)

\* OnOpen: the handlers are registered; an outgoing connection sends its
\* hello as a request whose callback is onHelloCommon.
OnOpen(c) ==
    /\ status[c] = "new"
    /\ status' = [status EXCEPT ![c] = "open"]
    /\ IF c \in Outgoing
       THEN /\ pending' = [pending EXCEPT ![c] = @ \cup {[id |-> nextId[c], kind |-> "hello"]}]
            /\ nextId' = [nextId EXCEPT ![c] = @ + 1]
       ELSE UNCHANGED <<pending, nextId>>
    /\ UNCHANGED <<connState, locked, rpc, eventsLeft, timedOut, hellosIn, notifiesIn, announced>>
    /\ UNCHANGED orchVars

\* SetState up to its deferred send: take the write lock, record the state.
\* The reader then blocks in "sendUpdate" until onStateUpdate has room.
SetState(c, h) ==
    /\ ~locked[c]
    /\ locked' = [locked EXCEPT ![c] = TRUE]
    /\ connState' = [connState EXCEPT ![c] = h]
    /\ rpc' = [rpc EXCEPT ![c] = "sendUpdate"]

\* onHelloCommon on a decoded hello whose block index is h and which lists
\* np peers.  A hello with our own nonce is a loopback: the error it
\* returns is a protocol error and the engine closes the connection.
\* Otherwise SetState, then one blocking send on peerUpdates per peer.
onHelloCommon(c, h, isLoop, np) ==
    IF isLoop
    THEN /\ status' = [status EXCEPT ![c] = "closing"]
         /\ UNCHANGED <<connState, locked, rpc, eventsLeft>>
    ELSE /\ SetState(c, h)
         /\ eventsLeft' = [eventsLeft EXCEPT ![c] = np]
         /\ UNCHANGED status

\* The remote's hello request reaches onHelloRequest, which runs
\* onHelloCommon and, when it succeeds, answers with our hello.
onHelloRequest(c) ==
    /\ status[c] = "open" /\ rpc[c] = "idle"
    /\ hellosIn[c] + (IF c \in Outgoing THEN 1 ELSE 0) < MaxHellos
    /\ \E h \in Heights, np \in 0..MaxItems :
        /\ hellosIn' = [hellosIn EXCEPT ![c] = @ + 1]
        /\ announced' = [announced EXCEPT ![c] = @ \cup {h}]
        /\ onHelloCommon(c, h, c \in Loopbacks, np)
    /\ UNCHANGED <<pending, nextId,
                   timedOut, notifiesIn>>
    /\ UNCHANGED orchVars

\* The engine pops request r from the pending map to run its callback.
Resolve(c, r) ==
    /\ pending' = [pending EXCEPT ![c] = @ \ {r}]

\* Mutant of onGetBlocksResponse: an inclusive loop bound (i <= n), one
\* block event too many.
onGetBlocksResponseInclusive(c, n) ==
    /\ eventsLeft' = [eventsLeft EXCEPT ![c] = n + 1]
    /\ rpc' = [rpc EXCEPT ![c] = "sendBlocks"]

\* Mutant of onGetBlocksResponse: downloadingDone sent before the loop
\* instead of deferred.
onGetBlocksResponseDoneFirst(c, n) ==
    /\ eventsLeft' = [eventsLeft EXCEPT ![c] = n]
    /\ rpc' = [rpc EXCEPT ![c] = "sendDone"]

\* The onSuccess callback of StartBlocksDownloading with a response of n
\* blocks: each goes to onNewBlock (shouldBroadcast = FALSE), and the
\* deferred send on downloadingDone comes last.
onGetBlocksResponse(c, n) ==
    /\ eventsLeft' = [eventsLeft EXCEPT ![c] = n]
    /\ rpc' = [rpc EXCEPT ![c] = IF n > 0 THEN "sendBlocks" ELSE "sendDone"]

\* A response frame matching a pending request: its callback runs.
OnResponse(c) ==
    /\ status[c] = "open" /\ rpc[c] = "idle"
    /\ \E r \in pending[c] :
        /\ Resolve(c, r)
        /\ \/ /\ r.kind = "hello"
              /\ \E h \in Heights, np \in 0..MaxItems :
                  /\ announced' = [announced EXCEPT ![c] = @ \cup {h}]
                  /\ onHelloCommon(c, h, c \in Loopbacks, np)
           \/ /\ r.kind = "getblocks"
              /\ \E n \in 0..MaxItems : onGetBlocksResponse(c, n)
              /\ UNCHANGED <<status, connState, locked, announced>>
           \/ /\ r.kind = "broadcast"
              /\ UNCHANGED <<status, connState, locked, rpc, eventsLeft, announced>>
    /\ UNCHANGED <<nextId, timedOut, hellosIn, notifiesIn>>
    /\ UNCHANGED orchVars

\* Mutant of NilCallback: onSuccess checks the nil response before it
\* defers the done signal, so a failed download never reports done.
NilCallbackNoDone(c, r) ==
    CASE r.kind = "hello" ->
            SetState(c, ZeroHelloIndex) /\ UNCHANGED eventsLeft
      [] r.kind # "hello" ->
            UNCHANGED <<connState, locked, rpc, eventsLeft>>

\* The callback of request r run with a nil response and an empty
\* payload: onHelloCommon decodes the zero hello and calls SetState;
\* onSuccess returns its error, its deferred done signal still due; a
\* broadcast has no callback.
NilCallback(c, r) ==
    CASE r.kind = "hello" ->
            SetState(c, ZeroHelloIndex) /\ UNCHANGED eventsLeft
      [] r.kind = "getblocks" ->
            onGetBlocksResponse(c, 0) /\ UNCHANGED <<connState, locked>>
      [] r.kind = "broadcast" ->
            UNCHANGED <<connState, locked, rpc, eventsLeft>>

\* Mutant of OnNoResponse: no timer, only a closing connection cancels
\* its pending requests.
OnNoResponseCloseOnly(c) ==
    /\ status[c] \in {"closing", "closed"} /\ rpc[c] = "idle"
    /\ \E r \in pending[c] :
        /\ Resolve(c, r)
        /\ UNCHANGED timedOut
        /\ NilCallback(c, r)
    /\ UNCHANGED <<status, nextId, hellosIn, notifiesIn, announced>>
    /\ UNCHANGED orchVars

\* Mutant of OnNoResponse: only the timer of an open connection runs the
\* callbacks; closing the connection does not cancel them.
OnNoResponseTimerOnly(c) ==
    /\ status[c] = "open" /\ rpc[c] = "idle"
    /\ \E r \in pending[c] :
        /\ Resolve(c, r)
        /\ timedOut' = [timedOut EXCEPT ![c] = @ \cup {r.id}]
        /\ NilCallback(c, r)
    /\ UNCHANGED <<status, nextId, hellosIn, notifiesIn, announced>>
    /\ UNCHANGED orchVars

\* No response in time (status "open"), or the connection is closing or
\* already closed (a request issued on a closed connection gets no
\* answer): the engine runs the callback with a nil response and an
\* empty payload.  onHelloCommon does not look at the response: it
\* decodes the zero hello and calls SetState.  onSuccess returns its error
\* and its deferred send on downloadingDone still runs.
OnNoResponse(c) ==
    /\ status[c] # "new" /\ rpc[c] = "idle"
    /\ \E r \in pending[c] :
        /\ Resolve(c, r)
        /\ timedOut' = [timedOut EXCEPT ![c] =
                           IF status[c] = "open" THEN @ \cup {r.id} ELSE @]
        /\ NilCallback(c, r)
    /\ UNCHANGED <<status, nextId, hellosIn, notifiesIn, announced>>
    /\ UNCHANGED orchVars

\* The answer to a request that already timed out: no pending entry
\* matches, which the engine treats as a protocol error.
OnUnmatchedResponse(c) ==
    /\ status[c] = "open" /\ rpc[c] = "idle"
    /\ \E i \in timedOut[c] :
        /\ timedOut' = [timedOut EXCEPT ![c] = @ \ {i}]
        /\ status' = [status EXCEPT ![c] = "closing"]
    /\ UNCHANGED <<connState, locked, rpc, eventsLeft, pending, nextId, hellosIn, notifiesIn, announced>>
    /\ UNCHANGED orchVars

\* A newblock notification: onNewBlockNotification sends one event with
\* shouldBroadcast = TRUE on onNewBlock.
onNewBlockNotification(c) ==
    /\ status[c] = "open" /\ rpc[c] = "idle"
    /\ notifiesIn[c] < MaxNotifies[c]
    /\ notifiesIn' = [notifiesIn EXCEPT ![c] = @ + 1]
    /\ eventsLeft' = [eventsLeft EXCEPT ![c] = 1]
    /\ rpc' = [rpc EXCEPT ![c] = "sendNewBlock"]
    /\ UNCHANGED <<status, connState, locked, pending, nextId,
                   timedOut, hellosIn, announced>>
    /\ UNCHANGED orchVars

\* A newoperations notification: onNewOperationsNotification sends one
\* event per operation of the packet on onNewOperation.
onNewOperationsNotification(c) ==
    /\ status[c] = "open" /\ rpc[c] = "idle"
    /\ notifiesIn[c] < MaxNotifies[c]
    /\ \E n \in 0..MaxItems :
        /\ eventsLeft' = [eventsLeft EXCEPT ![c] = n]
        /\ rpc' = [rpc EXCEPT ![c] = IF n > 0 THEN "sendOps" ELSE "idle"]
    /\ notifiesIn' = [notifiesIn EXCEPT ![c] = @ + 1]
    /\ UNCHANGED <<status, connState, locked, pending, nextId,
                   timedOut, hellosIn, announced>>
    /\ UNCHANGED orchVars

\* Mutant of SendStateUpdate: the deferred Unlock is missing.
SendStateUpdateNoUnlock(c) ==
    /\ rpc[c] = "sendUpdate"
    /\ CanSend(stateUpdates)
    /\ stateUpdates' = Append(stateUpdates, c)
    /\ rpc' = [rpc EXCEPT ![c] = IF eventsLeft[c] > 0 THEN "sendPeers" ELSE "idle"]
    /\ UNCHANGED <<status, connState, locked, eventsLeft, pending,
                   nextId, timedOut, hellosIn, notifiesIn, announced>>
    /\ UNCHANGED <<newBlocks, peerUpdates, newOps, doneCh, closedCh, orch, downloading, roster>>

\* The deferred send of SetState completes, then the deferred Unlock runs.
SendStateUpdate(c) ==
    /\ rpc[c] = "sendUpdate"
    /\ CanSend(stateUpdates)
    /\ stateUpdates' = Append(stateUpdates, c)
    /\ locked' = [locked EXCEPT ![c] = FALSE]
    /\ rpc' = [rpc EXCEPT ![c] = IF eventsLeft[c] > 0 THEN "sendPeers" ELSE "idle"]
    /\ UNCHANGED <<status, connState, eventsLeft, pending,
                   nextId, timedOut, hellosIn, notifiesIn, announced>>
    /\ UNCHANGED <<newBlocks, peerUpdates, newOps, doneCh, closedCh, orch, downloading, roster>>

\* One blocked send of the peers loop of onHelloCommon completes, after
\* SetState has returned and released the lock.
SendPeerUpdate(c) ==
    /\ rpc[c] = "sendPeers"
    /\ peerUpdates < ChanCap
    /\ peerUpdates' = peerUpdates + 1
    /\ eventsLeft' = [eventsLeft EXCEPT ![c] = @ - 1]
    /\ rpc' = [rpc EXCEPT ![c] = IF eventsLeft[c] > 1 THEN @ ELSE "idle"]
    /\ UNCHANGED <<status, connState, locked, pending,
                   nextId, timedOut, hellosIn, notifiesIn, announced>>
    /\ UNCHANGED <<stateUpdates, newBlocks, newOps, doneCh, closedCh, orch, downloading, roster>>

\* One blocked send of the loop of onNewOperationsNotification completes.
SendNewOperation(c) ==
    /\ rpc[c] = "sendOps"
    /\ CanSend(newOps)
    /\ newOps' = Append(newOps, c)
    /\ eventsLeft' = [eventsLeft EXCEPT ![c] = @ - 1]
    /\ rpc' = [rpc EXCEPT ![c] = IF eventsLeft[c] > 1 THEN @ ELSE "idle"]
    /\ UNCHANGED <<status, connState, locked, pending,
                   nextId, timedOut, hellosIn, notifiesIn, announced>>
    /\ UNCHANGED <<stateUpdates, newBlocks, peerUpdates, doneCh, closedCh, orch, downloading, roster>>

\* One blocked send of a block event on onNewBlock completes: a block of
\* the download loop (shouldBroadcast = FALSE), after the last of which
\* the deferred done signal is due, or the notified block.
SendNewBlock(c) ==
    /\ rpc[c] \in {"sendBlocks", "sendNewBlock"}
    /\ CanSend(newBlocks)
    /\ newBlocks' = Append(newBlocks, [from |-> c, broadcast |-> rpc[c] = "sendNewBlock"])
    /\ eventsLeft' = [eventsLeft EXCEPT ![c] = @ - 1]
    /\ rpc' = [rpc EXCEPT ![c] = IF eventsLeft[c] > 1 THEN @
                                 ELSE IF @ = "sendBlocks" THEN "sendDone" ELSE "idle"]
    /\ UNCHANGED <<status, connState, locked, pending,
                   nextId, timedOut, hellosIn, notifiesIn, announced>>
    /\ UNCHANGED <<stateUpdates, peerUpdates, newOps, doneCh, closedCh, orch, downloading, roster>>

\* The deferred send on downloadingDone of the download callback.
SendDone(c) ==
    /\ rpc[c] = "sendDone"
    /\ CanSend(doneCh)
    /\ doneCh' = Append(doneCh, c)
    /\ rpc' = [rpc EXCEPT ![c] = IF eventsLeft[c] > 0 THEN "sendBlocks" ELSE "idle"]
    /\ UNCHANGED <<status, connState, locked, eventsLeft, pending,
                   nextId, timedOut, hellosIn, notifiesIn, announced>>
    /\ UNCHANGED <<stateUpdates, newBlocks, peerUpdates, newOps, closedCh, orch, downloading, roster>>

\* The remote hangs up or the transport fails.
TransportClose(c) ==
    /\ status[c] = "open"
    /\ status' = [status EXCEPT ![c] = "closing"]
    /\ UNCHANGED <<connState, locked, rpc, eventsLeft, pending, nextId, timedOut, hellosIn, notifiesIn, announced>>
    /\ UNCHANGED orchVars

\* OnClose, once every pending callback has run with nil: the blocking
\* send of the connection on closed.
OnClose(c) ==
    /\ status[c] = "closing" /\ rpc[c] = "idle" /\ pending[c] = {}
    /\ CanSend(closedCh)
    /\ closedCh' = Append(closedCh, c)
    /\ status' = [status EXCEPT ![c] = "closed"]
    /\ UNCHANGED <<connState, locked, rpc, eventsLeft, pending, nextId, timedOut, hellosIn, notifiesIn, announced>>
    /\ UNCHANGED <<stateUpdates, newBlocks, peerUpdates, newOps, doneCh, orch, downloading, roster>>

-----------------------------------------------------------------------------
(* Orchestrator side (spec 4.F): one goroutine selecting over the event   *)
(* channels.  Go's select picks among the ready cases at random.          *)

\* StartBlocksDownloading on connection c, called by the orchestrator: a
\* getblocks request whose callback is onSuccess.
StartBlocksDownloading(c) ==
    /\ nextId[c] <= MaxRequests
    /\ pending' = [pending EXCEPT ![c] = @ \cup {[id |-> nextId[c], kind |-> "getblocks"]}]
    /\ nextId' = [nextId EXCEPT ![c] = @ + 1]

\* BroadcastBlock and BroadcastTx on every other open peer of the roster:
\* each calls sendRequest with a nil callback, which registers a pending
\* request like any other.
Broadcast(from) ==
    LET to == {d \in roster \ {from} : status[d] # "new" /\ nextId[d] <= MaxRequests}
    IN /\ pending' = [d \in Peers |->
                        IF d \in to THEN pending[d] \cup {[id |-> nextId[d], kind |-> "broadcast"]}
                        ELSE pending[d]]
       /\ nextId' = [d \in Peers |-> IF d \in to THEN nextId[d] + 1 ELSE nextId[d]]

\* A state update is received: the orchestrator asks the connection for
\* its state with GetState.
RecvStateUpdate ==
    /\ orch.pc = "idle" /\ stateUpdates # <<>>
    /\ orch' = [pc |-> "getState", conn |-> Head(stateUpdates)]
    /\ stateUpdates' = Tail(stateUpdates)
    /\ UNCHANGED <<newBlocks, peerUpdates, newOps, doneCh, closedCh, downloading, roster>>
    /\ UNCHANGED connVars

\* on_state_update with the height h GetState returned: a peer ahead of
\* the node (still at genesis) and still on the roster is synced from
\* when no download runs.
SyncFrom(c, h) ==
    IF h > 0 /\ c \in roster /\ downloading = NoPeer /\ nextId[c] <= MaxRequests
    THEN StartBlocksDownloading(c) /\ downloading' = c
    ELSE UNCHANGED <<pending, nextId, downloading>>

\* GetState: the state read under the read lock, then on_state_update.
GetState(c) ==
    /\ orch = [pc |-> "getState", conn |-> c]
    /\ ~locked[c]
    /\ orch' = [pc |-> "idle"]
    /\ SyncFrom(c, connState[c])
    /\ UNCHANGED <<stateUpdates, newBlocks, peerUpdates, newOps, doneCh, closedCh, roster>>
    /\ UNCHANGED <<status, connState, locked, rpc, eventsLeft,
                   timedOut, hellosIn, notifiesIn, announced>>

\* A block event is taken off onNewBlock.
\* on_new_block validates the block (abstracted: it is accepted or not);
\* an accepted block with shouldBroadcast is fanned out to every other peer.
RecvNewBlock ==
    /\ orch.pc = "idle" /\ newBlocks # <<>>
    /\ newBlocks' = Tail(newBlocks)
    /\ \/ /\ Head(newBlocks).broadcast
          /\ Broadcast(Head(newBlocks).from)
       \/ UNCHANGED <<pending, nextId>>
    /\ UNCHANGED <<stateUpdates, peerUpdates, newOps, doneCh, closedCh, orch, downloading, roster>>
    /\ UNCHANGED <<status, connState, locked, rpc, eventsLeft,
                   timedOut, hellosIn, notifiesIn, announced>>

\* peer_updates: an address-book hint is taken off peerUpdates.
RecvPeerUpdate ==
    /\ orch.pc = "idle" /\ peerUpdates > 0
    /\ peerUpdates' = peerUpdates - 1
    /\ UNCHANGED <<stateUpdates, newBlocks, newOps, doneCh, closedCh, orch, downloading, roster>>
    /\ UNCHANGED connVars

\* on_new_operation: an operation event is taken off onNewOperation; a
\* valid one not seen before is fanned out to the other peers.
RecvNewOperation ==
    /\ orch.pc = "idle" /\ newOps # <<>>
    /\ newOps' = Tail(newOps)
    /\ \/ Broadcast(Head(newOps))
       \/ UNCHANGED <<pending, nextId>>
    /\ UNCHANGED <<stateUpdates, newBlocks, peerUpdates, doneCh, closedCh, orch, downloading, roster>>
    /\ UNCHANGED <<status, connState, locked, rpc, eventsLeft,
                   timedOut, hellosIn, notifiesIn, announced>>

\* downloadingDone: the download is over, another may start.
RecvDone ==
    /\ orch.pc = "idle" /\ doneCh # <<>>
    /\ doneCh' = Tail(doneCh)
    /\ downloading' = NoPeer
    /\ UNCHANGED <<stateUpdates, newBlocks, peerUpdates, newOps, closedCh, orch, roster>>
    /\ UNCHANGED connVars

\* closed: the peer leaves the roster.
RecvClosed ==
    /\ orch.pc = "idle" /\ closedCh # <<>>
    /\ closedCh' = Tail(closedCh)
    /\ roster' = roster \ {Head(closedCh)}
    /\ UNCHANGED <<stateUpdates, newBlocks, peerUpdates, newOps, doneCh, orch, downloading>>
    /\ UNCHANGED connVars

-----------------------------------------------------------------------------

Init ==
    /\ status = [c \in Peers |-> "new"]
    /\ connState = [c \in Peers |-> NoState]
    /\ locked = [c \in Peers |-> FALSE]
    /\ rpc = [c \in Peers |-> "idle"]
    /\ eventsLeft = [c \in Peers |-> 0]
    /\ pending = [c \in Peers |-> {}]
    /\ nextId = [c \in Peers |-> 1]
    /\ timedOut = [c \in Peers |-> {}]
    /\ hellosIn = [c \in Peers |-> 0]
    /\ notifiesIn = [c \in Peers |-> 0]
    /\ announced = [c \in Peers |-> {}]
    /\ stateUpdates = <<>>
    /\ newBlocks = <<>>
    /\ peerUpdates = 0
    /\ newOps = <<>>
    /\ doneCh = <<>>
    /\ closedCh = <<>>
    /\ orch = [pc |-> "idle"]
    /\ downloading = NoPeer
    /\ roster = Peers

\* What the remote peer sends, and the engine's timer and transport.
Remote(c) ==
    \/ onHelloRequest(c)
    \/ OnResponse(c)
    \/ OnUnmatchedResponse(c)
    \/ onNewBlockNotification(c)
    \/ onNewOperationsNotification(c)
    \/ TransportClose(c)

\* The reader goroutine finishing a blocked send, and closing.
Reader(c) ==
    \/ SendStateUpdate(c)
    \/ SendPeerUpdate(c)
    \/ SendNewBlock(c)
    \/ SendNewOperation(c)
    \/ SendDone(c)
    \/ OnNoResponse(c)
    \/ OnClose(c)

Orchestrator ==
    \/ RecvStateUpdate
    \/ \E c \in Peers : GetState(c)
    \/ RecvNewBlock
    \/ RecvPeerUpdate
    \/ RecvNewOperation
    \/ RecvDone
    \/ RecvClosed

Next ==
    \/ \E c \in Peers : OnOpen(c) \/ Remote(c) \/ Reader(c)
    \/ Orchestrator

\* Fairness per goroutine.  A reader goroutine that can go on infinitely
\* often does go on: a blocked channel send completes once the channel has
\* room (Go queues blocked senders in order), and the engine's timer or
\* the close runs a pending callback.  The orchestrator loops on its
\* select for ever, and Go picks among ready cases at random: strong
\* fairness for it too.  The remote peer owes nothing.
Fairness ==
    /\ \A c \in Peers : SF_vars(Reader(c))
    /\ SF_vars(Orchestrator)

Spec == Init /\ [][Next]_vars /\ Fairness

-----------------------------------------------------------------------------
(* Properties                                                             *)

TypeOK ==
    /\ status \in [Peers -> {"new", "open", "closing", "closed"}]
    /\ connState \in [Peers -> {NoState, ZeroHelloIndex} \cup Heights]
    /\ locked \in [Peers -> BOOLEAN]
    /\ rpc \in [Peers -> {"idle", "sendUpdate", "sendPeers", "sendBlocks", "sendDone",
                                   "sendNewBlock", "sendOps"}]
    /\ eventsLeft \in [Peers -> 0..MaxItems]
    /\ pending \in [Peers -> SUBSET Request]
    /\ nextId \in [Peers -> 1..MaxRequests + 1]
    /\ timedOut \in [Peers -> SUBSET Ids]
    /\ hellosIn \in [Peers -> 0..MaxHellos]
    /\ notifiesIn \in [Peers -> Nat] /\ \A c \in Peers : notifiesIn[c] <= MaxNotifies[c]
    /\ announced \in [Peers -> SUBSET Heights]
    /\ stateUpdates \in Seq(Peers) /\ Len(stateUpdates) <= ChanCap
    /\ newBlocks \in Seq([from : Peers, broadcast : BOOLEAN]) /\ Len(newBlocks) <= ChanCap
    /\ peerUpdates \in 0..ChanCap
    /\ newOps \in Seq(Peers) /\ Len(newOps) <= ChanCap
    /\ doneCh \in Seq(Peers) /\ Len(doneCh) <= ChanCap
    /\ closedCh \in Seq(Peers) /\ Len(closedCh) <= ChanCap
    /\ orch \in {[pc |-> "idle"]} \cup [pc : {"getState"}, conn : Peers]
    /\ downloading \in Peers \cup {NoPeer}
    /\ roster \subseteq Peers


\* The blocks of a download reach onNewBlock while the orchestrator still
\* counts the download as running: onSuccess sends downloadingDone only
\* after its loop over packet.Blocks (connection.go, deferred send).  Were
\* it sent first, the orchestrator could start another download while the
\* first one's blocks are still arriving.
BlocksBeforeDone ==
    \A c \in Peers :
        rpc[c] = "sendBlocks" => downloading = c

\* A connection records a state only from a hello its remote actually sent:
\* the height GetState returns is one the peer announced.
HandshakeStateFromHello ==
    \A c \in Peers :
        connState[c] # NoState => connState[c] \in announced[c]

\* The engine's request table, seen through the refinement mapping: the
\* ids allocated so far and those still pending.
RPC == INSTANCE CorrelatedRPC
        WITH Conns <- Peers,
             issued <- [c \in Peers |-> nextId[c] - 1],
             open <- [c \in Peers |-> {r.id : r \in pending[c]}]

\* The connections implement the correlated RPC of spec 4.D and 8: a
\* request is only ever added with the next id, it leaves the pending map
\* only when its callback runs, and every request the handshake, a download
\* or a broadcast issues is completed eventually, by its response, the
\* engine's timer or the close, whatever the remote does.
CorrelatedRPCImplemented == RPC!Spec

\* A broadcast is a fire-and-forget notification (spec 4.D send_notification
\* and 4.E Broadcast): the engine retains no correlator for it.
BroadcastRetainsNoRequest ==
    \A c \in Peers : \A r \in pending[c] : r.kind # "broadcast"

\* A download the orchestrator starts always ends: whether the getblocks
\* request is answered, times out or is cancelled by the close, onSuccess
\* sends downloadingDone (a deferred send, so also on its error returns)
\* and the orchestrator takes it.  Were it lost, the node would never
\* start another download.
DownloadEventuallyEnds ==
    (downloading # NoPeer) ~> (downloading = NoPeer)

\* A connection that closes leaves the roster: the close cancels its
\* pending requests, their callbacks run, OnClose sends it on closed and
\* the orchestrator removes it.
ClosedPeerRemoved ==
    \A c \in Peers : (status[c] = "closing") ~> (c \notin roster)

\* No goroutine stays blocked forever: every handler of a reader goroutine
\* that blocks on a channel send (SetState, the block loops, the done
\* signal) returns, and every GetState of the orchestrator returns.
NoGoroutineBlockedForever ==
    /\ \A c \in Peers : (rpc[c] # "idle") ~> (rpc[c] = "idle")
    /\ (orch.pc = "getState") ~> (orch.pc = "idle")

=============================================================================
