# TLA+ models of the PASL node

These modules model the peer-to-peer side of the PASL node (`src/network/pasl/connection.go`) together with the parts of the node it talks to. The parts it talks to are the protocol engine and the node orchestrator. Neither is in `src/`, so they are modelled from `spec.md` (sections 4.E, 4.F and 8) and marked `spec_modelled` in `PROJECT.json`.

## The system and how its parts interact

| Part | Source | Role |
|------|--------|------|
| Peer connection | `src/network/pasl/connection.go` | Handlers for one TCP peer: hello handshake, block download, notifications. Holds the peer's state under `stateLock` and reports to the node over channels. |
| Protocol engine | `protocol.go`, not in src (spec 4.E, 8) | Frames packets, correlates a response with its pending request, and runs the request's callback. The callback runs on the response, on a timeout (with a nil response) or on the close. |
| Node orchestrator | not in src (spec 4.F) | One goroutine with a `select` over `onStateUpdate`, `onNewBlock`, `downloadingDone` and `closed`. It reads a peer's state with `GetState` and starts at most one block download at a time. |
| Codec | `src/utils/serialize.go` | Reflection-based little-endian serializer with 16-bit length prefixes for strings and byte slices. |
| Block | `src/unnamed/part_000` (package safebox, block.go) | Builds a block from operations: the fee sum, five new accounts and the header serialization. |
| ChangeKey | `src/safebox/tx/txchangekey.go` | A transaction that validates and applies a key change on an account. |

How they interact:

1. The engine's reader goroutine dispatches each incoming packet to a connection handler. A handler runs to completion before the next packet is read.
2. A handler's blocking channel sends (`SetState`'s deferred `onStateUpdate <- this`, `onNewBlock <- ...`, `downloadingDone <- nil`, `closed <- this`) stop that connection's reader until the orchestrator receives them.
3. In the other direction, the orchestrator calls `GetState`, which takes `stateLock` for reading, and `StartBlocksDownloading`, which registers a request with the engine.

## Modules

### `PeerConnection.tla` (component: peer connection, engine, orchestrator)

**State**, for each connection `c`:

| Variable | Meaning |
|----------|---------|
| `status[c]` | Lifecycle: new, open, closing, closed. |
| `connState[c]` | The height stored by `SetState`. `NoState` until the first `SetState`. |
| `locked[c]` | The write side of `stateLock` is held. |
| `rpc[c]` | Where the reader goroutine is blocked: idle, `sendUpdate` (the deferred send of `SetState`), `sendPeers` (the peers loop of `onHelloCommon`), `sendBlocks` or `sendDone` (the download callback), `sendNewBlock` or `sendOps` (the notification handlers). |
| `eventsLeft[c]` | Channel events the current handler still has to send (blocks, peers or operations). |
| `pending[c]` | The engine's pending requests (`id`, `kind`). |
| `nextId[c]` | The next request id. |
| `timedOut[c]` | Ids whose late answer may still arrive. |
| `hellosIn`, `notifiesIn`, `announced` | What the remote sent: hello count, notification count, and the heights it announced. |

The orchestrator's state is:

- the six channels, each of capacity `ChanCap`: `onStateUpdate`, `onNewBlock`, `onNewOperation`, `downloadingDone` and `closed` as sequences of the sending connection, and `peerUpdates` as a count (the orchestrator does nothing with a hint that a property could observe);
- `orch`, which is idle or inside `GetState(c)`;
- `downloading`, the peer whose download runs;
- `roster`, the peers not yet removed.

**Actions** follow the code:

- `OnOpen` registers the handlers. An outgoing connection sends its hello as a request whose callback is `onHelloCommon`.
- `onHelloRequest` and `onHelloCommon`: a loopback nonce closes the connection. Otherwise `SetState` takes the write lock and leaves the reader blocked in its deferred send.
- `SendStateUpdate` is that deferred send completing, followed by the deferred `Unlock`. Go runs deferred calls last-in first-out, so the send runs under the lock.
- `onGetBlocksResponse` is the `onSuccess` closure. `SendNewBlock` is one blocked send of its loop, and `SendDone` is its deferred `downloadingDone <- nil`.
- `SendPeerUpdate` is one send of the peers loop, which runs after `SetState` has returned and released the lock.
- `onNewBlockNotification` sends one block event to be broadcast. `onNewOperationsNotification` and `SendNewOperation` send one event per operation.
- `NilCallback` is a callback run with a nil response: the hello callback records the zero hello, the download callback only signals done, and a broadcast has no callback.
- `OnResponse`, `OnNoResponse` and `OnUnmatchedResponse` are the engine running a callback on a response, on a timeout or close, and meeting the answer to a request that already timed out.
- `OnClose` sends on `closed` once the pending callbacks have run.
- `TransportClose` is the remote hanging up.
- `RecvStateUpdate`, `GetState`, `RecvNewBlock`, `RecvPeerUpdate`, `RecvNewOperation`, `RecvDone` and `RecvClosed` are the orchestrator's select cases. `GetState` reads the state under the read lock and hands it to the spec-modelled `SyncFrom` (on_state_update): a peer above height 0 that is still on the roster starts a download when none runs. `StartBlocksDownloading` drops the error that `sendRequest` may return. The model assumes that the pending entry is always installed, since the engine is not in `src/`.
- In `RecvNewBlock` and `RecvNewOperation` the orchestrator may accept the event and fan it out. `Broadcast` is `BroadcastBlock` or `BroadcastTx` on every other open peer. Each calls `sendRequest` with a nil callback, so it takes a request id and a pending entry.

**Data abstraction.**

- A hello is abstracted to its block index (`Heights`) and whether its nonce is ours (`Loopbacks`).
- A getblocks response, the peer list of a hello and the operations of a notification are abstracted to their length (`0..MaxItems`).
- `OnOpen` registers every handler at once, so notifications are accepted before any hello, as in the code. The events they raise can therefore name a connection whose state is still nil. The modelled orchestrator reads a state only after `onStateUpdate`. What the real `on_new_block` does with such an event is outside `src/`, so no property is stated about a `GetState` on a nil state: one would only restate the modelled orchestrator.
- Block and operation validation in the orchestrator is abstracted to a nondeterministic accept or reject.
- `ZeroHelloIndex` is what `Deserialize` yields for an empty payload: every read fails and is ignored, so the index is 0.

**Fairness.** Each reader goroutine, and the orchestrator, is strongly fair:

- Go queues blocked channel senders and wakes them when there is room.
- The engine's timer always fires.
- A `select` picks uniformly among ready cases, so a case enabled infinitely often is taken.

The remote peer owes nothing.

### `CorrelatedRPC.tla` (abstract: what the engine promises)

This is the abstract specification of `send_request` (spec 4.D, and the Correlated RPC property of spec 8). Per connection it keeps two things:

- `issued`, the number of ids allocated so far;
- `open`, the ids whose callback has not run yet.

Its actions are:

- `SendRequest(C)` allocates the next id on each connection of `C`. A broadcast issues on several connections in one step.
- `Complete(c, i)` closes request `i` on connection `c`.

Every open request completes, under weak fairness per request. `PeerConnection` instantiates it as `RPC` with the refinement mapping `issued <- nextId - 1` and `open <- the ids of pending`. `CorrelatedRPCImplemented == RPC!Spec` is checked as a property.

### `GetBlocks.tla` (component: peer connection, serving side)

The serving side of `onGetBlocksRequest` (`connection.go`). The state is the serving node's `height` (blocks `0..height-1` exist), the last `request` served with the height it saw, and the `response` slice.

- `Serve(from, to)` is the whole handler: `onGetBlocksRequest` swaps a reversed range, clamps the `uint32` span to `NetworkBlocksPerRequest`, makes a slice of length `total` (so it starts with `total` zero blocks) and appends from `lo` to `lo + total` inclusive, stopping at the first block the chain lacks (`CollectBlocks`).
- `AddBlock` grows the chain between requests.
- Indexes are `uint32`, reduced to `Width` bits.

### `Codec.tla` (component: serialization codec)

`src/utils/serialize.go`. Types are built from constructors (`UintT(n)`, `StringT`, `BytesT`, `SliceT`, `StructT`, `CustomT`, `IfaceT`) and values from small sets. A string or byte slice is abstracted to a tag and a length, since the codec only copies its bytes. The encoded stream is a sequence of items (a little-endian integer of a width, or a raw run of bytes).

- `Step` and `Loop` model `strucWalker`'s explicit stack and the `Callback`s of `Serialize` and `Deserialize`, including the 16-bit length prefix, the `uint32` slice count and the unchecked allocation. `CustomSerialize` and `CustomDeserialize` translate `BytesWithoutLengthPrefix`: its bytes are written with no length, and a read fills only the buffer the value already has.
- `SerializeBytes` and `DeserializeBytes` model the byte framing with its `int16` length.
- Actions: `SendPacket`, `SendToSign`, `SendBytes`, `Forge` (a remote sending arbitrary bytes), `Receive`, `ReceiveBytes`, `Done`.
- `RefEncode` is the reference encoding of spec 4.A, and `EncodingFollowsSpec` compares the two.

### `Safebox.tla` (components: block construction, ChangeKey)

The account table a chain of blocks builds.

- `NewBlockAccounts` and `NewBlockFee` translate `NewBlock` (`src/unnamed/part_000`): the `uint64` fee sum and five accounts numbered `i + block.GetIndex()`.
- `ChangeKeyValidate`, `ChangeKeyApply`, `GetFee` and `getSourceInfo` translate `txchangekey.go`. `OperationValidate` reads the op_id and the signer through `getSourceInfo`.
- `GetOperationsHash` translates the chained hash of `part_000`: starting from SHA-256 of "", each step hashes the running hash followed by the operation's digest. `Sha256` abstracts SHA-256 as a collision-free digest: the digest is the hashed content under a tag, as in the Tendermint specifications. `BlockSerialize` and `SerializeHeader` keep the index and the operations hash, and `ApplyBlock` appends the serialized block to `blocks`.
- The safebox's lookup, the op_id and signer check and the block application (`GetAccount`, `OperationValidate`, `ApplyOperations`, `ApplyBlock`) are not in `src/` and follow spec 3 and 4.F.
- `ApplyBlock` is one action: validate and apply each operation on a working copy, reject the block at the first failure, and append the new accounts.
- `ChangeKeyApply` is `Apply` alone: a key change and a fee subtraction, both stamped with the block index. The operations counter that the op_id check reads is advanced by the spec-modelled `CountOperation` inside `ApplyOperations`. `ChangeKeyApply` updates the account at position `source + 1`, while `Apply` keys its deltas by `Source.Number`. The two differ only after the numbering bug (`safebox_numbering`), and then only on minted accounts with balance 0, which no operation in the bounds can fund.
- `ApplyOperations` validates each operation on the copy that the operations before it left. This is one reading of spec 4.F. Validating all operations first and then applying them would let two operations from one source pass the balance check against the pre-block balance.

### MC modules

`MCCodec.tla` reduces the types the codec is run on to one field of each kind: `MCHeaderT` (`SerializedBlockHeader`), `MCBlockT` (`SerializedBlock`) and `MCSignT` (`changeKeyToSign`, without the public key).

`MCPeerConnection.tla`

It gives the model values: two peers `p1` and `p2`, where `p1` is outgoing.

## Runs

| Run | cfg | Expect | What it shows |
|-----|-----|--------|---------------|
| `conn_pass` | `MCPeerConnection.cfg` | pass | Each remote sends one hello, which lists up to one peer. The incoming peer also sends one notification, which may be broadcast to the other peer. The model satisfies `TypeOK`, `BlocksBeforeDone` (done is sent only after the last block send completed; a block still queued on `onNewBlock` when the orchestrator takes done is not excluded, since that depends on the orchestrator), `CorrelatedRPCImplemented` (the refinement of `CorrelatedRPC`, liveness included), `NoGoroutineBlockedForever`, `DownloadEventuallyEnds` (a download always ends with a done signal the orchestrator takes, even on a timeout or a close) and `ClosedPeerRemoved` (a closing connection always leaves the roster). |
| `conn_broadcast` | `MCPeerConnection_broadcast.cfg` | violation | A notified block that the orchestrator accepts is broadcast with `sendRequest(..., nil)`. This leaves a pending request with a nil callback, where the spec says a broadcast is a fire-and-forget notification (`BroadcastRetainsNoRequest`). |
| `conn_rehello_deadlock` | `MCPeerConnection_rehello.cfg` | violation | If the remote sends a second hello, the connection blocks in `SetState`'s deferred send while holding the write lock, and the orchestrator blocks in `GetState` on the read lock. The channel is full because it holds the other peer's update. `NoGoroutineBlockedForever` fails. |
| `conn_hello_timeout` | `MCPeerConnection_hello_timeout.cfg` | violation | A timed-out hello runs `onHelloCommon` on an empty payload and records height 0. `HandshakeStateFromHello` fails. |
| `getblocks_pass` | `MCGetBlocks.cfg` | pass | Every real block in a response is a chain block of the requested range, in order, with none of the first `NetworkBlocksPerRequest` missing (`BlocksFromRequestedRange`). |
| `getblocks_limit` | `MCGetBlocks_limit.cfg` | violation | A response holds `total` zero blocks followed by up to `total + 1` real ones, so it exceeds `NetworkBlocksPerRequest` (`ResponseWithinLimit`). |
| `codec_pass` | `MCCodec.cfg` | pass | Packets, signing buffers and framed bytes encode as spec 4.A says (`EncodingFollowsSpec`) and decode back (`RoundTrip`) for lengths 0, 2 and 300. |
| `codec_truncation` | `MCCodec_truncation.cfg` | violation | A 65536-byte field is written with a `uint16` length of 0, so it does not round trip. |
| `codec_signed_length` | `MCCodec_signed.cfg` | violation | `DeserializeBytes` reads the length as `int16`: 32768 bytes are read as a negative size and panic. |
| `codec_alloc` | `MCCodec_alloc.cfg` | violation | A forged slice count is allocated before any element is read (`AllocationBounded`). |
| `safebox_pass` | `MCSafebox.cfg` | pass | Over two blocks of up to two ChangeKeys, balances plus the fees claimed stay the genesis supply (`SupplyConserved`). No other list of a block's operations (fewer, repeated or reordered) has the operations hash that block's header carries (`OperationsHashBindsOperations`). |
| `safebox_numbering` | `MCSafebox_numbering.cfg` | violation | Block 1 mints accounts numbered 1..5 while the genesis holds 0..4 (`AccountNumbersDense`). |

**Bounds.**

- `ChanCap = 1` makes every channel fill after one event. Two peers make the orchestrator interleave with both connections.
- `MaxRequests = 2` allows the hello and one getblocks on the outgoing peer, or two downloads on the incoming one.
- `Heights = {1}` and `MaxItems = 1` suffice: the properties do not tell heights apart beyond "ahead of genesis", and one item already separates a handler's loop from what follows it (the done signal, or the return to idle).
- `MaxHellos` and `MaxNotifies` bound the remote. The second hello is what the deadlock needs, so the pass run allows one. `MaxNotifies` is given per connection: the incoming peer `p2` gets one notification and `p1` none. With a notification on both connections the state space grows seventeen-fold and checking takes four minutes, while one notifying peer already covers the broadcast to the other peer.

- GetBlocks: `NetworkBlocksPerRequest = 2`, indexes up to 4 and a chain of up to 4 blocks cover reversed ranges, clamped spans and ranges that run past the chain. `Width = 8` keeps the `uint32` arithmetic without wrapping inside the bound.
- Codec: lengths 0, 2 and 300 (one and two length bytes); slices of up to 2 elements; the violation runs use exactly the lengths 32768 and 65536 where the bugs bite.
- Safebox: two funded genesis accounts (balances 2 and 1), fees 1 and 2, two blocks of up to two operations, and sources 0, 1 and 5. Two operations from one source in one block are what a stale balance check needs. Balances are 8-bit, so an underflow wraps.

Deadlock checking is off in the runs of the connection model: the node legitimately waits on the network. Blocked goroutines are instead caught by the liveness property `NoGoroutineBlockedForever`.

## Not modelled

- **Protocol framing** (`OnData`, the frame layout, the oversize-frame check) is in `protocol.go`, which is not in `src/`. It is byte handling that no property of the connections observes.
- **The stateless handlers** `onErrorReport`, `onMessageRequest` and `onGetHeadersRequest` only decode and log.
- **Block validation, the out-of-order block buffer, the mempool and the per-peer LRU** of the orchestrator are not in `src/`. Validation is abstracted to accept or reject.
- **Rewards.** `NewBlock` mints its five accounts with balance 0 and records the fee and `getReward(index)` in the header. Whether the safebox credits them to the miner is decided by code outside `src/`, so `Safebox` accounts fees as claimed (`feesClaimed`) and leaves the reward out.
- **Block headers**: `GetHash` (the block hash), the target, the reward and the header fields other than the index and the operations hash are not modelled. No property tells them apart. SHA-256 is taken to be collision-free.
- **Crypto, storage and the blockchain store** are not modelled. They are not in `src/`, or they are pure data handling that no property distinguishes.
