# TLA+ models of iTransmissionFramework's libtransmission sources

This directory holds TLA+ models of the two libtransmission sources in this
repository with behaviour worth model checking:

* `src/libtransmission/webseed.cc`: the HTTP webseed pseudo-peer;
* `src/libtransmission/net.cc`: the address classifiers that decide which
  peers may be contacted, and the socket helpers that open descriptors.

Each module is written from the C++ source; the map in `PROJECT.json` names
the lines each definition translates.

## 1. The system

### Webseed (`webseed.cc`)

A `tr_webseed` downloads block spans of a torrent over HTTP range requests.
Its parts are:

* **ConnectionLimiter** (lines 93-163) admits fetches.
  * It counts `n_tasks` in flight and `n_consecutive_failures`.
  * It allows `MaxConnections` (4) fetches while healthy, and one fetch
    after any failure.
  * Once `MaxConsecutiveFailures` failures have happened, it allows none for
    120 s.
* **tr_webseed_task** (52-82) holds one block span. Its state is:
  * a cursor `loc` (the next block to save);
  * the byte `end_byte`;
  * an evbuffer that receives response bytes;
  * a `dead` flag.
* **task_request_next_chunk** (494-520) issues one HTTP range.
  * The range starts after the bytes already buffered.
  * It ends at the end of the current file or of the span, whichever comes
    first.
  * It calls `taskStarted()`.
* **onBufferGotData** (401-412) runs on the transport (web) thread whenever
  bytes are appended.
  * It reads `task->dead` without the session lock.
  * Then it takes the lock and calls `gotPieceData()`, which resets the
    limiter's failure count.
* **onPartialDataFetched** (433-479) runs on the session thread when a
  fetch ends.
  * If the task is dead, it deletes it.
  * Otherwise it calls `taskFinished(status == 206)`.
  * If the torrent is gone, it returns.
  * On failure, it publishes a rejection for the rest of the span, erases
    the task and deletes it.
  * On success, it drains whole blocks (**useFetchedBlocks**, 359-397).
    Then it either requests the next chunk (the span crosses a file) or
    retires the task and calls `on_idle`.
* **useFetchedBlocks** hands each new block to a **write_block_data**
  (320-357). That object runs later on the session thread: it writes the
  block to the cache and publishes `GotBlock` through a stored webseed
  pointer.
* **on_idle** (414-431) runs from a repeating 2 s timer and after each
  retired task.
  * It asks `canRequest()` for slots.
  * It asks the peer manager for spans and cuts them to `max_spans`.
  * It calls **requestBlocks** (253-270), which creates one task per span.
* **~tr_webseed** (190-195) flags every task dead and clears `tasks`. The
  completions of fetches still in flight then free those tasks.
* **tr_webseedNew** (526-529) makes a webseed. The peer manager calls it
  when the torrent runs, so after a stop and a start a new `tr_webseed`
  serves the same torrent while the old one's dead tasks may still be in
  flight.

The webseed interacts with three outside parts. None of them is under
`src/`, so they are modelled from the spec as an environment:

* the torrent, which may be removed, stopped or started, and may receive
  blocks from other peers;
* the peer manager, which supplies spans;
* the web transport, which delivers bytes and then a completion.

### Addresses (`net.cc`)

These functions are pure classifiers of `tr_address` bytes:

* `is_martian_addr`;
* `is_ipv6_link_local_address`;
* `is_ipv4_mapped_address`;
* `tr_socket_address::is_valid_for_peers`;
* `tr_address::is_global_unicast_address`.

`net.cc` also holds socket helpers (`createSocket`, `tr_netOpenPeerSocket`,
`tr_netBindTCPImpl`, `tr_netAccept`). Each one opens a descriptor and must
close it on every failing step after `socket()` or `accept()` (the
`tr_net_close_socket` calls at 196, 267, 290, 316, 331, 355, 384 and 416),
or hand it to its owner. They run on the session thread, one at a time.

The codec functions convert and order addresses:
`tr_ip_protocol_to_af` / `tr_af_to_ip_protocol`, `tr_port::from_compact`,
`tr_address::from_compact_ipv4` / `_ipv6` (BEP 23 compact peers),
`tr_address::compare` (the order of address sets and maps) and
`tr_socket_address::to_sockaddr` / `from_sockaddr` (the kernel boundary
used by the socket helpers).

### Not behavioural

The remaining files have no behaviour to model:

* `rpcimpl.h` holds declarations only.
* `utp_templates.h` holds generic container templates.
* The rest are build scripts (`make.sh`, `Package.swift`, a fuzz
  `build.sh`) and fuzz fragments.

## 2. Modules

| Module | Models | State |
|---|---|---|
| `ConnectionLimiter` | `class ConnectionLimiter`: one operator per method, and a standalone spec driving it | `lim = [n_tasks, n_consecutive_failures, paused]` |
| `Webseed` | the webseed, its tasks and fetches, the transport callback, the completion handler, deferred writes, teardown; composes `ConnectionLimiter` via `CL == INSTANCE ConnectionLimiter` | `tor`, `have`, `ws` (the last webseed made), `alive`, `lim`, `active` (= `tasks`), `task`, `pending` (queued `write_block_data`), `rejected`, `uaf` |
| `FileChunks` | the file arithmetic over any list of file sizes (spec), `ChunkLen` (the chunk size of `task_request_next_chunk`, used by `Webseed`) and `ChunkPlan` (RECURSIVE: the successive chunks of a task whose answers come in full) | - (operators) |
| `BlockLayout` | the torrent's block and file geometry (spec) over the constant layout, and `tr_webseed_task::end_byte`; extends `FileChunks` | - (constants) |
| `TaskTransfer` | the abstract task: what a task slot promises about its span, its buffer and its saved cursor | `xfer` |
| `MCWebseed` | constants for TLC (file sizes, symmetry) | - |
| `MCFileChunks` | every layout of up to `MaxFiles` files of 0..`MaxFileSize` bytes and every byte range, as inputs to `ChunkPlan` | `fs`, `from`, `end_byte` (inputs) |
| `NetAddress` | the address classifiers and CIDR reference definitions | `addr`, `port` (inputs, constant after Init) |
| `NetCodec` | the `tr_address` / `tr_port` conversions and `compare` as operators over bytes, with reference definitions | `x`, `y`, `port` (inputs) |
| `NetSockets` | `createSocket`, `tr_netOpenPeerSocket`, `tr_netBindTCP(Impl)`, `tr_netAccept`: `OpenPeerSocket`, `BindTCP`, `Accept` take the guard and `socket()`/`accept()`; each later system call is a step, `StepSucceeds` or `StepFails` (which closes the descriptor); `Return` hands it to its owner | `open`, `peers` (held by `tr_peer_socket`), `listeners`, `call` (the helper running: its descriptor and the calls left) |

### How the code maps to the Webseed module

Each `Webseed` action corresponds to one handler, taken whole:

| Action | Code |
|---|---|
| `IdleTick` | the timer firing `on_idle` |
| `OnIdle` / `RequestBlocks` | `on_idle` / `requestBlocks` |
| `DataArrives` | bytes appended and `onBufferGotData`'s unlocked `dead` test |
| `GotPieceData` | the locked part of `onBufferGotData` |
| `OnPartialDataFetched` | the whole completion handler, with its four branches `DeleteDeadTask`, `CompleteForGoneTorrent`, `RejectTask` and `UseFetchedTask`; the last includes `useFetchedBlocks` (`Drain`, RECURSIVE), the next chunk, or `on_idle` |
| `WriteBlock` | `write_block_func` |
| `DestroyWebseed` | `~tr_webseed` |
| `CreateWebseed` | `tr_webseedNew` and the constructor, for the torrent again |
| `TimeoutElapses` | the 120 s pause running out |

`RemoveTorrent`, `ToggleRunning` and `OtherPeerGotBlock` are the torrent
environment.

### Abstractions

* **Bytes.** Byte *i* of the torrent is the number *i*. A buffer is the
  sequence of byte identities received, and a queued block carries the
  identities it was copied from. A block is correct exactly when it carries
  `BlockBytes(b)`.
* **Server.** The server may answer a range with any prefix of it, including
  none, with status 206 or with a failure. A transfer cut after the headers
  keeps status 206; that is the code's notion of success.
* **Task slots.** A task's memory is a slot from `TaskIds`. `delete` returns
  the slot to "unused" and a later allocation may reuse it. A `gen` bit
  tells successive allocations apart, so liveness can be stated per
  allocation.
* **Clock.** The limiter's clock is the flag `paused`. The failure count
  saturates at the threshold; the code only compares it with 0 and with the
  threshold.
* **Webseed objects.** `ws` numbers the `tr_webseed` objects made for the
  torrent, at most `MaxWebseeds`. A task's `owner` and a queued write's
  `ws` are the webseed pointer each holds, so an access through an old
  pointer is told apart from one to the current webseed.
* **`uaf`.** This variable records the webseed accesses (`gotData`,
  `publish`) made through the pointer of a destroyed webseed.
* **`rejected`.** This variable holds the blocks the last step published as
  rejected.
* **`req`.** Each fetch carries a request tag counting the HTTP requests
  of its task modulo `RequestTags`. It is a history variable: no guard
  reads it. With `RequestTags` = 1 a re-request of the same range after an
  empty 206 is a stutter step, which is sound for safety and keeps the state
  space small. With `RequestTags` = 2 the re-request changes state, so the
  empty-206 retry cycle is a real cycle that liveness checking can see.

### Refinement: `Webseed` implements `TaskTransfer`

`TaskTransfer` says what a task slot does, without limiter, torrent,
fetches or writes. A slot is unused or live. A live slot has a span, a
saved cursor at a block boundary and a buffer. It may:

* receive any further bytes, which must be the next bytes of its span;
* save whole blocks, moving the cursor to a later block boundary and
  dropping exactly those bytes from the buffer;
* retire, returning to unused;
* be freshly allocated, from unused, with any span.

`Webseed` defines `Transfer == INSTANCE TaskTransfer WITH xfer <- ...`,
mapping each slot to its `st`, `span`, `loc` (as `saved`) and `buf` (as
`data`). The property `TaskTransferRefined == Transfer!Spec` is checked
in the run `webseed_safety`, over three task slots. It shows that every step of the
webseed (transport callbacks, the completion handler with its drain and
next chunk, teardown, slot reuse) is a step of the abstract task or
leaves it unchanged.

## 3. Runs

| Run | cfg | Expect | Shows |
|---|---|---|---|
| webseed_safety | `MCWebseed.cfg` | pass | `TypeOK`; `CacheIntegrity` (every queued block holds its own bytes); `ChunkFollowsBuffer` (a fetch asks for the bytes right after the buffer, within one file and the span); `LimiterCountsFetches` (`n_tasks` = tasks with a fetch in flight); `HeldTaskHasFetch` (every task in `tasks` of an existing torrent has a fetch in flight, so none stalls); `AdmissionRespectsLimit` (action: admitting tasks never exceeds `maxConnections()`); `BlocksAccounted` (action: a retired task's blocks are had, queued or rejected); `TaskTransferRefined` (the webseed implements the abstract `TaskTransfer`) |
| webseed_liveness | `MCWebseedLive.cfg` | pass | with the webseed destroyed and made again: `TaskEventuallyRetires` (every task allocation leaves `tasks` unless the torrent goes away, under a fair transport and a server that eventually sends bytes) |
| filechunks | `MCFileChunks.cfg` | pass | `ChunksPartitionRange` (the chunks cover the range exactly, none empty, none across a file, empty files included); `OneRequestPerFile` (one request per non-empty file the range touches) |
| webseed_empty_206_loop | `MCWebseed_TaskEventuallyRetires.cfg` | violation | with only the transport fair, a server answering every range with an empty 206 keeps a task re-requesting forever (webseed.cc:469) |
| webseed_gotdata_after_destroy | `MCWebseed_GotDataOnLiveWebseed.cfg` | violation | dead-flag TOCTOU in `onBufferGotData` (webseed.cc:405) |
| webseed_publish_after_destroy | `MCWebseed_PublishOnLiveWebseed.cfg` | violation | a deferred write publishes through a destroyed webseed (webseed.cc:345) |
| webseed_task_leak | `MCWebseed_NoLeakedTask.cfg` | violation | a completion for a gone torrent leaves the task neither erased nor deleted (webseed.cc:449) |
| limiter_cooldown | `MCConnectionLimiter.cfg` | violation | after the pause the limiter allows 1 connection, not the ceiling (webseed.cc:143) |
| netaddr_valid_for_peers | `NetAddress.cfg` | pass | `ValidForPeersMatchesReference`: the byte masks equal the CIDR blocks 0/8, 127/8, 224/3, ff00::/8, ::/127, fe80::/10, ::ffff:0:0/96 |
| netcodec | `NetCodec.cfg` | pass | `CompareIsAddressOrder` (compare is IPv4-before-IPv6, then numeric); `SockaddrRoundTrip` (to_sockaddr then from_sockaddr gives back address and port, the port big-endian); `CompactPeerDecodes` (a compact peer decodes to its address and port, cursor at the next record) |
| netsockets_ownership | `NetSockets.cfg` | pass | `DescriptorsOwned`: whichever system call fails, each open descriptor has exactly one owner (the running helper, a peer socket or a listener) |
| netaddr_global_unicast | `NetAddress_GlobalUnicastOutsideReservedBlocks.cfg` | violation | 231-239.x.x.x (net.cc:659) and 127/8 (no test, net.cc:563) are treated as global unicast |

Each property of a passing run has a mutant in `PROJECT.json`. A mutant is
a plausible bug in the mapped code, and TLC must find the property violated
once the mutant is applied:

* the chunk starts at the cursor, not after the buffer;
* the chunk ignores the file's end;
* the failure path skips `--n_tasks`;
* the span list is not truncated;
* the rejection range is off by one at either end;
* a failed task is not erased from `tasks`;
* a span crossing a file end is not continued (no next chunk);
* the martian mask is 0xF0;
* `bind()` failure in `tr_netOpenPeerSocket` skips the close;
* for the refinement, the chunk starts at the cursor;
* the chunk size ignores the file's end, or counts it one byte short;
* `compare` looks at the first address byte only;
* `to_sockaddr` stores the port in host order;
* `tr_port::from_compact` reads the port in host order.

### Bounds

`MCWebseed.cfg` uses these bounds:

* two files of 1 and 2 bytes;
* `BlockSize` = 2, so block 0 straddles the file boundary and block 1 is the
  short last block;
* three task slots;
* `MaxConnections` = 2;
* up to 2 spans per peer-manager call.

They cover the cases that make the code hard:

* a span that needs two chunks, with half a block carried over in the
  buffer;
* truncated answers at any byte;
* more offered spans than free slots;
* the one-slot mode after a failure;
* slot reuse;
* teardown and torrent removal at any point.

The run uses symmetry over the interchangeable task slots. A third file or a
third block took far longer without reaching a new kind of case.

The refinement property is checked in the safety run under symmetry.
This is sound: it is a safety property, and `TaskTransfer` treats every
slot alike, so it is symmetric in the slots.

`MCFileChunks.cfg` allows up to 4 files of 0..3 bytes (7054 layouts with
ranges). This covers ranges that start or end at every position of a
file, that span several files, and that cross empty files at the start, in
the middle and at the end. The full model has a single layout.

The liveness runs use one task slot and `RequestTags` = 2. Slot reuse
still happens in them. `webseed_liveness` also lets the webseed be made
twice (`MaxWebseeds` = 2). With one slot, the new webseed's task can only
start once the old webseed's dead task has completed, but the old
webseed's queued block writes can still run after the new webseed exists. The other webseed runs make one webseed; with two,
the three-slot safety run, and a two-slot run checking only the
refinement, did not finish within the time limit.

`NetCodec.cfg` tries IPv4 bytes {0, 1, 255}, IPv6 addresses whose first,
middle and last bytes range over {0, 255}, and ports {0, 1, 256, 51413,
65535}. Every pair of these differs in a first, a middle or a last byte,
and the ports include ones whose two bytes differ, so a swapped byte order
shows.

`NetSockets.cfg` allows 4 descriptors and 2 peers: a listener, peers up
to the limit, an accept at the limit that must close what it accepted,
and reuse of the lowest closed descriptor by the next call.

`NetAddress.cfg` tries every first IPv4 octet. Validity depends only on the
first octet, because the other octets are fixed. It also tries IPv6 shapes
that reach every byte test. The violation cfgs add boundary values for the
second and third octets.

### Fairness

`FairSpec` assumes weak fairness on two steps:

* **Completion of a task's fetch.** The web layer always calls its
  completion callback, after an answer or after its own timeout.
* **The locked half of `onBufferGotData`.** The session lock is eventually
  granted.

`FairSpec` also assumes `ServerSendsData`: weak fairness of some bytes
arriving for each task. This is an assumption about the server, not the
code. Without it (`TransportFairSpec`) the run `webseed_empty_206_loop`
shows the task may never retire. Nothing is assumed of the idle timer or
the environment.

## 4. Not modelled

### Not modelled

* **Read-only observers.** `activeReqCount`, `display_name`, `has`,
  `get_piece_speed` and `tr_webseedView` change no state.
* **Bandwidth accounting.** Not modelled.
* **Socket options in `net.cc`.** `tr_netSetTOS`,
  `tr_netSetCongestionControl` and the `setsockopt` calls that only log
  change no descriptor; `tr_tos_t` maps names to numbers.
* **Text conversion in `net.cc`.** `tr_address::from_string`,
  `display_name` and `tr_net_strerror` go through `inet_pton`/`inet_ntop`
  and string formatting; nothing a property here is about depends on them.
* **Duplicate GotBlock events.** Two tasks on overlapping spans may both
  queue the same block (`has_block` is read before the other write runs).
  `CacheIntegrity` shows both copies hold the block's bytes. The model's
  queued writes are a set, so identical copies merge, and the second
  `GotBlock` event is not counted.
* **Other files.** `rpcimpl.h`, `utp_templates.h` and the build files are
  declarations and configuration.

* **Empty files and `file_offset`.** `tr_torrent::file_offset` is not
  under `src/`. `FileChunks` follows the spec: a byte belongs to the file
  whose bytes include it, so an empty file is never chosen. If the real
  lookup can return an empty file at a boundary, `this_chunk` would be 0.
  The spec leaves this open.
* **URLs.** `makeUrl` only builds the request URL from the base URL and the
  file's path. The model assumes every request reaches the file it names.
