# TLA+ models of ardopmeshchat

This directory holds TLA+ models of the mesh chat stack in `src/`. TLC checks
them. Each module is translated from the Python source. The `map` of
`PROJECT.json` names the lines each definition stands for.

## 1. The system

| Part | Source | What it does |
|---|---|---|
| Mesh node engine | `src/mesh_node.py` | BATMAN-lite routing. A node floods OGMs; the originator table holds a best next hop per origin. DATA is flooded with a TTL. A dedup cache keyed on `(origin_id, seqno)` suppresses copies. One 32-bit sequence counter serves OGM and DATA. An OGM thread emits; a cleanup thread ages out routes and dedup entries. |
| KISS link | `src/kiss_link.py` | `KISSClient` owns one TNC connection. An RX thread holds the transport lock for all of `read()` and calls the mesh callback for each frame. A TX thread drains a bounded queue. `_connect_with_backoff` reconnects with doubling delays. `stop()` enqueues a sentinel, joins with timeouts and closes the transport. |
| AX.25 / mesh header codec | `src/mesh_node.py` | Pure functions: callsign shifting, UI frame wrapping, and `struct` packing of the mesh header and bodies. |
| Chat store | `src/chat_store.py` | SQLite log with `UNIQUE(origin_id, seqno)` and `INSERT OR IGNORE`. One connection, shared by threads (`check_same_thread=False`). |
| Config loader | `src/config_loader.py` | Turns a YAML mapping into config records with defaults. |

The parts interact as follows:
- The mesh node calls `KISSClient.send` from three places: the OGM thread, application threads (`send_application_data`), and its own RX dispatcher. The dispatcher runs inside the RX thread's read callback and forwards OGMs and DATA with a *blocking* send while that thread holds the transport lock.
- The chat store records what the mesh delivers to the application callback, keyed by the same `(origin_id, seqno)` as the dedup cache. The callback runs on the RX thread, inside `KISSClient._handle_rx_frame`, which catches only `ValueError`.

### Hard behaviours of the code

- **Interleavings of RX, TX and the caller of `stop()`.** They share `_kiss_iface`, `_connected` and `_lock`. Several tests are made outside the lock and acted on inside it.
- **A wait cycle.** The RX thread waits on a full queue; the TX thread waits on the lock.
- **Transport failures and reconnects.** Backoff arithmetic is involved.
- **Flooding over a lossy, reordering, duplicating radio.** Dedup and route freshness depend on time, TTL and seqnos.
- **Restarts.** Nothing is persisted, so seqnos are reused.
- **The cleanup thread.** It iterates shared dictionaries without the lock.

## 2. Modules

### `MeshNode.tla`: the mesh engine over a shared radio

**State**
- Per node: `seqno` (`_seqno`), `originators` (`_routing_state.originators`) and `data_seen` (`_data_seen`).
- `air`: the set of frames in flight.
- History variables used only by the properties:
  - `inc`: incarnations;
  - `issued`: seqnos handed out;
  - `accepted` and `suppressed`: the results of the dedup gate;
  - `delivered`: a bag of app-callback calls, so duplicate calls are counted.

**Actions**

| Action | Code |
|---|---|
| `EmitOGM` | `_ogm_loop` + `_build_ogm_payload` |
| `SendApplicationData` | `send_application_data` |
| `ReceiveOGM` | `_on_kiss_frame` → `_handle_ogm`: originator update and TTL-decremented re-broadcast |
| `ReceiveDuplicateData` / `ReceiveFreshData` | the two outcomes of the dedup gate in `_handle_data_frame`: drop, or record, deliver when `dest` is self, and forward when `DataForwarded` |
| `Cleanup` | one pass of `_cleanup_loop` |
| `Restart` | a new `MeshNode` |
| `Tick` | time passing |

**Abstractions**
- The KISS link is abstracted to broadcast to the hearers in `Links`.
- A frame is a record of its header fields.
- Loss needs no action, because a frame may stay in `air` forever.
- The link metric is constant, so it is left out.
- The neighbor table is left out: the node writes it but no decision reads it.
- Bodies are well formed.

`MC_MeshNode.tla` defines three nodes, the triangle topology (all hear all) and the symmetry.

### `KissLink.tla`: the KISS client, statement by statement

**State**
- The code's fields: `running`, `connected`, `iface` (`None`, `"up"` or `"down"`), `lock` (the holder of `_lock`) and `queue`.
- One `pc` per thread: `"rx"`, `"tx"`, and `"stop"` for the caller of `stop()`.
- The locals `ret`, `delay` and `txFrame` of `_connect_with_backoff` and `_tx_loop`.
- `rxFrame`: the frame the RX callback is enqueuing.
- Environment: `tncUp` and `failures`.
- `starts`: the calls of `start()`.
- History: `sent` and `written`.

**Actions.** Each action is one statement, or one `with self._lock` block that does not block:
- `Start`, `SendFrame`, `StopBegin`, `StopClose`;
- the `Cwb*` steps of `_connect_with_backoff`;
- the `Rx*` steps of `_rx_loop`. `RxCallbackSend` and `RxPut` are the mesh callback's send under the lock;
- the `Tx*` steps of `_tx_loop`;
- environment: `LinkFail` (the TNC connection breaks and the TNC goes away) and `TncRecover`;
- `Terminated`, the final stutter.

**Exceptions**
- `start()` of the transport raising `OSError` is `CwbConnect` with `~tncUp`. The failed object stays in `_kiss_iface` as `"down"`.
- `read()` raising is `RxReadError`; returning is `RxReadReturn`.
- The uncaught `KISSClientError` paths send the thread to `"dead"`.

`Start` may run again after a `stop()` whose joins succeeded, so a queue left over from the last run is seen by the next one. The joins' timeouts are modelled by `StopClose` being allowed at any point of the threads.

`MC_KissLink.tla` only extends the module; the constants are in the `.cfg` files.

### `MeshCleanup.tla`: the cleanup thread against the RX thread of one node

`MeshNode` takes a cleanup pass as one step. `MeshCleanup` splits it the way the code runs it.

**State**
- `tables`: the originator, neighbor and dedup tables, each a function from key to `last_seen` (or `ts`).
- `last_seqno`: the originators' seqnos.
- The cleanup thread's `cpc`, the table it is on (`ctbl`), its `now` (`cnow`), the keys the running comprehension started with (`iterKeys`), and the listed keys (`dead`: `dead_orig`, `dead_nei` or `dead_data`).

**Actions**
- `RxOgm`: `_handle_ogm`. It refreshes the neighbor entry, then creates the originator entry, or refreshes it when the seqno is newer.
- `RxData`: the dedup gate of `_handle_data_frame`.
- `CleanupTop`: the loop head, which takes `now`.
- `ListBegin` and `ListEnd`: a comprehension over one table. It runs without a lock, so the RX thread can run between its start and its end. A key inserted in between makes `ListEnd` raise "dictionary changed size during iteration", and the thread ends (`cpc = "dead"`).
- `Delete`: the `del` loop over the listed keys, then on to the next table.
- `Tick`: time passing.

`MC_MeshCleanup.tla` has two interchangeable peers; `MC_MeshCleanup_dies.cfg` instantiates it.

### `ChatStore.tla` and `MeshChatLog.tla`: the chat log and its writer

`ChatStore` is the SQLite log:
- `rows` is a function from `(origin_id, seqno)` to `[line, ts]`, because of `UNIQUE(origin_id, seqno)`. `line` stands for channel, nick and text together, the chat line; the `id` column is read by no query and is left out.
- `open` is the connection's state.
- Actions: `AddMessage` (`INSERT OR IGNORE` and commit), `Close`, and the `HasMessage` operator.
- The queries change no state and are not modelled.

`MeshChatLog` composes `MeshCleanup` with an `INSTANCE` of `ChatStore`:
- A DATA frame passes the dedup gate (`RxData`). It is then either forwarded (`ForwardData`) or delivered to the application callback.
- On delivery, the callback calls `add_message` with `ts = time.time()` (`DeliverData`).
- On a closed log it raises `ProgrammingError`. Only `ValueError` is caught, so the RX thread ends (`DeliverDataClosed`).
- The callback and `CloseLog` are the chat client's, which is not under `src/`. They follow the spec and are marked `spec_modelled` in the map.

`MC_MeshChatLog.tla` has two peers and one chat line.

### `MeshChatRestart.tla`: senders that restart, against the persisted log

`MeshChatRestart` extends `MeshChatLog` with the senders of the lines the node receives:
- `senderSeq` is each sender's `_seqno`; `SendLine` is `send_application_data` with `_next_seqno`, and puts the frame `[o, s, line]` into `sent`.
- `RestartSender` is a new `MeshNode` for the sender: `_seqno` is 0 again. The receiver's log is a file and survives; its `_data_seen` is that of a node that keeps running.
- `HearLine` is a frame of `sent` heard and passed by the dedup gate, then delivered (`DeliverData`). `HearDuplicate` is one the gate drops. Sent frames stay on the air, so any may be heard late or again.
- `heard` records what the RX thread handled, for the property.

`MC_MeshChatRestart.tla` has one sender, one seqno, two lines and one restart.

### `MeshLifecycle.tla`: start() and stop() against the routing threads

- `running` is `_running`, `thread[l]` the field `_ogm_thread` or `_cleanup_thread` (the number of the `start()` that made it), `tpc[t]` where each thread is in its loop, and `caller` the join the application thread waits in.
- `Start` and `Stop` are the whole methods up to the joins, both early returns included. The KISS client's `start`/`stop` is a flag here (`KissLink` models them).
- `JoinReturns` is a join that sees its thread end. `JoinTimesOut` is one that gives up while the thread sleeps, possible when that sleep (`ogm_interval_seconds`, or 5 s for the cleanup) is at least the 5 s timeout. For the cleanup this is a tie, so it needs the sleep to overshoot; for the OGM loop's default of 10 s it is the common case.
- `Test`, `Work` and `Wake` are a loop's `while` test, one round of its work, and the end of its sleep. The work itself is `MeshNode`'s `EmitOGM` and `MeshCleanup`'s pass.
- `worked` records which thread did a round of which loop in which run (the count of `start()`s).

`MC_MeshLifecycle.cfg` allows two `start()`s and uses the default interval of 10. After the last `stop()`, every thread ends and the program has stopped, so deadlock is not checked in this run.

### `TxChannel.tla`: what the TX path promises

This is an abstract FIFO channel. Each frame accepted by `send()` is either written or dropped at the head, never reordered or repeated:
- `Enqueue`, `Deliver` and `DropHead`.
- `KissLink` instantiates it as `Channel == INSTANCE TxChannel WITH Msgs <- Frames, pending <- PendingFrames, out <- written`.
- `PendingFrames` is the refinement mapping: the frame the TX thread holds (taken from the queue and not yet written or dropped), followed by the frames in the queue (sentinels filtered out).
- `TxFifoChannel == Channel!Spec` is checked as a `PROPERTY`.

### `MeshCodec.tla`: the frame codecs at the byte level

A frame is a sequence of byte values and a callsign a sequence of ASCII codes. The codec functions are operators:
- `EncodeAx25Address` (`_encode_ax25_address`): split at the first `-`, `int()` of the SSID or 0, uppercase, cut to 6, pad with spaces, shift left, SSID byte `0x60 | (ssid & 0x0F) << 1` with bit 0 on the last address.
- `WrapInAx25Ui`, `FindInfoStart`, `DeriveNodeId`.
- `BuildMeshHeader` and `ParseMeshHeader`, with `Be32`/`UnBe32` for `struct`'s `>I`.
- `BuildOgmPayload` and `BuildDataPayload`.
- `OnKissFrame` (`_on_kiss_frame`): every early return, giving either `Dropped` or the handler call with its arguments.

State: `seqno` per node, `air` (every frame sent, with the handler call its builder meant it for), `dataSeen` per node, and the histories `delivered`, `sentData` and `forwards`.

Actions:
- `EmitOGM` is one round of `_ogm_loop`.
- `SendApplicationData`.
- `ReceiveOGM` is `_on_kiss_frame` into `_handle_ogm`. It forwards with ttl − 1 when ttl > 1, rebuilding the header and the body `self_node_id || link_metric`.
- `ReceiveDuplicateData` is the dedup gate's early return.
- `ReceiveNewData` records the key, then either delivers (`dest_id == _node_id`), forwards the body verbatim (ttl > 1 and a route, a free choice here), or drops.

Routing tables are `MeshNode`'s concern. Encryption is off, and payloads are ones zlib does not shorten, so flags are 0. `_next_seqno`'s 32-bit mask is not reached. Each node's callsign, `mesh_dest_callsign` and `ogm_ttl` are constants per node, as the code reads them from its own config.

### `ConfigLoader.tla`: the YAML loader

Operators that translate `load_chat_config_from_yaml` and the loaders it calls:
- YAML mappings are functions from key strings, and YAML strings are ASCII-code sequences.
- `LoadError` gives the exception the first failing step raises, in the code's order:
  - `KeyError` for `mesh.callsign` or `chat.db_path`;
  - `ValueError` for an unknown transport, after `lower()`;
  - `binascii.Error` for bad hex;
  - `ValueError` for a peer id that is not 8 bytes.
- `LoadMeshNodeConfig` gives the resulting config, with every default.

`MC_MeshCodec` composes the two. Each node's constants are what the loader makes of that node's YAML document, and an `ASSUME` requires the documents to load.

## 3. Runs

**Mesh runs**

| Run | cfg | Expect | Properties |
|---|---|---|---|
| mesh_core | `MC_MeshNode.cfg` | pass | TypeOK, DedupWindow, DedupSound, RouteSeqBounded |
| mesh_chat_restart | `MC_MeshChatRestart.cfg` | violation | LinesLogged |
| mesh_lifecycle | `MC_MeshLifecycle.cfg` | violation | OneThreadPerLoop |

What the mesh properties say:
- **DedupWindow:** two app deliveries of one packet (same node, incarnation and key) are more than `data_seen_expiry` apart.
- **DedupSound:** the dedup gate suppresses only packets it has accepted before. An origin that has restarted is left out, because it reuses its keys; `mesh_chat_restart` shows what that costs.
- **RouteSeqBounded:** no route's `last_seqno` is ahead of the counter of an originator that has not restarted. A restarted originator's counter starts at 0, below its old entries, until they expire (hazard at `mesh_node.py:312`).

The violation run `mesh_lifecycle` checks **OneThreadPerLoop**: in each run of the node, one thread does the rounds of each loop (spec §5: one OGM emitter, one cleanup sweeper). TLC finds it violated in 12 states. `stop()`'s join on the sleeping OGM thread times out, `start()` creates a new OGM thread, and the old one wakes, finds `_running` set, and runs beside it (`mesh_node.py:155`).

The violation run `mesh_chat_restart` checks **LinesLogged**: every line the receiver's RX thread handled is in its chat log as sent. A restarted sender reuses its `(origin_id, seqno)` keys (`src/mesh_node.py:104`), so the new line is lost in one of two ways:
- within `data_seen_expiry`, the dedup gate drops it (TLC: send L1, restart, send L2, hear L1, hear L2; 6 states);
- after the key expires, the line is delivered, and `INSERT OR IGNORE` keeps the old row for ever (`chat_store.py:56`). TLC reaches this path too when the dedup path is taken out of the model.

**Cleanup and chat log runs**

| Run | cfg | Expect | Properties |
|---|---|---|---|
| mesh_cleanup | `MC_MeshChatLog.cfg` | pass | DeliveryTypeOK, DedupKeptForWindow |
| mesh_cleanup_dies | `MC_MeshCleanup_dies.cfg` | violation | CleanupAlive |

What these runs show:
- **mesh_cleanup:**
  - `dead_data` is listed with the pass's `now` and without `_data_seen_lock`, then deleted under the lock after the RX thread may have run. Even so, a dedup key is deleted only when it is older than `data_seen_expiry` at the moment it is deleted (DedupKeptForWindow).
  - Once a key has expired, a late copy is delivered again. The log's `INSERT OR IGNORE` then keeps the first row; no property restates that guard.
- **mesh_cleanup_dies:** an OGM or DATA frame inserts a key while a comprehension iterates that table. The `RuntimeError` ends the cleanup thread (`mesh_node.py:486/494/504`), and from then on nothing expires.

The same unlocked access has a second effect, which is listed as a hazard (`mesh_node.py:486`):
- The cleanup lists an expired originator.
- An OGM then refreshes that originator.
- The cleanup deletes the now-fresh route.

`DeletesOnlyExpired("originators")` in `MeshCleanup` states it, and TLC finds it violated with two seqnos. It has no run of its own, because it shares its root cause with `mesh_cleanup_dies`.

**Codec run**

| Run | cfg | Expect | Properties |
|---|---|---|---|
| mesh_codec | `MC_MeshCodec.cfg` | pass | TypeOK, RoundTrip, ForwardRule, DeliveredAsSent, AddressesDecode |

What it shows, for three nodes configured through the loader:
- **RoundTrip:** every frame on the air, whether originated or re-encoded by a forwarder, is dispatched by `_on_kiss_frame` to the handler and arguments its builder meant (spec §4.2 and §8.5).
- **ForwardRule:** a forwarded frame keeps bytes 17–32 of the frame heard, except the ttl. The ttl is one less and at least 1. For DATA the body is kept byte for byte (spec §8.2 and §8.8).
- **DeliveredAsSent:** each app callback call at a node carries exactly the origin, dest_id, seqno and payload of a `send_application_data` addressed to that node.
  - Delivery compares `dest_id` with the node's own id, so the property fails when two callsigns derive the same id.
  - An example is `kd2abc-1` with `kd2abc-10`: TLC finds the violation in 74 states with such a pair. This is listed as a hazard at `mesh_node.py:179`.
- **AddressesDecode:** both AX.25 addresses decode, by the spec §4.2 reading (byte >> 1, SSID bits, last bit), to the uppercased destination and the sender's callsign, with the source marked last.

**KISS runs**

| Run | cfg | Expect | Properties |
|---|---|---|---|
| kiss_core | `MC_KissLink.cfg` | pass | TypeOK, TxFifoChannel |
| kiss_liveness | `MC_KissLink_live.cfg` | pass | Reconnects |
| kiss_tx_thread_death | `MC_KissLink_txdeath.cfg` | violation | TxThreadAlive |
| kiss_lock_queue_cycle | `MC_KissLink_cycle.cfg` | violation | NoLockQueueCycle |
| kiss_stop_leaves_open | `MC_KissLink_stop.cfg` | violation | StoppedMeansClosed |
| kiss_reconnect_livelock | `MC_KissLink_reconnect.cfg` | violation | Reconnects |

What the KISS runs show:
- **kiss_core:**
  - The TX path implements `TxChannel` (TxFifoChannel). Frames reach the TNC in enqueue order, each at most once, across reconnects, dropped writes and a restart.
  - The sentinel is never written (TypeOK).
- **kiss_liveness:** under the fairness described below, in which `read()` is never assumed to return.
  - The RX thread alone restores a broken link (Reconnects).
- **kiss_tx_thread_death:** RX clears the interface between TX's unlocked test and its locked write. The uncaught `KISSClientError` ends the TX thread (`kiss_link.py:271`).
- **kiss_lock_queue_cycle:** RX waits for queue room while it holds `_lock`; TX waits for `_lock` (`kiss_link.py:238`).
- **kiss_stop_leaves_open:** a connect passed the running test before `stop()`. It opens a new transport after `stop()` closed the old one (`kiss_link.py:197-199`).
- **kiss_reconnect_livelock:** with a frame to send, the link need not come back under the same fairness.
  - A thread in `_connect_with_backoff` has set `_kiss_iface` and released the lock, but has not yet set `_connected`.
  - Meanwhile the TX thread's write fails, and its `OSError` handler clears the interface again (`kiss_link.py:278-280`), so `_connected` is then set with no transport (`kiss_link.py:202`).
  - The run shows a fair cycle of this.

Two more problems are listed as hazards, with no run:
- **Backoff overshoot.** The cap is tested before the doubling, so the defaults base 5 and max 60 give 5, 10, 20, 40, 80 (`kiss_link.py:210-213`), above the maximum of spec §4.1. `kiss_core` uses base 1 and max 2, where it cannot show, and checks no property of the delay.
- **`stop()` may not return.** After its joins, `stop()` waits for `_lock` (`kiss_link.py:129`), which the RX thread holds for the whole of a `read()` that blocks until a frame or an error (`kiss_link.py:234-238`). Under the fairness the code justifies, nothing makes it return.

The violation runs are recorded as findings in `PROJECT.json`. Every property of a passing run has a mutant there: a plausible bug in a mapped definition, defined next to it as a *Fault model* operator, which TLC finds violating the property. Examples: `ExpiredOffByOne` (`>=` for `>`), `TxTopLifo`, and `RxErrorKeepConnected`.

### Bounds and why they are enough

**Mesh**
- Three nodes in a triangle is the smallest topology where a packet reaches a node along two paths and a forwarder hears its own echo.
- `OgmTtl = 2` gives one re-broadcast.
- Two seqnos in total let two packets, or one packet and one OGM, race.
- Expiries of 0 with `MaxTime = 1` make expiry happen, and the clock step crosses it.
- One restart anywhere in the run: a reused key and a pre-restart copy still in the air occur together. `mesh_core` takes 1.5M states in about 80 s.
- All three nodes are interchangeable, so symmetry is sound.
- Seqno wrap-around is **not** reached (`MaxSends < SeqMod`). It is listed as a hazard.

**Cleanup and chat log**
- Two peers and expiries of 1 with the clock up to 2 let an entry be fresh at listing and expired at deletion, or the reverse. A key can expire and be delivered again.
- One seqno in the pass run keeps it at 830k states. The `mesh_cleanup_dies` run uses two seqnos.
- `mesh_chat_restart` needs one seqno and one restart: the second incarnation's first frame takes the first's key.

**Codec**
- Three callsign shapes:
  - lowercase, with a two-digit SSID, longer than 8 bytes (`kd2abc-10`);
  - a full six-character call with no SSID (`N0CALL`);
  - a short call with an SSID (`W1AW-7`).
- One destination left at its default and one given in lowercase.
- ogm_ttl 1, 2 and 3, so frames are forwarded never, once and twice, and a forward of a forward occurs.
- One seqno per node (`MaxSends = 1`), spent either on an OGM or on DATA to any node, including a node two hops away.
- The run reaches 31k states in 17 s. A ttl of 5 (the default) does not finish in 15 minutes, because OGMs have no dedup.

**KISS pass runs**
- Two starts, two frames and two outages cover:
  - a restart that finds a leftover sentinel or frame;
  - a write failing mid-queue;
  - both threads in `_connect_with_backoff` at once.
- The queue (4) is larger than all frames plus sentinels. This keeps `kiss_core` free of the known deadlock, which `kiss_lock_queue_cycle` shows separately.
- `kiss_liveness` sends no frame and allows two outages. A frame in flight brings in the livelock of `kiss_reconnect_livelock`.
- Deadlock checking is on in every pass run. Only `MC_KissLink_cycle.cfg` disables it, because that system really does stop there and the invariant names why.

### Fairness

`KissLink` defines `Fairness`, which is used only by the liveness runs:
- **Strong fairness for each thread's steps** (`RxProgress`, `TxStep`, `StopClose`). They are OS threads, and a step that waits for `_lock` is only intermittently enabled, since another thread may take the lock first.
- **No fairness on `RxReadReturn`, or on the arrival of a frame.** The kiss library's `read()` blocks until data or an error. `Reconnects` holds without it, because a broken link makes `read()` raise (`RxReadError` is part of the RX thread's fair steps).
- **Weak fairness of `TncRecover`.** A TNC that is down comes back. `LinkFail` is bounded by `MaxFailures`.
- **No fairness for the environment.** Callers of `start()`, `send()` and `stop()` get none.

The mesh, cleanup and codec runs check safety only.

## 4. Plan

Done:
- MeshNode, KissLink with its liveness, and the `TxChannel` refinement;
- MeshCleanup, and ChatStore composed with it;
- MeshCodec at the byte level, composed with ConfigLoader;
- MeshChatRestart: restarted senders against the persisted chat log;
- MeshLifecycle: start/stop of the routing threads with join timeouts.

Open, and why:
- **Seqno wrap** (`mesh_node.py:184`): a wrap needs 2^32 allocations by one node, which is decades at radio frame rates. No run reaches one.
- **Malformed and forged frames** (`mesh_node.py:392`): the dedup key is recorded before the body is checked, so such a frame could poison the key of a genuine one. It takes a faulty or forging sender, because the TNC drops frames with a bad FCS. No module models one.
- **Cleanup deleting a fresh route** (`mesh_node.py:486`): `DeletesOnlyExpired("originators")` states it and TLC finds it violated. It shares its root cause with `mesh_cleanup_dies`, and has no run of its own.
- **Routes of a restarted originator** (`mesh_node.py:312`): that they age out and come back is a liveness question. The mesh modules check safety only.

## 5. Not modelled

- **Parts of the config loader:**
  - the `isinstance(..., dict)` tests, because TLC cannot test the kind of an untagged value;
  - `str()` of a YAML number;
  - reading the file and `yaml.safe_load`.
- **The loader's lack of validation:** it validates nothing, and it has no run of its own.
  - A `tx_queue_size` of 0 makes the queue unbounded.
  - A `reconnect_base_delay` of 0 spins the reconnect loop.
  - An `ogm_ttl` above 255 makes `_build_mesh_header` raise.
  - These are listed as hazards. `KissLink` and `MeshCodec` assume values inside the ranges.
- **zlib and AES-GCM in DATA payloads:** the compressed and encrypted branches of `_build_data_payload` and `_handle_data_frame`.
- **The chat store's queries:**
  - `get_recent_messages` and `get_messages_since` change no state.
  - The docstring of `get_recent_messages` promises the latest messages. `ORDER BY ts ASC LIMIT ?` returns the oldest `limit` rows (`chat_store.py:88`). A unit test shows this directly.
- **crypto_layer.py, mesh_config.py and chat_client.py:** not in `src/`. The chat client's callback and its closing of the log follow the spec in `MeshChatLog`.
- **In KissLink:**
  - the non-blocking and timed forms of `send()`;
  - transport selection;
  - threads of an earlier run outliving `stop()` into the next `start()`.
