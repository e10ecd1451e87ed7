------------------------------ MODULE KissLink ------------------------------
(***************************************************************************)
(* KISSClient of src/kiss_link.py: one TNC connection shared by an RX      *)
(* thread and a TX thread, a bounded TX queue, a transport lock, and       *)
(* reconnection with exponential backoff.                                  *)
(*                                                                         *)
(* Threads: "rx" runs _rx_loop, "tx" runs _tx_loop, "stop" is the caller   *)
(* of stop().  Senders are the mesh node's OGM loop and application        *)
(* threads (SendFrame) and the mesh RX dispatcher itself, which runs       *)
(* inside the RX thread's read callback and forwards OGM and DATA frames   *)
(* with a blocking send (mesh_node.py _handle_ogm and _handle_data_frame). *)
(* A pc value names the statement a thread is about to execute; one step   *)
(* is one statement, or one "with self._lock" block when nothing inside it *)
(* blocks.                                                                 *)
(*                                                                         *)
(* The transport object is abstracted to its health: None, "up" (I/O      *)
(* succeeds) or "down" (I/O raises OSError).  The kiss library's read()    *)
(* runs the callback for each received frame and returns only on an        *)
(* error; RxReadReturn also lets it return, as a read timeout would.       *)
(* Sleeps are steps that change nothing but the pc.                        *)
(***************************************************************************)
EXTENDS Integers, Sequences, FiniteSets, TLC

CONSTANTS
    TxQueueSize,   \* kiss.tx_queue_size
    BaseDelay,     \* kiss.reconnect_base_delay
    MaxDelay,      \* kiss.reconnect_max_delay
    Sentinel,      \* model value: the empty frame b"" that stop() enqueues
    None,          \* model value: Python None
    MaxFrames,     \* bound on frames handed to send()
    MaxFailures,   \* bound on connection losses caused by the environment
    MaxStarts      \* bound on calls of start()

ASSUME
    /\ TxQueueSize \in Nat \ {0}
    /\ BaseDelay \in Nat \ {0}
    /\ MaxDelay \in Nat
    /\ MaxFrames \in Nat
    /\ MaxFailures \in Nat
    /\ MaxStarts \in Nat

Threads == {"rx", "tx"}           \* the threads that run _connect_with_backoff
Frames == 1 .. MaxFrames          \* frame n is the n-th frame handed to send()

VARIABLES
    running,     \* self._running
    connected,   \* self._connected
    iface,       \* self._kiss_iface: None, "up" or "down"
    lock,        \* holder of self._lock: None, "rx", "tx" or "stop"
    queue,       \* self._tx_queue
    pc,          \* pc[t]: next statement of thread t \in Threads \cup {"stop"}
    ret,         \* ret[t]: where _connect_with_backoff returns to
    delay,       \* delay[t]: the local delay of _connect_with_backoff
    txFrame,     \* the frame local of _tx_loop
    rxFrame,     \* the frame the RX callback is putting on the queue
    tncUp,       \* environment: the TNC accepts connections
    failures,    \* environment: connection losses so far
    starts,      \* calls of start() so far
    sent,        \* history: frames put on the queue, in order
    written      \* history: frames written to the TNC, in order

vars == <<running, connected, iface, lock, queue, pc, ret, delay, txFrame,
          rxFrame, tncUp, failures, starts, sent, written>>

-----------------------------------------------------------------------------
\* Helpers

\* The "(not connected) or (iface is None)" test of both loops.
NeedsConnect == ~connected \/ iface = None

\* Frames allocated so far (sent plus the one the RX callback holds).
Allocated == Len(sent) + (IF rxFrame = None THEN 0 ELSE 1)

\* self._tx_queue.put(frame): append when there is room.
Put(f) ==
    /\ Len(queue) < TxQueueSize
    /\ queue' = Append(queue, f)
    /\ sent' = Append(sent, f)

\* Entering _connect_with_backoff from thread t, returning to label r.
CallConnect(t, r) ==
    /\ pc' = [pc EXCEPT ![t] = "cwb_check"]
    /\ ret' = [ret EXCEPT ![t] = r]
    /\ delay' = [delay EXCEPT ![t] = BaseDelay]

Goto(t, l) == pc' = [pc EXCEPT ![t] = l]

-----------------------------------------------------------------------------

Init ==
    /\ running = FALSE
    /\ connected = FALSE
    /\ iface = None
    /\ lock = None
    /\ queue = <<>>
    /\ pc = [t \in Threads \cup {"stop"} |-> "idle"]
    /\ ret = [t \in Threads |-> "idle"]
    /\ delay = [t \in Threads |-> BaseDelay]
    /\ txFrame = None
    /\ rxFrame = None
    /\ tncUp = TRUE
    /\ failures = 0
    /\ starts = 0
    /\ sent = <<>>
    /\ written = <<>>

-----------------------------------------------------------------------------
\* Public API

\* start(): set running and spawn fresh RX and TX threads.  The queue,
\* the transport and the connected flag are kept from an earlier run, so
\* a restarted TX thread finds what the last run left in the queue.  The
\* threads of an earlier run have ended (stop()'s joins did not time out).
Start ==
    /\ ~running
    /\ starts < MaxStarts
    /\ pc["stop"] \in {"idle", "stopped"}
    /\ \A t \in Threads : pc[t] \in {"idle", "done", "dead"}
    /\ running' = TRUE
    /\ starts' = starts + 1
    /\ pc' = [pc EXCEPT !["rx"] = "rx_top", !["tx"] = "tx_top", !["stop"] = "idle"]
    /\ UNCHANGED <<connected, iface, lock, queue, ret, delay, txFrame, rxFrame,
                   tncUp, failures, sent, written>>

\* send(frame) from a thread other than RX: rejected when not running,
\* else a blocking put (the step is enabled once there is room).
SendFrame ==
    /\ running
    /\ Allocated < MaxFrames
    /\ Put(Allocated + 1)
    /\ UNCHANGED <<running, connected, iface, lock, pc, ret, delay, txFrame,
                   rxFrame, tncUp, failures, starts, written>>

\* stop(): clear running, try to enqueue the wake-up sentinel (skipped when
\* the queue is full), then join both threads with a timeout, which may
\* expire at any point of theirs.
StopBegin ==
    /\ running
    /\ pc["stop"] = "idle"
    /\ running' = FALSE
    /\ queue' = IF Len(queue) < TxQueueSize THEN Append(queue, Sentinel) ELSE queue
    /\ Goto("stop", "stop_close")
    /\ UNCHANGED <<connected, iface, lock, ret, delay, txFrame, rxFrame,
                   tncUp, failures, starts, sent, written>>

\* stop(), after the joins: under the lock, stop and drop the transport.
StopClose ==
    /\ pc["stop"] = "stop_close"
    /\ lock = None
    /\ iface' = None
    /\ connected' = IF iface = None THEN connected ELSE FALSE
    /\ Goto("stop", "stopped")
    /\ UNCHANGED <<running, lock, queue, ret, delay, txFrame, rxFrame,
                   tncUp, failures, starts, sent, written>>

-----------------------------------------------------------------------------
\* _connect_with_backoff, run by thread t

\* The loop test: while running and not connected.
CwbCheck(t) ==
    /\ pc[t] = "cwb_check"
    /\ Goto(t, IF running /\ ~connected THEN "cwb_connect" ELSE ret[t])
    /\ UNCHANGED <<running, connected, iface, lock, queue, ret, delay, txFrame,
                   rxFrame, tncUp, failures, starts, sent, written>>

\* Under the lock, create a new interface and start it; start raises
\* OSError when the TNC is unreachable, and the failed object stays in
\* self._kiss_iface.
CwbConnect(t) ==
    /\ pc[t] = "cwb_connect"
    /\ lock = None
    /\ iface' = IF tncUp THEN "up" ELSE "down"
    /\ connected' = IF tncUp THEN connected ELSE FALSE
    /\ Goto(t, IF tncUp THEN "cwb_set" ELSE "cwb_sleep")
    /\ UNCHANGED <<running, lock, queue, ret, delay, txFrame, rxFrame,
                   tncUp, failures, starts, sent, written>>

\* self._connected.set(), after the lock is released.
CwbSet(t) ==
    /\ pc[t] = "cwb_set"
    /\ connected' = TRUE
    /\ Goto(t, "cwb_check")
    /\ UNCHANGED <<running, iface, lock, queue, ret, delay, txFrame, rxFrame,
                   tncUp, failures, starts, sent, written>>

\* sleep(delay), then double delay if it is below reconnect_max_delay.
CwbSleep(t) ==
    /\ pc[t] = "cwb_sleep"
    /\ delay' = [delay EXCEPT ![t] = IF @ < MaxDelay THEN 2 * @ ELSE @]
    /\ Goto(t, "cwb_check")
    /\ UNCHANGED <<running, connected, iface, lock, queue, ret, txFrame,
                   rxFrame, tncUp, failures, starts, sent, written>>

-----------------------------------------------------------------------------
\* _rx_loop

\* Loop head: exit when not running; connect when needed; else read.
RxTop ==
    /\ pc["rx"] = "rx_top"
    /\ \/ /\ ~running
          /\ Goto("rx", "done")
          /\ UNCHANGED <<ret, delay>>
       \/ /\ running /\ NeedsConnect
          /\ CallConnect("rx", "rx_after_connect")
       \/ /\ running /\ ~NeedsConnect
          /\ Goto("rx", "rx_lock")
          /\ UNCHANGED <<ret, delay>>
    /\ UNCHANGED <<running, connected, iface, lock, queue, txFrame, rxFrame,
                   tncUp, failures, starts, sent, written>>

\* After _connect_with_backoff: still no connection -> sleep(1), continue.
RxAfterConnect ==
    /\ pc["rx"] = "rx_after_connect"
    /\ Goto("rx", IF NeedsConnect THEN "rx_top" ELSE "rx_lock")
    /\ UNCHANGED <<running, connected, iface, lock, queue, ret, delay, txFrame,
                   rxFrame, tncUp, failures, starts, sent, written>>

\* with self._lock: if the interface is gone, clear connected and continue;
\* else call read() and keep the lock while it runs.
RxLock ==
    /\ pc["rx"] = "rx_lock"
    /\ lock = None
    /\ \/ /\ iface = None
          /\ connected' = FALSE
          /\ Goto("rx", "rx_top")
          /\ UNCHANGED lock
       \/ /\ iface # None
          /\ lock' = "rx"
          /\ Goto("rx", "rx_read")
          /\ UNCHANGED connected
    /\ UNCHANGED <<running, iface, queue, ret, delay, txFrame, rxFrame,
                   tncUp, failures, starts, sent, written>>

\* A frame arrives; the mesh dispatcher forwards it with a blocking send.
\* send raises KISSClientError when not running, and nothing on the way
\* out catches it, so the RX thread ends; else the put waits for room.
RxCallbackSend ==
    /\ pc["rx"] = "rx_read"
    /\ iface = "up"
    /\ \/ /\ ~running
          /\ lock' = None
          /\ Goto("rx", "dead")
          /\ UNCHANGED rxFrame
       \/ /\ running
          /\ Allocated < MaxFrames
          /\ rxFrame' = Allocated + 1
          /\ Goto("rx", "rx_put")
          /\ UNCHANGED lock
    /\ UNCHANGED <<running, connected, iface, queue, ret, delay, txFrame,
                   tncUp, failures, starts, sent, written>>

\* The blocking put of the RX callback completes once there is room; the
\* RX thread still holds the transport lock.
RxPut ==
    /\ pc["rx"] = "rx_put"
    /\ Put(rxFrame)
    /\ rxFrame' = None
    /\ Goto("rx", "rx_read")
    /\ UNCHANGED <<running, connected, iface, lock, ret, delay, txFrame,
                   tncUp, failures, starts, written>>

\* read() raises OSError on a broken transport: the lock is released.
RxReadError ==
    /\ pc["rx"] = "rx_read"
    /\ iface = "down"
    /\ lock' = None
    /\ Goto("rx", "rx_error")
    /\ UNCHANGED <<running, connected, iface, queue, ret, delay, txFrame,
                   rxFrame, tncUp, failures, starts, sent, written>>

\* Fault model (mutant): the error path drops the transport but leaves
\* connected set.
RxErrorKeepConnected ==
    /\ pc["rx"] = "rx_error"
    /\ lock = None
    /\ iface' = None
    /\ Goto("rx", "rx_top")
    /\ UNCHANGED <<running, connected, lock, queue, ret, delay, txFrame, rxFrame,
                   tncUp, failures, starts, sent, written>>

\* read() on a working transport returns (a read timeout of the library):
\* back to the loop head.
RxReadReturn ==
    /\ pc["rx"] = "rx_read"
    /\ iface = "up"
    /\ lock' = None
    /\ Goto("rx", "rx_top")
    /\ UNCHANGED <<running, connected, iface, queue, ret, delay, txFrame,
                   rxFrame, tncUp, failures, starts, sent, written>>

\* except OSError: with the lock, drop the transport and clear connected;
\* then sleep(1) and loop.
RxError ==
    /\ pc["rx"] = "rx_error"
    /\ lock = None
    /\ iface' = None
    /\ connected' = FALSE
    /\ Goto("rx", "rx_top")
    /\ UNCHANGED <<running, lock, queue, ret, delay, txFrame, rxFrame,
                   tncUp, failures, starts, sent, written>>

-----------------------------------------------------------------------------
\* _tx_loop

\* Fault model (mutant): the TX loop takes the newest frame first.
TxTopLifo ==
    /\ pc["tx"] = "tx_top"
    /\ \/ /\ ~running
          /\ Goto("tx", "done")
          /\ UNCHANGED <<queue, txFrame>>
       \/ /\ running
          /\ queue # <<>>
          /\ txFrame' = queue[Len(queue)]
          /\ queue' = SubSeq(queue, 1, Len(queue) - 1)
          /\ Goto("tx", "tx_got")
    /\ UNCHANGED <<running, connected, iface, lock, ret, delay, rxFrame,
                   tncUp, failures, starts, sent, written>>

\* Loop head: exit when not running, else take the next frame (get with a
\* timeout; an empty queue just loops).
TxTop ==
    /\ pc["tx"] = "tx_top"
    /\ \/ /\ ~running
          /\ Goto("tx", "done")
          /\ UNCHANGED <<queue, txFrame>>
       \/ /\ running
          /\ queue # <<>>
          /\ txFrame' = Head(queue)
          /\ queue' = Tail(queue)
          /\ Goto("tx", "tx_got")
    /\ UNCHANGED <<running, connected, iface, lock, ret, delay, rxFrame,
                   tncUp, failures, starts, sent, written>>

\* Fault model (mutant): the sentinel is not skipped but written.
TxGotNoSkip ==
    /\ pc["tx"] = "tx_got"
    /\ \/ /\ ~running
          /\ Goto("tx", "done")
          /\ UNCHANGED <<ret, delay>>
       \/ /\ running /\ NeedsConnect
          /\ CallConnect("tx", "tx_after_connect")
       \/ /\ running /\ ~NeedsConnect
          /\ Goto("tx", "tx_write")
          /\ UNCHANGED <<ret, delay>>
    /\ UNCHANGED <<running, connected, iface, lock, queue, txFrame, rxFrame,
                   tncUp, failures, starts, sent, written>>

\* After get: break when stopping, skip the sentinel, connect when needed.
TxGot ==
    /\ pc["tx"] = "tx_got"
    /\ \/ /\ ~running
          /\ Goto("tx", "done")
          /\ UNCHANGED <<ret, delay>>
       \/ /\ running /\ txFrame = Sentinel
          /\ Goto("tx", "tx_top")
          /\ UNCHANGED <<ret, delay>>
       \/ /\ running /\ txFrame # Sentinel /\ NeedsConnect
          /\ CallConnect("tx", "tx_after_connect")
       \/ /\ running /\ txFrame # Sentinel /\ ~NeedsConnect
          /\ Goto("tx", "tx_write")
          /\ UNCHANGED <<ret, delay>>
    /\ UNCHANGED <<running, connected, iface, lock, queue, txFrame, rxFrame,
                   tncUp, failures, starts, sent, written>>

\* After _connect_with_backoff: no connection -> drop the frame, continue.
TxAfterConnect ==
    /\ pc["tx"] = "tx_after_connect"
    /\ Goto("tx", IF NeedsConnect THEN "tx_top" ELSE "tx_write")
    /\ UNCHANGED <<running, connected, iface, lock, queue, ret, delay, txFrame,
                   rxFrame, tncUp, failures, starts, sent, written>>

\* with self._lock: a missing interface raises KISSClientError, which the
\* loop does not catch (the TX thread ends); a write on a broken transport
\* raises OSError (the frame is dropped); else the frame is written.
TxWrite ==
    /\ pc["tx"] = "tx_write"
    /\ lock = None
    /\ \/ /\ iface = None
          /\ Goto("tx", "dead")
          /\ UNCHANGED written
       \/ /\ iface = "down"
          /\ Goto("tx", "tx_error")
          /\ UNCHANGED written
       \/ /\ iface = "up"
          /\ written' = Append(written, txFrame)
          /\ Goto("tx", "tx_top")
    /\ UNCHANGED <<running, connected, iface, lock, queue, ret, delay, txFrame,
                   rxFrame, tncUp, failures, starts, sent>>

\* except OSError: with the lock, drop the transport and clear connected.
TxError ==
    /\ pc["tx"] = "tx_error"
    /\ lock = None
    /\ iface' = None
    /\ connected' = FALSE
    /\ Goto("tx", "tx_top")
    /\ UNCHANGED <<running, lock, queue, ret, delay, txFrame, rxFrame,
                   tncUp, failures, starts, sent, written>>

-----------------------------------------------------------------------------
\* Environment: the TNC connection breaks, and the TNC comes back.

LinkFail ==
    /\ iface = "up"
    /\ failures < MaxFailures
    /\ iface' = "down"
    /\ tncUp' = FALSE
    /\ failures' = failures + 1
    /\ UNCHANGED <<running, connected, lock, queue, pc, ret, delay, txFrame,
                   rxFrame, starts, sent, written>>

TncRecover ==
    /\ ~tncUp
    /\ tncUp' = TRUE
    /\ UNCHANGED <<running, connected, iface, lock, queue, pc, ret, delay,
                   txFrame, rxFrame, failures, starts, sent, written>>

\* Every thread has ended and stop() has returned.
Terminated ==
    /\ pc["rx"] \in {"done", "dead"}
    /\ pc["tx"] \in {"done", "dead"}
    /\ pc["stop"] = "stopped"
    /\ UNCHANGED vars

RxStep ==
    \/ RxTop \/ RxAfterConnect \/ RxLock \/ RxCallbackSend \/ RxPut
    \/ RxReadError \/ RxReadReturn \/ RxError
    \/ CwbCheck("rx") \/ CwbConnect("rx") \/ CwbSet("rx") \/ CwbSleep("rx")

TxStep ==
    \/ TxTop \/ TxGot \/ TxAfterConnect \/ TxWrite \/ TxError
    \/ CwbCheck("tx") \/ CwbConnect("tx") \/ CwbSet("tx") \/ CwbSleep("tx")

Next ==
    \/ Start \/ SendFrame \/ StopBegin \/ StopClose
    \/ RxStep \/ TxStep
    \/ LinkFail \/ TncRecover
    \/ Terminated

Spec == Init /\ [][Next]_vars

\* Fairness.  The RX and TX loops and the caller of stop() are OS threads:
\* each statement they can execute is eventually executed.  Steps that
\* wait for _lock are only intermittently enabled (another thread may take
\* the lock first), so the thread steps are strongly fair.  read() is left
\* unfair: the kiss library's read blocks until a frame or an error, so
\* neither RxReadReturn nor the arrival of a frame (RxCallbackSend) is
\* guaranteed.  A TNC that is down comes back (WF on TncRecover); the
\* callers of start(), send() and stop() and the breaking of the link are
\* the environment and get no fairness.
RxProgress ==
    \/ RxTop \/ RxAfterConnect \/ RxLock \/ RxPut \/ RxReadError \/ RxError
    \/ CwbCheck("rx") \/ CwbConnect("rx") \/ CwbSet("rx") \/ CwbSleep("rx")

Fairness ==
    /\ SF_vars(RxProgress)
    /\ SF_vars(TxStep)
    /\ SF_vars(StopClose)
    /\ WF_vars(TncRecover)

FairSpec == Spec /\ Fairness

-----------------------------------------------------------------------------
\* Properties

\* Every variable holds values of its type; in particular the queue never
\* exceeds tx_queue_size and only real frames are ever written to the TNC
\* (the stop() sentinel b"" is discarded by _tx_loop, spec 4.1).
TypeOK ==
    /\ running \in BOOLEAN
    /\ connected \in BOOLEAN
    /\ iface \in {None, "up", "down"}
    /\ lock \in {None, "rx", "tx", "stop"}
    /\ queue \in Seq(Frames \cup {Sentinel})
    /\ Len(queue) <= TxQueueSize
    /\ delay \in [Threads -> {BaseDelay * 2^k : k \in 0 .. MaxDelay}]
    /\ txFrame \in Frames \cup {Sentinel, None}
    /\ rxFrame \in Frames \cup {None}
    /\ tncUp \in BOOLEAN
    /\ failures \in 0 .. MaxFailures
    /\ written \in Seq(Frames)

\* Refinement mapping onto TxChannel: the frames still to be written are
\* the frame the TX thread holds between get() and write(), followed by
\* the frames (not the sentinels) in the queue.
TxHolds ==
    /\ pc["tx"] \in {"tx_got", "tx_after_connect", "tx_write",
                     "cwb_check", "cwb_connect", "cwb_set", "cwb_sleep"}
    /\ txFrame \in Frames

PendingFrames ==
    (IF TxHolds THEN <<txFrame>> ELSE <<>>) \o SelectSeq(queue, LAMBDA e : e \in Frames)

Channel == INSTANCE TxChannel WITH Msgs <- Frames, pending <- PendingFrames, out <- written

\* The TX path implements a FIFO channel that may lose its head frame
\* (spec 5, ordering guarantees): across sends from several threads and
\* the RX callback, reconnects, failed writes and restarts, frames are
\* written in the order send() accepted them, each at most once.
TxFifoChannel == Channel!Spec

\* The TX thread ends only on shutdown: no error of a write path kills it
\* while the client is running (spec 4.1: neither worker exits on transient
\* I/O errors; only a clear stop signal terminates them).
TxThreadAlive == running => pc["tx"] # "dead"

\* The RX thread is never stranded in the blocking send of its read
\* callback: it never waits for room in a full TX queue, holding the
\* transport lock, while the queue's only consumer, the TX thread, waits
\* for that lock or has ended (and stop() then blocks on the lock too).
NoLockQueueCycle ==
    ~ /\ pc["rx"] = "rx_put" /\ Len(queue) = TxQueueSize
      /\ pc["tx"] \in {"tx_write", "tx_error", "cwb_connect", "done", "dead"}

\* Once stop() has returned, the client holds no transport.
StoppedMeansClosed == pc["stop"] = "stopped" => iface = None

\* A lost connection is re-established without a restart of the link
\* (spec 4.1 connection supervision, scenario S5): while the client runs
\* without a working transport, eventually it has one and knows it, or it
\* is stopped.
Reconnects ==
    (running /\ iface # "up") ~> (~running \/ (connected /\ iface = "up"))

=============================================================================
