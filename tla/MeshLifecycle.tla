---------------------------- MODULE MeshLifecycle ----------------------------
(***************************************************************************)
(* MeshNode.start and MeshNode.stop (src/mesh_node.py) against the two     *)
(* routing threads they manage, _ogm_loop and _cleanup_loop.               *)
(*                                                                         *)
(* start() sets _running, starts the KISS client and creates a new thread  *)
(* for each loop; stop() clears _running, stops the KISS client, then      *)
(* joins each thread with a 5 s timeout and returns whether or not the     *)
(* thread has ended.  A loop tests _running, does one round of its work,   *)
(* then sleeps (ogm_interval_seconds, or 5 s for the cleanup).  A join     *)
(* can time out only while its thread sleeps, and only when that sleep is  *)
(* at least the join's timeout.  One application thread calls start and    *)
(* stop.  The loops' work is MeshNode's and MeshCleanup's concern; the     *)
(* KISS client's start and stop are KissLink's, here a flag.               *)
(***************************************************************************)
EXTENDS Naturals

CONSTANTS
    MaxStarts,     \* bound on the start() calls that create threads
    OgmInterval    \* routing.ogm_interval_seconds

JoinTimeout == 5     \* thread.join(timeout=5.0) in stop()
CleanupSleep == 5    \* time.sleep(5.0) in _cleanup_loop

Loops == {"ogm", "cleanup"}

\* The thread start() number k creates for loop l.
Threads == Loops \X (1 .. MaxStarts)

SleepOf(l) == IF l = "ogm" THEN OgmInterval ELSE CleanupSleep

VARIABLES
    running,      \* MeshNode._running is set
    kissRunning,  \* the KISS client is started
    started,      \* start() calls that created threads so far
    thread,       \* thread[l]: _ogm_thread / _cleanup_thread, 0 for None
    tpc,          \* tpc[t]: "new", "test", "work", "sleep" or "done"
    caller,       \* the application thread: "idle", or the join it waits in
    worked        \* history: [loop, k, run] for each round of loop work

vars == <<running, kissRunning, started, thread, tpc, caller, worked>>

\* MeshNode.__init__: _running clear, no threads yet.
LifecycleInit ==
    /\ running = FALSE
    /\ kissRunning = FALSE
    /\ started = 0
    /\ thread = [l \in Loops |-> 0]
    /\ tpc = [t \in Threads |-> "new"]
    /\ caller = "idle"
    /\ worked = {}

\* start(): returns at once when _running is set; else sets it, starts the
\* KISS client, creates both threads, stores them and starts them.
Start ==
    LET k == started + 1 IN
    /\ caller = "idle"
    /\ ~running
    /\ started < MaxStarts
    /\ running' = TRUE
    /\ kissRunning' = TRUE
    /\ started' = k
    /\ thread' = [l \in Loops |-> k]
    /\ tpc' = [t \in Threads |-> IF t[2] = k THEN "test" ELSE tpc[t]]
    /\ UNCHANGED <<caller, worked>>

\* stop(): returns at once when _running is clear; else clears it, stops
\* the KISS client and goes on to join the OGM thread.
Stop ==
    /\ caller = "idle"
    /\ running
    /\ running' = FALSE
    /\ kissRunning' = FALSE
    /\ caller' = "ogm"
    /\ UNCHANGED <<started, thread, tpc, worked>>

\* The join after the one on loop l's thread, or the return of stop().
AfterJoin(l) == IF l = "ogm" THEN "cleanup" ELSE "idle"

\* _ogm_thread.join(timeout=5.0), then _cleanup_thread's: returns when the
\* thread has ended ...
JoinReturns ==
    /\ caller \in Loops
    /\ tpc[<<caller, thread[caller]>>] = "done"
    /\ caller' = AfterJoin(caller)
    /\ UNCHANGED <<running, kissRunning, started, thread, tpc, worked>>

\* ... or after 5 s, with the thread still asleep.
JoinTimesOut ==
    /\ caller \in Loops
    /\ tpc[<<caller, thread[caller]>>] = "sleep"
    /\ SleepOf(caller) >= JoinTimeout
    /\ caller' = AfterJoin(caller)
    /\ UNCHANGED <<running, kissRunning, started, thread, tpc, worked>>

\* while self._running.is_set(): at the top of either loop.
Test(t) ==
    /\ tpc[t] = "test"
    /\ tpc' = [tpc EXCEPT ![t] = IF running THEN "work" ELSE "done"]
    /\ UNCHANGED <<running, kissRunning, started, thread, caller, worked>>

\* One round of the loop's work (an OGM built and sent, or a cleanup
\* pass), done in the run of the node that the latest start() began.
Work(t) ==
    /\ tpc[t] = "work"
    /\ tpc' = [tpc EXCEPT ![t] = "sleep"]
    /\ worked' = worked \cup {[loop |-> t[1], k |-> t[2], run |-> started]}
    /\ UNCHANGED <<running, kissRunning, started, thread, caller>>

\* time.sleep(...) ends.
Wake(t) ==
    /\ tpc[t] = "sleep"
    /\ tpc' = [tpc EXCEPT ![t] = "test"]
    /\ UNCHANGED <<running, kissRunning, started, thread, caller, worked>>

LifecycleNext ==
    \/ Start \/ Stop \/ JoinReturns \/ JoinTimesOut
    \/ \E t \in Threads : Test(t) \/ Work(t) \/ Wake(t)

LifecycleSpec == LifecycleInit /\ [][LifecycleNext]_vars

-----------------------------------------------------------------------------

\* The node runs one OGM emitter and one cleanup sweeper (spec 5: four
\* long-lived workers): in each run of the node, from one start() to the
\* next, the rounds of each loop are done by one thread.  Broken when a
\* join of stop() times out while the loop sleeps and start() is called
\* again: the old thread wakes, finds _running set, and runs on beside the
\* new one.
OneThreadPerLoop ==
    \A w1, w2 \in worked :
        (w1.loop = w2.loop /\ w1.run = w2.run) => w1.k = w2.k

=============================================================================
