------------------------------ MODULE MeshNode ------------------------------
(***************************************************************************)
(* The mesh routing and forwarding engine of src/mesh_node.py, run by a    *)
(* set of nodes that share one radio channel.                              *)
(*                                                                         *)
(* Each node keeps the state of one MeshNode object: the 32-bit sequence  *)
(* counter, the originator table and the DATA dedup cache.  Its            *)
(* operations are the OGM loop, send_application_data, the RX dispatcher   *)
(* (_on_kiss_frame with _handle_ogm / _handle_data_frame) and the cleanup  *)
(* loop.  A restart of the process creates a fresh MeshNode.               *)
(*                                                                         *)
(* The neighbor table is written by _handle_ogm and emptied by the cleanup *)
(* loop but read by no decision of the node; it is left out here and      *)
(* modelled where it matters, in the cleanup race of MeshCleanup.          *)
(*                                                                         *)
(* The KISS link is abstracted to its effect: a frame handed to            *)
(* KISSClient.send is heard by every radio neighbour of the sender, and    *)
(* the radio may delay, reorder or never deliver frames (air is a set).    *)
(* The link itself is modelled in KissLink.                                *)
(*                                                                         *)
(* Data abstraction: node IDs are the node names; a frame is a record of   *)
(* the mesh header fields it carries; the link metric is always 255 (every *)
(* OGM is built with 255 and forwarders copy it) and is left out; bodies   *)
(* are well formed and decrypt and decompress (the malformed and forged    *)
(* cases are listed as hazards).  Time is an integer clock.                *)
(***************************************************************************)
EXTENDS Integers, FiniteSets, Bags, Functions, Folds, TLC

CONSTANTS
    Nodes,           \* the nodes of the mesh (their callsigns / node IDs)
    Links,           \* radio links: the set of ordered pairs <<a, b>> where b hears a
    OgmTtl,          \* routing.ogm_ttl: initial TTL of OGMs and of DATA
    SeqMod,          \* modulus of the sequence counter (2^32 in the code)
    RouteExpiry,     \* routing.route_expiry_seconds
    DataSeenExpiry,  \* routing.data_seen_expiry_seconds
    NoNode,          \* model value: the dest field of an OGM (it has none)
    MaxTime,         \* bound on the clock
    MaxSends,        \* bound on sequence numbers allocated by all nodes together
    MaxRestarts      \* bound on process restarts of all nodes together

ASSUME
    /\ Links \subseteq Nodes \X Nodes
    /\ OgmTtl \in Nat \ {0}
    /\ SeqMod \in Nat \ {0}
    /\ {RouteExpiry, DataSeenExpiry, MaxTime,
        MaxSends, MaxRestarts} \subseteq Nat
    /\ NoNode \notin Nodes

VARIABLES
    now,          \* time.time()
    seqno,        \* seqno[n]: MeshNode._seqno
    originators,  \* originators[n]: origin -> [best_next_hop, last_seqno, last_seen]
    data_seen,    \* data_seen[n]: <<origin_id, seqno>> -> insertion time
    air,          \* frames sent and not yet received or lost
    \* history variables, used only by the properties
    inc,          \* inc[n]: number of restarts of node n (its incarnation)
    issued,       \* issued[n]: sequence numbers allocated by n, all incarnations
    accepted,     \* <<n, id>>: n passed the dedup gate with packet id
    suppressed,   \* <<n, id>>: n dropped packet id as a duplicate
    delivered     \* bag of app-callback invocations (a record per call)

vars == <<now, seqno, originators, data_seen, air,
          inc, issued, accepted, suppressed, delivered>>

-----------------------------------------------------------------------------
\* Values

Seqnos == 0 .. SeqMod - 1
Time == 0 .. MaxTime
Kinds == {"OGM", "DATA"}              \* MESH_MSG_OGM, MESH_MSG_DATA
PacketIds == Nodes \X (1 .. MaxSends)  \* a ghost identity per allocation

Frame == [kind : Kinds, from : Nodes, to : Nodes, origin : Nodes,
          seq : Seqnos, ttl : 1 .. OgmTtl, dest : Nodes \cup {NoNode},
          id : PacketIds]

OriginatorEntry == [best_next_hop : Nodes, last_seqno : Seqnos, last_seen : Time]

\* Sequence numbers allocated so far by all nodes (bounded by MaxSends).
TotalIssued == SumFunction(issued)

\* The radio neighbours that hear a transmission of n.
Hearers(n) == {m \in Nodes : <<n, m>> \in Links}

-----------------------------------------------------------------------------
\* Helpers of MeshNode

\* _next_seqno: increment modulo 2^32 under the seqno lock, return the new value.
NextSeqno(n) == (seqno[n] + 1) % SeqMod

\* _build_mesh_header + body, wrapped by _wrap_in_ax25_ui and handed to
\* KISSClient.send: one copy of the frame reaches every hearer of n.
Transmit(n, kind, origin, seq, ttl, dest, id) ==
    {[kind |-> kind, from |-> n, to |-> m, origin |-> origin, seq |-> seq,
      ttl |-> ttl, dest |-> dest, id |-> id] : m \in Hearers(n)}

\* _handle_ogm step 2: the originator entry is replaced when it is absent
\* or the OGM carries a strictly greater seqno.
OgmAccepted(n, origin, seq) ==
    \/ origin \notin DOMAIN originators[n]
    \/ seq > originators[n][origin].last_seqno

\* Fault model (mutant): a dedup key that ignores the seqno.
DataKeyOriginOnly(f) == <<f.origin, 0>>

\* The dedup key of a DATA frame: (origin_id, seqno) of the mesh header.
DataKey(f) == <<f.origin, f.seq>>

\* _handle_data_frame step 8: forward only frames for another node that
\* still have TTL left and whose destination is in the originator table.
DataForwarded(n, f) ==
    /\ f.dest # n
    /\ f.ttl > 1
    /\ f.dest \in DOMAIN originators[n]

\* Fault model (mutant): an OGM is re-broadcast even when its TTL is spent.
OgmForwardedAny(f) == f.ttl >= 1

\* _handle_ogm: an OGM is re-broadcast only while ttl > 1.
OgmForwarded(f) == f.ttl > 1

\* Fault model (mutant): an entry is evicted once its age reaches exp.
FreshOffByOne(seen, exp) == now - seen < exp

\* The expiry tests of _cleanup_loop: keep an entry unless now - seen > exp.
Fresh(seen, exp) == now - seen <= exp

-----------------------------------------------------------------------------
\* Initial state: nodes constructed (MeshNode.__init__), nothing on the air.

Init ==
    /\ now = 0
    /\ seqno = [n \in Nodes |-> 0]
    /\ originators = [n \in Nodes |-> <<>>]
    /\ data_seen = [n \in Nodes |-> <<>>]
    /\ air = {}
    /\ inc = [n \in Nodes |-> 0]
    /\ issued = [n \in Nodes |-> 0]
    /\ accepted = {}
    /\ suppressed = {}
    /\ delivered = EmptyBag

-----------------------------------------------------------------------------
\* Actions

\* Fault model (mutant): the OGM carries the next seqno but the counter is
\* not advanced.
EmitOGMPeek(n) ==
    /\ TotalIssued < MaxSends
    /\ issued' = [issued EXCEPT ![n] = @ + 1]
    /\ air' = air \cup Transmit(n, "OGM", n, NextSeqno(n), OgmTtl, NoNode,
                                <<n, issued[n] + 1>>)
    /\ UNCHANGED <<now, seqno, originators, data_seen, inc,
                   accepted, suppressed, delivered>>

\* One iteration of _ogm_loop: _build_ogm_payload allocates a seqno and
\* sends an OGM with ttl = ogm_ttl, origin = prev_hop = self.
EmitOGM(n) ==
    /\ TotalIssued < MaxSends
    /\ seqno' = [seqno EXCEPT ![n] = NextSeqno(n)]
    /\ issued' = [issued EXCEPT ![n] = @ + 1]
    /\ air' = air \cup Transmit(n, "OGM", n, NextSeqno(n), OgmTtl, NoNode,
                                <<n, issued[n] + 1>>)
    /\ UNCHANGED <<now, originators, data_seen, inc,
                   accepted, suppressed, delivered>>

\* send_application_data(dest, payload): allocate a seqno and send a DATA
\* frame with ttl = ogm_ttl; the body carries dest and the same seqno.
SendApplicationData(n, dest) ==
    /\ TotalIssued < MaxSends
    /\ seqno' = [seqno EXCEPT ![n] = NextSeqno(n)]
    /\ issued' = [issued EXCEPT ![n] = @ + 1]
    /\ air' = air \cup Transmit(n, "DATA", n, NextSeqno(n), OgmTtl, dest,
                                <<n, issued[n] + 1>>)
    /\ UNCHANGED <<now, originators, data_seen, inc,
                   accepted, suppressed, delivered>>

\* _on_kiss_frame of an OGM, then _handle_ogm: update the originator entry
\* with the previous hop (the sender) as next hop, and forward
\* with ttl - 1 and prev_hop = self when ttl > 1.
ReceiveOGM(n, f) ==
    /\ f \in air
    /\ f.to = n
    /\ f.kind = "OGM"
    /\ originators' =
         [originators EXCEPT ![n] =
            IF OgmAccepted(n, f.origin, f.seq)
            THEN (f.origin :> [best_next_hop |-> f.from, last_seqno |-> f.seq,
                               last_seen |-> now]) @@ @
            ELSE @]
    /\ air' = (air \ {f}) \cup
              (IF OgmForwarded(f)
               THEN Transmit(n, "OGM", f.origin, f.seq, f.ttl - 1, NoNode, f.id)
               ELSE {})
    /\ UNCHANGED <<now, seqno, data_seen, inc, issued,
                   accepted, suppressed, delivered>>

\* _on_kiss_frame of a DATA frame whose key is in the dedup cache: dropped.
ReceiveDuplicateData(n, f) ==
    /\ f \in air
    /\ f.to = n
    /\ f.kind = "DATA"
    /\ DataKey(f) \in DOMAIN data_seen[n]
    /\ air' = air \ {f}
    /\ suppressed' = suppressed \cup {<<n, f.id>>}
    /\ UNCHANGED <<now, seqno, originators, data_seen, inc, issued,
                   accepted, delivered>>

\* _handle_data_frame of a DATA frame that passes the dedup gate: insert the
\* key with the current time, then deliver it to the application callback
\* when dest is self, else forward it unchanged with ttl - 1 when it has TTL
\* left and a route exists, else drop it.
ReceiveFreshData(n, f) ==
    /\ f \in air
    /\ f.to = n
    /\ f.kind = "DATA"
    /\ DataKey(f) \notin DOMAIN data_seen[n]
    /\ data_seen' = [data_seen EXCEPT ![n] = (DataKey(f) :> now) @@ @]
    /\ accepted' = accepted \cup {<<n, f.id>>}
    /\ delivered' =
         IF f.dest = n
         THEN delivered (+) SetToBag({[at |-> n, inc |-> inc[n], key |-> DataKey(f),
                                       id |-> f.id, t |-> now]})
         ELSE delivered
    /\ air' = (air \ {f}) \cup
              (IF DataForwarded(n, f)
               THEN Transmit(n, "DATA", f.origin, f.seq, f.ttl - 1, f.dest, f.id)
               ELSE {})
    /\ UNCHANGED <<now, seqno, originators, inc, issued, suppressed>>

\* One iteration of _cleanup_loop, taken as one step: evict originators
\* and dedup keys older than their expiry.
Cleanup(n) ==
    /\ originators' = [originators EXCEPT ![n] =
         RestrictValues(@, LAMBDA e : Fresh(e.last_seen, RouteExpiry))]
    /\ data_seen' = [data_seen EXCEPT ![n] =
         RestrictValues(@, LAMBDA t : Fresh(t, DataSeenExpiry))]
    /\ UNCHANGED <<now, seqno, air, inc, issued, accepted, suppressed, delivered>>

\* The node's process restarts: a new MeshNode starts with a zero counter
\* and empty tables; nothing is persisted.
Restart(n) ==
    /\ SumFunction(inc) < MaxRestarts
    /\ inc' = [inc EXCEPT ![n] = @ + 1]
    /\ seqno' = [seqno EXCEPT ![n] = 0]
    /\ originators' = [originators EXCEPT ![n] = <<>>]
    /\ data_seen' = [data_seen EXCEPT ![n] = <<>>]
    /\ UNCHANGED <<now, air, issued, accepted, suppressed, delivered>>

\* Environment: time passes.  (A lost frame needs no action of its own: for
\* the safety properties it behaves as a frame that stays on the air and is
\* never received, which the model already allows.)
Tick ==
    /\ now < MaxTime
    /\ now' = now + 1
    /\ UNCHANGED <<seqno, originators, data_seen, air,
                   inc, issued, accepted, suppressed, delivered>>

Next ==
    \/ \E n \in Nodes :
         \/ EmitOGM(n)
         \/ \E d \in Nodes \ {n} : SendApplicationData(n, d)
         \/ \E f \in air : ReceiveOGM(n, f)
         \/ \E f \in air : ReceiveDuplicateData(n, f)
         \/ \E f \in air : ReceiveFreshData(n, f)
         \/ Cleanup(n)
         \/ Restart(n)
    \/ Tick

Spec == Init /\ [][Next]_vars

-----------------------------------------------------------------------------
\* Properties

\* Every variable holds values of its type; in particular a frame on the air
\* always has TTL left (_handle_ogm and _handle_data_frame re-broadcast
\* only while ttl > 1).
TypeOK ==
    /\ now \in Time
    /\ seqno \in [Nodes -> Seqnos]
    /\ \A n \in Nodes :
         /\ DOMAIN originators[n] \subseteq Nodes
         /\ \A o \in DOMAIN originators[n] : originators[n][o] \in OriginatorEntry
         /\ DOMAIN data_seen[n] \subseteq Nodes \X Seqnos
         /\ \A k \in DOMAIN data_seen[n] : data_seen[n][k] \in Time
    /\ air \subseteq Frame
    /\ inc \in [Nodes -> 0 .. MaxRestarts]
    /\ issued \in [Nodes -> 0 .. MaxSends]

\* Idempotent intake (_handle_data_frame's dedup gate together with the
\* cleanup loop): one MeshNode invokes the application callback for a key
\* (origin_id, seqno) at most once within data_seen_expiry, however many
\* copies of the frame the flooding and the radio bring back.
DedupWindow ==
    \A d1, d2 \in BagToSet(delivered) :
        (d1.at = d2.at /\ d1.inc = d2.inc /\ d1.key = d2.key)
        => \/ d1 = d2 /\ CopiesIn(d1, delivered) = 1
           \/ d1.t - d2.t > DataSeenExpiry
           \/ d2.t - d1.t > DataSeenExpiry

\* The dedup gate of _handle_data_frame only drops copies of a packet the
\* node has already accepted: a key in data_seen never stands for another
\* packet, i.e. (origin_id, seqno) identifies a packet while it is cached.
\* Origins that have restarted are left out: they reuse their keys
\* (MeshChatRestart shows what that does to the chat log).
DedupSound ==
    \A p \in suppressed : p \in accepted \/ inc[p[2][1]] > 0

\* No node holds an originator entry whose last_seqno is ahead of the
\* counter of an originator that has not restarted: the seqno rule of
\* _handle_ogm can accept the originator's next OGM.  (A restarted
\* originator's counter starts at 0 again, below its old entries.)
RouteSeqBounded ==
    \A n \in Nodes : \A o \in DOMAIN originators[n] :
        inc[o] = 0 => originators[n][o].last_seqno <= seqno[o]

=============================================================================
