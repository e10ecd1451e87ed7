------------------------------ MODULE MeshCodec ------------------------------
(***************************************************************************)
(* The two nested codecs of MeshNode at the byte level: the AX.25 UI       *)
(* frame (_encode_ax25_address, _wrap_in_ax25_ui, _find_info_start) and    *)
(* the 16-byte mesh header (_build_mesh_header, _parse_mesh_header), with  *)
(* the paths that build frames (_build_ogm_payload, _build_data_payload)   *)
(* and the RX dispatcher (_on_kiss_frame) that parses them, hands them to  *)
(* _handle_ogm or _handle_data_frame, and re-encodes what they forward.    *)
(*                                                                         *)
(* A frame is a sequence of byte values; a callsign a sequence of ASCII    *)
(* codes.  Nodes hear each other's frames on one channel.  Routing tables  *)
(* are MeshNode's concern: here a DATA frame for another node is forwarded *)
(* when a route exists, which is a free choice.  Encryption is off (the    *)
(* crypto layer is not under src/) and payloads are ones zlib does not     *)
(* shorten, so flags are 0 on the frames built here.                       *)
(***************************************************************************)
EXTENDS Integers, Sequences, SequencesExt, Bitwise

CONSTANTS
    Nodes,             \* the mesh nodes
    Callsign,          \* Callsign[n]: mesh.callsign of node n (ASCII codes)
    MeshDestCallsign,  \* MeshDestCallsign[n]: mesh.mesh_dest_callsign of n
    OgmTtl,            \* OgmTtl[n]: routing.ogm_ttl of node n
    Payloads,          \* application payloads (byte sequences)
    MaxSends           \* bound on the seqnos a node allocates

ASSUME
    /\ Callsign \in [Nodes -> Seq(0 .. 127)]
    /\ MeshDestCallsign \in [Nodes -> Seq(0 .. 127)]
    /\ OgmTtl \in [Nodes -> 1 .. 255]
    /\ MaxSends \in Nat

MESH_VERSION == 1
MESH_MSG_DATA == 0
MESH_MSG_OGM == 1

-----------------------------------------------------------------------------
\* Byte-string helpers

\* bytes.ljust(n, pad): pad on the right up to length n.
LJust(s, n, pad) ==
    IF Len(s) >= n THEN s ELSE s \o [i \in 1 .. n - Len(s) |-> pad]

\* s[:n]
Take(s, n) == IF Len(s) <= n THEN s ELSE SubSeq(s, 1, n)

\* struct.pack(">I", x)
Be32(x) == <<(x \div 2^24) % 256, (x \div 2^16) % 256, (x \div 2^8) % 256, x % 256>>

\* Fault model (mutant): unpacked as "<I", little-endian.
UnBe32LE(b) == ((b[4] * 256 + b[3]) * 256 + b[2]) * 256 + b[1]

\* struct.unpack(">I", b)[0]
UnBe32(b) == ((b[1] * 256 + b[2]) * 256 + b[3]) * 256 + b[4]

\* str.upper() on ASCII codes.
Upper(s) == [i \in DOMAIN s |-> IF s[i] \in 97 .. 122 THEN s[i] - 32 ELSE s[i]]

\* int(ssid_str), or 0 on ValueError.  Python also accepts a sign,
\* blanks and underscores; the callsigns checked have digit-only SSIDs.
ParseSsid(str) ==
    IF str # <<>> /\ \A i \in DOMAIN str : str[i] \in 48 .. 57
    THEN FoldLeft(LAMBDA acc, d : acc * 10 + d - 48, 0, str)
    ELSE 0

-----------------------------------------------------------------------------
\* AX.25

\* Fault model (mutant): the base call not uppercased.
EncodeAx25AddressNoUpper(callsign, last) ==
    LET dash == SelectInSeq(callsign, LAMBDA c : c = 45)
        base == IF dash = 0 THEN callsign ELSE SubSeq(callsign, 1, dash - 1)
        ssid == IF dash = 0 THEN 0
                ELSE ParseSsid(SubSeq(callsign, dash + 1, Len(callsign)))
        call == LJust(Take(base, 6), 6, 32)
        ssidField == (96 | ((ssid & 15) * 2)) | (IF last THEN 1 ELSE 0)
    IN  [i \in 1 .. 6 |-> call[i] * 2] \o <<ssidField>>

\* _encode_ax25_address: split CALL[-SSID] at the first "-", uppercase and
\* cut the base to 6, pad it with spaces, shift each byte left by one, and
\* append 0x60 | ((ssid & 0x0F) << 1), with bit 0 set on the last address.
EncodeAx25Address(callsign, last) ==
    LET dash == SelectInSeq(callsign, LAMBDA c : c = 45)
        base == IF dash = 0 THEN callsign ELSE SubSeq(callsign, 1, dash - 1)
        ssid == IF dash = 0 THEN 0
                ELSE ParseSsid(SubSeq(callsign, dash + 1, Len(callsign)))
        call == LJust(Take(Upper(base), 6), 6, 32)
        ssidField == (96 | ((ssid & 15) * 2)) | (IF last THEN 1 ELSE 0)
    IN  [i \in 1 .. 6 |-> call[i] * 2] \o <<ssidField>>

\* _wrap_in_ax25_ui of node n: dest, src (last), control 0x03, PID 0xF0.
WrapInAx25Ui(n, info) ==
    EncodeAx25Address(MeshDestCallsign[n], FALSE)
    \o EncodeAx25Address(Callsign[n], TRUE) \o <<3, 240>> \o info

\* Fault model (mutant): the information field taken one byte early.
FindInfoStartEarly(frame) == 15

\* _find_info_start: the information field starts at byte 16 (0-based),
\* after two 7-byte addresses, control and PID.  Its None for frames of
\* 16 bytes or less is never reached: _on_kiss_frame drops those first.
FindInfoStart(frame) == 16

\* _derive_node_id: ASCII bytes, padded with zero bytes to 8, cut to 8.
DeriveNodeId(callsign) == Take(LJust(callsign, 8, 0), 8)

NodeId(n) == DeriveNodeId(Callsign[n])

-----------------------------------------------------------------------------
\* Mesh header and payloads

\* Fault model (mutant): the seqno packed little-endian.
BuildMeshHeaderLE(msgType, flags, ttl, originId, seqno) ==
    <<MESH_VERSION, msgType, flags, ttl>> \o originId
    \o [i \in 1 .. 4 |-> Be32(seqno)[5 - i]]

\* _build_mesh_header.  header[4:12] = origin_id is a slice assignment,
\* so an origin of another length than 8 would resize the header.
BuildMeshHeader(msgType, flags, ttl, originId, seqno) ==
    <<MESH_VERSION, msgType, flags, ttl>> \o originId \o Be32(seqno)

\* _parse_mesh_header of info with at least 16 bytes.
ParseMeshHeader(info) ==
    [version |-> info[1], msg_type |-> info[2], flags |-> info[3],
     ttl |-> info[4], origin_id |-> SubSeq(info, 5, 12),
     seqno |-> UnBe32(SubSeq(info, 13, 16))]

\* _build_ogm_payload: header, then prev_hop = self and link_metric 255.
BuildOgmPayload(n, seqno) ==
    BuildMeshHeader(MESH_MSG_OGM, 0, OgmTtl[n], NodeId(n), seqno)
    \o NodeId(n) \o <<255>>

\* Fault model (mutant): the body carries the origin where dest_id goes.
BuildDataPayloadSwapped(n, destId, seqno, payload) ==
    BuildMeshHeader(MESH_MSG_DATA, 0, OgmTtl[n], NodeId(n), seqno)
    \o NodeId(n) \o Be32(seqno) \o payload

\* _build_data_payload with an uncompressed, unencrypted payload.
BuildDataPayload(n, destId, seqno, payload) ==
    BuildMeshHeader(MESH_MSG_DATA, 0, OgmTtl[n], NodeId(n), seqno)
    \o destId \o Be32(seqno) \o payload

-----------------------------------------------------------------------------
\* The RX dispatcher

\* What _on_kiss_frame does with a frame: drop it, or call a handler.
Call(handler, originId, seqno, ttl, args) ==
    [handler |-> handler, origin_id |-> originId, seqno |-> seqno,
     ttl |-> ttl, args |-> args]

Dropped == Call("drop", <<>>, 0, 0, <<>>)

\* _on_kiss_frame: length check, info extraction, header parse (ValueError
\* when short), version check, then the OGM body check or the DATA handler.
OnKissFrame(frame) ==
    IF Len(frame) <= 16 THEN Dropped
    ELSE LET info == SubSeq(frame, FindInfoStart(frame) + 1, Len(frame)) IN
         IF Len(info) < 16 THEN Dropped
         ELSE LET h == ParseMeshHeader(info)
                  body == SubSeq(info, 17, Len(info))
              IN  CASE h.version # MESH_VERSION -> Dropped
                    [] h.msg_type = MESH_MSG_OGM /\ Len(body) >= 9 ->
                          Call("ogm", h.origin_id, h.seqno, h.ttl,
                               <<SubSeq(body, 1, 8), body[9]>>)
                    [] h.msg_type = MESH_MSG_DATA ->
                          Call("data", h.origin_id, h.seqno, h.ttl,
                               <<h.flags, body>>)
                    [] OTHER -> Dropped

-----------------------------------------------------------------------------
\* State

VARIABLES
    seqno,      \* seqno[n]: MeshNode._seqno of node n
    air,        \* frames sent: [from, bytes, meant], meant the handler call
                \* the sender built the frame for
    dataSeen,   \* dataSeen[n]: the keys of node n's _data_seen
    delivered,  \* delivered[n]: the app callback calls of node n (history)
    sentData,   \* the send_application_data calls (history)
    forwards    \* <<frame heard, frame forwarded>> pairs (history)

vars == <<seqno, air, dataSeen, delivered, sentData, forwards>>

Init ==
    /\ seqno = [n \in Nodes |-> 0]
    /\ air = {}
    /\ dataSeen = [n \in Nodes |-> {}]
    /\ delivered = [n \in Nodes |-> {}]
    /\ sentData = {}
    /\ forwards = {}

\* _next_seqno: (_seqno + 1) & 0xFFFFFFFF.  MaxSends < 2^31 keeps the
\* mask, which TLC's integers cannot hold, from applying; the wrap is
\* MeshNode's concern.
NextSeqno(n) == seqno[n] + 1

Transmit(n, bytes, meant) ==
    air' = air \cup {[from |-> n, bytes |-> bytes, meant |-> meant]}

\* _ogm_loop, one round: build an OGM with a new seqno, wrap it, send it.
EmitOGM(n) ==
    LET s == NextSeqno(n) IN
    /\ seqno[n] < MaxSends
    /\ seqno' = [seqno EXCEPT ![n] = s]
    /\ Transmit(n, WrapInAx25Ui(n, BuildOgmPayload(n, s)),
                Call("ogm", NodeId(n), s, OgmTtl[n], <<NodeId(n), 255>>))
    /\ UNCHANGED <<dataSeen, delivered, sentData, forwards>>

\* send_application_data(dest_node_id, payload) on node n.
SendApplicationData(n, d, p) ==
    LET s == NextSeqno(n) IN
    /\ seqno[n] < MaxSends
    /\ seqno' = [seqno EXCEPT ![n] = s]
    /\ Transmit(n, WrapInAx25Ui(n, BuildDataPayload(n, NodeId(d), s, p)),
                Call("data", NodeId(n), s, OgmTtl[n],
                     <<0, NodeId(d) \o Be32(s) \o p>>))
    /\ sentData' = sentData \cup
          {[to |-> d, origin_id |-> NodeId(n), dest_id |-> NodeId(d),
            seqno |-> s, payload |-> p]}
    /\ UNCHANGED <<dataSeen, delivered, forwards>>

\* Fault model (mutant): the OGM forwarded with the ttl it came with.
OgmForwardKeepTtl(n, c) ==
    BuildMeshHeader(MESH_MSG_OGM, 0, c.ttl, c.origin_id, c.seqno)
    \o NodeId(n) \o <<c.args[2]>>

\* The info field of the OGM that node n forwards for the call c of
\* _handle_ogm: the header with ttl - 1, then self_node_id || link_metric.
OgmForward(n, c) ==
    BuildMeshHeader(MESH_MSG_OGM, 0, c.ttl - 1, c.origin_id, c.seqno)
    \o NodeId(n) \o <<c.args[2]>>

\* Node n hears frame f and _on_kiss_frame calls _handle_ogm, which
\* forwards the OGM when ttl > 1: the header rebuilt with ttl - 1 and the
\* body self_node_id || link_metric.  The table updates are MeshNode's, so
\* an OGM with ttl <= 1 changes nothing here.
ReceiveOGM(n, f) ==
    LET c == OnKissFrame(f.bytes)
        out == OgmForward(n, c)
    IN  /\ f.from # n
        /\ c.handler = "ogm"
        /\ \/ /\ c.ttl > 1
              /\ Transmit(n, WrapInAx25Ui(n, out),
                          Call("ogm", c.origin_id, c.seqno, c.ttl - 1,
                               <<NodeId(n), c.args[2]>>))
              /\ forwards' = forwards \cup {<<f.bytes, WrapInAx25Ui(n, out)>>}
              /\ UNCHANGED <<seqno, dataSeen, delivered, sentData>>
           \/ /\ c.ttl <= 1
              /\ UNCHANGED vars

\* _handle_data_frame: a key already in _data_seen returns at once.
\* Otherwise record the key, split the body, then deliver to the app
\* callback when dest_id is this node, else forward the body verbatim
\* with ttl - 1 when ttl > 1 and a route exists, else drop.  Bodies
\* shorter than 12 bytes (recorded, then dropped) are not built here.
ReceiveDuplicateData(n, f) ==
    LET c == OnKissFrame(f.bytes) IN
    /\ f.from # n
    /\ c.handler = "data"
    /\ <<c.origin_id, c.seqno>> \in dataSeen[n]
    /\ UNCHANGED vars

ReceiveNewData(n, f) ==
    LET c == OnKissFrame(f.bytes)
        body == c.args[2]
        destId == SubSeq(body, 1, 8)
        out == BuildMeshHeader(MESH_MSG_DATA, c.args[1], c.ttl - 1,
                               c.origin_id, c.seqno) \o body
    IN  /\ f.from # n
        /\ c.handler = "data"
        /\ <<c.origin_id, c.seqno>> \notin dataSeen[n]
        /\ dataSeen' = [dataSeen EXCEPT ![n] = @ \cup {<<c.origin_id, c.seqno>>}]
        /\ Len(body) >= 12
        /\ \/ /\ destId = NodeId(n)
              /\ delivered' = [delivered EXCEPT ![n] = @ \cup
                    {[origin_id |-> c.origin_id, dest_id |-> destId,
                      data_seq |-> UnBe32(SubSeq(body, 9, 12)),
                      payload |-> SubSeq(body, 13, Len(body))]}]
              /\ UNCHANGED <<air, forwards>>
           \/ /\ destId # NodeId(n)
              /\ c.ttl > 1
              /\ \E route \in BOOLEAN :
                    IF route
                    THEN /\ Transmit(n, WrapInAx25Ui(n, out),
                                     Call("data", c.origin_id, c.seqno,
                                          c.ttl - 1, c.args))
                         /\ forwards' = forwards \cup {<<f.bytes, WrapInAx25Ui(n, out)>>}
                    ELSE UNCHANGED <<air, forwards>>
              /\ UNCHANGED delivered
           \/ /\ destId # NodeId(n)
              /\ c.ttl <= 1
              /\ UNCHANGED <<air, forwards, delivered>>
        /\ UNCHANGED <<seqno, sentData>>

Next ==
    \/ \E n \in Nodes : EmitOGM(n)
    \/ \E n, d \in Nodes, p \in Payloads : SendApplicationData(n, d, p)
    \/ \E n \in Nodes, f \in air :
          \/ ReceiveOGM(n, f)
          \/ ReceiveDuplicateData(n, f)
          \/ ReceiveNewData(n, f)

Spec == Init /\ [][Next]_vars

-----------------------------------------------------------------------------
\* Properties

\* Every variable holds values of its type.
TypeOK ==
    /\ seqno \in [Nodes -> 0 .. MaxSends]
    /\ \A f \in air : f.from \in Nodes /\ Len(f.bytes) > 32
    /\ \A n \in Nodes : delivered[n] \subseteq
          [origin_id : {NodeId(m) : m \in Nodes}, dest_id : {NodeId(n)},
           data_seq : 1 .. MaxSends, payload : Payloads]

\* Round trip through both codecs (spec 8.5 and 4.2): every frame any node
\* puts on the air, originated or re-encoded by a forwarder, is dispatched
\* by _on_kiss_frame to the handler, with the header fields and body, that
\* its builder meant.
RoundTrip == \A f \in air : OnKissFrame(f.bytes) = f.meant

\* Forwarding at the byte level (spec 8.2 and 8.8): a forwarded frame
\* carries the version, type, flags, origin and seqno bytes of the frame
\* heard, a ttl one less and at least 1, and for DATA the body verbatim.
\* Bytes 17-32 are the mesh header, 20 is its ttl, 33.. the body.
ForwardRule ==
    \A p \in forwards :
        LET heard == p[1]  sent == p[2] IN
        /\ sent[20] = heard[20] - 1
        /\ sent[20] >= 1
        /\ \A k \in 17 .. 32 \ {20} : sent[k] = heard[k]
        /\ heard[18] = MESH_MSG_DATA =>
              SubSeq(sent, 33, Len(sent)) = SubSeq(heard, 33, Len(heard))

\* End to end: every call of a node's app callback hands it exactly the
\* (origin, dest_id, seqno, payload) of a send_application_data whose
\* caller addressed that node, after any number of forwards.  Delivery
\* compares dest_id with the node's own _node_id, so this fails when two
\* callsigns derive the same id.
DeliveredAsSent ==
    \A n \in Nodes : \A d \in delivered[n] :
        [to |-> n, origin_id |-> d.origin_id, dest_id |-> d.dest_id,
         seqno |-> d.data_seq, payload |-> d.payload] \in sentData

\* The AX.25 addresses of every frame decode (spec 4.2: byte >> 1, SSID in
\* bits 1-4, bit 0 marks the last address) to the uppercased mesh
\* destination call and to the sending node's call, the source last.
DecodeAddress(a) ==
    [call |-> [i \in 1 .. 6 |-> a[i] \div 2],
     ssid |-> (a[7] \div 2) % 16, last |-> a[7] % 2 = 1]

AddressesDecode ==
    \A f \in air :
        LET StationOf(cs, last) ==
                LET dash == SelectInSeq(cs, LAMBDA c : c = 45) IN
                [call |-> LJust(Upper(IF dash = 0 THEN cs ELSE SubSeq(cs, 1, dash - 1)), 6, 32),
                 ssid |-> IF dash = 0 THEN 0 ELSE ParseSsid(SubSeq(cs, dash + 1, Len(cs))),
                 last |-> last]
        IN  /\ DecodeAddress(SubSeq(f.bytes, 1, 7)) = StationOf(MeshDestCallsign[f.from], FALSE)
            /\ DecodeAddress(SubSeq(f.bytes, 8, 14)) = StationOf(Callsign[f.from], TRUE)

=============================================================================
