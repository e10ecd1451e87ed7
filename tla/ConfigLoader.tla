----------------------------- MODULE ConfigLoader -----------------------------
(***************************************************************************)
(* config_loader.py: load_chat_config_from_yaml and the loaders it calls,  *)
(* from the YAML document (yaml.safe_load's result) to the configuration,  *)
(* or to the exception the first failing step raises.                      *)
(*                                                                         *)
(* A YAML mapping is a function from key strings; a YAML string is a       *)
(* sequence of ASCII codes; a YAML number is an integer; the peers mapping *)
(* is a sequence of <<nickname, value>> pairs, in the document's order,    *)
(* which is the order dict.items() visits them in.  int() and float() of   *)
(* an integer are that integer, str() of a string that string.  Values    *)
(* carry no tag of their kind, so the isinstance(..., dict) tests (a root  *)
(* that is not a mapping, a peer entry that is skipped) are left out: the  *)
(* documents checked have mappings and strings where the code expects      *)
(* them.                                                                   *)
(***************************************************************************)
EXTENDS Integers, Sequences, SequencesExt

\* mapping.get(key, default)
Get(m, key, default) == IF key \in DOMAIN m THEN m[key] ELSE default

\* str.lower() on ASCII codes.
Lower(s) == [i \in DOMAIN s |-> IF s[i] \in 65 .. 90 THEN s[i] + 32 ELSE s[i]]

\* binascii.unhexlify: pairs of hex digits to bytes; binascii.Error on an
\* odd length or a non-hex character.
HexVal(c) == CASE c \in 48 .. 57 -> c - 48
               [] c \in 97 .. 102 -> c - 87
               [] c \in 65 .. 70 -> c - 55
               [] OTHER -> -1
UnhexlifyOk(s) == Len(s) % 2 = 0 /\ \A i \in DOMAIN s : HexVal(s[i]) >= 0
Unhexlify(s) == [i \in 1 .. Len(s) \div 2 |-> HexVal(s[2 * i - 1]) * 16 + HexVal(s[2 * i])]

TCP == <<116, 99, 112>>                       \* "tcp"
SERIAL == <<115, 101, 114, 105, 97, 108>>     \* "serial"
QMESH0 == <<81, 77, 69, 83, 72, 45, 48>>      \* "QMESH-0"

\* _load_transport: "tcp" by default, compared after lower().
LoadTransport(kissCfg) ==
    LET value == Lower(Get(kissCfg, "transport", TCP)) IN
    CASE value = TCP -> "TCP"
      [] value = SERIAL -> "SERIAL"
      [] OTHER -> "ValueError"

\* load_kiss_config: the transport, then the link's numbers with defaults.
LoadKissConfig(root) ==
    LET kiss == Get(root, "kiss", <<>>) IN
    [transport |-> LoadTransport(kiss),
     reconnect_base_delay |-> Get(kiss, "reconnect_base_delay", 5),
     reconnect_max_delay |-> Get(kiss, "reconnect_max_delay", 60),
     tx_queue_size |-> Get(kiss, "tx_queue_size", 1000)]

\* load_routing_config
LoadRoutingConfig(root) ==
    LET routing == Get(root, "routing", <<>>) IN
    [ogm_interval_seconds |-> Get(routing, "ogm_interval_seconds", 10),
     ogm_ttl |-> Get(routing, "ogm_ttl", 5),
     route_expiry_seconds |-> Get(routing, "route_expiry_seconds", 120),
     neighbor_expiry_seconds |-> Get(routing, "neighbor_expiry_seconds", 60),
     data_seen_expiry_seconds |-> Get(routing, "data_seen_expiry_seconds", 30)]

\* load_security_config: key_hex, when present, is unhexlified.
SecurityError(root) ==
    LET sec == Get(root, "security", <<>>) IN
    "key_hex" \in DOMAIN sec /\ ~UnhexlifyOk(sec["key_hex"])

\* The exception a peer entry raises in load_chat_config_from_yaml's loop,
\* or "none".
PeerError(entry) ==
    LET data == entry[2] IN
    CASE "node_id_hex" \notin DOMAIN data -> "KeyError"
      [] ~UnhexlifyOk(data["node_id_hex"]) -> "binascii.Error"
      [] Len(Unhexlify(data["node_id_hex"])) # 8 -> "ValueError"
      [] OTHER -> "none"

\* load_chat_config_from_yaml: the exception raised, or "none".  The checks
\* run in the code's order: mesh.callsign (_get_required), the transport,
\* the security key, chat.db_path, then the peers one by one.
LoadError(root) ==
    CASE "callsign" \notin DOMAIN Get(root, "mesh", <<>>) -> "KeyError"
      [] LoadKissConfig(root).transport = "ValueError" -> "ValueError"
      [] SecurityError(root) -> "binascii.Error"
      [] "db_path" \notin DOMAIN Get(root, "chat", <<>>) -> "KeyError"
      [] OTHER ->
           LET peers == Get(Get(root, "chat", <<>>), "peers", <<>>)
               first == SelectInSeq(peers, LAMBDA e : PeerError(e) # "none")
           IN  IF first = 0 THEN "none" ELSE PeerError(peers[first])

\* load_mesh_node_config's MeshNodeConfig, for a root that loads.
LoadMeshNodeConfig(root) ==
    LET mesh == Get(root, "mesh", <<>>) IN
    [callsign |-> mesh["callsign"],
     mesh_dest_callsign |-> Get(mesh, "mesh_dest_callsign", QMESH0),
     kiss_config |-> LoadKissConfig(root),
     routing_config |-> LoadRoutingConfig(root)]

\* The peers of the MeshChatConfig, nickname to node id and nick; a later
\* entry with a nickname already seen replaces the earlier one.
LoadPeers(root) ==
    LET peers == Get(Get(root, "chat", <<>>), "peers", <<>>)
        Add(acc, e) == (e[1] :> [node_id |-> Unhexlify(e[2]["node_id_hex"]),
                                 nick |-> Get(e[2], "nick", e[1])]) @@ acc
    IN  FoldLeft(Add, <<>>, peers)

=============================================================================
