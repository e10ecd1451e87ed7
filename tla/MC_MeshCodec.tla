---------------------------- MODULE MC_MeshCodec ----------------------------
(* Three nodes whose configuration is what load_chat_config_from_yaml      *)
(* makes of their YAML documents.  The callsigns have the shapes the code  *)
(* meets: lowercase with a two-digit SSID and longer than a node id        *)
(* ("kd2abc-10"), a bare six-letter call ("N0CALL"), a short call with an  *)
(* SSID ("W1AW-7").  One node leaves mesh_dest_callsign to its default,    *)
(* one writes it in lowercase.  The ttls 1, 2 and 3 give OGMs that are     *)
(* never, once and twice forwarded.                                        *)
EXTENDS MeshCodec, ConfigLoader

CONSTANTS A, B, C

\* A YAML string, as ASCII codes.
KD2ABC10 == <<107, 100, 50, 97, 98, 99, 45, 49, 48>>   \* kd2abc-10
N0CALL == <<78, 48, 67, 65, 76, 76>>                   \* N0CALL
W1AW7 == <<87, 49, 65, 87, 45, 55>>                    \* W1AW-7
QMESH0LOWER == <<113, 109, 101, 115, 104, 45, 48>>     \* qmesh-0
DB == <<99, 46, 100, 98>>                              \* c.db
BOB == <<98, 111, 98>>                                 \* bob
N0CALLHEX ==                                           \* 4e3043414c4c0000
    <<52, 101, 51, 48, 52, 51, 52, 49, 52, 99, 52, 99, 48, 48, 48, 48>>

\* The YAML documents of the three nodes.
MCYaml ==
    (A :> [mesh |-> [callsign |-> KD2ABC10],
           routing |-> [ogm_ttl |-> 2],
           chat |-> [db_path |-> DB,
                     peers |-> << <<BOB, [node_id_hex |-> N0CALLHEX]>> >>]])
    @@ (B :> [mesh |-> [callsign |-> N0CALL, mesh_dest_callsign |-> QMESH0LOWER],
              routing |-> [ogm_ttl |-> 1],
              chat |-> [db_path |-> DB]])
    @@ (C :> [mesh |-> [callsign |-> W1AW7],
              routing |-> [ogm_ttl |-> 3],
              kiss |-> [transport |-> <<84, 67, 80>>],   \* "TCP"
              chat |-> [db_path |-> DB]])

ASSUME \A n \in {A, B, C} : LoadError(MCYaml[n]) = "none"

MCNodeConfig == [n \in {A, B, C} |-> LoadMeshNodeConfig(MCYaml[n])]

MCCallsign == [n \in {A, B, C} |-> MCNodeConfig[n].callsign]
MCMeshDest == [n \in {A, B, C} |-> MCNodeConfig[n].mesh_dest_callsign]
MCOgmTtl == [n \in {A, B, C} |-> MCNodeConfig[n].routing_config.ogm_ttl]

MCPayloads == {<<104, 105>>}                             \* "hi"
=============================================================================
