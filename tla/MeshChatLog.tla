----------------------------- MODULE MeshChatLog -----------------------------
(***************************************************************************)
(* One node's RX and cleanup threads (MeshCleanup) composed with the chat  *)
(* log (ChatStore) that the application callback writes to.  A DATA frame  *)
(* addressed to the node passes the dedup gate of _handle_data_frame and   *)
(* is handed to the application callback, which records it with           *)
(* add_message(origin_id, seqno, channel, nick, text) and no ts.  The      *)
(* callback is the chat client's and is not under src/; it is taken from   *)
(* the spec (the chat log is keyed by the delivery's (origin_id, seqno)).  *)
(*                                                                         *)
(* An exception the callback raises passes through _on_kiss_frame into     *)
(* KISSClient._handle_rx_frame, which catches only ValueError: the         *)
(* ProgrammingError of a closed log ends the RX thread.                    *)
(***************************************************************************)
EXTENDS MeshCleanup

CONSTANTS Lines   \* chat lines: values of (channel, nick, text)

VARIABLES
    log,       \* the chat log's rows
    logOpen,   \* the chat log's connection is open
    rxAlive    \* the RX thread that runs _on_kiss_frame is alive

Store == INSTANCE ChatStore WITH
    MsgKeys <- Origins \X Seqnos, Lines <- Lines, Times <- 0 .. MaxTime,
    rows <- log, open <- logOpen

cvars == <<vars, log, logOpen, rxAlive>>

ChatInit == Init /\ Store!Init /\ rxAlive = TRUE

\* An OGM: _handle_ogm, on the RX thread.
ChatRxOgm(o, h, s) ==
    /\ rxAlive
    /\ RxOgm(o, h, s)
    /\ UNCHANGED <<log, logOpen, rxAlive>>

\* A DATA frame for another node: the dedup gate, then the forward path,
\* which sends on the radio and leaves the log alone.
ForwardData(o, s) ==
    /\ rxAlive
    /\ RxData(o, s)
    /\ UNCHANGED <<log, logOpen, rxAlive>>

\* A DATA frame for this node carrying chat line l: the dedup gate, then
\* the application callback records it in the open log with
\* ts = time.time().
DeliverData(o, s, l) ==
    /\ rxAlive
    /\ RxData(o, s)
    /\ Store!AddMessage(<<o, s>>, l, now)
    /\ UNCHANGED rxAlive

\* The same on a closed log: the dedup key is already recorded, then
\* add_message raises ProgrammingError and the RX thread ends.
DeliverDataClosed(o, s) ==
    /\ rxAlive
    /\ ~logOpen
    /\ RxData(o, s)
    /\ rxAlive' = FALSE
    /\ UNCHANGED <<log, logOpen>>

\* The chat application closes its log.
CloseLog ==
    /\ Store!Close
    /\ UNCHANGED <<vars, rxAlive>>

\* The cleanup thread and the clock, which do not touch the log.
CleanupOrTick ==
    /\ CleanupTop \/ ListBegin \/ ListEnd \/ Delete \/ Tick
    /\ UNCHANGED <<log, logOpen, rxAlive>>

ChatNext ==
    \/ \E o, h \in Origins, s \in Seqnos : ChatRxOgm(o, h, s)
    \/ \E o \in Origins, s \in Seqnos :
          \/ ForwardData(o, s)
          \/ \E l \in Lines : DeliverData(o, s, l)
          \/ DeliverDataClosed(o, s)
    \/ CloseLog
    \/ CleanupOrTick

ChatSpec == ChatInit /\ [][ChatNext]_cvars

-----------------------------------------------------------------------------

\* The type invariant of the composition: that of MeshCleanup, that of the
\* chat log, and the RX thread's flag.
DeliveryTypeOK == TypeOK /\ Store!TypeOK /\ rxAlive \in BOOLEAN

=============================================================================
