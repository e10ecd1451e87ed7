--------------------------- MODULE MeshChatRestart ---------------------------
(***************************************************************************)
(* The senders of the chat lines that MeshChatLog's node receives, with    *)
(* their process restarts.  A sender numbers its DATA frames with          *)
(* _next_seqno from a _seqno that MeshNode.__init__ sets to 0 and that     *)
(* nothing persists, while the receiver's chat log persists               *)
(* UNIQUE(origin_id, seqno) and its dedup cache holds keys for             *)
(* data_seen_expiry.  Frames sent stay on the air: the mesh may deliver    *)
(* any of them, late and more than once.                                   *)
(***************************************************************************)
EXTENDS MeshChatLog

CONSTANTS MaxRestarts   \* bound on sender restarts, all senders together

VARIABLES
    senderSeq,  \* senderSeq[o]: MeshNode._seqno of sender o
    restarts,   \* sender restarts so far
    sent,       \* the DATA frames sent: [o, s, line]
    heard       \* the frames this node's RX thread has handled (history)

rvars == <<cvars, senderSeq, restarts, sent, heard>>

RestartInit ==
    /\ ChatInit
    /\ senderSeq = [o \in Origins |-> 0]
    /\ restarts = 0
    /\ sent = {}
    /\ heard = {}

\* The chat client of o sends line l: send_application_data takes the next
\* seqno (_next_seqno) and sends the DATA frame.
SendLine(o, l) ==
    LET s == senderSeq[o] + 1 IN
    /\ s \in Seqnos
    /\ senderSeq' = [senderSeq EXCEPT ![o] = s]
    /\ sent' = sent \cup {[o |-> o, s |-> s, line |-> l]}
    /\ UNCHANGED <<cvars, restarts, heard>>

\* Sender o's process restarts: a new MeshNode starts _seqno at 0.
RestartSender(o) ==
    /\ restarts < MaxRestarts
    /\ senderSeq' = [senderSeq EXCEPT ![o] = 0]
    /\ restarts' = restarts + 1
    /\ UNCHANGED <<cvars, sent, heard>>

\* This node hears frame f, new to its dedup cache: delivery to the
\* callback, which calls add_message.
HearLine(f) ==
    /\ f \in sent
    /\ DeliverData(f.o, f.s, f.line)
    /\ heard' = heard \cup {f}
    /\ UNCHANGED <<senderSeq, restarts, sent>>

\* This node hears frame f whose key is in _data_seen: the dedup gate of
\* _handle_data_frame drops it.
HearDuplicate(f) ==
    /\ f \in sent
    /\ rxAlive
    /\ <<f.o, f.s>> \in DOMAIN tables["data_seen"]
    /\ heard' = heard \cup {f}
    /\ UNCHANGED <<cvars, senderSeq, restarts, sent>>

RestartNext ==
    \/ \E o \in Origins, l \in Lines : SendLine(o, l)
    \/ \E o \in Origins : RestartSender(o)
    \/ \E f \in sent : HearLine(f) \/ HearDuplicate(f)
    \/ CleanupOrTick /\ UNCHANGED <<senderSeq, restarts, sent, heard>>

RestartSpec == RestartInit /\ [][RestartNext]_rvars

-----------------------------------------------------------------------------

\* Every chat line this node's RX thread has handled is in its chat log as
\* it was sent.  Broken when a restarted sender reuses an (origin_id,
\* seqno) key: within data_seen_expiry the dedup gate drops the new line,
\* after it add_message's INSERT OR IGNORE keeps the old row.
LinesLogged ==
    \A f \in heard : Store!HasMessage(<<f.o, f.s>>) /\ log[<<f.o, f.s>>].line = f.line

=============================================================================
