----------------------------- MODULE TxChannel -----------------------------
(***************************************************************************)
(* What the KISS link promises its senders (spec 4.1 and 5): frames handed *)
(* to send() leave, in FIFO order, through one channel that may drop the   *)
(* frame at its head (a write that fails, or a frame taken while the       *)
(* connection is down or the client is stopping) but never reorders or     *)
(* repeats one.                                                            *)
(***************************************************************************)
EXTENDS Sequences

CONSTANT Msgs

VARIABLES
    pending,   \* frames accepted by send() and not yet written or dropped
    out        \* frames written to the TNC, in order

Init ==
    /\ pending = <<>>
    /\ out = <<>>

Enqueue(m) ==
    /\ pending' = Append(pending, m)
    /\ UNCHANGED out

Deliver ==
    /\ pending # <<>>
    /\ out' = Append(out, Head(pending))
    /\ pending' = Tail(pending)

DropHead ==
    /\ pending # <<>>
    /\ pending' = Tail(pending)
    /\ UNCHANGED out

Next == (\E m \in Msgs : Enqueue(m)) \/ Deliver \/ DropHead

Spec == Init /\ [][Next]_<<pending, out>>

=============================================================================
