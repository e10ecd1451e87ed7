------------------------------ MODULE ChatStore ------------------------------
(***************************************************************************)
(* ChatStore (src/chat_store.py): the SQLite chat log of one node.         *)
(*                                                                         *)
(* The table chat_messages has UNIQUE(origin_id, seqno), so a row is a     *)
(* value of a function from the key (origin_id, seqno) to the row's other  *)
(* columns.  The columns channel, nick and text are taken together as one  *)
(* value, the chat line; the id column (AUTOINCREMENT) is not read by any  *)
(* query.  Every write commits at once, so a call is one step.  The        *)
(* queries change no state and are not modelled.                           *)
(***************************************************************************)
EXTENDS TLC

CONSTANTS
    MsgKeys,   \* (origin_id, seqno) pairs
    Lines,     \* chat lines: values of (channel, nick, text)
    Times      \* values of ts

VARIABLES
    rows,      \* the rows of chat_messages: key -> [line, ts]
    open       \* the connection _conn is not yet closed

vars == <<rows, open>>

Row == [line : Lines, ts : Times]

\* has_message: SELECT 1 ... WHERE origin_id = ? AND seqno = ?
HasMessage(k) == k \in DOMAIN rows

\* A new database file: connect, then CREATE TABLE IF NOT EXISTS.
Init ==
    /\ rows = <<>>
    /\ open = TRUE

\* add_message: INSERT OR IGNORE and commit.  ts is the caller's, or
\* time.time() when the caller passes None.  On a closed connection the
\* call raises sqlite3.ProgrammingError instead (see the callers).
AddMessage(k, line, ts) ==
    /\ open
    /\ rows' = IF HasMessage(k) THEN rows
               ELSE (k :> [line |-> line, ts |-> ts]) @@ rows
    /\ UNCHANGED open

\* close: _conn.close(); closing a closed connection does nothing.
Close ==
    /\ open' = FALSE
    /\ UNCHANGED rows

Next ==
    \/ \E k \in MsgKeys, line \in Lines, ts \in Times : AddMessage(k, line, ts)
    \/ Close

Spec == Init /\ [][Next]_vars

\* Every row has a key of the table and the columns of chat_messages.
TypeOK ==
    /\ DOMAIN rows \subseteq MsgKeys
    /\ \A k \in DOMAIN rows : rows[k] \in Row
    /\ open \in BOOLEAN

=============================================================================
