----------------------------- MODULE MeshCleanup -----------------------------
(***************************************************************************)
(* The cleanup thread of one MeshNode (_cleanup_loop) against its RX       *)
(* thread (_on_kiss_frame with _handle_ogm and the dedup gate of           *)
(* _handle_data_frame), statement by statement where they share state.     *)
(*                                                                         *)
(* MeshNode takes one cleanup pass as one step; here a pass is what the    *)
(* code does: take now, then for each of the originator, neighbor and      *)
(* dedup tables build the list of expired keys with a comprehension that   *)
(* iterates the dictionary without a lock, and then delete the listed keys *)
(* (the dedup deletions under _data_seen_lock).  A comprehension is two    *)
(* steps, its start and its end; a key inserted in between makes Python    *)
(* raise "dictionary changed size during iteration", which nothing         *)
(* catches, so the cleanup thread ends.                                    *)
(*                                                                         *)
(* A table is a function from keys to last_seen (ts for the dedup cache);  *)
(* the originators' last_seqno is kept beside it.  Next hop and metric do  *)
(* not take part in the race and are left out.                             *)
(***************************************************************************)
EXTENDS Integers, FiniteSets, Functions, TLC

CONSTANTS
    Origins,         \* node IDs heard by this node (origins and previous hops)
    Seqnos,          \* sequence numbers carried by OGM and DATA frames
    RouteExpiry,     \* routing.route_expiry_seconds
    NeighborExpiry,  \* routing.neighbor_expiry_seconds
    DataSeenExpiry,  \* routing.data_seen_expiry_seconds
    MaxTime          \* bound on the clock

ASSUME
    /\ Seqnos \subseteq Nat
    /\ {RouteExpiry, NeighborExpiry, DataSeenExpiry, MaxTime} \subseteq Nat

Tables == {"originators", "neighbors", "data_seen"}

\* The order in which one pass of _cleanup_loop visits the tables.
NextTable == [originators |-> "neighbors", neighbors |-> "data_seen"]

Expiry(t) ==
    CASE t = "originators" -> RouteExpiry
      [] t = "neighbors"   -> NeighborExpiry
      [] t = "data_seen"   -> DataSeenExpiry

Keys(t) == IF t = "data_seen" THEN Origins \X Seqnos ELSE Origins

VARIABLES
    now,         \* time.time()
    tables,      \* tables[t]: key -> last_seen (ts for data_seen)
    last_seqno,  \* last_seqno[o]: originators[o].last_seqno
    cpc,         \* cleanup thread: "top", "begin", "end", "del" or "dead"
    ctbl,        \* the table the cleanup thread is working on
    cnow,        \* the now local of _cleanup_loop
    iterKeys,    \* keys of the table when the running comprehension started
    dead         \* dead_orig / dead_nei / dead_data: keys listed for deletion

vars == <<now, tables, last_seqno, cpc, ctbl, cnow, iterKeys, dead>>

-----------------------------------------------------------------------------

\* Fault model (mutant): an entry counts as expired once its age reaches the
\* expiry.
ExpiredOffByOne(t, seen) == cnow - seen >= Expiry(t)

\* The comprehension's test: now - entry.last_seen > expiry.
Expired(t, seen) == cnow - seen > Expiry(t)

\* dict[key] = seen: insert the key or refresh its entry.
Touch(t, key) == tables' = [tables EXCEPT ![t] = (key :> now) @@ @]

Init ==
    /\ now = 0
    /\ tables = [t \in Tables |-> <<>>]
    /\ last_seqno = [o \in Origins |-> 0]
    /\ cpc = "top"
    /\ ctbl = "originators"
    /\ cnow = 0
    /\ iterKeys = {}
    /\ dead = {}

-----------------------------------------------------------------------------
\* RX thread

\* _handle_ogm from previous hop h about origin o with sequence number s:
\* refresh (or create) the neighbor entry of h, then create the originator
\* entry of o, or refresh it when s is newer than its last_seqno.
RxOgm(o, h, s) ==
    LET known == o \in DOMAIN tables["originators"]
        update == ~known \/ s > last_seqno[o]
    IN  /\ tables' = [tables EXCEPT
              !["neighbors"] = (h :> now) @@ @,
              !["originators"] = IF update THEN (o :> now) @@ @ ELSE @]
        /\ last_seqno' = IF update THEN [last_seqno EXCEPT ![o] = s] ELSE last_seqno
        /\ UNCHANGED <<now, cpc, ctbl, cnow, iterKeys, dead>>

\* Fault model (mutant): the dedup key leaves out the sequence number.
RxDataOriginKey(o, s) ==
    /\ o \notin DOMAIN tables["data_seen"]
    /\ Touch("data_seen", o)
    /\ UNCHANGED <<now, last_seqno, cpc, ctbl, cnow, iterKeys, dead>>

\* The dedup gate of _handle_data_frame, under _data_seen_lock: a known key
\* is dropped, a new one recorded with the current time.
RxData(o, s) ==
    /\ <<o, s>> \notin DOMAIN tables["data_seen"]
    /\ Touch("data_seen", <<o, s>>)
    /\ UNCHANGED <<now, last_seqno, cpc, ctbl, cnow, iterKeys, dead>>

-----------------------------------------------------------------------------
\* Cleanup thread

\* Loop head (after the 5 s sleep): now = time.time().
CleanupTop ==
    /\ cpc = "top"
    /\ cnow' = now
    /\ cpc' = "begin"
    /\ ctbl' = "originators"
    /\ UNCHANGED <<now, tables, last_seqno, iterKeys, dead>>

\* The comprehension over table t starts iterating.
ListBegin ==
    /\ cpc = "begin"
    /\ iterKeys' = DOMAIN tables[ctbl]
    /\ cpc' = "end"
    /\ UNCHANGED <<now, tables, last_seqno, ctbl, cnow, dead>>

\* The comprehension ends: RuntimeError if a key was inserted meanwhile
\* (the RX thread never deletes), else the expired keys are listed.
ListEnd ==
    LET t == ctbl IN
    /\ cpc = "end"
    /\ \/ /\ DOMAIN tables[t] # iterKeys
          /\ cpc' = "dead"
          /\ UNCHANGED dead
       \/ /\ DOMAIN tables[t] = iterKeys
          /\ dead' = {k \in DOMAIN tables[t] : Expired(t, tables[t][k])}
          /\ cpc' = "del"
    /\ UNCHANGED <<now, tables, last_seqno, ctbl, cnow, iterKeys>>

\* for key in dead_...: del table[key]; then on to the next table, or to
\* the sleep at the end of the pass.
Delete ==
    LET t == ctbl IN
    /\ cpc = "del"
    /\ tables' = [tables EXCEPT ![t] = Restrict(@, DOMAIN @ \ dead)]
    /\ cpc' = IF t = "data_seen" THEN "top" ELSE "begin"
    /\ ctbl' = IF t = "data_seen" THEN t ELSE NextTable[t]
    /\ UNCHANGED <<now, last_seqno, cnow, iterKeys, dead>>

\* Environment: time passes.
Tick ==
    /\ now < MaxTime
    /\ now' = now + 1
    /\ UNCHANGED <<tables, last_seqno, cpc, ctbl, cnow, iterKeys, dead>>

Next ==
    \/ \E o, h \in Origins, s \in Seqnos : RxOgm(o, h, s)
    \/ \E o \in Origins, s \in Seqnos : RxData(o, s)
    \/ CleanupTop \/ ListBegin \/ ListEnd \/ Delete
    \/ Tick

Spec == Init /\ [][Next]_vars

-----------------------------------------------------------------------------
\* Properties

\* Every variable holds values of its type; cleanup never removes a key it
\* did not list, so the listed keys are always keys of some table.
TypeOK ==
    /\ now \in 0 .. MaxTime
    /\ \A t \in Tables : /\ DOMAIN tables[t] \subseteq Keys(t)
                        /\ \A k \in DOMAIN tables[t] : tables[t][k] \in 0 .. MaxTime
    /\ last_seqno \in [Origins -> {0} \cup Seqnos]
    /\ cpc \in {"top", "begin", "end", "del", "dead"}
    /\ ctbl \in Tables
    /\ dead \in SUBSET (Origins \cup (Origins \X Seqnos))

\* A step of the cleanup removes from table t only entries that are expired
\* when they are removed (now - last_seen > expiry).
DeletesOnlyExpired(t) ==
    \A k \in DOMAIN tables[t] \ DOMAIN tables'[t] :
        now - tables[t][k] > Expiry(t)

\* The dedup cache loses a key only once it has been held for longer than
\* data_seen_expiry, although dead_data is listed outside _data_seen_lock
\* and deleted under it after the RX thread may have run: a duplicate
\* arriving within the window is still dropped.
DedupKeptForWindow == [][DeletesOnlyExpired("data_seen")]_vars

\* The cleanup thread keeps running: no exception ends _cleanup_loop
\* (spec 5: the cleanup timer thread ages out stale entries).
CleanupAlive == cpc # "dead"

=============================================================================
