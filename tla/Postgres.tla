------------------------------ MODULE Postgres ------------------------------
(***************************************************************************)
(* The PostgreSQL cluster and the lib/pq driver, as far as the load         *)
(* generator can tell: one table with a BIGSERIAL key, INSERT statements    *)
(* that run as transactions of their own, and failures that end a           *)
(* statement, a connection or the primary.  Code outside the repository's   *)
(* own packages: modelled from how clients/postgres uses it.                *)
(*                                                                         *)
(* A row is its id and the timeline it was inserted on: after a failover    *)
(* the sequence may hand out an id a second time, and only the timeline     *)
(* then tells the two rows apart.                                           *)
(***************************************************************************)
EXTENDS Integers, Sequences, FiniteSets

CONSTANTS Sessions,    \* the goroutines that run statements
          PreRows,     \* how many rows an earlier run may have left behind
          BufferRows,  \* DataRows that fill the server's output buffer (8 kB, about 500)
          MaxFaults    \* bound: aborts, lost connections and failovers of a run

ASSUME PostgresAssumption ==
       /\ PreRows \subseteq Nat
       /\ BufferRows \in Nat \ {0}
       /\ MaxFaults \in Nat

VARIABLES log,      \* the committed transactions of the primary, in commit order
          seq,      \* last value of the id sequence
          tl,       \* timeline of the primary
          xact,     \* per session: how its INSERT stands on the server
          rows,     \* per session: the rows that INSERT created
          unread,   \* per session: rows of RETURNING id the client has not read
          orphans,  \* open transactions whose client is gone
          faults,   \* faults so far
          pre,      \* history: the rows an earlier run left
          ever      \* history: every row that was committed at some time

pgVars == <<log, seq, tl, xact, rows, unread, orphans, faults, pre, ever>>

Row == [id : Nat, tl : Nat]
Ids(R) == {r.id : r \in R}

\* What a SELECT on the primary sees.
Table == UNION {log[i] : i \in DOMAIN log}

XactState == {"idle", "sent", "open", "committed", "aborted", "killed"}

\* Statements the server still works on, or has answered and the client not read.
Live == {"sent", "open", "committed"}

PgTypeOK ==
    /\ log \in Seq(SUBSET Row)
    /\ seq \in Nat
    /\ tl \in Nat
    /\ xact \in [Sessions -> XactState]
    /\ rows \in [Sessions -> SUBSET Row]
    /\ unread \in [Sessions -> SUBSET Row]
    /\ orphans \in SUBSET SUBSET Row
    /\ faults \in Nat
    /\ pre \in SUBSET Row
    /\ ever \in SUBSET Row

NewRows(n) == {[id |-> i, tl |-> tl] : i \in (seq + 1)..(seq + n)}

\* The DataRows that leave the server before the transaction commits: whole
\* buffers.  The rest is sent with ReadyForQuery, after the commit.
Flushed(s) ==
    LET Rank(r) == Cardinality({q \in rows[s] : q.id <= r.id})
        full == Cardinality(rows[s]) \div BufferRows
    IN {r \in rows[s] : Rank(r) <= full * BufferRows}

\* What the client can read now.
Readable(s) == IF xact[s] = "open" THEN unread[s] \cap Flushed(s) ELSE unread[s]

PgInit ==
    /\ \E n \in PreRows :
          /\ pre = {[id |-> i, tl |-> 1] : i \in 1..n}
          /\ log = IF n = 0 THEN <<>> ELSE <<pre>>
          /\ seq = n
    /\ tl = 1
    /\ xact = [s \in Sessions |-> "idle"]
    /\ rows = [s \in Sessions |-> {}]
    /\ unread = [s \in Sessions |-> {}]
    /\ orphans = {}
    /\ faults = 0
    /\ ever = pre

-----------------------------------------------------------------------------
(* What the client's driver calls do to the session; conjuncts of actions.  *)

\* An INSERT leaves the client.
Send(s) ==
    /\ xact' = [xact EXCEPT ![s] = "sent"]
    /\ rows' = [rows EXCEPT ![s] = {}]
    /\ unread' = [unread EXCEPT ![s] = {}]

\* The client gives the statement up (rows.Close, a failed attempt): what is
\* still open goes on without it.
Abandoned(s) == IF xact[s] = "open" THEN orphans \cup {rows[s]} ELSE orphans

Leave(s) ==
    /\ orphans' = Abandoned(s)
    /\ xact' = [xact EXCEPT ![s] = "idle"]
    /\ rows' = [rows EXCEPT ![s] = {}]
    /\ unread' = [unread EXCEPT ![s] = {}]

-----------------------------------------------------------------------------
(* Steps of the server and of the network.                                  *)

\* The server runs the INSERT to its end and begins to send its DataRows; the
\* transaction commits later, at Sync.
Execute(s, n) ==
    /\ xact[s] = "sent"
    /\ xact' = [xact EXCEPT ![s] = "open"]
    /\ rows' = [rows EXCEPT ![s] = NewRows(n)]
    /\ unread' = [unread EXCEPT ![s] = NewRows(n)]
    /\ seq' = seq + n
    /\ UNCHANGED <<log, tl, orphans, faults, pre, ever>>

Commit(s) ==
    /\ xact[s] = "open"
    /\ xact' = [xact EXCEPT ![s] = "committed"]
    /\ log' = Append(log, rows[s])
    /\ ever' = ever \cup rows[s]
    /\ UNCHANGED <<seq, tl, rows, unread, orphans, faults, pre>>

Fault == faults < MaxFaults /\ faults' = faults + 1

\* The server answers ERROR, on a fault of its own or because it was asked to cancel;
\* a DataRow that has left stays sent.
Abort(s) ==
    /\ xact[s] \in {"sent", "open"}
    /\ xact' = [xact EXCEPT ![s] = "aborted"]
    /\ unread' = [unread EXCEPT ![s] = Readable(s)]
    /\ UNCHANGED <<log, seq, tl, rows, orphans, pre, ever>>

\* The connection breaks: the client reads what has arrived, at most, and then
\* fails; the server finishes an open transaction either way.
LoseConnection(s) ==
    /\ Fault
    /\ xact[s] \in Live
    /\ orphans' = Abandoned(s)
    /\ xact' = [xact EXCEPT ![s] = "killed"]
    /\ unread' = [unread EXCEPT ![s] = Readable(s)]
    /\ UNCHANGED <<log, seq, tl, rows, pre, ever>>

OrphanCommits ==
    \E o \in orphans :
       /\ orphans' = orphans \ {o}
       /\ log' = Append(log, o)
       /\ ever' = ever \cup o
       /\ UNCHANGED <<seq, tl, xact, rows, unread, faults, pre>>

OrphanAborts ==
    \E o \in orphans :
       /\ orphans' = orphans \ {o}
       /\ UNCHANGED <<log, seq, tl, xact, rows, unread, faults, pre, ever>>

\* The primary dies and a standby that has replayed a prefix of the log takes
\* over (all of it: a plain crash and restart).  Its sequence stands anywhere
\* between the last id it has seen and the old primary's value.
Failover ==
    /\ Fault
    /\ \E k \in 0..Len(log) :
          /\ log' = SubSeq(log, 1, k)
          /\ \E q \in 0..seq :
                /\ \A i \in 1..k : \A r \in log[i] : r.id <= q
                /\ seq' = q
    /\ tl' = tl + 1
    /\ xact' = [s \in Sessions |-> IF xact[s] \in Live THEN "killed" ELSE xact[s]]
    /\ unread' = [s \in Sessions |-> Readable(s)]
    /\ orphans' = {}
    /\ UNCHANGED <<rows, pre, ever>>
=============================================================================
