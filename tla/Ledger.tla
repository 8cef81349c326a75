-------------------------------- MODULE Ledger --------------------------------
(***************************************************************************)
(* What the load generator promises about a database that may fail at any     *)
(* time: a ledger of inserted rows to hold the table against.  Rows are        *)
(* entered as their ids arrive, each at most once; a batch is confirmed only   *)
(* when it was committed and is entered to the last row; and once the ledger   *)
(* is closed it stands.  Nothing is said of workers, statements or retries.    *)
(***************************************************************************)
VARIABLES pending,    \* rows of transactions that are neither committed nor lost
          coming,     \* rows whose ids are on their way to the client
          present,    \* rows of the table
          ever,       \* rows that were committed at some time
          tracked,    \* the ledger
          confirmed,  \* rows of it that are known to have been committed
          closed      \* the test has ended

ledgerVars == <<tracked, confirmed, closed>>
vars == <<pending, coming, present, ever, ledgerVars>>

Init ==
    /\ pending = {}
    /\ coming = {}
    /\ ever = present
    /\ tracked = {}
    /\ confirmed = {}
    /\ closed = FALSE

\* A transaction inserts rows nobody has seen before.
Insert ==
    LET new == pending' \ pending
    IN /\ new # {}
       /\ new \cap (ever \cup pending \cup coming \cup tracked) = {}
       /\ pending' = pending \cup new
       /\ coming' = coming \cup new
       /\ UNCHANGED <<present, ever, ledgerVars>>

\* It commits, whether or not its client is still there.
Commit ==
    LET new == present' \ present
    IN /\ new # {}
       /\ new \subseteq pending
       /\ present' = present \cup new
       /\ ever' = ever \cup new
       /\ pending' = pending \ new
       /\ UNCHANGED <<coming, ledgerVars>>

\* A transaction, an answer or rows of the table are lost.
Lose ==
    /\ pending' \subseteq pending
    /\ coming' \subseteq coming
    /\ present' \subseteq present
    /\ UNCHANGED <<ever, ledgerVars>>

Track ==
    /\ ~closed
    /\ \E r \in coming :
          /\ tracked' = tracked \cup {r}
          /\ coming' = coming \ {r}
    /\ UNCHANGED <<pending, present, ever, confirmed, closed>>

Confirm ==
    /\ ~closed
    /\ confirmed \subseteq confirmed'
    /\ confirmed' \ confirmed \subseteq tracked \cap ever
    /\ UNCHANGED <<pending, coming, present, ever, tracked, closed>>

Close ==
    /\ ~closed
    /\ closed' = TRUE
    /\ UNCHANGED <<pending, coming, present, ever, tracked, confirmed>>

Next == Insert \/ Commit \/ Lose \/ Track \/ Confirm \/ Close

Spec == Init /\ [][Next]_vars
=============================================================================
