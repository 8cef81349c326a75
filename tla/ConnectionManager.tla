-------------------------- MODULE ConnectionManager --------------------------
(***************************************************************************)
(* clients/postgres/connection_manager.go: the check before the test, the    *)
(* pool the workers then draw from, the monitor that repeats the check's      *)
(* queries, HealthCheck, and the pool's end.  The connections of other        *)
(* clients come and go meanwhile.                                            *)
(*                                                                         *)
(* database/sql is external: a query takes an idle connection or opens one    *)
(* while fewer than MaxOpenConns are open, and otherwise waits, for as long    *)
(* as its context lets it.                                                   *)
(***************************************************************************)
EXTENDS Integers, FiniteSets

CONSTANTS Workers,
          Main, Monitor,     \* main(), and MonitorConnections
          Checkers,          \* goroutines that call HealthCheck (none in the program)
          ServerSizes,       \* the values max_connections may have
          MinFreeConns,      \* DB_MIN_FREE_CONNS
          MaxOpenConns,      \* DB_MAX_OPEN_CONNS
          MaxIdleConns,      \* DB_MAX_IDLE_CONNS
          Background,        \* server processes that hold no slot and have no state
          OthersLimit        \* bound: connections other clients ever hold

Managers == {Main, Monitor} \cup Checkers
Users == Workers \cup Managers

ASSUME ConnectionAssumption ==
       /\ IsFiniteSet(Users)
       /\ Main # Monitor /\ {Main, Monitor} \cap Checkers = {}
       /\ Workers \cap Managers = {}
       /\ ServerSizes \subseteq Nat
       /\ MinFreeConns \in Nat \ {0}
       /\ MaxOpenConns \in Int
       /\ MaxIdleConns \in Int
       /\ Background \in Nat
       /\ OthersLimit \in Nat

VARIABLES maxConnections, \* max_connections of the server, fixed while it runs
          cm,            \* what main is at: connecting, running the test, checking
                         \* for losses after Stop; or the pool is closed
          ctxDone,       \* the context of the test has ended
          use,           \* per user of the pool: none, wanting or having a connection
          query,         \* per user: the query it wants to run
          idle,          \* idle connections of the pool
          othersActive,  \* connections of other clients that are not idle to the server
          othersIdle,    \* their idle ones
          seenMax,       \* per user of GetConnectionStats: stats.MaxConnections
          canConnect     \* the last CanConnect: nothing before the first

poolVars == <<use, query, idle>>
othersVars == <<maxConnections, othersActive, othersIdle>>
statsVars == <<seenMax, canConnect>>
vars == <<cm, ctxDone, poolVars, othersVars, statsVars>>

\* Type invariant of the manager, the pool and the server's slots.
TypeOK ==
    /\ maxConnections \in ServerSizes
    /\ cm \in {"connecting", "running", "checking", "closed", "rejected"}
    /\ ctxDone \in BOOLEAN
    /\ use \in [Users -> {"none", "want", "have"}]
    /\ query \in [Users -> {"ping", "show", "count", "load"}]
    /\ idle \in Nat
    /\ othersActive \in Nat
    /\ othersIdle \in Nat
    /\ seenMax \in [Managers -> Nat]
    /\ canConnect \in BOOLEAN

Having == {u \in Users : use[u] = "have"}
Open == Cardinality(Having) + idle
Taken == Open + othersActive + othersIdle
Free == maxConnections - Taken

\* SetMaxOpenConns and SetMaxIdleConns come after the check: until then the
\* number of open connections is not limited and two idle ones are kept.
Configured == cm \in {"running", "checking"}

\* Mutants: off by one, and SetMaxOpenConns forgotten.
MayOpenOffByOne == Configured => Open <= MaxOpenConns
MayOpenUnlimited == TRUE

\* A limit of 0 or less is none.
MayOpen == Configured /\ MaxOpenConns > 0 => Open < MaxOpenConns

Smaller(a, b) == IF a < b THEN a ELSE b
PoolIdleLimit ==
    IF MaxIdleConns <= 0 THEN 0
    ELSE IF MaxOpenConns <= 0 THEN MaxIdleConns
    ELSE Smaller(MaxIdleConns, MaxOpenConns)

\* A pool that is closed keeps none.
IdleLimit ==
    IF Configured THEN PoolIdleLimit ELSE IF cm = "connecting" THEN 2 ELSE 0

Init ==
    /\ maxConnections \in ServerSizes
    /\ cm = "connecting"
    /\ ctxDone = FALSE
    /\ use = [u \in Users |-> IF u = Main THEN "want" ELSE "none"]
    /\ query = [u \in Users |-> IF u = Monitor THEN "show"
                                ELSE IF u \in Managers THEN "ping" ELSE "load"]
    /\ idle = 0
    /\ \E n \in 0..Smaller(OthersLimit, maxConnections) :
          \E a \in 0..n : othersActive = a /\ othersIdle = n - a
    /\ seenMax = [u \in Managers |-> 0]
    /\ canConnect = FALSE

-----------------------------------------------------------------------------
(* The pool of database/sql.                                                *)

\* Mutant: an idle connection is taken although there is none.
TakeIdleMutant(u) ==
    /\ use[u] = "want"
    /\ cm # "closed"
    /\ idle' = idle - 1
    /\ use' = [use EXCEPT ![u] = "have"]
    /\ UNCHANGED <<cm, ctxDone, query, othersVars, statsVars>>

TakeIdle(u) ==
    /\ use[u] = "want"
    /\ cm # "closed"
    /\ idle > 0
    /\ idle' = idle - 1
    /\ use' = [use EXCEPT ![u] = "have"]
    /\ UNCHANGED <<cm, ctxDone, query, othersVars, statsVars>>

OpenNew(u) ==
    /\ use[u] = "want"
    /\ cm # "closed"
    /\ idle = 0
    /\ MayOpen
    /\ Free > 0
    /\ use' = [use EXCEPT ![u] = "have"]
    /\ UNCHANGED <<cm, ctxDone, query, idle, othersVars, statsVars>>

\* The query fails: "sorry, too many clients already", its context has ended (main's
\* are not the test's), or the pool is closed.
Refused(u) ==
    /\ use[u] = "want"
    /\ \/ idle = 0 /\ MayOpen /\ Free <= 0
       \/ ctxDone /\ u # Main
       \/ cm = "closed"

\* Or it fails on a connection, which is then not used again.
Broken(u) == use[u] = "have"

\* The connection goes back to the pool, or is closed when enough are idle.
Release(u, next) ==
    /\ idle' = Smaller(idle + 1, IdleLimit)
    /\ use' = [use EXCEPT ![u] = next]

\* connectionCleaner, after 15 minutes idle or an hour of life.
IdleExpires ==
    /\ idle > 0
    /\ idle' = idle - 1
    /\ UNCHANGED <<cm, ctxDone, use, query, othersVars, statsVars>>

-----------------------------------------------------------------------------
(* GetConnectionStats: two queries, one after the other, each on a            *)
(* connection of its own; before them a ping in NewConnectionManager and in   *)
(* HealthCheck.                                                              *)

Ping(m) ==
    /\ use[m] = "have"
    /\ query[m] = "ping"
    /\ Release(m, "want")
    /\ query' = [query EXCEPT ![m] = "show"]
    /\ UNCHANGED <<cm, ctxDone, othersVars, statsVars>>

ShowMaxConnections(m) ==
    /\ use[m] = "have"
    /\ query[m] = "show"
    /\ seenMax' = [seenMax EXCEPT ![m] = maxConnections]
    /\ Release(m, "want")
    /\ query' = [query EXCEPT ![m] = "count"]
    /\ UNCHANGED <<cm, ctxDone, othersVars, canConnect>>

\* What pg_stat_activity may show besides the idle connections: the one that asks, the
\* server's own processes, which have no state, and any of the pool's others.  One that
\* is in use is idle to the server before its query arrives and while the client reads
\* the rows of one that is over.
CurrentConnections ==
    {1 + n + othersActive + Background : n \in 0..(Cardinality(Having) - 1)}

EnoughFree(max, current) == max - current >= MinFreeConns

\* The monitor begins with SHOW, HealthCheck with a ping.
FirstQuery(m) == IF m = Monitor THEN "show" ELSE "ping"

\* The count and CanConnect.  The monitor and HealthCheck only report them.
CountConnections(m) ==
    /\ m # Main
    /\ use[m] = "have"
    /\ query[m] = "count"
    /\ \E current \in CurrentConnections : canConnect' = EnoughFree(seenMax[m], current)
    /\ Release(m, "none")
    /\ query' = [query EXCEPT ![m] = FirstQuery(m)]
    /\ UNCHANGED <<cm, ctxDone, othersVars, seenMax>>

\* At startup main goes on or gives up on it, and closes the pool.
CheckAtStart ==
    /\ use[Main] = "have"
    /\ query[Main] = "count"
    /\ \E current \in CurrentConnections : canConnect' = EnoughFree(seenMax[Main], current)
    /\ cm' = IF canConnect' THEN "running" ELSE "rejected"
    /\ idle' = IF canConnect' THEN Smaller(idle + 1, PoolIdleLimit) ELSE 0
    /\ use' = [use EXCEPT ![Main] = "none"]
    /\ query' = [query EXCEPT ![Main] = "load"]
    /\ UNCHANGED <<ctxDone, othersVars, seenMax>>

\* A query of the monitor or of HealthCheck fails: the next tick tries again.
StatsFail(m) ==
    /\ m # Main
    /\ Refused(m) \/ Broken(m)
    /\ use' = [use EXCEPT ![m] = "none"]
    /\ query' = [query EXCEPT ![m] = FirstQuery(m)]
    /\ UNCHANGED <<cm, ctxDone, idle, othersVars, statsVars>>

\* Mutant: the pool is not closed when the statistics cannot be had.
StartFailsOpen ==
    /\ cm = "connecting"
    /\ use[Main] = "have"
    /\ Release(Main, "none")
    /\ cm' = "rejected"
    /\ UNCHANGED <<ctxDone, query, othersVars, statsVars>>

\* A query of NewConnectionManager fails: the pool is closed, main exits.
StartFails ==
    /\ cm = "connecting"
    /\ Refused(Main) \/ Broken(Main)
    /\ use' = [use EXCEPT ![Main] = "none"]
    /\ idle' = 0
    /\ cm' = "rejected"
    /\ UNCHANGED <<ctxDone, query, othersVars, statsVars>>

\* The ticker of MonitorConnections, until its context ends, and calls of
\* HealthCheck.
StatsBegin(m) ==
    /\ m # Main
    /\ cm \in {"running", "checking"}
    /\ ~ctxDone
    /\ use[m] = "none"
    /\ use' = [use EXCEPT ![m] = "want"]
    /\ UNCHANGED <<cm, ctxDone, query, idle, othersVars, statsVars>>

-----------------------------------------------------------------------------
(* The statements of the workers, and of main after Stop.                    *)

Asks(u) == IF u = Main THEN cm = "checking" ELSE cm = "running" /\ ~ctxDone

Queries(u) ==
    /\ Asks(u)
    /\ use[u] = "none"
    /\ use' = [use EXCEPT ![u] = "want"]
    /\ UNCHANGED <<cm, ctxDone, query, idle, othersVars, statsVars>>

\* Mutant: rows.Close is forgotten, and the connection stays in use.
QueryLeaks(u) == use[u] = "have" /\ UNCHANGED vars

QueryDone(u) ==
    /\ use[u] = "have"
    /\ query[u] = "load"
    /\ Release(u, "none")
    /\ UNCHANGED <<cm, ctxDone, query, othersVars, statsVars>>

QueryFails(u) ==
    /\ cm # "connecting"
    /\ Refused(u) \/ Broken(u)
    /\ use' = [use EXCEPT ![u] = "none"]
    /\ UNCHANGED <<cm, ctxDone, query, idle, othersVars, statsVars>>

ContextExpires ==
    /\ cm \in {"running", "checking"}
    /\ ~ctxDone
    /\ ctxDone' = TRUE
    /\ UNCHANGED <<cm, poolVars, othersVars, statsVars>>

\* Stop has seen every worker leave; main checks for losses and cleans up.
Stop ==
    /\ cm = "running"
    /\ \A w \in Workers : use[w] = "none"
    /\ cm' = "checking"
    /\ UNCHANGED <<ctxDone, poolVars, othersVars, statsVars>>

\* Mutant: the idle connections stay open.
CloseLater ==
    /\ cm = "checking"
    /\ use[Main] = "none"
    /\ cm' = "closed"
    /\ ctxDone' = TRUE
    /\ UNCHANGED <<poolVars, othersVars, statsVars>>

\* The deferred calls: the monitor's context is cancelled and the pool closed; a
\* connection in use is closed when it is released.
Close ==
    /\ cm = "checking"
    /\ use[Main] = "none"
    /\ cm' = "closed"
    /\ ctxDone' = TRUE
    /\ idle' = 0
    /\ UNCHANGED <<use, query, othersVars, statsVars>>

-----------------------------------------------------------------------------
(* The other clients of the server.                                         *)

OtherConnects ==
    /\ othersActive + othersIdle < OthersLimit
    /\ Free > 0
    /\ othersActive' = othersActive + 1
    /\ UNCHANGED <<maxConnections, cm, ctxDone, poolVars, othersIdle, statsVars>>

OtherFallsIdle ==
    /\ othersActive > 0
    /\ othersActive' = othersActive - 1
    /\ othersIdle' = othersIdle + 1
    /\ UNCHANGED <<maxConnections, cm, ctxDone, poolVars, statsVars>>

OtherLeaves ==
    /\ othersIdle > 0
    /\ othersIdle' = othersIdle - 1
    /\ UNCHANGED <<maxConnections, cm, ctxDone, poolVars, othersActive, statsVars>>

-----------------------------------------------------------------------------
Pool(u) == TakeIdle(u) \/ OpenNew(u)
Answered(m) == Ping(m) \/ ShowMaxConnections(m) \/ CountConnections(m)
Stats(m) == Answered(m) \/ StatsFail(m)
Start == CheckAtStart \/ StartFails
Work(u) == QueryDone(u) \/ QueryFails(u)
Others == OtherConnects \/ OtherFallsIdle \/ OtherLeaves

Next ==
    \/ \E u \in Users : Pool(u)
    \/ IdleExpires
    \/ Start
    \/ \E m \in Managers : Stats(m) \/ StatsBegin(m)
    \/ \E u \in Workers \cup {Main} : Work(u) \/ Queries(u)
    \/ ContextExpires \/ Stop \/ Close
    \/ Others

Spec == Init /\ [][Next]_vars

\* Goroutines are scheduled and the server answers, or refuses; no statement has to
\* break.  database/sql hands a freed connection to one of the requests that wait for
\* it, drawn at random: none of them is passed over for ever.
FairSpec ==
    /\ Spec
    /\ \A u \in Users : SF_vars(Pool(u))
    /\ \A u \in Workers \cup {Main} : WF_vars(QueryDone(u) \/ (Refused(u) /\ QueryFails(u)))
    /\ \A m \in Managers : WF_vars(Answered(m) \/ (Refused(m) /\ StatsFail(m)))
    /\ WF_vars(CheckAtStart \/ (Refused(Main) /\ StartFails))

-----------------------------------------------------------------------------
\* A pool that fits keeps DB_MIN_FREE_CONNS free: when max_connections leaves room
\* for the others, the whole pool and the free ones, the promise of README.md:309
\* is kept all through the run, whatever the check counted.
FittingPoolKeepsFree ==
    MaxOpenConns > 0 /\ OthersLimit + MaxOpenConns + MinFreeConns <= maxConnections =>
        Free >= MinFreeConns

\* The server's slots are never overdrawn, and the pool stays within
\* DB_MAX_OPEN_CONNS although connections were opened before the limit was set.
SlotsRespected == Free >= 0 /\ (MaxOpenConns > 0 => Open <= MaxOpenConns)

\* Whoever gives up the pool gives back its slots: after any failure of
\* NewConnectionManager nothing is open, and after Close what is still in use is
\* returned before long.
RejectedHoldsNothing == cm = "rejected" => Open = 0
ClosedReturnsAll == cm = "closed" ~> Open = 0

\* A goroutine that asks for a connection gets it or an error, also with more
\* workers than connections: nobody holds one connection and waits for another.
WantIsServed == \A u \in Users : use[u] = "want" ~> use[u] # "want"
=============================================================================
