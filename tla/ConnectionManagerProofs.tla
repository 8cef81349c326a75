----------------------- MODULE ConnectionManagerProofs -----------------------
(***************************************************************************)
(* Proofs about the connection manager and its pool, for every number of     *)
(* workers, callers of HealthCheck and other clients, and every setting of    *)
(* the limits: the server's slots and the pool's limit are kept, a manager     *)
(* that is rejected holds nothing, and a pool that fits keeps its share free.  *)
(***************************************************************************)
EXTENDS ConnectionManager, FiniteSetTheorems, TLAPS

Limits ==
    /\ othersActive + othersIdle <= OthersLimit
    /\ Free >= 0
    /\ MaxOpenConns > 0 => Open <= MaxOpenConns

\* Before the check only main uses the pool, and one connection at a time; after
\* a check that failed nobody does.
Starting ==
    /\ cm = "connecting" => Open <= 1 /\ \A u \in Users \ {Main} : use[u] = "none"
    /\ cm = "rejected" => Open = 0 /\ \A u \in Users : use[u] = "none"

\* After the check main's own queries are those of CheckDataLoss and Cleanup.
MainLoads == cm \in {"running", "checking", "closed"} => query[Main] = "load"

CInv == TypeOK /\ Limits /\ Starting /\ MainLoads

-----------------------------------------------------------------------------
(* The number of connections.                                                *)

LEMMA ManagersUse == Managers \subseteq Users /\ Main \in Managers /\ Workers \subseteq Users
BY DEF Managers, Users

LEMMA IdleLimitNat == PoolIdleLimit \in Nat /\ IdleLimit \in Nat
BY ConnectionAssumption DEF PoolIdleLimit, IdleLimit, Smaller

LEMMA HavingCounts ==
    /\ IsFiniteSet(Having) /\ Cardinality(Having) \in Nat
    /\ IsFiniteSet(Having') /\ Cardinality(Having') \in Nat
<1>1. IsFiniteSet(Users) /\ Having \in SUBSET Users /\ Having' \in SUBSET Users
  BY ConnectionAssumption DEF Having
<1> QED BY <1>1, FS_Subset, FS_CardinalityType

LEMMA OpenCounts ==
    ASSUME TypeOK
    PROVE  /\ Open \in Nat /\ Taken \in Nat /\ Free \in Int
           /\ Cardinality(Having) <= Open
           /\ Free = maxConnections - (Open + othersActive + othersIdle)
           /\ maxConnections \in Nat
BY HavingCounts, ConnectionAssumption DEF TypeOK, Open, Taken, Free

\* A user comes to have a connection, gives it back, or has none before and after.
LEMMA UseChanges ==
    ASSUME TypeOK, NEW u \in Users, NEW next \in {"none", "want", "have"},
           use' = [use EXCEPT ![u] = next]
    PROVE  /\ use[u] = "have" /\ next # "have" => Cardinality(Having') = Cardinality(Having) - 1
           /\ use[u] # "have" /\ next = "have" => Cardinality(Having') = Cardinality(Having) + 1
           /\ use[u] # "have" /\ next # "have" => Cardinality(Having') = Cardinality(Having)
<1>1. /\ use' \in [Users -> {"none", "want", "have"}] /\ use'[u] = next
      /\ \A v \in Users \ {u} : use'[v] = use[v]
  BY DEF TypeOK
<1>2. Having' \ {u} = Having \ {u} /\ (u \in Having <=> use[u] = "have")
      /\ (u \in Having' <=> next = "have")
  BY <1>1 DEF Having
<1>3. Cardinality(Having \ {u})
         = IF u \in Having THEN Cardinality(Having) - 1 ELSE Cardinality(Having)
  BY HavingCounts, FS_RemoveElement
<1>4. Cardinality(Having' \ {u})
         = IF u \in Having' THEN Cardinality(Having') - 1 ELSE Cardinality(Having')
  BY HavingCounts, FS_RemoveElement
<1>5. Cardinality(Having) \in Nat /\ Cardinality(Having') \in Nat
  BY HavingCounts
<1>6. Cardinality(Having' \ {u}) = Cardinality(Having \ {u})
  BY <1>2
<1> QED BY <1>2, <1>3, <1>4, <1>5, <1>6

\* A connection goes back: the pool has as many open, or fewer.
LEMMA ReleaseLowersOpen ==
    ASSUME TypeOK, NEW u \in Users, NEW next \in {"none", "want"}, use[u] = "have",
           Release(u, next)
    PROVE  /\ Open' <= Open /\ idle' \in Nat
           /\ use' \in [Users -> {"none", "want", "have"}]
           /\ use' = [use EXCEPT ![u] = next]
<1>1. Cardinality(Having') = Cardinality(Having) - 1 /\ idle \in Nat
  <2>1. use' = [use EXCEPT ![u] = next] /\ next # "have" /\ idle \in Nat
    BY DEF Release, TypeOK
  <2>2. Cardinality(Having) \in Nat
    BY HavingCounts
  <2> QED BY <2>1, <2>2, UseChanges
<1>2. idle' \in Nat /\ idle' <= idle + 1
  BY <1>1, IdleLimitNat DEF Release, Smaller
<1> QED BY <1>1, <1>2, HavingCounts DEF Open, Release, TypeOK

LEMMA FewerOpenMoreFree ==
    \A m, o, p, a, b \in Nat : p <= o => m - (p + a + b) >= m - (o + a + b)
OBVIOUS

LEMMA FewerPlus == \A a, b, n \in Nat : a <= b => a + n <= b + n
OBVIOUS

LEMMA LimitsStand ==
    ASSUME TypeOK, TypeOK', Limits, Open' <= Open, UNCHANGED othersVars
    PROVE  Limits'
<1>1. /\ Open \in Nat /\ Open' \in Nat
      /\ Free = maxConnections - (Open + othersActive + othersIdle)
  BY OpenCounts, HavingCounts DEF Open, TypeOK
<1>2. Free' = maxConnections' - (Open' + othersActive' + othersIdle')
  BY <1>1, HavingCounts DEF Free, Taken, Open, TypeOK
<1>3. /\ maxConnections' = maxConnections /\ maxConnections \in Nat
      /\ othersActive' = othersActive /\ othersActive \in Nat
      /\ othersIdle' = othersIdle /\ othersIdle \in Nat
  BY ConnectionAssumption DEF othersVars, TypeOK
<1>4. Free' >= Free /\ Free \in Int /\ Free' \in Int
  <2>1. Free \in Int
    BY <1>1, <1>3
  <2>2. Free' = maxConnections - (Open' + othersActive + othersIdle)
    BY <1>2, <1>3
  <2>3. Free' \in Int
    BY <1>1, <1>3, <2>2
  <2>4. maxConnections - (Open' + othersActive + othersIdle)
           >= maxConnections - (Open + othersActive + othersIdle)
    BY <1>1, <1>3, FewerOpenMoreFree
  <2> QED BY <1>1, <2>1, <2>2, <2>3, <2>4
<1>5. MaxOpenConns > 0 /\ Open <= MaxOpenConns => Open' <= MaxOpenConns
  BY <1>1, ConnectionAssumption
<1> QED BY <1>3, <1>4, <1>5 DEF Limits

-----------------------------------------------------------------------------
(* The steps.                                                                *)

\* A step that opens no connection and does not end the check: the limits stand.
LEMMA QuietKeepsCInv ==
    ASSUME CInv, TypeOK', Open' <= Open, UNCHANGED <<cm, othersVars>>,
           cm = "connecting" => \A u \in Users \ {Main} : use'[u] = "none",
           cm = "rejected" => \A u \in Users : use'[u] = "none",
           query[Main] = "load" => query'[Main] = "load"
    PROVE  CInv'
<1>1. Limits'
  BY LimitsStand DEF CInv
<1>2. Open' \in Nat /\ Open \in Nat
  BY HavingCounts DEF CInv, TypeOK, Open
<1>3. Starting'
  BY <1>2 DEF CInv, Starting
<1>4. MainLoads'
  BY DEF CInv, MainLoads
<1> QED BY <1>1, <1>3, <1>4 DEF CInv

LEMMA PoolKeepsCInv ==
    ASSUME CInv, NEW u \in Users, Pool(u)
    PROVE  CInv'
<1> USE DEF CInv
<1>1. /\ use[u] = "want" /\ use' = [use EXCEPT ![u] = "have"]
      /\ UNCHANGED <<cm, ctxDone, query, othersVars, statsVars>>
      /\ idle' \in Nat
  BY DEF Pool, TakeIdle, OpenNew, TypeOK
<1>2. TypeOK'
  BY <1>1 DEF TypeOK, othersVars, statsVars
<1>3. /\ Cardinality(Having') = Cardinality(Having) + 1
      /\ Cardinality(Having) \in Nat
  BY <1>1, UseChanges, HavingCounts
<1>4. cm # "rejected" /\ (cm = "connecting" => u = Main)
  BY <1>1 DEF Starting
<1>5. CASE TakeIdle(u)
  <2>1. Open' = Open
    BY <1>3, <1>5 DEF Open, TakeIdle, TypeOK
  <2>2. Open' <= Open
    BY <2>1, OpenCounts
  <2>3. cm = "connecting" => \A v \in Users \ {Main} : use'[v] = "none"
    BY <1>1, <1>4 DEF Starting, TypeOK
  <2>4. UNCHANGED <<cm, othersVars, seenMax, query>>
    BY <1>1 DEF statsVars
  <2> HIDE DEF CInv
  <2> QED BY <1>2, <1>4, <2>2, <2>3, <2>4, QuietKeepsCInv
<1>6. CASE OpenNew(u)
  <2>1. Open' = Open + 1 /\ idle = 0 /\ MayOpen /\ Free > 0 /\ idle' = 0 /\ cm # "closed"
    BY <1>3, <1>6 DEF Open, OpenNew, TypeOK
  <2>2. /\ Open \in Nat /\ maxConnections \in Nat
        /\ Free = maxConnections - (Open + othersActive + othersIdle)
        /\ othersActive \in Nat /\ othersIdle \in Nat
    BY OpenCounts DEF TypeOK
  <2>3. Free' = maxConnections - (Open + 1 + othersActive + othersIdle)
    BY <1>1, <2>1 DEF Free, Taken, othersVars
  <2>4. cm = "connecting" => Open = 0
    <3>1. ASSUME cm = "connecting" PROVE Having = {}
      BY <1>1, <1>4, <3>1 DEF Starting, Having
    <3> QED BY <2>1, <3>1, FS_EmptySet DEF Open
  <2>5. MaxOpenConns > 0 => Open' <= MaxOpenConns
    <3>1. CASE cm = "connecting"
      BY <2>1, <2>4, <3>1, ConnectionAssumption
    <3>2. CASE cm # "connecting"
      BY <1>4, <2>1, <2>2, <3>2, ConnectionAssumption DEF MayOpen, Configured, TypeOK
    <3> QED BY <3>1, <3>2
  <2>6. Limits'
    BY <1>1, <2>1, <2>2, <2>3, <2>5 DEF Limits, othersVars
  <2>7. Starting'
    BY <1>1, <1>4, <2>1, <2>4 DEF Starting, TypeOK
  <2>8. MainLoads'
    BY <1>1 DEF MainLoads
  <2> QED BY <1>2, <2>6, <2>7, <2>8
<1> QED BY <1>5, <1>6 DEF Pool

\* Whoever uses the pool is past "connecting", or is main.
LEMMA OwnUse ==
    ASSUME CInv, NEW u \in Users, use[u] # "none", NEW next,
           use' = [use EXCEPT ![u] = next]
    PROVE  /\ cm # "rejected"
           /\ cm = "connecting" => \A v \in Users \ {Main} : use'[v] = "none"
BY DEF CInv, Starting, TypeOK

\* A connection is given back after a query, and the user goes on or not.
LEMMA ReleaseKeepsCInv ==
    ASSUME CInv, NEW u \in Users, NEW next \in {"none", "want"}, use[u] = "have",
           Release(u, next), query' \in [Users -> {"ping", "show", "count", "load"}],
           seenMax' \in [Managers -> Nat], canConnect' \in BOOLEAN,
           UNCHANGED <<cm, ctxDone, othersVars>>,
           query[Main] = "load" => query'[Main] = "load"
    PROVE  CInv'
<1>1. /\ Open' <= Open /\ idle' \in Nat
      /\ use' \in [Users -> {"none", "want", "have"}]
      /\ use' = [use EXCEPT ![u] = next]
  BY ReleaseLowersOpen DEF CInv
<1>2. TypeOK'
  BY <1>1 DEF CInv, TypeOK, othersVars
<1>3. Limits'
  BY <1>1, <1>2, LimitsStand DEF CInv
<1>4. Starting'
  <2>1. Open' \in Nat /\ Open \in Nat
    BY <1>1, HavingCounts DEF CInv, TypeOK, Open
  <2> QED BY <1>1, <2>1, OwnUse DEF CInv, Starting
<1>5. MainLoads'
  BY DEF CInv, MainLoads
<1> QED BY <1>2, <1>3, <1>4, <1>5 DEF CInv

\* A user stops waiting, or its connection breaks: nothing is given back.
LEMMA GivesUpKeepsCInv ==
    ASSUME CInv, NEW u \in Users, use[u] # "none", use' = [use EXCEPT ![u] = "none"],
           idle' = idle, query' \in [Users -> {"ping", "show", "count", "load"}],
           query[Main] = "load" => query'[Main] = "load",
           UNCHANGED <<cm, ctxDone, othersVars, statsVars>>
    PROVE  CInv'
<1>1. Open' <= Open
  <2>1. Cardinality(Having') <= Cardinality(Having)
    <3>1. Cardinality(Having) \in Nat
      BY HavingCounts
    <3>2. /\ use[u] = "have" => Cardinality(Having') = Cardinality(Having) - 1
          /\ use[u] # "have" => Cardinality(Having') = Cardinality(Having)
      BY UseChanges DEF CInv
    <3> QED BY <3>1, <3>2
  <2>2. Cardinality(Having) \in Nat /\ Cardinality(Having') \in Nat /\ idle \in Nat
    BY HavingCounts DEF CInv, TypeOK
  <2> QED BY <2>1, <2>2, FewerPlus DEF Open
<1>2. TypeOK'
  BY DEF CInv, TypeOK, othersVars, statsVars
<1> QED BY <1>1, <1>2, OwnUse, QuietKeepsCInv DEF statsVars

LEMMA StatsKeepsCInv ==
    ASSUME CInv, NEW m \in Managers, Stats(m)
    PROVE  CInv'
<1>1. m \in Users /\ query \in [Users -> {"ping", "show", "count", "load"}]
      /\ seenMax \in [Managers -> Nat] /\ canConnect \in BOOLEAN /\ maxConnections \in Nat
      /\ Managers \subseteq Users /\ Main \in Users /\ FirstQuery(m) \in {"ping", "show"}
  BY ManagersUse, ConnectionAssumption DEF CInv, TypeOK, FirstQuery
<1>2. CASE Ping(m)
  <2>1. /\ query' \in [Users -> {"ping", "show", "count", "load"}]
        /\ query[Main] = "load" => query'[Main] = "load"
    BY <1>1, <1>2 DEF Ping
  <2> QED BY <1>1, <1>2, <2>1, ReleaseKeepsCInv DEF Ping, statsVars
<1>3. CASE ShowMaxConnections(m)
  <2>1. /\ query' \in [Users -> {"ping", "show", "count", "load"}]
        /\ seenMax' \in [Managers -> Nat]
        /\ query[Main] = "load" => query'[Main] = "load"
    BY <1>1, <1>3 DEF ShowMaxConnections
  <2> QED BY <1>1, <1>3, <2>1, ReleaseKeepsCInv DEF ShowMaxConnections
<1>4. CASE CountConnections(m)
  <2>1. /\ query' \in [Users -> {"ping", "show", "count", "load"}]
        /\ canConnect' \in BOOLEAN
        /\ query[Main] = "load" => query'[Main] = "load"
    BY <1>1, <1>4 DEF CountConnections, EnoughFree
  <2> QED BY <1>1, <1>4, <2>1, ReleaseKeepsCInv DEF CountConnections
<1>5. CASE StatsFail(m)
  <2>1. /\ query' \in [Users -> {"ping", "show", "count", "load"}]
        /\ use[m] # "none"
        /\ query[Main] = "load" => query'[Main] = "load"
    BY <1>1, <1>5 DEF StatsFail, Refused, Broken
  <2> QED BY <1>1, <1>5, <2>1, GivesUpKeepsCInv DEF StatsFail
<1> QED BY <1>2, <1>3, <1>4, <1>5 DEF Stats, Answered

LEMMA WorkKeepsCInv ==
    ASSUME CInv, NEW u \in Users, Work(u)
    PROVE  CInv'
<1>1. query \in [Users -> {"ping", "show", "count", "load"}] /\ seenMax \in [Managers -> Nat]
      /\ canConnect \in BOOLEAN
  BY DEF CInv, TypeOK
<1>2. CASE QueryDone(u)
  BY <1>1, <1>2, ReleaseKeepsCInv DEF QueryDone, statsVars
<1>3. CASE QueryFails(u)
  BY <1>1, <1>3, GivesUpKeepsCInv DEF QueryFails, Refused, Broken
<1> QED BY <1>2, <1>3 DEF Work

\* A goroutine comes to ask for a connection.
LEMMA AsksKeepsCInv ==
    ASSUME CInv, NEW u \in Users, use[u] = "none", use' = [use EXCEPT ![u] = "want"],
           cm \in {"running", "checking"},
           UNCHANGED <<cm, ctxDone, query, idle, othersVars, statsVars>>
    PROVE  CInv'
<1>1. Open' <= Open
  <2>1. Cardinality(Having') = Cardinality(Having)
    BY UseChanges DEF CInv
  <2> QED BY <2>1, OpenCounts DEF Open, CInv
<1>2. TypeOK'
  BY DEF CInv, TypeOK, othersVars, statsVars
<1> QED BY <1>1, <1>2, QuietKeepsCInv DEF statsVars

LEMMA StartKeepsCInv ==
    ASSUME CInv, Start
    PROVE  CInv'
<1>1. /\ Main \in Users /\ use[Main] # "none"
      /\ use' = [use EXCEPT ![Main] = "none"]
      /\ UNCHANGED <<ctxDone, othersVars, seenMax>>
  <2>1. Main \in Users
    BY ManagersUse
  <2>2. CASE CheckAtStart
    BY <2>1, <2>2 DEF CheckAtStart
  <2>3. CASE StartFails
    BY <2>1, <2>3 DEF StartFails, Refused, Broken, statsVars
  <2> QED BY <2>2, <2>3 DEF Start
<1>2. cm = "connecting"
  BY <1>1 DEF CInv, Starting, MainLoads, Start, CheckAtStart, StartFails, TypeOK
<1>3. \A u \in Users : use'[u] = "none"
  BY <1>1, <1>2 DEF CInv, Starting, TypeOK
<1>4. Cardinality(Having') = 0
  <2>1. Having' = {}
    BY <1>3 DEF Having
  <2> QED BY <2>1, FS_EmptySet
<1>5. /\ cm' \in {"running", "rejected"} /\ (cm' = "rejected" => idle' = 0)
      /\ idle' \in Nat /\ idle' <= idle + 1 /\ canConnect' \in BOOLEAN
      /\ query' \in [Users -> {"ping", "show", "count", "load"}]
      /\ cm' = "running" => query'[Main] = "load"
  <2>1. idle \in Nat /\ PoolIdleLimit \in Nat
    BY IdleLimitNat DEF CInv, TypeOK
  <2>2. query \in [Users -> {"ping", "show", "count", "load"}] /\ Main \in Users
        /\ canConnect \in BOOLEAN /\ Managers \subseteq Users
    BY ManagersUse DEF CInv, TypeOK
  <2>3. CASE CheckAtStart
    <3>1. idle' = 0 \/ idle' = Smaller(idle + 1, PoolIdleLimit)
      BY <2>3 DEF CheckAtStart
    <3>2. idle' \in Nat /\ idle' <= idle + 1
      BY <2>1, <3>1 DEF Smaller
    <3>3. /\ query' \in [Users -> {"ping", "show", "count", "load"}]
          /\ query'[Main] = "load"
      BY <2>2, <2>3 DEF CheckAtStart
    <3>4. cm' \in {"running", "rejected"} /\ (cm' = "rejected" => idle' = 0)
          /\ canConnect' \in BOOLEAN
      BY <2>3 DEF CheckAtStart, EnoughFree
    <3> QED BY <3>2, <3>3, <3>4
  <2>4. CASE StartFails
    BY <2>1, <2>2, <2>4 DEF StartFails, statsVars
  <2> QED BY <2>3, <2>4 DEF Start
<1>6. Open' <= Open
  <2>1. Open' = idle'
    <3> DEFINE i == idle'
               c == Cardinality(Having')
    <3>1. Open' = c + i
      BY DEF Open
    <3>2. c = 0 /\ i \in Nat
      BY <1>4, <1>5
    <3> HIDE DEF i, c
    <3>3. c + i = i
      BY <3>2
    <3> QED BY <3>1, <3>3 DEF i
  <2>2. CASE use[Main] = "have"
    <3>1. Having # {}
      BY <1>1, <2>2 DEF Having
    <3>2. Cardinality(Having) >= 1
      BY <3>1, HavingCounts, FS_EmptySet
    <3>3. idle + 1 <= Open
      BY <3>2, HavingCounts DEF CInv, TypeOK, Open
    <3> QED BY <1>5, <2>1, <3>3, OpenCounts DEF CInv, TypeOK
  <2>3. CASE use[Main] # "have"
    <3>1. idle' = 0
      BY <2>3 DEF Start, CheckAtStart, StartFails
    <3> QED BY <2>1, <3>1, OpenCounts DEF CInv
  <2> QED BY <2>2, <2>3
<1>7. TypeOK'
  BY <1>1, <1>5 DEF CInv, TypeOK, othersVars
<1>8. Limits'
  BY <1>1, <1>6, <1>7, LimitsStand DEF CInv
<1>9. Starting'
  <2>1. cm' # "connecting"
    BY <1>5
  <2>2. cm' = "rejected" => Open' = 0
    BY <1>4, <1>5 DEF Open
  <2> QED BY <1>3, <2>1, <2>2 DEF Starting
<1>10. MainLoads'
  BY <1>1, <1>5 DEF CInv, MainLoads, othersVars
<1> QED BY <1>7, <1>8, <1>9, <1>10 DEF CInv

\* Steps of main, the pool and the deadline that touch no connection in use.
LEMMA MainKeepsCInv ==
    ASSUME CInv, IdleExpires \/ ContextExpires \/ Stop \/ Close \/ UNCHANGED vars
    PROVE  CInv'
<1> USE DEF poolVars, statsVars, vars
<1>1. /\ UNCHANGED <<use, query, othersVars, seenMax, canConnect>>
      /\ cm' \in {"running", "checking", "closed"} \/ cm' = cm
      /\ cm' # cm => cm \in {"running", "checking", "closed"}
      /\ ctxDone' \in BOOLEAN
  BY DEF IdleExpires, ContextExpires, Stop, Close, CInv, TypeOK
<1>2. idle' \in Nat /\ idle' <= idle
  BY DEF IdleExpires, ContextExpires, Stop, Close, CInv, TypeOK
<1>3. Having' = Having
  BY <1>1 DEF Having
<1>4. Open' <= Open
  BY <1>2, <1>3, HavingCounts DEF Open, CInv, TypeOK
<1>5. TypeOK'
  BY <1>1, <1>2 DEF CInv, TypeOK, othersVars
<1>6. Limits'
  BY <1>1, <1>4, <1>5, LimitsStand DEF CInv
<1>7. Starting'
  <2>1. Open' \in Nat /\ Open \in Nat
    BY <1>2, HavingCounts DEF Open, CInv, TypeOK
  <2> QED BY <1>1, <1>4, <2>1 DEF CInv, Starting
<1>8. MainLoads'
  BY <1>1 DEF CInv, MainLoads, othersVars
<1> QED BY <1>5, <1>6, <1>7, <1>8 DEF CInv

LEMMA OthersKeepCInv ==
    ASSUME CInv, Others
    PROVE  CInv'
<1>1. /\ UNCHANGED <<use, query, idle, cm, ctxDone, seenMax, canConnect, maxConnections>>
      /\ othersActive' \in Nat /\ othersIdle' \in Nat
      /\ \/ /\ othersActive + othersIdle < OthersLimit /\ Free > 0
            /\ othersActive' + othersIdle' = othersActive + othersIdle + 1
         \/ othersActive' + othersIdle' <= othersActive + othersIdle
  BY DEF Others, OtherConnects, OtherFallsIdle, OtherLeaves, poolVars, statsVars, CInv, TypeOK
<1>2. Open' = Open
  <2>1. Having' = Having
    BY <1>1 DEF Having
  <2> QED BY <1>1, <2>1 DEF Open
<1>3. Limits'
  <2> DEFINE n == othersActive + othersIdle
             m == othersActive' + othersIdle'
  <2>1. /\ Open \in Nat /\ maxConnections \in Nat /\ n \in Nat /\ m \in Nat
        /\ Free = maxConnections - (Open + n)
    <3>1. /\ othersActive \in Nat /\ othersIdle \in Nat
          /\ othersActive' \in Nat /\ othersIdle' \in Nat
          /\ maxConnections \in Nat
      BY <1>1, ConnectionAssumption DEF CInv, TypeOK
    <3>2. Open \in Nat
      BY OpenCounts DEF CInv
    <3>3. n \in Nat /\ m \in Nat
      <4> DEFINE a == othersActive'
                 b == othersIdle'
      <4>1. a \in Nat /\ b \in Nat
        BY <3>1
      <4> HIDE DEF a, b
      <4>2. a + b \in Nat
        BY <4>1
      <4>3. n \in Nat
        BY <3>1
      <4>4. m \in Nat
        BY <4>2 DEF a, b
      <4> QED BY <4>3, <4>4
    <3>4. Free = maxConnections - (Open + n)
      BY <3>1, <3>2 DEF Free, Taken
    <3> QED BY <3>1, <3>2, <3>3, <3>4
  <2>2. Free' = maxConnections - (Open + m)
    BY <1>1, <1>2, <2>1 DEF Free, Taken, Open
  <2>3. /\ (n < OthersLimit /\ Free > 0 /\ m = n + 1) \/ m <= n
        /\ n <= OthersLimit /\ Free >= 0
    BY <1>1 DEF CInv, Limits
  <2> HIDE DEF n, m
  <2>4. m <= OthersLimit /\ maxConnections - (Open + m) >= 0
    BY <2>1, <2>3, ConnectionAssumption
  <2> QED BY <1>2, <2>2, <2>4 DEF CInv, Limits, m
<1>4. TypeOK'
  BY <1>1 DEF CInv, TypeOK
<1>5. Starting' /\ MainLoads'
  BY <1>1, <1>2 DEF CInv, Starting, MainLoads
<1> QED BY <1>3, <1>4, <1>5 DEF CInv

LEMMA NextKeepsCInv ==
    ASSUME CInv, [Next]_vars
    PROVE  CInv'
<1>1. ASSUME NEW m \in Managers, StatsBegin(m) PROVE CInv'
  <2>1. m \in Users
    BY ManagersUse
  <2> QED BY <1>1, <2>1, AsksKeepsCInv DEF StatsBegin
<1>2. ASSUME NEW u \in Workers \cup {Main}, Queries(u) PROVE CInv'
  <2>1. u \in Users /\ cm \in {"running", "checking"}
    BY <1>2, ManagersUse DEF Queries, Asks
  <2> QED BY <1>2, <2>1, AsksKeepsCInv DEF Queries
<1>3. ASSUME NEW u \in Workers \cup {Main}, Work(u) PROVE CInv'
  BY <1>3, ManagersUse, WorkKeepsCInv
<1> QED BY <1>1, <1>2, <1>3, PoolKeepsCInv, StartKeepsCInv, StatsKeepsCInv, MainKeepsCInv,
           OthersKeepCInv DEF Next

-----------------------------------------------------------------------------
(* The theorems.                                                             *)

LEMMA InitCInv == Init => CInv
<1> SUFFICES ASSUME Init PROVE CInv
  OBVIOUS
<1> USE DEF Init
<1>1. Main \in Users /\ Managers \subseteq Users /\ maxConnections \in Nat
  BY ManagersUse, ConnectionAssumption
<1>2. PICK n \in 0..Smaller(OthersLimit, maxConnections) :
         \E a \in 0..n : othersActive = a /\ othersIdle = n - a
  OBVIOUS
<1>3. /\ n \in Nat /\ n <= OthersLimit /\ n <= maxConnections
      /\ othersActive \in Nat /\ othersIdle \in Nat /\ othersActive + othersIdle = n
  BY <1>1, <1>2, ConnectionAssumption DEF Smaller
<1>4. TypeOK
  BY <1>3 DEF TypeOK
<1>5. Having = {}
  BY DEF Having
<1>6. Open = 0
  BY <1>5, FS_EmptySet DEF Open
<1>7. Limits
  BY <1>1, <1>3, <1>6, ConnectionAssumption DEF Limits, Free, Taken
<1>8. Starting /\ MainLoads
  BY <1>1, <1>6 DEF Starting, MainLoads
<1> QED BY <1>4, <1>7, <1>8 DEF CInv

\* The limits of server and pool, and what main alone does before its check, hold in
\* every reachable state.
THEOREM ConnectionInvariance == Spec => []CInv
BY InitCInv, NextKeepsCInv, PTL DEF Spec

\* Every variable of manager, pool and slots keeps to its type.
THEOREM ConnectionTypes == Spec => []TypeOK
<1>1. CInv => TypeOK
  BY DEF CInv
<1> QED BY <1>1, ConnectionInvariance, PTL

\* The server is never asked for more slots than it has, and the pool never exceeds
\* DB_MAX_OPEN_CONNS, although it opens connections before the limit is set.
THEOREM SlotsKept == Spec => []SlotsRespected
<1>1. CInv => SlotsRespected
  BY DEF CInv, Limits, SlotsRespected
<1> QED BY <1>1, ConnectionInvariance, PTL

\* A pool for which max_connections leaves room keeps DB_MIN_FREE_CONNS free.
THEOREM FittingPoolLeavesRoom == Spec => []FittingPoolKeepsFree
<1>1. CInv => FittingPoolKeepsFree
  <2> SUFFICES ASSUME CInv, MaxOpenConns > 0,
                      OthersLimit + MaxOpenConns + MinFreeConns <= maxConnections
               PROVE  Free >= MinFreeConns
    BY DEF FittingPoolKeepsFree
  <2> QED BY OpenCounts, ConnectionAssumption DEF CInv, Limits, TypeOK
<1> QED BY <1>1, ConnectionInvariance, PTL

\* NewConnectionManager leaves nothing open when it fails, wherever it does.
THEOREM RejectedLeavesNothing == Spec => []RejectedHoldsNothing
<1>1. CInv => RejectedHoldsNothing
  BY DEF CInv, Starting, RejectedHoldsNothing
<1> QED BY <1>1, ConnectionInvariance, PTL
=============================================================================
