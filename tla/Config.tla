-------------------------------- MODULE Config --------------------------------
(***************************************************************************)
(* config/config.go and what main() makes of its values until the test runs:  *)
(* LoadFromEnv and Validate, the check of NewConnectionManager and the        *)
(* pool's limit, the context's deadline, the reporter's ticker and the first   *)
(* INSERT.  Texts (host, user, table) always have a value, by their defaults.  *)
(***************************************************************************)
EXTENDS GoIntegers

CONSTANTS Unset,        \* a variable that is not in the environment, or empty
          Malformed,    \* a text strconv.Atoi refuses
          Environments, \* the environments the program may be started in
          Available,    \* what GetConnectionStats may find available
          IntBits,      \* width of int and time.Duration (64)
          Int32Bits,    \* width of int32
          Second,       \* time.Second in units of time.Duration (10^9)
          MaxParams     \* parameters a statement may have (65535)

\* The integer variables LoadFromEnv reads, with the defaults it gives them.
Defaults == [
    DB_MAX_OPEN_CONNS |-> 50, DB_MAX_IDLE_CONNS |-> 10, DB_MIN_FREE_CONNS |-> 5,
    CONCURRENT_WRITERS |-> 10, TEST_RUN_DURATION |-> 300, BATCH_SIZE |-> 100,
    REPORT_INTERVAL |-> 10, READ_PERCENT |-> 0, INSERT_PERCENT |-> 70,
    UPDATE_PERCENT |-> 30, READ_BATCH_SIZE |-> 10]
Read == DOMAIN Defaults

ASSUME ConfigAssumption ==
       /\ Unset # Malformed /\ Unset \notin Int /\ Malformed \notin Int
       /\ \A e \in Environments :
             DOMAIN e = Read /\ \A n \in Read : e[n] \in Int \cup {Unset, Malformed}
       /\ Available \subseteq Int
       /\ IntBits \in Nat /\ Int32Bits \in 1..IntBits
       /\ \A b \in {IntBits, Int32Bits} : 2^(b - 1) \in Nat \ {0} /\ 2^b = 2 * 2^(b - 1)
       /\ 2^(IntBits - 1) > 300
       /\ Second \in Nat \ {0} /\ 30 * Second < 2^(IntBits - 1)
       /\ MaxParams \in Nat

VARIABLES env,       \* the environment: it does not change
          cfg,       \* the configuration: one value per variable read
          phase,     \* of main, up to the end of the test
          deadline,  \* of the context, from now
          available, \* what the check of NewConnectionManager found
          poolLimit, \* open connections the pool may have; Unset for no limit
          insert     \* the first INSERT: none, sent or refused

vars == <<env, cfg, phase, deadline, available, poolLimit, insert>>

TypeOK ==
    /\ DOMAIN env = Read
    /\ \A n \in Read : env[n] \in Int \cup {Unset, Malformed}
    /\ DOMAIN cfg = Read
    /\ \A n \in Read : cfg[n] \in Int /\ Fits(cfg[n], IntBits)
    /\ phase \in {"loading", "connecting", "initializing", "running", "ended", "exited",
                  "panicked"}
    /\ deadline \in Int /\ Fits(deadline, IntBits)
    /\ available \in Int
    /\ poolLimit \in Nat \cup {Unset}
    /\ insert \in {"none", "sent", "refused"}

Init ==
    /\ env \in Environments
    /\ cfg = [n \in Read |-> 0]
    /\ phase = "loading"
    /\ deadline = 0
    /\ available = 0
    /\ poolLimit = Unset
    /\ insert = "none"

-----------------------------------------------------------------------------
(* LoadFromEnv.                                                             *)

\* getEnvAsInt: Atoi refuses what is no number and what does not fit an int.
GetEnvAsInt(n) ==
    IF env[n] \in Int /\ Fits(env[n], IntBits) THEN env[n] ELSE Defaults[n]

\* The durations are multiplied by time.Second.
Loaded ==
    [n \in Read |->
        IF n \in {"TEST_RUN_DURATION", "REPORT_INTERVAL"}
        THEN Wrap(GetEnvAsInt(n) * Second, IntBits) ELSE GetEnvAsInt(n)]

Percentages == {"READ_PERCENT", "INSERT_PERCENT", "UPDATE_PERCENT"}

TotalPercent(c) ==
    Wrap(c["READ_PERCENT"] + c["INSERT_PERCENT"] + c["UPDATE_PERCENT"], IntBits)

\* Mutant: a sum of 100 is taken to bound the three from above.
ValidNoUpperBound(c) ==
    /\ \A n \in {"DB_MIN_FREE_CONNS", "CONCURRENT_WRITERS", "BATCH_SIZE",
                 "READ_BATCH_SIZE"} : c[n] >= 1
    /\ c["TEST_RUN_DURATION"] >= Second
    /\ TotalPercent(c) = 100
    /\ \A n \in Percentages : c[n] >= 0

\* Validate.
Valid(c) ==
    /\ \A n \in {"DB_MIN_FREE_CONNS", "CONCURRENT_WRITERS", "BATCH_SIZE",
                 "READ_BATCH_SIZE"} : c[n] >= 1
    /\ c["TEST_RUN_DURATION"] >= Second
    /\ TotalPercent(c) = 100
    /\ \A n \in Percentages : c[n] \in 0..100

\* LoadFromEnv returns nil, err for an invalid configuration, and main exits.
LoadFromEnv ==
    /\ phase = "loading"
    /\ cfg' = Loaded
    /\ phase' = IF Valid(Loaded) THEN "connecting" ELSE "exited"
    /\ UNCHANGED <<env, deadline, available, poolLimit, insert>>

-----------------------------------------------------------------------------
(* main.                                                                    *)

Int32(x) == Wrap(x, Int32Bits)

\* The deadline is set, then NewConnectionManager counts connections and limits
\* the pool; SetMaxOpenConns takes 0 and less for no limit.
Connect ==
    /\ phase = "connecting"
    /\ deadline' = Wrap(cfg["TEST_RUN_DURATION"] + 30 * Second, IntBits)
    /\ available' \in Available
    /\ IF available' >= Int32(cfg["DB_MIN_FREE_CONNS"])
       THEN /\ phase' = "initializing"
            /\ poolLimit' = IF cfg["DB_MAX_OPEN_CONNS"] > 0 THEN cfg["DB_MAX_OPEN_CONNS"]
                            ELSE Unset
       ELSE /\ phase' = "exited"
            /\ UNCHANGED poolLimit
    /\ UNCHANGED <<env, cfg, insert>>

\* Mutant: Initialize does not use the context of the test.
InitializeInBackground ==
    /\ phase = "initializing"
    /\ phase' \in {"running", "exited"}
    /\ UNCHANGED <<env, cfg, deadline, available, poolLimit, insert>>

\* Every statement of Initialize fails under a context that has ended.
Initialize ==
    /\ phase = "initializing"
    /\ phase' \in IF deadline > 0 THEN {"running", "exited"} ELSE {"exited"}
    /\ UNCHANGED <<env, cfg, deadline, available, poolLimit, insert>>

\* time.NewTicker panics for an interval that is not positive, in a goroutine
\* nobody recovers: the process ends.
StartReporter ==
    /\ phase = "running"
    /\ cfg["REPORT_INTERVAL"] <= 0
    /\ phase' = "panicked"
    /\ UNCHANGED <<env, cfg, deadline, available, poolLimit, insert>>

\* batchInsert has nine parameters for each record, and lib/pq refuses a
\* statement with too many.
BatchInsert ==
    /\ phase = "running"
    /\ insert = "none"
    /\ cfg["INSERT_PERCENT"] > 0
    /\ insert' = IF 9 * cfg["BATCH_SIZE"] <= MaxParams THEN "sent" ELSE "refused"
    /\ UNCHANGED <<env, cfg, phase, deadline, available, poolLimit>>

\* The test's timer, a signal or the context.
TestEnds ==
    /\ phase = "running"
    /\ phase' = "ended"
    /\ UNCHANGED <<env, cfg, deadline, available, poolLimit, insert>>

Next == LoadFromEnv \/ Connect \/ Initialize \/ StartReporter \/ BatchInsert \/ TestEnds

Spec == Init /\ [][Next]_vars

-----------------------------------------------------------------------------
Accepted == phase \notin {"loading", "exited"}

\* rand.Intn(100) of the workers splits exactly as configured: an accepted
\* configuration's percentages add up to 100 as numbers, although Validate adds
\* them with an addition that wraps, and before it has bounded them.
PercentagesAddUp ==
    Accepted =>
        /\ cfg["READ_PERCENT"] + cfg["INSERT_PERCENT"] + cfg["UPDATE_PERCENT"] = 100
        /\ \A n \in Percentages : 0 <= cfg[n]

\* The context outlives the test's timer by the 30 seconds main grants: a duration
\* for which the sum overflows never gets as far as the test.
ContextOutlivesTimer ==
    phase \in {"running", "ended", "panicked"} =>
        deadline = cfg["TEST_RUN_DURATION"] + 30 * Second
=============================================================================
