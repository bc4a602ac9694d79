----------------------------- MODULE I2CHealth -----------------------------
(***************************************************************************)
(* The I2C health tracker of src/mousetrap_arduino/debug_i2c.h.            *)
(*                                                                         *)
(* g_i2c_sensors lives in RAM and is zero until debugI2CInit(), which also *)
(* creates g_i2c_mutex; TransactionStart, TransactionEnd, CheckHealth and  *)
(* Reset return at once while the mutex is NULL and otherwise run under    *)
(* it, each as one step.  Each sensor has a client task that brackets its  *)
(* bus transaction with TransactionStart and TransactionEnd; CheckHealth   *)
(* and Reset may come from any task at any time, in particular while a    *)
(* transaction is in flight.                                               *)
(*                                                                         *)
(* Kept are the fields the health verdicts read: total and successful      *)
(* transactions, the failure streak, bus_healthy, last_success_ms and      *)
(* whether the stored success_rate_percentage is below 50%.  The error     *)
(* type counters, failed_transactions, last_failure_ms, the maximum streak, *)
(* the timing fields, the address and the name are only printed.           *)
(* millis() advances in steps of one time unit.                            *)
(***************************************************************************)
EXTENDS Naturals, Sequences

CONSTANTS
    SensorCount,    \* I2C_SENSOR_COUNT
    Clients,        \* sensors whose reads are wrapped in Start/End
    StreakWarn,     \* I2C_FAILURE_STREAK_WARN
    HangMs,         \* I2C_HANG_THRESHOLD_MS, in time units
    RateMinTotal,   \* the "total_transactions > 10" of line 220
    MaxTxn,         \* bound: transactions per sensor since its last reset
    MaxTime         \* bound: millis()

Sensors == 0 .. SensorCount - 1

ASSUME Clients \subseteq Sensors /\ StreakWarn > 0

VARIABLES
    stats,      \* g_i2c_sensors[i].stats: [total, ok, streak, healthy, lastOk, low]
    mutex,      \* g_i2c_mutex != NULL
    client,     \* client task of each sensor: "idle", or "busy" between Start and End
    now,        \* millis()
    outcomes    \* ghost: the last StreakWarn outcomes recorded for each sensor
                \*        since its statistics were zeroed, oldest first

vars == <<stats, mutex, client, now, outcomes>>

\* All-zero statistics; the stored rate 0.0 is below 50%.
Zero == [total |-> 0, ok |-> 0, streak |-> 0, healthy |-> FALSE,
         lastOk |-> 0, low |-> TRUE]

\* memset followed by bus_healthy = true (debugI2CInit, debugI2CReset).
Fresh == [Zero EXCEPT !.healthy = TRUE]

\* Before debugI2CInit(): the globals of lines 326-327 are zero.
Init ==
    /\ stats = [s \in Sensors |-> Zero]
    /\ mutex = FALSE
    /\ client = [s \in Clients |-> "idle"]
    /\ now = 1
    /\ outcomes = [s \in Sensors |-> <<>>]

Record(seq, ok) ==
    IF Len(seq) = StreakWarn THEN Append(Tail(seq), ok) ELSE Append(seq, ok)

\* debugI2CInit(), lines 72-87, once during setup().
I2CInit ==
    /\ ~mutex
    /\ mutex' = TRUE
    /\ stats' = [s \in Sensors |-> Fresh]
    /\ outcomes' = [s \in Sensors |-> <<>>]
    /\ UNCHANGED <<client, now>>

\* debugI2CTransactionStart(sensor), lines 117-126.
TransactionStart(s) ==
    /\ client[s] = "idle"
    /\ stats[s].total < MaxTxn
    /\ client' = [client EXCEPT ![s] = "busy"]
    /\ stats' = IF mutex THEN [stats EXCEPT ![s].total = @ + 1] ELSE stats
    /\ UNCHANGED <<mutex, now, outcomes>>

\* Fault: the streak test of line 173 is strict.
EndStatsLate(st, success) ==
    LET streak == IF success THEN 0 ELSE st.streak + 1
        ok     == IF success THEN st.ok + 1 ELSE st.ok
    IN  [st EXCEPT !.ok = ok, !.streak = streak,
                   !.lastOk = IF success THEN now ELSE @,
                   !.healthy = IF success THEN TRUE
                               ELSE IF streak > StreakWarn THEN FALSE ELSE @,
                   !.low = IF st.total > 0 THEN 2 * ok < st.total ELSE @]

\* Lines 144-184: the statistics after a transaction with this outcome.
\* 100.0f * ok / total < 50.0f is 2 * ok < total for these counts.
EndStats(st, success) ==
    LET streak == IF success THEN 0 ELSE st.streak + 1
        ok     == IF success THEN st.ok + 1 ELSE st.ok
    IN  [st EXCEPT !.ok = ok, !.streak = streak,
                   !.lastOk = IF success THEN now ELSE @,
                   !.healthy = IF success THEN TRUE
                               ELSE IF streak >= StreakWarn THEN FALSE ELSE @,
                   !.low = IF st.total > 0 THEN 2 * ok < st.total ELSE @]

\* debugI2CTransactionEnd(sensor, success, error_type), lines 136-187.
TransactionEnd(s, success) ==
    /\ client[s] = "busy"
    /\ client' = [client EXCEPT ![s] = "idle"]
    /\ IF mutex
       THEN /\ stats' = [stats EXCEPT ![s] = EndStats(@, success)]
            /\ outcomes' = [outcomes EXCEPT ![s] = Record(@, success)]
       ELSE UNCHANGED <<stats, outcomes>>
    /\ UNCHANGED <<mutex, now>>

\* Lines 208-225: the hang and success-rate tests of one used sensor.
Hung(st) == st.lastOk > 0 /\ now - st.lastOk > HangMs
LowRate(st) == st.low /\ st.total > RateMinTotal
Failing(st) == st.total > 0 /\ (Hung(st) \/ LowRate(st))

\* debugI2CCheckHealth(), lines 194-231: every failing sensor is marked
\* unhealthy.
CheckHealth ==
    /\ mutex
    /\ stats' = [s \in Sensors |->
                    IF Failing(stats[s]) THEN [stats[s] EXCEPT !.healthy = FALSE]
                                         ELSE stats[s]]
    /\ UNCHANGED <<mutex, client, now, outcomes>>

\* Fault: the reset-all case is dropped and sensor indexes the array
\* unchecked, so I2C_SENSOR_COUNT writes one entry past its end.
ResetOverrun(r) ==
    /\ mutex
    /\ stats' = [s \in Sensors \cup {r} |-> IF s = r THEN Fresh ELSE stats[s]]
    /\ outcomes' = [s \in Sensors \cup {r} |-> IF s = r THEN <<>> ELSE outcomes[s]]
    /\ UNCHANGED <<mutex, client, now>>

\* debugI2CReset(sensor), lines 287-322: sensor = I2C_SENSOR_COUNT resets
\* all sensors.
Reset(r) ==
    /\ mutex
    /\ LET hit(s) == r = SensorCount \/ r = s
       IN  /\ stats' = [s \in Sensors |-> IF hit(s) THEN Fresh ELSE stats[s]]
           /\ outcomes' = [s \in Sensors |-> IF hit(s) THEN <<>> ELSE outcomes[s]]
    /\ UNCHANGED <<mutex, client, now>>

\* millis() advances.
Tick ==
    /\ now < MaxTime
    /\ now' = now + 1
    /\ UNCHANGED <<stats, mutex, client, outcomes>>

Next ==
    \/ I2CInit \/ CheckHealth \/ Tick
    \/ \E s \in Clients : TransactionStart(s)
    \/ \E s \in Clients, ok \in BOOLEAN : TransactionEnd(s, ok)
    \/ \E r \in 0 .. SensorCount : Reset(r)

Spec == Init /\ [][Next]_vars

(***************************************************************************)
(* Properties.                                                             *)
(***************************************************************************)
TypeOK ==
    /\ stats \in [Sensors -> [total : 0 .. MaxTxn, ok : Nat, streak : Nat,
                              healthy : BOOLEAN, lastOk : 0 .. MaxTime,
                              low : BOOLEAN]]
    /\ mutex \in BOOLEAN
    /\ client \in [Clients -> {"idle", "busy"}]
    /\ now \in 1 .. MaxTime
    /\ outcomes \in [Sensors -> Seq(BOOLEAN)]

(***************************************************************************)
(* A sensor whose last I2C_FAILURE_STREAK_WARN recorded transactions all    *)
(* failed is reported unhealthy, whatever resets, health checks and        *)
(* successes came before, and whichever task recorded them.                *)
(***************************************************************************)
FailureRunFlagged ==
    \A s \in Sensors :
        (/\ Len(outcomes[s]) = StreakWarn
         /\ \A i \in 1 .. StreakWarn : ~outcomes[s][i])
        => ~stats[s].healthy

(***************************************************************************)
(* The successful transactions recorded never exceed those started, so the *)
(* success rate stays at most 100%.                                        *)
(* No run checks it: TLC finds it violated by a TransactionEnd whose      *)
(* Start preceded debugI2CReset() or debugI2CInit() (see the README).    *)
(***************************************************************************)
SuccessesWithinTotal == \A s \in Sensors : stats[s].ok <= stats[s].total
=============================================================================
