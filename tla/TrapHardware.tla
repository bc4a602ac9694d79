---------------------------- MODULE TrapHardware ----------------------------
(***************************************************************************)
(* The trap's two RAM-resident driver states together: the servo wrapper   *)
(* (SafeServo) and the I2C health tracker of the ToF sensor (I2CHealth).   *)
(* They share no variable; what they share is the device reset (watchdog,  *)
(* panic, software restart), which loses all RAM: trapServo is constructed *)
(* again with the GPIO in its reset state, g_i2c_sensors and g_i2c_mutex   *)
(* are zero until debugI2CInit() runs again, millis() restarts, and a      *)
(* call in progress is abandoned.  disableServo is reloaded from           *)
(* Preferences, which hold whichever value was saved last.                 *)
(***************************************************************************)
EXTENDS Naturals

CONSTANTS
    Pins, ServoPin,
    SensorCount, Clients, StreakWarn, HangMs, RateMinTotal, MaxTxn, MaxTime,
    MaxBoots        \* bound: device resets

VARIABLES
    disableServo, attached, pin, call, seen, late,
    stats, mutex, client, now, outcomes,
    boots

servoVars == <<disableServo, attached, pin, call, seen, late>>
i2cVars == <<stats, mutex, client, now, outcomes>>
vars == <<servoVars, i2cVars, boots>>

SV == INSTANCE SafeServo
IH == INSTANCE I2CHealth

Init == SV!Init /\ IH!Init /\ boots = 0

ServoStep(A) == A /\ UNCHANGED <<i2cVars, boots>>
I2CStep(A) == A /\ UNCHANGED <<servoVars, boots>>

\* A device reset: every RAM variable of both drivers starts again.
DeviceReset ==
    /\ boots < MaxBoots
    /\ boots' = boots + 1
    /\ \E d \in BOOLEAN :
          /\ disableServo' = d
          /\ attached' = FALSE /\ pin' = "hiz" /\ call' = "idle" /\ seen' = FALSE
          /\ late' = 0
    /\ stats' = [s \in IH!Sensors |-> IH!Zero]
    /\ mutex' = FALSE
    /\ client' = [s \in Clients |-> "idle"]
    /\ now' = 1
    /\ outcomes' = [s \in IH!Sensors |-> <<>>]

Next ==
    \/ ServoStep(\E p \in Pins : SV!Attach(p))
    \/ ServoStep(SV!Detach)
    \/ ServoStep(SV!WriteCheck)
    \/ ServoStep(SV!WritePulse)
    \/ ServoStep(\E b \in BOOLEAN : SV!SetDisable(b))
    \/ I2CStep(IH!I2CInit)
    \/ I2CStep(IH!CheckHealth)
    \/ I2CStep(IH!Tick)
    \/ I2CStep(\E s \in Clients : IH!TransactionStart(s))
    \/ I2CStep(\E s \in Clients, ok \in BOOLEAN : IH!TransactionEnd(s, ok))
    \/ I2CStep(\E r \in 0 .. SensorCount : IH!Reset(r))
    \/ DeviceReset

Spec == Init /\ [][Next]_vars

(***************************************************************************)
(* Properties: those of the two drivers, across device resets.  TypeOK     *)
(* includes that no statistics are written outside g_i2c_sensors.         *)
(***************************************************************************)
TypeOK == SV!TypeOK /\ IH!TypeOK /\ boots \in 0 .. MaxBoots

\* See SafeServo.
SafeOnceSeenDisabled == SV!SafeOnceSeenDisabled

\* See SafeServo: within one boot.
OnePulseAfterDisable == SV!OnePulseAfterDisable

\* See I2CHealth.
FailureRunFlagged == IH!FailureRunFlagged
=============================================================================
