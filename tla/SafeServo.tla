----------------------------- MODULE SafeServo -----------------------------
(***************************************************************************)
(* The optional servo wrapper of src/mousetrap_arduino/servo_optional.h.   *)
(*                                                                         *)
(* One trap task calls the SafeServo methods on trapServo, one at a time.  *)
(* disableServo is a volatile flag that another task (the settings code)   *)
(* may set or clear between any two steps, and also between the test of   *)
(* line 55/61 and the pulse written at line 57/63: write() is two steps.   *)
(*                                                                         *)
(* The state is _attached, whether the inner ESP32Servo drives SERVO_PIN   *)
(* (the LEDC signal is routed to the pin) or the pin is an input (Hi-Z),   *)
(* and where the trap task is inside write().  The inner servo is          *)
(* attached exactly when _attached is, so inner.attached() is _attached.   *)
(* SERVO_PWR_EN is not defined anywhere in the sources, so powerOn() and   *)
(* powerOff() compile to nothing.  _ch, _pin and the pulse width only      *)
(* feed the inner servo and the log, and are left out; triStatePin()       *)
(* makes _pin and, since SERVO_PIN is always defined (line 8), SERVO_PIN   *)
(* itself an input (lines 78-83), whatever pin attach() was given.         *)
(***************************************************************************)
EXTENDS Naturals

CONSTANTS
    Pins,       \* pin arguments passed to attach()
    ServoPin    \* SERVO_PIN (48); every other member of Pins is out of range

ASSUME ServoPin \in Pins

VARIABLES
    disableServo,   \* the volatile flag loaded from Preferences
    attached,       \* _attached (and _inner.attached())
    pin,            \* "pwm": SERVO_PIN driven by the LEDC channel; "hiz": input
    call,           \* "idle", or "write": write() passed its tests
    seen,           \* ghost: a call observed disableServo set since it was last cleared
    late            \* ghost: pulses sent to a driven SERVO_PIN while disableServo
                    \*        was set, since it was last cleared (counted up to 2)

vars == <<disableServo, attached, pin, call, seen, late>>

\* A fresh SafeServo (constructor, line 17) with the GPIO in its reset state;
\* disableServo holds what Preferences stored.
Init ==
    /\ disableServo \in BOOLEAN
    /\ attached = FALSE
    /\ pin = "hiz"
    /\ call = "idle"
    /\ seen = FALSE
    /\ late = 0

\* triStatePin(), lines 77-84: SERVO_PIN becomes an input.
TriState == pin' = "hiz"

\* detach(), lines 38-46, also called from write() when disabled.
DetachEffect ==
    /\ attached' = FALSE
    /\ TriState

\* Fault: attach() skips the disableServo test.
AttachUngated(p) ==
    /\ call = "idle"
    /\ IF p # ServoPin
       THEN UNCHANGED <<attached, pin, seen>>
       ELSE \E ok \in BOOLEAN :
               /\ attached' = ok
               /\ pin' = IF ok THEN "pwm" ELSE pin
               /\ UNCHANGED seen
    /\ UNCHANGED <<disableServo, call, late>>

\* attach(pin), lines 19-36.  Disabled: triStatePin() and return -1, with
\* _attached left as it was.  An invalid pin returns -1.  Otherwise the
\* inner attach may fail (no free LEDC channel, _ch < 0).
Attach(p) ==
    /\ call = "idle"
    /\ IF disableServo
       THEN /\ TriState
            /\ seen' = TRUE
            /\ UNCHANGED attached
       ELSE IF p # ServoPin
       THEN UNCHANGED <<attached, pin, seen>>
       ELSE \E ok \in BOOLEAN :
               /\ attached' = ok
               /\ pin' = IF ok THEN "pwm" ELSE pin
               /\ UNCHANGED seen
    /\ UNCHANGED <<disableServo, call, late>>

\* detach(), called directly (detachServo()).
Detach ==
    /\ call = "idle"
    /\ DetachEffect
    /\ UNCHANGED <<disableServo, call, seen, late>>

\* Fault: write() drops the disableServo test of line 61.
WriteCheckUngated ==
    /\ call = "idle"
    /\ IF ~attached
       THEN UNCHANGED <<attached, pin, call, seen>>
       ELSE call' = "write" /\ UNCHANGED <<attached, pin, seen>>
    /\ UNCHANGED <<disableServo, late>>

\* write(angle) and writeMicroseconds(us), lines 54-64, up to the call of
\* the inner write: disabled detaches, not attached returns.
WriteCheck ==
    /\ call = "idle"
    /\ IF disableServo
       THEN DetachEffect /\ seen' = TRUE /\ UNCHANGED call
       ELSE IF ~attached
       THEN UNCHANGED <<attached, pin, call, seen>>
       ELSE call' = "write" /\ UNCHANGED <<attached, pin, seen>>
    /\ UNCHANGED <<disableServo, late>>

\* Lines 57 and 63: _inner.write(); the servo moves when the pin is driven.
WritePulse ==
    /\ call = "write"
    /\ call' = "idle"
    /\ late' = IF disableServo /\ pin = "pwm" /\ late < 2 THEN late + 1 ELSE late
    /\ UNCHANGED <<disableServo, attached, pin, seen>>

\* Another task changes disableServo.
SetDisable(b) ==
    /\ disableServo' = b
    /\ seen' = (b /\ seen)
    /\ late' = IF b THEN late ELSE 0
    /\ UNCHANGED <<attached, pin, call>>

Next ==
    \/ \E p \in Pins : Attach(p)
    \/ Detach \/ WriteCheck \/ WritePulse
    \/ \E b \in BOOLEAN : SetDisable(b)

Spec == Init /\ [][Next]_vars

\* attached(), lines 49-52.
Attached == ~disableServo /\ attached

(***************************************************************************)
(* Properties.                                                             *)
(***************************************************************************)
TypeOK ==
    /\ disableServo \in BOOLEAN
    /\ attached \in BOOLEAN
    /\ pin \in {"pwm", "hiz"}
    /\ call \in {"idle", "write"}
    /\ seen \in BOOLEAN
    /\ late \in 0 .. 2

(***************************************************************************)
(* Once any SafeServo call has observed disableServo set, SERVO_PIN stays  *)
(* Hi-Z until the flag is cleared: no later attach(), write() or detach()  *)
(* drives it again while the servo is disabled.                            *)
(***************************************************************************)
SafeOnceSeenDisabled == seen => pin = "hiz"

(***************************************************************************)
(* attached() reports true only while SERVO_PIN is driven by the servo     *)
(* signal, so a caller that re-attaches on demand (initServo() is a no-op  *)
(* "by design; you re-attach on demand") does so whenever writes would be  *)
(* lost.                                                                   *)
(***************************************************************************)
AttachedMeansDriven == Attached => pin = "pwm"

(***************************************************************************)
(* Once another task has set disableServo, at most one more pulse reaches  *)
(* the servo: the write() that passed its test at line 55/61 before the    *)
(* flag was set.  Every later write(), attach() or detach() makes the pin  *)
(* safe first, so the user's "disable" takes effect within one command.    *)
(***************************************************************************)
OnePulseAfterDisable == late <= 1
=============================================================================
