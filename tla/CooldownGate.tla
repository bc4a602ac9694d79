---------------------------- MODULE CooldownGate ----------------------------
(***************************************************************************)
(* What the detection cooldown of MotionDetector promises, in real time    *)
(* rather than in the wrapping millis() clock: a detection is accepted     *)
(* only when no accepted detection lies less than the current cooldown in  *)
(* the past, counting since the last reset; the time since the last        *)
(* acceptance only grows with the clock; and a closed gate opens again.    *)
(***************************************************************************)
EXTENDS Naturals

CONSTANTS
    Cooldowns,          \* cooldown lengths the detector may be configured with
    DefaultCooldown,    \* the cooldown a freshly started detector uses
    TickSizes,          \* how far real time may advance in one step
    Cap,                \* elapsed times at or above Cap are all alike
    Never               \* no detection accepted since the last reset

ASSUME DefaultCooldown \in Cooldowns /\ \A c \in Cooldowns : c <= Cap

VARIABLES
    elapsed,    \* real time since the last accepted detection, or Never
    cooldown,   \* the cooldown currently configured
    parity      \* number of acceptances, modulo 2

vars == <<elapsed, cooldown, parity>>

Init == elapsed = Never /\ cooldown = DefaultCooldown /\ parity = 0

Open == elapsed = Never \/ elapsed >= cooldown

\* A detection is accepted.
Accept ==
    /\ Open
    /\ elapsed' = 0
    /\ parity' = 1 - parity
    /\ UNCHANGED cooldown

\* Real time advances by d.
Advance(d) ==
    /\ elapsed # Never
    /\ elapsed' = IF elapsed + d < Cap THEN elapsed + d ELSE Cap
    /\ UNCHANGED <<cooldown, parity>>

\* The cooldown is reconfigured.
Reconfigure(c) ==
    /\ cooldown' = c
    /\ UNCHANGED <<elapsed, parity>>

\* The detector forgets its last acceptance; a restart also brings back the
\* default configuration.
Forget ==
    /\ elapsed' = Never
    /\ cooldown' \in {cooldown, DefaultCooldown}
    /\ UNCHANGED parity

Next ==
    \/ Accept \/ Forget
    \/ \E d \in TickSizes : Advance(d)
    \/ \E c \in Cooldowns : Reconfigure(c)

\* Time keeps running while the gate is closed.
Spec == Init /\ [][Next]_vars /\ WF_vars(\E d \in TickSizes : Advance(d) /\ ~Open)
=============================================================================
