---------------------------- MODULE MCSafeServo ----------------------------
(* SafeServo with SERVO_PIN and one out-of-range pin as attach() arguments. *)
EXTENDS SafeServo

CONSTANTS p48, p49
=============================================================================
