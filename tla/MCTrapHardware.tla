--------------------------- MODULE MCTrapHardware ---------------------------
(* The trap drivers with SERVO_PIN and one out-of-range pin. *)
EXTENDS TrapHardware

CONSTANTS p48, p49
=============================================================================
