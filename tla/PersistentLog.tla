---------------------------- MODULE PersistentLog ----------------------------
(***************************************************************************)
(* What an RTC debug store of src/mousetrap_arduino promises its reader:   *)
(* a log of the last Cap entries, oldest first, that a reset keeps and a   *)
(* power loss empties.  The store is usable (open) from its Init in a boot *)
(* until the next reset; entries are appended and the log cleared only    *)
(* while it is open.                                                       *)
(*                                                                         *)
(* ContextRing (the snapshot ring) and CrashKit (the breadcrumb ring)      *)
(* implement it, with their printouts as the log.                          *)
(***************************************************************************)
EXTENDS Sequences

CONSTANTS
    Cap,    \* entries the store holds
    Items   \* entries that may be appended

VARIABLES
    log,    \* the entries a reader is shown, oldest first
    open    \* the store may be written in this boot

vars == <<log, open>>

Init == log = <<>> /\ open = FALSE

\* The store's Init in a boot.
Open == ~open /\ open' = TRUE /\ UNCHANGED log

\* A new entry; the oldest is dropped from a full log.
Add(x) ==
    /\ open
    /\ log' = IF Len(log) = Cap THEN Append(Tail(log), x) ELSE Append(log, x)
    /\ UNCHANGED open

Clear == open /\ log' = <<>> /\ UNCHANGED open

\* A reset: the log survives, the store is closed until its next Init.
Crash == open' = FALSE /\ UNCHANGED log

\* A power loss: the log is gone.
Lose == open' = FALSE /\ log' = <<>>

Next == Open \/ Clear \/ Crash \/ Lose \/ \E x \in Items : Add(x)

Spec == Init /\ [][Next]_vars
=============================================================================
