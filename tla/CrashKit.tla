----------------------------- MODULE CrashKit -----------------------------
(***************************************************************************)
(* The crash context of src/mousetrap_arduino/debug_crashkit.h.            *)
(*                                                                         *)
(* g_crash_ctx lives in RTC memory: a reset keeps it, a power loss does    *)
(* not.  g_crash_mutex lives in ordinary RAM and is NULL until             *)
(* debugCrashKitInit() creates it in the current boot; every other         *)
(* function but GetCrashCount returns at once without it.  Each function   *)
(* runs under the mutex and is one step.                                   *)
(*                                                                         *)
(* A breadcrumb is represented by its function name; its time stamp and   *)
(* task id only feed the printout.  An error message is represented by the *)
(* status it comes with.  The reset reason, crash time and heap fields are *)
(* only printed and are left out.                                          *)
(*                                                                         *)
(* The breadcrumb ring implements PersistentLog with the trail that       *)
(* PrintLastCrash prints as the log.                                       *)
(***************************************************************************)
EXTENDS Integers, Sequences, SequencesExt

CONSTANTS
    MaxBreadcrumbs, \* MAX_BREADCRUMBS
    Names,          \* function names passed to debugCrashKitAddBreadcrumb()
    NoName,         \* a zeroed breadcrumb
    CompCount,      \* COMP_COUNT
    Statuses,       \* ComponentStatus values passed to SetComponent()
    Unknown         \* COMPONENT_UNKNOWN, the zeroed status

ASSUME MaxBreadcrumbs > 1 /\ NoName \notin Names /\ Unknown \in Statuses

Slots == 0 .. MaxBreadcrumbs - 1
Comps == 0 .. CompCount - 1

VARIABLES
    ctx,        \* g_crash_ctx: [valid, breadcrumbs, breadcrumb_index,
                \*               breadcrumb_count, components, crash_count]
    kready      \* g_crash_mutex != NULL in this boot

vars == <<ctx, kready>>

\* memset(&g_crash_ctx, 0, ...) followed by restoring the magic number.
Zeroed == [valid |-> TRUE, breadcrumbs |-> [i \in Slots |-> NoName],
           breadcrumb_index |-> 0, breadcrumb_count |-> 0,
           components |-> [c \in Comps |-> Unknown], crash_count |-> 0]

\* First power-up: the RTC contents are arbitrary, the magic number wrong.
Init ==
    /\ ctx = [Zeroed EXCEPT !.valid = FALSE]
    /\ kready = FALSE

\* debugCrashKitInit(), lines 116-155: create the mutex; a valid context
\* means the device rebooted and crash_count (a uint8_t) is incremented;
\* any other context is zeroed.
CrashKitInit ==
    /\ ~kready
    /\ kready' = TRUE
    /\ IF ctx.valid
       THEN ctx' = [ctx EXCEPT !.crash_count = (@ + 1) % 256]
       ELSE ctx' = Zeroed

\* debugCrashKitAddBreadcrumb(name), lines 162-190: the slot at
\* breadcrumb_index is overwritten, the index advances and the count grows
\* up to MAX_BREADCRUMBS.
AddBreadcrumb(n) ==
    /\ kready
    /\ ctx' = [ctx EXCEPT !.breadcrumbs[ctx.breadcrumb_index] = n,
                          !.breadcrumb_index = (@ + 1) % MaxBreadcrumbs,
                          !.breadcrumb_count = IF @ < MaxBreadcrumbs THEN @ + 1 ELSE @]
    /\ UNCHANGED kready

\* debugCrashKitSetComponent(component, status, msg), lines 205-222; an
\* out-of-range component returns at once.
SetComponent(c, st) ==
    /\ kready
    /\ c < CompCount
    /\ ctx' = [ctx EXCEPT !.components[c] = st]
    /\ UNCHANGED kready

\* debugCrashKitClear(), lines 300-312: everything but the magic number is
\* zeroed, crash_count included.
Clear ==
    /\ kready
    /\ ctx' = Zeroed
    /\ UNCHANGED kready

\* A reset keeps RTC memory and loses the mutex.
Reboot ==
    /\ kready' = FALSE
    /\ UNCHANGED ctx

\* A power loss loses RTC memory too, and with it the magic number.
PowerLoss ==
    /\ ctx' = [Zeroed EXCEPT !.valid = FALSE]
    /\ kready' = FALSE

Next ==
    \/ CrashKitInit \/ Clear \/ Reboot \/ PowerLoss
    \/ \E n \in Names : AddBreadcrumb(n)
    \/ \E c \in 0 .. CompCount, st \in Statuses : SetComponent(c, st)

Spec == Init /\ [][Next]_vars

\* Fault: the printout starts at the write position only past a full ring.
CrumbStartInclusive ==
    IF ctx.breadcrumb_count <= MaxBreadcrumbs THEN 0 ELSE ctx.breadcrumb_index

\* debugCrashKitPrintLastCrash(), lines 240-242: the oldest breadcrumb.
CrumbStart ==
    IF ctx.breadcrumb_count < MaxBreadcrumbs THEN 0 ELSE ctx.breadcrumb_index

\* Lines 244-246: the breadcrumbs in the order they are printed.
PrintedTrail ==
    [i \in 1 .. ctx.breadcrumb_count |->
        ctx.breadcrumbs[(CrumbStart + i - 1) % MaxBreadcrumbs]]

(***************************************************************************)
(* Properties.                                                             *)
(***************************************************************************)
TypeOK ==
    /\ ctx \in [valid : BOOLEAN, breadcrumbs : [Slots -> Names \cup {NoName}],
                breadcrumb_index : Slots, breadcrumb_count : 0 .. MaxBreadcrumbs,
                components : [Comps -> Statuses], crash_count : 0 .. 255]
    /\ kready \in BOOLEAN

TrailLog == INSTANCE PersistentLog
                WITH log <- PrintedTrail, open <- kready,
                     Cap <- MaxBreadcrumbs, Items <- Names

(***************************************************************************)
(* What debugCrashKitPrintLastCrash() prints after any sequence of resets  *)
(* and clears is the trail of the last MAX_BREADCRUMBS breadcrumbs added   *)
(* since the context was zeroed, oldest first: each AddBreadcrumb appends  *)
(* to it, Clear, a power loss and an Init of a corrupt context empty it,   *)
(* and a reset leaves it as it was.                                        *)
(***************************************************************************)
TrailLogRefinement == TrailLog!Spec
=============================================================================
