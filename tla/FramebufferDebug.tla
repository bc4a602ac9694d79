-------------------------- MODULE FramebufferDebug --------------------------
(***************************************************************************)
(* The camera framebuffer tracker of                                       *)
(* src/mousetrap_arduino/debug_framebuffer.h, used by several FreeRTOS     *)
(* tasks that each take a framebuffer from the camera driver, record it    *)
(* with debugFramebufferAllocated(), use it, record its release with       *)
(* debugFramebufferReleased() and give it back to the driver.              *)
(*                                                                         *)
(* Every debug function runs under g_fb_mutex, so each is one atomic step; *)
(* the driver calls around them are steps of their own, and the steps of   *)
(* different tasks interleave.  The model starts after                     *)
(* debugFramebufferInit() (the usage the header prescribes: init in setup  *)
(* before the camera is used), so the !g_fb_mutex early returns are not    *)
(* taken.  PSRAM byte counts read the heap, not the tracker, and are left  *)
(* out; last_release_ms is written and never read and is left out too.     *)
(***************************************************************************)
EXTENDS Integers, FiniteSets

CONSTANTS
    Tasks,          \* the tasks using the camera
    FbCount,        \* framebuffers the camera driver owns
    LeakThreshold,  \* FB_LEAK_THRESHOLD
    StaleTimeout,   \* FB_STALE_TIMEOUT_MS
    MaxTime,        \* bound on millis() explored
    MaxCount        \* bound on the uint32_t totals explored

ASSUME FbCount > 0 /\ MaxTime > StaleTimeout

VARIABLES
    stats,      \* g_fb_stats
    now,        \* millis()
    pc,         \* where each task is in its get / use / return cycle
    fb          \* whether the task's esp_camera_fb_get() returned a buffer

vars == <<stats, now, pc, fb>>

Zero == [total_allocations |-> 0, total_releases |-> 0, current_outstanding |-> 0,
         peak_outstanding |-> 0, leak_warnings |-> 0, last_alloc_ms |-> 0]

\* Tasks holding a driver buffer: from fb_get until fb_return.
Holding == {t \in Tasks : pc[t] \in {"got", "using", "released"} /\ fb[t]}

\* debugFramebufferInit(): memset(&g_fb_stats, 0, ...).
Init ==
    /\ stats = Zero
    /\ now = 0
    /\ pc = [t \in Tasks |-> "idle"]
    /\ fb = [t \in Tasks |-> FALSE]

\* esp_camera_fb_get(): NULL when no buffer is free, and possibly NULL on a
\* capture failure even when one is.
FbGet(t) ==
    /\ pc[t] = "idle"
    /\ \E got \in IF Cardinality(Holding) < FbCount THEN BOOLEAN ELSE {FALSE} :
          fb' = [fb EXCEPT ![t] = got]
    /\ pc' = [pc EXCEPT ![t] = "got"]
    /\ UNCHANGED <<stats, now>>

\* Fault: a NULL framebuffer is counted as outstanding.
AllocatedStatsCountNull(s, nonNull) ==
    LET cur == s.current_outstanding + 1
    IN  [s EXCEPT !.total_allocations = @ + 1, !.last_alloc_ms = now,
                  !.current_outstanding = cur,
                  !.peak_outstanding = IF cur > @ THEN cur ELSE @,
                  !.leak_warnings = IF cur > LeakThreshold THEN @ + 1 ELSE @]

\* The statistics update of debugFramebufferAllocated(fb), lines 70-94.
AllocatedStats(s, nonNull) ==
    LET cur == s.current_outstanding + 1
    IN  IF ~nonNull
        THEN [s EXCEPT !.total_allocations = @ + 1, !.last_alloc_ms = now]
        ELSE [s EXCEPT !.total_allocations = @ + 1, !.last_alloc_ms = now,
                       !.current_outstanding = cur,
                       !.peak_outstanding = IF cur > @ THEN cur ELSE @,
                       !.leak_warnings = IF cur > LeakThreshold THEN @ + 1 ELSE @]

\* debugFramebufferAllocated(fb), called right after fb_get; a task that
\* got NULL goes back to idle without a release.
Allocated(t) ==
    /\ pc[t] = "got"
    /\ stats.total_allocations < MaxCount
    /\ stats' = AllocatedStats(stats, fb[t])
    /\ pc' = [pc EXCEPT ![t] = IF fb[t] THEN "using" ELSE "idle"]
    /\ UNCHANGED <<now, fb>>

\* debugFramebufferReleased(fb), lines 108-127, called before fb_return.
Released(t) ==
    /\ pc[t] = "using"
    /\ stats.total_releases < MaxCount
    /\ stats' = [stats EXCEPT !.total_releases = @ + 1,
                    !.current_outstanding = IF @ > 0 THEN @ - 1 ELSE @]
    /\ pc' = [pc EXCEPT ![t] = "released"]
    /\ UNCHANGED <<now, fb>>

\* esp_camera_fb_return(fb): the buffer goes back to the driver.
FbReturn(t) ==
    /\ pc[t] = "released"
    /\ pc' = [pc EXCEPT ![t] = "idle"]
    /\ fb' = [fb EXCEPT ![t] = FALSE]
    /\ UNCHANGED <<stats, now>>

\* Fault: the memset is not followed by restoring current_outstanding.
ResetAll ==
    /\ stats' = Zero
    /\ UNCHANGED <<now, pc, fb>>

\* debugFramebufferReset(), lines 189-202: everything is zeroed but
\* current_outstanding.
Reset ==
    /\ stats' = [Zero EXCEPT !.current_outstanding = stats.current_outstanding]
    /\ UNCHANGED <<now, pc, fb>>

Tick ==
    /\ now < MaxTime
    /\ now' = now + 1
    /\ UNCHANGED <<stats, pc, fb>>

Next ==
    \/ \E t \in Tasks : FbGet(t) \/ Allocated(t) \/ Released(t) \/ FbReturn(t)
    \/ Reset
    \/ Tick

Spec == Init /\ [][Next]_vars

(***************************************************************************)
(* The verdicts the tracker reports.                                       *)
(***************************************************************************)

\* debugFramebufferCheckStale(), lines 142-149.
IsStale ==
    stats.current_outstanding > 0 /\ now - stats.last_alloc_ms > StaleTimeout

\* debugFramebufferPrintStats(), line 174: "LEAK DETECTED".
LeakDetected == stats.total_allocations # stats.total_releases

(***************************************************************************)
(* Properties.                                                             *)
(***************************************************************************)
TypeOK ==
    /\ stats \in [total_allocations : 0 .. MaxCount, total_releases : 0 .. MaxCount,
                  current_outstanding : 0 .. FbCount, peak_outstanding : 0 .. FbCount,
                  leak_warnings : 0 .. MaxCount, last_alloc_ms : 0 .. MaxTime]
    /\ now \in 0 .. MaxTime
    /\ pc \in [Tasks -> {"idle", "got", "using", "released"}]
    /\ fb \in [Tasks -> BOOLEAN]

(***************************************************************************)
(* current_outstanding counts exactly the buffers recorded by              *)
(* debugFramebufferAllocated() whose debugFramebufferReleased() has not    *)
(* run yet, whatever the interleaving of the tasks, NULL returns of the   *)
(* driver and debugFramebufferReset() (which keeps the count).            *)
(***************************************************************************)
OutstandingMatchesHeld ==
    stats.current_outstanding = Cardinality({t \in Tasks : pc[t] = "using" /\ fb[t]})

(***************************************************************************)
(* The leak report of debugFramebufferPrintStats() (line 174) is sound:    *)
(* when allocations and releases differ, some framebuffer is really still  *)
(* out of the driver.                                                      *)
(* No run checks it: TLC finds it violated at once with the MC module's  *)
(* constants, by one NULL frame (line 70; see the README).               *)
(***************************************************************************)
LeakVerdictSound == LeakDetected => Holding # {}
=============================================================================
