----------------------------- MODULE RtcDebug -----------------------------
(***************************************************************************)
(* The two RTC-memory debug stores of src/mousetrap_arduino, the context   *)
(* snapshot ring (debug_context.h) and the crash context (debug_crashkit.h)*)
(* on one device.  They are called independently by the firmware, but a   *)
(* reset or a power loss strikes both at once: a reset keeps both RTC      *)
(* buffers and loses both mutexes, a power loss loses everything.  After   *)
(* either, each store is usable again only once its Init has run, in       *)
(* either order.  Boots are bounded by MaxBoots.                           *)
(***************************************************************************)
EXTENDS Naturals

CONSTANTS
    MaxSnapshots, Heaps, DropThreshold, SummaryLen,         \* ContextRing
    MaxBreadcrumbs, Names, NoName, CompCount, Statuses, Unknown,   \* CrashKit
    MaxBoots        \* bound on the resets and power losses explored

VARIABLES
    buf, ready,             \* ContextRing
    ctx, kready,            \* CrashKit
    boots                   \* resets and power losses so far

ringVars  == <<buf, ready>>
kitVars   == <<ctx, kready>>
vars      == <<ringVars, kitVars, boots>>

CR == INSTANCE ContextRing
CK == INSTANCE CrashKit

Init == CR!Init /\ CK!Init /\ boots = 0

\* A step of one store leaves the other alone.
RingStep(A) == A /\ UNCHANGED <<kitVars, boots>>
KitStep(A)  == A /\ UNCHANGED <<ringVars, boots>>

\* A reset (watchdog, panic, esp_restart()) of the whole device.
Reset ==
    /\ boots < MaxBoots
    /\ CR!Reboot /\ CK!Reboot
    /\ boots' = boots + 1

\* A power loss of the whole device.
PowerCycle ==
    /\ boots < MaxBoots
    /\ CR!PowerLoss /\ CK!PowerLoss
    /\ boots' = boots + 1

Next ==
    \/ RingStep(CR!ContextInit)
    \/ RingStep(CR!TakeSnapshot)
    \/ RingStep(CR!Clear)
    \/ KitStep(CK!CrashKitInit)
    \/ KitStep(\E n \in Names : CK!AddBreadcrumb(n))
    \/ KitStep(\E c \in 0 .. CompCount, st \in Statuses : CK!SetComponent(c, st))
    \/ KitStep(CK!Clear)
    \/ Reset
    \/ PowerCycle

Spec == Init /\ [][Next]_vars

(***************************************************************************)
(* Properties, each stated in its component module.                        *)
(***************************************************************************)
TypeOK == CR!TypeOK /\ CK!TypeOK /\ boots \in 0 .. MaxBoots

\* The snapshot printout is a persistent log of the snapshots (ContextRing).
SnapshotLogRefinement == CR!SnapshotLogRefinement

\* The summary shows the newest printed snapshots, newest first (ContextRing).
SummaryIsNewestPrinted == CR!SummaryIsNewestPrinted

\* GetLatest returns the last snapshot taken (ContextRing).
LatestIsLastTaken == CR!LatestIsLastTaken

\* DetectMemoryDrop compares the last two snapshots taken (ContextRing).
MemoryDropSound == CR!MemoryDropSound

\* The breadcrumb printout is a persistent log of the breadcrumbs (CrashKit).
TrailLogRefinement == CK!TrailLogRefinement
=============================================================================
