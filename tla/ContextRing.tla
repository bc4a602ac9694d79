---------------------------- MODULE ContextRing ----------------------------
(***************************************************************************)
(* The context snapshot ring of src/mousetrap_arduino/debug_context.h.     *)
(*                                                                         *)
(* g_context_buf lives in RTC memory: a reset (watchdog, panic, software   *)
(* restart) keeps it, a power loss does not.  g_context_mutex lives in     *)
(* ordinary RAM and is NULL until debugContextInit() creates it; every     *)
(* other function returns at once without it, so the model lets them run   *)
(* only once the ring is initialised in the current boot.                  *)
(*                                                                         *)
(* A snapshot is represented by the free heap it records                   *)
(* (free_heap_bytes); label, task name, time, PSRAM and task count only    *)
(* feed the printouts.  Every function runs under the mutex and is one    *)
(* step; a reset falls between them (a reset inside TakeSnapshot, between  *)
(* its stores, is a hazard the model leaves out).  total_snapshots_taken,  *)
(* first_snapshot_ms and last_snapshot_ms are only printed and are left    *)
(* out.                                                                    *)
(*                                                                         *)
(* The ring implements PersistentLog with PrintSnapshots' output as the   *)
(* log: that is the history its readers are checked against.               *)
(***************************************************************************)
EXTENDS Integers, Sequences, SequencesExt

CONSTANTS
    MaxSnapshots,   \* MAX_SNAPSHOTS
    Heaps,          \* free heap values a snapshot may record (all > 0)
    DropThreshold,  \* threshold_bytes of debugContextDetectMemoryDrop()
    SummaryLen      \* the 3 of debugContextPrintSummary()

ASSUME MaxSnapshots > 1 /\ 0 \notin Heaps

Slots == 0 .. MaxSnapshots - 1

VARIABLES
    buf,        \* g_context_buf: [valid, snapshots, snapshot_index, snapshot_count]
    ready       \* g_context_mutex != NULL in this boot

vars == <<buf, ready>>

\* memset(&g_context_buf, 0, ...) followed by restoring the magic number.
Zeroed == [valid |-> TRUE, snapshots |-> [i \in Slots |-> 0],
           snapshot_index |-> 0, snapshot_count |-> 0]

\* First power-up: the RTC contents are arbitrary, the magic number wrong.
Init ==
    /\ buf = [Zeroed EXCEPT !.valid = FALSE]
    /\ ready = FALSE

\* debugContextInit(), lines 76-96: create the mutex; keep a buffer whose
\* magic is valid, zero any other.
ContextInit ==
    /\ ~ready
    /\ ready' = TRUE
    /\ IF buf.valid THEN UNCHANGED buf ELSE buf' = Zeroed

\* Fault: snapshot_count is incremented without the MAX_SNAPSHOTS cap.
TakeSnapshotUnbounded ==
    /\ ready
    /\ \E h \in Heaps :
          /\ buf' = [buf EXCEPT !.snapshots[buf.snapshot_index] = h,
                                 !.snapshot_index = (@ + 1) % MaxSnapshots,
                                 !.snapshot_count = @ + 1]
    /\ UNCHANGED ready

\* debugContextTakeSnapshot(), lines 104-146, under the mutex: the slot at
\* snapshot_index is overwritten with the current system state, the write
\* position advances and the count grows up to MAX_SNAPSHOTS.
TakeSnapshot ==
    /\ ready
    /\ \E h \in Heaps :
          /\ buf' = [buf EXCEPT !.snapshots[buf.snapshot_index] = h,
                                 !.snapshot_index = (@ + 1) % MaxSnapshots,
                                 !.snapshot_count = IF @ < MaxSnapshots THEN @ + 1 ELSE @]
    /\ UNCHANGED ready

\* debugContextClear(), lines 319-334: everything but the magic number
\* (and the lifetime total) is zeroed.
Clear ==
    /\ ready
    /\ buf' = Zeroed
    /\ UNCHANGED ready

\* A reset: RTC memory is kept, RAM (the mutex) is lost.
Reboot ==
    /\ ready' = FALSE
    /\ UNCHANGED buf

\* A power loss: RTC memory is lost too, and with it the magic number.
PowerLoss ==
    /\ buf' = [Zeroed EXCEPT !.valid = FALSE]
    /\ ready' = FALSE

Next ==
    \/ ContextInit \/ TakeSnapshot \/ Clear
    \/ Reboot \/ PowerLoss

Spec == Init /\ [][Next]_vars

(***************************************************************************)
(* What the readers return.                                                *)
(***************************************************************************)

\* Fault: the printout starts at the write position only past a full ring.
PrintStartInclusive ==
    IF buf.snapshot_count <= MaxSnapshots THEN 0 ELSE buf.snapshot_index

\* Lines 182-184: the oldest stored snapshot.
PrintStart ==
    IF buf.snapshot_count < MaxSnapshots THEN 0 ELSE buf.snapshot_index

\* debugContextPrintSnapshots(), lines 186-188: the stored snapshots in the
\* order they are printed.
Printed ==
    [i \in 1 .. buf.snapshot_count |->
        buf.snapshots[(PrintStart + i - 1) % MaxSnapshots]]

\* Fault: the summary starts at the write position.
SummaryFromIndex ==
    LET n == IF SummaryLen < buf.snapshot_count THEN SummaryLen ELSE buf.snapshot_count
    IN  [i \in 1 .. n |->
            buf.snapshots[(buf.snapshot_index - (i - 1) + MaxSnapshots) % MaxSnapshots]]

\* debugContextPrintSummary(), lines 222-230: the last min(3, count)
\* snapshots, newest first.
Summary ==
    LET n == IF SummaryLen < buf.snapshot_count THEN SummaryLen ELSE buf.snapshot_count
    IN  [i \in 1 .. n |->
            buf.snapshots[(buf.snapshot_index - 1 - (i - 1) + MaxSnapshots) % MaxSnapshots]]

\* Fault: the latest snapshot is read at the write position itself.
LatestIdxAtIndex == buf.snapshot_index % MaxSnapshots

\* Line 262: latest_idx.
LatestIdx == (buf.snapshot_index - 1 + MaxSnapshots) % MaxSnapshots

\* debugContextGetLatest(), lines 255-271: the latest snapshot, or 0 when
\* the function returns false.
Latest == IF buf.snapshot_count > 0 THEN buf.snapshots[LatestIdx] ELSE 0

\* Fault: previous_idx is computed like latest_idx.
PreviousIdxCopied == (buf.snapshot_index - 1 + MaxSnapshots) % MaxSnapshots

\* Line 291: previous_idx.
PreviousIdx == (buf.snapshot_index - 2 + MaxSnapshots) % MaxSnapshots

\* debugContextDetectMemoryDrop(threshold), lines 280-313.
MemoryDrop ==
    LET prev == buf.snapshots[PreviousIdx]
        last == buf.snapshots[LatestIdx]
    IN  /\ buf.snapshot_count >= 2
        /\ prev > last
        /\ prev - last >= DropThreshold

(***************************************************************************)
(* Properties.                                                             *)
(***************************************************************************)
TypeOK ==
    /\ buf \in [valid : BOOLEAN, snapshots : [Slots -> Heaps \cup {0}],
                snapshot_index : Slots, snapshot_count : 0 .. MaxSnapshots]
    /\ ready \in BOOLEAN

SnapshotLog == INSTANCE PersistentLog
                   WITH log <- Printed, open <- ready,
                        Cap <- MaxSnapshots, Items <- Heaps

(***************************************************************************)
(* Across resets, power losses and clears, debugContextPrintSnapshots()    *)
(* lists the last MAX_SNAPSHOTS snapshots taken, oldest first: each        *)
(* TakeSnapshot appends to the printout (dropping the oldest of a full     *)
(* ring), Clear and a power loss empty it, and a reset and the next Init   *)
(* leave it as it was.                                                     *)
(***************************************************************************)
SnapshotLogRefinement == SnapshotLog!Spec

(***************************************************************************)
(* debugContextPrintSummary() shows the newest min(3, count) snapshots of  *)
(* that printout, newest first, though it walks the ring backwards from    *)
(* snapshot_index instead of forwards from the oldest slot.                *)
(***************************************************************************)
SummaryIsNewestPrinted ==
    LET n == Len(Summary)
    IN  /\ n = IF SummaryLen < Len(Printed) THEN SummaryLen ELSE Len(Printed)
        /\ Summary = Reverse(SubSeq(Printed, Len(Printed) - n + 1, Len(Printed)))

(***************************************************************************)
(* debugContextGetLatest() returns the last snapshot of the printout (the  *)
(* snapshot taken last), and returns false only when there is none.        *)
(***************************************************************************)
LatestIsLastTaken ==
    Latest = IF Printed = <<>> THEN 0 ELSE Last(Printed)

(***************************************************************************)
(* debugContextDetectMemoryDrop() reports a drop exactly when the free     *)
(* heap fell by at least the threshold between the last two snapshots of   *)
(* the printout.                                                           *)
(***************************************************************************)
MemoryDropSound ==
    MemoryDrop <=> /\ Len(Printed) >= 2
                   /\ Printed[Len(Printed) - 1] - Last(Printed) >= DropThreshold
=============================================================================
