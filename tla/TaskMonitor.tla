---------------------------- MODULE TaskMonitor ----------------------------
(***************************************************************************)
(* The FreeRTOS stack monitor of src/mousetrap_arduino/debug_tasks.h.      *)
(*                                                                         *)
(* Callers register task handles with debugTasksRegister(); a monitor task *)
(* calls debugTasksMonitor() periodically.  Register tests the array bound *)
(* (line 74) before it takes g_task_mutex (line 79), so the test and the   *)
(* write are two steps, between which other callers may run.  Monitor runs *)
(* wholly under the mutex and is one step.  The kernel keeps, per task,    *)
(* the least free stack the task has ever had (the high-water mark): it    *)
(* only falls, at any time, as the task runs deeper.  The model starts     *)
(* after debugTasksInit().  GetStats and IsAlive, which look a task up by  *)
(* name, are operators over the state; PrintStats and PrintSummary only     *)
(* print.                                                                  *)
(***************************************************************************)
EXTENDS Integers, FiniteSets, Functions

CONSTANTS
    Handles,        \* tasks whose handles are registered, one per call
    MaxTracked,     \* MAX_TRACKED_TASKS
    StackSize,      \* stack_size passed for every task, in bytes
    FreeBytes,      \* values of a task's least free stack, in bytes
    HwmUnit,        \* bytes per unit of uxTaskGetStackHighWaterMark()
    Concurrent,     \* whether registrations may overlap
    NoHandle,       \* an empty slot
    TaskName,       \* the name each handle is registered under
    Stored,         \* a name as strncpy stores it in char name[16]
    NoName          \* the zeroed name of an empty slot

Slots == 0 .. MaxTracked - 1
Warning  == 80      \* TASK_USAGE_WARNING_THRESHOLD
Critical == 95      \* TASK_USAGE_CRITICAL_THRESHOLD

VARIABLES
    stats,          \* g_task_stats[0 .. MAX_TRACKED_TASKS - 1]
    count,          \* g_task_count
    overrun,        \* handles written past the end of g_task_stats
    pc,             \* each registration call: "start", "checked", "done"
    ret,            \* what each debugTasksRegister() call returned (true: "registered")
    healthy,        \* the value the last debugTasksMonitor() returned
    hwm             \* kernel: each task's least free stack so far, in bytes

vars == <<stats, count, overrun, pc, ret, healthy, hwm>>

EmptySlot == [handle |-> NoHandle, name |-> NoName, stack_size |-> 0,
              overflow_warning |-> FALSE]

\* debugTasksInit(), lines 56-62.
Init ==
    /\ stats = [i \in Slots |-> EmptySlot]
    /\ count = 0
    /\ overrun = {}
    /\ pc = [h \in Handles |-> "start"]
    /\ ret = [h \in Handles |-> "none"]
    /\ healthy = TRUE
    /\ hwm \in [Handles -> FreeBytes]

\* Another call is between its bound test and its write.
Busy(h) == \E o \in Handles \ {h} : pc[o] = "checked"

\* Fault: the bound test lets a call through when the array is exactly full.
RegisterCheckOffByOne(h) ==
    /\ pc[h] = "start"
    /\ Concurrent \/ ~Busy(h)
    /\ IF count > MaxTracked
       THEN pc' = [pc EXCEPT ![h] = "done"] /\ ret' = [ret EXCEPT ![h] = "refused"]
       ELSE pc' = [pc EXCEPT ![h] = "checked"] /\ UNCHANGED ret
    /\ UNCHANGED <<stats, count, overrun, healthy, hwm>>

\* Lines 74-77: the bound test, outside the mutex; a full array returns false.
RegisterCheck(h) ==
    /\ pc[h] = "start"
    /\ Concurrent \/ ~Busy(h)
    /\ IF count >= MaxTracked
       THEN pc' = [pc EXCEPT ![h] = "done"] /\ ret' = [ret EXCEPT ![h] = "refused"]
       ELSE pc' = [pc EXCEPT ![h] = "checked"] /\ UNCHANGED ret
    /\ UNCHANGED <<stats, count, overrun, healthy, hwm>>

\* Fault: the strncpy of the name is missing.
RegisterWriteNoName(h) ==
    /\ pc[h] = "checked"
    /\ IF count \in Slots
       THEN stats' = [stats EXCEPT ![count] = [@ EXCEPT !.handle = h,
                                               !.stack_size = StackSize,
                                               !.overflow_warning = FALSE]]
            /\ UNCHANGED overrun
       ELSE overrun' = overrun \cup {h} /\ UNCHANGED stats
    /\ count' = (count + 1) % 256
    /\ pc' = [pc EXCEPT ![h] = "done"]
    /\ ret' = [ret EXCEPT ![h] = "registered"]
    /\ UNCHANGED <<healthy, hwm>>

\* Lines 79-96: under the mutex, the slot g_task_count is filled and the
\* count incremented.  A slot past the end is memory outside the array.
RegisterWrite(h) ==
    /\ pc[h] = "checked"
    /\ IF count \in Slots
       THEN stats' = [stats EXCEPT ![count] = [@ EXCEPT !.handle = h,
                                               !.name = Stored[TaskName[h]],
                                               !.stack_size = StackSize,
                                               !.overflow_warning = FALSE]]
            /\ UNCHANGED overrun
       ELSE overrun' = overrun \cup {h} /\ UNCHANGED stats
    /\ count' = (count + 1) % 256
    /\ pc' = [pc EXCEPT ![h] = "done"]
    /\ ret' = [ret EXCEPT ![h] = "registered"]
    /\ UNCHANGED <<healthy, hwm>>

\* uint32_t used_bytes = stack_size - hwm (line 135) compared with p percent
\* of stack_size.  A negative difference stands for its uint32_t wrap,
\* 2^32 + used, which passes every threshold.
UsageAtLeast(used, stack, p) == used < 0 \/ 100 * used >= p * stack

\* Fault: the warning test is strict (> instead of >=).
MonitorSlotStrict(s, hw) ==
    LET used == s.stack_size - hw * 4
    IN  [s EXCEPT !.overflow_warning =
                      used < 0 \/ 100 * used > Warning * s.stack_size]

\* Lines 131-164 for one slot, given the high-water mark hw the kernel
\* returned (in words: hwm_words * 4 bytes, line 132).  The warn-once
\* branch (line 156) only suppresses a second message: the flag is set on
\* both warning paths and cleared below the warning level.  The fields
\* that are only printed (usage_percentage, peak, state, last_check_ms,
\* stack_high_water_mark) are left out.
MonitorSlot(s, hw) ==
    LET used == s.stack_size - hw * 4
        crit == UsageAtLeast(used, s.stack_size, Critical)
        warn == UsageAtLeast(used, s.stack_size, Warning)
    IN  [s EXCEPT !.overflow_warning = crit \/ warn]

\* Fault: the loop stops one slot early.
LiveSkipLast(n) == {i \in Slots : i < n - 1}

\* The slots one pass of the loop of line 126 refreshes.
Live(n) == {i \in Slots : i < n}

\* debugTasksMonitor(), lines 119-170: every registered slot is refreshed
\* from the kernel's high-water mark of its task, which
\* uxTaskGetStackHighWaterMark() returns in units of HwmUnit bytes.
Monitor ==
    /\ stats' = [i \in Slots |->
                    IF i \in Live(count)
                    THEN MonitorSlot(stats[i], hwm[stats[i].handle] \div HwmUnit)
                    ELSE stats[i]]
    /\ healthy' = \A i \in Live(count) : ~stats'[i].overflow_warning
    /\ UNCHANGED <<count, overrun, pc, ret, hwm>>

\* A task runs deeper into its stack than before: the kernel lowers its
\* high-water mark (outside debug_tasks.h).
StackUse(h) ==
    /\ \E f \in FreeBytes :
          /\ f < hwm[h]
          /\ hwm' = [hwm EXCEPT ![h] = f]
    /\ UNCHANGED <<stats, count, overrun, pc, ret, healthy>>

\* debugTasksGetStats(n), lines 223-244, and the same loop in IsAlive: the first registered slot whose stored name strcmp()s equal
\* to n, or -1.  No task of the model is deleted, so eTaskGetState() never
\* returns eDeleted and IsAlive is true exactly when the slot is found.
FindSlot(n) ==
    LET m == {i \in Live(count) : stats[i].name = n}
    IN  IF m = {} THEN -1 ELSE CHOOSE i \in m : \A j \in m : i <= j

\* debugTasksIsAlive(n), lines 269-287.
IsAlive(n) == FindSlot(n) # -1

Next ==
    \/ \E h \in Handles : RegisterCheck(h) \/ RegisterWrite(h) \/ StackUse(h)
    \/ Monitor

\* The monitor task calls debugTasksMonitor() periodically (line 116).
Spec == Init /\ [][Next]_vars /\ WF_vars(Monitor)

(***************************************************************************)
(* Properties.                                                             *)
(***************************************************************************)
TypeOK ==
    /\ count \in 0 .. MaxTracked
    /\ overrun \subseteq Handles
    /\ pc \in [Handles -> {"start", "checked", "done"}]
    /\ ret \in [Handles -> {"none", "registered", "refused"}]
    /\ healthy \in BOOLEAN
    /\ hwm \in [Handles -> FreeBytes]
    /\ \A i \in Slots : stats[i].handle \in Handles \cup {NoHandle}
    /\ \A i \in Slots : stats[i].name \in Range(Stored) \cup {NoName}

Tracked == {stats[i].handle : i \in {j \in Slots : j < count}}

(***************************************************************************)
(* A task whose debugTasksRegister() returned true is monitored: its      *)
(* handle sits in one of the first g_task_count slots of g_task_stats, and *)
(* no call wrote outside the array.                                        *)
(***************************************************************************)
RegisteredAreTracked ==
    /\ overrun = {}
    /\ \A h \in Handles : ret[h] = "registered" => h \in Tracked

(***************************************************************************)
(* A task whose debugTasksRegister() returned true is found by            *)
(* debugTasksGetStats() and debugTasksIsAlive() under the name it was     *)
(* registered with, and the slot found is its own: the name stored by     *)
(* strncpy compares equal to the name asked for, and no earlier slot has  *)
(* the same stored name.                                                  *)
(***************************************************************************)
RegisteredFound ==
    \A h \in Handles :
        ret[h] = "registered" =>
            /\ IsAlive(TaskName[h])
            /\ stats[FindSlot(TaskName[h])].handle = h

(***************************************************************************)
(* debugTasksMonitor() returns false, and sets a task's overflow_warning,  *)
(* exactly when the task has really used at least                          *)
(* TASK_USAGE_WARNING_THRESHOLD percent of its stack: the high-water mark  *)
(* conversion (line 132), the unsigned subtraction (line 135) and the two  *)
(* threshold branches together measure the true usage.  No run checks it: *)
(* with the byte unit ESP-IDF returns, it fails (see README).             *)
(***************************************************************************)
HighUsage(i) == 100 * (stats'[i].stack_size - hwm[stats'[i].handle])
                    >= Warning * stats'[i].stack_size

HealthMatchesUsage ==
    [][Monitor =>
        /\ healthy' = \A i \in Slots : i < count => ~HighUsage(i)
        /\ \A i \in Slots : i < count => (stats'[i].overflow_warning <=> HighUsage(i))]_vars

(***************************************************************************)
(* A registered task that has used at least TASK_USAGE_WARNING_THRESHOLD   *)
(* percent of its stack is eventually flagged, and the monitor eventually  *)
(* reports the system unhealthy.  No run checks it: with the byte unit     *)
(* ESP-IDF's uxTaskGetStackHighWaterMark() returns, line 132 turns 8 free  *)
(* bytes of 40 into 32, and a task at 80% is never flagged.                *)
(***************************************************************************)
\* The least free stacks at or above the warning level of usage.
HeavyFree == {f \in FreeBytes : 100 * (StackSize - f) >= Warning * StackSize}

Flagged(h) ==
    \E i \in Live(count) : stats[i].handle = h /\ stats[i].overflow_warning

HeavyTaskReported ==
    \A h \in Handles :
        (h \in Tracked /\ hwm[h] \in HeavyFree) ~> (Flagged(h) /\ ~healthy)

(***************************************************************************)
(* A registered task that has really used at least                         *)
(* TASK_USAGE_CRITICAL_THRESHOLD percent of its stack is eventually        *)
(* flagged, and debugTasksMonitor() eventually returns false, whichever    *)
(* unit the kernel's high-water mark comes in: the line-132 conversion may *)
(* misjudge a task at the warning level, but a task at the edge of its     *)
(* stack is caught either way, however the registrations, the kernel's     *)
(* marks and the periodic monitor interleave.                              *)
(***************************************************************************)
\* The least free stacks at or above the critical level of usage.
CriticalFree == {f \in FreeBytes : 100 * (StackSize - f) >= Critical * StackSize}

CriticalTaskReported ==
    \A h \in Handles :
        (h \in Tracked /\ hwm[h] \in CriticalFree) ~> (Flagged(h) /\ ~healthy)
=============================================================================
