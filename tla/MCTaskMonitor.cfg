\* Registrations one after another (from setup()), more than the array
\* holds, interleaved with the monitor task.
CONSTANTS
    h1 = h1  h2 = h2  h3 = h3
    n1 = n1  n2 = n2  n3 = n3  nLong = nLong  nCut = nCut
    NoHandle = NoHandle
    NoName = NoName
    TaskName <- MCTaskName
    Stored <- MCStored
    Handles <- MCHandles
    MaxTracked = 2
    StackSize = 40
    FreeBytes = {0, 2, 8, 12, 40}
    HwmUnit = 1
    Concurrent = FALSE
SPECIFICATION Spec
INVARIANT TypeOK
INVARIANT RegisteredAreTracked
PROPERTY CriticalTaskReported
