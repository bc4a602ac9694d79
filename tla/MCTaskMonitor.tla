---------------------------- MODULE MCTaskMonitor ----------------------------
(***************************************************************************)
(* Three registrations against an array of two slots (MAX_TRACKED_TASKS   *)
(* scaled from 10), 40-byte stacks whose least free stack is 0, 2, 8, 12   *)
(* or 40 bytes: 100%, exactly the 95% critical level, exactly the 80%      *)
(* warning level, 70% and 0% used.                                         *)
(***************************************************************************)
EXTENDS TaskMonitor

CONSTANTS h1, h2, h3,
          n1, n2, n3,       \* task names of at most 15 characters
          nLong, nCut       \* a 16-character name and its first 15

MCHandles == {h1, h2, h3}

\* Distinct names that char name[16] holds whole: strncpy keeps them.
MCTaskName == [h \in MCHandles |-> CASE h = h1 -> n1 [] h = h2 -> n2 [] h = h3 -> n3]
MCStored   == [n \in {n1, n2, n3} |-> n]

\* h1 registered under a name one character too long for char name[16].
MCLongTaskName == [MCTaskName EXCEPT ![h1] = nLong]
MCLongStored   == [n \in {nLong, n2, n3} |-> IF n = nLong THEN nCut ELSE n]
=============================================================================
