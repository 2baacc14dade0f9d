------------------------- MODULE MCTrackerSequential -------------------------
(* Small instances of TrackerSequential for TLC. *)
EXTENDS TrackerSequential, TLC

CONSTANTS t1, t2, t3, t4

MCTasks == {t1, t2, t3, t4}
MCChain == {0, 2}
TasksSymmetry == Permutations(Tasks)
\* Locals that the task will write before it reads them again do not tell
\* states apart.
MCView ==
  <<atomics, gaps, lock, pc, guard, leaked, expected,
    [t \in Tasks |-> IF pc[t] = "idle" THEN <<>> ELSE <<chain[t], seen[t]>>],
    [t \in Tasks |-> IF t \in LiveTasks THEN nonce[t] ELSE 0]>>
=============================================================================
