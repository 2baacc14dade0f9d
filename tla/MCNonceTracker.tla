--------------------------- MODULE MCNonceTracker ---------------------------
(* Small instances of NonceTracker for TLC. *)
EXTENDS NonceTracker, TLC

CONSTANTS t1, t2, t3

MCTwoTasks == {t1, t2}
MCThreeTasks == {t1, t2, t3}
MCChain == {1}
MCChainRewind == {0, 2}

TasksSymmetry == Permutations(Tasks)
\* Locals that the task will write before it reads them again do not tell
\* states apart.
MCView ==
  <<atomics, gaps, lock, pc, guard, ghosts,
    [t \in Tasks |->
       IF pc[t] \in {"sync_lock", "recover_lock"} \cup SyncPoints \cup RecoverPoints
       THEN chain[t] ELSE 0],
    [t \in Tasks |->
       IF pc[t] \in {"sync_cas", "recover_cas", "collapse_cas"} THEN seen[t] ELSE 0],
    [t \in Tasks |-> IF t \in LiveTasks THEN nonce[t] ELSE 0]>>
=============================================================================
