------------------------- MODULE NonceTrackerProofs -------------------------
(***************************************************************************)
(* What NonceTracker guarantees for every set of tasks, every initial and  *)
(* chain nonce and every bound, provided no reserve() runs during a        *)
(* recover_stalled (Quiescent).  First the inductive invariant IInv, one   *)
(* lemma per conjunct and one case per action; then the properties it      *)
(* implies; then the refinement of NoncePool; then pending_count and calls *)
(* that do not overlap (TrackerSequential), which need no such provision.  *)
(***************************************************************************)
EXTENDS TrackerSequential, FiniteSetTheorems, WellFoundedInduction, TLAPS

\* t does not begin a reserve() while a recover_stalled runs.
Apart(t) == Reserve(t) => Recovering = {}

\* Every step keeps the types; the two counters cannot go below zero because
\* gap_count is tied to the size of gaps (CountInv).
LEMMA TypeOKStep ==
  ASSUME IInv, NEW t \in Tasks, Apart(t), Call(t) \/ LockStep(t) \/ RunStep(t)
  PROVE  TypeOK'
<1>. USE NoTaskIsNoTask DEF IInv, TypeOK, Points, LiveStates, ReservePoints,
      LockingPoints, LockedPoints, SyncPoints, RecoverPoints, RecyclePoints,
      CollapsePoints
<1>1. CASE mark_broadcasting(t)
  BY <1>1 DEF mark_broadcasting, GuardIs, atomics, locals, ghosts
<1>2. CASE commit(t)
  <2>1. nonce[t] \in Nat
    OBVIOUS
  <2>2. spent' \subseteq Nat
    BY <2>1, <1>2 DEF commit
  <2>3. guard' \in [Tasks -> {"None"} \cup LiveStates]
    BY <1>2 DEF commit
  <2>. QED BY <2>2, <2>3, <1>2 DEF commit, GuardIs, decrement_pending, locals
<1>3. CASE DropBroadcasting(t)
  <2>1. nonce[t] \in Nat
    OBVIOUS
  <2>2. spent' \subseteq Nat
    BY <2>1, <1>3 DEF DropBroadcasting
  <2>3. guard' \in [Tasks -> {"None"} \cup LiveStates]
    BY <1>3 DEF DropBroadcasting
  <2>. QED BY <2>2, <2>3, <1>3 DEF DropBroadcasting, GuardIs, atomics, locals
<1>4. CASE release(t)
  BY <1>4 DEF release, GuardIs, GiveBack, decrement_pending, Goto, locals,
     ghosts
<1>5. CASE release_rejected_broadcast(t)
  BY <1>5 DEF release_rejected_broadcast, GuardIs, GiveBack,
     decrement_pending, Goto, locals, ghosts
<1>6. CASE reset_pending(t)
  BY <1>6 DEF reset_pending, locals, guards, ghosts
<1>7. CASE Reserve(t)
  BY <1>7 DEF Reserve, Recovering, Reserving, Goto, locals, guards, ghosts
<1>8. CASE ReserveCheck(t)
  BY <1>8 DEF ReserveCheck, Goto, atomics, locals, guards, ghosts
<1>9. CASE ReservePop(t)
  <2>1. PICK n \in gaps : gaps' = gaps \ {n} /\ HandOut(t, n)
                        /\ gap_count' = gap_count - 1
    BY <1>9 DEF ReservePop
  <2>2. Cardinality(gaps) \in Nat /\ Cardinality(gaps) # 0
    BY <2>1, FS_CardinalityType, FS_EmptySet
  <2>3. gap_count' \in Nat
    BY <2>1, <2>2 DEF CountInv
  <2>4. gaps' \subseteq Nat /\ IsFiniteSet(gaps')
    BY <2>1, FS_RemoveElement
  <2>. QED BY <2>1, <2>3, <2>4, <1>9 DEF ReservePop, HandOut, Goto, locals, ghosts
<1>10. CASE ReservePopEmpty(t)
  BY <1>10 DEF ReservePopEmpty, Goto, atomics, locals, guards, ghosts
<1>11. CASE ReserveAdd(t)
  BY <1>11 DEF ReserveAdd, HandOut, Goto, locals, ghosts
<1>12. CASE RecycleStale(t)
  BY <1>12 DEF RecycleStale, Forget, Goto, atomics, locals, ghosts
<1>13. CASE RecycleLock(t)
  BY <1>13 DEF RecycleLock, Acquire, Goto, atomics, locals, guards, ghosts
<1>14. CASE RecycleTop(t)
  BY <1>14 DEF RecycleTop, Forget, Goto, locals, ghosts
<1>15. CASE RecycleNotTop(t)
  BY <1>15 DEF RecycleNotTop, Goto, atomics, locals, guards, ghosts
<1>16. CASE RecycleInsert(t)
  <2>1. IsFiniteSet(gaps \cup {nonce[t]}) /\ nonce[t] \in Nat
    BY FS_AddElement
  <2>2. CASE gaps' = gaps /\ gap_count' = gap_count
    BY <2>2, <1>16 DEF RecycleInsert, Forget, Unlock, Goto, locals, ghosts
  <2>3. CASE gaps' = gaps \cup {nonce[t]} /\ gap_count' = gap_count + 1
    <3>1. \A g \in gaps' : g \in Nat
      BY <2>1, <2>3
    <3>2. IsFiniteSet(gaps')
      BY <2>1, <2>3
    <3>. QED BY <3>1, <3>2, <1>16 DEF RecycleInsert, Forget, Unlock, Goto, locals,
              ghosts
  <2>. QED BY <2>2, <2>3, <1>16 DEF RecycleInsert
<1>17. CASE CollapseTake(t)
  BY <1>17, FS_Subset DEF CollapseTake, TopIsGap, Goto, atomics, guards,
     ghosts
<1>18. CASE CollapseDone(t)
  BY <1>18 DEF CollapseDone, TopIsGap, Unlock, Goto, atomics, locals, guards,
     ghosts
<1>19. CASE CollapseCas(t)
  <2>1. current' \in Nat
    BY <1>19 DEF CollapseCas, StepInv
  <2>. QED BY <2>1, <1>19 DEF CollapseCas, Goto, locals, guards, ghosts
<1>20. CASE CollapseCasFails(t)
  <2>1. seen[t] - 1 \in Nat
    BY <1>20 DEF CollapseCasFails, StepInv
  <2>2. IsFiniteSet(gaps \cup {seen[t] - 1})
    BY FS_AddElement
  <2>. QED BY <2>1, <2>2, <1>20 DEF CollapseCasFails, Unlock, Goto, atomics,
            locals, guards, ghosts
<1>21. CASE CollapseCount(t)
  <2>1. gap_count = Cardinality(gaps) + 1
    BY <1>21 DEF CollapseCount, CountInv
  <2>2. gap_count' \in Nat
    BY <2>1, <1>21, FS_CardinalityType DEF CollapseCount
  <2>. QED BY <2>2, <1>21 DEF CollapseCount, Goto, locals, guards, ghosts
<1>22. CASE \E c \in ChainNonces : sync_forward(t, c)
  BY <1>22, ChainNoncesAreNats DEF sync_forward, Goto, atomics, guards, ghosts
<1>23. CASE SyncPrune(t)
  BY <1>23, FS_Subset, FS_CardinalityType DEF SyncPrune, Acquire, Goto,
     locals, guards, ghosts
<1>24. CASE SyncMax(t)
  BY <1>24 DEF SyncMax, Goto, locals, guards, ghosts
<1>25. CASE SyncNotAhead(t)
  BY <1>25 DEF SyncNotAhead, Unlock, Goto, atomics, locals, guards, ghosts
<1>26. CASE SyncLoad(t)
  BY <1>26 DEF SyncLoad, Goto, atomics, guards, ghosts
<1>27. CASE SyncCas(t)
  BY <1>27 DEF SyncCas, Unlock, Goto, locals, guards, ghosts
<1>28. CASE SyncCasFails(t)
  BY <1>28 DEF SyncCasFails, Goto, atomics, locals, guards, ghosts
<1>29. CASE \E c \in ChainNonces : recover_stalled(t, c)
  BY <1>29, ChainNoncesAreNats DEF recover_stalled, RecoveryProven, Goto,
     atomics, guards, ghosts, LiveTasks, Reserving
<1>30. CASE RecoverNotBehind(t)
  BY <1>30 DEF RecoverNotBehind, Goto, atomics, locals, guards, ghosts
<1>31. CASE RecoverLoad(t)
  BY <1>31 DEF RecoverLoad, Acquire, Goto, atomics, guards, ghosts
<1>32. CASE RecoverCas(t)
  BY <1>32 DEF RecoverCas, Goto, locals, guards
<1>33. CASE RecoverCasFails(t)
  BY <1>33 DEF RecoverCasFails, Unlock, Goto, atomics, locals, guards, ghosts
<1>34. CASE RecoverClear(t)
  BY <1>34, FS_EmptySet DEF RecoverClear, Goto, locals, guards, ghosts
<1>35. CASE RecoverStore(t)
  BY <1>35 DEF RecoverStore, Unlock, Goto, locals, guards, ghosts
<1>. QED BY <1>1, <1>2, <1>3, <1>4, <1>5, <1>6, <1>7, <1>8, <1>9, <1>10,
     <1>11, <1>12, <1>13, <1>14, <1>15, <1>16, <1>17, <1>18, <1>19, <1>20,
     <1>21, <1>22, <1>23, <1>24, <1>25, <1>26, <1>27, <1>28, <1>29, <1>30,
     <1>31, <1>32, <1>33, <1>34, <1>35
     DEF Call, LockStep, RunStep

\* A task takes the mutex only when it is free and only its holder frees it.
LEMMA LockInvStep ==
  ASSUME IInv, NEW t \in Tasks, Apart(t), Call(t) \/ LockStep(t) \/ RunStep(t)
  PROVE  LockInv'
<1>. USE NoTaskIsNoTask DEF IInv, TypeOK, LockInv, Points, LiveStates,
      LockedPoints, ReservePoints, LockingPoints, SyncPoints, RecoverPoints,
      RecyclePoints, CollapsePoints
<1>1. CASE \/ mark_broadcasting(t)
          \/ commit(t)
          \/ DropBroadcasting(t)
          \/ release(t)
          \/ release_rejected_broadcast(t)
          \/ reset_pending(t)
  BY <1>1 DEF mark_broadcasting, commit, DropBroadcasting, release,
     release_rejected_broadcast, reset_pending, GuardIs, atomics, locals,
     ghosts, decrement_pending, GiveBack, guards, Goto
<1>2. CASE \/ Reserve(t)
          \/ ReserveCheck(t)
          \/ ReservePop(t)
          \/ ReservePopEmpty(t)
          \/ ReserveAdd(t)
  BY <1>2 DEF Reserve, ReserveCheck, ReservePop, ReservePopEmpty, ReserveAdd,
     Recovering, Reserving, Goto, locals, guards, ghosts, atomics, HandOut
<1>3. CASE \/ RecycleStale(t)
          \/ RecycleLock(t)
          \/ RecycleTop(t)
          \/ RecycleNotTop(t)
          \/ RecycleInsert(t)
  BY <1>3 DEF RecycleStale, RecycleLock, RecycleTop, RecycleNotTop,
     RecycleInsert, Forget, Goto, atomics, locals, ghosts, Acquire, guards,
     Unlock
<1>4. CASE \/ CollapseTake(t)
          \/ CollapseDone(t)
          \/ CollapseCas(t)
          \/ CollapseCasFails(t)
          \/ CollapseCount(t)
  BY <1>4 DEF CollapseTake, CollapseDone, CollapseCas, CollapseCasFails,
     CollapseCount, TopIsGap, Goto, atomics, guards, ghosts, Unlock, locals
<1>5. CASE \/ \E c \in ChainNonces : sync_forward(t, c)
          \/ SyncPrune(t)
          \/ SyncMax(t)
          \/ SyncNotAhead(t)
          \/ SyncLoad(t)
          \/ SyncCas(t)
          \/ SyncCasFails(t)
  BY <1>5 DEF sync_forward, SyncPrune, SyncMax, SyncNotAhead, SyncLoad,
     SyncCas, SyncCasFails, Goto, atomics, guards, ghosts, Acquire, locals,
     Unlock
<1>6. CASE \/ \E c \in ChainNonces : recover_stalled(t, c)
          \/ RecoverNotBehind(t)
          \/ RecoverLoad(t)
          \/ RecoverCas(t)
          \/ RecoverCasFails(t)
          \/ RecoverClear(t)
          \/ RecoverStore(t)
  BY <1>6 DEF recover_stalled, RecoverNotBehind, RecoverLoad, RecoverCas,
     RecoverCasFails, RecoverClear, RecoverStore, RecoveryProven, Goto,
     atomics, guards, ghosts, locals, Acquire, Unlock, LiveTasks, Reserving
<1>. QED BY <1>1, <1>2, <1>3, <1>4, <1>5, <1>6
     DEF Call, LockStep, RunStep

\* A guard is Released only for the time of its recycle_nonce, and a recovery
\* has the tracker's guards to itself.
LEMMA GuardInvStep ==
  ASSUME IInv, NEW t \in Tasks, Apart(t), Call(t) \/ LockStep(t) \/ RunStep(t)
  PROVE  GuardInv'
<1>. USE NoTaskIsNoTask DEF IInv, TypeOK, LockInv, GuardInv, Points,
      LiveStates, LockedPoints, RecyclePoints, ReservePoints, Recovering,
      LiveTasks, Reserving, LockingPoints, SyncPoints, RecoverPoints,
      CollapsePoints
<1>1. CASE \/ mark_broadcasting(t)
          \/ commit(t)
          \/ DropBroadcasting(t)
          \/ release(t)
          \/ release_rejected_broadcast(t)
          \/ reset_pending(t)
  BY <1>1 DEF mark_broadcasting, commit, DropBroadcasting, release,
     release_rejected_broadcast, reset_pending, GuardIs, atomics, locals,
     ghosts, decrement_pending, GiveBack, guards, Goto
<1>2. CASE \/ Reserve(t)
          \/ ReserveCheck(t)
          \/ ReservePop(t)
          \/ ReservePopEmpty(t)
          \/ ReserveAdd(t)
  BY <1>2 DEF Apart, Reserve, ReserveCheck, ReservePop, ReservePopEmpty, ReserveAdd,
     Goto, locals, guards, ghosts, atomics, HandOut
<1>3. CASE \/ RecycleStale(t)
          \/ RecycleLock(t)
          \/ RecycleTop(t)
          \/ RecycleNotTop(t)
          \/ RecycleInsert(t)
  BY <1>3 DEF RecycleStale, RecycleLock, RecycleTop, RecycleNotTop,
     RecycleInsert, Forget, Goto, atomics, locals, ghosts, Acquire, guards,
     Unlock
<1>4. CASE CollapseTake(t)
  BY <1>4 DEF CollapseTake, TopIsGap, Goto, atomics, guards, ghosts
<1>5. CASE CollapseDone(t)
  BY <1>5 DEF CollapseDone, TopIsGap, Unlock, Goto, atomics, locals, guards,
     ghosts
<1>6. CASE CollapseCas(t)
  BY <1>6 DEF CollapseCas, Goto, locals, guards, ghosts
<1>7. CASE CollapseCasFails(t)
  BY <1>7 DEF CollapseCasFails, Unlock, Goto, atomics, locals, guards, ghosts
<1>8. CASE CollapseCount(t)
  BY <1>8 DEF CollapseCount, Goto, locals, guards, ghosts
<1>9. CASE \/ \E c \in ChainNonces : sync_forward(t, c)
          \/ SyncPrune(t)
          \/ SyncMax(t)
          \/ SyncNotAhead(t)
          \/ SyncLoad(t)
          \/ SyncCas(t)
          \/ SyncCasFails(t)
  BY <1>9 DEF sync_forward, SyncPrune, SyncMax, SyncNotAhead, SyncLoad,
     SyncCas, SyncCasFails, Goto, atomics, guards, ghosts, Acquire, locals,
     Unlock
<1>10. CASE \/ \E c \in ChainNonces : recover_stalled(t, c)
          \/ RecoverNotBehind(t)
          \/ RecoverLoad(t)
          \/ RecoverCas(t)
          \/ RecoverCasFails(t)
          \/ RecoverClear(t)
          \/ RecoverStore(t)
  BY <1>10 DEF recover_stalled, RecoverNotBehind, RecoverLoad, RecoverCas,
     RecoverCasFails, RecoverClear, RecoverStore, RecoveryProven, Goto,
     atomics, guards, ghosts, locals, Acquire, Unlock
<1>. QED BY <1>1, <1>2, <1>3, <1>4, <1>5, <1>6, <1>7, <1>8, <1>9, <1>10
     DEF Call, LockStep, RunStep

\* What the holder of the mutex has read stays true while reserve()s run.
LEMMA StepInvStep ==
  ASSUME IInv, NEW t \in Tasks, Apart(t), Call(t) \/ LockStep(t) \/ RunStep(t)
  PROVE  StepInv'
<1>. USE NoTaskIsNoTask DEF IInv, TypeOK, LockInv, GuardInv, StepInv,
      WindowInv, ExclusiveNonces, Points, LiveStates, LockedPoints,
      RecyclePoints, ReservePoints, Recovering, LiveTasks, Reserving,
      SyncPoints, CollapsePoints, Reusable, LockingPoints, RecoverPoints
<1>1. CASE mark_broadcasting(t)
  BY <1>1 DEF mark_broadcasting, GuardIs, atomics, locals, ghosts
<1>2. CASE commit(t)
  BY <1>2 DEF commit, GuardIs, decrement_pending, locals
<1>3. CASE DropBroadcasting(t)
  BY <1>3 DEF DropBroadcasting, GuardIs, atomics, locals
<1>4. CASE release(t)
  BY <1>4 DEF release, GuardIs, GiveBack, decrement_pending, Goto, locals,
     ghosts
<1>5. CASE release_rejected_broadcast(t)
  BY <1>5 DEF release_rejected_broadcast, GuardIs, GiveBack,
     decrement_pending, Goto, locals, ghosts
<1>6. CASE reset_pending(t)
  BY <1>6 DEF reset_pending, locals, guards, ghosts
<1>7. CASE Reserve(t)
  BY <1>7 DEF Reserve, Goto, locals, guards, ghosts
<1>8. CASE ReserveCheck(t)
  BY <1>8 DEF ReserveCheck, Goto, atomics, locals, guards, ghosts
<1>9. CASE ReservePop(t)
  BY <1>9 DEF ReservePop, HandOut, Goto, locals, ghosts
<1>10. CASE ReservePopEmpty(t)
  BY <1>10 DEF ReservePopEmpty, Goto, atomics, locals, guards, ghosts
<1>11. CASE ReserveAdd(t)
  BY <1>11 DEF ReserveAdd, HandOut, Goto, locals, ghosts
<1>12. CASE RecycleStale(t)
  BY <1>12 DEF RecycleStale, Forget, Goto, atomics, locals, ghosts
<1>13. CASE RecycleLock(t)
  BY <1>13 DEF RecycleLock, Acquire, Goto, atomics, locals, guards, ghosts
<1>14. CASE RecycleTop(t)
  BY <1>14 DEF RecycleTop, Forget, Goto, locals, ghosts
<1>15. CASE RecycleNotTop(t)
  BY <1>15 DEF RecycleNotTop, Goto, atomics, locals, guards, ghosts
<1>16. CASE RecycleInsert(t)
  BY <1>16 DEF RecycleInsert, Forget, Unlock, Goto, locals, ghosts
<1>17. CASE CollapseTake(t)
  BY <1>17 DEF CollapseTake, TopIsGap, Goto, atomics, guards, ghosts
<1>18. CASE CollapseDone(t)
  BY <1>18 DEF CollapseDone, TopIsGap, Unlock, Goto, atomics, locals, guards,
     ghosts
<1>19. CASE CollapseCas(t)
  BY <1>19 DEF CollapseCas, Goto, locals, guards, ghosts
<1>20. CASE CollapseCasFails(t)
  BY <1>20 DEF CollapseCasFails, Unlock, Goto, atomics, locals, guards, ghosts
<1>21. CASE CollapseCount(t)
  BY <1>21 DEF CollapseCount, Goto, locals, guards, ghosts
<1>22. CASE \E c \in ChainNonces : sync_forward(t, c)
  BY <1>22 DEF sync_forward, Goto, atomics, guards, ghosts
<1>23. CASE SyncPrune(t)
  BY <1>23 DEF SyncPrune, Acquire, Goto, locals, guards, ghosts
<1>24. CASE SyncMax(t)
  BY <1>24 DEF SyncMax, Goto, locals, guards, ghosts
<1>25. CASE SyncNotAhead(t)
  BY <1>25 DEF SyncNotAhead, Unlock, Goto, atomics, locals, guards, ghosts
<1>26. CASE SyncLoad(t)
  BY <1>26 DEF SyncLoad, Goto, atomics, guards, ghosts
<1>27. CASE SyncCas(t)
  BY <1>27 DEF SyncCas, Unlock, Goto, locals, guards, ghosts
<1>28. CASE SyncCasFails(t)
  BY <1>28 DEF SyncCasFails, Goto, atomics, locals, guards, ghosts
<1>29. CASE \E c \in ChainNonces : recover_stalled(t, c)
  BY <1>29 DEF recover_stalled, RecoveryProven, Goto, atomics, guards, ghosts
<1>30. CASE RecoverNotBehind(t)
  BY <1>30 DEF RecoverNotBehind, Goto, atomics, locals, guards, ghosts
<1>31. CASE RecoverLoad(t)
  BY <1>31 DEF RecoverLoad, Acquire, Goto, atomics, guards, ghosts
<1>32. CASE RecoverCas(t)
  BY <1>32 DEF RecoverCas, Goto, locals, guards
<1>33. CASE RecoverCasFails(t)
  BY <1>33 DEF RecoverCasFails, Unlock, Goto, atomics, locals, guards, ghosts
<1>34. CASE RecoverClear(t)
  BY <1>34 DEF RecoverClear, Goto, locals, guards, ghosts
<1>35. CASE RecoverStore(t)
  BY <1>35 DEF RecoverStore, Unlock, Goto, locals, guards, ghosts
<1>. QED BY <1>1, <1>2, <1>3, <1>4, <1>5, <1>6, <1>7, <1>8, <1>9, <1>10,
     <1>11, <1>12, <1>13, <1>14, <1>15, <1>16, <1>17, <1>18, <1>19, <1>20,
     <1>21, <1>22, <1>23, <1>24, <1>25, <1>26, <1>27, <1>28, <1>29, <1>30,
     <1>31, <1>32, <1>33, <1>34, <1>35
     DEF Call, LockStep, RunStep

\* Gaps stay between the chain nonce and current, below the topmost nonce.
LEMMA WindowInvStep ==
  ASSUME IInv, NEW t \in Tasks, Apart(t), Call(t) \/ LockStep(t) \/ RunStep(t)
  PROVE  WindowInv'
<1>. USE NoTaskIsNoTask DEF IInv, TypeOK, LockInv, GuardInv, StepInv,
      WindowInv, Points, LiveStates, LockedPoints, RecyclePoints,
      ReservePoints, Recovering, LiveTasks, Reserving, SyncPoints,
      CollapsePoints, LockingPoints, RecoverPoints
<1>1. CASE mark_broadcasting(t)
  BY <1>1 DEF mark_broadcasting, GuardIs, atomics, locals, ghosts
<1>2. CASE commit(t)
  BY <1>2 DEF commit, GuardIs, decrement_pending, locals
<1>3. CASE DropBroadcasting(t)
  BY <1>3 DEF DropBroadcasting, GuardIs, atomics, locals
<1>4. CASE release(t)
  BY <1>4 DEF release, GuardIs, GiveBack, decrement_pending, Goto, locals,
     ghosts
<1>5. CASE release_rejected_broadcast(t)
  BY <1>5 DEF release_rejected_broadcast, GuardIs, GiveBack,
     decrement_pending, Goto, locals, ghosts
<1>6. CASE reset_pending(t)
  BY <1>6 DEF reset_pending, locals, guards, ghosts
<1>7. CASE Reserve(t)
  BY <1>7 DEF Reserve, Goto, locals, guards, ghosts
<1>8. CASE ReserveCheck(t)
  BY <1>8 DEF ReserveCheck, Goto, atomics, locals, guards, ghosts
<1>9. CASE ReservePop(t)
  BY <1>9 DEF ReservePop, HandOut, Goto, locals, ghosts
<1>10. CASE ReservePopEmpty(t)
  BY <1>10 DEF ReservePopEmpty, Goto, atomics, locals, guards, ghosts
<1>11. CASE ReserveAdd(t)
  BY <1>11 DEF ReserveAdd, HandOut, Goto, locals, ghosts
<1>12. CASE RecycleStale(t)
  BY <1>12 DEF RecycleStale, Forget, Goto, atomics, locals, ghosts
<1>13. CASE RecycleLock(t)
  BY <1>13 DEF RecycleLock, Acquire, Goto, atomics, locals, guards, ghosts
<1>14. CASE RecycleTop(t)
  BY <1>14 DEF RecycleTop, Forget, Goto, locals, ghosts
<1>15. CASE RecycleNotTop(t)
  BY <1>15 DEF RecycleNotTop, Goto, atomics, locals, guards, ghosts
<1>16. CASE RecycleInsert(t)
  <2>1. synced_nonce <= nonce[t] /\ nonce[t] + 1 < current
    BY <1>16 DEF RecycleInsert
  <2>2. lock = t /\ gaps' \subseteq gaps \cup {nonce[t]}
    BY <1>16 DEF RecycleInsert
  <2>3. \A u \in Tasks : pc[u] \in LockedPoints => u = t
    BY <2>2
  <2>4. \A g \in gaps : synced_nonce <= g /\ g + 1 < current
    BY <2>3, <1>16 DEF RecycleInsert
  <2>5. \A g \in gaps' : synced_nonce <= g /\ g < current /\ g + 1 < current
    BY <2>1, <2>2, <2>4
  <2>6. synced_nonce <= current
    BY <2>1
  <2>7. current' = current /\ synced_nonce' = synced_nonce
    BY <1>16 DEF RecycleInsert
  <2>8. (\A g \in gaps : synced_nonce <= g /\ g < current /\ g + 1 < current)'
    BY <2>5, <2>7
  <2>. QED BY <2>6, <2>7, <2>8, Zenon
<1>17. CASE CollapseTake(t)
  BY <1>17 DEF CollapseTake, TopIsGap, Goto, atomics, guards, ghosts
<1>18. CASE CollapseDone(t)
  BY <1>18 DEF CollapseDone, TopIsGap, Unlock, Goto, atomics, locals, guards,
     ghosts
<1>19. CASE CollapseCas(t)
  BY <1>19 DEF CollapseCas, Goto, locals, guards, ghosts
<1>20. CASE CollapseCasFails(t)
  BY <1>20 DEF CollapseCasFails, Unlock, Goto, atomics, locals, guards, ghosts
<1>21. CASE CollapseCount(t)
  BY <1>21 DEF CollapseCount, Goto, locals, guards, ghosts
<1>22. CASE \E c \in ChainNonces : sync_forward(t, c)
  BY <1>22 DEF sync_forward, Goto, atomics, guards, ghosts
<1>23. CASE SyncPrune(t)
  BY <1>23 DEF SyncPrune, Acquire, Goto, locals, guards, ghosts
<1>24. CASE SyncMax(t)
  BY <1>24 DEF SyncMax, Goto, locals, guards, ghosts
<1>25. CASE SyncNotAhead(t)
  BY <1>25 DEF SyncNotAhead, Unlock, Goto, atomics, locals, guards, ghosts
<1>26. CASE SyncLoad(t)
  BY <1>26 DEF SyncLoad, Goto, atomics, guards, ghosts
<1>27. CASE SyncCas(t)
  BY <1>27 DEF SyncCas, Unlock, Goto, locals, guards, ghosts
<1>28. CASE SyncCasFails(t)
  BY <1>28 DEF SyncCasFails, Goto, atomics, locals, guards, ghosts
<1>29. CASE \E c \in ChainNonces : recover_stalled(t, c)
  BY <1>29 DEF recover_stalled, RecoveryProven, Goto, atomics, guards, ghosts
<1>30. CASE RecoverNotBehind(t)
  BY <1>30 DEF RecoverNotBehind, Goto, atomics, locals, guards, ghosts
<1>31. CASE RecoverLoad(t)
  BY <1>31 DEF RecoverLoad, Acquire, Goto, atomics, guards, ghosts
<1>32. CASE RecoverCas(t)
  BY <1>32 DEF RecoverCas, Goto, locals, guards
<1>33. CASE RecoverCasFails(t)
  BY <1>33 DEF RecoverCasFails, Unlock, Goto, atomics, locals, guards, ghosts
<1>34. CASE RecoverClear(t)
  BY <1>34 DEF RecoverClear, Goto, locals, guards, ghosts
<1>35. CASE RecoverStore(t)
  BY <1>35 DEF RecoverStore, Unlock, Goto, locals, guards, ghosts
<1>. QED BY <1>1, <1>2, <1>3, <1>4, <1>5, <1>6, <1>7, <1>8, <1>9, <1>10,
     <1>11, <1>12, <1>13, <1>14, <1>15, <1>16, <1>17, <1>18, <1>19, <1>20,
     <1>21, <1>22, <1>23, <1>24, <1>25, <1>26, <1>27, <1>28, <1>29, <1>30,
     <1>31, <1>32, <1>33, <1>34, <1>35
     DEF Call, LockStep, RunStep

\* gap_count follows the size of gaps.
LEMMA CountInvStep ==
  ASSUME IInv, NEW t \in Tasks, Apart(t), Call(t) \/ LockStep(t) \/ RunStep(t)
  PROVE  CountInv'
<1>. USE NoTaskIsNoTask DEF IInv, TypeOK, LockInv, StepInv, CountInv, Points,
      LiveStates, LockedPoints, RecyclePoints, SyncPoints, ReservePoints,
      LockingPoints, RecoverPoints, CollapsePoints
<1>1. CASE \/ mark_broadcasting(t)
          \/ commit(t)
          \/ DropBroadcasting(t)
          \/ release(t)
          \/ release_rejected_broadcast(t)
          \/ reset_pending(t)
  BY <1>1 DEF mark_broadcasting, commit, DropBroadcasting, release,
     release_rejected_broadcast, reset_pending, GuardIs, atomics, locals,
     ghosts, decrement_pending, GiveBack, guards, Goto
<1>2. CASE Reserve(t)
  BY <1>2 DEF Reserve, Recovering, Reserving, Goto, locals, guards, ghosts
<1>3. CASE ReserveCheck(t)
  BY <1>3 DEF ReserveCheck, Goto, atomics, locals, guards, ghosts
<1>4. CASE ReservePop(t)
  <2>1. PICK n \in gaps : gaps' = gaps \ {n} /\ gap_count' = gap_count - 1
    BY <1>4 DEF ReservePop
  <2>2. Cardinality(gaps') = Cardinality(gaps) - 1
    BY <2>1, FS_RemoveElement
  <2>3. \A u \in Tasks : pc[u] \notin LockedPoints /\ pc'[u] \notin LockedPoints
    BY <1>4 DEF ReservePop, Goto
  <2>. QED BY <2>1, <2>2, <2>3, FS_CardinalityType
<1>5. CASE ReservePopEmpty(t)
  BY <1>5 DEF ReservePopEmpty, Goto, atomics, locals, guards, ghosts
<1>6. CASE ReserveAdd(t)
  BY <1>6 DEF ReserveAdd, HandOut, Goto, locals, ghosts
<1>7. CASE RecycleStale(t)
  BY <1>7 DEF RecycleStale, Forget, Goto, atomics, locals, ghosts
<1>8. CASE RecycleLock(t)
  BY <1>8 DEF RecycleLock, Acquire, Goto, atomics, locals, guards, ghosts
<1>9. CASE RecycleTop(t)
  BY <1>9 DEF RecycleTop, Forget, Goto, locals, ghosts
<1>10. CASE RecycleNotTop(t)
  BY <1>10 DEF RecycleNotTop, Goto, atomics, locals, guards, ghosts
<1>11. CASE RecycleInsert(t)
  <2>1. lock = t
    BY <1>11 DEF RecycleInsert
  <2>2. \A u \in Tasks : /\ pc[u] \notin {"collapse_cas", "collapse_count"}
                        /\ pc'[u] \notin {"collapse_cas", "collapse_count"}
    BY <2>1, <1>11 DEF RecycleInsert, Goto
  <2>3. gap_count = Cardinality(gaps)
    BY <2>2, FS_CardinalityType
  <2>4. CASE gaps' = gaps /\ gap_count' = gap_count
    BY <2>2, <2>3, <2>4, FS_CardinalityType
  <2>5. CASE /\ nonce[t] \notin gaps /\ gaps' = gaps \cup {nonce[t]}
             /\ gap_count' = gap_count + 1
    <3>1. Cardinality(gaps') = Cardinality(gaps) + 1
      BY <2>5, FS_AddElement
    <3>. QED BY <2>2, <2>3, <2>5, <3>1, FS_CardinalityType
  <2>. QED BY <2>4, <2>5, <1>11 DEF RecycleInsert
<1>12. CASE CollapseTake(t)
  <2>1. lock = t /\ gap_count' = gap_count
    BY <1>12 DEF CollapseTake, atomics
  <2>2. PICK g \in gaps : gaps' = gaps \ {g}
    BY <1>12 DEF CollapseTake, TopIsGap
  <2>3. Cardinality(gaps') = Cardinality(gaps) - 1
    BY <2>2, FS_RemoveElement
  <2>4. gap_count = Cardinality(gaps)
    BY <2>1, <1>12, FS_CardinalityType DEF CollapseTake
  <2>5. pc'[t] = "collapse_cas"
    BY <1>12 DEF CollapseTake, Goto
  <2>6. Cardinality(gaps) \in Nat
    BY FS_CardinalityType
  <2>. QED BY <2>1, <2>3, <2>4, <2>5, <2>6
<1>13. CASE CollapseDone(t)
  BY <1>13 DEF CollapseDone, TopIsGap, Unlock, Goto, atomics, locals, guards,
     ghosts
<1>14. CASE CollapseCas(t)
  BY <1>14 DEF CollapseCas, Goto, locals, guards, ghosts
<1>15. CASE CollapseCasFails(t)
  <2>1. lock = t /\ gap_count' = gap_count /\ pc[t] = "collapse_cas"
    BY <1>15 DEF CollapseCasFails, atomics
  <2>2. seen[t] - 1 \notin gaps /\ gaps' = gaps \cup {seen[t] - 1}
    BY <2>1, <1>15 DEF CollapseCasFails, StepInv
  <2>3. Cardinality(gaps') = Cardinality(gaps) + 1
    BY <2>2, FS_AddElement
  <2>4. \A u \in Tasks : pc'[u] \notin {"collapse_cas", "collapse_count"}
    BY <2>1, <1>15 DEF CollapseCasFails, Goto
  <2>5. gap_count = Cardinality(gaps) + 1
    BY <2>1
  <2>. QED BY <2>1, <2>3, <2>4, <2>5, FS_CardinalityType
<1>16. CASE CollapseCount(t)
  <2>1. lock = t /\ gap_count' = gap_count - 1 /\ gaps' = gaps
    BY <1>16 DEF CollapseCount
  <2>2. \A u \in Tasks : pc'[u] \notin {"collapse_cas", "collapse_count"}
    BY <2>1, <1>16 DEF CollapseCount, Goto
  <2>3. gap_count = Cardinality(gaps) + 1
    BY <1>16 DEF CollapseCount
  <2>. QED BY <2>1, <2>2, <2>3, FS_CardinalityType
<1>17. CASE \E c \in ChainNonces : sync_forward(t, c)
  BY <1>17 DEF sync_forward, Goto, atomics, guards, ghosts
<1>18. CASE SyncPrune(t)
  <2>1. gaps' \subseteq gaps /\ gap_count' = Cardinality(gaps')
    BY <1>18 DEF SyncPrune
  <2>2. Cardinality(gaps') \in Nat
    BY <2>1, FS_Subset, FS_CardinalityType
  <2>3. \A u \in Tasks : pc'[u] \notin {"collapse_cas", "collapse_count"}
    BY <1>18 DEF SyncPrune, Acquire, Goto
  <2>. QED BY <2>1, <2>2, <2>3
<1>19. CASE SyncMax(t)
  BY <1>19 DEF SyncMax, Goto, locals, guards, ghosts
<1>20. CASE SyncNotAhead(t)
  BY <1>20 DEF SyncNotAhead, Unlock, Goto, atomics, locals, guards, ghosts
<1>21. CASE SyncLoad(t)
  BY <1>21 DEF SyncLoad, Goto, atomics, guards, ghosts
<1>22. CASE SyncCas(t)
  BY <1>22 DEF SyncCas, Unlock, Goto, locals, guards, ghosts
<1>23. CASE SyncCasFails(t)
  BY <1>23 DEF SyncCasFails, Goto, atomics, locals, guards, ghosts
<1>24. CASE \/ \E c \in ChainNonces : recover_stalled(t, c)
          \/ RecoverNotBehind(t)
          \/ RecoverLoad(t)
          \/ RecoverCas(t)
          \/ RecoverCasFails(t)
          \/ RecoverClear(t)
          \/ RecoverStore(t)
  BY <1>24, FS_EmptySet DEF recover_stalled, RecoverNotBehind, RecoverLoad,
     RecoverCas, RecoverCasFails, RecoverClear, RecoverStore, RecoveryProven,
     Goto, atomics, guards, ghosts, locals, Acquire, Unlock, LiveTasks,
     Reserving
<1>. QED BY <1>1, <1>2, <1>3, <1>4, <1>5, <1>6, <1>7, <1>8, <1>9, <1>10,
     <1>11, <1>12, <1>13, <1>14, <1>15, <1>16, <1>17, <1>18, <1>19, <1>20,
     <1>21, <1>22, <1>23, <1>24
     DEF Call, LockStep, RunStep

\* No step gives a nonce a second holder.
LEMMA ExclusiveNoncesStep ==
  ASSUME IInv, NEW t \in Tasks, Apart(t), Call(t) \/ LockStep(t) \/ RunStep(t)
  PROVE  ExclusiveNonces'
<1>. USE NoTaskIsNoTask DEF IInv, TypeOK, LockInv, GuardInv, StepInv,
      WindowInv, ExclusiveNonces, Points, LiveStates, LockedPoints,
      RecyclePoints, ReservePoints, Recovering, LiveTasks, Reserving,
      SyncPoints, CollapsePoints, Reusable, LockingPoints, RecoverPoints
<1>1. CASE mark_broadcasting(t)
  BY <1>1 DEF mark_broadcasting, GuardIs, atomics, locals, ghosts
<1>2. CASE commit(t)
  BY <1>2 DEF commit, GuardIs, decrement_pending, locals
<1>3. CASE DropBroadcasting(t)
  BY <1>3 DEF DropBroadcasting, GuardIs, atomics, locals
<1>4. CASE release(t)
  BY <1>4 DEF release, GuardIs, GiveBack, decrement_pending, Goto, locals,
     ghosts
<1>5. CASE release_rejected_broadcast(t)
  BY <1>5 DEF release_rejected_broadcast, GuardIs, GiveBack,
     decrement_pending, Goto, locals, ghosts
<1>6. CASE reset_pending(t)
  BY <1>6 DEF reset_pending, locals, guards, ghosts
<1>7. CASE Reserve(t)
  BY <1>7 DEF Reserve, Goto, locals, guards, ghosts
<1>8. CASE ReserveCheck(t)
  BY <1>8 DEF ReserveCheck, Goto, atomics, locals, guards, ghosts
<1>9. CASE ReservePop(t)
  BY <1>9 DEF ReservePop, HandOut, Goto, locals, ghosts
<1>10. CASE ReservePopEmpty(t)
  BY <1>10 DEF ReservePopEmpty, Goto, atomics, locals, guards, ghosts
<1>11. CASE ReserveAdd(t)
  BY <1>11 DEF ReserveAdd, HandOut, Goto, locals, ghosts
<1>12. CASE RecycleStale(t)
  BY <1>12 DEF RecycleStale, Forget, Goto, atomics, locals, ghosts
<1>13. CASE RecycleLock(t)
  BY <1>13 DEF RecycleLock, Acquire, Goto, atomics, locals, guards, ghosts
<1>14. CASE RecycleTop(t)
  BY <1>14 DEF RecycleTop, Forget, Goto, locals, ghosts
<1>15. CASE RecycleNotTop(t)
  BY <1>15 DEF RecycleNotTop, Goto, atomics, locals, guards, ghosts
<1>16. CASE RecycleInsert(t)
  BY <1>16 DEF RecycleInsert, Forget, Unlock, Goto, locals, ghosts
<1>17. CASE CollapseTake(t)
  BY <1>17 DEF CollapseTake, TopIsGap, Goto, atomics, guards, ghosts
<1>18. CASE CollapseDone(t)
  BY <1>18 DEF CollapseDone, TopIsGap, Unlock, Goto, atomics, locals, guards,
     ghosts
<1>19. CASE CollapseCas(t)
  BY <1>19 DEF CollapseCas, Goto, locals, guards, ghosts
<1>20. CASE CollapseCasFails(t)
  BY <1>20 DEF CollapseCasFails, Unlock, Goto, atomics, locals, guards, ghosts
<1>21. CASE CollapseCount(t)
  BY <1>21 DEF CollapseCount, Goto, locals, guards, ghosts
<1>22. CASE \E c \in ChainNonces : sync_forward(t, c)
  BY <1>22 DEF sync_forward, Goto, atomics, guards, ghosts
<1>23. CASE SyncPrune(t)
  BY <1>23 DEF SyncPrune, Acquire, Goto, locals, guards, ghosts
<1>24. CASE SyncMax(t)
  BY <1>24 DEF SyncMax, Goto, locals, guards, ghosts
<1>25. CASE SyncNotAhead(t)
  BY <1>25 DEF SyncNotAhead, Unlock, Goto, atomics, locals, guards, ghosts
<1>26. CASE SyncLoad(t)
  BY <1>26 DEF SyncLoad, Goto, atomics, guards, ghosts
<1>27. CASE SyncCas(t)
  BY <1>27 DEF SyncCas, Unlock, Goto, locals, guards, ghosts
<1>28. CASE SyncCasFails(t)
  BY <1>28 DEF SyncCasFails, Goto, atomics, locals, guards, ghosts
<1>29. CASE \E c \in ChainNonces : recover_stalled(t, c)
  BY <1>29 DEF recover_stalled, RecoveryProven, Goto, atomics, guards, ghosts
<1>30. CASE RecoverNotBehind(t)
  BY <1>30 DEF RecoverNotBehind, Goto, atomics, locals, guards, ghosts
<1>31. CASE RecoverLoad(t)
  BY <1>31 DEF RecoverLoad, Acquire, Goto, atomics, guards, ghosts
<1>32. CASE RecoverCas(t)
  BY <1>32 DEF RecoverCas, Goto, locals, guards
<1>33. CASE RecoverCasFails(t)
  BY <1>33 DEF RecoverCasFails, Unlock, Goto, atomics, locals, guards, ghosts
<1>34. CASE RecoverClear(t)
  BY <1>34 DEF RecoverClear, Goto, locals, guards, ghosts
<1>35. CASE RecoverStore(t)
  BY <1>35 DEF RecoverStore, Unlock, Goto, locals, guards, ghosts
<1>. QED BY <1>1, <1>2, <1>3, <1>4, <1>5, <1>6, <1>7, <1>8, <1>9, <1>10,
     <1>11, <1>12, <1>13, <1>14, <1>15, <1>16, <1>17, <1>18, <1>19, <1>20,
     <1>21, <1>22, <1>23, <1>24, <1>25, <1>26, <1>27, <1>28, <1>29, <1>30,
     <1>31, <1>32, <1>33, <1>34, <1>35
     DEF Call, LockStep, RunStep

\* No step loses a nonce.
LEMMA NothingStrandedStep ==
  ASSUME IInv, NEW t \in Tasks, Apart(t), Call(t) \/ LockStep(t) \/ RunStep(t)
  PROVE  NothingStranded'
<1>. USE NoTaskIsNoTask DEF IInv, TypeOK, LockInv, GuardInv, StepInv,
      ExclusiveNonces, NothingStranded, Points, LiveStates, LockedPoints,
      RecyclePoints, ReservePoints, Recovering, LiveTasks, Reserving,
      SyncPoints, Reusable, Reserved, Passed, LockingPoints, RecoverPoints,
      CollapsePoints
<1>1. CASE \/ mark_broadcasting(t)
          \/ commit(t)
          \/ DropBroadcasting(t)
          \/ release(t)
          \/ release_rejected_broadcast(t)
          \/ reset_pending(t)
  BY <1>1 DEF mark_broadcasting, commit, DropBroadcasting, release,
     release_rejected_broadcast, reset_pending, GuardIs, atomics, locals,
     ghosts, decrement_pending, GiveBack, guards, Goto
<1>2. CASE Reserve(t)
  BY <1>2 DEF Reserve, Goto, locals, guards, ghosts
<1>3. CASE ReserveCheck(t)
  BY <1>3 DEF ReserveCheck, Goto, atomics, locals, guards, ghosts
<1>4. CASE ReservePop(t)
  BY <1>4 DEF ReservePop, HandOut, Goto, locals, ghosts
<1>5. CASE ReservePopEmpty(t)
  BY <1>5 DEF ReservePopEmpty, Goto, atomics, locals, guards, ghosts
<1>6. CASE ReserveAdd(t)
  BY <1>6 DEF ReserveAdd, HandOut, Goto, locals, ghosts
<1>7. CASE \/ RecycleStale(t)
          \/ RecycleLock(t)
          \/ RecycleTop(t)
          \/ RecycleNotTop(t)
          \/ RecycleInsert(t)
  BY <1>7 DEF RecycleStale, RecycleLock, RecycleTop, RecycleNotTop,
     RecycleInsert, Forget, Goto, atomics, locals, ghosts, Acquire, guards,
     Unlock
<1>8. CASE \/ CollapseTake(t)
          \/ CollapseDone(t)
          \/ CollapseCas(t)
          \/ CollapseCasFails(t)
          \/ CollapseCount(t)
  BY <1>8 DEF CollapseTake, CollapseDone, CollapseCas, CollapseCasFails,
     CollapseCount, TopIsGap, Goto, atomics, guards, ghosts, Unlock, locals
<1>9. CASE \/ \E c \in ChainNonces : sync_forward(t, c)
          \/ SyncPrune(t)
          \/ SyncMax(t)
          \/ SyncNotAhead(t)
          \/ SyncLoad(t)
          \/ SyncCas(t)
          \/ SyncCasFails(t)
  BY <1>9 DEF sync_forward, SyncPrune, SyncMax, SyncNotAhead, SyncLoad,
     SyncCas, SyncCasFails, Goto, atomics, guards, ghosts, Acquire, locals,
     Unlock
<1>10. CASE \/ \E c \in ChainNonces : recover_stalled(t, c)
          \/ RecoverNotBehind(t)
          \/ RecoverLoad(t)
          \/ RecoverCas(t)
          \/ RecoverCasFails(t)
          \/ RecoverClear(t)
          \/ RecoverStore(t)
  BY <1>10 DEF recover_stalled, RecoverNotBehind, RecoverLoad, RecoverCas,
     RecoverCasFails, RecoverClear, RecoverStore, RecoveryProven, Goto,
     atomics, guards, ghosts, locals, Acquire, Unlock
<1>. QED BY <1>1, <1>2, <1>3, <1>4, <1>5, <1>6, <1>7, <1>8, <1>9, <1>10
     DEF Call, LockStep, RunStep

\* The invariant holds initially: nothing is reserved, the mutex is free.
LEMMA InitIInv == Init => IInv
<1>. SUFFICES ASSUME Init PROVE IInv
  OBVIOUS
<1>. USE InitNonceIsNat, NoTaskIsNoTask
     DEF Init, LiveTasks, LiveStates, Points, ReservePoints, LockingPoints,
         LockedPoints, SyncPoints, RecoverPoints, RecyclePoints, CollapsePoints
<1>1. TypeOK
  BY FS_EmptySet DEF TypeOK
<1>2. LockInv /\ GuardInv /\ StepInv
  BY DEF LockInv, GuardInv, StepInv, Reserving, Recovering
<1>3. WindowInv /\ ExclusiveNonces /\ NothingStranded
  BY DEF WindowInv, ExclusiveNonces, NothingStranded
<1>4. CountInv
  BY FS_EmptySet DEF CountInv
<1>. QED BY <1>1, <1>2, <1>3, <1>4 DEF IInv

\* Stuttering changes nothing the invariant mentions.
LEMMA StutterIInv == ASSUME IInv, UNCHANGED vars PROVE IInv'
<1>. USE DEF vars, atomics, locals, guards, ghosts, LiveTasks, Reserved, Reusable
<1>1. (TypeOK /\ LockInv /\ GuardInv)'
  BY DEF IInv, TypeOK, LockInv, GuardInv, Reserving, Recovering
<1>2. (StepInv /\ WindowInv /\ CountInv)'
  BY DEF IInv, StepInv, WindowInv, CountInv
<1>3. (ExclusiveNonces /\ NothingStranded)'
  BY DEF IInv, ExclusiveNonces, NothingStranded, Passed
<1>. QED BY <1>1, <1>2, <1>3 DEF IInv

LEMMA IInvStep ==
  ASSUME IInv, NEW t \in Tasks, Apart(t), Call(t) \/ LockStep(t) \/ RunStep(t)
  PROVE  IInv'
BY TypeOKStep, LockInvStep, GuardInvStep, StepInvStep, WindowInvStep,
   CountInvStep, ExclusiveNoncesStep, NothingStrandedStep DEF IInv

\* The inductive invariant: whatever the interleaving of the tasks.
THEOREM Invariance == ASSUME Quiescent PROVE Spec => []IInv
<1>1. IInv /\ [Next]_vars => IInv'
  <2>. SUFFICES ASSUME IInv, [Next]_vars PROVE IInv'
    OBVIOUS
  <2>1. ASSUME NEW t \in Tasks, Call(t) \/ LockStep(t) \/ RunStep(t)
        PROVE  IInv'
    <3>1. Apart(t)
      BY DEF Apart, Reserve
    <3>. QED BY <2>1, <3>1, IInvStep
  <2>2. CASE UNCHANGED vars
    BY <2>2, StutterIInv
  <2>. QED BY <2>1, <2>2 DEF Next
<1>. QED BY InitIInv, <1>1, PTL DEF Spec

-----------------------------------------------------------------------------
\* No nonce ever has two holders, and none that is held or spent can be handed
\* out again.
THEOREM NoncesAreExclusive == ASSUME Quiescent PROVE Spec => []ExclusiveNonces
<1>1. IInv => ExclusiveNonces
  BY DEF IInv
<1>. QED BY <1>1, Invariance, PTL

\* No nonce between the chain's and current is ever lost.
THEOREM NoNonceIsStranded == ASSUME Quiescent PROVE Spec => []NothingStranded
<1>1. IInv => NothingStranded
  BY DEF IInv
<1>. QED BY <1>1, Invariance, PTL

\* The tracker is of the types its fields declare; gap_count never wraps.
THEOREM TypeCorrect == ASSUME Quiescent PROVE Spec => []TypeOK
<1>1. IInv => TypeOK
  BY DEF IInv
<1>. QED BY <1>1, Invariance, PTL

\* With the mutex free, the gaps are counted right, lie in the window and leave
\* out the topmost nonce, and current has not fallen below the chain nonce.
THEOREM TrackerStaysTidy == ASSUME Quiescent PROVE Spec => []TrackerIsTidy
<1>1. IInv => TrackerIsTidy
  <2>. SUFFICES ASSUME IInv PROVE GapsTidy /\ GapCountExact /\ NeverBelowSynced
    BY DEF TrackerIsTidy
  <2>1. \A g \in gaps : synced_nonce <= g
    BY DEF IInv, WindowInv
  <2>2. ASSUME lock = NoTask
        PROVE  /\ \A g \in gaps : g + 1 < current
               /\ gap_count = Cardinality(gaps)
               /\ synced_nonce <= current
    <3>1. \A t \in Tasks : pc[t] \notin LockedPoints
      BY <2>2, NoTaskIsNoTask DEF IInv, LockInv
    <3>. QED BY <3>1, FS_CardinalityType
         DEF IInv, TypeOK, WindowInv, CountInv, LockedPoints, SyncPoints,
             RecoverPoints, CollapsePoints
  <2>. QED BY <2>1, <2>2 DEF GapsTidy, GapCountExact, NeverBelowSynced
<1>. QED BY <1>1, Invariance, PTL

\* current goes down by one, over a nonce nobody holds and nobody spent, or to
\* the nonce of a recovery.
THEOREM RewindsAreFree == ASSUME Quiescent PROVE Spec => RewindsOnlyFreeNonces
<1>1. ASSUME IInv, [Next]_vars, current' < current
      PROVE  \/ current' = current - 1 /\ ~Reserved(current)' /\ current' \notin spent'
             \/ \E t \in Tasks : pc[t] = "recover_cas" /\ current' = chain[t]
  <2>1. PICK t \in Tasks : RecycleTop(t) \/ CollapseCas(t) \/ RecoverCas(t)
    <3>1. PICK t \in Tasks : Call(t) \/ LockStep(t) \/ RunStep(t)
      BY <1>1 DEF Next, vars, atomics, IInv, TypeOK
    <3>2. CASE Call(t)
      BY <1>1, <3>2
         DEF Call, Reserve, mark_broadcasting, commit, release, GiveBack,
             release_rejected_broadcast, DropBroadcasting, reset_pending,
             sync_forward, recover_stalled, atomics, IInv, TypeOK
    <3>3. CASE LockStep(t)
      BY <1>1, <3>3
         DEF LockStep, ReservePop, ReservePopEmpty, RecycleStale, RecycleLock,
             SyncPrune, RecoverNotBehind, RecoverLoad, atomics, IInv, TypeOK
    <3>4. CASE RunStep(t)
      BY <1>1, <3>4
         DEF RunStep, ReserveCheck, ReserveAdd, RecycleNotTop, RecycleInsert,
             CollapseTake, CollapseDone, CollapseCasFails, CollapseCount,
             SyncMax, SyncNotAhead, SyncLoad, SyncCas, SyncCasFails,
             RecoverCasFails, RecoverClear, RecoverStore, atomics, IInv,
             TypeOK, StepInv
    <3>. QED BY <3>1, <3>2, <3>3, <3>4
  <2>2. CASE RecycleTop(t)
    <3>1. t \in LiveTasks /\ LiveTasks' = LiveTasks \ {t} /\ nonce' = nonce
      BY <1>1, <2>2 DEF RecycleTop, Forget, IInv, TypeOK, GuardInv, LiveTasks,
         LiveStates, RecyclePoints
    <3>2. current = nonce[t] + 1 /\ current' = nonce[t] /\ spent' = spent
      BY <2>2 DEF RecycleTop, ghosts
    <3>. QED BY <1>1, <3>1, <3>2 DEF IInv, TypeOK, ExclusiveNonces, Reserved,
         LiveTasks
  <2>3. CASE CollapseCas(t)
    <3>1. current' = seen[t] - 1 /\ current = seen[t] /\ Reusable(seen[t] - 1)
      BY <1>1, <2>3 DEF CollapseCas, Reusable, IInv, TypeOK
    <3>2. LiveTasks' = LiveTasks /\ nonce' = nonce /\ spent' = spent
      BY <2>3 DEF CollapseCas, guards, ghosts, LiveTasks
    <3>. QED BY <1>1, <3>1, <3>2 DEF IInv, ExclusiveNonces, Reserved
  <2>4. CASE RecoverCas(t)
    BY <2>4 DEF RecoverCas
  <2>. QED BY <2>1, <2>2, <2>3, <2>4
<1>2. IInv /\ [Next]_vars =>
        [current' < current =>
           \/ current' = current - 1 /\ ~Reserved(current)' /\ current' \notin spent'
           \/ \E t \in Tasks : pc[t] = "recover_cas" /\ current' = chain[t]]_vars
  BY <1>1
<1>. QED BY <1>2, Invariance, PTL DEF Spec, RewindsOnlyFreeNonces

-----------------------------------------------------------------------------
(* Refinement *)

\* A guard that gives its nonce up.
LEMMA Yielding ==
  ASSUME TypeOK, ExclusiveNonces, NEW t \in LiveTasks,
         guard' = [guard EXCEPT ![t] = "None"], nonce' = nonce
  PROVE  /\ Owned[t] = {nonce[t]}
         /\ Owned' = [Owned EXCEPT ![t] = {}]
         /\ \A n : Reserved(n)' <=> Reserved(n) /\ n # nonce[t]
<1>1. LiveTasks' = LiveTasks \ {t} /\ t \in Tasks
  BY DEF TypeOK, LiveTasks, LiveStates
<1>2. \A n : Reserved(n)' <=> Reserved(n) /\ n # nonce[t]
  BY <1>1 DEF ExclusiveNonces, Reserved
<1>. QED BY <1>1, <1>2 DEF Owned

\* A guard that is given nonce n.
LEMMA Taking ==
  ASSUME TypeOK, ExclusiveNonces, NEW t \in Tasks, guard[t] = "None",
         NEW n, HandOut(t, n), n \notin Gone, ~Reserved(n)
  PROVE  /\ Owned[t] = {} /\ Owned' = [Owned EXCEPT ![t] = {n}]
         /\ Owned'[t] = {n}
         /\ Pool!Free(n)
         /\ \A m : Reserved(m)' <=> Reserved(m) \/ m = n
<1>1. LiveTasks' = LiveTasks \cup {t} /\ t \notin LiveTasks
  BY DEF TypeOK, LiveTasks, LiveStates, HandOut
<1>2. nonce' = [nonce EXCEPT ![t] = n]
  BY DEF HandOut
<1>3. \A m : Reserved(m)' <=> Reserved(m) \/ m = n
  BY <1>1, <1>2 DEF TypeOK, Reserved, LiveTasks
<1>4. \A u \in Tasks : Owned'[u] = IF u = t THEN {n} ELSE Owned[u]
  BY <1>1, <1>2 DEF TypeOK, Owned, LiveTasks
<1>6. Owned[t] = {} /\ Owned' = [Owned EXCEPT ![t] = {n}] /\ Owned'[t] = {n}
  BY <1>1, <1>4 DEF Owned
<1>5. Pool!Free(n)
  BY DEF Pool!Free, Pool!Owners, Owned, Reserved, LiveTasks
<1>. QED BY <1>3, <1>5, <1>6

\* A reservation takes a free nonce: the lowest gap, or current.
LEMMA StepTakes ==
  ASSUME IInv, NEW t \in Tasks,
         \/ ReservePop(t)
           \/ ReserveAdd(t)
  PROVE  Pool!Take(t)
<1>. USE NoTaskIsNoTask DEF IInv
<1>1. CASE ReservePop(t)
  <2>1. PICK n \in gaps : gaps' = gaps \ {n} /\ HandOut(t, n)
    BY <1>1 DEF ReservePop
  <2>2. guard[t] = "None" /\ current' = current
    BY <1>1 DEF ReservePop, GuardInv, ReservePoints
  <2>3. Reusable(n) /\ ~Reserved(n)
    BY <2>1 DEF Reusable, Reserved, ExclusiveNonces
  <2>4. n \notin Gone
    BY <2>3 DEF Gone
  <2>5. \A m : Reusable(m)' <=> Reusable(m) /\ m # n
    <3>1. \A u \in Tasks : pc[u] # "collapse_cas" /\ pc'[u] # "collapse_cas"
      BY <1>1 DEF ReservePop, Goto, LockInv, LockedPoints, CollapsePoints, TypeOK
    <3>. QED BY <2>1, <3>1 DEF Reusable
  <2>6. \A m : Reserved(m)' <=> Reserved(m) \/ m = n
    BY <2>1, <2>2, <2>3, <2>4, Taking
  <2>7. Gone' = Gone
    BY <2>2, <2>3, <2>5, <2>6 DEF Gone
  <2>. QED BY <2>1, <2>2, <2>3, <2>4, <2>7, Taking DEF Pool!Take
<1>2. CASE ReserveAdd(t)
  <2>1. HandOut(t, current) /\ current' = current + 1 /\ gaps' = gaps
    BY <1>2 DEF ReserveAdd
  <2>2. guard[t] = "None" /\ current \in Nat
    BY <1>2 DEF ReserveAdd, GuardInv, ReservePoints, TypeOK
  <2>3. ~Reserved(current)
    BY <2>2 DEF Reserved, ExclusiveNonces, TypeOK, LiveTasks
  <2>4. current \notin Gone
    BY <2>2 DEF Gone
  <2>5. \A m : Reusable(m)' <=> Reusable(m)
    BY <1>2 DEF ReserveAdd, Goto, locals, Reusable, TypeOK
  <2>6. \A m : Reserved(m)' <=> Reserved(m) \/ m = current
    BY <2>1, <2>2, <2>3, <2>4, Taking
  <2>7. \A m : m \in Gone' <=> m \in Gone
    BY <2>1, <2>2, <2>3, <2>5, <2>6 DEF Gone
  <2>8. Gone' = Gone
    BY <2>7 DEF Gone
  <2>. QED BY <2>1, <2>2, <2>3, <2>4, <2>8, Taking DEF Pool!Take
<1>. QED BY <1>1, <1>2

\* A nonce leaves its guard: spent, dropped as stale, or free again.
LEMMA StepYields ==
  ASSUME IInv, NEW t \in Tasks,
         \/ commit(t)
           \/ DropBroadcasting(t)
           \/ RecycleStale(t)
           \/ RecycleTop(t)
           \/ RecycleInsert(t)
  PROVE  Pool!Yield(t)
<1>. USE NoTaskIsNoTask DEF IInv
<1>1. CASE commit(t)
  <2>1. t \in LiveTasks /\ guard' = [guard EXCEPT ![t] = "None"] /\ nonce' = nonce
    BY <1>1 DEF commit, GuardIs, LiveTasks, LiveStates
  <2>2. \A n : Reusable(n)' <=> Reusable(n)
    BY <1>1 DEF commit, Reusable, locals
  <2>3. nonce[t] \in 0 .. current - 1 /\ ~Reusable(nonce[t]) /\ current' = current
    BY <1>1, <2>1 DEF commit, ExclusiveNonces, TypeOK, LiveTasks
  <2>4. Gone' = Gone \cup {nonce[t]}
    BY <2>1, <2>2, <2>3, Yielding DEF Gone
  <2>. QED BY <2>1, <2>4, Yielding DEF Pool!Yield
<1>2. CASE DropBroadcasting(t)
  <2>1. t \in LiveTasks /\ guard' = [guard EXCEPT ![t] = "None"] /\ nonce' = nonce
    BY <1>2 DEF DropBroadcasting, GuardIs, LiveTasks, LiveStates
  <2>2. \A n : Reusable(n)' <=> Reusable(n)
    BY <1>2 DEF DropBroadcasting, Reusable, atomics, locals
  <2>3. nonce[t] \in 0 .. current - 1 /\ ~Reusable(nonce[t]) /\ current' = current
    BY <1>2, <2>1 DEF DropBroadcasting, ExclusiveNonces, TypeOK, LiveTasks, atomics
  <2>4. Gone' = Gone \cup {nonce[t]}
    BY <2>1, <2>2, <2>3, Yielding DEF Gone
  <2>. QED BY <2>1, <2>4, Yielding DEF Pool!Yield
<1>3. CASE RecycleStale(t)
  <2>1. t \in LiveTasks /\ guard' = [guard EXCEPT ![t] = "None"] /\ nonce' = nonce
    BY <1>3 DEF RecycleStale, Forget, GuardInv, LiveTasks, LiveStates
  <2>2. \A n : Reusable(n)' <=> Reusable(n)
    BY <1>3 DEF RecycleStale, Goto, Reusable, locals, TypeOK
  <2>3. nonce[t] \in 0 .. current - 1 /\ ~Reusable(nonce[t]) /\ current' = current
    BY <1>3, <2>1 DEF RecycleStale, ExclusiveNonces, TypeOK, LiveTasks, atomics
  <2>4. Gone' = Gone \cup {nonce[t]}
    BY <2>1, <2>2, <2>3, Yielding DEF Gone
  <2>. QED BY <2>1, <2>4, Yielding DEF Pool!Yield
<1>4. CASE RecycleTop(t)
  <2>1. t \in LiveTasks /\ guard' = [guard EXCEPT ![t] = "None"] /\ nonce' = nonce
    BY <1>4 DEF RecycleTop, Forget, GuardInv, LiveTasks, LiveStates, RecyclePoints
  <2>2. \A n : Reusable(n)' <=> Reusable(n)
    BY <1>4 DEF RecycleTop, Goto, Reusable, locals, TypeOK
  <2>3. current = nonce[t] + 1 /\ current' = nonce[t] /\ nonce[t] \in Nat
    BY <1>4, <2>1 DEF RecycleTop, TypeOK
  <2>4. \A n : Reserved(n)' <=> Reserved(n) /\ n # nonce[t]
    BY <2>1, Yielding
  <2>5. Reserved(nonce[t])
    BY <2>1 DEF Reserved
  <2>6. \A n : n \in Gone' <=> n \in Gone
    BY <2>2, <2>3, <2>4, <2>5 DEF Gone
  <2>7. Gone' = Gone
    BY <2>6 DEF Gone
  <2>. QED BY <2>1, <2>7, Yielding DEF Pool!Yield
<1>5. CASE RecycleInsert(t)
  <2>1. t \in LiveTasks /\ guard' = [guard EXCEPT ![t] = "None"] /\ nonce' = nonce
    BY <1>5 DEF RecycleInsert, Forget, GuardInv, LiveTasks, LiveStates, RecyclePoints
  <2>2. nonce[t] < current /\ nonce[t] \notin gaps
    BY <2>1 DEF ExclusiveNonces, Reusable
  <2>3. \A n : Reusable(n)' <=> Reusable(n) \/ n = nonce[t]
    BY <1>5, <2>2 DEF RecycleInsert, Goto, Reusable, locals, TypeOK
  <2>4. Gone' = Gone
    BY <1>5, <2>1, <2>3, Yielding DEF Gone, Reserved, RecycleInsert
  <2>. QED BY <2>1, <2>4, Yielding DEF Pool!Yield
<1>. QED BY <1>1, <1>2, <1>3, <1>4, <1>5

\* A sync or a recovery drops nonces the chain has passed.
LEMMA StepPasses ==
  ASSUME IInv, NEW t \in Tasks,
         \/ SyncPrune(t)
           \/ SyncCas(t)
           \/ RecoverClear(t)
  PROVE  Pool!Pass
<1>. USE NoTaskIsNoTask DEF IInv, Owned, Gone, TypeOK, LockInv, GuardInv,
      StepInv, ExclusiveNonces, LiveTasks, Reusable, Reserved, Points,
      LiveStates, LockedPoints, RecyclePoints, ReservePoints, Recovering,
      Reserving, SyncPoints, CollapsePoints, LockingPoints, RecoverPoints
<1>1. CASE SyncPrune(t)
  BY <1>1 DEF SyncPrune, Acquire, Goto, locals, guards, ghosts, Pool!Pass,
     Pool!Owners
<1>2. CASE SyncCas(t)
  BY <1>2 DEF SyncCas, Unlock, Goto, locals, guards, ghosts, Pool!Pass,
     Pool!Owners
<1>3. CASE RecoverClear(t)
  BY <1>3 DEF RecoverClear, Goto, locals, guards, ghosts, Pool!Pass,
     Pool!Owners
<1>. QED BY <1>1, <1>2, <1>3

\* The recovery's CAS frees what was gone, while no guard exists.
LEMMA StepRewinds ==
  ASSUME IInv, NEW t \in Tasks,
         RecoverCas(t)
  PROVE  Pool!Rewind
<1>. USE NoTaskIsNoTask DEF IInv, Owned, Gone, TypeOK, LockInv, GuardInv,
      StepInv, ExclusiveNonces, LiveTasks, Reusable, Reserved, Points,
      LiveStates, LockedPoints, RecyclePoints, ReservePoints, Recovering,
      Reserving, SyncPoints, CollapsePoints, LockingPoints, RecoverPoints
<1>1. CASE RecoverCas(t)
  BY <1>1 DEF RecoverCas, Goto, locals, guards, Pool!Rewind
<1>. QED BY <1>1

\* Every step is one of the pool's, or leaves the pool as it is.
LEMMA StepMaps ==
  ASSUME IInv, NEW t \in Tasks, Call(t) \/ LockStep(t) \/ RunStep(t)
  PROVE  Pool!Take(t) \/ Pool!Yield(t) \/ Pool!Pass \/ Pool!Rewind
           \/ UNCHANGED Pool!vars
<1>. USE DEF IInv, TypeOK, Owned, Gone, LiveTasks, LiveStates, Reserved,
      Reusable, Pool!vars
<1>1. CASE ReservePop(t) \/ ReserveAdd(t)
  BY <1>1, StepTakes
<1>2. CASE \/ commit(t) \/ DropBroadcasting(t) \/ RecycleStale(t)
          \/ RecycleTop(t) \/ RecycleInsert(t)
  BY <1>2, StepYields
<1>3. CASE SyncPrune(t) \/ SyncCas(t) \/ RecoverClear(t)
  BY <1>3, StepPasses
<1>4. CASE RecoverCas(t)
  BY <1>4, StepRewinds
<1>5. CASE Reserve(t)
  BY <1>5 DEF Reserve, Recovering, Reserving, Goto, locals, guards, ghosts,
     RecoverPoints, ReservePoints
<1>6. CASE mark_broadcasting(t)
  BY <1>6 DEF mark_broadcasting, GuardIs, atomics, locals, ghosts
<1>7. CASE release(t)
  BY <1>7 DEF release, GuardIs, GiveBack, decrement_pending, Goto, locals,
     ghosts, GuardInv, RecyclePoints
<1>8. CASE release_rejected_broadcast(t)
  BY <1>8 DEF release_rejected_broadcast, GuardIs, GiveBack,
     decrement_pending, Goto, locals, ghosts, GuardInv, RecyclePoints
<1>9. CASE reset_pending(t)
  BY <1>9 DEF reset_pending, locals, guards, ghosts
<1>10. CASE \E c \in ChainNonces : sync_forward(t, c)
  BY <1>10 DEF sync_forward, Goto, atomics, guards, ghosts
<1>11. CASE \E c \in ChainNonces : recover_stalled(t, c)
  BY <1>11 DEF recover_stalled, RecoveryProven, Goto, atomics, guards, ghosts,
     Reserving, ReservePoints
<1>12. CASE ReservePopEmpty(t)
  BY <1>12 DEF ReservePopEmpty, Goto, atomics, locals, guards, ghosts
<1>13. CASE RecycleLock(t)
  BY <1>13 DEF RecycleLock, Acquire, Goto, atomics, locals, guards, ghosts
<1>14. CASE RecoverNotBehind(t)
  BY <1>14 DEF RecoverNotBehind, Goto, atomics, locals, guards, ghosts
<1>15. CASE RecoverLoad(t)
  BY <1>15 DEF RecoverLoad, Acquire, Goto, atomics, guards, ghosts
<1>16. CASE ReserveCheck(t)
  BY <1>16 DEF ReserveCheck, Goto, atomics, locals, guards, ghosts
<1>17. CASE RecycleNotTop(t)
  BY <1>17 DEF RecycleNotTop, Goto, atomics, locals, guards, ghosts
<1>18. CASE CollapseTake(t)
  BY <1>18 DEF CollapseTake, TopIsGap, Goto, atomics, guards, ghosts, LockInv,
     StepInv, Points, LockedPoints, SyncPoints, RecoverPoints, RecyclePoints,
     CollapsePoints
<1>19. CASE CollapseDone(t)
  BY <1>19 DEF CollapseDone, TopIsGap, Unlock, Goto, atomics, locals, guards,
     ghosts, LockInv, StepInv, Points, LockedPoints, SyncPoints,
     RecoverPoints, RecyclePoints, CollapsePoints
<1>20. CASE CollapseCas(t)
  BY <1>20 DEF CollapseCas, Goto, locals, guards, ghosts, LockInv, StepInv,
     Points, LockedPoints, SyncPoints, RecoverPoints, RecyclePoints,
     CollapsePoints
<1>21. CASE CollapseCasFails(t)
  BY <1>21 DEF CollapseCasFails, Unlock, Goto, atomics, locals, guards,
     ghosts, LockInv, StepInv, Points, LockedPoints, SyncPoints,
     RecoverPoints, RecyclePoints, CollapsePoints
<1>22. CASE CollapseCount(t)
  BY <1>22 DEF CollapseCount, Goto, locals, guards, ghosts, LockInv, StepInv,
     Points, LockedPoints, SyncPoints, RecoverPoints, RecyclePoints,
     CollapsePoints
<1>23. CASE SyncMax(t)
  BY <1>23 DEF SyncMax, Goto, locals, guards, ghosts
<1>24. CASE SyncNotAhead(t)
  BY <1>24 DEF SyncNotAhead, Unlock, Goto, atomics, locals, guards, ghosts
<1>25. CASE SyncLoad(t)
  BY <1>25 DEF SyncLoad, Goto, atomics, guards, ghosts
<1>26. CASE SyncCasFails(t)
  BY <1>26 DEF SyncCasFails, Goto, atomics, locals, guards, ghosts
<1>27. CASE RecoverCasFails(t)
  BY <1>27 DEF RecoverCasFails, Unlock, Goto, atomics, locals, guards, ghosts
<1>28. CASE RecoverStore(t)
  BY <1>28 DEF RecoverStore, Unlock, Goto, locals, guards, ghosts
<1>. QED BY <1>1, <1>2, <1>3, <1>4, <1>5, <1>6, <1>7, <1>8, <1>9, <1>10,
     <1>11, <1>12, <1>13, <1>14, <1>15, <1>16, <1>17, <1>18, <1>19, <1>20,
     <1>21, <1>22, <1>23, <1>24, <1>25, <1>26, <1>27, <1>28
     DEF Call, LockStep, RunStep

\* The lock-free tracker implements the atomic pool: its steps take, yield, pass
\* or rewind nonces of the pool, or leave it as it is.
THEOREM TrackerImplementsPool == ASSUME Quiescent PROVE Spec => ImplementsPool
<1>1. Init => Pool!Init
  BY InitNonceIsNat
     DEF Init, Pool!Init, Owned, Gone, LiveTasks, LiveStates, Reserved, Reusable
<1>2. IInv /\ [Next]_vars => [Pool!Next]_Pool!vars
  <2>. SUFFICES ASSUME IInv, [Next]_vars PROVE [Pool!Next]_Pool!vars
    OBVIOUS
  <2>1. ASSUME NEW t \in Tasks, Call(t) \/ LockStep(t) \/ RunStep(t)
        PROVE  Pool!Next \/ UNCHANGED Pool!vars
    BY <2>1, StepMaps DEF Pool!Next
  <2>2. CASE UNCHANGED vars
    BY <2>2 DEF vars, atomics, locals, guards, ghosts, Pool!vars, Owned, Gone,
       LiveTasks, Reserved, Reusable
  <2>. QED BY <2>1, <2>2 DEF Next
<1>. QED BY <1>1, <1>2, Invariance, PTL DEF Spec, ImplementsPool, Pool!Spec

-----------------------------------------------------------------------------
(* The informational count, with or without Quiescent *)

Unconfirmed == {t \in LiveTasks : guard[t] # "Released"}

\* The inductive invariant of pending_count: a guard is counted from the
\* fetch_add of its reserve() to its commit or release, and at no other time.
PendingInv ==
  /\ pc \in [Tasks -> Points] /\ guard \in [Tasks -> {"None"} \cup LiveStates]
  /\ pending_count \in Nat /\ leaked \in Nat
  /\ \A t \in Tasks :
       /\ pc[t] \in ReservePoints => guard[t] = "None"
       /\ pc[t] \in RecyclePoints \cup {"recycle_lock"} => guard[t] = "Released"
  /\ IsFiniteSet(Unconfirmed) /\ IsFiniteSet(Reserving)
  /\ PendingNeverOvercounts

\* The steps that count, and those that do not.
LEMMA StepsThatCount ==
  ASSUME PendingInv, NEW t \in Tasks, Call(t) \/ LockStep(t) \/ RunStep(t)
  PROVE  /\ pc' \in [Tasks -> Points]
         /\ guard' \in [Tasks -> {"None"} \cup LiveStates]
         /\ \A u \in Tasks :
              /\ pc'[u] \in ReservePoints => guard'[u] = "None"
              /\ pc'[u] \in RecyclePoints \cup {"recycle_lock"} => guard'[u] = "Released"
         /\ \/ /\ Unconfirmed' = Unconfirmed /\ Reserving' = Reserving
               /\ pending_count' \in {0, pending_count} /\ leaked' = leaked
            \/ /\ t \notin Reserving /\ Reserving' = Reserving \cup {t}
               /\ Unconfirmed' = Unconfirmed
               /\ pending_count' = pending_count + 1 /\ leaked' = leaked
            \/ /\ t \in Reserving /\ Reserving' = Reserving \ {t}
               /\ t \notin Unconfirmed /\ Unconfirmed' = Unconfirmed \cup {t}
               /\ pending_count' = pending_count /\ leaked' = leaked
            \/ /\ t \in Unconfirmed /\ Unconfirmed' = Unconfirmed \ {t}
               /\ Reserving' = Reserving
               /\ \/ decrement_pending /\ leaked' = leaked
                  \/ pending_count' = pending_count /\ leaked' = leaked + 1
<1> USE DEF PendingInv, Unconfirmed, LiveTasks, LiveStates, Reserving, Points,
      ReservePoints, LockingPoints, LockedPoints, SyncPoints, RecoverPoints,
      RecyclePoints, CollapsePoints, Goto
<1>1. CASE Reserve(t)
  BY <1>1 DEF Reserve, guards, ghosts
<1>2. CASE ReservePop(t) \/ ReserveAdd(t)
  BY <1>2 DEF ReservePop, ReserveAdd, HandOut, ghosts
<1>3. CASE commit(t)
  BY <1>3 DEF commit, GuardIs
<1>4. CASE release(t) \/ release_rejected_broadcast(t)
  BY <1>4 DEF release, release_rejected_broadcast, GuardIs, GiveBack, ghosts
<1>5. CASE DropBroadcasting(t)
  BY <1>5 DEF DropBroadcasting, GuardIs, atomics
<1>6. CASE mark_broadcasting(t) \/ reset_pending(t)
  BY <1>6 DEF mark_broadcasting, reset_pending, GuardIs, atomics, guards, ghosts
<1>7. CASE ReserveCheck(t) \/ ReservePopEmpty(t)
  BY <1>7 DEF ReserveCheck, ReservePopEmpty, atomics, guards, ghosts
<1>8. CASE RecycleStale(t) \/ RecycleTop(t) \/ RecycleInsert(t)
  BY <1>8 DEF RecycleStale, RecycleTop, RecycleInsert, Forget, atomics, ghosts
<1>9. CASE RecycleLock(t) \/ RecycleNotTop(t)
  BY <1>9 DEF RecycleLock, RecycleNotTop, atomics, guards, ghosts
<1>10. CASE \/ CollapseTake(t) \/ CollapseDone(t) \/ CollapseCas(t)
            \/ CollapseCasFails(t) \/ CollapseCount(t)
  BY <1>10 DEF CollapseTake, CollapseDone, CollapseCas, CollapseCasFails,
     CollapseCount, atomics, guards, ghosts
<1>11. CASE \/ \E c \in ChainNonces : sync_forward(t, c)
            \/ SyncPrune(t) \/ SyncMax(t) \/ SyncNotAhead(t)
            \/ SyncLoad(t) \/ SyncCas(t) \/ SyncCasFails(t)
  BY <1>11 DEF sync_forward, SyncPrune, SyncMax, SyncNotAhead, SyncLoad,
     SyncCas, SyncCasFails, atomics, guards, ghosts
<1>12. CASE \/ \E c \in ChainNonces : recover_stalled(t, c)
            \/ RecoverNotBehind(t) \/ RecoverLoad(t) \/ RecoverCas(t)
            \/ RecoverCasFails(t) \/ RecoverClear(t) \/ RecoverStore(t)
  BY <1>12 DEF recover_stalled, RecoverNotBehind, RecoverLoad, RecoverCas,
     RecoverCasFails, RecoverClear, RecoverStore, atomics, guards, ghosts
<1> QED BY <1>1, <1>2, <1>3, <1>4, <1>5, <1>6, <1>7, <1>8, <1>9, <1>10, <1>11,
        <1>12 DEF Call, LockStep, RunStep

LEMMA PendingInvStep ==
  ASSUME PendingInv, NEW t \in Tasks, Call(t) \/ LockStep(t) \/ RunStep(t)
  PROVE  PendingInv'
<1> DEFINE U == Cardinality(Unconfirmed)
           R == Cardinality(Reserving)
<1>1. U \in Nat /\ R \in Nat /\ pending_count <= U + R + leaked
      /\ pending_count \in Nat /\ leaked \in Nat
      /\ IsFiniteSet(Unconfirmed) /\ IsFiniteSet(Reserving)
  BY FS_CardinalityType DEF PendingInv, PendingNeverOvercounts, Unconfirmed
<1>2. SUFFICES /\ pending_count' \in Nat /\ leaked' \in Nat
               /\ IsFiniteSet(Unconfirmed') /\ IsFiniteSet(Reserving')
               /\ pending_count' <= Cardinality(Unconfirmed')
                                      + Cardinality(Reserving') + leaked'
  BY StepsThatCount DEF PendingInv, PendingNeverOvercounts, Unconfirmed
<1>3. CASE /\ Unconfirmed' = Unconfirmed /\ Reserving' = Reserving
           /\ pending_count' \in {0, pending_count} /\ leaked' = leaked
  BY <1>1, <1>3
<1>4. CASE /\ t \notin Reserving /\ Reserving' = Reserving \cup {t}
           /\ Unconfirmed' = Unconfirmed
           /\ pending_count' = pending_count + 1 /\ leaked' = leaked
  <2>1. IsFiniteSet(Reserving') /\ Cardinality(Reserving') = R + 1
    BY <1>1, <1>4, FS_AddElement
  <2> QED BY <1>1, <1>4, <2>1
<1>5. CASE /\ t \in Reserving /\ Reserving' = Reserving \ {t}
           /\ t \notin Unconfirmed /\ Unconfirmed' = Unconfirmed \cup {t}
           /\ pending_count' = pending_count /\ leaked' = leaked
  <2>1. IsFiniteSet(Reserving') /\ Cardinality(Reserving') = R - 1
    BY <1>1, <1>5, FS_RemoveElement
  <2>2. IsFiniteSet(Unconfirmed') /\ Cardinality(Unconfirmed') = U + 1
    BY <1>1, <1>5, FS_AddElement
  <2> QED BY <1>1, <1>5, <2>1, <2>2
<1>6. CASE /\ t \in Unconfirmed /\ Unconfirmed' = Unconfirmed \ {t}
           /\ Reserving' = Reserving
           /\ \/ decrement_pending /\ leaked' = leaked
              \/ pending_count' = pending_count /\ leaked' = leaked + 1
  <2>1. IsFiniteSet(Unconfirmed') /\ Cardinality(Unconfirmed') = U - 1
    BY <1>1, <1>6, FS_RemoveElement
  <2>2. Cardinality(Unconfirmed') \in Nat
    BY <2>1, FS_CardinalityType
  <2> QED BY <1>1, <1>6, <2>1, <2>2 DEF decrement_pending
<1> QED BY <1>3, <1>4, <1>5, <1>6, StepsThatCount

\* A guard confirms or releases its nonce at most once, also when recover_stalled
\* races a reserve(): the count never exceeds what is out or was leaked.
THEOREM PendingIsNeverTooHigh == Spec => []PendingNeverOvercounts
<1>1. Init => PendingInv
  <2> SUFFICES ASSUME Init PROVE PendingInv
    OBVIOUS
  <2> USE DEF Init, Unconfirmed, LiveTasks, LiveStates, Reserving, ReservePoints,
        RecyclePoints
  <2>1. Unconfirmed = {} /\ Reserving = {}
    OBVIOUS
  <2>2. PendingNeverOvercounts
    BY <2>1, FS_EmptySet DEF PendingNeverOvercounts
  <2> QED BY <2>1, <2>2, FS_EmptySet DEF PendingInv, Points
<1>2. PendingInv /\ [Next]_vars => PendingInv'
  <2>1. ASSUME PendingInv, UNCHANGED vars PROVE PendingInv'
    BY <2>1 DEF vars, atomics, guards, ghosts, PendingInv, Unconfirmed,
       LiveTasks, Reserving, PendingNeverOvercounts
  <2> QED BY <2>1, PendingInvStep DEF Next
<1>3. PendingInv => PendingNeverOvercounts
  BY DEF PendingInv
<1> QED BY <1>1, <1>2, <1>3, PTL DEF Spec

-----------------------------------------------------------------------------
(* Calls that do not overlap: TrackerOps *)

\* A set of naturals has a least element, which Min chooses.
LEMMA NatOrder == IsWellFoundedOn({ss \in Nat \X Nat : ss[1] < ss[2]}, Nat)
BY NatLessThanWellFounded DEF OpToRel

LEMMA MinOfNats ==
  ASSUME NEW S \in SUBSET Nat, S # {}
  PROVE  Min(S) \in S /\ \A k \in S : Min(S) <= k
<1> DEFINE R == {ss \in Nat \X Nat : ss[1] < ss[2]}
<1>1. IsWellFoundedOn(R, Nat)
  BY NatOrder
<1> HIDE DEF R
<1>2. PICK x \in S : \A y \in S : <<y, x>> \notin R
  BY <1>1, WFMin, Zenon
<1>3. \A y \in S : x <= y
  <2> SUFFICES ASSUME NEW y \in S PROVE x <= y
    OBVIOUS
  <2>1. ~(y < x)
    BY <1>2 DEF R
  <2> QED BY <2>1
<1> QED BY <1>3, Zenon DEF Min

LEMMA LeastIsMin ==
  ASSUME NEW S \in SUBSET Nat, NEW m \in S, \A k \in S : m <= k
  PROVE  Min(S) = m
<1>1. Min(S) \in S /\ Min(S) <= m
  BY MinOfNats
<1>2. Min(S) \in Nat /\ m \in Nat
  BY <1>1
<1> QED BY <1>1, <1>2

LEMMA MaxOfTwo ==
  ASSUME NEW a \in Nat, NEW b \in Nat
  PROVE  Max({a, b}) = IF a >= b THEN a ELSE b
<1>1. \E x \in {a, b} : \A y \in {a, b} : x >= y
  BY SMT
<1>2. Max({a, b}) \in {a, b} /\ \A y \in {a, b} : Max({a, b}) >= y
  BY <1>1, Zenon DEF Max
<1> QED BY <1>2, SMT


\* Where collapse_top_gaps stops that starts below n: the lowest nonce down to
\* which everything is a gap.
StopsAt(tr, n, top) ==
  /\ top \in tr.synced .. n
  /\ \A k \in Nat : top <= k /\ k < n => k \in tr.gaps
  /\ top > tr.synced => top - 1 \notin tr.gaps

LEMMA CollapseStopsOnce ==
  ASSUME NEW tr, tr.synced \in Nat, tr.gaps \in SUBSET Nat, NEW n \in Nat,
         NEW top, StopsAt(tr, n, top)
  PROVE  recycle_top(tr, n) = [tr EXCEPT !.current = top, !.gaps = @ \ (top .. n)]
<1> DEFINE S == {k \in tr.synced .. n : k .. n - 1 \subseteq tr.gaps}
<1>1. top \in S
  <2>1. top .. n - 1 \subseteq tr.gaps
    BY DEF StopsAt
  <2> QED BY <2>1 DEF StopsAt
<1>2. \A k \in S : top <= k
  <2> SUFFICES ASSUME NEW k \in S, k < top PROVE FALSE
    BY DEF StopsAt
  <2>1. top - 1 \in k .. n - 1
    BY DEF StopsAt
  <2> QED BY <2>1 DEF StopsAt
<1>3. S \in SUBSET Nat
  OBVIOUS
<1> HIDE DEF S
<1>4. Min(S) = top
  BY <1>1, <1>2, <1>3, LeastIsMin
<1> QED BY <1>4 DEF recycle_top, S

LEMMA CollapseStops ==
  ASSUME NEW tr, tr.synced \in Nat, tr.gaps \in SUBSET Nat, NEW n \in Nat,
         tr.synced <= n
  PROVE  \E top : StopsAt(tr, n, top)
<1> DEFINE S == {k \in tr.synced .. n : k .. n - 1 \subseteq tr.gaps}
<1>1. n \in S /\ S \in SUBSET Nat
  OBVIOUS
<1>2. Min(S) \in S /\ \A k \in S : Min(S) <= k
  BY <1>1, MinOfNats
<1> DEFINE top == Min(S)
<1>3. top \in tr.synced .. n /\ top .. n - 1 \subseteq tr.gaps
  BY <1>2
<1>4. ASSUME top > tr.synced, top - 1 \in tr.gaps PROVE FALSE
  <2>1. top - 1 \in S
    <3> HIDE DEF top
    <3>1. \A k \in (top - 1) .. n - 1 : k = top - 1 \/ k \in top .. n - 1
      BY <1>3
    <3> QED BY <1>3, <1>4, <3>1
  <2>2. top <= top - 1
    BY <1>2, <2>1
  <2> HIDE DEF top
  <2> QED BY <1>3, <2>2
<1>5. \A k \in Nat : top <= k /\ k < n => k \in tr.gaps
  <2> HIDE DEF top
  <2> QED BY <1>3
<1> HIDE DEF top
<1> QED BY <1>3, <1>4, <1>5 DEF StopsAt

LEMMA CollapseIgnoresCurrent ==
  ASSUME NEW s \in Nat, NEW G \in SUBSET Nat, NEW x, NEW y, NEW n \in Nat, s <= n
  PROVE  recycle_top([current |-> x, synced |-> s, gaps |-> G], n)
           = recycle_top([current |-> y, synced |-> s, gaps |-> G], n)
<1> DEFINE a == [current |-> x, synced |-> s, gaps |-> G]
           b == [current |-> y, synced |-> s, gaps |-> G]
<1>0. a.synced = s /\ a.gaps = G /\ b.synced = s /\ b.gaps = G
  OBVIOUS
<1> HIDE DEF a, b
<1>1. PICK top : StopsAt(a, n, top)
  BY <1>0, CollapseStops
<1>2. StopsAt(b, n, top)
  BY <1>0, <1>1 DEF StopsAt
<1>3. recycle_top(a, n) = [a EXCEPT !.current = top, !.gaps = @ \ (top .. n)]
      /\ recycle_top(b, n) = [b EXCEPT !.current = top, !.gaps = @ \ (top .. n)]
  BY <1>0, <1>1, <1>2, CollapseStopsOnce
<1> QED BY <1>3 DEF a, b

LEMMA CollapseOneMore ==
  ASSUME NEW cur \in Nat, NEW s \in Nat, NEW G \in SUBSET Nat, NEW x,
         s < cur, \A g \in G : g < cur
  PROVE  recycle_top([current |-> x, synced |-> s, gaps |-> G \cup {cur - 1}], cur)
           = recycle_top([current |-> cur - 1, synced |-> s, gaps |-> G], cur - 1)
<1> DEFINE before == [current |-> x, synced |-> s, gaps |-> G \cup {cur - 1}]
           after == [current |-> cur - 1, synced |-> s, gaps |-> G]
<1>0. /\ before.synced = s /\ before.gaps = G \cup {cur - 1}
      /\ after.synced = s /\ after.gaps = G /\ cur - 1 \in Nat
      /\ before.gaps \in SUBSET Nat
  OBVIOUS
<1> HIDE DEF before, after
<1>1. PICK top : StopsAt(after, cur - 1, top)
  <2> s <= cur - 1
    OBVIOUS
  <2> QED BY <1>0, CollapseStops
<1>2. top \in s .. cur - 1
  BY <1>0, <1>1 DEF StopsAt
<1>3. StopsAt(before, cur, top)
  <2>1. \A k \in Nat : top <= k /\ k < cur => k \in G \/ k = cur - 1
    BY <1>0, <1>1, <1>2 DEF StopsAt
  <2>2. top > s => top - 1 \notin G /\ top - 1 # cur - 1
    BY <1>0, <1>1, <1>2 DEF StopsAt
  <2> QED BY <1>0, <1>2, <2>1, <2>2 DEF StopsAt
<1>4. recycle_top(before, cur)
        = [before EXCEPT !.current = top, !.gaps = @ \ (top .. cur)]
  BY <1>0, <1>3, CollapseStopsOnce
<1>5. recycle_top(after, cur - 1)
        = [after EXCEPT !.current = top, !.gaps = @ \ (top .. cur - 1)]
  BY <1>0, <1>1, CollapseStopsOnce
<1>6. (G \cup {cur - 1}) \ (top .. cur) = G \ (top .. cur - 1)
  BY <1>2
<1> QED BY <1>4, <1>5, <1>6 DEF before, after

LEMMA CollapseNoMore ==
  ASSUME NEW cur \in Nat, NEW s \in Nat, NEW G \in SUBSET Nat,
         s <= cur, \A g \in G : g < cur, ~(cur - 1 >= s /\ cur - 1 \in G)
  PROVE  recycle_top([current |-> cur, synced |-> s, gaps |-> G], cur)
           = [current |-> cur, synced |-> s, gaps |-> G]
<1> DEFINE tr == [current |-> cur, synced |-> s, gaps |-> G]
<1>1. StopsAt(tr, cur, cur)
  BY DEF StopsAt
<1>2. recycle_top(tr, cur) = [tr EXCEPT !.current = cur, !.gaps = @ \ (cur .. cur)]
  BY <1>1, CollapseStopsOnce
<1>3. G \ (cur .. cur) = G
  OBVIOUS
<1> QED BY <1>2, <1>3

-----------------------------------------------------------------------------
\* The other tasks are not in the tracker.
Alone(t) == \A u \in Tasks \ {t} : pc[u] = "idle"

\* A step of t moves t only.
LEMMA OthersStay ==
  ASSUME IInv, NEW t \in Tasks, Call(t) \/ LockStep(t) \/ RunStep(t)
  PROVE  \A u \in Tasks \ {t} : pc'[u] = pc[u]
<1> USE DEF IInv, TypeOK
<1>1. CASE Call(t)
  BY <1>1 DEF Call, Reserve, mark_broadcasting, commit, release, GiveBack,
     release_rejected_broadcast, DropBroadcasting, reset_pending, sync_forward,
     recover_stalled, Goto
<1>2. CASE LockStep(t)
  BY <1>2 DEF LockStep, ReservePop, ReservePopEmpty, RecycleStale, RecycleLock,
     SyncPrune, RecoverNotBehind, RecoverLoad, Goto
<1>3. CASE RunStep(t)
  BY <1>3 DEF RunStep, ReserveCheck, ReserveAdd, RecycleTop, RecycleNotTop,
     RecycleInsert, CollapseTake, CollapseDone, CollapseCas, CollapseCasFails,
     CollapseCount, SyncMax, SyncNotAhead, SyncLoad, SyncCas, SyncCasFails,
     RecoverCas, RecoverCasFails, RecoverClear, RecoverStore, Goto
<1> QED BY <1>1, <1>2, <1>3

\* What is left to do when t has entered or moved, and nothing when it is back.
Settled(t) == LeftToDo(t)' /\ (pc'[t] = "idle" => expected' = Tracker')

\* A call starts with all of its operation left to do.
LEMMA CallSettles ==
  ASSUME IInv, SeqInv, Quiet, NEW t \in Tasks, Call(t), expected' = Result(t)
  PROVE  Settled(t)
<1> USE DEF Settled, LeftToDo, Result, ReservePoints, RecyclePoints, SyncPoints,
      Tracker, IInv, TypeOK
<1>1. expected = Tracker
  BY DEF SeqInv, CallsAddUp
<1>2. CASE Reserve(t)
  BY <1>1, <1>2 DEF Reserve, Goto
<1>3. CASE mark_broadcasting(t) \/ commit(t) \/ DropBroadcasting(t) \/ reset_pending(t)
  BY <1>1, <1>3 DEF mark_broadcasting, commit, DropBroadcasting, reset_pending,
     GuardIs, Quiet, atomics, ghosts
<1>4. CASE release(t) \/ release_rejected_broadcast(t)
  BY <1>1, <1>4 DEF release, release_rejected_broadcast, GiveBack, Goto
<1>5. CASE \E c \in ChainNonces : sync_forward(t, c)
  BY <1>1, <1>5, ChainNoncesAreNats DEF sync_forward, Goto, atomics
<1>6. CASE \E c \in ChainNonces : recover_stalled(t, c)
  BY <1>1, <1>6, ChainNoncesAreNats DEF recover_stalled, Goto, atomics
<1> QED BY <1>2, <1>3, <1>4, <1>5, <1>6 DEF Call

\* Alone in the tracker, t finds the gaps below current, counted right.
LEMMA AloneIsTidy ==
  ASSUME IInv, NEW t \in Tasks, Alone(t)
  PROVE  /\ pc[t] # "recover_clear" => \A g \in gaps : g < current
         /\ pc[t] \notin {"sync_load", "sync_cas", "recover_clear", "recover_store"}
              => synced_nonce <= current
         /\ pc[t] \notin {"collapse_cas", "collapse_count"}
              => (gap_count > 0 <=> gaps # {})
         /\ \A g \in gaps : synced_nonce <= g
<1>1. gap_count > 0 <=> gaps # {} \/ pc[t] \in {"collapse_cas", "collapse_count"}
  <2>1. Cardinality(gaps) \in Nat /\ (Cardinality(gaps) = 0 <=> gaps = {})
    BY FS_CardinalityType, FS_EmptySet DEF IInv, TypeOK
  <2> QED BY <2>1 DEF IInv, CountInv, Alone
<1> QED BY <1>1 DEF IInv, WindowInv, Alone

\* reserve: the lowest gap, or current if there is none.
LEMMA ReserveSettles ==
  ASSUME IInv, SeqInv, NEW t \in Tasks, Alone(t), expected' = expected,
         ReserveCheck(t) \/ ReservePop(t) \/ ReservePopEmpty(t) \/ ReserveAdd(t)
  PROVE  Settled(t)
<1> USE DEF Settled, LeftToDo, ReservePoints, RecyclePoints, SyncPoints, IInv, TypeOK
<1>1. CASE ReserveCheck(t)
  <2>1. pc' = [pc EXCEPT ![t] = IF gaps # {} THEN "reserve_pop" ELSE "reserve_add"]
    BY <1>1, AloneIsTidy DEF ReserveCheck, Goto
  <2>2. Tracker' = Tracker /\ gaps' = gaps
    BY <1>1 DEF ReserveCheck, Tracker, atomics
  <2>3. expected = reserve(Tracker)
    BY <1>1 DEF SeqInv, ReserveCheck
  <2> QED BY <2>1, <2>2, <2>3
<1>2. CASE ReservePop(t)
  <2>1. PICK n \in gaps : /\ \A g \in gaps : n <= g
                          /\ gaps' = gaps \ {n}
    BY <1>2 DEF ReservePop
  <2>2. Min(gaps) = n
    BY <2>1, LeastIsMin
  <2>3. expected = reserve(Tracker) /\ pc'[t] = "idle"
    BY <1>2 DEF SeqInv, ReservePop, Goto
  <2>4. reserve(Tracker) = [current |-> current, synced |-> synced_nonce,
                            gaps |-> gaps \ {n}]
    BY <2>1, <2>2 DEF reserve, Tracker
  <2>5. Tracker' = [current |-> current, synced |-> synced_nonce,
                    gaps |-> gaps \ {n}]
    BY <1>2, <2>1 DEF ReservePop, Tracker
  <2> QED BY <2>3, <2>4, <2>5
<1>3. CASE ReservePopEmpty(t)
  BY <1>3 DEF ReservePopEmpty, SeqInv
<1>4. CASE ReserveAdd(t)
  <2>1. expected = reserve(Tracker) /\ pc'[t] = "idle" /\ gaps = {}
    BY <1>4 DEF SeqInv, ReserveAdd, Goto
  <2>2. Tracker' = [current |-> current + 1, synced |-> synced_nonce, gaps |-> gaps]
    BY <1>4 DEF ReserveAdd, Tracker
  <2> QED BY <2>1, <2>2 DEF reserve, Tracker
<1> QED BY <1>1, <1>2, <1>3, <1>4

\* recycle_nonce, up to its collapse_top_gaps.
LEMMA RecycleSettles ==
  ASSUME IInv, SeqInv, NEW t \in Tasks, Alone(t), expected' = expected,
         \/ RecycleStale(t) \/ RecycleLock(t) \/ RecycleTop(t)
         \/ RecycleNotTop(t) \/ RecycleInsert(t)
  PROVE  Settled(t)
<1> USE DEF Settled, LeftToDo, ReservePoints, RecyclePoints, SyncPoints
<1>0. /\ expected = recycle(Tracker, nonce[t])
      /\ pc \in [Tasks -> Points] /\ nonce[t] \in Nat /\ synced_nonce \in Nat
      /\ current \in Nat /\ gaps \in SUBSET Nat
  BY DEF SeqInv, RecycleStale, RecycleLock, RecycleTop, RecycleNotTop,
     RecycleInsert, IInv, TypeOK
<1>1. CASE RecycleStale(t)
  BY <1>0, <1>1 DEF RecycleStale, Goto, recycle, Tracker, atomics
<1>2. CASE RecycleLock(t)
  BY <1>0, <1>2 DEF RecycleLock, Goto, Tracker, atomics, guards
<1>3. CASE RecycleTop(t)
  <2>1. nonce[t] >= synced_nonce /\ nonce[t] + 1 = current
    BY <1>0, <1>3 DEF RecycleTop, IInv, StepInv, RecyclePoints
  <2>2. expected = recycle_top(Tracker, nonce[t])
    BY <1>0, <2>1 DEF recycle, Tracker
  <2>3. /\ Tracker' = [current |-> nonce[t], synced |-> synced_nonce, gaps |-> gaps]
        /\ pc'[t] = "collapse_load" /\ current' = nonce[t]
    BY <1>0, <1>3 DEF RecycleTop, Goto, Tracker
  <2>4. recycle_top(Tracker', nonce[t]) = recycle_top(Tracker, nonce[t])
    <3>1. synced_nonce <= nonce[t]
      BY <1>0, <2>1
    <3>2. Tracker = [current |-> current, synced |-> synced_nonce, gaps |-> gaps]
      BY DEF Tracker
    <3>3. \A x, y : recycle_top([current |-> x, synced |-> synced_nonce,
                                 gaps |-> gaps], nonce[t])
                    = recycle_top([current |-> y, synced |-> synced_nonce,
                                   gaps |-> gaps], nonce[t])
      BY <1>0, <3>1, CollapseIgnoresCurrent
    <3> QED BY <2>3, <3>2, <3>3, Zenon
  <2> QED BY <2>2, <2>3, <2>4
<1>4. CASE RecycleNotTop(t)
  BY <1>0, <1>4 DEF RecycleNotTop, Goto, Tracker, atomics, guards
<1>5. CASE RecycleInsert(t)
  <2>1. nonce[t] >= synced_nonce /\ nonce[t] + 1 < current
    BY <1>0, <1>5 DEF RecycleInsert, IInv, StepInv, RecyclePoints
  <2>2. expected = [current |-> current, synced |-> synced_nonce,
                    gaps |-> gaps \cup {nonce[t]}]
    <3>1. ~(nonce[t] < synced_nonce) /\ current # nonce[t] + 1 /\ nonce[t] < current
      BY <1>0, <2>1
    <3> QED BY <1>0, <3>1 DEF recycle, Tracker
  <2>3. gaps' = gaps \cup {nonce[t]} /\ pc'[t] = "idle"
    BY <1>0, <1>5, <2>1 DEF RecycleInsert, Goto
  <2>4. Tracker' = [current |-> current, synced |-> synced_nonce, gaps |-> gaps']
    BY <1>5 DEF RecycleInsert, Tracker
  <2> QED BY <2>2, <2>3, <2>4
<1> QED BY <1>1, <1>2, <1>3, <1>4, <1>5

\* collapse_top_gaps: alone, its compare_exchange never fails.
LEMMA CollapseSettles ==
  ASSUME IInv, SeqInv, NEW t \in Tasks, Alone(t), expected' = expected,
         \/ CollapseTake(t) \/ CollapseDone(t) \/ CollapseCas(t)
         \/ CollapseCasFails(t) \/ CollapseCount(t)
  PROVE  Settled(t)
<1> USE DEF Settled, LeftToDo, ReservePoints, RecyclePoints, SyncPoints
<1>0. /\ pc \in [Tasks -> Points] /\ synced_nonce \in Nat /\ current \in Nat
      /\ gaps \in SUBSET Nat /\ seen \in [Tasks -> Nat]
      /\ synced_nonce <= current /\ \A g \in gaps : g < current
  BY AloneIsTidy DEF CollapseTake, CollapseDone, CollapseCas, CollapseCasFails,
     CollapseCount, IInv, TypeOK
<1>1. CASE CollapseTake(t)
  <2>1. expected = recycle_top(Tracker, current) /\ current - 1 \in gaps
        /\ pc' = [pc EXCEPT ![t] = "collapse_cas"] /\ current' = current
        /\ gaps' = gaps \ {current - 1} /\ seen'[t] = current
        /\ synced_nonce' = synced_nonce
    BY <1>0, <1>1 DEF SeqInv, CollapseTake, TopIsGap, Goto, atomics
  <2>2. gaps' \cup {current' - 1} = gaps
    BY <2>1
  <2>3. Untaken' = Tracker
    BY <2>1, <2>2 DEF Untaken, Tracker
  <2> QED BY <1>0, <2>1, <2>3
<1>2. CASE CollapseDone(t)
  <2>1. expected = recycle_top(Tracker, current)
        /\ pc'[t] = "idle" /\ Tracker' = Tracker
    BY <1>0, <1>2 DEF SeqInv, CollapseDone, Goto, Tracker, atomics
  <2>2. ~(current - 1 >= synced_nonce /\ current - 1 \in gaps)
    BY <1>0, <1>2 DEF CollapseDone, TopIsGap
  <2>3. recycle_top(Tracker, current) = Tracker
    BY <1>0, <2>2, CollapseNoMore DEF Tracker
  <2> QED BY <2>1, <2>3
<1>3. CASE CollapseCas(t)
  <2>1. expected = recycle_top(Untaken, current) /\ seen[t] = current
        /\ synced_nonce < current
        /\ pc' = [pc EXCEPT ![t] = "collapse_count"] /\ current' = current - 1
        /\ gaps' = gaps /\ synced_nonce' = synced_nonce
    BY <1>0, <1>3 DEF SeqInv, CollapseCas, Goto, IInv, StepInv
  <2>2. Untaken = [current |-> current, synced |-> synced_nonce,
                   gaps |-> gaps \cup {current - 1}]
    BY DEF Untaken, Tracker
  <2>3. Tracker' = [current |-> current - 1, synced |-> synced_nonce, gaps |-> gaps]
    BY <2>1 DEF Tracker
  <2>4. recycle_top(Untaken, current) = recycle_top(Tracker', current - 1)
    BY <1>0, <2>1, <2>2, <2>3, CollapseOneMore
  <2> QED BY <1>0, <2>1, <2>4
<1>4. CASE CollapseCasFails(t)
  BY <1>0, <1>4 DEF SeqInv, CollapseCasFails
<1>5. CASE CollapseCount(t)
  BY <1>0, <1>5 DEF SeqInv, CollapseCount, Goto, Tracker
<1> QED BY <1>1, <1>2, <1>3, <1>4, <1>5

\* sync_forward: alone, its compare_exchange succeeds at once.
LEMMA SyncSettles ==
  ASSUME IInv, SeqInv, NEW t \in Tasks, Alone(t), expected' = expected,
         \/ SyncPrune(t) \/ SyncMax(t) \/ SyncNotAhead(t)
         \/ SyncLoad(t) \/ SyncCas(t) \/ SyncCasFails(t)
  PROVE  Settled(t)
<1> USE DEF Settled, LeftToDo, ReservePoints, RecyclePoints, SyncPoints
<1> DEFINE c == chain[t]
           larger(a) == IF a >= c THEN a ELSE c
<1>0. /\ pc \in [Tasks -> Points] /\ synced_nonce \in Nat /\ current \in Nat
      /\ gaps \in SUBSET Nat /\ seen \in [Tasks -> Nat] /\ c \in Nat
  BY DEF IInv, TypeOK
<1>1. expected = [current |-> larger(current), synced |-> larger(synced_nonce),
                  gaps |-> {g \in gaps : g >= c}]
  <2>1. expected = forward(Tracker, c)
    BY DEF SeqInv, SyncPrune, SyncMax, SyncNotAhead, SyncLoad, SyncCas,
       SyncCasFails
  <2>2. Max({current, c}) = larger(current)
        /\ Max({synced_nonce, c}) = larger(synced_nonce)
    BY <1>0, MaxOfTwo
  <2> QED BY <2>1, <2>2 DEF forward, Tracker
<1>2. chain' = chain
  BY DEF SyncPrune, SyncMax, SyncNotAhead, SyncLoad, SyncCas, SyncCasFails,
     locals
<1>3. ASSUME current' \in Nat, synced_nonce' \in Nat,
             larger(current') = larger(current),
             larger(synced_nonce') = larger(synced_nonce),
             {g \in gaps' : g >= c} = {g \in gaps : g >= c}
      PROVE  expected = forward(Tracker, chain[t])'
  <2>1. Max({current', c}) = larger(current')
        /\ Max({synced_nonce', c}) = larger(synced_nonce')
    BY <1>0, <1>3, MaxOfTwo
  <2> QED BY <1>1, <1>2, <1>3, <2>1 DEF forward, Tracker
<1>4. CASE SyncPrune(t)
  <2>1. {g \in gaps' : g >= c} = {g \in gaps : g >= c}
    BY <1>4 DEF SyncPrune
  <2>2. expected = forward(Tracker, chain[t])'
    BY <1>0, <1>3, <1>4, <2>1 DEF SyncPrune
  <2> QED BY <1>0, <1>4, <2>2 DEF SyncPrune, Goto
<1>5. CASE SyncMax(t)
  <2>1. synced_nonce' \in Nat /\ larger(synced_nonce') = larger(synced_nonce)
    BY <1>0, <1>5 DEF SyncMax
  <2>2. expected = forward(Tracker, chain[t])'
    BY <1>0, <1>3, <1>5, <2>1 DEF SyncMax
  <2> QED BY <1>0, <1>5, <2>2 DEF SyncMax, Goto
<1>6. CASE SyncNotAhead(t)
  <2>1. c <= synced_nonce /\ c <= current /\ \A g \in gaps : c <= g
    BY <1>6 DEF SyncNotAhead, IInv, StepInv, SyncPoints
  <2>2. expected = Tracker
    <3>1. {g \in gaps : g >= c} = gaps
      BY <1>0, <2>1
    <3> QED BY <1>0, <1>1, <2>1, <3>1 DEF Tracker
  <2> QED BY <1>0, <1>6, <2>2 DEF SyncNotAhead, Goto, Tracker, atomics
<1>7. CASE SyncLoad(t)
  <2>1. expected = forward(Tracker, chain[t])'
    BY <1>0, <1>3, <1>7 DEF SyncLoad, atomics
  <2> QED BY <1>0, <1>7, <2>1 DEF SyncLoad, Goto, atomics
<1>8. CASE SyncCas(t)
  <2>1. seen[t] = current /\ seen[t] < c /\ c <= synced_nonce
        /\ \A g \in gaps : c <= g
    BY <1>8 DEF SeqInv, SyncCas, IInv, StepInv, SyncPoints
  <2>2. expected = [current |-> c, synced |-> synced_nonce, gaps |-> gaps]
    <3>1. {g \in gaps : g >= c} = gaps
      BY <1>0, <2>1
    <3>2. larger(current) = c /\ larger(synced_nonce) = synced_nonce
      BY <1>0, <2>1
    <3> HIDE DEF larger
    <3> QED BY <1>1, <3>1, <3>2
  <2> QED BY <1>0, <1>8, <2>2 DEF SyncCas, Goto, Tracker
<1>9. CASE SyncCasFails(t)
  BY <1>9 DEF SeqInv, SyncCasFails
<1> QED BY <1>4, <1>5, <1>6, <1>7, <1>8, <1>9

\* recover_stalled: alone, its compare_exchange succeeds.
LEMMA RecoverSettles ==
  ASSUME IInv, SeqInv, NEW t \in Tasks, Alone(t), expected' = expected,
         \/ RecoverNotBehind(t) \/ RecoverLoad(t) \/ RecoverCas(t)
         \/ RecoverCasFails(t) \/ RecoverClear(t) \/ RecoverStore(t)
  PROVE  Settled(t)
<1> USE DEF Settled, LeftToDo, ReservePoints, RecyclePoints, SyncPoints
<1>0. /\ pc \in [Tasks -> Points] /\ current \in Nat /\ seen \in [Tasks -> Nat]
      /\ chain[t] \in Nat
  BY DEF IInv, TypeOK
<1>1. CASE RecoverNotBehind(t)
  BY <1>0, <1>1 DEF SeqInv, RecoverNotBehind, Goto, rewind, Tracker, atomics
<1>2. CASE RecoverLoad(t)
  BY <1>0, <1>2 DEF SeqInv, RecoverLoad, Goto, Tracker, atomics
<1>3. CASE RecoverCas(t)
  <2>1. expected = rewind(Tracker, chain[t]) /\ chain[t] < current
    BY <1>3 DEF SeqInv, RecoverCas, IInv, StepInv
  <2>2. expected = new(chain[t])
    BY <1>0, <2>1 DEF rewind, Tracker
  <2> QED BY <1>0, <1>3, <2>2 DEF RecoverCas, Goto, locals
<1>4. CASE RecoverCasFails(t)
  BY <1>4 DEF SeqInv, RecoverCasFails
<1>5. CASE RecoverClear(t)
  BY <1>0, <1>5 DEF SeqInv, RecoverClear, Goto, locals
<1>6. CASE RecoverStore(t)
  <2>1. expected = new(chain[t]) /\ current = chain[t] /\ gaps = {}
    BY <1>6 DEF SeqInv, RecoverStore, IInv, StepInv
  <2> QED BY <1>0, <1>6, <2>1 DEF RecoverStore, Goto, Tracker, new
<1> QED BY <1>1, <1>2, <1>3, <1>4, <1>5, <1>6

\* One call at a time: the task that steps is the only one in the tracker.
LEMMA SeqStep ==
  ASSUME SeqInv, SeqNext
  PROVE  \E t \in Tasks :
           /\ Alone(t) /\ Apart(t)
           /\ \/ Quiet /\ Call(t) /\ expected' = Result(t)
              \/ (LockStep(t) \/ RunStep(t)) /\ expected' = expected
<1>1. PICK t \in Tasks :
        \/ Quiet /\ Call(t) /\ expected' = Result(t)
        \/ (LockStep(t) \/ RunStep(t)) /\ expected' = expected
  BY DEF SeqNext
<1>2. Quiet \/ pc[t] # "idle"
  BY <1>1 DEF LockStep, ReservePop, ReservePopEmpty, RecycleStale,
     RecycleLock, SyncPrune, RecoverNotBehind, RecoverLoad, RunStep,
     ReserveCheck, ReserveAdd, RecycleTop, RecycleNotTop, RecycleInsert,
     CollapseTake, CollapseDone, CollapseCas, CollapseCasFails,
     CollapseCount, SyncMax, SyncNotAhead, SyncLoad, SyncCas, SyncCasFails,
     RecoverCas, RecoverCasFails, RecoverClear, RecoverStore
<1>3. Alone(t)
  BY <1>2 DEF Quiet, Alone, SeqInv, OneAtATime
<1>4. Apart(t)
  BY <1>2 DEF Apart, Reserve, Quiet, Recovering, RecoverPoints
<1> QED BY <1>1, <1>3, <1>4

\* A step of one task at a time keeps the tracker on the way to expected.
LEMMA SeqInvStep ==
  ASSUME IInv, SeqInv, SeqNext
  PROVE  IInv' /\ SeqInv'
<1>1. PICK t \in Tasks :
        /\ Alone(t) /\ Apart(t)
        /\ \/ Quiet /\ Call(t) /\ expected' = Result(t)
           \/ (LockStep(t) \/ RunStep(t)) /\ expected' = expected
  BY SeqStep
<1>2. IInv'
  BY <1>1, IInvStep
<1>3. \A u \in Tasks \ {t} : pc'[u] = "idle"
  BY <1>1, OthersStay DEF Alone
<1>4. Settled(t)
  BY <1>1, CallSettles, ReserveSettles, RecycleSettles, CollapseSettles,
     SyncSettles, RecoverSettles DEF LockStep, RunStep
<1>5. OneAtATime'
  BY <1>3 DEF OneAtATime
<1>6. CallsAddUp'
  BY <1>4 DEF CallsAddUp, Quiet, Settled
<1>7. ASSUME NEW u \in Tasks PROVE LeftToDo(u)'
  <2>1. CASE u = t
    BY <1>4, <2>1 DEF Settled
  <2>2. CASE u # t
    BY <1>3, <2>2 DEF LeftToDo, ReservePoints, RecyclePoints, SyncPoints
  <2> QED BY <2>1, <2>2
<1> QED BY <1>2, <1>5, <1>6, <1>7 DEF SeqInv

\* Calls that do not overlap, quiescent recovery or not.
LEMMA SeqInvariance == SeqSpec => [](IInv /\ SeqInv)
<1>1. SeqInit => IInv /\ SeqInv
  <2> SUFFICES ASSUME SeqInit PROVE SeqInv
    BY InitIInv DEF SeqInit
  <2> QED BY DEF SeqInit, Init, SeqInv, OneAtATime, CallsAddUp, LeftToDo, new,
          Tracker, ReservePoints, RecyclePoints, SyncPoints
<1>2. IInv /\ SeqInv /\ [SeqNext]_seqVars => (IInv /\ SeqInv)'
  <2> SUFFICES ASSUME IInv, SeqInv, [SeqNext]_seqVars PROVE IInv' /\ SeqInv'
    OBVIOUS
  <2>1. CASE SeqNext
    BY <2>1, SeqInvStep
  <2>2. CASE UNCHANGED seqVars
    <3>1. UNCHANGED vars /\ expected' = expected
      BY <2>2 DEF seqVars
    <3>2. SeqInv'
      BY <3>1 DEF vars, atomics, locals, guards, SeqInv, OneAtATime, CallsAddUp,
         Quiet, LeftToDo, Tracker, Untaken
    <3> QED BY <3>1, <3>2, StutterIInv
  <2> QED BY <2>1, <2>2
<1> QED BY <1>1, <1>2, PTL DEF SeqSpec

\* Calls that do not overlap make of the tracker what the functions of TrackerOps
\* do, which is what lets the wallet's modules take a call for one step.
THEOREM CallsAreTheirFunctions == SeqSpec => []CallsAddUp
<1>1. SeqInv => CallsAddUp
  BY DEF SeqInv
<1> QED BY <1>1, SeqInvariance, PTL

\* reserve hands out the lowest released nonce, or current when there is none.
THEOREM LowestFirst == SeqSpec => HandsOutTheLowest
<1>1. ASSUME IInv, SeqInv, SeqNext, NEW t \in Tasks,
             guard[t] = "None", guard'[t] = "Held"
      PROVE  nonce'[t] = next_nonce(Tracker)
  <2>1. PICK u \in Tasks : Call(u) \/ LockStep(u) \/ RunStep(u)
    BY <1>1 DEF SeqNext
  <2>2. ReservePop(t) \/ ReserveAdd(t)
    <3> USE <1>1 DEF IInv, TypeOK
    <3>1. CASE Call(u)
      BY <3>1 DEF Call, Reserve, mark_broadcasting, commit, release, GiveBack,
         release_rejected_broadcast, DropBroadcasting, reset_pending,
         sync_forward, recover_stalled, GuardIs, guards
    <3>2. CASE LockStep(u)
      BY <3>2 DEF LockStep, ReservePop, HandOut, ReservePopEmpty, RecycleStale,
         Forget, RecycleLock, SyncPrune, RecoverNotBehind, RecoverLoad, guards
    <3>3. CASE RunStep(u)
      BY <3>3 DEF RunStep, ReserveCheck, ReserveAdd, HandOut, RecycleTop, Forget,
         RecycleNotTop, RecycleInsert, CollapseTake, CollapseDone, CollapseCas,
         CollapseCasFails, CollapseCount, SyncMax, SyncNotAhead, SyncLoad,
         SyncCas, SyncCasFails, RecoverCas, RecoverCasFails, RecoverClear,
         RecoverStore, guards
    <3> QED BY <2>1, <3>1, <3>2, <3>3
  <2>3. Alone(t) /\ pc[t] # "recover_clear"
    BY <1>1, <2>2 DEF ReservePop, ReserveAdd, Alone, SeqInv, OneAtATime
  <2>4. \A g \in gaps : g < current
    BY <1>1, <2>3, AloneIsTidy
  <2>5. gaps \cup {current} \in SUBSET Nat
    BY <1>1 DEF IInv, TypeOK
  <2>6. CASE ReservePop(t)
    <3>1. PICK n \in gaps : (\A g \in gaps : n <= g) /\ nonce'[t] = n
      BY <1>1, <2>6 DEF ReservePop, HandOut, IInv, TypeOK
    <3>2. \A g \in gaps \cup {current} : n <= g
      BY <2>4, <2>5, <3>1
    <3> QED BY <2>5, <3>1, <3>2, LeastIsMin DEF next_nonce, Tracker
  <2>7. CASE ReserveAdd(t)
    <3>1. nonce'[t] = current /\ gaps = {}
      BY <1>1, <2>7 DEF ReserveAdd, HandOut, IInv, TypeOK, SeqInv, LeftToDo
    <3>2. \A g \in gaps \cup {current} : current <= g
      BY <2>5, <3>1
    <3> QED BY <2>5, <3>1, <3>2, LeastIsMin DEF next_nonce, Tracker
  <2> QED BY <2>2, <2>6, <2>7
<1>2. IInv /\ SeqInv /\ [SeqNext]_seqVars =>
        [\A t \in Tasks : guard[t] = "None" /\ guard'[t] = "Held"
           => nonce'[t] = next_nonce(Tracker)]_seqVars
  BY <1>1
<1> QED BY <1>2, SeqInvariance, PTL DEF SeqSpec, HandsOutTheLowest
=============================================================================
