------------------------- MODULE VulkanQueue_proofs -------------------------
(***************************************************************************)
(* Theorems about VulkanQueue, for every set of buffers and descriptor     *)
(* sets, every bound, every client and every combination of driver faults  *)
(* except a failing wait for the submission just made ("wait_sync").       *)
(***************************************************************************)
EXTENDS VulkanQueue, FiniteSetTheorems, TLAPS

LEMMA TwoSlots ==
  /\ Slots = {0, 1}
  /\ Other(0) = 1
  /\ Other(1) = 0
BY DEF Slots, kFastSlots, Other

LEMMA Bounds == MaxDispatches \in Nat /\ 0 \in 0 .. MaxDispatches
BY ConstantsAssumption DEF ConstantsAssumption

\* Releasing buffers leaves the pool a set of buffers.
LEMMA ReleaseType ==
  ASSUME TypeOK, ReleaseUnreferenced
  PROVE  pool' \subseteq Buffers
<1>1. UNION {slotKeep[s] : s \in Slots} \subseteq Buffers
  BY DEF TypeOK
<1>2. (owned \cup batchKeep \cup capKeep \cup recKeep \cup pool) \subseteq Buffers
  BY DEF TypeOK
<1>3. Referenced \subseteq Buffers
  BY <1>1, <1>2 DEF Referenced
<1> QED
  BY <1>2, <1>3 DEF ReleaseUnreferenced

LEMMA VictimSlots == ASSUME TypeOK PROVE Victim \subseteq Slots
BY TwoSlots DEF Victim, TypeOK

LEMMA ParkedType ==
  ASSUME TypeOK, NEW done \in SUBSET Slots
  PROVE  Parked(done) \subseteq Sets
BY DEF Parked, TypeOK

\* What the helpers of begin_fast_commands do to the types of what they assign.
LEMMA RetireType ==
  ASSUME TypeOK, NEW done, Retire(done)
  PROVE  /\ pending' \in [Slots -> BOOLEAN] /\ fence' \in [Slots -> BOOLEAN]
         /\ slotSets' \in [Slots -> SUBSET Sets] /\ slotKeep' \in [Slots -> SUBSET Buffers]
<1>1. pending' \in [Slots -> BOOLEAN] /\ fence' \in [Slots -> BOOLEAN]
  BY DEF Retire, FencesReset
<1>2. slotSets' \in [Slots -> SUBSET Sets]
  BY DEF Retire, TypeOK
<1>3. slotKeep' \in [Slots -> SUBSET Buffers]
  BY DEF Retire, TypeOK
<1> QED
  BY <1>1, <1>2, <1>3

LEMMA BeginFastFailsType ==
  ASSUME TypeOK, NEW free \in SUBSET Sets, BeginFastFails(free)
  PROVE  /\ pending' \in [Slots -> BOOLEAN] /\ fence' \in [Slots -> BOOLEAN]
         /\ slotSets' \in [Slots -> SUBSET Sets] /\ slotKeep' \in [Slots -> SUBSET Buffers]
         /\ freeSets' \subseteq Sets
         /\ cmdState' \in [Slots -> CommandBufferStates]
         /\ cmdSets' \in [Slots -> SUBSET Sets] /\ cmdBufs' \in [Slots -> SUBSET Buffers]
<1>1. Parked(Victim) \subseteq Sets
  BY VictimSlots, ParkedType
<1>2. freeSets' \subseteq Sets
  BY <1>1 DEF BeginFastFails
<1>3. \/ Retire(Victim)
      \/ UNCHANGED <<pending, fence, slotSets, slotKeep>>
  BY DEF BeginFastFails
<1>4. /\ pending' \in [Slots -> BOOLEAN] /\ fence' \in [Slots -> BOOLEAN]
      /\ slotSets' \in [Slots -> SUBSET Sets] /\ slotKeep' \in [Slots -> SUBSET Buffers]
  BY <1>3, RetireType DEF TypeOK
<1>5. \/ UNCHANGED <<cmdState, cmdSets, cmdBufs>>
      \/ /\ cmdState' = [cmdState EXCEPT ![fastSlot] = "initial"]
         /\ cmdSets'  = [cmdSets EXCEPT ![fastSlot] = {}]
         /\ cmdBufs'  = [cmdBufs EXCEPT ![fastSlot] = {}]
  BY DEF BeginFastFails, cmdVars
<1>6. /\ cmdState' \in [Slots -> CommandBufferStates]
      /\ cmdSets' \in [Slots -> SUBSET Sets] /\ cmdBufs' \in [Slots -> SUBSET Buffers]
  BY <1>5 DEF TypeOK, CommandBufferStates
<1> QED
  BY <1>2, <1>4, <1>6

LEMMA BeginFastType ==
  ASSUME TypeOK, NEW S \in SUBSET Sets, NEW B \in SUBSET Buffers, BeginFast(S, B)
  PROVE  /\ pending' \in [Slots -> BOOLEAN] /\ fence' \in [Slots -> BOOLEAN]
         /\ slotSets' \in [Slots -> SUBSET Sets] /\ slotKeep' \in [Slots -> SUBSET Buffers]
         /\ cmdState' \in [Slots -> CommandBufferStates]
         /\ cmdSets' \in [Slots -> SUBSET Sets] /\ cmdBufs' \in [Slots -> SUBSET Buffers]
<1>1. /\ cmdState' \in [Slots -> CommandBufferStates]
      /\ cmdSets' \in [Slots -> SUBSET Sets] /\ cmdBufs' \in [Slots -> SUBSET Buffers]
  BY DEF BeginFast, TypeOK, CommandBufferStates
<1>2. Retire(Victim)
  BY DEF BeginFast
<1> QED
  BY <1>1, <1>2, RetireType

\* TypeOK is preserved by every action, whatever faults occur.
THEOREM TypeCorrect == Spec => []TypeOK
<1>1. Init => TypeOK
  BY Bounds, TwoSlots DEF Init, TypeOK, HostStates, CommandBufferStates, Slots, kFastSlots
<1>2. TypeOK /\ [Next]_vars => TypeOK'
  <2> SUFFICES ASSUME TypeOK, [Next]_vars PROVE TypeOK'
    OBVIOUS
  <2> USE Bounds, TwoSlots
      DEF slotVars, batchVars, setVars, keepVars, capVars,
          recVars, cmdVars, deviceVars
  <2>1. ASSUME NEW b \in Buffers, CreateBuffer(b) PROVE TypeOK'
    BY <2>1 DEF TypeOK, HostStates, CommandBufferStates, CreateBuffer
  <2>2. ASSUME NEW b \in Buffers, DropBuffer(b) PROVE TypeOK'
    BY <2>2, ReleaseType DEF TypeOK, HostStates, CommandBufferStates, DropBuffer
  <2>3. ASSUME NEW b \in Buffers, Transfer(b) PROVE TypeOK'
    BY <2>3 DEF TypeOK, HostStates, CommandBufferStates, Transfer
  <2>4. ASSUME NEW B \in SUBSET owned, BatchDispatch(B) PROVE TypeOK'
    <3> USE <2>4
    <3>1. \/ UNCHANGED <<batchCount, cmdState, cmdSets, cmdBufs>>
          \/ /\ batchCount < MaxDispatches
             /\ batchCount' = batchCount + 1
             /\ UNCHANGED cmdState
             /\ \E S \in SUBSET Sets : cmdSets' = [cmdSets EXCEPT ![fastSlot] = @ \cup S]
             /\ cmdBufs' = [cmdBufs EXCEPT ![fastSlot] = @ \cup B]
      BY DEF BatchDispatch
    <3>2. batchCount' \in 0 .. MaxDispatches
      BY <3>1 DEF TypeOK
    <3>3. /\ cmdState' \in [Slots -> CommandBufferStates]
          /\ cmdSets' \in [Slots -> SUBSET Sets]
          /\ cmdBufs' \in [Slots -> SUBSET Buffers]
      BY <3>1 DEF TypeOK
    <3>4. /\ capturing' \in BOOLEAN /\ capCount' \in 0 .. MaxDispatches /\ capKeep' \subseteq Buffers /\ capRaw' \subseteq Buffers
          /\ batchKeep' \subseteq Buffers
      BY DEF BatchDispatch, CaptureDispatch, KeepAlive, TypeOK
    <3>5. batchOpen' \in BOOLEAN /\ batchError' \in BOOLEAN
      BY DEF BatchDispatch, TypeOK
    <3>6. /\ freeSets' \subseteq Sets /\ inflightSets' \subseteq Sets /\ allocSets' \subseteq Sets
          /\ slotSets' \in [Slots -> SUBSET Sets]
      BY DEF BatchDispatch, TypeOK
    <3>7. UNCHANGED <<host, hostBuf, slotVars, slotKeep, owned, pool, recVars, fence, deviceVars>>
      BY DEF BatchDispatch
    <3> QED
      BY <3>2, <3>3, <3>4, <3>5, <3>6, <3>7 DEF TypeOK
  <2>5. ASSUME NEW B \in SUBSET owned, DispatchNow(B) PROVE TypeOK'
    BY <2>5, ReleaseType DEF TypeOK, HostStates, CommandBufferStates, DispatchNow, CaptureDispatch, CanAcquire, BeginFast, BeginFastFails, Retire, FencesReset, Parked, Victim
  <2>6. ASSUME TransferDone PROVE TypeOK'
    BY <2>6 DEF TypeOK, HostStates, CommandBufferStates, TransferDone
  <2>7. ASSUME BatchBegin PROVE TypeOK'
    <3>1. CASE BeginFastFails(freeSets)
      BY <2>7, <3>1, ReleaseType, BeginFastFailsType DEF BatchBegin, StartBatch, TypeOK
    <3>2. CASE BeginFast({}, {})
      <4>1. Parked(Victim) \subseteq Sets
        BY VictimSlots, ParkedType
      <4>2. CASE freeSets' = freeSets \cup Parked(Victim) /\ StartBatch
        BY <2>7, <3>2, <4>1, <4>2, ReleaseType, BeginFastType DEF BatchBegin, StartBatch, TypeOK
      <4> QED
        BY <2>7, <3>1, <4>2 DEF BatchBegin
    <3> QED
      BY <2>7, <3>1, <3>2 DEF TypeOK, HostStates, CommandBufferStates, BatchBegin
  <2>8. ASSUME BatchEnd PROVE TypeOK'
    BY <2>8, ReleaseType, ZenonT(60) DEF TypeOK, HostStates, CommandBufferStates, BatchEnd, ResetCommandPool, RecycleInflight
  <2>9. ASSUME BatchEndAsync PROVE TypeOK'
    BY <2>9, ReleaseType DEF TypeOK, HostStates, CommandBufferStates, BatchEndAsync, ResetCommandBuffer, RecycleInflight
  <2>10. ASSUME BatchWait PROVE TypeOK'
    BY <2>10, ReleaseType DEF TypeOK, HostStates, CommandBufferStates, BatchWait, Retire, FencesReset, Parked
  <2>11. ASSUME Submit PROVE TypeOK'
    BY <2>11 DEF TypeOK, HostStates, CommandBufferStates, Submit, QueueSubmit
  <2>12. ASSUME SubmitAsync PROVE TypeOK'
    BY <2>12 DEF TypeOK, HostStates, CommandBufferStates, SubmitAsync, QueueSubmit
  <2>13. ASSUME SubmitFails PROVE TypeOK'
    BY <2>13, ReleaseType DEF TypeOK, HostStates, CommandBufferStates, SubmitFails, RecycleInflight
  <2>14. ASSUME SyncDone PROVE TypeOK'
    BY <2>14, ReleaseType DEF TypeOK, HostStates, CommandBufferStates, SyncDone, FencesReset, RecycleInflight
  <2>15. ASSUME CaptureBegin PROVE TypeOK'
    BY <2>15, ReleaseType DEF TypeOK, HostStates, CommandBufferStates, CaptureBegin
  <2>16. ASSUME CaptureEnd PROVE TypeOK'
    BY <2>16, ReleaseType DEF TypeOK, HostStates, CommandBufferStates, CaptureEnd
  <2>17. ASSUME DropRecording PROVE TypeOK'
    BY <2>17, ReleaseType DEF TypeOK, HostStates, CommandBufferStates, DropRecording
  <2>18. ASSUME Replay PROVE TypeOK'
    BY <2>18, ReleaseType DEF TypeOK, HostStates, CommandBufferStates, Replay, CanAcquire, BeginFast, BeginFastFails, Retire, FencesReset, Parked, Victim, ResetCommandPool
  <2>19. ASSUME NEW s \in Slots, DeviceFinish(s) PROVE TypeOK'
    BY <2>19 DEF TypeOK, HostStates, CommandBufferStates, DeviceFinish
  <2>20. CASE UNCHANGED vars
    BY <2>20 DEF TypeOK, HostStates, CommandBufferStates, vars
  <2> QED
    BY <2>1, <2>2, <2>3, <2>4, <2>5, <2>6, <2>7, <2>8, <2>9, <2>10, <2>11, <2>12, <2>13, <2>14, <2>15, <2>16, <2>17, <2>18, <2>19, <2>20 DEF Next
<1> QED
  BY <1>1, <1>2, PTL DEF Spec

-----------------------------------------------------------------------------
(* The inductive invariant: one lemma per action, and under it one step    *)
(* per conjunct that the action can disturb.                               *)

HeldNext ==
  /\ SetsConserved' /\ IdleSlotsEmpty' /\ CurrentSlotFree' /\ FenceMeansFinished'
  /\ (\A i \in Slots : SubmissionHeld(i))' /\ RecordingHeld' /\ RecordingsKept' /\ PoolUnreferenced'

LEMMA CreateBufferHeld ==
  ASSUME TypeOK, HeldInv, NEW b \in Buffers, CreateBuffer(b)
  PROVE  HeldNext
<1> USE TwoSlots DEF HeldNext, slotVars, batchVars, setVars, keepVars, capVars, recVars, cmdVars,
      deviceVars, CreateBuffer
<1>1. (\A i \in Slots : SubmissionHeld(i))'
  BY DEF HeldInv, TypeOK, SubmissionHeld, CurrentSlotFree, Recording, FenceMeansFinished, RecordingHeld
<1>2. RecordingHeld'
  BY DEF HeldInv, TypeOK, RecordingHeld, Recording, CurrentSlotFree
<1>3. PoolUnreferenced'
  BY DEF HeldInv, TypeOK, PoolUnreferenced, Referenced, ReleaseUnreferenced
<1>4. /\ SetsConserved' /\ IdleSlotsEmpty' /\ CurrentSlotFree' /\ FenceMeansFinished'
  BY DEF HeldInv, TypeOK, SetsConserved, Parked, IdleSlotsEmpty, CurrentSlotFree, Recording, FenceMeansFinished, SubmissionHeld
<1>5. RecordingsKept'
  BY DEF HeldInv, RecordingsKept
<1> QED
  BY <1>1, <1>2, <1>3, <1>4, <1>5

LEMMA DropBufferHeld ==
  ASSUME TypeOK, HeldInv, NEW b \in Buffers, DropBuffer(b)
  PROVE  HeldNext
<1> USE TwoSlots DEF HeldNext, slotVars, batchVars, setVars, keepVars, capVars, recVars, cmdVars,
      deviceVars, DropBuffer
<1>1. (\A i \in Slots : SubmissionHeld(i))'
  BY DEF HeldInv, TypeOK, SubmissionHeld, CurrentSlotFree, Recording, FenceMeansFinished, RecordingHeld
<1>2. RecordingHeld'
  BY DEF HeldInv, TypeOK, RecordingHeld, Recording, CurrentSlotFree
<1>3. PoolUnreferenced'
  BY DEF HeldInv, TypeOK, PoolUnreferenced, Referenced, ReleaseUnreferenced
<1>4. /\ SetsConserved' /\ IdleSlotsEmpty' /\ CurrentSlotFree' /\ FenceMeansFinished'
  BY DEF HeldInv, TypeOK, SetsConserved, Parked, IdleSlotsEmpty, CurrentSlotFree, Recording, FenceMeansFinished, SubmissionHeld
<1>5. RecordingsKept'
  BY DEF HeldInv, RecordingsKept
<1> QED
  BY <1>1, <1>2, <1>3, <1>4, <1>5

LEMMA TransferHeld ==
  ASSUME TypeOK, HeldInv, NEW b \in Buffers, Transfer(b)
  PROVE  HeldNext
<1> USE TwoSlots DEF HeldNext, slotVars, batchVars, setVars, keepVars, capVars, recVars, cmdVars,
      deviceVars, Transfer
<1>1. /\ SetsConserved' /\ IdleSlotsEmpty' /\ CurrentSlotFree' /\ FenceMeansFinished'
      /\ (\A i \in Slots : SubmissionHeld(i))' /\ RecordingHeld' /\ PoolUnreferenced'
  BY DEF HeldInv, TypeOK, SetsConserved, Parked, IdleSlotsEmpty, CurrentSlotFree, Recording, FenceMeansFinished, SubmissionHeld, RecordingHeld, PoolUnreferenced, Referenced
<1>2. RecordingsKept'
  BY DEF HeldInv, RecordingsKept
<1> QED
  BY <1>1, <1>2

LEMMA TransferDoneHeld ==
  ASSUME TypeOK, HeldInv, TransferDone
  PROVE  HeldNext
<1> USE TwoSlots DEF HeldNext, slotVars, batchVars, setVars, keepVars, capVars, recVars, cmdVars,
      deviceVars, TransferDone
<1>1. /\ SetsConserved' /\ IdleSlotsEmpty' /\ CurrentSlotFree' /\ FenceMeansFinished'
      /\ (\A i \in Slots : SubmissionHeld(i))' /\ RecordingHeld' /\ PoolUnreferenced'
  BY DEF HeldInv, TypeOK, SetsConserved, Parked, IdleSlotsEmpty, CurrentSlotFree, Recording, FenceMeansFinished, SubmissionHeld, RecordingHeld, PoolUnreferenced, Referenced
<1>2. RecordingsKept'
  BY DEF HeldInv, RecordingsKept
<1> QED
  BY <1>1, <1>2

LEMMA BatchDispatchHeld ==
  ASSUME TypeOK, HeldInv, NEW B \in SUBSET owned, BatchDispatch(B)
  PROVE  HeldNext
<1> USE TwoSlots DEF HeldNext, slotVars, batchVars, setVars, keepVars, capVars, recVars, cmdVars,
      deviceVars, BatchDispatch, KeepAlive, CaptureDispatch
<1>1. SetsConserved' /\ RecordingHeld'
  <2>1. ASSUME UNCHANGED <<setVars, cmdVars, batchOpen>> PROVE SetsConserved' /\ RecordingHeld'
    <3>1. SetsConserved'
      BY <2>1 DEF HeldInv, SetsConserved, Parked
    <3>2. RecordingHeld'
      BY <2>1 DEF HeldInv, TypeOK, RecordingHeld, Recording, CurrentSlotFree
    <3> QED
      BY <3>1, <3>2
  <2>2. ASSUME NEW S \in SUBSET Sets, CanAcquire(freeSets, S, 1), freeSets' = freeSets \ S,
               allocSets' = allocSets \cup S, inflightSets' = inflightSets \cup S,
               cmdSets' = [cmdSets EXCEPT ![fastSlot] = @ \cup S],
               cmdBufs' = [cmdBufs EXCEPT ![fastSlot] = @ \cup B],
               UNCHANGED <<batchOpen, slotSets>>
        PROVE  SetsConserved' /\ RecordingHeld'
    <3>1. S \cap inflightSets = {} /\ \A s \in Slots : S \cap slotSets[s] = {}
      BY <2>2 DEF HeldInv, SetsConserved, Parked, CanAcquire
    <3>2. SetsConserved'
      BY <2>2, <3>1 DEF HeldInv, SetsConserved, Parked, TypeOK, CanAcquire
    <3>3. cmdSets'[fastSlot] = cmdSets[fastSlot] \cup S /\ cmdBufs'[fastSlot] = cmdBufs[fastSlot] \cup B
      BY <2>2 DEF TypeOK
    <3>4. batchOpen /\ host = "idle" /\ batchKeep' = batchKeep \cup B /\ UNCHANGED <<host, owned, recKeep, fastSlot>>
      OBVIOUS
    <3>5. RecordingHeld'
      BY <2>2, <3>3, <3>4 DEF HeldInv, RecordingHeld, Recording
    <3> QED
      BY <3>2, <3>5
  <2> QED
    BY <2>1, <2>2
<1>2. IdleSlotsEmpty' /\ CurrentSlotFree' /\ FenceMeansFinished' /\ (\A i \in Slots : SubmissionHeld(i))'
  BY ZenonT(60) DEF HeldInv, TypeOK, IdleSlotsEmpty, CurrentSlotFree, FenceMeansFinished, SubmissionHeld, Recording
<1>3. PoolUnreferenced'
  BY DEF HeldInv, PoolUnreferenced, Referenced
<1>4. RecordingsKept'
  BY DEF HeldInv, RecordingsKept
<1> QED
  BY <1>1, <1>2, <1>3, <1>4

LEMMA DispatchNowHeld ==
  ASSUME TypeOK, HeldInv, NEW B \in SUBSET owned, DispatchNow(B)
  PROVE  HeldNext
<1> USE TwoSlots DEF HeldNext, slotVars, batchVars, setVars, keepVars, capVars, recVars, cmdVars,
      deviceVars, DispatchNow, CaptureDispatch, CanAcquire, BeginFast, BeginFastFails, Retire, Waited, FencesReset, Parked, Victim
<1>1. SetsConserved'
  BY DEF HeldInv, TypeOK, SetsConserved, Parked
<1>2. IdleSlotsEmpty'
  BY DEF HeldInv, TypeOK, IdleSlotsEmpty
<1>3. CurrentSlotFree'
  BY DEF HeldInv, TypeOK, CurrentSlotFree, Recording
<1>4. FenceMeansFinished'
  BY DEF HeldInv, TypeOK, FenceMeansFinished, CurrentSlotFree, Recording, SubmissionHeld
<1>5. (\A i \in Slots : SubmissionHeld(i))'
  BY DEF HeldInv, TypeOK, SubmissionHeld, CurrentSlotFree, Recording, FenceMeansFinished, RecordingHeld
<1>6. RecordingHeld'
  BY DEF HeldInv, TypeOK, RecordingHeld, Recording, CurrentSlotFree
<1>7. PoolUnreferenced'
  BY DEF HeldInv, TypeOK, PoolUnreferenced, Referenced, ReleaseUnreferenced
<1>8. RecordingsKept'
  BY DEF HeldInv, RecordingsKept
<1> QED
  BY <1>1, <1>2, <1>3, <1>4, <1>5, <1>6, <1>7, <1>8

LEMMA BatchBeginHeld ==
  ASSUME TypeOK, HeldInv, BatchBegin
  PROVE  HeldNext
<1> USE TwoSlots DEF HeldNext, slotVars, batchVars, setVars, keepVars, capVars, recVars, cmdVars,
      deviceVars, BatchBegin, StartBatch, BeginFast, BeginFastFails, Retire, Waited, FencesReset, Parked, Victim
<1>1. SetsConserved'
  BY DEF HeldInv, TypeOK, SetsConserved, Parked
<1>2. IdleSlotsEmpty'
  BY DEF HeldInv, TypeOK, IdleSlotsEmpty
<1>3. CurrentSlotFree'
  BY DEF HeldInv, TypeOK, CurrentSlotFree, Recording
<1>4. FenceMeansFinished'
  BY DEF HeldInv, TypeOK, FenceMeansFinished, CurrentSlotFree, Recording, SubmissionHeld
<1>5. (\A i \in Slots : SubmissionHeld(i))'
  BY DEF HeldInv, TypeOK, SubmissionHeld, CurrentSlotFree, Recording, FenceMeansFinished, RecordingHeld
<1>6. RecordingHeld'
  BY DEF HeldInv, TypeOK, RecordingHeld, Recording, CurrentSlotFree
<1>7. PoolUnreferenced'
  BY DEF HeldInv, TypeOK, PoolUnreferenced, Referenced, ReleaseUnreferenced
<1>8. RecordingsKept'
  BY DEF HeldInv, RecordingsKept
<1> QED
  BY <1>1, <1>2, <1>3, <1>4, <1>5, <1>6, <1>7, <1>8

LEMMA BatchEndHeld ==
  ASSUME TypeOK, HeldInv, BatchEnd
  PROVE  HeldNext
<1> USE TwoSlots DEF HeldNext, slotVars, batchVars, setVars, keepVars, capVars, recVars, cmdVars,
      deviceVars, BatchEnd, Discards, ResetCommandPool, RecycleInflight
<1>1. SetsConserved'
  BY DEF HeldInv, TypeOK, SetsConserved, Parked
<1>2. CurrentSlotFree'
  BY DEF HeldInv, TypeOK, CurrentSlotFree, Recording
<1>3. (\A i \in Slots : SubmissionHeld(i))'
  BY DEF HeldInv, TypeOK, SubmissionHeld, CurrentSlotFree, Recording, FenceMeansFinished, RecordingHeld
<1>4. RecordingHeld'
  BY DEF HeldInv, TypeOK, RecordingHeld, Recording, CurrentSlotFree
<1>5. PoolUnreferenced'
  BY DEF HeldInv, TypeOK, PoolUnreferenced, Referenced, ReleaseUnreferenced
<1>6. /\ IdleSlotsEmpty' /\ FenceMeansFinished'
  BY DEF HeldInv, TypeOK, IdleSlotsEmpty, FenceMeansFinished, CurrentSlotFree, Recording, SubmissionHeld
<1>7. RecordingsKept'
  BY DEF HeldInv, RecordingsKept
<1> QED
  BY <1>1, <1>2, <1>3, <1>4, <1>5, <1>6, <1>7

LEMMA BatchEndAsyncHeld ==
  ASSUME TypeOK, HeldInv, BatchEndAsync
  PROVE  HeldNext
<1> USE TwoSlots DEF HeldNext, slotVars, batchVars, setVars, keepVars, capVars, recVars, cmdVars,
      deviceVars, BatchEndAsync, Discards, ResetCommandBuffer, RecycleInflight
<1>1. SetsConserved'
  BY DEF HeldInv, TypeOK, SetsConserved, Parked
<1>2. CurrentSlotFree'
  BY DEF HeldInv, TypeOK, CurrentSlotFree, Recording
<1>3. (\A i \in Slots : SubmissionHeld(i))'
  BY DEF HeldInv, TypeOK, SubmissionHeld, CurrentSlotFree, Recording, FenceMeansFinished, RecordingHeld
<1>4. RecordingHeld'
  BY DEF HeldInv, TypeOK, RecordingHeld, Recording, CurrentSlotFree
<1>5. PoolUnreferenced'
  BY DEF HeldInv, TypeOK, PoolUnreferenced, Referenced, ReleaseUnreferenced
<1>6. /\ IdleSlotsEmpty' /\ FenceMeansFinished'
  BY DEF HeldInv, TypeOK, IdleSlotsEmpty, FenceMeansFinished, CurrentSlotFree, Recording, SubmissionHeld
<1>7. RecordingsKept'
  BY DEF HeldInv, RecordingsKept
<1> QED
  BY <1>1, <1>2, <1>3, <1>4, <1>5, <1>6, <1>7

LEMMA BatchWaitHeld ==
  ASSUME TypeOK, HeldInv, BatchWait
  PROVE  HeldNext
<1> USE TwoSlots DEF HeldNext, slotVars, batchVars, setVars, keepVars, capVars, recVars, cmdVars,
      deviceVars, BatchWait, Retire, Waited, FencesReset, Parked
<1>1. SetsConserved'
  BY DEF HeldInv, TypeOK, SetsConserved, Parked
<1>2. IdleSlotsEmpty'
  BY DEF HeldInv, TypeOK, IdleSlotsEmpty
<1>3. CurrentSlotFree'
  BY DEF HeldInv, TypeOK, CurrentSlotFree, Recording
<1>4. FenceMeansFinished'
  BY DEF HeldInv, TypeOK, FenceMeansFinished, CurrentSlotFree, Recording, SubmissionHeld
<1>5. (\A i \in Slots : SubmissionHeld(i))'
  BY DEF HeldInv, TypeOK, SubmissionHeld, CurrentSlotFree, Recording, FenceMeansFinished, RecordingHeld
<1>6. RecordingHeld'
  BY DEF HeldInv, TypeOK, RecordingHeld, Recording, CurrentSlotFree
<1>7. PoolUnreferenced'
  BY DEF HeldInv, TypeOK, PoolUnreferenced, Referenced, ReleaseUnreferenced
<1>8. RecordingsKept'
  BY DEF HeldInv, RecordingsKept
<1> QED
  BY <1>1, <1>2, <1>3, <1>4, <1>5, <1>6, <1>7, <1>8

LEMMA SubmitHeld ==
  ASSUME TypeOK, HeldInv, Submit
  PROVE  HeldNext
<1> USE TwoSlots DEF HeldNext, slotVars, batchVars, setVars, keepVars, capVars, recVars, cmdVars,
      deviceVars, Submit, QueueSubmit
<1>1. CurrentSlotFree'
  BY DEF HeldInv, TypeOK, CurrentSlotFree, Recording
<1>2. FenceMeansFinished'
  BY DEF HeldInv, TypeOK, FenceMeansFinished, CurrentSlotFree, Recording, SubmissionHeld
<1>3. (\A i \in Slots : SubmissionHeld(i))'
  BY DEF HeldInv, TypeOK, SubmissionHeld, CurrentSlotFree, Recording, FenceMeansFinished, RecordingHeld
<1>4. RecordingHeld'
  BY DEF HeldInv, TypeOK, RecordingHeld, Recording, CurrentSlotFree
<1>5. /\ SetsConserved' /\ IdleSlotsEmpty' /\ PoolUnreferenced'
  BY DEF HeldInv, TypeOK, SetsConserved, Parked, IdleSlotsEmpty, PoolUnreferenced, Referenced
<1>6. RecordingsKept'
  BY DEF HeldInv, RecordingsKept
<1> QED
  BY <1>1, <1>2, <1>3, <1>4, <1>5, <1>6

LEMMA SubmitAsyncHeld ==
  ASSUME TypeOK, HeldInv, SubmitAsync
  PROVE  HeldNext
<1> USE TwoSlots DEF HeldNext, slotVars, batchVars, setVars, keepVars, capVars, recVars, cmdVars,
      deviceVars, SubmitAsync, QueueSubmit
<1>1. SetsConserved'
  BY DEF HeldInv, TypeOK, SetsConserved, Parked
<1>2. IdleSlotsEmpty'
  BY DEF HeldInv, TypeOK, IdleSlotsEmpty
<1>3. CurrentSlotFree'
  BY DEF HeldInv, TypeOK, CurrentSlotFree, Recording
<1>4. FenceMeansFinished'
  BY DEF HeldInv, TypeOK, FenceMeansFinished, CurrentSlotFree, Recording, SubmissionHeld
<1>5. (\A i \in Slots : SubmissionHeld(i))'
  BY DEF HeldInv, TypeOK, SubmissionHeld, CurrentSlotFree, Recording, FenceMeansFinished, RecordingHeld
<1>6. RecordingHeld'
  BY DEF HeldInv, TypeOK, RecordingHeld, Recording, CurrentSlotFree
<1>7. PoolUnreferenced'
  BY DEF HeldInv, TypeOK, PoolUnreferenced, Referenced, ReleaseUnreferenced
<1>8. RecordingsKept'
  BY DEF HeldInv, RecordingsKept
<1> QED
  BY <1>1, <1>2, <1>3, <1>4, <1>5, <1>6, <1>7, <1>8

LEMMA SubmitFailsHeld ==
  ASSUME TypeOK, HeldInv, SubmitFails
  PROVE  HeldNext
<1> USE TwoSlots DEF HeldNext, slotVars, batchVars, setVars, keepVars, capVars, recVars, cmdVars,
      deviceVars, SubmitFails, RecycleInflight
<1>1. SetsConserved'
  BY DEF HeldInv, TypeOK, SetsConserved, Parked
<1>2. CurrentSlotFree'
  BY DEF HeldInv, TypeOK, CurrentSlotFree, Recording
<1>3. FenceMeansFinished'
  BY DEF HeldInv, TypeOK, FenceMeansFinished, CurrentSlotFree, Recording, SubmissionHeld
<1>4. (\A i \in Slots : SubmissionHeld(i))'
  BY DEF HeldInv, TypeOK, SubmissionHeld, CurrentSlotFree, Recording, FenceMeansFinished, RecordingHeld
<1>5. RecordingHeld'
  BY DEF HeldInv, TypeOK, RecordingHeld, Recording, CurrentSlotFree
<1>6. PoolUnreferenced'
  BY DEF HeldInv, TypeOK, PoolUnreferenced, Referenced, ReleaseUnreferenced
<1>7. /\ IdleSlotsEmpty'
  BY DEF HeldInv, TypeOK, IdleSlotsEmpty
<1>8. RecordingsKept'
  BY DEF HeldInv, RecordingsKept
<1> QED
  BY <1>1, <1>2, <1>3, <1>4, <1>5, <1>6, <1>7, <1>8

LEMMA SyncDoneHeld ==
  ASSUME TypeOK, HeldInv, SyncDone, "wait_sync" \notin Faults
  PROVE  HeldNext
<1> USE TwoSlots DEF HeldNext, slotVars, batchVars, setVars, keepVars, capVars, recVars, cmdVars,
      deviceVars, SyncDone, RecycleInflight, Waited, FencesReset
<1>1. SetsConserved'
  BY DEF HeldInv, TypeOK, SetsConserved, Parked
<1>2. IdleSlotsEmpty'
  BY DEF HeldInv, TypeOK, IdleSlotsEmpty
<1>3. CurrentSlotFree'
  BY DEF HeldInv, TypeOK, CurrentSlotFree, Recording
<1>4. FenceMeansFinished'
  BY DEF HeldInv, TypeOK, FenceMeansFinished, CurrentSlotFree, Recording, SubmissionHeld
<1>5. (\A i \in Slots : SubmissionHeld(i))'
  BY DEF HeldInv, TypeOK, SubmissionHeld, CurrentSlotFree, Recording, FenceMeansFinished, RecordingHeld
<1>6. RecordingHeld'
  BY DEF HeldInv, TypeOK, RecordingHeld, Recording, CurrentSlotFree
<1>7. PoolUnreferenced'
  BY DEF HeldInv, TypeOK, PoolUnreferenced, Referenced, ReleaseUnreferenced
<1>8. RecordingsKept'
  BY DEF HeldInv, RecordingsKept
<1> QED
  BY <1>1, <1>2, <1>3, <1>4, <1>5, <1>6, <1>7, <1>8

LEMMA CaptureBeginHeld ==
  ASSUME TypeOK, HeldInv, CaptureBegin
  PROVE  HeldNext
<1> USE TwoSlots DEF HeldNext, slotVars, batchVars, setVars, keepVars, capVars, recVars, cmdVars,
      deviceVars, CaptureBegin
<1>1. PoolUnreferenced'
  BY DEF HeldInv, TypeOK, PoolUnreferenced, Referenced, ReleaseUnreferenced
<1>2. /\ SetsConserved' /\ IdleSlotsEmpty' /\ CurrentSlotFree' /\ FenceMeansFinished'
      /\ (\A i \in Slots : SubmissionHeld(i))' /\ RecordingHeld'
  BY DEF HeldInv, TypeOK, SetsConserved, Parked, IdleSlotsEmpty, CurrentSlotFree, Recording, FenceMeansFinished, SubmissionHeld, RecordingHeld
<1>3. RecordingsKept'
  BY DEF HeldInv, RecordingsKept
<1> QED
  BY <1>1, <1>2, <1>3

LEMMA CaptureEndHeld ==
  ASSUME TypeOK, HeldInv, CaptureEnd
  PROVE  HeldNext
<1> USE TwoSlots DEF HeldNext, slotVars, batchVars, setVars, keepVars, capVars, recVars, cmdVars,
      deviceVars, CaptureEnd
<1>1. (\A i \in Slots : SubmissionHeld(i))'
  BY DEF HeldInv, TypeOK, SubmissionHeld, CurrentSlotFree, Recording, FenceMeansFinished, RecordingHeld
<1>2. RecordingHeld'
  BY DEF HeldInv, TypeOK, RecordingHeld, Recording, CurrentSlotFree
<1>3. PoolUnreferenced'
  BY DEF HeldInv, TypeOK, PoolUnreferenced, Referenced, ReleaseUnreferenced
<1>4. /\ SetsConserved' /\ IdleSlotsEmpty' /\ CurrentSlotFree' /\ FenceMeansFinished'
  BY DEF HeldInv, TypeOK, SetsConserved, Parked, IdleSlotsEmpty, CurrentSlotFree, Recording, FenceMeansFinished, SubmissionHeld
<1>5. RecordingsKept'
  BY DEF HeldInv, RecordingsKept
<1> QED
  BY <1>1, <1>2, <1>3, <1>4, <1>5

LEMMA DropRecordingHeld ==
  ASSUME TypeOK, HeldInv, DropRecording
  PROVE  HeldNext
<1> USE TwoSlots DEF HeldNext, slotVars, batchVars, setVars, keepVars, capVars, recVars, cmdVars,
      deviceVars, DropRecording
<1>1. (\A i \in Slots : SubmissionHeld(i))'
  BY DEF HeldInv, TypeOK, SubmissionHeld, CurrentSlotFree, Recording, FenceMeansFinished, RecordingHeld
<1>2. RecordingHeld'
  BY DEF HeldInv, TypeOK, RecordingHeld, Recording, CurrentSlotFree
<1>3. PoolUnreferenced'
  BY DEF HeldInv, TypeOK, PoolUnreferenced, Referenced, ReleaseUnreferenced
<1>4. /\ SetsConserved' /\ IdleSlotsEmpty' /\ CurrentSlotFree' /\ FenceMeansFinished'
  BY DEF HeldInv, TypeOK, SetsConserved, Parked, IdleSlotsEmpty, CurrentSlotFree, Recording, FenceMeansFinished, SubmissionHeld
<1>5. RecordingsKept'
  BY DEF HeldInv, RecordingsKept
<1> QED
  BY <1>1, <1>2, <1>3, <1>4, <1>5

LEMMA ReplayHeld ==
  ASSUME TypeOK, HeldInv, Replay
  PROVE  HeldNext
<1> USE TwoSlots DEF HeldNext, slotVars, batchVars, setVars, keepVars, capVars, recVars, cmdVars,
      deviceVars, Replay, CanAcquire, BeginFast, BeginFastFails, Retire, Waited, FencesReset, Parked, Victim, ResetCommandPool
<1>1. SetsConserved'
  BY SMTT(120) DEF HeldInv, TypeOK, SetsConserved, Parked
<1>2. IdleSlotsEmpty'
  BY SMTT(120) DEF HeldInv, TypeOK, IdleSlotsEmpty
<1>3. CurrentSlotFree'
  BY SMTT(120) DEF HeldInv, TypeOK, CurrentSlotFree, Recording
<1>4. FenceMeansFinished'
  BY SMTT(60) DEF HeldInv, TypeOK, FenceMeansFinished, CurrentSlotFree, Recording, SubmissionHeld
<1>5. (\A i \in Slots : SubmissionHeld(i))'
  BY SMTT(120) DEF HeldInv, TypeOK, SubmissionHeld, CurrentSlotFree, Recording, FenceMeansFinished, RecordingHeld
<1>6. RecordingHeld'
  BY SMTT(120) DEF HeldInv, TypeOK, RecordingHeld, Recording, CurrentSlotFree, RecordingsKept
<1>7. PoolUnreferenced'
  BY SMTT(120) DEF HeldInv, TypeOK, PoolUnreferenced, Referenced, ReleaseUnreferenced
<1>8. RecordingsKept'
  BY DEF HeldInv, RecordingsKept
<1> QED
  BY <1>1, <1>2, <1>3, <1>4, <1>5, <1>6, <1>7, <1>8

LEMMA DeviceFinishHeld ==
  ASSUME TypeOK, HeldInv, NEW s \in Slots, DeviceFinish(s)
  PROVE  HeldNext
<1> USE TwoSlots DEF HeldNext, slotVars, batchVars, setVars, keepVars, capVars, recVars, cmdVars,
      deviceVars, DeviceFinish
<1>1. FenceMeansFinished'
  BY DEF HeldInv, TypeOK, FenceMeansFinished, CurrentSlotFree, Recording, SubmissionHeld
<1>2. (\A i \in Slots : SubmissionHeld(i))'
  BY DEF HeldInv, TypeOK, SubmissionHeld, CurrentSlotFree, Recording, FenceMeansFinished, RecordingHeld
<1>3. /\ SetsConserved' /\ IdleSlotsEmpty' /\ CurrentSlotFree' /\ RecordingHeld'
      /\ PoolUnreferenced'
  BY DEF HeldInv, TypeOK, SetsConserved, Parked, IdleSlotsEmpty, CurrentSlotFree, Recording, RecordingHeld, PoolUnreferenced, Referenced
<1>4. RecordingsKept'
  BY DEF HeldInv, RecordingsKept
<1> QED
  BY <1>1, <1>2, <1>3, <1>4

-----------------------------------------------------------------------------
(* The theorems.                                                           *)

\* HeldInv is an invariant of every behaviour in which no blocking wait fails.
THEOREM HeldAlways ==
  ASSUME "wait_sync" \notin Faults
  PROVE  Spec => []HeldInv
<1>1. Init => HeldInv
  <2> SUFFICES ASSUME Init PROVE HeldInv
    OBVIOUS
  <2>1. TypeOK
    BY Bounds, TwoSlots DEF Init, TypeOK, HostStates, CommandBufferStates
  <2>2. SetsConserved /\ IdleSlotsEmpty
    BY TwoSlots DEF Init, SetsConserved, IdleSlotsEmpty, Parked
  <2>3. CurrentSlotFree /\ FenceMeansFinished /\ RecordingHeld
    BY TwoSlots DEF Init, CurrentSlotFree, FenceMeansFinished, RecordingHeld, Recording
  <2>4. (\A s \in Slots : SubmissionHeld(s)) /\ PoolUnreferenced
    BY DEF Init, SubmissionHeld, PoolUnreferenced
  <2>5. RecordingsKept
    BY DEF Init, RecordingsKept
  <2> QED
    BY <2>1, <2>2, <2>3, <2>4, <2>5 DEF HeldInv
<1>2. TypeOK /\ TypeOK' /\ HeldInv /\ [Next]_vars => HeldInv'
  <2> SUFFICES ASSUME TypeOK, TypeOK', HeldInv, [Next]_vars PROVE HeldInv'
    OBVIOUS
  <2>1. CASE UNCHANGED vars
    <3>1. SetsConserved' /\ IdleSlotsEmpty' /\ CurrentSlotFree' /\ FenceMeansFinished'
      BY <2>1 DEF vars, slotVars, batchVars, setVars, keepVars, deviceVars, HeldInv, SetsConserved, Parked,
         IdleSlotsEmpty, CurrentSlotFree, FenceMeansFinished, Recording
    <3>2. (\A s \in Slots : SubmissionHeld(s))' /\ RecordingHeld' /\ PoolUnreferenced'
      BY <2>1 DEF vars, slotVars, batchVars, setVars, keepVars, capVars, recVars, cmdVars, deviceVars,
         HeldInv, SubmissionHeld, RecordingHeld, Recording, PoolUnreferenced, Referenced
    <3>3. RecordingsKept'
      BY <2>1 DEF vars, capVars, recVars, HeldInv, RecordingsKept
    <3> QED
      BY <3>1, <3>2, <3>3 DEF HeldInv
  <2>2. CASE Next
    <3>1. HeldNext
      BY <2>2, CreateBufferHeld, DropBufferHeld, TransferHeld, TransferDoneHeld, BatchDispatchHeld,
         DispatchNowHeld, BatchBeginHeld, BatchEndHeld, BatchEndAsyncHeld, BatchWaitHeld,
         SubmitHeld, SubmitAsyncHeld, SubmitFailsHeld, SyncDoneHeld, CaptureBeginHeld,
         CaptureEndHeld, DropRecordingHeld, ReplayHeld, DeviceFinishHeld DEF Next
    <3> QED
      BY <3>1 DEF HeldInv, HeldNext
  <2> QED
    BY <2>1, <2>2
<1> QED
  BY <1>1, <1>2, TypeCorrect, PTL DEF Spec

\* No buffer that an unfinished submission uses is destroyed or handed out by the pool.
THEOREM BuffersHeld ==
  ASSUME "wait_sync" \notin Faults
  PROVE  Spec => []InFlightBuffersHeld
<1>1. HeldInv => InFlightBuffersHeld
  <2> SUFFICES ASSUME HeldInv, NEW s \in Slots
               PROVE  gpuBufs[s] \subseteq Referenced /\ gpuBufs[s] \cap pool = {}
    BY DEF InFlightBuffersHeld
  <2>1. gpuBufs[s] \subseteq Referenced
    BY DEF HeldInv, SubmissionHeld, Referenced
  <2> QED
    BY <2>1 DEF HeldInv, PoolUnreferenced
<1> QED
  BY <1>1, HeldAlways, PTL

\* No descriptor set that an unfinished submission uses is free, recorded again, or used
\* by the other slot's submission.
THEOREM SetsHeld ==
  ASSUME "wait_sync" \notin Faults
  PROVE  Spec => []InFlightSetsHeld
<1>1. HeldInv => InFlightSetsHeld
  <2> SUFFICES ASSUME HeldInv, NEW s \in Slots
               PROVE  /\ gpuSets[s] \cap freeSets = {}
                      /\ \A t \in Slots \ {s} : running[s] => gpuSets[s] \cap gpuSets[t] = {}
                      /\ Recording => gpuSets[s] \cap cmdSets[fastSlot] = {}
    BY DEF InFlightSetsHeld
  <2>1. CASE ~running[s]
    BY <2>1 DEF HeldInv, SubmissionHeld
  <2>2. CASE running[s]
    <3>1. gpuSets[s] \cap freeSets = {}
      BY <2>2 DEF HeldInv, SubmissionHeld, SetsConserved
    <3>2. ASSUME NEW t \in Slots \ {s} PROVE gpuSets[s] \cap gpuSets[t] = {}
      BY <2>2, <3>2, TwoSlots DEF HeldInv, SubmissionHeld, SetsConserved
    <3>3. ASSUME Recording PROVE gpuSets[s] \cap cmdSets[fastSlot] = {}
      <4>1. pending[s] /\ gpuSets[s] \subseteq slotSets[s]
        BY <2>2, <3>3 DEF HeldInv, SubmissionHeld, CurrentSlotFree, Recording
      <4> QED
        BY <4>1, <3>3 DEF HeldInv, SetsConserved, RecordingHeld
    <3> QED
      BY <3>1, <3>2, <3>3
  <2> QED
    BY <2>1, <2>2
<1> QED
  BY <1>1, HeldAlways, PTL

\* Parking, recycling and the error paths neither lose nor duplicate a descriptor set: the
\* runtime's lists partition the allocated sets.
THEOREM SetsConservedAlways ==
  ASSUME "wait_sync" \notin Faults
  PROVE  Spec => []SetsConserved
<1>1. HeldInv => SetsConserved
  BY DEF HeldInv
<1> QED
  BY <1>1, HeldAlways, PTL

\* Temporaries may die before batch_end: the open batch keeps every buffer it has recorded.
THEOREM OpenBatchKeepsAlways ==
  ASSUME "wait_sync" \notin Faults
  PROVE  Spec => []OpenBatchKeepsBuffers
<1>1. HeldInv => OpenBatchKeepsBuffers
  BY DEF HeldInv, RecordingHeld, OpenBatchKeepsBuffers
<1> QED
  BY <1>1, HeldAlways, PTL

\* No wait returns early on a signal left over from the slot's previous use.
THEOREM FencesAlways ==
  ASSUME "wait_sync" \notin Faults
  PROVE  Spec => []FenceMeansFinished
<1>1. HeldInv => FenceMeansFinished
  BY DEF HeldInv
<1> QED
  BY <1>1, HeldAlways, PTL

\* upload and download copy no buffer that the device is using, unless the client deferred
\* the submission and did not wait for it.
THEOREM CopiesAlone ==
  ASSUME "wait_sync" \notin Faults
  PROVE  Spec => []NoCopyOfRunning
<1>1. HeldInv => NoCopyOfRunning
  BY DEF HeldInv, SubmissionHeld, NoCopyOfRunning
<1> QED
  BY <1>1, HeldAlways, PTL

\* upload and download copy no buffer that the open batch has recorded: batch_keepalive,
\* which they look at, holds them all.
THEOREM CopiesOutsideBatch ==
  ASSUME "wait_sync" \notin Faults
  PROVE  Spec => []NoCopyOfRecorded
<1>1. Init => NoCopyOfRecorded
  BY DEF Init, NoCopyOfRecorded
<1>2. HeldInv /\ NoCopyOfRecorded /\ [Next]_vars => NoCopyOfRecorded'
  <2> SUFFICES ASSUME HeldInv, NoCopyOfRecorded, [Next]_vars, host' = "copy"
               PROVE  batchOpen' => hostBuf' \cap cmdBufs'[fastSlot'] = {}
    BY DEF NoCopyOfRecorded
  <2>1. ASSUME NEW b \in Buffers, Transfer(b)
        PROVE  batchOpen' => hostBuf' \cap cmdBufs'[fastSlot'] = {}
    BY <2>1 DEF Transfer, CopyAllowed, HeldInv, RecordingHeld, slotVars, batchVars, cmdVars
  <2>2. ASSUME NEW s \in Slots, DeviceFinish(s)
        PROVE  batchOpen' => hostBuf' \cap cmdBufs'[fastSlot'] = {}
    BY <2>2 DEF DeviceFinish, NoCopyOfRecorded, slotVars, batchVars
  <2>3. ASSUME UNCHANGED vars
        PROVE  batchOpen' => hostBuf' \cap cmdBufs'[fastSlot'] = {}
    BY <2>3 DEF vars, NoCopyOfRecorded, slotVars, batchVars, cmdVars
  <2>4. ASSUME Next, \A b \in Buffers : ~Transfer(b), \A s \in Slots : ~DeviceFinish(s)
        PROVE  FALSE
    BY <2>4 DEF Next, CreateBuffer, DropBuffer, BatchDispatch, DispatchNow, TransferDone,
       BatchBegin, BatchEnd, BatchEndAsync, BatchWait, Submit, SubmitAsync, SubmitFails, SyncDone,
       CaptureBegin, CaptureEnd, DropRecording, Replay
  <2> QED
    BY <2>1, <2>2, <2>3, <2>4
<1> QED
  BY <1>1, <1>2, HeldAlways, PTL DEF Spec

\* The pool hands out no buffer that somebody references, and never grows past its cap.
THEOREM PoolAlways ==
  ASSUME "wait_sync" \notin Faults, IsFiniteSet(Buffers)
  PROVE  Spec => []PoolHoldsOnlyDead
<1> DEFINE Capped == Cardinality(pool) <= PoolCap
<1>1. Init => Capped
  BY FS_EmptySet, ConstantsAssumption DEF Init, ConstantsAssumption
<1>2. HeldInv /\ Capped /\ [Next]_vars => Capped'
  <2> SUFFICES ASSUME HeldInv, Capped, [Next]_vars
               PROVE  Capped'
    OBVIOUS
  <2>1. IsFiniteSet(pool) /\ Cardinality(pool) \in Nat /\ PoolCap \in Nat
    BY FS_Subset, FS_CardinalityType, ConstantsAssumption DEF HeldInv, TypeOK, ConstantsAssumption
  <2>2. CASE UNCHANGED pool
    BY <2>2
  <2>3. CASE ReleaseUnreferenced
    BY <2>3 DEF ReleaseUnreferenced
  <2>4. ASSUME NEW b \in Buffers, CreateBuffer(b)
        PROVE  Capped'
    <3>1. pool' = pool \ {b}
      BY <2>4 DEF CreateBuffer
    <3>2. Cardinality(pool') <= Cardinality(pool) /\ Cardinality(pool') \in Nat
      <4>1. pool' \subseteq pool
        BY <3>1
      <4> QED
        BY <2>1, <4>1, FS_Subset, FS_CardinalityType
    <3> QED
      BY <2>1, <3>2
  <2>5. \/ UNCHANGED pool
        \/ ReleaseUnreferenced
        \/ \E b \in Buffers : CreateBuffer(b)
    BY DEF Next, vars, DropBuffer, Transfer, TransferDone, BatchDispatch, DispatchNow, BatchBegin,
       BatchEnd, BatchEndAsync, BatchWait, Submit, SubmitAsync, SubmitFails, SyncDone, CaptureBegin,
       CaptureEnd, DropRecording, Replay, DeviceFinish
  <2> QED
    BY <2>2, <2>3, <2>4, <2>5
<1>3. HeldInv /\ Capped => PoolHoldsOnlyDead
  BY DEF HeldInv, PoolUnreferenced, PoolHoldsOnlyDead
<1> HIDE DEF Capped
<1> QED
  BY <1>1, <1>2, <1>3, HeldAlways, PTL DEF Spec

\* What a batch submits is bound to exactly one descriptor set for each dispatch it counted.
THEOREM SubmittedAlways ==
  ASSUME "wait_sync" \notin Faults, IsFiniteSet(Sets)
  PROVE  Spec => []SubmittedComplete
<1>1. Init => SubmittedComplete
  BY DEF Init, SubmittedComplete
<1>2. HeldInv /\ SubmittedComplete /\ [Next]_vars => SubmittedComplete'
  <2> SUFFICES ASSUME HeldInv, SubmittedComplete, [Next]_vars, batchOpen'
               PROVE  Cardinality(cmdSets'[fastSlot']) = batchCount' /\ cmdSets'[fastSlot'] \subseteq inflightSets'
    BY DEF SubmittedComplete
  <2> USE DEF slotVars, batchVars, setVars, keepVars, capVars, recVars, cmdVars, deviceVars
  <2>0. TypeOK /\ SetsConserved /\ CurrentSlotFree
    BY DEF HeldInv
  <2>1. ASSUME batchOpen, UNCHANGED <<fastSlot, batchCount, inflightSets, cmdSets>>
        PROVE  Cardinality(cmdSets'[fastSlot']) = batchCount' /\ cmdSets'[fastSlot'] \subseteq inflightSets'
    BY <2>1 DEF SubmittedComplete
  <2>2. ASSUME BatchBegin
        PROVE  Cardinality(cmdSets'[fastSlot']) = batchCount' /\ cmdSets'[fastSlot'] \subseteq inflightSets'
    <3>1. BeginFast({}, {}) /\ StartBatch /\ fastSlot' = fastSlot
      BY <2>2 DEF BatchBegin
    <3>2. cmdSets'[fastSlot'] = {} /\ batchCount' = 0
      BY <2>0, <3>1 DEF BeginFast, StartBatch, TypeOK
    <3> QED
      BY <3>2, FS_EmptySet
  <2>3. ASSUME NEW B \in SUBSET owned, BatchDispatch(B)
        PROVE  Cardinality(cmdSets'[fastSlot']) = batchCount' /\ cmdSets'[fastSlot'] \subseteq inflightSets'
    <3>1. batchOpen /\ fastSlot' = fastSlot /\ fastSlot \in Slots
      BY <2>0, <2>3 DEF BatchDispatch, TypeOK
    <3>2. CASE UNCHANGED <<batchCount, inflightSets, cmdSets>>
      BY <2>1, <3>1, <3>2
    <3>3. ASSUME NEW S \in SUBSET Sets, CanAcquire(freeSets, S, 1),
                 inflightSets' = inflightSets \cup S,
                 cmdSets' = [cmdSets EXCEPT ![fastSlot] = @ \cup S],
                 batchCount' = batchCount + 1
          PROVE  Cardinality(cmdSets'[fastSlot']) = batchCount' /\ cmdSets'[fastSlot'] \subseteq inflightSets'
      <4> DEFINE bound == cmdSets[fastSlot]
      <4>1. bound \subseteq inflightSets /\ Cardinality(bound) = batchCount
        BY <3>1 DEF SubmittedComplete
      <4>2. bound \cap S = {} /\ Cardinality(S) = 1
        BY <2>0, <3>3, <4>1 DEF SetsConserved, CanAcquire
      <4>3. cmdSets'[fastSlot'] = bound \cup S
        BY <2>0, <3>1, <3>3 DEF TypeOK
      <4>4. IsFiniteSet(bound) /\ IsFiniteSet(S)
        BY <2>0, <3>1, FS_Subset DEF TypeOK
      <4>5. Cardinality(bound \cup S) = Cardinality(bound) + Cardinality(S)
        <5>1. Cardinality(bound \cup S) = Cardinality(bound) + Cardinality(S) - Cardinality(bound \cap S)
          BY <4>4, FS_Union
        <5>2. Cardinality(bound \cap S) = 0
          BY <4>2, FS_EmptySet
        <5>3. Cardinality(bound) \in Nat /\ Cardinality(S) \in Nat
          BY <4>4, FS_CardinalityType
        <5> QED
          BY <5>1, <5>2, <5>3
      <4> QED
        BY <3>3, <4>1, <4>2, <4>3, <4>5
    <3> QED
      BY <2>3, <3>2, <3>3 DEF BatchDispatch
  <2>4. \/ BatchBegin
        \/ \E B \in SUBSET owned : BatchDispatch(B)
        \/ batchOpen /\ UNCHANGED <<fastSlot, batchCount, inflightSets, cmdSets>>
    BY <2>0 DEF CurrentSlotFree, Next, vars, CreateBuffer, DropBuffer, Transfer, TransferDone,
       DispatchNow, BatchEnd, BatchEndAsync, BatchWait, Submit, SubmitAsync, SubmitFails, SyncDone,
       CaptureBegin, CaptureEnd, DropRecording, Replay, DeviceFinish
  <2> QED
    BY <2>1, <2>2, <2>3, <2>4
<1> QED
  BY <1>1, <1>2, HeldAlways, PTL DEF Spec

\* Once a call has returned, nothing of a closed batch or of a slot that was waited for
\* is still kept alive.
THEOREM NothingLeft ==
  ASSUME "wait_sync" \notin Faults
  PROVE  Spec => []NothingLeftBehind
<1>1. Init => NothingLeftBehind
  BY DEF Init, NothingLeftBehind, IdleSlotsEmpty
<1>2. HeldInv /\ HeldInv' /\ NothingLeftBehind /\ [Next]_vars => NothingLeftBehind'
  <2> SUFFICES ASSUME HeldInv, HeldInv', NothingLeftBehind, [Next]_vars,
                      host' \in {"idle", "copy"}, ~batchOpen'
               PROVE  batchKeep' = {}
    BY DEF NothingLeftBehind, HeldInv
  <2>1. ASSUME SubmitAsync PROVE batchKeep' = {}
    BY <2>1 DEF SubmitAsync, HeldInv, TypeOK, CurrentSlotFree, Recording, IdleSlotsEmpty
  <2>2. ASSUME UNCHANGED batchKeep, host \in {"idle", "copy"}, ~batchOpen PROVE batchKeep' = {}
    BY <2>2 DEF NothingLeftBehind
  <2>3. ASSUME ~SubmitAsync, Next
        PROVE  \/ batchKeep' = {}
               \/ UNCHANGED batchKeep /\ host \in {"idle", "copy"} /\ ~batchOpen
    BY <2>3 DEF Next, CreateBuffer, DropBuffer, Transfer, BatchDispatch, DispatchNow, TransferDone,
       BatchBegin, StartBatch, BatchEnd, BatchEndAsync, RecycleInflight, BatchWait, Submit,
       SubmitFails, SyncDone, CaptureBegin, CaptureEnd, DropRecording, Replay, DeviceFinish,
       slotVars, batchVars, setVars, keepVars, capVars, recVars, cmdVars, deviceVars
  <2> QED
    BY <2>1, <2>2, <2>3 DEF vars, keepVars, batchVars
<1> QED
  BY <1>1, <1>2, HeldAlways, PTL DEF Spec

\* A batch in which a dispatch failed is never submitted, whatever faults occur.
THEOREM PoisonedDiscarded == Spec => PoisonedNeverSubmitted
<1> DEFINE OpenIdle == batchOpen => host \in {"idle", "copy"}
<1>1. Init => OpenIdle
  BY DEF Init
<1>2. OpenIdle /\ [Next]_vars => OpenIdle' /\ (batchOpen /\ batchError => host' \notin {"submit", "submit_async"})
  <2> SUFFICES ASSUME OpenIdle, [Next]_vars
               PROVE  /\ OpenIdle'
                      /\ batchOpen /\ batchError => host' \notin {"submit", "submit_async"}
    OBVIOUS
  <2> USE DEF slotVars, batchVars, setVars, keepVars, capVars, recVars, cmdVars, deviceVars
  <2>1. CASE BatchEnd \/ BatchEndAsync
    BY <2>1 DEF BatchEnd, BatchEndAsync, Discards
  <2>2. CASE \E B \in SUBSET owned \ {{}} : BatchDispatch(B) \/ DispatchNow(B)
    BY <2>2 DEF BatchDispatch, DispatchNow
  <2>3. CASE BatchBegin \/ Replay
    BY <2>3 DEF BatchBegin, StartBatch, Replay
  <2>4. CASE UNCHANGED vars
    BY <2>4 DEF vars
  <2>5. CASE \/ \E b \in Buffers : CreateBuffer(b) \/ DropBuffer(b) \/ Transfer(b)
             \/ TransferDone \/ BatchWait \/ Submit \/ SubmitAsync \/ SubmitFails \/ SyncDone
             \/ CaptureBegin \/ CaptureEnd \/ DropRecording
             \/ \E s \in Slots : DeviceFinish(s)
    BY <2>5 DEF CreateBuffer, DropBuffer, Transfer, TransferDone, BatchWait, Submit, SubmitAsync,
       SubmitFails, SyncDone, CaptureBegin, CaptureEnd, DropRecording, DeviceFinish
  <2> QED
    BY <2>1, <2>2, <2>3, <2>4, <2>5 DEF Next
<1> QED
  BY <1>1, <1>2, PTL DEF Spec, PoisonedNeverSubmitted

\* For a client of batch_end_async, whose replays are not discarded: no command buffer is
\* reset or recorded while the device owns it.
THEOREM PendingKept ==
  ASSUME "wait_sync" \notin Faults, "batch_end" \notin Calls,
         "replay" \notin Calls \/ "dispatch" \notin Faults
  PROVE  Spec => PendingNeverReset
<1> DEFINE Kept == \A s \in Slots : cmdState[s] = "pending" /\ running'[s] => cmdState'[s] = "pending"
<1>1. HeldInv /\ [Next]_vars => Kept
  <2> SUFFICES ASSUME HeldInv, [Next]_vars
               PROVE  Kept
    OBVIOUS
  <2> USE DEF slotVars, batchVars, setVars, keepVars, capVars, recVars, cmdVars, deviceVars
  <2>0. /\ TypeOK /\ CurrentSlotFree /\ FenceMeansFinished
        /\ \A s \in Slots : running[s] /\ host # "waiting" => pending[s]
    BY DEF HeldInv, SubmissionHeld
  <2>1. ASSUME UNCHANGED cmdState
        PROVE  Kept
    BY <2>1
  <2>2. ASSUME UNCHANGED running, ~running[fastSlot],
               \A s \in Slots : s # fastSlot => cmdState'[s] = cmdState[s]
        PROVE  Kept
    BY <2>2
  <2>3. ASSUME Retire(Victim), ~pending'[fastSlot], host # "waiting"
        PROVE  ~running[fastSlot]
    <3>1. pending'[fastSlot] = (pending[fastSlot] /\ fastSlot \notin Victim)
      BY <2>0, <2>3 DEF Retire, TypeOK
    <3>2. pending[fastSlot] => fence[fastSlot]
      BY <2>0, <2>3, <3>1 DEF Retire, Waited, TypeOK
    <3>3. fastSlot \in Slots
      BY <2>0 DEF TypeOK
    <3>4. running[fastSlot] => pending[fastSlot]
      BY <2>0, <2>3, <3>3
    <3>5. fence[fastSlot] => ~running[fastSlot]
      BY <2>0, <3>3 DEF FenceMeansFinished
    <3> QED
      BY <3>2, <3>4, <3>5
  <2>4. ASSUME NEW S, NEW B, BeginFast(S, B), UNCHANGED running, host = "idle"
        PROVE  Kept
    <3>1. ~running[fastSlot]
      BY <2>3, <2>4 DEF BeginFast
    <3>2. \A s \in Slots : s # fastSlot => cmdState'[s] = cmdState[s]
      BY <2>0, <2>4 DEF BeginFast, TypeOK
    <3> QED
      BY <2>2, <2>4, <3>1, <3>2
  <2>5. ASSUME NEW free, BeginFastFails(free), UNCHANGED running, host = "idle"
        PROVE  Kept
    <3>1. CASE UNCHANGED cmdState
      BY <2>1, <3>1
    <3>2. CASE /\ Retire(Victim)
               /\ ~pending'[fastSlot]
               /\ cmdState' = [cmdState EXCEPT ![fastSlot] = "initial"]
      <4>1. ~running[fastSlot]
        BY <2>3, <2>5, <3>2
      <4>2. \A s \in Slots : s # fastSlot => cmdState'[s] = cmdState[s]
        BY <2>0, <3>2 DEF TypeOK
      <4> QED
        BY <2>2, <2>5, <4>1, <4>2
    <3> QED
      BY <2>5, <3>1, <3>2 DEF BeginFastFails
  <2>6. CASE BatchBegin
    BY <2>4, <2>5, <2>6 DEF BatchBegin
  <2>7. ASSUME NEW B, DispatchNow(B)
        PROVE  Kept
    BY <2>1, <2>4, <2>5, <2>7 DEF DispatchNow
  <2>8. CASE Replay
    BY <2>4, <2>5, <2>8 DEF Replay
  <2>9. CASE BatchEndAsync
    <3>1. host = "idle" /\ batchOpen /\ UNCHANGED running
      BY <2>9 DEF BatchEndAsync
    <3>2. ~running[fastSlot]
      BY <2>0, <3>1 DEF CurrentSlotFree, Recording, TypeOK
    <3>3. \A s \in Slots : s # fastSlot => cmdState'[s] = cmdState[s]
      BY <2>0, <2>9 DEF BatchEndAsync, ResetCommandBuffer, TypeOK
    <3> QED
      BY <2>2, <3>1, <3>2, <3>3
  <2>10. CASE Submit \/ SubmitAsync
    BY <2>0, <2>10 DEF Submit, SubmitAsync, QueueSubmit, TypeOK
  <2>11. ASSUME NEW t \in Slots, DeviceFinish(t)
         PROVE  Kept
    BY <2>0, <2>11 DEF DeviceFinish, TypeOK
  <2>12. ASSUME NEW B \in SUBSET owned, BatchDispatch(B)
         PROVE  Kept
    BY <2>1, <2>12 DEF BatchDispatch
  <2>13. ~BatchEnd
    BY DEF BatchEnd
  <2>14. CASE \/ \E b \in Buffers : CreateBuffer(b) \/ DropBuffer(b) \/ Transfer(b)
              \/ TransferDone \/ BatchWait \/ SubmitFails \/ SyncDone
              \/ CaptureBegin \/ CaptureEnd \/ DropRecording
              \/ UNCHANGED vars
    BY <2>1, <2>14 DEF CreateBuffer, DropBuffer, Transfer, TransferDone, BatchWait, SubmitFails,
       SyncDone, CaptureBegin, CaptureEnd, DropRecording, vars
  <2> QED
    BY <2>6, <2>7, <2>8, <2>9, <2>10, <2>11, <2>12, <2>13, <2>14 DEF Next
<1> QED
  BY <1>1, HeldAlways, PTL DEF Spec, PendingNeverReset

\* A batch_begin that opens no batch has waited for the other slot, so that trying again
\* makes progress.
THEOREM BeginProgress ==
  ASSUME "wait_deferred" \notin Faults, "begin" \notin Faults
  PROVE  Spec => FailedBeginFreesSlot
<1>1. TypeOK /\ [Next]_vars => (BatchBegin /\ ~batchOpen' => \E s \in Slots : pending[s] /\ ~pending'[s])
  <2> SUFFICES ASSUME TypeOK, BatchBegin, ~batchOpen'
               PROVE  \E s \in Slots : pending[s] /\ ~pending'[s]
    OBVIOUS
  <2>1. Retire(Victim) /\ pending'[fastSlot]
    BY DEF BatchBegin, StartBatch, BeginFastFails
  <2>2. pending' = [s \in Slots |-> pending[s] /\ s \notin Victim]
    BY <2>1 DEF Retire
  <2>3. pending[fastSlot] /\ fastSlot \notin Victim
    BY <2>1, <2>2 DEF TypeOK
  <2>4. pending[Other(fastSlot)] /\ Victim = {Other(fastSlot)}
    BY <2>3 DEF Victim
  <2>5. Other(fastSlot) \in Slots
    BY TwoSlots DEF TypeOK
  <2> QED
    BY <2>2, <2>4, <2>5
<1> QED
  BY <1>1, TypeCorrect, PTL DEF Spec, FailedBeginFreesSlot

=============================================================================
