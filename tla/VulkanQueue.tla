---------------------------- MODULE VulkanQueue ----------------------------
(***************************************************************************)
(* The submission engine of VulkanRuntime (src/runtime/vulkan_backend.cpp):*)
(* batches, immediate dispatches, deferred submissions over two slots,     *)
(* capture and replay, and the recycling of descriptor sets and buffers.   *)
(*                                                                         *)
(* Two actors: the one host thread that calls the runtime, and the device, *)
(* which finishes submitted command buffers on its own time.  A host call  *)
(* that does not block is one action.  A call that waits for a deferred    *)
(* slot's fence is one action whose guard is that fence, because nothing   *)
(* but the device can move meanwhile.  A call that submits and waits is    *)
(* split where the device can move: it leaves "idle", passes through       *)
(* "submit" and "waiting", and returns to "idle".                          *)
(***************************************************************************)
EXTENDS Naturals, FiniteSets

CONSTANTS
  Buffers,        \* device allocations the runtime may own (VkBuffer + memory)
  Sets,           \* descriptor sets the descriptor pools can provide
  DeviceLocal,    \* the buffers that are not host visible (staging transfers)
  PoolCap,        \* kBufferPoolMaxAllocations, scaled down
  MaxDispatches,  \* bound: dispatches in one batch or one capture
  Calls,          \* the runtime's entry points the client uses
  Faults          \* the driver calls that may fail

AllCalls == {"batch_begin", "batch_end", "batch_end_async", "batch_wait", "dispatch",
             "dispatch_now", "transfer", "capture", "replay"}

\* One name for each place where the code handles a failing driver call:
\* get_pipeline / get_layout / acquire_descriptor_set, vkResetCommandBuffer or
\* vkBeginCommandBuffer, vkEndCommandBuffer or vkQueueSubmit, and vkWaitForFences for
\* a deferred slot or for the submission just made.
AllFaults == {"dispatch", "begin", "submit", "wait_deferred", "wait_sync"}

ASSUME ConstantsAssumption ==
  /\ DeviceLocal \subseteq Buffers
  /\ PoolCap \in Nat
  /\ MaxDispatches \in Nat \ {0}
  /\ Calls \subseteq AllCalls
  /\ Faults \subseteq AllFaults

kFastSlots == 2
Slots == 0 .. kFastSlots - 1

\* Where the host thread is: outside the runtime, about to submit the recorded
\* command buffer (synchronously or deferred), blocked on its fence, or copying.
HostStates == {"idle", "submit", "submit_async", "waiting", "copy"}

\* Vulkan's command buffer life cycle.
CommandBufferStates == {"initial", "recording", "pending", "done"}

VARIABLES
  host,          \* \in HostStates
  hostBuf,       \* the buffers an upload or download is copying (at most one)
  fastSlot,      \* fast_slot: the slot recorded into next
  pending,       \* fast_slot_pending
  batchOpen,     \* batch_open
  batchCount,    \* batch_dispatch_count
  batchError,    \* batch_error is not empty
  freeSets,      \* free_descriptor_sets
  inflightSets,  \* inflight_descriptor_sets
  slotSets,      \* fast_slot_sets
  allocSets,     \* sets allocated from descriptor_pools so far
  batchKeep,     \* batch_keepalive
  slotKeep,      \* fast_slot_keepalive
  owned,         \* buffers some live VulkanBuffer handle of the client owns
  pool,          \* buffer_pool
  capturing,     \* capturing
  capCount,      \* capture_list.size()
  capRaw,        \* buffers capture_list's entries bind, as raw handles
  capKeep,       \* buffers capture_list's entries keep alive
  recCount,      \* size of the client's VulkanDispatchRecording (0: none)
  recRaw,        \* buffers that recording binds, as raw handles
  recKeep,       \* buffers that recording keeps alive
  cmdState,      \* state of each slot's command buffer
  cmdSets,       \* descriptor sets bound in each slot's command buffer
  cmdBufs,       \* buffers bound through those sets
  fence,         \* is each slot's fence signalled
  running,       \* the device has not finished the slot's submission
  gpuSets,       \* descriptor sets that submission uses
  gpuBufs        \* buffers that submission uses

setVars    == <<freeSets, inflightSets, slotSets, allocSets>>
batchVars  == <<batchOpen, batchCount, batchError>>
keepVars   == <<batchKeep, slotKeep>>
capVars    == <<capturing, capCount, capRaw, capKeep>>
recVars    == <<recCount, recRaw, recKeep>>
cmdVars    == <<cmdState, cmdSets, cmdBufs>>
slotVars   == <<fastSlot, pending>>
deviceVars == <<running, gpuSets, gpuBufs>>
vars == <<host, hostBuf, slotVars, batchVars, setVars, keepVars, owned, pool,
          capVars, recVars, cmdVars, fence, deviceVars>>

TypeOK ==
  /\ host \in HostStates
  /\ hostBuf \subseteq Buffers
  /\ fastSlot \in Slots
  /\ pending \in [Slots -> BOOLEAN]
  /\ batchOpen \in BOOLEAN
  /\ batchCount \in 0 .. MaxDispatches
  /\ batchError \in BOOLEAN
  /\ freeSets \subseteq Sets
  /\ inflightSets \subseteq Sets
  /\ slotSets \in [Slots -> SUBSET Sets]
  /\ allocSets \subseteq Sets
  /\ batchKeep \subseteq Buffers
  /\ slotKeep \in [Slots -> SUBSET Buffers]
  /\ owned \subseteq Buffers
  /\ pool \subseteq Buffers
  /\ capturing \in BOOLEAN
  /\ capCount \in 0 .. MaxDispatches
  /\ capRaw \subseteq Buffers
  /\ capKeep \subseteq Buffers
  /\ recCount \in 0 .. MaxDispatches
  /\ recRaw \subseteq Buffers
  /\ recKeep \subseteq Buffers
  /\ cmdState \in [Slots -> CommandBufferStates]
  /\ cmdSets \in [Slots -> SUBSET Sets]
  /\ cmdBufs \in [Slots -> SUBSET Buffers]
  /\ fence \in [Slots -> BOOLEAN]
  /\ running \in [Slots -> BOOLEAN]
  /\ gpuSets \in [Slots -> SUBSET Sets]
  /\ gpuBufs \in [Slots -> SUBSET Buffers]

Init ==
  /\ host = "idle"
  /\ hostBuf = {}
  /\ fastSlot = 0
  /\ pending = [s \in Slots |-> FALSE]
  /\ batchOpen = FALSE
  /\ batchCount = 0
  /\ batchError = FALSE
  /\ freeSets = {}
  /\ inflightSets = {}
  /\ slotSets = [s \in Slots |-> {}]
  /\ allocSets = {}
  /\ batchKeep = {}
  /\ slotKeep = [s \in Slots |-> {}]
  /\ owned = {}
  /\ pool = {}
  /\ capturing = FALSE
  /\ capCount = 0
  /\ capRaw = {}
  /\ capKeep = {}
  /\ recCount = 0
  /\ recRaw = {}
  /\ recKeep = {}
  /\ cmdState = [s \in Slots |-> "initial"]
  /\ cmdSets = [s \in Slots |-> {}]
  /\ cmdBufs = [s \in Slots |-> {}]
  /\ fence = [s \in Slots |-> FALSE]
  /\ running = [s \in Slots |-> FALSE]
  /\ gpuSets = [s \in Slots |-> {}]
  /\ gpuBufs = [s \in Slots |-> {}]

-----------------------------------------------------------------------------
(* Buffers: shared ownership and the pool.                                 *)

\* The buffers whose VulkanBuffer::Impl some shared_ptr still references.
Referenced ==
  owned \cup batchKeep \cup capKeep \cup recKeep \cup (UNION {slotKeep[s] : s \in Slots})

ReleaseIgnoresCap ==  \* mutated form: pools everything, past the cap
  pool' = pool \cup (Referenced \ Referenced')

\* ~VulkanBuffer::Impl of every buffer whose last reference the step drops: pool_release
\* keeps the allocation while the pool has room and destroys it otherwise.
ReleaseUnreferenced ==
  LET gone == Referenced \ Referenced'
  IN \E kept \in SUBSET gone :
       /\ Cardinality(pool \cup kept) <= PoolCap \/ kept = {}
       /\ kept # gone => Cardinality(pool \cup kept) >= PoolCap
       /\ pool' = pool \cup kept

\* create_buffer: a pooled allocation of the size class first, else a new one.
CreateBuffer(b) ==
  /\ host = "idle"
  /\ IF pool # {} THEN b \in pool ELSE b \notin Referenced
  /\ owned' = owned \cup {b}
  /\ pool' = pool \ {b}
  /\ UNCHANGED <<host, hostBuf, slotVars, batchVars, setVars, keepVars, capVars,
                 recVars, cmdVars, fence, deviceVars>>

\* The client's last handle on b goes out of scope (a temporary tensor dies).
DropBuffer(b) ==
  /\ host = "idle"
  /\ b \in owned
  /\ owned' = owned \ {b}
  /\ UNCHANGED <<host, hostBuf, slotVars, batchVars, setVars, keepVars, capVars,
                 recVars, cmdVars, fence, deviceVars>>
  /\ ReleaseUnreferenced

CopyAlwaysAllowed(b) == b \in owned  \* mutated form: no guard

\* The guard of upload and download: the open batch does not reference b.
CopyAllowed(b) == batchOpen => b \notin batchKeep

\* upload / download of b.  A device-local buffer goes through the staging path, the
\* others are mapped and copied at once.
Transfer(b) ==
  /\ "transfer" \in Calls
  /\ host = "idle"
  /\ b \in owned
  /\ CopyAllowed(b)
  /\ host' = "copy"
  /\ hostBuf' = {b}
  /\ UNCHANGED <<slotVars, batchVars, setVars, keepVars, owned, pool, capVars, recVars,
                 cmdVars, fence, deviceVars>>

\* The copy is over, or failed.  run_transfer waits on a fence of the same queue, which
\* signals after every command submitted before it.
TransferDone ==
  /\ host = "copy"
  /\ hostBuf \cap DeviceLocal # {} => "wait_sync" \in Faults \/ \A s \in Slots : ~running[s]
  /\ host' = "idle"
  /\ hostBuf' = {}
  /\ UNCHANGED <<slotVars, batchVars, setVars, keepVars, owned, pool, capVars, recVars,
                 cmdVars, fence, deviceVars>>

-----------------------------------------------------------------------------
(* Descriptor sets and slots.                                              *)

OtherUnwrapped(s) == s + 1  \* mutated form: no modulo

Other(s) == (s + 1) % kFastSlots

\* acquire_descriptor_set, n times over, while `free` is the free list: free sets
\* first, then new ones from the descriptor pools.
CanAcquire(free, S, n) ==
  /\ S \subseteq free \cup (Sets \ allocSets)
  /\ Cardinality(S) = n
  /\ S \subseteq free \/ free \subseteq S

\* The sets parked with the slots of `done`.
Parked(done) == UNION {slotSets[s] : s \in done}

WaitSkipped(done) == done \subseteq Slots             \* mutated form: no wait
WaitOtherFence(done) == \A s \in done : fence[Other(s)]  \* mutated form: wrong fence

\* vkWaitForFences of these slots returned VK_SUCCESS.
Waited(done) == \A s \in done : fence[s]

FencesKept(done) ==  \* mutated form: no reset
  done \subseteq Slots /\ UNCHANGED fence
AllFencesReset(done) ==  \* mutated form: resets every slot's fence
  done \subseteq Slots /\ fence' = [s \in Slots |-> FALSE]

\* vkResetFences of these slots.
FencesReset(done) ==
  fence' = [s \in Slots |-> fence[s] /\ s \notin done]

RetireKeepsPending(done) ==  \* mutated form: fast_slot_pending is not cleared
  Waited(done) /\ FencesReset(done) /\ UNCHANGED <<pending, slotSets, slotKeep>>

\* wait_slot for each slot of `done`: its fence is waited for and reset, and what was
\* parked with it is given back (the sets by the caller, into freeSets).
Retire(done) ==
  /\ Waited(done)
  /\ FencesReset(done)
  /\ pending' = [s \in Slots |-> pending[s] /\ s \notin done]
  /\ slotSets' = [s \in Slots |-> IF s \in done THEN {} ELSE slotSets[s]]
  /\ slotKeep' = [s \in Slots |-> IF s \in done THEN {} ELSE slotKeep[s]]

\* The slot begin_fast_commands waits for before it records, if any.
Victim ==
  IF ~pending[fastSlot] THEN {}
  ELSE IF pending[Other(fastSlot)] THEN {Other(fastSlot)} ELSE {fastSlot}

\* begin_fast_commands when it returns true: the slot's command buffer is reset and
\* begun, and then holds dispatches that bind the sets S to the buffers B.
BeginFast(S, B) ==
  /\ Retire(Victim)
  /\ ~pending'[fastSlot]
  /\ cmdState' = [cmdState EXCEPT ![fastSlot] = "recording"]
  /\ cmdSets'  = [cmdSets EXCEPT ![fastSlot] = S]
  /\ cmdBufs'  = [cmdBufs EXCEPT ![fastSlot] = B]

\* begin_fast_commands when it returns false: the wait failed, the slot is still
\* taken after the wait, or the driver refused to reset or begin the command buffer.
\* `free` is the free list the caller left.
BeginFastFails(free) ==
  \/ /\ "wait_deferred" \in Faults
     /\ Victim # {}
     /\ freeSets' = free
     /\ UNCHANGED <<pending, fence, slotSets, slotKeep, cmdVars>>
  \/ /\ Retire(Victim)
     /\ pending'[fastSlot]
     /\ freeSets' = free \cup Parked(Victim)
     /\ UNCHANGED cmdVars
  \/ /\ "begin" \in Faults
     /\ Retire(Victim)
     /\ ~pending'[fastSlot]
     /\ freeSets' = free \cup Parked(Victim)
     /\ cmdState' = [cmdState EXCEPT ![fastSlot] = "initial"]
     /\ cmdSets'  = [cmdSets EXCEPT ![fastSlot] = {}]
     /\ cmdBufs'  = [cmdBufs EXCEPT ![fastSlot] = {}]

RecycleKeepsSets ==  \* mutated form: the list is not cleared
  freeSets' = freeSets \cup inflightSets /\ UNCHANGED inflightSets /\ batchKeep' = {}
RecycleKeepsBuffers ==  \* mutated form: batch_keepalive is not cleared
  freeSets' = freeSets \cup inflightSets /\ inflightSets' = {} /\ UNCHANGED batchKeep

\* recycle_inflight_sets.
RecycleInflight ==
  /\ freeSets' = freeSets \cup inflightSets
  /\ inflightSets' = {}
  /\ batchKeep' = {}

\* vkResetCommandPool: every command buffer of the pool, that is of every slot.
ResetCommandPool ==
  /\ cmdState' = [s \in Slots |-> "initial"]
  /\ cmdSets'  = [s \in Slots |-> {}]
  /\ cmdBufs'  = [s \in Slots |-> {}]

\* vkResetCommandBuffer of the current slot.
ResetCommandBuffer ==
  /\ cmdState' = [cmdState EXCEPT ![fastSlot] = "initial"]
  /\ cmdSets'  = [cmdSets EXCEPT ![fastSlot] = {}]
  /\ cmdBufs'  = [cmdBufs EXCEPT ![fastSlot] = {}]

-----------------------------------------------------------------------------
(* Batches.                                                                *)

StartBatchKeepsCount ==  \* mutated form: the count is not reset
  batchOpen' = TRUE /\ batchError' = FALSE /\ UNCHANGED batchCount

StartBatch ==
  /\ batchOpen' = TRUE
  /\ batchCount' = 0
  /\ batchError' = FALSE

\* batch_begin while no batch is open (it returns false at once otherwise).
BatchBegin ==
  /\ "batch_begin" \in Calls
  /\ host = "idle"
  /\ ~batchOpen
  /\ \/ /\ BeginFast({}, {})
        /\ freeSets' = freeSets \cup Parked(Victim)
        /\ StartBatch
     \/ /\ BeginFastFails(freeSets)
        /\ UNCHANGED batchVars
  /\ UNCHANGED <<host, hostBuf, fastSlot, inflightSets, allocSets, batchKeep, owned,
                 capVars, recVars, deviceVars>>
  /\ ReleaseUnreferenced

CaptureKeepsNothing(B) ==  \* mutated form: the entry holds raw handles only
  IF capturing
  THEN /\ capCount < MaxDispatches
       /\ capCount' = capCount + 1
       /\ capRaw' = capRaw \cup B
       /\ UNCHANGED <<capturing, capKeep>>
  ELSE UNCHANGED capVars

\* dispatch_cached lists every dispatch while a capture is active, before it runs.
CaptureDispatch(B) ==
  IF capturing
  THEN /\ capCount < MaxDispatches
       /\ capCount' = capCount + 1
       /\ capRaw' = capRaw \cup B
       /\ capKeep' = capKeep \cup B
       /\ UNCHANGED capturing
  ELSE UNCHANGED capVars

KeepNothing(B) == B \subseteq owned /\ UNCHANGED batchKeep  \* mutated form

\* The open batch takes shared ownership of the buffers a dispatch binds.
KeepAlive(B) == batchKeep' = batchKeep \cup B

\* dispatch_cached into the open batch: recorded, or failed.  One failure poisons the
\* batch, and every later dispatch of it fails with the same error.
BatchDispatch(B) ==
  /\ "dispatch" \in Calls
  /\ host = "idle"
  /\ batchOpen
  /\ batchCount < MaxDispatches
  /\ KeepAlive(B)
  /\ CaptureDispatch(B)
  /\ \/ /\ batchError
        /\ UNCHANGED <<batchVars, setVars, cmdVars>>
     \/ /\ ~batchError
        /\ "dispatch" \in Faults
        /\ batchError' = TRUE
        /\ UNCHANGED <<batchOpen, batchCount, setVars, cmdVars>>
     \/ /\ ~batchError
        /\ \E S \in SUBSET Sets :
             /\ CanAcquire(freeSets, S, 1)
             /\ freeSets' = freeSets \ S
             /\ allocSets' = allocSets \cup S
             /\ inflightSets' = inflightSets \cup S
             /\ cmdSets' = [cmdSets EXCEPT ![fastSlot] = @ \cup S]
        /\ cmdBufs' = [cmdBufs EXCEPT ![fastSlot] = @ \cup B]
        /\ batchCount' = batchCount + 1
        /\ UNCHANGED <<batchOpen, batchError, slotSets, cmdState>>
  /\ UNCHANGED <<host, hostBuf, slotVars, slotKeep, owned, pool, recVars, fence,
                 deviceVars>>

\* dispatch_cached with no batch open: recorded and submitted at once, and waited for.
\* A set acquired before begin_fast_commands fails stays in inflight_descriptor_sets.
DispatchNow(B) ==
  /\ "dispatch_now" \in Calls
  /\ host = "idle"
  /\ ~batchOpen
  /\ CaptureDispatch(B)
  /\ \/ /\ "dispatch" \in Faults
        /\ UNCHANGED <<host, slotVars, setVars, slotKeep, cmdVars, fence>>
     \/ \E S \in SUBSET Sets :
          /\ CanAcquire(freeSets, S, 1)
          /\ allocSets' = allocSets \cup S
          /\ inflightSets' = inflightSets \cup S
          /\ \/ /\ BeginFast(S, B)
                /\ freeSets' = (freeSets \ S) \cup Parked(Victim)
                /\ host' = "submit"
             \/ /\ BeginFastFails(freeSets \ S)
                /\ UNCHANGED host
          /\ UNCHANGED fastSlot
  /\ UNCHANGED <<hostBuf, batchVars, batchKeep, owned, recVars, deviceVars>>
  /\ ReleaseUnreferenced

DiscardsEmptyOnly == batchCount = 0  \* mutated form: the error is not looked at

\* Ending this batch throws it away instead of submitting it.
Discards == batchError \/ batchCount = 0

\* batch_end: submit and wait.  A failed or empty batch is discarded instead, by
\* resetting the command pool.
BatchEnd ==
  /\ "batch_end" \in Calls
  /\ host = "idle"
  /\ batchOpen
  /\ batchOpen' = FALSE
  /\ batchError' = FALSE
  /\ IF Discards
     THEN /\ ResetCommandPool
          /\ RecycleInflight
          /\ UNCHANGED host
     ELSE /\ host' = "submit"
          /\ UNCHANGED <<cmdVars, freeSets, inflightSets, batchKeep>>
  /\ UNCHANGED <<hostBuf, slotVars, batchCount, slotSets, allocSets, slotKeep, owned,
                 capVars, recVars, fence, deviceVars>>
  /\ ReleaseUnreferenced

\* batch_end_async: submit and return.  A failed or empty batch is discarded by
\* resetting its own command buffer.
BatchEndAsync ==
  /\ "batch_end_async" \in Calls
  /\ host = "idle"
  /\ batchOpen
  /\ batchOpen' = FALSE
  /\ batchError' = FALSE
  /\ IF Discards
     THEN /\ ResetCommandBuffer
          /\ RecycleInflight
          /\ UNCHANGED host
     ELSE /\ host' = "submit_async"
          /\ UNCHANGED <<cmdVars, freeSets, inflightSets, batchKeep>>
  /\ UNCHANGED <<hostBuf, slotVars, batchCount, slotSets, allocSets, slotKeep, owned,
                 capVars, recVars, fence, deviceVars>>
  /\ ReleaseUnreferenced

\* batch_wait: wait_slot for slot after slot; a failing wait leaves the later slots.
BatchWait ==
  /\ "batch_wait" \in Calls
  /\ host = "idle"
  /\ \E done \in SUBSET Slots :
       /\ done # {}
       /\ \/ done = {s \in Slots : pending[s]}
          \/ /\ "wait_deferred" \in Faults
             /\ \E failed \in Slots :
                  /\ pending[failed]
                  /\ done = {s \in Slots : pending[s] /\ s < failed}
       /\ Retire(done)
       /\ freeSets' = freeSets \cup Parked(done)
  /\ UNCHANGED <<host, hostBuf, fastSlot, batchVars, inflightSets, allocSets, batchKeep,
                 owned, capVars, recVars, cmdVars, deviceVars>>
  /\ ReleaseUnreferenced

-----------------------------------------------------------------------------
(* submit_fast_commands.                                                   *)

\* vkQueueSubmit of the current slot's command buffer succeeds.
QueueSubmit ==
  /\ cmdState' = [cmdState EXCEPT ![fastSlot] = "pending"]
  /\ running'  = [running EXCEPT ![fastSlot] = TRUE]
  /\ gpuSets'  = [gpuSets EXCEPT ![fastSlot] = cmdSets[fastSlot]]
  /\ gpuBufs'  = [gpuBufs EXCEPT ![fastSlot] = cmdBufs[fastSlot]]
  /\ UNCHANGED <<cmdSets, cmdBufs>>

\* fail_submit: ending or submitting the command buffer failed.
SubmitFails ==
  /\ "submit" \in Faults
  /\ host \in {"submit", "submit_async"}
  /\ host' = "idle"
  /\ RecycleInflight
  /\ UNCHANGED <<hostBuf, slotVars, batchVars, slotSets, allocSets, slotKeep, owned,
                 capVars, recVars, cmdVars, fence, deviceVars>>
  /\ ReleaseUnreferenced

\* The blocking form: the host now waits for the submission's fence.
Submit ==
  /\ host = "submit"
  /\ host' = "waiting"
  /\ QueueSubmit
  /\ UNCHANGED <<hostBuf, slotVars, batchVars, setVars, keepVars, owned, pool, capVars,
                 recVars, fence>>

\* The deferred form: park_current_slot_state, mark the slot and turn to the other one.
SubmitAsync ==
  /\ host = "submit_async"
  /\ host' = "idle"
  /\ QueueSubmit
  /\ slotSets' = [slotSets EXCEPT ![fastSlot] = inflightSets]
  /\ inflightSets' = slotSets[fastSlot]
  /\ slotKeep' = [slotKeep EXCEPT ![fastSlot] = batchKeep]
  /\ batchKeep' = slotKeep[fastSlot]
  /\ pending' = [pending EXCEPT ![fastSlot] = TRUE]
  /\ fastSlot' = Other(fastSlot)
  /\ UNCHANGED <<hostBuf, batchVars, freeSets, allocSets, owned, pool, capVars, recVars,
                 fence>>

\* The blocking form returns: the fence is reset and everything in flight recycled.
\* If vkWaitForFences or vkResetFences fails, fail_submit recycles all the same.
SyncDone ==
  /\ host = "waiting"
  /\ \/ /\ Waited({fastSlot})
        /\ FencesReset({fastSlot})
     \/ /\ "wait_sync" \in Faults
        /\ UNCHANGED fence
  /\ host' = "idle"
  /\ RecycleInflight
  /\ UNCHANGED <<hostBuf, slotVars, batchVars, slotSets, allocSets, slotKeep, owned,
                 capVars, recVars, cmdVars, deviceVars>>
  /\ ReleaseUnreferenced

-----------------------------------------------------------------------------
(* Capture and replay.                                                     *)

CaptureBegin ==
  /\ "capture" \in Calls
  /\ host = "idle"
  /\ ~capturing
  /\ ~batchOpen
  /\ capturing' = TRUE
  /\ capCount' = 0
  /\ capRaw' = {}
  /\ capKeep' = {}
  /\ UNCHANGED <<host, hostBuf, slotVars, batchVars, setVars, keepVars, owned, recVars,
                 cmdVars, fence, deviceVars>>
  /\ ReleaseUnreferenced

\* capture_end hands the list to the client, whose previous recording it replaces.
CaptureEnd ==
  /\ host = "idle"
  /\ capturing
  /\ capturing' = FALSE
  /\ recCount' = capCount
  /\ recRaw' = capRaw
  /\ recKeep' = capKeep
  /\ capCount' = 0
  /\ capRaw' = {}
  /\ capKeep' = {}
  /\ UNCHANGED <<host, hostBuf, slotVars, batchVars, setVars, keepVars, owned, cmdVars,
                 fence, deviceVars>>
  /\ ReleaseUnreferenced

\* The client destroys its recording.
DropRecording ==
  /\ host = "idle"
  /\ recCount > 0
  /\ recCount' = 0
  /\ recRaw' = {}
  /\ recKeep' = {}
  /\ UNCHANGED <<host, hostBuf, slotVars, batchVars, setVars, keepVars, owned, capVars,
                 cmdVars, fence, deviceVars>>
  /\ ReleaseUnreferenced

\* replay of a recording that is not empty: one batch of all its dispatches.  It adds
\* nothing to batch_keepalive: the recording itself holds the buffers.  A dispatch that
\* fails ends the batch at once, which discards what was recorded.
Replay ==
  /\ "replay" \in Calls
  /\ host = "idle"
  /\ ~capturing
  /\ ~batchOpen
  /\ recCount > 0
  /\ \/ /\ BeginFastFails(freeSets)
        /\ UNCHANGED <<host, batchVars, inflightSets, allocSets, batchKeep>>
     \/ \E S \in SUBSET Sets :
          LET free == freeSets \cup Parked(Victim)
          IN /\ CanAcquire(free, S, recCount)
             /\ BeginFast(S, recRaw)
             /\ freeSets' = free \ S
             /\ allocSets' = allocSets \cup S
             /\ inflightSets' = inflightSets \cup S
             /\ batchCount' = recCount
             /\ host' = "submit"
             /\ UNCHANGED <<batchOpen, batchError, batchKeep>>
     \/ /\ "dispatch" \in Faults
        /\ Retire(Victim)
        /\ ~pending'[fastSlot]
        /\ ResetCommandPool
        /\ \E done \in 0 .. recCount - 1, S \in SUBSET Sets :
             /\ CanAcquire(freeSets \cup Parked(Victim), S, done)
             /\ freeSets' = freeSets \cup Parked(Victim) \cup inflightSets \cup S
             /\ allocSets' = allocSets \cup S
             /\ batchCount' = done
        /\ inflightSets' = {}
        /\ batchKeep' = {}
        /\ UNCHANGED <<host, batchOpen, batchError>>
  /\ UNCHANGED <<hostBuf, fastSlot, owned, capVars, recVars, deviceVars>>
  /\ ReleaseUnreferenced

-----------------------------------------------------------------------------
(* The device.                                                             *)

\* Submission t entered the queue before submission s (both still running).  At most
\* two run: the newer one is the one the host waits for, or else the slot it left last.
Before(t, s) ==
  IF host = "waiting" THEN s = fastSlot ELSE t = fastSlot

\* The slot's submission completes.  Each command buffer opens with a barrier against
\* all earlier work of the queue and fences signal in submission order.
DeviceFinish(s) ==
  /\ running[s]
  /\ \A t \in Slots \ {s} : running[t] => Before(s, t)
  /\ running' = [running EXCEPT ![s] = FALSE]
  /\ fence' = [fence EXCEPT ![s] = TRUE]
  /\ gpuSets' = [gpuSets EXCEPT ![s] = {}]
  /\ gpuBufs' = [gpuBufs EXCEPT ![s] = {}]
  /\ cmdState' = [cmdState EXCEPT ![s] = IF @ = "pending" THEN "done" ELSE @]
  /\ UNCHANGED <<host, hostBuf, slotVars, batchVars, setVars, keepVars, owned, pool,
                 capVars, recVars, cmdSets, cmdBufs>>

-----------------------------------------------------------------------------
Next ==
  \/ \E b \in Buffers : CreateBuffer(b) \/ DropBuffer(b) \/ Transfer(b)
  \/ \E B \in SUBSET owned \ {{}} : BatchDispatch(B) \/ DispatchNow(B)
  \/ TransferDone
  \/ BatchBegin \/ BatchEnd \/ BatchEndAsync \/ BatchWait
  \/ Submit \/ SubmitAsync \/ SubmitFails \/ SyncDone
  \/ CaptureBegin \/ CaptureEnd \/ DropRecording \/ Replay
  \/ \E s \in Slots : DeviceFinish(s)

\* The driver finishes every command buffer nobody reset under it, and the host thread
\* goes on when nothing blocks it inside the runtime.  Nothing is assumed of the client.
Fairness ==
  /\ \A s \in Slots : WF_vars(cmdState[s] = "pending" /\ DeviceFinish(s))
  /\ WF_vars(Submit \/ SubmitAsync \/ SubmitFails)
  /\ WF_vars(SyncDone)
  /\ WF_vars(TransferDone)

Spec == Init /\ [][Next]_vars
FairSpec == Spec /\ Fairness

-----------------------------------------------------------------------------
(* Properties.                                                             *)

\* The current slot's command buffer is being recorded or about to be submitted.
Recording == batchOpen \/ host \in {"submit", "submit_async"}

\* What the device reads and writes stays allocated: a buffer that an unfinished
\* submission uses has an owner, and is not in the pool for create_buffer to hand out.
InFlightBuffersHeld ==
  \A s \in Slots : gpuBufs[s] \subseteq Referenced /\ gpuBufs[s] \cap pool = {}

\* A descriptor set that an unfinished submission uses is neither free to be acquired
\* and rewritten, nor bound in the command buffer being recorded, nor used by the other
\* slot's submission.
InFlightSetsHeld ==
  \A s \in Slots :
    /\ gpuSets[s] \cap freeSets = {}
    /\ \A t \in Slots \ {s} : running[s] => gpuSets[s] \cap gpuSets[t] = {}
    /\ Recording => gpuSets[s] \cap cmdSets[fastSlot] = {}

\* Descriptor sets are neither lost nor duplicated by parking, recycling and the error
\* paths: every allocated set is in exactly one of the runtime's lists.
SetsConserved ==
  /\ allocSets = freeSets \cup inflightSets \cup Parked(Slots)
  /\ freeSets \cap inflightSets = {}
  /\ \A s \in Slots :
       /\ slotSets[s] \cap (freeSets \cup inflightSets) = {}
       /\ slotSets[s] \cap slotSets[Other(s)] = {}

\* Temporaries may die before batch_end: every buffer recorded into the open batch is
\* kept alive by the batch itself.
OpenBatchKeepsBuffers ==
  batchOpen => cmdBufs[fastSlot] \subseteq batchKeep

IdleSlotsEmpty ==
  \A s \in Slots : ~pending[s] => slotSets[s] = {} /\ slotKeep[s] = {}

\* Between calls, nothing of a batch that is over stays behind: no buffer is kept alive
\* by a closed batch or by a slot whose submission was waited for.
NothingLeftBehind ==
  /\ host \in {"idle", "copy"} /\ ~batchOpen => batchKeep = {}
  /\ IdleSlotsEmpty

\* The pool holds only buffers nobody references, and no more than its cap.
PoolHoldsOnlyDead ==
  pool \cap Referenced = {} /\ Cardinality(pool) <= PoolCap

\* A signalled fence that is still to be waited for belongs to a finished submission: a
\* wait never returns early on a signal left over from the slot's previous use.
FenceMeansFinished ==
  \A s \in Slots : fence[s] => ~running[s] /\ (pending[s] \/ (host = "waiting" /\ s = fastSlot))

\* The host never copies to or from a buffer the open batch has recorded.
NoCopyOfRecorded ==
  host = "copy" /\ batchOpen => hostBuf \cap cmdBufs[fastSlot] = {}

\* The host never copies to or from a buffer the device is using, but for a deferred
\* submission the client has not waited for: blocking calls return when their work is done.
NoCopyOfRunning ==
  host = "copy" => \A s \in Slots : hostBuf \cap gpuBufs[s] # {} => pending[s]

(* The strengthening that makes the invariants above inductive.            *)

\* The slot the host records into or waits for is not one it has left pending.
CurrentSlotFree ==
  /\ host \in {"submit", "submit_async", "waiting"} => ~batchOpen
  /\ Recording \/ host = "waiting" => ~pending[fastSlot]

\* What a running submission uses is held by whoever waits for it: parked with its slot,
\* or else in the lists of the blocking call.
SubmissionHeld(s) ==
  IF ~running[s] THEN gpuSets[s] = {} /\ gpuBufs[s] = {}
  ELSE \/ pending[s] /\ gpuSets[s] \subseteq slotSets[s] /\ gpuBufs[s] \subseteq slotKeep[s]
       \/ /\ host = "waiting" /\ s = fastSlot
          /\ gpuSets[s] \subseteq inflightSets
          /\ gpuBufs[s] \subseteq owned \cup batchKeep \cup recKeep

\* What the command buffer being recorded uses is held by the lists that will be parked.
RecordingHeld ==
  /\ Recording => cmdSets[fastSlot] \subseteq inflightSets
  /\ Recording => cmdBufs[fastSlot] \subseteq owned \cup batchKeep \cup recKeep
  /\ batchOpen \/ host = "submit_async" => cmdBufs[fastSlot] \subseteq batchKeep

\* A recording, or the one being captured, keeps alive the buffers it will bind again.
RecordingsKept == capRaw \subseteq capKeep /\ recRaw \subseteq recKeep

PoolUnreferenced == pool \cap Referenced = {}

\* The inductive invariant.
HeldInv ==
  /\ TypeOK
  /\ SetsConserved
  /\ IdleSlotsEmpty
  /\ CurrentSlotFree
  /\ FenceMeansFinished
  /\ \A s \in Slots : SubmissionHeld(s)
  /\ RecordingHeld
  /\ RecordingsKept
  /\ PoolUnreferenced

\* A batch in which any dispatch failed is discarded, never submitted.
PoisonedNeverSubmitted ==
  [][batchOpen /\ batchError => host' \notin {"submit", "submit_async"}]_vars

\* A batch is submitted complete: what the device gets is bound to exactly the sets of
\* the dispatches the host counted.
SubmittedComplete ==
  batchOpen => Cardinality(cmdSets[fastSlot]) = batchCount /\ cmdSets[fastSlot] \subseteq inflightSets

\* A command buffer the device still owns is never reset or recorded.
PendingNeverReset ==
  [][\A s \in Slots : cmdState[s] = "pending" /\ running'[s] => cmdState'[s] = "pending"]_vars

\* With a driver that never fails, batch_begin opens a batch.
BeginOpens ==
  [][BatchBegin => batchOpen']_vars

\* With a driver that never fails, a batch_begin that opens no batch has given a slot
\* back, so that retrying makes progress.
FailedBeginFreesSlot ==
  [][BatchBegin /\ ~batchOpen' => \E s \in Slots : pending[s] /\ ~pending'[s]]_vars

\* Calls return: the host thread never stays inside the runtime.
CallsReturn ==
  host # "idle" ~> host = "idle"

\* A deferred submission's fence signals (or was waited for), so that batch_wait and a
\* batch_begin that needs the slot do not block for ever.
DeferredSignals ==
  \A s \in Slots : pending[s] ~> (fence[s] \/ ~pending[s])

=============================================================================
