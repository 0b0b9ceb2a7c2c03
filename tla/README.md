# MotifCL: models and proofs

MotifCL is a C++ neural-network library for OpenCL and Vulkan devices: tensors, autograd, graph
capture, transformer inference and training, and a small local HTTP server. This directory holds
TLA+ modules for the parts of it whose correctness is a matter of *order*: what is recycled when,
who waits for what, which of two actors comes first, and what is left behind when a step fails. What
the kernels compute is not the subject.

Paths below are relative to the repository (`src/runtime/...`, `tools/...`); `PROJECT.json` gives the
lines each definition models.

## The system's parts

### Vulkan submission queue: `src/runtime/vulkan_backend.cpp`

`VulkanRuntime` records kernel launches and submits them to one queue of one device.

- **State.** Two submission slots (`fast_command_buffers`, `fast_fences`, `fast_slot`,
  `fast_slot_pending`), the open batch (`batch_open`, `batch_dispatch_count`, `batch_error`), the
  descriptor sets (`free_descriptor_sets`, `inflight_descriptor_sets`, `fast_slot_sets`), the buffers
  kept alive on the device's behalf (`batch_keepalive`, `fast_slot_keepalive`), the buffer pool
  (`buffer_pool`), and the capture list.
- **Operations.** `create_buffer`, the destructor of a buffer, `upload` and `download`,
  `batch_begin`, `batch_end`, `batch_end_async`, `batch_wait`, `dispatch_cached` (in a batch or at
  once), `capture_begin`, `capture_end`, `replay`.
- **Interactions.** The host thread and the device run concurrently and meet only at fences. Tensors
  own buffers through shared pointers; a buffer nobody owns goes back to the pool and from there to
  the next tensor.
- **What is hard.** The device may still use a descriptor set, a buffer or a command buffer when the
  host recycles it. The lists move between the batch, the slots and the free lists on every path,
  the failing ones included. A wait can fail. A client may drop its tensors before the batch that
  uses them has run, or keep a recording of launches much longer than the tensors.
- **Correct means.** Nothing an unfinished submission uses is recycled, reset, rewritten or handed
  out again; descriptor sets are neither lost nor duplicated; a batch is submitted complete or not at
  all; every call returns.

### Ollama-compatible server: `tools/motifcl_ollama_server.py`, `tools/generate_transformer.cpp`

A threading HTTP server in front of one worker process that reads a request per line and answers
with lines.

- **State.** `MotifCLWorker.lock`, the process, its pipes, and per handler thread the position in
  its request. In the worker, the loop is either waiting for a line or generating.
- **Operations.** `generate`, `generate_stream`, `start`; the loop's read, per-token line, final line
  and error line.
- **Interactions.** Handler threads share the worker through the lock; a line in a pipe carries no
  name of the request it belongs to.
- **What is hard.** Handlers and the worker must agree, line by line, on where an answer ends, across
  crashes, restarts, error lines and clients that hang up in the middle of a stream.
- **Correct means.** Requests are served one at a time, each gets its own output in order, nothing of
  one request reaches another, and every request ends.

### Graph capture and replay: `src/autograd/graph.cpp`

While a capture is active, operations run as usual and record what they launched; an executor
then replays the launches, a whole training step or decode block at a time.

- **State.** The captured graph (`nodes_`, `tensor_specs_`), the registry of tensors and their
  buffers, the plan (`allocations`, `free_after`), the arena (`arena_mem_`), the bindings
  (`bound_mem_`, `bound_tensors_`).
- **Operations.** `begin_graph_capture`, `record_op`, `record_replay_op`, `end_graph_capture`,
  `plan_buffers`, `initialize_temporary_arena`, `bind_tensor`, `clear_bindings`, `execute`.
- **Interactions.** Tensors register with the buffer they have while captured; storages return their
  buffers to a pool when the last tensor goes; kernels are replayed with a bound buffer, an arena slot
  or the captured buffer for each argument.
- **What is hard.** Which tensor an argument stands for is worked out from its buffer or its position.
  Tensors that die during the step share slots of one arena, so a lifetime that is too short, through a
  view or a second input, overwrites a value. The captured buffers stay valid but may belong to
  other tensors by the time the graph is replayed.
- **Correct means.** A replayed launch reads the values the captured one read, recomputed; tensors
  alive at once do not overlap; a replay writes to nobody else's tensor; results are where the caller
  looks for them.

### Autograd and reversible blocks: `src/tensor/tensor.cpp`, `src/autograd/tape.cpp`, `src/nn/reversible.cpp`

Operations link their results to a node that knows its inputs; `backward` orders the nodes, runs them
and adds what is left over to the tensors' gradients. A reversible block keeps no activations: its
backward recovers the inputs, runs its two halves again and differentiates them with an engine of
their own, in the middle of the engine that called it.

- **State.** Nodes and their inputs; `TensorImpl::grad`, a buffer by reference; per engine the pending
  gradients, the visited set and the order; per thread `g_active_backward_engine` and
  `g_autograd_enabled`; per block the parked gradients of its outputs (`PendingGrads`).
- **Operations.** Operations and views, `backward`, `collect`, `add_gradient`, `run`, `_accumulate_grad`,
  `NoGradGuard`, `zero_grad`, unscaling and clipping; `ReversibleBlock::forward`,
  `ReversibleBackwardNode::backward`, `recompute_with_grads`.
- **Interactions.** A node's backward calls `backward` on its inputs, which joins the active engine
  when there is one; a recompute hides that engine and starts another; optimizers change gradients
  in place between the calls.
- **What is hard.** A node must not run before every gradient it is owed has arrived, whatever is
  shared, used twice or a view. Two outputs of a block deliver their gradients one by one, or only one
  of them does. A kernel may throw two engines deep, with the thread's state saved in several places.
- **Correct means.** A parameter's gradient is the derivative, each path counted once; nothing arrives
  late; callers find the autograd state they left.

### KV caches and generation: `src/nn/transformer.cpp`, `include/motifcl/nn/transformer.hpp`, `src/nn/gemma.cpp`

Incremental decoding keeps the keys and values of earlier tokens per layer and attends to them.

- **State.** Per layer the slots of a cache, `length` and, in a paged cache, `tokens_seen`; the state of
  a recurrent layer; the captured graph of a block's decode step; for a batch the mask, the rows'
  lengths and which rows are active.
- **Operations.** The cached forward passes (`forward_with_cache`, `prefill_cache_only`, `decode_step`
  and their paged, hybrid and masked forms), `append` of both caches, `reset`, taking a cursor back,
  capture and replay of a decode step, `generate_batch`.
- **Interactions.** The model checks all layers' cursors before a call, each layer moves its own during
  it; a layer may read the cache of an earlier one; replay runs kernels with arguments captured at an
  earlier offset.
- **What is hard.** Page arithmetic when pages are reused in turn; a call that throws after some layers
  appended; what a reset, a rewind or a padded prompt leaves in the slots; arguments that replay must
  bind anew; recurrent states, which have no cursor that a check could look at.
- **Correct means.** Each query attends to exactly its row's own tokens, in their order and at their
  positions, as far back as the cache and the window reach.

### Other parts

| part | state and operations | what is hard | correct means |
|---|---|---|---|
| Tensor and storage pool (`src/tensor`) | pooled OpenCL buffers per context; acquire best fit, release, trim | blocks outlive their owner; the cap | a block is in use once; the cap holds |
| Training (`src/train`) | `DynamicLossScaler`, `StaticTrainStep`, `TensorDataLoader` | overflow, limits, phases | the scale follows overflows; each row is seen once |
| OpenCL runtime and command buffer (`src/runtime`) | program cache, kernels, recorded launches | replay after arguments changed | a replay does what was recorded |
| Vulkan kernel wrappers, layers, numeric operations | none between calls | numeric | out of a model checker's reach |
| Serialization, GGUF, Hugging Face and Gemma import | none between calls | file formats | pure I/O |
| Python bindings, command line, research tools | none of their own | - | thin wrappers and experiments |

## Modules

| module | models | by |
|---|---|---|
| `VulkanQueue` | the submission queue, its buffers and the device | one action per call, two or three for a call that blocks |
| `MCVulkanQueue` | - | symmetry for the safety runs |
| `VulkanQueue_proofs` | - | proofs |
| `SerialService` | what the server promises | abstract specification |
| `OllamaServer` | handler threads, worker, pipes, restarts, disconnects | one action per step that another actor can separate from the next |
| `OllamaServer_proofs` | - | proofs, the refinement included |
| `GraphReplay` | capture, the buffer plan, the arena, bindings and replay, with the storage pool they meet | one action per recorded operation, per turn of the plan's loops, and per replayed launch |
| `MCGraphReplay` | - | tensor sizes for the runs |
| `GraphReplay_proofs` | - | proofs: the plan, the types |
| `GraphReplayValues_proofs` | - | proofs: what replay reads and leaves |
| `Autograd` | the backward graph, nested backward engines, the thread's autograd state, reversible blocks | one action per call of callers, per step of `collect` and of `run`, and per step of a recompute |
| `Autograd_proofs` | - | proofs: order and context |
| `AutogradBuffers_proofs` | - | proofs: types and buffers |
| `AutogradExact_proofs` | - | proofs: gradients are derivatives |
| `KVCache` | the caches, the model calls over them, decode replay, batches | one action per call begun, per layer of it, and per thing a caller does between calls |
| `MCKVCache` | - | three layers for the runs |
| `KVCache_proofs` | - | proofs |

The modules are independent: what one component needs of another is small enough to be modelled where
it is needed (the storage pool in `GraphReplay`, the offsets that graph replay binds in `KVCache`).

### `VulkanQueue`

A variable is named after the field it models (`fastSlot` is `fast_slot`, `slotSets` is
`fast_slot_sets`); `owned` stands for the client's handles and `recCount`, `recRaw`, `recKeep` for its
recording (raw handles apart from what keeps the buffers alive); `host` says where the host thread is
inside a call; `cmdState`, `cmdSets`, `cmdBufs` are what has been recorded in each
slot's command buffer, and `running`, `gpuSets`, `gpuBufs` and `fence` the device's side.

The runtime is used by one thread, so a call that does not block is one action. A call that submits
and waits (`DispatchNow`, `BatchEnd`, `Replay`) leaves `host = "idle"`, goes through `Submit` and ends
with `SyncDone`, because the device can move in between. A call that waits for a deferred slot does
nothing before the wait, so it is one action whose guard is the fence (`Retire`).

Every failing driver call is a disjunct of the action that makes it, with what the code does about it:
`BeginFastFails`, the failed dispatch that poisons a batch, `SubmitFails`, the wait that fails in
`BatchWait` and `SyncDone`. `Faults` selects which of them a run allows, `Calls` which entry points the
client uses.

Abstractions: descriptor sets have one class (the code keeps one free list per binding count, which
do not interact); the pool's per-bucket and byte limits become one limit on the number of
allocations, and any subset of the buffers that die in one step may be pooled up to it (the code
takes them in an order that depends on hash tables); a dispatch is the set of buffers it binds.
The device finishes submissions in submission order, which the barrier at the head of each command
buffer and Vulkan's signal order give.

### `OllamaServer` and `SerialService`

`pc[r]` is the handler thread of request `r`; `lock` its holder. `Acquire` is the start of
`generate` and `generate_stream`: the lock, the check that the process is alive and, if it is not, a
new process with new pipes. `Write` and `Read` are the line written and one `readline`; `Read` also
forwards the line, since nothing but the worker can move in between, and a forward that raises
closes the generator and releases the lock, as the code does. A line carries the request it was
produced for so that properties can speak about it; no guard looks at it except through `Done`, which
is the `"done": true` that the worker prints for streaming requests only.

The worker's loop takes a line (`Take`), prints a line per token when the request streams (`Token`)
and ends with a final or an error line (`Last`). `Crash` may come at any time; what was flushed stays
readable until the handler reaches the end of file. `startup_timeout` is not a clock: `Started` is
enabled whenever the handler is in `start()`, so the model contains every expiry.

`SerialService` is the promise. The refinement maps a handler that holds the lock to "serving" and
every other to itself, and the lines read to the output.

### `GraphReplay`

Data is abstracted to *currency*. `content[l]` is the tensor whose latest value location `l` holds,
or 0; a location is a device buffer or an arena slot. Writing a tensor's new value somewhere makes
every other copy of it outdated (`Stored`, `Results`). A replay is right when each argument it
reads is passed a location that holds the tensor the argument stands for (`ReadsRight`), so one
property covers bindings, slots, reuse and the pool at once.

The operations are one of each kind the code has: an output of its own (`Map`, one or two inputs), a
temporary that dies on return (`Loss`), no launch at all (`View`), in place (`Update`), and Adam's
two kernels with the argument order that `adam.cpp` gives them. `add_inplace` looks at nothing but
shapes, so `Update` takes any two tensors that callers hold: a view, a tensor and a view of it, or the
same tensor twice; the constant `Calls` says whether a run's callers make updates through views
(`"update_view"`). `Leaves` are the tensors made before the capture; `Init` leaves open whether the first
of them was registered by hand, as the decode path of `transformer.cpp` does. `Via` is
`map_kernel_buffer_args_to_tensors`: the first recorded id with the argument's buffer, else
the id at its position. The plan's two loops are `ScanNode` and
`PlaceNew` / `PlaceReused`, one turn each. What the second passes over `nodes_` collect in hash sets is
written as sets (`Inputs`, `FinalRoots`, `ArenaIds`); `root` is `resolve_alias`. Which of several
pooled buffers of one size `acquire_buffer` returns depends on the order of release, and the model
allows each.

Callers act between executions: `Upload`, `Drop`, `Bind`, `ClearBindings`. `Supported` is what
`execute` relies on without checking it. Each of its four conjuncts is a habit of callers that breaks
replay, and `Habits` grants it: an Adam step whose gradient is in the arena or bound; a launch that
reads a view of a tensor that is; a tensor dropped after the capture whose buffer replay still uses;
and a registered tensor updated in place that nothing produced and nobody bound. The passing runs grant
none. This is a precondition on callers and not a guard of the code; three of the four say nothing
that the repository contradicts, and the first is the finding below.

Callers are also bounded: they bind a tensor once and none of the graph's own (`Strangers`), drop only
tensors that were used, and stop after the last execution (`Between`).

Left out: scalar and local argument overrides, the driver command buffer (`execute` tries it
first; it is meant to be the same replay), `enable_buffer_reuse = false`, dynamic shapes, the plan's
byte statistics, tensors of 0 bytes.

### `Autograd`

Data is a number. An operation multiplies by one fixed weight per input, different for the two, so that
a gradient that is lost, counted twice or sent to the wrong input shows in the sum; `Add` stands for
every operation that hands its gradient on unchanged, by reference. `grad`, `pending` and `parked` hold
*buffers*, and `value` what is in them, since the code shares buffers and scales in place. `want[t]` is
the sum of `Derivative(root, t)` over the calls of `backward` that returned: differentiation in the other
direction, from the inputs up, written without a look at the engine.

`collect` is recursive in the code; `stack` and `next` are its frames, one action per input looked at
(`CollectInput`) and per return (`CollectDone`). `StartVisits`, `VisitOp`, `VisitBlock`, `VisitNothing`,
`EndVisits`, `Commit` and `Return` are the rest of `run`. A tensor that is a view has the node of its base:
`tensor[t].fn` names the tensor whose operation made the node, so a node may be reached, and run, as two
tensors. A recompute goes through `step`: `Recompute` (recovered inputs, autograd on, engine hidden),
`Nested(1)` and `Nested(2)`, each an engine at `level` 2, and `Dispatch`. `Throw` is an exception
anywhere in an engine's visits or commits; it unwinds all engines and restores what their destructors and
guards restore, which is less than what the recompute had set.

The pending gradients, one per tensor, are committed in the order of tensors; the code's order is that
of a hash map, and no result depends on it. `exact` and `BlocksPaired` say when gradients are expected
to be the derivatives; what they exclude is listed under "Found on the way".

Abstractions: `F` and `G` of a block are one operation with one parameter each, and hold no further
block, so two levels of engines suffice. Left out: evaluation mode of a block, the numeric error of the
recovered inputs, and `Tape`, which nothing uses.

### `KVCache`

A token is a serial number and a key-value pair is the number of the token it was computed from, so a
query that reads a stale, foreign, missing or repeated pair reads a number it should not.
`slots[l][b][s]` is row `b` of layer `l`'s cache. `mode` is the kind of session: `"regular"` (contiguous
`KVCache`, shared layers, decode replay), `"paged"` (rolling `PagedKVCache`), `"hybrid"` and
`"hybrid_paged"` (some layers recurrent), `"batch"` (`generate_batch`).

A call begins (`Call`, `Prompts`, `NextTokens`) with the model's own checks and passes the layers one at
a time: `Eager`, `Capture`, `ReplayGraph`, `ReplayFallback`, `Shared` or `Delta`. Any layer may throw before
it touched its cache (`ThrowBefore`) or after it moved its cursor (`Attended`); the layers after it have
then not moved, and callers go on with the caches they have: they may call again, rewind or reset.
`Place` is the page arithmetic, `Read` is the attention kernels' loop over the keys they are given, and
`OwnText` is what it should yield, in terms of the row's text `fed` alone. `Shares` is true only for the
calls in which the code looks at `layer_kv_shared_sources`, and `Reach` is 0 in a batch because the
masked kernels know no window.

`Rebound` are the layers whose decode step consists of the kernels whose offset
`bind_decode_attention_replay_offsets` binds; whether a layer does is decided by its configuration and
the device. `ReplayOffset` is then the current offset, and otherwise the captured one.

In a rolling cache a query of a chunk of several tokens reads only what the cache holds at the *end* of
the chunk; `OwnText` follows the code in this. After a failure the last token may be in the caches of all
layers: `fed` is defined by the cursors, as for the code, and not by what the caller believes. Left out:
the layers' arithmetic, sampling and stop sequences, chunked prefill in `generate`, the replay of the
tail of a block only.

## Runs

The longest are `autograd`, `kv` and the graph's two passing runs, at about a minute each or a little
more; the others take less.

| run | question | bounds |
|---|---|---|
| `batches` | Is anything recycled while an unfinished submission uses it, for every mix of batches, deferred batches, immediate dispatches, captures and replays, and every driver fault but a failing blocking wait? Is the proofs' invariant true? | 2 buffers, 2 descriptor sets, pool of 1, 2 dispatches per batch or recording |
| `live` | Do calls return, do deferred fences signal, is a pending command buffer never reset, does a failing `batch_begin` free a slot, and do transfers stay clear of recorded and running work, for a client of `batch_end_async` on a driver that works? | 2 buffers (one device-local), 3 sets, 1 dispatch per batch |
| `begin_opens` | *(violated)* With both slots pending, does `batch_begin` open a batch? | as `live`, 4 sets |
| `pending_reset` | *(violated)* Is a pending command buffer never reset when `batch_end` is used too? | as `begin_opens` |
| `ollama_service` | With crashes, failing restarts, error lines and a client that hangs up without streaming, does the server implement `SerialService`, and does every request end? | 3 requests (2 stream, 1 larger than the pipe), 2 tokens, 2 crashes, pipe of 2 lines |
| `ollama_own_answer` | *(violated)* Is every request answered with its own output when clients hang up? | 3 requests, 1 token |
| `graph_reuse` | With every graph of operations of one or two inputs, operations with a temporary and views, does a tensor count as alive until the last launch that is passed its memory, are tensors in one slot never alive at once, do launches read what they read when captured, and are the results fresh? | 4 nodes, 4 new tensors, two sizes, 1 execution |
| `graph_callers` | The same with in-place updates, through views too, and Adam steps, and callers that bind, unbind, upload and drop within what replay supports; does replay leave other tensors alone? | 2 nodes, 3 new tensors, 1 dropped, 2 executions |
| `graph_adam` | *(violated)* Does a replayed Adam step read its own moment? | 3 nodes, 3 new tensors, 1 execution |
| `autograd` | Are gradients the derivatives, does nothing arrive late, is `collect` right in every state, and does the thread's state survive failures, for every graph of operations, additions, views and blocks? | 3 operations or blocks, 10 tensors, 5 calls of callers and failures |
| `kv` | Does every query read its row's own tokens, in every kind of session, with failing calls, resets and rewinds? Do the layers' capacity checks never throw once the model let a call in? | 3 layers, cache of 4 tokens in pages of 2, 2 rows, 8 tokens, prompts of up to 3, 2 failing calls |
| `kv_replay` | *(violated)* The same when a captured decode step's offset is not bound anew | 3 layers, 8 tokens, no failures |

**Why these bounds.** *Queue.* Two slots is the code's constant. Two buffers let one be in use and the
other be recycled or be of the other kind. Two descriptor sets let a pending slot and the open batch hold
one each, or both be gone when a third is needed; three let both slots and the open batch hold one.
Two dispatches let a batch fail after it has recorded something. A pool of one is full after one release.
Faults and fairness are in runs of their own because the first multiply the states and the second
forbid symmetry.
*Server.* Three requests allow one that leaves lines behind, one that reads them and one that
meets the shift that remains; a pipe of two lines is full before an answer of three lines ends.
*Graph.* Four nodes are the fewest in which a slot passes from one tensor to another and neither is a
result: a value, its use, a second value, its use. The sizes of `MixedBytes` make the first tensor of a
graph and the last larger, so that a slot is once too small and once larger than needed. A lifetime that
ends with a view's use rather than its tensor's takes three: a value, its view, the view's use. One
execution is enough there, since nothing is updated in place and the arena starts out empty, which hides
nothing; with callers, two let the second start from what the first left behind. Two nodes are enough for
callers, whose effect is on buffers between executions: one produces what the other reads or updates.
Three new tensors then allow a result, a tensor to bind and one that takes over a dropped buffer.
*Autograd.* Three operations make a diamond (one value used on two paths that join), a value used
twice in one operation, and a block whose output is viewed or used twice; ten tensors are two leaves and
two blocks of four, one feeding the other. Five calls are a backward, a second one that accumulates
or meets what the first parked, and three of `zero_grad`, scaling, switching autograd off, a failure or
a further backward in between. The lemma-like invariants of `collect` are proved for every graph.
*Caches.* A cache of four tokens in two pages wraps around after the fourth of eight tokens and once
more; block sizes that do not divide into pages are covered by the proof. Three layers are one before,
at and after a failure; the second has a window or a recurrent state, the third reads the first one's
cache. Two failing calls let one be retried and fail elsewhere. Prompts of one to three tokens differ in
length by more than one and leave room for a step.

**Fairness.** For the queue: the device finishes a command buffer that nobody reset (the driver's
promise), and the host thread goes on inside a call when nothing blocks it. Nothing is assumed of the
client. For the server: a thread that can go on does; the lock is granted while it is free (requests
are finitely many, so `threading.Lock` need not be fair); the model loads, the loop reads, and a
generation ends, since `max_new_tokens` bounds it. Crashes are finite (`MaxCrashes`). Nothing is
assumed of clients. `CHECK_DEADLOCK FALSE` in the server's runs: all requests may have been answered; in the
graph's: `MaxExecutions` may have been reached, and a state `Supported` excludes may allow nothing
more; in autograd's and the caches': the bounds on calls and tokens may have been reached. The
properties of these three are safety properties and assume no fairness.

### What the violated runs show

- `begin_opens`: after `batch_end_async` twice without a wait, `begin_fast_commands` picks the *other*
  slot to wait for, waits, and then finds its own slot still pending and reports that no slot is
  free. Calling again succeeds (`FailedBeginFreesSlot` in `live`).
- `pending_reset`: `batch_end` discards a failed or empty batch with `vkResetCommandPool`, which
  resets the command buffer of the other slot while the device may own it. `batch_end_async` resets only
  its own, so a client of that call alone is safe (`PendingNeverReset` in `live`).
- `ollama_own_answer`: a streaming client that hangs up leaves lines in the pipe; the next request is
  answered with them, and readers stay out of step until the worker is restarted. That it takes a
  client that hangs up is what `Quiet` and `Implements` below prove.
- `graph_adam`: `adam_update_f32_fast8_state` takes parameter, gradient, moments and, last, the state,
  and records the ids state, parameter, gradient, ... The moment was made with the optimizer, before the
  capture, so it is not registered and its argument falls back to the id at its position, which is
  the gradient's. The gradient is consumed by the step and lives in the arena, so the replayed kernel is
  passed the gradient's slot twice: it takes the gradient for the moment, and the moment itself is
  never updated. The repository's test of a replayed Adam step looks only at whether losses are finite
  and change.

- `kv_replay`: with `MOTIFCL_ENABLE_DECODE_FULL_BLOCK_GRAPH_REPLAY` a block's decode step is captured at
  one offset. `bind_decode_attention_replay_offsets` binds the offset of three kernels; a step that uses
  others (split-half RoPE, as imported models do; v-norm; a device without the decode attention kernel)
  passes the usability test all the same, and from the second replayed token on writes its keys into the
  captured slot while `length` advances.

### Found on the way

Behaviours met while modelling that contradict nothing the repository says, or that a configuration with
a changed constant shows but no run is kept for:

- Queue: with `"wait_sync"` in `Faults`, `InFlightBuffersHeld` is violated: after a failing blocking wait
  the sets and buffers are recycled although the submission may still run.
- Server: with clients that hang up and small requests, `RequestsEnd` still holds. A request larger
  than the stdin pipe, sent while the worker is blocked on a full stdout that an abandoned stream left,
  waits for ever with the lock held.
- Graph: granting another habit violates `ReadsRight` in a few steps: `{"views"}` (the query norm of
  `transformer.cpp` reads a view of a projection that may be in the arena), `{"drop"}` and
  `{"update_unbound"}`.
- Reversible block: a loss on one output only parks its gradient for good. Neither the inputs nor `F` and
  `G` get anything, and the flag is never cleared, so a later backward finds it and joins it; `zero_grad`
  does not reach it. `HalfBlockOnlyLacks` shows that until then gradients are only missing, never
  wrong in the other direction.
- Reversible block: the engine of a recompute commits to the parameters of `F` and `G` at once. When the
  surrounding backward fails later, these keep their part and no other parameter gets any.
- Reversible block: when a kernel throws between `set_enabled(true)` and the line that restores the flag,
  only the guard of the *outer* engine restores it. `ContextRight` holds because there always is one.
- A view and its base share a node, so one `backward` may run that node twice, once for each tensor's
  gradients. The sum is right (`GradsExact`); `docs/PERFORMANCE.md` speaks of each node running once.
- `add` hands one buffer to both inputs. When both are parameters, in-place unscaling or clipping scales
  that buffer twice; `GradsExact` excludes it through `exact`.
- Caches: the paged and the masked passes do not look at `layer_kv_shared_sources`, and the masked
  passes not at `attention_window_`: a batch of `generate_batch` is computed without windows, `generate`
  with them.
- Caches: a throw after the last layer's append leaves the tokens in every cache; the cursors agree, so a
  caller that retries feeds them twice. After a throw in a hybrid model, recurrent states stay ahead of
  the caches, and no later call notices (`RecurrentInStep` holds until a call throws).

## Proofs

`tlapm` checks `VulkanQueue_proofs`, `OllamaServer_proofs`, `GraphReplay_proofs`,
`GraphReplayValues_proofs`, `Autograd_proofs`, `AutogradBuffers_proofs`, `AutogradExact_proofs` and
`KVCache_proofs` from nothing. Every invariant, action property and refinement that a passing run checks
is stated by one of their theorems.

**`VulkanQueue`**, for every set of buffers and descriptor sets, every bound, every client and every
combination of faults. The properties are not inductive: that a running submission's set is not free
says nothing about *why*. `HeldInv` says why. A running submission is either pending, and then its sets
and buffers are parked with its slot, or the host waits for it, and then they are in the lists of the
blocking call (`SubmissionHeld`); what is being recorded is held by the lists that will be parked
(`RecordingHeld`); a recording keeps alive what it will bind again (`RecordingsKept`), which is why
`Replay` may add nothing to the batch's list; the slot recorded into is not pending (`CurrentSlotFree`),
and a slot that is not pending has nothing parked (`IdleSlotsEmpty`), so the swap in
`park_current_slot_state` cannot pull an old list into the new batch; a signalled fence belongs to
finished work (`FenceMeansFinished`), so recycling after a wait is safe. With `SetsConserved` and the
pool's disjointness this is inductive.

- `TypeCorrect`, `PoisonedDiscarded`: no assumption on faults.
- `HeldAlways`, `BuffersHeld`, `SetsHeld`, `SetsConservedAlways`, `OpenBatchKeepsAlways`, `FencesAlways`,
  `CopiesAlone`, `CopiesOutsideBatch`, `NothingLeft`: a blocking wait does not fail
  (`"wait_sync" \notin Faults`), without which the first two are false.
- `PoolAlways` (the pool's cap) and `SubmittedAlways` (as many sets as dispatches) count, and need finitely
  many buffers and sets.
- `PendingKept` (`PendingNeverReset`): the client uses `batch_end_async` only, and replays only if no
  dispatch fails in between, and blocking waits do not fail; run `pending_reset` shows what `batch_end`
  does.
- `BeginProgress` (`FailedBeginFreesSlot`): the driver's begin and the deferred wait do not fail.

**`OllamaServer`**, for every set of requests, every mix of streaming and large ones, every pipe
capacity and every number of crashes, while streaming clients stay connected (`Impatient \cap Streaming
= {}`; run `ollama_own_answer` shows that this is needed; other clients may hang up at any time).
`ServiceInv` says that the handler inside holds the lock, and that what is under way is its own: its
line still in the pipe, or its tokens being generated, or its last line printed, or a dead worker, and
in each case stdout holds the next lines of its answer in order, only the newest of which can be the
last (`ReadingInv`).

- `TypeCorrect`, `PipesHeld` (the invariant), `Quiet` (`QuietWhenUnlocked`).
- `Implements`: `Spec => ServiceSpec`. Each action of a handler is shown to be a step of the service
  for that request or no step; the worker's steps are none.

**`GraphReplay`**, for every graph the actions can build, every mix of sizes and all bounds:
`PlanApartAlways`, tensors that share a slot fit in it and are never alive at the same node. The
property is not inductive, since it does not say why a slot that is free is free. `PlanInv` adds that
lifetimes are intervals within the nodes scanned so far (`Lifetimes`), that nothing is placed before
they are final (`PlacedLater`), and that a slot's `free_after` is at or after the end of the lifetime of
*every* tensor placed in it (`FreeAfter`), although the code overwrites it each time instead of taking a
maximum: the newcomer begins after it, so it ends later too. A slot that is
free before the newcomer begins is then apart from all of them. `TypesAlways` (`TypeOK`) rests on the
shape of nodes: every argument stands for a tensor (`NodesType`), which makes every value a replay
stores the value of a tensor; that lifetimes are made of nodes that exist (`ScanType`); and that an
execution is at a node that exists and is counted when it ends (`PcType`).

`AliveWhileUsedAlways` (`AliveWhileUsed`): a tensor counts as alive until the last launch that is passed
its memory, through views and updates of views as well; with `PlanApartAlways`, its slot is nobody
else's before that. `plan_buffers` looks at the inputs that operations name and never at launches, so
the proof says first what operations give their launches (`PassedInv`): tensors that the node takes, and
tensors that it makes, which are no views and which no earlier node makes. Of the nodes scanned so
far (`SpanInv`), the first kind are alive since the scan follows an input to its tensor, and the second
since a lifetime that does not begin here would have begun where an earlier node makes the tensor. These
three theorems assume nothing but `ConstantsAssumption`.

The values (`GraphReplayValues_proofs`) are proved for every graph, every plan, every reuse of the pool's
buffers and every order of capture, uploads, drops, bindings and replays. The assumptions are on what
callers do. No update goes through a view (`"update_view" \notin Calls`): `ValueInv` below knows a written
tensor by its own id. With such updates and `Habits = {}` run `graph_callers` checks all three properties
at its bounds; with the habit `"views"` as well, TLC violates `ForeignIntact` and `ResultsFresh`. Of the
habits (`Habits`), each theorem leaves out as few as it can: TLC violates the property at the bounds of
`graph_callers` with any habit the theorem leaves out.

- `ReadsRightAlways`: `Habits = {}`, callers do only what replay supports. Each habit breaks it;
  `graph_adam` shows one.
- `ForeignIntactAlways`: `Habits \subseteq {"views", "update_unbound"}`. A launch that reads a view past
  its redirected tensor, or an update that misses its tensor, computes with the wrong values, but writes
  to the tensors the graph writes.
- `ResultsFreshAlways`: `Habits \subseteq {"views"}`. A leaf that an unbound update moved into the arena
  is not updated where its caller looks.

All three follow from one invariant, `ValueInv`, which says where every value *is* in every state, and
not only what the current launch reads. It holds for `Habits \subseteq {"views", "update_unbound"}`:

- who owns memory: a view has the buffer of the tensor it is made from (`RootInv`), other tensors
  that are held have buffers of their own (`OwnInv`), and such a buffer holds its tensor's value unless
  the replay has moved the tensor into the arena (`KeptInv`; a leaf is moved back by binding it, unless
  callers have the habit not to);
- what capture records: a launch reads what its node takes or what an earlier launch of the node
  wrote, its arguments are mapped to tensors that share a buffer with them, results are new tensors,
  no earlier node touched them, and no node takes a view of what it writes (`NodeOK`, `GraphInv`). The
  last is why views cannot misdirect a write: the argument that is written is mapped to the very tensor
  it stands for (`WriterFacts`), where an argument that is read may be mapped to a view (`Located`
  excludes that);
- what the plan adds: a lifetime starts where its tensor is produced and ends no earlier than the last
  node that takes the tensor *or a view of it* (`LifeInv`); the arena has neither inputs, outputs nor
  the tensors they are views of (`ArenaInv`); callers bind tensors the graph does not know
  (`BoundInv`);
- what is under way: from the launch that writes it to the end of its lifetime a tensor in the arena has
  its slot to itself (`SlotInv`, with `Born`). This is where `PlanApart` is used: a launch that writes
  another tensor into the slot lies outside that lifetime.

`SlotCount`, that there are no more slots than tensors placed, is there because a location of the model
stands for a tensor's buffer or for a slot: it keeps the slots' locations apart.

**`Autograd`**, for every graph the actions can build, of any size, every mix of calls and failures.

- `ContextAlways` (`ContextRight`). `ContextInv` adds what each engine and each recompute has saved: the
  outermost engine holds what callers had set, the inner one what the recompute had set, a recompute the
  outer engine itself. Each restore then puts back what the code outside relies on, and a failure, which
  skips the recompute's own restore, is repaired by the outermost engine's.
- `SearchAlways` (`SearchInv`): in both engines `topo` lists each tensor once and after its inputs.
  The argument is about age: inputs are older than results (`GraphInv`), also in the six tensors of a
  recompute, so the frames of `collect` go strictly down in age, a tensor under way is never met again,
  and one that was seen is finished. `BlockInv` says which tensors a recompute has made when the inner
  engine searches them, and that the outer engine never meets them.
- `NoneLate` (`NoLateGradient`): a step of `run` gives gradients only to inputs of the current node, which
  come earlier in `topo`, and a recompute only to its block's inputs. `PendingInv` is the type that
  statement needs.
- `TypesAlways` (`TypeOK`), in `AutogradBuffers_proofs`: with the types, that no gradient of a tensor, an
  engine or a block is in a buffer that is not there (`BufferInv`). The step that could break it is a
  failure, which frees every buffer above the last one that a tensor or a block keeps: the proof shows
  that there is a last one and that whatever survives is below it. An engine that collects has a root,
  and a recompute a block, which is why `BufferInv` rests on the invariants above.

The gradients (`AutogradExact_proofs`), for every graph, any sharing, every sequence of
calls of `backward`, `zero_grad`, scaling and `NoGradGuard`, and failures anywhere. Nothing is assumed
but `ConstantsAssumption`; `exact` and `BlocksPaired` are part of the property, and "Found on the way"
says what they leave out.

- `GradsExactAlways` (`GradsExact`): between calls every parameter holds the sum of the derivatives.
- `HalfBlockAlways` (`HalfBlockOnlyLacks`): a block of which one output has passed its gradient on keeps
  some back and invents none.

Both speak of states at rest only, and a backward moves gradients through several places before it
rests. `Even(p)` is a balance that holds in all the states between:

    Held(p)  +  sum over tensors u of  Owed(u) * Effect(u, p)   =   want[p]  +  Due(p)

- `Owed(u)` is the gradient on its way to `u`: pending in either engine, given to one that has not begun
  to visit, parked by a block, or recovered by a recompute and not yet dispatched.
- `Effect(u, p)` is the derivative of `u` with respect to `p`. The tensors of a recompute are not made by
  the caller; theirs is written out in terms of the block's inputs and parameters, since they repeat what
  the block's forward computed.
- `Due(p)` is what the call under way will have added.

Each step keeps it, for a reason of its own. `VisitOp` takes an amount from `u` and gives its inputs their
shares, which is the chain rule; since the other direction (`Derivative`, from the inputs up) is what
`want` is made of, this is where the two meet. `Commit` moves an amount from owed to held; sums go to a
new buffer, so no other holder of the old one notices. `VisitBlock` only moves an amount from pending to
parked. `Nested` exchanges a parked gradient for the seed of a recomputed output, `Dispatch` the recovered
ones for pending ones of the block's inputs. `Return` finds nothing owed but what half-run blocks keep,
and makes what was due wanted. A failure drops everything owed, which is even only if nothing was
committed and no block's node has run yet (otherwise `exact` is false): that is `Clean`.

`ExactInv` is `Balance` (`Even` for every parameter while no block's node runs twice), `Clean`, and
`Ready`, what the steps need to know: besides the invariants above, the graph's shape (`GraphShape`:
a block's outputs lie next to each other and after its parameters), what a recompute has made
(`RecomputeInv`), that a block has parked exactly the gradients that arrived (`ArrivedInv`), that
gradients are pending only for tensors the engine lists or for leaves (`WorkInv`), so that none is left
when it ends, and that they are numbers (`AmountInv`). `NoLateGradient` and `SearchInv` do the main
work in it: a visit may take *all* that is owed to a tensor because none will arrive later.

What `Derivative` and the sum compute is defined by recursion over the tensors. It is proved by induction
over a set of numbers (lemma `Induction`, from the well-foundedness of `<`), which needs no operator as a
parameter.

**`KVCache`**, for any number of layers, rows and tokens, any cache and page size (also when pages do not
divide the cache), any sharing, windows and recurrent layers, any failures, resets and rewinds.
Assumption: `AllRebound`, that no decode step is replayed or every layer's binds its offset; run
`kv_replay` shows that it is needed.

The heart is arithmetic. Two positions less than a whole cache apart never share a slot, however often
the pages have wrapped (`PlaceInjective`), so an append overwrites nothing that may still be read
(`WriteHolds`). `KVInv` says, layer by layer and relative to where the call has come to, which positions
hold the row's own tokens (`Content`, `BatchContent`), where cursors stand before and after it
(`Cursors`, `BatchStep`, `PagedLengths`), and which keys attention was given (`KeysGiven`). None of
`CursorInv`, `ReadsRight` and `RecurrentInStep` is inductive: they say what is read now, not what the slots
hold that a later call will read, nor that layers a failed call did not reach still hold the text up to
their cursor. That holds because the text `fed` is cut back to the cursors by the next call the model
lets in, and it lets one in only where all cursors agree.

- `InvAlways` (the invariant), `CursorsAlways`, `ReadsRightAlways`, `InStepAlways`.

**Only model-checked.** Liveness (`CallsReturn`, `DeferredSignals`, `RequestsEnd`), which is out of the
prover's reach. `Spec` without fairness is what the theorems are about.

## Not modelled

**In the modelled parts.** Queue: teardown and device loss, timestamps and profiling, the growth of
descriptor pools beyond "a new set or none", byte sizes, pipeline and layout caches (they only grow),
the direct transfer path's mapping. Server: `GET` requests, which read the process state once; option
parsing; shutdown; the log queue. A generation that hangs on the device hangs its request, as in the
code (`readline` has no timeout); the fairness of `Last` excludes it. Graph, autograd, caches: what
their sections list as left out.

**Whole parts.** Most of the repository's lines are the host wrappers of some hundreds of kernels (nine
tenths of `vulkan_backend.cpp`, all of `src/ops`), layers that chain them, and importers that map names
and copy weights. They check shapes, pick a kernel and launch it, and keep nothing between calls. What
could be wrong in them is numeric or a matter of file formats, which a model checker does not reach; the
part of them that is stateful, `dispatch_cached` and what surrounds it, is in `VulkanQueue`.

## Plan

What is worth adding next, in this order.

1. Graph replay: the driver command buffer, whose arguments outlive a change of bindings.
2. `LossScaler` and `StaticTrainStep`: overflow detection against unscaling, growth and backoff at
   the limits. `DataLoader`: each row once per epoch.
3. `StoragePool`: best fit, cap and ownership, with interleaved acquire and release from several
   threads under the mutex. To prove: a block is in use at most once, and the cap.
4. Extensions of the queue: teardown with pending slots, and descriptor classes.
5. Blocks inside the halves of a reversible block, with engines of any depth.
