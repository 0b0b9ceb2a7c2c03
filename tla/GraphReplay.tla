----------------------------- MODULE GraphReplay -----------------------------
(***************************************************************************)
(* Graph capture, the buffer plan and replay (src/src/autograd/graph.cpp), *)
(* with the parts of Tensor, Storage and Kernel::launch they meet: while   *)
(* capturing, operations really run and are recorded as nodes of kernel    *)
(* launches; plan_buffers gives tensors the graph produces slots of one    *)
(* arena; GraphExecutor::execute replays the launches, each buffer         *)
(* argument being a bound tensor, an arena slot or the captured buffer.    *)
(*                                                                         *)
(* Data is abstracted to currency: content[l] is the tensor whose latest   *)
(* value location l holds, 0 when it holds no tensor's latest value.       *)
(* Locations are the device buffers 1 .. MaxTensors and, above them, the   *)
(* slots of the arena.                                                     *)
(***************************************************************************)
EXTENDS Naturals, Sequences, FiniteSets

CONSTANTS
  MaxTensors,     \* bound: tensor ids
  MaxNodes,       \* bound: captured nodes
  MaxExecutions,  \* bound: calls of execute
  MaxDropped,     \* bound: tensors no caller holds any more
  Bytes,          \* size of each tensor
  Calls,          \* bound: the calls callers make
  Habits          \* what callers do that replay does not support

\* Replaying an Adam step whose gradient is bound or in the arena, reading views of tensors
\* that are, dropping tensors the replay uses outside the arena, and replaying an in-place
\* update of a registered tensor that the graph did not produce without binding it.
AllHabits == {"adam", "views", "drop", "update_unbound"}

AllCalls ==
  {"map", "zip", "loss", "view", "update", "update_view", "adam", "upload", "drop", "bind"}

\* Tensors made before the capture: a model's input (or cache), a parameter, and what
\* Adam keeps for it.
input == 1
param == 2
moment == 3
variance == 4
adamState == 5
Leaves == 1 .. 5

Ids  == 1 .. MaxTensors
Mems == 1 .. MaxTensors
Slot(a) == MaxTensors + a
Locations == 1 .. 2 * MaxTensors

ASSUME ConstantsAssumption ==
  /\ MaxTensors \in Nat /\ MaxTensors >= 5
  /\ MaxNodes \in Nat
  /\ MaxExecutions \in Nat
  /\ MaxDropped \in Nat
  /\ Bytes \in [Ids -> Nat \ {0}]
  /\ Calls \subseteq AllCalls
  /\ Habits \subseteq AllHabits

VARIABLES
  phase,       \* "capture", "scan" and "place" (the two loops of plan_buffers), "ready"
  created,     \* tensors created so far
  live,        \* tensors some caller still holds
  memOf,       \* buffer of each tensor's storage, 0: not created
  memBytes,    \* size of each buffer, 0: not allocated
  root,        \* the tensor a chain of views starts at
  registered,  \* keys of g_tensor_registry
  nodes,       \* CapturedGraph::nodes_
  content,     \* what each location holds
  scan,        \* nodes whose lifetimes plan_buffers has folded in
  first, last, \* lifetime of each tensor with an interval, 0: none
  slotOf,      \* allocation of each tensor, 0: none
  allocs,      \* GraphBufferPlan::allocations with free_after
  arena,       \* keys of GraphExecutor::arena_mem_
  bound,       \* GraphExecutor::bound_tensors_, 0: not bound
  pc,          \* the launch execute() has come to
  executions   \* GraphExecutor::executions_

tensorVars == <<created, live, memOf, memBytes, root, registered>>
planVars   == <<scan, first, last, slotOf, allocs>>
execVars   == <<arena, bound, pc, executions>>
vars == <<phase, tensorVars, nodes, content, planVars, execVars>>

Idle == [node |-> 0, launch |-> 0]

Elements(s) == {s[i] : i \in DOMAIN s}

Init ==
  /\ phase = "capture"
  /\ created = 5
  /\ live = Leaves
  /\ memOf = [t \in Ids |-> IF t \in Leaves THEN t ELSE 0]
  /\ memBytes = [k \in Mems |-> IF k \in Leaves THEN Bytes[k] ELSE 0]
  /\ root = [t \in Ids |-> t]
  /\ registered \in {{}, {input}}
  /\ nodes = <<>>
  /\ content = [l \in Locations |-> IF l \in Leaves THEN l ELSE 0]
  /\ scan = 0
  /\ first = [t \in Ids |-> 0]
  /\ last = [t \in Ids |-> 0]
  /\ slotOf = [t \in Ids |-> 0]
  /\ allocs = <<>>
  /\ arena = {}
  /\ bound = [t \in Ids |-> 0]
  /\ pc = Idle
  /\ executions = 0

-----------------------------------------------------------------------------
(* Storage: a buffer returns to the pool when its last tensor goes.  The   *)
(* handles a graph retains keep device memory valid, not out of the pool.  *)

OwnersUnbound == live  \* mutated form: a binding keeps the buffer's handle, not the tensor

\* Tensors whose storage is alive: bind_tensor keeps a copy of the tensor it is given.
Owners == live \cup (Elements(bound) \ {0})
Taken  == {memOf[t] : t \in Owners}

\* Buffers acquire_buffer may hand out for n bytes when those in taken are in use: a pooled
\* one of the smallest sufficient size (which of several equal ones depends on the order of
\* release), or a new one.
Acquire(taken, n) ==
  LET fits == {k \in Mems \ taken : memBytes[k] >= n}
  IN IF fits # {} THEN {k \in fits : \A j \in fits : memBytes[k] <= memBytes[j]}
                  ELSE {k \in Mems \ taken : /\ memBytes[k] = 0
                                             /\ \A j \in 1 .. k - 1 : memBytes[j] > 0 \/ j \in taken}

\* The value of tensor t is now the one at location l; copies elsewhere are outdated.
Stored(c, l, t) == [k \in Locations |-> IF k = l THEN t ELSE IF c[k] = t THEN 0 ELSE c[k]]

\* The constructor of Tensor t with storage in buffer m: it registers only while capturing.
Create(t, m) ==
  /\ created' = t
  /\ memOf' = [memOf EXCEPT ![t] = m]
  /\ memBytes' = [memBytes EXCEPT ![m] = IF @ = 0 THEN Bytes[t] ELSE @]
  /\ registered' = IF phase = "capture" THEN registered \cup {t} ELSE registered

-----------------------------------------------------------------------------
(* Capture.                                                                *)

ViaPosition(arg, ids) ==  \* mutated form: the argument's buffer is not looked up
  IF arg.at <= Len(ids) THEN ids[arg.at] ELSE 0

\* map_kernel_buffer_args_to_tensors: the first of the node's tensors registered with the
\* argument's buffer, else the one that stands at the argument's position, else none.
Via(arg, ids) ==
  LET hits == {i \in DOMAIN ids : ids[i] \in registered' /\ memOf'[ids[i]] = memOf'[arg.t]}
  IN IF hits # {} THEN ids[CHOOSE i \in hits : \A j \in hits : i <= j]
     ELSE IF arg.at <= Len(ids) THEN ids[arg.at] ELSE 0

\* A launch is the set of its buffer arguments; "at" is an argument's position among them.
Arg(t, at, reads, writes) == [t |-> t, at |-> at, reads |-> reads, writes |-> writes]
In(t, at) == Arg(t, at, TRUE, FALSE)
Out(t, at) == Arg(t, at, FALSE, TRUE)
InOut(t, at) == Arg(t, at, TRUE, TRUE)

Mapped(launch, ids) ==
  {[t |-> arg.t, via |-> Via(arg, ids), reads |-> arg.reads, writes |-> arg.writes] : arg \in launch}

\* The node record_op or record_replay_op pushes for the pending launches.
Node(op, ins, outs, temps, launches) ==
  [op |-> op, ins |-> ins, outs |-> outs, temps |-> temps,
   launches |-> [i \in DOMAIN launches |-> Mapped(launches[i], ins \o outs \o temps)]]

Capturing(call, n) == phase = "capture" /\ call \in Calls /\ Len(nodes) + n <= MaxNodes

\* What operations take: Adam's own tensors go to Adam only.
Operands == live \ {moment, variance, adamState}

\* An operation that allocates its output: out = op(ins).
Map(ins) ==
  LET out == created + 1
  IN /\ Capturing(IF Len(ins) = 1 THEN "map" ELSE "zip", 1) /\ out \in Ids
     /\ \E m \in Acquire(Taken, Bytes[out]) :
          /\ Create(out, m)
          /\ content' = Stored(content, m, out)
     /\ live' = live \cup {out}
     /\ nodes' = Append(nodes, Node("map", ins, <<out>>, <<>>,
          <<{In(ins[i], i) : i \in DOMAIN ins} \cup {Out(out, Len(ins) + 1)}>>))
     /\ UNCHANGED <<phase, root, planVars, execVars>>

\* mse_loss: a partial sum in a temporary tensor, dropped on return, then its reduction.
Loss(pred, target) ==
  LET partial == created + 1
      out     == created + 2
  IN /\ Capturing("loss", 1) /\ out \in Ids
     /\ \E p \in Acquire(Taken, Bytes[partial]) :
        \E m \in Acquire(Taken \cup {p}, Bytes[out]) :
          /\ created' = out
          /\ memOf' = [memOf EXCEPT ![partial] = p, ![out] = m]
          /\ memBytes' = [memBytes EXCEPT ![p] = IF @ = 0 THEN Bytes[partial] ELSE @,
                                          ![m] = IF @ = 0 THEN Bytes[out] ELSE @]
          /\ content' = Stored(Stored(content, p, partial), m, out)
     /\ registered' = registered \cup {partial, out}
     /\ live' = live \cup {out}
     /\ nodes' = Append(nodes, Node("loss", <<pred, target>>, <<out>>, <<partial>>,
          << {In(pred, 1), In(target, 2), Out(partial, 3)}, {In(partial, 1), Out(out, 2)} >>))
     /\ UNCHANGED <<phase, root, planVars, execVars>>

\* Tensor::view: a new id on the same storage and a node without launches.
View(t) ==
  LET out == created + 1
  IN /\ Capturing("view", 1) /\ out \in Ids /\ Bytes[out] = Bytes[t]
     /\ Create(out, memOf[t])
     /\ root' = [root EXCEPT ![out] = root[t]]
     /\ live' = live \cup {out}
     /\ nodes' = Append(nodes, Node("view", <<t>>, <<out>>, <<>>, <<>>))
     /\ UNCHANGED <<phase, content, planVars, execVars>>

\* The tensor is updated as a view, or from a view of itself.
ThroughView(dst, src) == root[dst] # dst \/ (src # dst /\ root[src] = dst)

\* sgd_update, add_inplace: dst is read and written, src read.
Update(dst, src) ==
  /\ Capturing(IF ThroughView(dst, src) THEN "update_view" ELSE "update", 1)
  /\ UNCHANGED tensorVars
  /\ content' = Stored(content, memOf[dst], root[dst])
  /\ nodes' = Append(nodes, Node("update", <<dst, src>>, <<dst>>, <<>>,
                                 << {InOut(dst, 1), In(src, 2)} >>))
  /\ UNCHANGED <<phase, planVars, execVars>>

AdamIds(grad) == <<adamState, param, grad, moment, variance>>

\* The buffer arguments of adam_update_f32_fast8_state: eight groups of four, of which all
\* but the first are padding the kernel does not touch, then the state.
AdamArgs(grad) ==
  {InOut(param, 1), In(grad, 2), InOut(moment, 3), InOut(variance, 4), In(adamState, 33)}

\* Adam::step for one parameter.
AdamStep(grad) ==
  /\ Capturing("adam", 2) /\ root[grad] = grad /\ grad \notin Leaves
  /\ UNCHANGED tensorVars
  /\ content' = Stored(Stored(Stored(Stored(content, memOf[adamState], adamState),
                  memOf[param], param), memOf[moment], moment), memOf[variance], variance)
  /\ nodes' = nodes \o
       << Node("adam_state", <<adamState>>, <<adamState>>, <<>>, << {InOut(adamState, 1)} >>),
          Node("adam", AdamIds(grad), <<param, moment, variance>>, <<>>, <<AdamArgs(grad)>>) >>
  /\ UNCHANGED <<phase, planVars, execVars>>

EndCapture ==
  /\ phase = "capture" /\ nodes # <<>>
  /\ phase' = "scan"
  /\ UNCHANGED <<tensorVars, nodes, content, planVars, execVars>>

-----------------------------------------------------------------------------
(* What callers do at any time but inside execute().                       *)

\* Bound: they do nothing more once the executions are used up.
Between(call) ==
  call \in Calls /\ phase \in {"capture", "ready"} /\ pc = Idle /\ executions < MaxExecutions

\* Tensor::from_cpu, ones_like.
Upload ==
  LET out == created + 1
  IN /\ Between("upload") /\ out \in Ids
     /\ \E m \in Acquire(Taken, Bytes[out]) :
          /\ Create(out, m)
          /\ content' = Stored(content, m, out)
     /\ live' = live \cup {out}
     /\ UNCHANGED <<phase, root, nodes, planVars, execVars>>

\* Bounds: only tensors that were used are dropped, and at most MaxDropped.
Drop(t) ==
  /\ Between("drop") /\ t \notin Leaves \ {input}
  /\ Cardinality((1 .. created) \ live) < MaxDropped
  /\ t \in Elements(bound) \/ \E i \in DOMAIN nodes : t \in Elements(nodes[i].ins) \cup Elements(nodes[i].outs)
  /\ live' = live \ {t}
  /\ UNCHANGED <<phase, created, memOf, memBytes, root, registered, nodes, content,
                 planVars, execVars>>

-----------------------------------------------------------------------------
(* plan_buffers.                                                           *)

DirectUses(node) == Elements(node.ins)  \* mutated form: views are not followed to their tensor

\* The tensors a node takes as input, itself or a view of them.
Uses(node) == {t \in Ids : \E u \in Elements(node.ins) : root[u] = t}

\* One turn of the loop over the nodes: a tensor lives from the node that produces it to the
\* last one that takes it, or a view of it, as input.  A tensor that was not registered has
\* no size and gets no lifetime.
ScanNode ==
  LET i        == scan + 1
      node     == nodes[i]
      taken    == {t \in Uses(node) : first[t] # 0}
      produced == Elements(node.outs) \cup Elements(node.temps)
      new      == {t \in produced : node.op # "view" /\ t \in registered /\ first[t] = 0}
  IN /\ phase = "scan" /\ i <= Len(nodes)
     /\ scan' = i
     /\ first' = [t \in Ids |-> IF t \in new THEN i ELSE first[t]]
     /\ last' = [t \in Ids |-> IF t \in new \cup taken THEN i ELSE last[t]]
     /\ UNCHANGED <<phase, tensorVars, nodes, content, slotOf, allocs, execVars>>

EndScan ==
  /\ phase = "scan" /\ scan = Len(nodes)
  /\ phase' = "place"
  /\ UNCHANGED <<tensorVars, nodes, content, planVars, execVars>>

\* The intervals not placed yet, and the one the sorted order puts first.
Unplaced == {t \in Ids : first[t] # 0 /\ slotOf[t] = 0}
IsNext(t) ==
  /\ t \in Unplaced
  /\ \A u \in Unplaced : first[t] < first[u] \/ (first[t] = first[u] /\ t <= u)

FitsTouching(t) ==  \* mutated form: free at the node where the tensor before it is last used
  {a \in DOMAIN allocs : allocs[a].free <= first[t] /\ allocs[a].bytes >= Bytes[t]}

Fits(t) == {a \in DOMAIN allocs : allocs[a].free < first[t] /\ allocs[a].bytes >= Bytes[t]}
IsBestFit(a, t) ==
  /\ a \in Fits(t)
  /\ \A b \in Fits(t) : allocs[a].bytes < allocs[b].bytes
                        \/ (allocs[a].bytes = allocs[b].bytes /\ a <= b)

\* One turn of the loop over the intervals.
PlaceReused(t, a) ==
  /\ phase = "place" /\ IsNext(t) /\ IsBestFit(a, t)
  /\ slotOf' = [slotOf EXCEPT ![t] = a]
  /\ allocs' = [allocs EXCEPT ![a].free = last[t]]
  /\ UNCHANGED <<phase, tensorVars, nodes, content, scan, first, last, execVars>>

PlaceAfterPush(t) ==  \* mutated form: the index is taken after push_back
  /\ phase = "place" /\ IsNext(t) /\ Fits(t) = {}
  /\ slotOf' = [slotOf EXCEPT ![t] = Len(allocs) + 2]
  /\ allocs' = Append(allocs, [bytes |-> Bytes[t], free |-> last[t]])
  /\ UNCHANGED <<phase, tensorVars, nodes, content, scan, first, last, execVars>>

PlaceNew(t) ==
  /\ phase = "place" /\ IsNext(t) /\ Fits(t) = {}
  /\ slotOf' = [slotOf EXCEPT ![t] = Len(allocs) + 1]
  /\ allocs' = Append(allocs, [bytes |-> Bytes[t], free |-> last[t]])
  /\ UNCHANGED <<phase, tensorVars, nodes, content, scan, first, last, execVars>>

Inputs  == UNION {Elements(nodes[i].ins) : i \in DOMAIN nodes}
Outputs == UNION {Elements(nodes[i].outs) : i \in DOMAIN nodes}
Temporaries == UNION {Elements(nodes[i].temps) : i \in DOMAIN nodes}

FinalInputs == {root[t] : t \in Inputs \ Outputs}  \* mutated form: the difference swapped

FinalUnresolved == Outputs \ Inputs  \* mutated form: views are not followed to their root

\* What no node takes as input stays in its captured buffer, for the caller to read.
FinalRoots == {root[t] : t \in Outputs \ Inputs}

ArenaIds == {t \in Ids : slotOf[t] # 0 /\ (t \in Temporaries \/ root[t] \notin FinalRoots)}

\* initialize_temporary_arena: the environment may disable it, and an allocation may fail.
EndPlan ==
  /\ phase = "place" /\ Unplaced = {}
  /\ phase' = "ready"
  /\ arena' \in {{}, ArenaIds}
  /\ UNCHANGED <<tensorVars, nodes, content, planVars, bound, pc, executions>>

-----------------------------------------------------------------------------
(* The executor.                                                           *)

\* execute() passes another buffer for this tensor than the captured one.
Redirected(t) == t # 0 /\ (bound[t] # 0 \/ t \in arena)

ArenaFirst(arg) ==  \* mutated form: the arena's buffers override the bound ones
  IF ~Redirected(arg.via) THEN memOf[arg.t]
  ELSE IF arg.via \in arena THEN Slot(slotOf[arg.via])
  ELSE memOf[bound[arg.via]]

\* The buffer a replayed launch passes for an argument.
Location(arg) ==
  IF ~Redirected(arg.via) THEN memOf[arg.t]
  ELSE IF bound[arg.via] # 0 THEN memOf[bound[arg.via]]
  ELSE Slot(slotOf[arg.via])

\* The tensor an argument stands for when replayed: the one bound to it or to the tensor it
\* is a view of, else itself.
Meant(t) ==
  IF bound[t] # 0 THEN bound[t] ELSE IF bound[root[t]] # 0 THEN bound[root[t]] ELSE root[t]

Args == UNION {UNION Elements(nodes[i].launches) : i \in DOMAIN nodes}
Written == {root[arg.t] : arg \in {arg \in Args : arg.writes}}

\* Tensors of the graph with a spec, and tensors a caller may bind to them: each once, and
\* none of the graph's own.
Bindable  == (Inputs \cup Outputs \cup Temporaries) \cap registered
Strangers == live \ (Elements(bound) \cup Inputs \cup Outputs \cup Leaves)

\* bind_tensor of a Bindable t to one of the Strangers.
Bind(t, u) ==
  /\ Between("bind") /\ phase = "ready"
  /\ Bytes[u] = Bytes[t]
  /\ bound' = [bound EXCEPT ![t] = u]
  /\ UNCHANGED <<phase, tensorVars, nodes, content, planVars, arena, pc, executions>>

ClearBindings ==
  /\ Between("bind") /\ phase = "ready"
  /\ bound' = [t \in Ids |-> 0]
  /\ UNCHANGED <<phase, tensorVars, nodes, content, planVars, arena, pc, executions>>

\* What replay relies on, apart from the habits the configuration grants.
Supported ==
  /\ "adam" \in Habits \/ \A i \in DOMAIN nodes : nodes[i].op = "adam" =>
       \A t \in Elements(nodes[i].ins) : ~Redirected(t)
  /\ "views" \in Habits \/ \A arg \in Args : root[arg.t] # arg.t =>
       ~Redirected(arg.t) /\ ~Redirected(root[arg.t])
  /\ "drop" \in Habits \/ \A arg \in Args : root[arg.t] \in live \/ Redirected(arg.via)
  /\ "update_unbound" \in Habits \/ \A i \in DOMAIN nodes : nodes[i].op = "update" =>
       \A t \in Elements(nodes[i].outs) \cap arena : first[t] < i \/ bound[t] # 0

StartExecute ==
  /\ phase = "ready" /\ pc = Idle /\ executions < MaxExecutions /\ Supported
  /\ pc' = [node |-> 1, launch |-> 1]
  /\ UNCHANGED <<phase, tensorVars, nodes, content, planVars, arena, bound, executions>>

\* Writing the outputs of a launch.
Results(launch) ==
  LET outs == {arg \in launch : arg.writes}
  IN [l \in Locations |->
        IF \E arg \in outs : Location(arg) = l
        THEN Meant((CHOOSE arg \in outs : Location(arg) = l).t)
        ELSE IF \E arg \in outs : content[l] = Meant(arg.t) THEN 0 ELSE content[l]]

Running == phase = "ready" /\ pc # Idle

Replay ==
  /\ Running /\ pc.launch <= Len(nodes[pc.node].launches)
  /\ content' = Results(nodes[pc.node].launches[pc.launch])
  /\ pc' = [pc EXCEPT !.launch = @ + 1]
  /\ UNCHANGED <<phase, tensorVars, nodes, planVars, arena, bound, executions>>

NextNode ==
  /\ Running /\ pc.launch > Len(nodes[pc.node].launches) /\ pc.node < Len(nodes)
  /\ pc' = [node |-> pc.node + 1, launch |-> 1]
  /\ UNCHANGED <<phase, tensorVars, nodes, content, planVars, arena, bound, executions>>

EndExecute ==
  /\ Running /\ pc.launch > Len(nodes[pc.node].launches) /\ pc.node = Len(nodes)
  /\ pc' = Idle
  /\ executions' = executions + 1
  /\ UNCHANGED <<phase, tensorVars, nodes, content, planVars, arena, bound>>

Next ==
  \/ \E t \in Operands : Map(<<t>>) \/ View(t)
  \/ \E t, u \in Operands : Update(t, u) \/ (t <= u /\ (Map(<<t, u>>) \/ Loss(t, u)))
  \/ \E t \in Operands : AdamStep(t)
  \/ EndCapture
  \/ Upload
  \/ \E t \in live : Drop(t)
  \/ ScanNode \/ EndScan
  \/ \E t \in Ids : PlaceNew(t) \/ \E a \in DOMAIN allocs : PlaceReused(t, a)
  \/ EndPlan
  \/ \E t \in Bindable, u \in Strangers : Bind(t, u)
  \/ ClearBindings
  \/ StartExecute \/ Replay \/ NextNode \/ EndExecute

Spec == Init /\ [][Next]_vars

-----------------------------------------------------------------------------
(* Properties.                                                             *)

TypeOK ==
  /\ phase \in {"capture", "scan", "place", "ready"}
  /\ created \in Ids
  /\ live \subseteq 1 .. created
  /\ memOf \in [Ids -> Mems \cup {0}]
  /\ memBytes \in [Mems -> Nat]
  /\ root \in [Ids -> Ids]
  /\ registered \subseteq 1 .. created
  /\ Len(nodes) <= MaxNodes
  /\ content \in [Locations -> Ids \cup {0}]
  /\ scan \in 0 .. Len(nodes)
  /\ first \in [Ids -> 0 .. MaxNodes] /\ last \in [Ids -> 0 .. MaxNodes]
  /\ slotOf \in [Ids -> 0 .. Len(allocs)]
  /\ allocs \in Seq([bytes : Nat, free : Nat])
  /\ arena \subseteq Ids
  /\ bound \in [Ids -> Ids \cup {0}]
  /\ executions \in 0 .. MaxExecutions

\* A replayed launch reads, for each of its inputs, the value that input has: the one the
\* launch before it in the captured order left, wherever bindings, arena slots and the
\* reuse of buffers have put it ("reuses the captured kernel sequence and buffers").
ReadsRight ==
  Running /\ pc.launch <= Len(nodes[pc.node].launches) =>
    \A arg \in nodes[pc.node].launches[pc.launch] :
      arg.reads => content[Location(arg)] = Meant(arg.t)

\* Tensors that share an arena slot fit in it and are never alive at the same node
\* (plan_buffers).
PlanApart ==
  \A t, u \in Ids : slotOf[t] # 0 =>
    /\ allocs[slotOf[t]].bytes >= Bytes[t]
    /\ t # u /\ slotOf[u] = slotOf[t] => last[t] < first[u] \/ last[u] < first[t]

\* A lifetime lasts to the last launch that is passed the tensor's memory, through a view of it
\* as well: until then its arena slot is not free for another (plan_buffers, which looks at the
\* inputs that operations name and not at launches).
AliveWhileUsed ==
  phase \in {"place", "ready"} =>
    \A i \in DOMAIN nodes : \A launch \in Elements(nodes[i].launches) : \A arg \in launch :
      first[root[arg.t]] # 0 => i <= last[root[arg.t]]

\* Replay writes to no tensor but those the captured operations write: whatever else a
\* caller still holds keeps its value, pooled and reused buffers notwithstanding.
ForeignIntact ==
  \A t \in live \ (Written \cup {Meant(u) : u \in Written}) :
    root[t] = t => content[memOf[t]] = t

\* Between executions the results are where a caller looks for them: the outputs no node
\* takes as input, and the state updated in place, in their own buffers or in the bound ones.
ResultsFresh ==
  phase = "ready" /\ pc = Idle =>
    \A t \in (Outputs \ Inputs) \cup (Written \cap Leaves) :
      Meant(t) \in Owners => content[memOf[Meant(t)]] = Meant(t)

=============================================================================
