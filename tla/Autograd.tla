------------------------------ MODULE Autograd ------------------------------
(***************************************************************************)
(* Reverse-mode differentiation: the backward graph, BackwardEngine and    *)
(* Tensor::backward (src/src/tensor/tensor.cpp), the thread's autograd     *)
(* state (src/src/autograd/tape.cpp) and the reversible block, whose       *)
(* backward recomputes its forward pass and runs an engine inside the      *)
(* engine (src/src/nn/reversible.cpp).                                     *)
(*                                                                         *)
(* A derivative is a number: every operation multiplies by fixed weights,  *)
(* different for its two inputs.  Gradients are device buffers, handed on  *)
(* by reference; value[b] is what buffer b holds.                          *)
(***************************************************************************)
EXTENDS Naturals, Sequences, FiniteSets

CONSTANTS
  MaxTensors,    \* bound: tensors callers make; a block makes four
  MaxOps,        \* bound: operations and blocks in the graph
  MaxCalls,      \* bound: what callers do, and failures
  Calls,         \* bound: the calls callers make
  Faults         \* {"throw"} when a kernel of the backward pass may fail

AllCalls == {"backward", "op", "add", "view", "reversible", "no_grad", "zero_grad", "scale"}

ASSUME ConstantsAssumption ==
  /\ MaxTensors \in Nat /\ MaxTensors >= 2
  /\ MaxOps \in Nat
  /\ MaxCalls \in Nat
  /\ Calls \subseteq AllCalls
  /\ Faults \subseteq {"throw"}

\* Tensors of callers and, above them, those of one recompute of a reversible block.
Ids == 1 .. MaxTensors + 6
x1r == MaxTensors + 1
x2r == MaxTensors + 2
fx  == MaxTensors + 3
fy1 == MaxTensors + 4
gy  == MaxTensors + 5
fy2 == MaxTensors + 6

VARIABLES
  built,      \* operations and blocks in the graph so far
  created,    \* tensors created by callers so far
  tensor,     \* each tensor: the operation and inputs of its node, whose node it has
              \* (0: none, a view has its base's), and requires_grad
  grad,       \* TensorImpl::grad: a buffer, 0 for none
  value,      \* what each gradient buffer holds
  parked,     \* PendingGrads of a block, by output: the gradient that arrived, 0 for none
  level,      \* how many engines are running: one, and one that a recompute runs in it
  phase,      \* what each does
  root,       \* the tensor it was started on
  seed,       \* and its gradient
  stack,      \* the calls of collect under way, by tensor
  next,       \* the input each of them looks at next
  visited, topo, pending,    \* BackwardEngine's fields
  pos,        \* where in topo it is
  prev, was,  \* what run and the guards in it saved: the active engine, autograd on or off
  active,     \* g_active_backward_engine, 0 for none
  enabled,    \* g_autograd_enabled
  step,       \* where a recompute is
  block,      \* of which block
  saved, wasOn,  \* what it saved
  calls,      \* what callers did so far, and failures
  want,       \* what each tensor's gradient should be
  arrived,    \* how often the node of each output of a block ran
  outside,    \* what the callers set g_autograd_enabled to
  exact       \* nothing happened that makes gradients differ from want

graphVars     == <<built, created, tensor>>
collectVars   == <<root, seed, stack, next, visited, topo>>
engineVars    == <<collectVars, phase, pos, prev, was>>
contextVars   == <<level, active, enabled>>
recomputeVars == <<step, block, saved, wasOn>>
runVars       == <<engineVars, pending, contextVars, recomputeVars>>
ghostVars     == <<calls, want, arrived, outside, exact>>
vars == <<graphVars, grad, value, parked, runVars, ghostVars>>

Engines == {1, 2}

Leaf(rg) == [op |-> "leaf", in |-> <<>>, fn |-> 0, rg |-> rg]
None == [t \in Ids |-> 0]

Init ==
  /\ built = 0
  /\ created = 2
  /\ \E rg \in BOOLEAN : tensor = [t \in Ids |-> IF t = 2 THEN Leaf(rg) ELSE Leaf(TRUE)]
  /\ grad = None
  /\ value = <<>>
  /\ parked = [t \in Ids |-> <<0, 0>>]
  /\ level = 0
  /\ phase = [e \in Engines |-> "idle"]
  /\ root = [e \in Engines |-> 0]
  /\ seed = [e \in Engines |-> 0]
  /\ stack = [e \in Engines |-> <<>>]
  /\ next = [e \in Engines |-> None]
  /\ visited = [e \in Engines |-> {}]
  /\ topo = [e \in Engines |-> <<>>]
  /\ pending = [e \in Engines |-> None]
  /\ pos = [e \in Engines |-> 0]
  /\ prev = [e \in Engines |-> 0]
  /\ was = [e \in Engines |-> TRUE]
  /\ active = 0
  /\ enabled = TRUE
  /\ step = "idle"
  /\ block = 0
  /\ saved = 0
  /\ wasOn = TRUE
  /\ calls = 0
  /\ want = None
  /\ arrived = None
  /\ outside = TRUE
  /\ exact = TRUE

-----------------------------------------------------------------------------
(* The graph.                                                              *)

\* The node of a tensor is stored with the tensor whose operation made it.
Node(t) == tensor[tensor[t].fn]
HasNode(t) == tensor[t].fn # 0

\* Node::inputs().
Inputs(t) == Node(t).in

\* The outputs y1 and y2 of a reversible block are made together, after the parameters of F
\* and G; a block is named by its y1.
Block(n) == IF tensor[n].op = "rev2" THEN n - 1 ELSE n
Part(n) == IF tensor[n].op = "rev2" THEN 2 ELSE 1
ParamF(b) == b - 2
ParamG(b) == b - 1

\* The result of an operation on in has a node when autograd is on and an input wants it.
Result(op, in, id, on, rg) ==
  IF on /\ rg THEN [op |-> op, in |-> in, fn |-> id, rg |-> TRUE] ELSE Leaf(FALSE)

Wants(in) == \E i \in DOMAIN in : tensor[in[i]].rg

Idle == level = 0

Counted == calls < MaxCalls /\ calls' = calls + 1

\* A caller does something, between calls of backward.
Does(call) == Idle /\ call \in Calls /\ Counted

\* A call that adds to the graph.  No node is ever changed later, so that a graph added to
\* after a backward is one that was there before it.
Builds(call, tensors) ==
  /\ Does(call)
  /\ value = <<>>
  /\ built < MaxOps
  /\ built' = built + 1
  /\ created + tensors <= MaxTensors
  /\ created' = created + tensors

\* A caller makes a new tensor.
Make(call, record) ==
  /\ Builds(call, 1)
  /\ tensor' = [tensor EXCEPT ![created + 1] = record]
  /\ UNCHANGED <<grad, value, parked, runVars, want, arrived, outside, exact>>

\* A differentiable operation with two inputs, each with a derivative of its own.
Op(a, b) == Make("op", Result("op", <<a, b>>, created + 1, enabled, Wants(<<a, b>>)))

\* add: its backward hands the very same gradient to both inputs.
Add(a, b) == Make("add", Result("add", <<a, b>>, created + 1, enabled, Wants(<<a, b>>)))

\* Tensor::view: another tensor with the same node.
View(a) == Make("view", [op |-> "view", in |-> <<a>>, fn |-> tensor[a].fn, rg |-> tensor[a].rg])

\* ReversibleBlock::forward(x1, x2) of a new block.
Reversible(a, b) ==
  LET y1 == created + 3
      out(op, id) == Result(op, <<a, b>>, id, enabled, TRUE)
  IN /\ Builds("reversible", 4)
     /\ tensor' = [tensor EXCEPT ![y1 - 2] = Leaf(TRUE), ![y1 - 1] = Leaf(TRUE),
                                 ![y1] = out("rev1", y1), ![y1 + 1] = out("rev2", y1 + 1)]
     /\ UNCHANGED <<grad, value, parked, runVars, want, arrived, outside, exact>>

\* A caller enters or leaves a NoGradGuard, or calls set_enabled.
SetEnabled ==
  /\ Does("no_grad")
  /\ enabled' = ~enabled
  /\ outside' = enabled'
  /\ UNCHANGED <<graphVars, grad, value, parked, engineVars, pending, level, active,
                 recomputeVars, want, arrived, exact>>

-----------------------------------------------------------------------------
(* What gradients should be: forward differentiation.                      *)

\* The weights of an operation's inputs.
Weights(op) == IF op = "op" THEN <<2, 3>> ELSE <<1, 1>>

\* The derivative of tensor t with respect to v, along inputs that want a gradient.  What
\* has no node of its own depends on nothing else: a view of a leaf is a variable too.
Derivative(t, v) ==
  LET d[u \in Ids] ==
        LET Term(weight, i) == IF tensor[i].rg THEN weight * d[i] ELSE 0
            n == tensor[u].fn
            in == tensor[n].in
            y1 == Term(1, in[1]) + Term(2, in[2]) + Term(3, ParamF(Block(n)))
        IN IF u = v THEN 1
           ELSE IF n = 0 THEN 0
           ELSE IF tensor[n].op = "rev1" THEN y1
           ELSE IF tensor[n].op = "rev2" THEN Term(1, in[2]) + 2 * y1 + Term(3, ParamG(Block(n)))
           ELSE Term(Weights(tensor[n].op)[1], in[1]) + Term(Weights(tensor[n].op)[2], in[2])
  IN d[t]

-----------------------------------------------------------------------------
(* Gradients.                                                              *)

\* mutated form: the gradient that arrives later replaces the earlier one.
LastGradient(s, t, b) == [pending |-> [s.pending EXCEPT ![t] = b], value |-> s.value]

\* BackwardEngine::add_gradient to the pending gradients s.pending: the first buffer is kept
\* as it is, a further one is added to it into a new buffer.
AddGradient(s, t, b) ==
  IF s.pending[t] = 0
  THEN [pending |-> [s.pending EXCEPT ![t] = b], value |-> s.value]
  ELSE [pending |-> [s.pending EXCEPT ![t] = Len(s.value) + 1],
        value |-> Append(s.value, s.value[s.pending[t]] + s.value[b])]

\* "if (x.requires_grad()) x.backward(...)" with the gradient of the output in buffer b: a
\* weight of one is the very same buffer.
Send(s, t, weight, b) ==
  IF ~tensor[t].rg THEN s
  ELSE IF weight = 1 THEN AddGradient(s, t, b)
  ELSE AddGradient([pending |-> s.pending, value |-> Append(s.value, weight * s.value[b])],
                   t, Len(s.value) + 1)

\* Node::backward of an operation that made tensor n.
SendAll(s, n, b) ==
  LET in == tensor[n].in
      weights == Weights(tensor[n].op)
  IN Send(Send(s, in[1], weights[1], b), in[2], weights[2], b)

Pending(e) == [pending |-> pending[e], value |-> value]

\* Tensor::_accumulate_grad: likewise.
Accumulated(t, b) ==
  IF grad[t] = 0 THEN [grad |-> b, value |-> value]
  ELSE [grad |-> Len(value) + 1, value |-> Append(value, value[grad[t]] + value[b])]

-----------------------------------------------------------------------------
(* BackwardEngine::run.                                                    *)

\* Engine e is made and begins to collect from tensor t, whose gradient is in buffer b.
Starts(e, t, b) ==
  /\ phase' = [phase EXCEPT ![e] = "collect"]
  /\ root' = [root EXCEPT ![e] = t]
  /\ seed' = [seed EXCEPT ![e] = b]
  /\ stack' = [stack EXCEPT ![e] = IF HasNode(t) THEN <<t>> ELSE <<>>]
  /\ visited' = [visited EXCEPT ![e] = IF HasNode(t) THEN {t} ELSE {}]
  /\ next' = [next EXCEPT ![e][t] = 1]
  /\ level' = e
  /\ UNCHANGED <<topo, pos, prev, was>>

\* A caller's loss.backward(), with a gradient of ones.
Backward(t) ==
  /\ Does("backward")
  /\ value' = Append(value, 1)
  /\ Starts(1, t, Len(value) + 1)
  /\ UNCHANGED <<graphVars, grad, parked, pending, active, enabled, recomputeVars,
                 want, arrived, outside, exact>>

\* The engine of this level is the code that runs.
Runs(e, name) ==
  /\ level = e
  /\ phase[e] = name
  /\ e = 1 => step = "idle"

Top(e) == stack[e][Len(stack[e])]

Collecting(e) == Runs(e, "collect") /\ stack[e] # <<>>

CollectUnchanged ==
  UNCHANGED <<graphVars, grad, value, parked, root, seed, phase, pos, prev, was, pending,
              contextVars, recomputeVars, ghostVars>>

\* mutated form: a tensor seen before is entered again.
EnterAgain(e) ==
  /\ Collecting(e)
  /\ next[e][Top(e)] <= Len(Inputs(Top(e)))
  /\ LET p == Inputs(Top(e))[next[e][Top(e)]]
     IN IF HasNode(p)
        THEN /\ stack' = [stack EXCEPT ![e] = Append(@, p)]
             /\ visited' = [visited EXCEPT ![e] = @ \cup {p}]
             /\ next' = [next EXCEPT ![e] = [next[e] EXCEPT ![Top(e)] = @ + 1, ![p] = 1]]
        ELSE /\ next' = [next EXCEPT ![e][Top(e)] = @ + 1]
             /\ UNCHANGED <<stack, visited>>
  /\ UNCHANGED topo
  /\ CollectUnchanged

\* collect looks at the next input of a tensor, and enters it if it has a node and was not
\* seen before.
CollectInput(e) ==
  /\ Collecting(e)
  /\ next[e][Top(e)] <= Len(Inputs(Top(e)))
  /\ LET p == Inputs(Top(e))[next[e][Top(e)]]
     IN IF HasNode(p) /\ p \notin visited[e]
        THEN /\ stack' = [stack EXCEPT ![e] = Append(@, p)]
             /\ visited' = [visited EXCEPT ![e] = @ \cup {p}]
             /\ next' = [next EXCEPT ![e] = [next[e] EXCEPT ![Top(e)] = @ + 1, ![p] = 1]]
        ELSE /\ next' = [next EXCEPT ![e][Top(e)] = @ + 1]
             /\ UNCHANGED <<stack, visited>>
  /\ UNCHANGED topo
  /\ CollectUnchanged

\* mutated form: the tensors are visited from the wrong end.
LeftFirst(e) ==
  /\ Collecting(e)
  /\ next[e][Top(e)] > Len(Inputs(Top(e)))
  /\ stack' = [stack EXCEPT ![e] = SubSeq(@, 1, Len(@) - 1)]
  /\ topo' = [topo EXCEPT ![e] = <<Top(e)>> \o @]
  /\ next' = [next EXCEPT ![e][Top(e)] = 0]
  /\ UNCHANGED visited
  /\ CollectUnchanged

\* It has seen them all.
CollectDone(e) ==
  /\ Collecting(e)
  /\ next[e][Top(e)] > Len(Inputs(Top(e)))
  /\ stack' = [stack EXCEPT ![e] = SubSeq(@, 1, Len(@) - 1)]
  /\ topo' = [topo EXCEPT ![e] = Append(@, Top(e))]
  /\ next' = [next EXCEPT ![e][Top(e)] = 0]
  /\ UNCHANGED visited
  /\ CollectUnchanged

\* mutated form: the visits begin one past the end.
StartPastEnd(e) ==
  /\ Runs(e, "collect")
  /\ stack[e] = <<>>
  /\ phase' = [phase EXCEPT ![e] = "visit"]
  /\ pos' = [pos EXCEPT ![e] = Len(topo[e]) + 1]
  /\ LET s == AddGradient(Pending(e), root[e], seed[e])
     IN /\ pending' = [pending EXCEPT ![e] = s.pending]
        /\ value' = s.value
  /\ prev' = [prev EXCEPT ![e] = active]
  /\ was' = [was EXCEPT ![e] = enabled]
  /\ active' = e
  /\ enabled' = FALSE
  /\ UNCHANGED <<graphVars, grad, parked, collectVars, level, recomputeVars, ghostVars>>

\* The engine becomes the active one, takes the root's gradient, and a NoGradGuard is set.
StartVisits(e) ==
  /\ Runs(e, "collect")
  /\ stack[e] = <<>>
  /\ phase' = [phase EXCEPT ![e] = "visit"]
  /\ pos' = [pos EXCEPT ![e] = Len(topo[e])]
  /\ LET s == AddGradient(Pending(e), root[e], seed[e])
     IN /\ pending' = [pending EXCEPT ![e] = s.pending]
        /\ value' = s.value
  /\ prev' = [prev EXCEPT ![e] = active]
  /\ was' = [was EXCEPT ![e] = enabled]
  /\ active' = e
  /\ enabled' = FALSE
  /\ UNCHANGED <<graphVars, grad, parked, collectVars, level, recomputeVars, ghostVars>>

\* The tensor whose node comes next, in reverse topological order.
Current(e) == topo[e][pos[e]]

Visiting(e) ==
  /\ Runs(e, "visit")
  /\ pos[e] > 0
  /\ pos' = [pos EXCEPT ![e] = @ - 1]
  /\ UNCHANGED <<collectVars, phase, prev, was, contextVars>>

\* No gradient arrived for it.
VisitNothing(e) ==
  /\ Visiting(e)
  /\ pending[e][Current(e)] = 0
  /\ UNCHANGED <<graphVars, grad, value, parked, pending, recomputeVars, ghostVars>>

\* Its node passes the gradient on to the active engine's pending gradients.
VisitOp(e) ==
  /\ Visiting(e)
  /\ pending[e][Current(e)] # 0
  /\ Node(Current(e)).op \in {"op", "add"}
  /\ LET s == SendAll(Pending(active), tensor[Current(e)].fn, pending[e][Current(e)])
     IN /\ pending' = [pending EXCEPT ![active] = s.pending]
        /\ value' = s.value
  /\ UNCHANGED <<graphVars, grad, parked, recomputeVars, ghostVars>>

\* mutated form: the block takes the first gradient for both.
VisitBlockAtOnce ==
  /\ Visiting(1)
  /\ pending[1][Current(1)] # 0
  /\ LET n == tensor[Current(1)].fn
         b == Block(n)
     IN /\ tensor[n].op \in {"rev1", "rev2"}
        /\ parked' = [parked EXCEPT ![b] = <<pending[1][Current(1)], pending[1][Current(1)]>>]
        /\ arrived' = [arrived EXCEPT ![n] = @ + 1]
        /\ step' = "forward" /\ block' = b
  /\ UNCHANGED <<graphVars, grad, value, pending, saved, wasOn, calls, want, outside, exact>>

\* ReversibleBackwardNode::backward parks the gradient; the one that finds both outputs'
\* gradients there starts the recompute.  Nothing empties the place again.  F and G hold no
\* further block, so a recompute has none in it.
VisitBlock ==
  /\ Visiting(1)
  /\ pending[1][Current(1)] # 0
  /\ LET n == tensor[Current(1)].fn
         b == Block(n)
     IN /\ tensor[n].op \in {"rev1", "rev2"}
        /\ parked' = [parked EXCEPT ![b][Part(n)] = pending[1][Current(1)]]
        /\ arrived' = [arrived EXCEPT ![n] = @ + 1]
        /\ IF parked'[b][1] # 0 /\ parked'[b][2] # 0
           THEN step' = "forward" /\ block' = b
           ELSE UNCHANGED <<step, block>>
  /\ UNCHANGED <<graphVars, grad, value, pending, saved, wasOn, calls, want, outside, exact>>

\* All nodes are done.
EndVisits(e) ==
  /\ Runs(e, "visit")
  /\ pos[e] = 0
  /\ phase' = [phase EXCEPT ![e] = "commit"]
  /\ UNCHANGED <<graphVars, grad, value, parked, collectVars, pos, prev, was, pending,
                 contextVars, recomputeVars, ghostVars>>

Left(e) == {t \in Ids : pending[e][t] # 0}

\* One pending gradient is added to its tensor's, intermediate tensors' included.
Commit(e) ==
  /\ Runs(e, "commit")
  /\ \E t \in Left(e) :
       /\ \A u \in Left(e) : t <= u
       /\ LET new == Accumulated(t, pending[e][t])
          IN /\ grad' = [grad EXCEPT ![t] = new.grad]
             /\ value' = new.value
       /\ pending' = [pending EXCEPT ![e][t] = 0]
  /\ UNCHANGED <<graphVars, parked, engineVars, contextVars, recomputeVars, ghostVars>>

\* Engines that are gone.
Gone(es) ==
  /\ phase' = [e \in Engines |-> IF e \in es THEN "idle" ELSE phase[e]]
  /\ root' = [e \in Engines |-> IF e \in es THEN 0 ELSE root[e]]
  /\ seed' = [e \in Engines |-> IF e \in es THEN 0 ELSE seed[e]]
  /\ stack' = [e \in Engines |-> IF e \in es THEN <<>> ELSE stack[e]]
  /\ next' = [e \in Engines |-> IF e \in es THEN None ELSE next[e]]
  /\ visited' = [e \in Engines |-> IF e \in es THEN {} ELSE visited[e]]
  /\ topo' = [e \in Engines |-> IF e \in es THEN <<>> ELSE topo[e]]
  /\ pending' = [e \in Engines |-> IF e \in es THEN None ELSE pending[e]]
  /\ pos' = [e \in Engines |-> IF e \in es THEN 0 ELSE pos[e]]
  /\ prev' = [e \in Engines |-> IF e \in es THEN 0 ELSE prev[e]]
  /\ was' = [e \in Engines |-> IF e \in es THEN TRUE ELSE was[e]]

\* run returns: the engine before is active again, the guards are gone.
Return(e) ==
  /\ Runs(e, "commit")
  /\ Left(e) = {}
  /\ level' = e - 1
  /\ active' = prev[e]
  /\ enabled' = was[e]
  /\ Gone({e})
  /\ want' = IF e = 1 THEN [t \in Ids |-> want[t] + Derivative(root[e], t)] ELSE want
  /\ UNCHANGED <<graphVars, grad, value, parked, recomputeVars, calls, arrived, outside, exact>>

-----------------------------------------------------------------------------
(* recompute_with_grads, between two steps of the outer engine.            *)

Recomputing(name) == level = 1 /\ step = name

Temporaries == x1r .. fy2

\* The inputs are recovered; autograd is switched on, F and G run again on them, and
\* IsolatedBackwardScope puts the engine aside.
Recompute ==
  /\ Recomputing("forward")
  /\ enabled' = TRUE
  /\ LET in == tensor[block].in
         made(op, inputs, id) == Result(op, inputs, id, enabled', TRUE)
     IN tensor' = [tensor EXCEPT ![x1r] = Leaf(tensor[in[1]].rg), ![x2r] = Leaf(tensor[in[2]].rg),
                                 ![fx]  = made("op", <<x2r, ParamF(block)>>, fx),
                                 ![fy1] = made("add", <<x1r, fx>>, fy1),
                                 ![gy]  = made("op", <<fy1, ParamG(block)>>, gy),
                                 ![fy2] = made("add", <<x2r, gy>>, fy2)]
  /\ active' = 0
  /\ step' = "y1"
  /\ saved' = active
  /\ wasOn' = enabled
  /\ UNCHANGED <<built, created, grad, value, parked, engineVars, pending, level, block,
                 ghostVars>>

\* fy1.backward(gy1), then fy2.backward(gy2): with no active engine each starts one, else
\* the gradient would join the active engine's.
Nested(part) ==
  LET output == IF part = 1 THEN fy1 ELSE fy2
      given == parked[block][part]
  IN /\ Recomputing(IF part = 1 THEN "y1" ELSE "y2")
     /\ step' = IF part = 1 THEN "y2" ELSE "dispatch"
     /\ IF active = 0
        THEN Starts(2, output, given) /\ UNCHANGED <<pending, value>>
        ELSE LET s == AddGradient(Pending(active), output, given)
             IN /\ pending' = [pending EXCEPT ![active] = s.pending]
                /\ value' = s.value
                /\ UNCHANGED <<engineVars, level>>
     /\ UNCHANGED <<graphVars, grad, parked, active, enabled, block, saved, wasOn, ghostVars>>

\* "if (x.requires_grad())" and the recovered input got a gradient.
Hand(s, x, xr) == IF tensor[x].rg /\ grad[xr] # 0 THEN AddGradient(s, x, grad[xr]) ELSE s

\* Both scopes end; the gradients of the recovered inputs go to the block's inputs, and the
\* recomputed tensors are gone.
Dispatch ==
  /\ Recomputing("dispatch")
  /\ active' = saved
  /\ enabled' = wasOn
  /\ LET in == tensor[block].in
         s == Hand(Hand(Pending(saved), in[1], x1r), in[2], x2r)
     IN /\ pending' = [pending EXCEPT ![saved] = s.pending]
        /\ value' = s.value
  /\ grad' = [t \in Ids |-> IF t \in Temporaries THEN 0 ELSE grad[t]]
  /\ step' = "idle"
  /\ block' = 0
  /\ saved' = 0
  /\ wasOn' = TRUE
  /\ UNCHANGED <<graphVars, parked, engineVars, level, ghostVars>>

-----------------------------------------------------------------------------
(* Failures, and what optimizers do with gradients.                        *)

\* Buffers above this one are nobody's.
LastUsed(grads) ==
  LET used == {grads[t] : t \in Ids} \cup {parked[t][part] : t \in Ids, part \in {1, 2}}
  IN CHOOSE b \in used : \A c \in used : c <= b

\* mutated form: autograd stays as the recompute had set it.
ThrowUnguarded ==
  /\ "throw" \in Faults
  /\ Counted
  /\ level > 0
  /\ phase[level] \in {"visit", "commit"}
  /\ level' = 0
  /\ active' = prev[1]
  /\ UNCHANGED enabled
  /\ Gone(Engines)
  /\ step' = "idle"
  /\ block' = 0
  /\ saved' = 0
  /\ wasOn' = TRUE
  /\ grad' = [t \in Ids |-> IF t \in Temporaries THEN 0 ELSE grad[t]]
  /\ exact' = (exact /\ phase[1] = "visit" /\ arrived = None)
  /\ value' = SubSeq(value, 1, LastUsed(grad'))
  /\ UNCHANGED <<graphVars, parked, want, arrived, outside>>

\* A kernel fails in a node's backward, in a recompute or while gradients are added up: the
\* exception leaves every engine, restoring what each engine and guard has saved.
Throw ==
  /\ "throw" \in Faults
  /\ Counted
  /\ level > 0
  /\ phase[level] \in {"visit", "commit"}
  /\ level' = 0
  /\ active' = prev[1]
  /\ enabled' = was[1]
  /\ Gone(Engines)
  /\ step' = "idle"
  /\ block' = 0
  /\ saved' = 0
  /\ wasOn' = TRUE
  /\ grad' = [t \in Ids |-> IF t \in Temporaries THEN 0 ELSE grad[t]]
  /\ exact' = (exact /\ phase[1] = "visit" /\ arrived = None)
  /\ value' = SubSeq(value, 1, LastUsed(grad'))
  /\ UNCHANGED <<graphVars, parked, want, arrived, outside>>

\* The trainable tensors that optimizers know.
Params == {t \in 1 .. created : tensor[t].op = "leaf" /\ tensor[t].rg}

Blocks == {t \in 1 .. created : tensor[t].op = "rev1"}

\* The nodes of both outputs of every block have run, once, or neither has.
BlocksPaired == \A b \in Blocks : arrived[b] = arrived[b + 1] /\ arrived[b] <= 1

\* Optimizer::zero_grad.  What a block has parked stays, and arrives later.
ZeroGrad ==
  /\ Does("zero_grad")
  /\ grad' = [t \in Ids |-> IF t \in Params THEN 0 ELSE grad[t]]
  /\ want' = [t \in Ids |-> IF t \in Params THEN 0 ELSE want[t]]
  /\ exact' = (exact /\ BlocksPaired)
  /\ UNCHANGED <<graphVars, value, parked, runVars, arrived, outside>>

\* The parameters whose gradient is in buffer b.
Sharing(b) == {p \in Params : grad[p] = b}

Doubled(n, times) == n * 2 ^ times

\* DynamicLossScaler::unscale_ or clip_grad_norm: every parameter's gradient is scaled where
\* it is, by two here.  A buffer two parameters share is scaled twice.
Scale ==
  /\ Does("scale")
  /\ value' = [b \in DOMAIN value |-> Doubled(value[b], Cardinality(Sharing(b)))]
  /\ want' = [t \in Ids |-> IF t \in Params THEN 2 * want[t] ELSE want[t]]
  /\ exact' = (exact /\ BlocksPaired /\ \A b \in DOMAIN value : Cardinality(Sharing(b)) <= 1)
  /\ UNCHANGED <<graphVars, grad, parked, runVars, arrived, outside>>

-----------------------------------------------------------------------------
\* One input of an operation is the tensor made last: a graph of which no part is unused.
Build ==
  \/ \E a \in 1 .. created : Op(a, created) \/ Add(a, created) \/ Reversible(a, created)
  \/ View(created)

Run(e) ==
  \/ CollectInput(e) \/ CollectDone(e) \/ StartVisits(e)
  \/ VisitNothing(e) \/ VisitOp(e) \/ EndVisits(e)
  \/ Commit(e) \/ Return(e)

Next ==
  \/ Build \/ SetEnabled \/ ZeroGrad \/ Scale
  \/ \E t \in {u \in 1 .. created : HasNode(u)} : Backward(t)
  \/ \E e \in Engines : Run(e)
  \/ VisitBlock \/ Recompute \/ (\E part \in {1, 2} : Nested(part)) \/ Dispatch
  \/ Throw

Spec == Init /\ [][Next]_vars

-----------------------------------------------------------------------------
(* Properties.                                                             *)

Operations == {"leaf", "op", "add", "view", "rev1", "rev2"}

TensorType == [op : Operations, in : Seq(Ids), fn : Ids \cup {0}, rg : BOOLEAN]

\* The state has its type.
TypeOK ==
  /\ built \in 0 .. MaxOps
  /\ created \in 2 .. MaxTensors
  /\ tensor \in [Ids -> TensorType]
  /\ grad \in [Ids -> 0 .. Len(value)]
  /\ parked \in [Ids -> (0 .. Len(value)) \X (0 .. Len(value))]
  /\ level \in {0} \cup Engines
  /\ phase \in [Engines -> {"idle", "collect", "visit", "commit"}]
  /\ \A e \in Engines :
       /\ root[e] \in Ids \cup {0}
       /\ seed[e] \in 0 .. Len(value)
       /\ stack[e] \in Seq(Ids) /\ topo[e] \in Seq(Ids)
       /\ visited[e] \subseteq Ids
       /\ next[e] \in [Ids -> Nat]
       /\ pending[e] \in [Ids -> 0 .. Len(value)]
       /\ pos[e] \in 0 .. Len(topo[e])
  /\ active \in {0} \cup Engines
  /\ step \in {"idle", "forward", "y1", "y2", "dispatch"}
  /\ block \in Ids \cup {0}
  /\ calls \in 0 .. MaxCalls
  /\ {enabled, outside, wasOn, exact} \subseteq BOOLEAN

Elements(s) == {s[i] : i \in DOMAIN s}

\* Between what a search has entered and what it has left there is nothing else.
Entered(e) ==
  /\ visited[e] = Elements(stack[e]) \cup Elements(topo[e])
  /\ \A t \in visited[e] : HasNode(t)

\* Inputs are older than what was made of them: the calls under way go down in age, and
\* none of them is met again.
Descending(e) == \A i, j \in DOMAIN stack[e] : i < j => stack[e][j] < stack[e][i]

\* No tensor is left twice, or before it was left.
LeftOnce(e) ==
  /\ \A i \in DOMAIN stack[e], j \in DOMAIN topo[e] : stack[e][i] # topo[e][j]
  /\ \A i, j \in DOMAIN topo[e] : i # j => topo[e][i] # topo[e][j]

\* Every tensor is left after the inputs of its operation.
AfterInputs(e) ==
  \A i \in DOMAIN topo[e] : \A k \in DOMAIN Inputs(topo[e][i]) :
    HasNode(Inputs(topo[e][i])[k]) => \E j \in 1 .. i - 1 : topo[e][j] = Inputs(topo[e][i])[k]

\* Of a tensor on the stack, the inputs looked at are left, but the last may be right above.
Looked(e) ==
  \A i \in DOMAIN stack[e] : \A k \in DOMAIN Inputs(stack[e][i]) :
    k < next[e][stack[e][i]] /\ HasNode(Inputs(stack[e][i])[k]) =>
      \/ Inputs(stack[e][i])[k] \in Elements(topo[e])
      \/ i < Len(stack[e]) /\ stack[e][i + 1] = Inputs(stack[e][i])[k]

\* What holds at every moment of collect: in the end topo is a topological order, each
\* tensor once.
SearchInv ==
  \A e \in Engines : Entered(e) /\ Descending(e) /\ LeftOnce(e) /\ AfterInputs(e) /\ Looked(e)

Held(t) == IF grad[t] = 0 THEN 0 ELSE value[grad[t]]

\* Between calls of backward, a parameter's gradient is the sum of the derivatives of the
\* tensors backward was called on, through shared subgraphs, views and recomputed blocks,
\* after failures as well.
GradsExact ==
  Idle /\ exact /\ BlocksPaired => \A p \in Params : Held(p) = want[p]

\* A block of which one output has passed its gradient on, and the other not yet or never,
\* only keeps gradients back.
HalfBlockOnlyLacks ==
  Idle /\ exact /\ (\A t \in Ids : arrived[t] <= 1) => \A p \in Params : Held(p) <= want[p]

\* The thread's autograd state is what the code that runs relies on: gradients go to the
\* engine that runs, nodes build no graph, and callers find what they left, after a
\* failure inside a recompute too.
ContextRight ==
  /\ Idle => active = 0 /\ enabled = outside
  /\ level = 1 /\ phase[1] \in {"visit", "commit"} /\ step \in {"idle", "forward"} =>
       active = 1 /\ ~enabled
  /\ level = 2 /\ phase[2] \in {"visit", "commit"} => active = 2 /\ ~enabled

\* A tensor whose node has run gets no further gradient from the run: none comes too late
\* to be passed on.
NoLateGradient ==
  [][\A e \in Engines :
       phase[e] = "visit" /\ phase'[e] = "visit" =>
         \A i \in pos[e] + 1 .. Len(topo[e]) :
           pending'[e][topo[e][i]] = pending[e][topo[e][i]]]_vars

=============================================================================
