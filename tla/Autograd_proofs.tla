-------------------------- MODULE Autograd_proofs --------------------------
(***************************************************************************)
(* Proofs about the backward engine: the thread's autograd state through   *)
(* nested engines and failures, and the order in which nodes are visited,  *)
(* for every graph.                                                        *)
(***************************************************************************)
EXTENDS Autograd, SequenceTheorems, TLAPS

Phases == {"idle", "collect", "visit", "commit"}

(* What an engine, or a recompute, has saved is what was there before it.  *)
ContextInv ==
  /\ phase \in [Engines -> Phases]
  /\ prev = [e \in Engines |-> prev[e]]
  /\ was = [e \in Engines |-> was[e]]
  /\ level \in {0, 1, 2}
  /\ step \in {"idle", "forward", "y1", "y2", "dispatch"}
  /\ level = 0 => /\ phase[1] = "idle" /\ step = "idle"
                  /\ active = 0 /\ enabled = outside
  /\ level < 2 => phase[2] = "idle"
  /\ level > 0 => phase[1] # "idle"
  /\ level = 2 => phase[2] # "idle" /\ step \in {"y2", "dispatch"}
  /\ phase[1] = "collect" => step = "idle" /\ active = 0 /\ enabled = outside
  /\ phase[1] \in {"visit", "commit"} => prev[1] = 0 /\ was[1] = outside
  /\ phase[1] \in {"visit", "commit"} /\ step \in {"idle", "forward"} =>
       active = 1 /\ enabled = FALSE
  /\ step # "idle" => phase[1] = "visit"
  /\ step \in {"y1", "y2", "dispatch"} => saved = 1 /\ wasOn = FALSE
  /\ step \in {"y1", "y2", "dispatch"} /\ phase[2] \in {"idle", "collect"} =>
       active = 0 /\ enabled = TRUE
  /\ phase[2] \in {"visit", "commit"} =>
       active = 2 /\ enabled = FALSE /\ prev[2] = 0 /\ was[2] = TRUE

(* At first no engine runs.                                                *)
LEMMA ContextInit == Init => ContextInv
  BY DEF Init, ContextInv, Engines, Phases

(* Steps of callers that start no engine.                                  *)
LEMMA ContextBuild == ContextInv /\ Build => ContextInv'
  <1> SUFFICES ASSUME ContextInv, Build PROVE ContextInv'
    OBVIOUS
  <1>1. UNCHANGED <<runVars, outside>>
    BY DEF Build, Op, Add, View, Reversible, Make
  <1> QED
    BY <1>1 DEF ContextInv, runVars, engineVars, contextVars, recomputeVars

LEMMA ContextCallers == ContextInv /\ (SetEnabled \/ ZeroGrad \/ Scale) => ContextInv'
  <1> SUFFICES ASSUME ContextInv, SetEnabled \/ ZeroGrad \/ Scale PROVE ContextInv'
    OBVIOUS
  <1>1. CASE SetEnabled
    BY <1>1 DEF SetEnabled, ContextInv, Does, Idle, engineVars, recomputeVars, Phases, Engines
  <1>2. CASE ZeroGrad \/ Scale
    BY <1>2 DEF ZeroGrad, Scale, ContextInv, runVars, engineVars, contextVars, recomputeVars
  <1> QED
    BY <1>1, <1>2

LEMMA ContextStart ==
  ContextInv /\ ((\E t \in Ids : Backward(t)) \/ (\E part \in {1, 2} : Nested(part)))
    => ContextInv'
  <1> SUFFICES ASSUME ContextInv,
                      (\E t \in Ids : Backward(t)) \/ (\E part \in {1, 2} : Nested(part))
               PROVE ContextInv'
    OBVIOUS
  <1>1. CASE \E t \in Ids : Backward(t)
    BY <1>1 DEF Backward, Starts, ContextInv, Does, Idle, recomputeVars, Phases, Engines
  <1>2. CASE \E part \in {1, 2} : Nested(part)
    <2>1. PICK part \in {1, 2} : Nested(part)
      BY <1>2
    <2>2. active = 0 /\ level = 1 /\ step \in {"y1", "y2"} /\ step' \in {"y2", "dispatch"}
      BY <2>1 DEF Nested, Recomputing, ContextInv
    <2>3. /\ phase' = [phase EXCEPT ![2] = "collect"] /\ level' = 2
          /\ UNCHANGED <<prev, was, active, enabled, saved, wasOn, outside>>
      BY <2>1, <2>2 DEF Nested, Starts, ghostVars
    <2> QED
      BY <2>2, <2>3 DEF ContextInv, Phases, Engines
  <1> QED
    BY <1>1, <1>2

LEMMA ContextCollect ==
  ASSUME NEW e \in Engines
  PROVE ContextInv /\ (CollectInput(e) \/ CollectDone(e)) => ContextInv'
  BY DEF CollectInput, CollectDone, CollectUnchanged, ContextInv, contextVars, recomputeVars,
         ghostVars

LEMMA ContextStartVisits ==
  ASSUME NEW e \in Engines
  PROVE ContextInv /\ StartVisits(e) => ContextInv'
  <1> SUFFICES ASSUME ContextInv, StartVisits(e) PROVE ContextInv'
    OBVIOUS
  <1>1. /\ level = e /\ phase[e] = "collect" /\ (e = 1 => step = "idle")
        /\ phase' = [phase EXCEPT ![e] = "visit"]
        /\ prev' = [prev EXCEPT ![e] = active]
        /\ was' = [was EXCEPT ![e] = enabled]
        /\ active' = e /\ enabled' = FALSE
        /\ UNCHANGED <<level, step, saved, wasOn, outside>>
    BY DEF StartVisits, Runs, recomputeVars, ghostVars
  <1>2. CASE e = 1
    <2>1. phase'[1] = "visit" /\ prev'[1] = active /\ was'[1] = enabled /\ phase'[2] = phase[2]
      BY <1>1, <1>2 DEF ContextInv, Engines
    <2>2. active = 0 /\ enabled = outside /\ phase[2] = "idle"
      BY <1>1, <1>2 DEF ContextInv
    <2> QED
      BY <1>1, <1>2, <2>1, <2>2 DEF ContextInv, Phases, Engines
  <1>3. CASE e = 2
    <2>1. phase[1] = "visit" /\ phase'[1] = "visit" /\ prev'[1] = prev[1] /\ was'[1] = was[1]
      BY <1>1, <1>3 DEF ContextInv, Phases, Engines
    <2>2. phase'[2] = "visit" /\ prev'[2] = 0 /\ was'[2] = TRUE
      BY <1>1, <1>3 DEF ContextInv, Phases, Engines
    <2>3. step \in {"y2", "dispatch"}
      BY <1>1, <1>3 DEF ContextInv
    <2> QED
      BY <1>1, <1>3, <2>1, <2>2, <2>3 DEF ContextInv, Phases, Engines
  <1> QED
    BY <1>2, <1>3 DEF Engines

LEMMA ContextVisit ==
  ASSUME NEW e \in Engines
  PROVE ContextInv /\ (VisitNothing(e) \/ VisitOp(e) \/ VisitBlock) => ContextInv'
  <1> SUFFICES ASSUME ContextInv, VisitNothing(e) \/ VisitOp(e) \/ VisitBlock
               PROVE ContextInv'
    OBVIOUS
  <1>1. CASE VisitNothing(e) \/ VisitOp(e)
    BY <1>1 DEF VisitNothing, VisitOp, Visiting, ContextInv, contextVars, recomputeVars, ghostVars
  <1>2. CASE VisitBlock
    BY <1>2 DEF VisitBlock, Visiting, Runs, ContextInv, contextVars, Engines, Phases
  <1> QED
    BY <1>1, <1>2

LEMMA ContextCommit ==
  ASSUME NEW e \in Engines
  PROVE ContextInv /\ (EndVisits(e) \/ Commit(e) \/ Return(e)) => ContextInv'
  <1> SUFFICES ASSUME ContextInv, EndVisits(e) \/ Commit(e) \/ Return(e)
               PROVE ContextInv'
    OBVIOUS
  <1>1. CASE EndVisits(e)
    BY <1>1 DEF EndVisits, Runs, ContextInv, contextVars, recomputeVars, ghostVars, Engines, Phases
  <1>2. CASE Commit(e)
    BY <1>2 DEF Commit, ContextInv, engineVars, contextVars, recomputeVars, ghostVars
  <1>3. CASE Return(e)
    BY <1>3 DEF Return, Runs, Gone, ContextInv, recomputeVars, Engines, Phases
  <1> QED
    BY <1>1, <1>2, <1>3

(* The guards of a recompute end with it, or with the engine it fails in.  *)
LEMMA ContextRecompute == ContextInv /\ (Recompute \/ Dispatch \/ Throw) => ContextInv'
  <1> SUFFICES ASSUME ContextInv, Recompute \/ Dispatch \/ Throw PROVE ContextInv'
    OBVIOUS
  <1>1. CASE Recompute
    BY <1>1 DEF Recompute, Recomputing, ContextInv, engineVars, ghostVars, Engines, Phases
  <1>2. CASE Dispatch
    BY <1>2 DEF Dispatch, Recomputing, ContextInv, engineVars, ghostVars, Engines, Phases
  <1>3. CASE Throw
    BY <1>3 DEF Throw, Gone, ContextInv, Engines, Phases
  <1> QED
    BY <1>1, <1>2, <1>3

LEMMA ContextStep == ContextInv /\ [Next]_vars => ContextInv'
  <1> SUFFICES ASSUME ContextInv, [Next]_vars PROVE ContextInv'
    OBVIOUS
  <1>1. CASE Next
    <2>1. CASE \E t \in {u \in 1 .. created : HasNode(u)} : Backward(t)
      <3>1. PICK t : Backward(t)
        BY <2>1
      <3> QED
        BY <3>1 DEF Backward, Starts, ContextInv, Does, Idle, recomputeVars, Phases, Engines
    <2>2. CASE \E e \in Engines : Run(e)
      BY <2>2, ContextCollect, ContextStartVisits, ContextVisit, ContextCommit DEF Run
    <2> QED
      BY <1>1, <2>1, <2>2, ContextBuild, ContextCallers, ContextStart, ContextVisit,
         ContextRecompute DEF Next, Engines
  <1>2. CASE UNCHANGED vars
    BY <1>2 DEF vars, runVars, engineVars, contextVars, recomputeVars, ghostVars, ContextInv
  <1> QED
    BY <1>1, <1>2

(* Whatever fails, at whatever depth, the thread's autograd state is the   *)
(* one the code that runs relies on, and callers find theirs.              *)
THEOREM ContextAlways == Spec => []ContextRight
  <1>1. ContextInv => ContextRight
    BY DEF ContextInv, ContextRight, Idle
  <1> QED
    BY <1>1, ContextInit, ContextStep, PTL DEF Spec

-----------------------------------------------------------------------------
(* The graph.                                                              *)

(* Inputs are older than the operation's result, a view has the node of an *)
(* older tensor, and the outputs of a block have the same inputs.          *)
GraphInv ==
  /\ created \in 2 .. MaxTensors
  /\ tensor \in [Ids -> TensorType]
  /\ \A t \in Ids : t <= MaxTensors => tensor[t].fn <= t /\ tensor[t].fn <= created
  /\ \A t \in Ids : t > MaxTensors => tensor[t].fn \in {0, t}
  /\ \A t \in Ids : tensor[t].fn # 0 => tensor[tensor[t].fn].fn = tensor[t].fn
  /\ \A t \in Ids : tensor[t].fn = t =>
       Len(tensor[t].in) = 2 /\ \A k \in {1, 2} : tensor[t].in[k] < t
  /\ \A t \in Ids : tensor[t].op = "rev1" /\ tensor[t].fn = t => 2 < t /\ t <= created
  /\ \A t \in Ids : tensor[t].op = "rev2" /\ tensor[t].fn = t =>
       3 < t /\ t <= created /\ tensor[t - 1].in = tensor[t].in

LEMMA IdsFacts ==
  /\ MaxTensors \in Nat /\ MaxTensors >= 2
  /\ Ids = 1 .. MaxTensors + 6
  /\ x1r = MaxTensors + 1 /\ x2r = MaxTensors + 2 /\ fx = MaxTensors + 3
  /\ fy1 = MaxTensors + 4 /\ gy = MaxTensors + 5 /\ fy2 = MaxTensors + 6
  /\ \A t \in Ids : t \in Nat /\ t > 0
  BY ConstantsAssumption DEF Ids, x1r, x2r, fx, fy1, gy, fy2

LEMMA LeafType ==
  ASSUME NEW rg \in BOOLEAN
  PROVE  Leaf(rg) \in TensorType /\ Leaf(rg).fn = 0 /\ Leaf(rg).op = "leaf"
  <1>1. <<>> \in Seq(Ids)
    OBVIOUS
  <1>2. Leaf(rg) = [op |-> "leaf", in |-> <<>>, fn |-> 0, rg |-> rg]
    BY DEF Leaf
  <1> QED
    BY <1>1, <1>2 DEF TensorType, Operations

LEMMA GraphInit == Init => GraphInv
  <1> SUFFICES ASSUME Init PROVE GraphInv
    OBVIOUS
  <1>1. PICK rg \in BOOLEAN : tensor = [t \in Ids |-> IF t = 2 THEN Leaf(rg) ELSE Leaf(TRUE)]
    BY DEF Init
  <1>2. \A t \in Ids : tensor[t].fn = 0 /\ tensor[t] \in TensorType
    BY <1>1, LeafType
  <1>3. tensor \in [Ids -> TensorType]
    BY <1>1, <1>2
  <1>4. \A t \in Ids : tensor[t].fn # t /\ tensor[t].fn <= t /\ tensor[t].fn <= 2
    BY <1>2, IdsFacts
  <1>5. created = 2
    BY DEF Init
  <1> QED
    BY <1>2, <1>3, <1>4, <1>5, IdsFacts DEF GraphInv

(* The graph only grows, by operations on what is there.                   *)
Grows ==
  /\ created' \in created + 1 .. MaxTensors
  /\ tensor' \in [Ids -> TensorType]
  /\ \A t \in Ids : t \notin created + 1 .. created' => tensor'[t] = tensor[t]
  /\ \A t \in created + 1 .. created' :
       /\ tensor'[t].fn \in {0, t} \/ \E a \in 1 .. created : tensor'[t].fn = tensor[a].fn
       /\ tensor'[t].fn = t =>
            Len(tensor'[t].in) = 2 /\ \A k \in {1, 2} : tensor'[t].in[k] < t
       /\ tensor'[t].op = "rev2" /\ tensor'[t].fn = t =>
            t - 1 \in created + 1 .. created' /\ tensor'[t - 1].in = tensor'[t].in

LEMMA GraphGrows ==
  ASSUME GraphInv, Grows
  PROVE  GraphInv'
  <1> DEFINE new == created + 1 .. created'
  <1>0. /\ created \in Nat /\ created' \in Nat /\ created < created' /\ created' <= MaxTensors
        /\ MaxTensors \in Nat
        /\ \A t \in Ids : t \notin new => tensor'[t] = tensor[t]
    <2>0. \A t \in Ids : t \notin new => tensor'[t] = tensor[t]
      BY DEF Grows
    <2>1. created \in 2 .. MaxTensors /\ created' \in created + 1 .. MaxTensors
      BY DEF GraphInv, Grows
    <2> QED
      BY <2>0, <2>1, IdsFacts
  <1>1. new \subseteq Ids /\ \A t \in new : t <= MaxTensors /\ t \in Nat
    BY <1>0, IdsFacts
  <1>2. \A t \in Ids : t \in Nat /\ t > 0
    BY IdsFacts
  <1>3. \A t \in 1 .. created : t \in Ids /\ t \notin new /\ t <= MaxTensors
    BY <1>0, IdsFacts
  <1>11. created >= 2 /\ \A t \in new : 2 < t /\ t <= created'
    <2>1. created \in 2 .. MaxTensors
      BY DEF GraphInv
    <2> QED
      BY <2>1, <1>0, <1>1
  <1>12. \A t \in Ids : tensor'[t].op = "rev1" /\ tensor'[t].fn = t => 2 < t /\ t <= created'
    <2> SUFFICES ASSUME NEW t \in Ids, tensor'[t].op = "rev1", tensor'[t].fn = t
                 PROVE  2 < t /\ t <= created'
      OBVIOUS
    <2>1. CASE t \in new
      BY <2>1, <1>11
    <2>2. CASE t \notin new
      <3>1. 2 < t /\ t <= created
        BY <2>2, <1>0 DEF GraphInv
      <3> QED
        BY <3>1, <1>0, <1>2
    <2> QED
      BY <2>1, <2>2
  <1>4. \A t \in Ids : t <= MaxTensors => tensor'[t].fn <= t /\ tensor'[t].fn <= created'
    <2> SUFFICES ASSUME NEW t \in Ids, t <= MaxTensors
                 PROVE  tensor'[t].fn <= t /\ tensor'[t].fn <= created'
      OBVIOUS
    <2>0. t \in new =>
            tensor'[t].fn \in {0, t} \/ \E a \in 1 .. created : tensor'[t].fn = tensor[a].fn
      BY DEF Grows
    <2>1. CASE t \notin new
      <3>1. tensor[t].fn <= t /\ tensor[t].fn <= created /\ tensor[t].fn \in Ids \cup {0}
        BY DEF GraphInv, TensorType
      <3> QED
        BY <2>1, <3>1, <1>0, <1>2
    <2>2. CASE t \in new /\ tensor'[t].fn \in {0, t}
      BY <2>2, <1>0, <1>2
    <2>3. CASE t \in new /\ \E a \in 1 .. created : tensor'[t].fn = tensor[a].fn
      <3>1. PICK a \in 1 .. created : tensor'[t].fn = tensor[a].fn
        BY <2>3
      <3>2. a \in Ids /\ tensor[a].fn <= created /\ tensor[a].fn \in Ids \cup {0}
        BY <1>3 DEF GraphInv, TensorType
      <3>3. created < t
        BY <2>3, <1>0
      <3>4. t \in Nat
        BY <1>2
      <3>5. CASE tensor[a].fn = 0
        BY <3>1, <3>4, <3>5, <1>0
      <3>6. CASE tensor[a].fn \in Ids
        <4>1. tensor[a].fn \in Nat
          BY <3>6, <1>2
        <4> QED
          BY <4>1, <3>1, <3>2, <3>3, <3>4, <1>0
      <3> QED
        BY <3>2, <3>5, <3>6
    <2> QED
      BY <2>0, <2>1, <2>2, <2>3
  <1>5. \A t \in Ids : t > MaxTensors => tensor'[t].fn \in {0, t}
    <2> SUFFICES ASSUME NEW t \in Ids, t > MaxTensors PROVE tensor'[t].fn \in {0, t}
      OBVIOUS
    <2>1. t \notin new
      BY <1>0, <1>1, <1>2
    <2> QED
      BY <2>1, <1>0 DEF GraphInv
  <1>6. \A t \in Ids : tensor[t].fn # 0 /\ t \notin new =>
          /\ tensor[t].fn \in Ids /\ tensor[t].fn \notin new
          /\ tensor'[tensor[t].fn] = tensor[tensor[t].fn]
    <2> SUFFICES ASSUME NEW t \in Ids, tensor[t].fn # 0, t \notin new
                 PROVE  tensor[t].fn \in Ids /\ tensor[t].fn \notin new
      BY <1>0
    <2>1. tensor[t].fn \in Ids
      BY DEF GraphInv, TensorType
    <2>2. CASE t <= MaxTensors
      <3>1. tensor[t].fn <= created
        BY <2>2 DEF GraphInv
      <3> QED
        BY <2>1, <3>1, <1>0, <1>2
    <2>3. CASE t > MaxTensors
      BY <2>1, <2>3 DEF GraphInv
    <2> QED
      BY <2>2, <2>3, <1>0, <1>2
  <1>7. \A t \in Ids : tensor'[t].fn # 0 => tensor'[tensor'[t].fn].fn = tensor'[t].fn
    <2> SUFFICES ASSUME NEW t \in Ids, tensor'[t].fn # 0
                 PROVE  tensor'[tensor'[t].fn].fn = tensor'[t].fn
      OBVIOUS
    <2>0. t \in new =>
            tensor'[t].fn \in {0, t} \/ \E a \in 1 .. created : tensor'[t].fn = tensor[a].fn
      BY DEF Grows
    <2>1. CASE t \notin new
      <3>1. tensor'[t] = tensor[t]
        BY <2>1, <1>0
      <3>2. tensor[tensor[t].fn].fn = tensor[t].fn
        BY <3>1 DEF GraphInv
      <3> QED
        BY <2>1, <3>1, <3>2, <1>6
    <2>2. CASE t \in new /\ tensor'[t].fn \in {0, t}
      BY <2>2
    <2>3. CASE t \in new /\ \E a \in 1 .. created : tensor'[t].fn = tensor[a].fn
      <3>1. PICK a \in 1 .. created : tensor'[t].fn = tensor[a].fn
        BY <2>3
      <3>2. a \in Ids /\ a \notin new
        BY <1>3
      <3>3. tensor[tensor[a].fn].fn = tensor[a].fn
        BY <3>1, <3>2 DEF GraphInv
      <3> QED
        BY <3>1, <3>2, <3>3, <1>6
    <2> QED
      BY <2>0, <2>1, <2>2, <2>3
  <1>8. \A t \in Ids : tensor'[t].fn = t =>
          Len(tensor'[t].in) = 2 /\ \A k \in {1, 2} : tensor'[t].in[k] < t
    <2> SUFFICES ASSUME NEW t \in Ids, tensor'[t].fn = t
                 PROVE  Len(tensor'[t].in) = 2 /\ \A k \in {1, 2} : tensor'[t].in[k] < t
      OBVIOUS
    <2>1. CASE t \in new
      BY <2>1 DEF Grows
    <2>2. CASE t \notin new
      BY <2>2, <1>0 DEF GraphInv
    <2> QED
      BY <2>1, <2>2
  <1>9. \A t \in Ids : tensor'[t].op = "rev2" /\ tensor'[t].fn = t =>
          3 < t /\ t <= created' /\ tensor'[t - 1].in = tensor'[t].in
    <2> SUFFICES ASSUME NEW t \in Ids, tensor'[t].op = "rev2", tensor'[t].fn = t
                 PROVE  3 < t /\ t <= created' /\ tensor'[t - 1].in = tensor'[t].in
      OBVIOUS
    <2>1. CASE t \in new
      <3>1. t - 1 \in new /\ tensor'[t - 1].in = tensor'[t].in
        BY <2>1 DEF Grows
      <3> QED
        BY <2>1, <3>1, <1>0, <1>11
    <2>2. CASE t \notin new
      <3>0. tensor'[t] = tensor[t]
        BY <2>2, <1>0
      <3>1. 3 < t /\ t <= created /\ tensor[t - 1].in = tensor[t].in
        BY <3>0 DEF GraphInv
      <3>2. t - 1 \notin new /\ t - 1 \in Ids
        BY <3>1, <1>0, <1>2, IdsFacts
      <3> QED
        BY <3>0, <3>1, <3>2, <1>0, <1>2
    <2> QED
      BY <2>1, <2>2
  <1>10. created' \in 2 .. MaxTensors /\ tensor' \in [Ids -> TensorType]
    BY <1>0 DEF GraphInv, Grows
  <1> QED
    BY <1>4, <1>5, <1>7, <1>8, <1>9, <1>10, <1>12 DEF GraphInv

LEMMA ResultType ==
  ASSUME NEW op \in Operations, NEW in \in Seq(Ids), NEW id \in Ids,
         NEW on \in BOOLEAN, NEW rg \in BOOLEAN
  PROVE  /\ Result(op, in, id, on, rg) \in TensorType
         /\ Result(op, in, id, on, rg).fn \in {0, id}
         /\ Result(op, in, id, on, rg).fn # 0 => Result(op, in, id, on, rg).in = in
         /\ Result(op, in, id, on, rg).op \in {op, "leaf"}
  <1>1. CASE on /\ rg
    BY <1>1 DEF Result, TensorType
  <1>2. CASE ~(on /\ rg)
    <2>1. Result(op, in, id, on, rg) = Leaf(FALSE)
      BY <1>2 DEF Result
    <2> QED
      BY <2>1, LeafType
  <1> QED
    BY <1>1, <1>2

LEMMA CreatedFacts ==
  ASSUME GraphInv
  PROVE  created \in Nat /\ created >= 2 /\ \A t \in 1 .. created : t \in Ids
  <1>1. created \in 2 .. MaxTensors
    BY DEF GraphInv
  <1> QED
    BY <1>1, IdsFacts

(* One new tensor.                                                         *)
LEMMA MakeGrows ==
  ASSUME GraphInv, NEW call, NEW r \in TensorType, Make(call, r),
         r.fn \in {0, created + 1} \/ \E a \in 1 .. created : r.fn = tensor[a].fn,
         r.op # "rev2",
         r.fn = created + 1 => Len(r.in) = 2 /\ \A k \in {1, 2} : r.in[k] <= created
  PROVE  GraphInv'
  <1> DEFINE n == created + 1
  <1>1. created' = n /\ n <= MaxTensors /\ tensor' = [tensor EXCEPT ![n] = r]
    BY DEF Make, Builds
  <1>2. n \in Ids /\ created + 1 .. created' = {n} /\ n \in Nat
    BY <1>1, CreatedFacts, IdsFacts
  <1>3. tensor \in [Ids -> TensorType]
    BY DEF GraphInv
  <1>4. tensor' \in [Ids -> TensorType] /\ tensor'[n] = r
    BY <1>1, <1>2, <1>3
  <1>5. \A t \in Ids : t # n => tensor'[t] = tensor[t]
    BY <1>1, <1>3
  <1>6. \A k : r.in[k] <= created => r.in[k] <= created
    OBVIOUS
  <1>7. r.fn = n => Len(r.in) = 2 /\ r.in[1] < n /\ r.in[2] < n
    <2> SUFFICES ASSUME r.fn = n PROVE Len(r.in) = 2 /\ r.in[1] < n /\ r.in[2] < n
      OBVIOUS
    <2>1. Len(r.in) = 2 /\ r.in[1] <= created /\ r.in[2] <= created
      OBVIOUS
    <2>2. r.in \in Seq(Ids)
      BY DEF TensorType
    <2>3. r.in[1] \in Ids /\ r.in[2] \in Ids
      BY <2>1, <2>2
    <2>4. r.in[1] \in Nat /\ r.in[2] \in Nat
      BY <2>3, IdsFacts
    <2> QED
      BY <2>1, <2>4, CreatedFacts
  <1>8. Grows
    <2>1. created' \in created + 1 .. MaxTensors
      BY <1>1, <1>2, CreatedFacts, IdsFacts
    <2>2. \A t \in Ids : t \notin created + 1 .. created' => tensor'[t] = tensor[t]
      BY <1>2, <1>5
    <2>3. \A t \in created + 1 .. created' :
            /\ tensor'[t].fn \in {0, t} \/ \E a \in 1 .. created : tensor'[t].fn = tensor[a].fn
            /\ tensor'[t].fn = t =>
                 Len(tensor'[t].in) = 2 /\ \A k \in {1, 2} : tensor'[t].in[k] < t
            /\ tensor'[t].op = "rev2" /\ tensor'[t].fn = t =>
                 t - 1 \in created + 1 .. created' /\ tensor'[t - 1].in = tensor'[t].in
      BY <1>2, <1>4, <1>7
    <2> QED
      BY <1>4, <2>1, <2>2, <2>3 DEF Grows
  <1> QED
    BY <1>8, GraphGrows

(* The record of an operation on two tensors there are.                    *)
LEMMA OperationGrows ==
  ASSUME GraphInv, NEW call, NEW op \in {"op", "add"}, NEW a \in 1 .. created, NEW on \in BOOLEAN,
         NEW b \in 1 .. created,
         NEW rg \in BOOLEAN, Make(call, Result(op, <<a, b>>, created + 1, on, rg))
  PROVE  GraphInv'
  <1> DEFINE r == Result(op, <<a, b>>, created + 1, on, rg)
  <1>1. created + 1 \in Ids /\ a \in Ids /\ b \in Ids /\ a <= created /\ b <= created
    <2>1. created + 1 <= MaxTensors
      BY DEF Make, Builds
    <2> QED
      BY <2>1, CreatedFacts, IdsFacts
  <1>2. op \in Operations /\ <<a, b>> \in Seq(Ids)
    BY <1>1 DEF Operations
  <1>3. /\ r \in TensorType /\ r.fn \in {0, created + 1} /\ r.op \in {op, "leaf"}
        /\ r.fn # 0 => r.in = <<a, b>>
    BY <1>1, <1>2, ResultType, ZenonT(60)
  <1>4. r.fn = created + 1 => Len(r.in) = 2 /\ \A k \in {1, 2} : r.in[k] <= created
    BY <1>1, <1>3, CreatedFacts
  <1>5. Make(call, r)
    OBVIOUS
  <1> HIDE DEF r
  <1> QED
    BY <1>3, <1>4, <1>5, MakeGrows

LEMMA ViewGrows ==
  ASSUME GraphInv, NEW a \in 1 .. created, View(a)
  PROVE  GraphInv'
  <1> DEFINE r == [op |-> "view", in |-> <<a>>, fn |-> tensor[a].fn, rg |-> tensor[a].rg]
  <1>1. a \in Ids /\ tensor[a] \in TensorType
    BY CreatedFacts DEF GraphInv
  <1>2. <<a>> \in Seq(Ids)
    BY <1>1
  <1>3. r \in TensorType
    BY <1>1, <1>2 DEF TensorType, Operations
  <1>4. r.fn = tensor[a].fn /\ r.op = "view"
    OBVIOUS
  <1>5. tensor[a].fn # created + 1
    <2>1. a <= MaxTensors
      BY <1>1, CreatedFacts, IdsFacts DEF GraphInv
    <2>2. tensor[a].fn <= created /\ tensor[a].fn \in Ids \cup {0}
      BY <1>1, <2>1 DEF GraphInv, TensorType
    <2> QED
      BY <2>2, CreatedFacts, IdsFacts, SMTT(30)
  <1>6. Make("view", r)
    BY DEF View
  <1> HIDE DEF r
  <1> QED
    BY <1>3, <1>4, <1>5, <1>6, MakeGrows

LEMMA BlockGrows ==
  ASSUME GraphInv, enabled \in BOOLEAN, NEW a \in 1 .. created, NEW b \in 1 .. created,
         Reversible(a, b)
  PROVE  GraphInv'
  <1> DEFINE y1 == created + 3
             r1 == Result("rev1", <<a, b>>, y1, enabled, TRUE)
             r2 == Result("rev2", <<a, b>>, y1 + 1, enabled, TRUE)
  <1>1. created' = created + 4 /\ created + 4 <= MaxTensors
    BY DEF Reversible, Builds
  <1>2. tensor' = [tensor EXCEPT ![y1 - 2] = Leaf(TRUE), ![y1 - 1] = Leaf(TRUE),
                                 ![y1] = r1, ![y1 + 1] = r2]
    BY DEF Reversible
  <1>3. /\ created + 1 .. created' = {y1 - 2, y1 - 1, y1, y1 + 1} /\ y1 \in Nat
        /\ {y1 - 2, y1 - 1, y1, y1 + 1} \subseteq Ids
        /\ a \in Ids /\ b \in Ids /\ a < y1 /\ b < y1
        /\ created' \in created + 1 .. MaxTensors
    BY <1>1, CreatedFacts, IdsFacts
  <1>4. tensor \in [Ids -> TensorType]
    BY DEF GraphInv
  <1>0. "rev1" \in Operations /\ "rev2" \in Operations /\ <<a, b>> \in Seq(Ids)
    BY <1>3 DEF Operations
  <1>5. /\ r1 \in TensorType /\ r1.fn \in {0, y1} /\ r1.op \in {"rev1", "leaf"}
        /\ r1.fn # 0 => r1.in = <<a, b>>
    <2>1. y1 \in Ids
      BY <1>3
    <2> HIDE DEF y1
    <2> QED
      BY <1>0, <2>1, ResultType
  <1>6. /\ r2 \in TensorType /\ r2.fn \in {0, y1 + 1} /\ r2.op \in {"rev2", "leaf"}
        /\ r2.fn # 0 => r2.in = <<a, b>>
    <2>1. y1 + 1 \in Ids
      BY <1>3
    <2> HIDE DEF y1
    <2> QED
      BY <1>0, <2>1, ResultType
  <1>7. r1.in = r2.in
    BY DEF Result, Leaf
  <1>8. Leaf(TRUE) \in TensorType /\ Leaf(TRUE).fn = 0
    BY LeafType
  <1>13. y1 - 2 # 0 /\ y1 - 1 # 0 /\ y1 # 0 /\ y1 + 1 # 0 /\ a \in Nat /\ b \in Nat
    BY <1>3, IdsFacts, CreatedFacts, SMTT(30)
  <1>14. Len(<<a, b>>) = 2 /\ <<a, b>>[1] = a /\ <<a, b>>[2] = b
    OBVIOUS
  <1> HIDE DEF y1, r1, r2
  <1>9. /\ tensor'[y1 - 2] = Leaf(TRUE) /\ tensor'[y1 - 1] = Leaf(TRUE)
        /\ tensor'[y1] = r1 /\ tensor'[y1 + 1] = r2
        /\ tensor' \in [Ids -> TensorType]
    <2>1. tensor'[y1 + 1] = r2 /\ tensor'[y1] = r1
      BY <1>2, <1>3, <1>4
    <2>0. /\ y1 - 1 # y1 - 2 /\ y1 - 1 # y1 /\ y1 - 1 # y1 + 1
          /\ y1 - 2 # y1 /\ y1 - 2 # y1 + 1 /\ y1 - 1 \in Ids /\ y1 - 2 \in Ids
      BY <1>3
    <2>4. DOMAIN tensor = Ids
      BY <1>4
    <2>5. tensor'[y1 - 1] = Leaf(TRUE)
      BY <1>2, <2>0, <2>4, Zenon
    <2>6. tensor'[y1 - 2] = Leaf(TRUE)
      BY <1>2, <2>0, <2>4, Zenon
    <2>2. tensor'[y1 - 1] = Leaf(TRUE) /\ tensor'[y1 - 2] = Leaf(TRUE)
      BY <2>5, <2>6
    <2>3. tensor' \in [Ids -> TensorType]
      BY <1>2, <1>4, <1>5, <1>6, <1>8
    <2> QED
      BY <2>1, <2>2, <2>3
  <1>10. \A t \in Ids : t \notin created + 1 .. created' => tensor'[t] = tensor[t]
    BY <1>2, <1>3, <1>4
  <1>11. \A t \in created + 1 .. created' :
           /\ tensor'[t].fn \in {0, t}
           /\ tensor'[t].fn = t =>
                Len(tensor'[t].in) = 2 /\ \A k \in {1, 2} : tensor'[t].in[k] < t
           /\ tensor'[t].op = "rev2" /\ tensor'[t].fn = t =>
                t - 1 \in created + 1 .. created' /\ tensor'[t - 1].in = tensor'[t].in
    <2> SUFFICES ASSUME NEW t \in {y1 - 2, y1 - 1, y1, y1 + 1}
                 PROVE  /\ tensor'[t].fn \in {0, t}
                        /\ tensor'[t].fn = t =>
                             Len(tensor'[t].in) = 2 /\ \A k \in {1, 2} : tensor'[t].in[k] < t
                        /\ tensor'[t].op = "rev2" /\ tensor'[t].fn = t =>
                             /\ t - 1 \in created + 1 .. created'
                             /\ tensor'[t - 1].in = tensor'[t].in
      BY <1>3
    <2>1. CASE t = y1 - 2 \/ t = y1 - 1
      <3>1. tensor'[t].fn = 0
        BY <2>1, <1>8, <1>9
      <3>2. t # 0
        BY <2>1, <1>13
      <3> QED
        BY <3>1, <3>2
    <2>2. CASE t = y1
      <3>1. tensor'[t] = r1
        BY <2>2, <1>9
      <3>2. r1.fn = t => Len(r1.in) = 2 /\ r1.in[1] < t /\ r1.in[2] < t
        BY <2>2, <1>3, <1>5, <1>13, <1>14
      <3> QED
        BY <2>2, <3>1, <3>2, <1>5
    <2>3. CASE t = y1 + 1
      <3>1. tensor'[t] = r2 /\ tensor'[t - 1] = r1
        BY <2>3, <1>3, <1>9
      <3>2. r2.fn = t => Len(r2.in) = 2 /\ r2.in[1] < t /\ r2.in[2] < t
        <4>1. r2.fn = t => r2.in = <<a, b>>
          BY <2>3, <1>6, <1>13
        <4>2. a < t /\ b < t
          BY <2>3, <1>3, <1>13
        <4> QED
          BY <4>1, <4>2, <1>14
      <3>3. t - 1 \in created + 1 .. created'
        BY <2>3, <1>3
      <3> QED
        BY <2>3, <3>1, <3>2, <3>3, <1>6, <1>7
    <2> QED
      BY <2>1, <2>2, <2>3
  <1>12. Grows
    BY <1>3, <1>9, <1>10, <1>11 DEF Grows
  <1> QED
    BY <1>12, GraphGrows

LEMMA BuildGraph ==
  ASSUME GraphInv, enabled \in BOOLEAN, Build
  PROVE  GraphInv'
  <1>1. created \in 1 .. created
    BY CreatedFacts
  <1>2. \A a, b \in 1 .. created : Wants(<<a, b>>) \in BOOLEAN
    BY DEF Wants
  <1>3. ASSUME NEW a \in 1 .. created, Op(a, created) PROVE GraphInv'
    BY <1>1, <1>2, <1>3, OperationGrows DEF Op
  <1>4. ASSUME NEW a \in 1 .. created, Add(a, created) PROVE GraphInv'
    BY <1>1, <1>2, <1>4, OperationGrows DEF Add
  <1>5. ASSUME NEW a \in 1 .. created, Reversible(a, created) PROVE GraphInv'
    BY <1>1, <1>5, BlockGrows
  <1>6. CASE View(created)
    BY <1>1, <1>6, ViewGrows
  <1> QED
    BY <1>3, <1>4, <1>5, <1>6 DEF Build

(* The block whose recompute is under way.                                 *)
BlockThere ==
  /\ block \in Ids /\ 2 < block /\ block <= MaxTensors
  /\ tensor[block].in \in Seq(Ids) /\ Len(tensor[block].in) = 2

(* A recompute makes a graph on tensors of its own.                        *)
LEMMA RecomputeGraph ==
  ASSUME GraphInv, BlockThere, Recompute
  PROVE  GraphInv' /\ \A t \in Ids : t <= MaxTensors => tensor'[t] = tensor[t]
  <1> DEFINE in == tensor[block].in
             r(op, inputs, id) == Result(op, inputs, id, TRUE, TRUE)
             good(t) == /\ tensor'[t] \in TensorType
                        /\ tensor'[t].fn \in {0, t}
                        /\ tensor'[t].fn = t =>
                             Len(tensor'[t].in) = 2 /\ \A k \in {1, 2} : tensor'[t].in[k] < t
                        /\ tensor'[t].op \notin {"rev1", "rev2"}
  <1>1. /\ tensor' = [tensor EXCEPT ![x1r] = Leaf(tensor[in[1]].rg),
                                    ![x2r] = Leaf(tensor[in[2]].rg),
                                    ![fx]  = r("op", <<x2r, ParamF(block)>>, fx),
                                    ![fy1] = r("add", <<x1r, fx>>, fy1),
                                    ![gy]  = r("op", <<fy1, ParamG(block)>>, gy),
                                    ![fy2] = r("add", <<x2r, gy>>, fy2)]
        /\ created' = created
    BY DEF Recompute
  <1>2. tensor \in [Ids -> TensorType]
    BY DEF GraphInv
  <1>3. in[1] \in Ids /\ in[2] \in Ids
    BY DEF BlockThere
  <1>4. tensor[in[1]].rg \in BOOLEAN /\ tensor[in[2]].rg \in BOOLEAN
    BY <1>2, <1>3 DEF TensorType
  <1>5. /\ x1r \in Ids /\ x2r \in Ids /\ fx \in Ids /\ fy1 \in Ids /\ gy \in Ids /\ fy2 \in Ids
        /\ x1r < x2r /\ x2r < fx /\ fx < fy1 /\ fy1 < gy /\ gy < fy2 /\ x1r < fy1 /\ x2r < fy2
        /\ x1r = MaxTensors + 1
        /\ ParamF(block) \in Ids /\ ParamG(block) \in Ids
        /\ ParamF(block) < fx /\ ParamG(block) < gy
    BY IdsFacts DEF BlockThere, ParamF, ParamG
  <1>6. \A t \in Ids : t > MaxTensors => t \in {x1r, x2r, fx, fy1, gy, fy2}
    BY IdsFacts
  <1>7. \A t \in Ids : t <= MaxTensors => t \notin {x1r, x2r, fx, fy1, gy, fy2}
    BY IdsFacts
  <1>8. x1r # x2r /\ x1r # fx /\ x1r # fy1 /\ x1r # gy /\ x1r # fy2 /\ x2r # fx /\ x2r # fy1
        /\ x2r # gy /\ x2r # fy2 /\ fx # fy1 /\ fx # gy /\ fx # fy2 /\ fy1 # gy /\ fy1 # fy2
        /\ gy # fy2
    BY IdsFacts
  <1> HIDE DEF in, r
  <1>9. /\ tensor'[x1r] = Leaf(tensor[in[1]].rg) /\ tensor'[x2r] = Leaf(tensor[in[2]].rg)
        /\ tensor'[fx] = r("op", <<x2r, ParamF(block)>>, fx)
        /\ tensor'[fy1] = r("add", <<x1r, fx>>, fy1)
        /\ tensor'[gy] = r("op", <<fy1, ParamG(block)>>, gy)
        /\ tensor'[fy2] = r("add", <<x2r, gy>>, fy2)
    <2>1. DOMAIN tensor = Ids
      BY <1>2
    <2> QED
      BY <1>1, <1>5, <1>8, <2>1, ZenonT(30)
  <1>10. \A t \in Ids : t <= MaxTensors => tensor'[t] = tensor[t]
    BY <1>1, <1>2, <1>7
  <1>11. ASSUME NEW op \in {"op", "add"}, NEW a \in Ids, NEW b \in Ids, NEW id \in Ids,
                a < id, b < id, tensor'[id] = r(op, <<a, b>>, id)
         PROVE  good(id)
    <2>1. op \in Operations /\ <<a, b>> \in Seq(Ids)
      BY DEF Operations
    <2>2. /\ r(op, <<a, b>>, id) \in TensorType
          /\ r(op, <<a, b>>, id).fn \in {0, id}
          /\ r(op, <<a, b>>, id).fn # 0 => r(op, <<a, b>>, id).in = <<a, b>>
          /\ r(op, <<a, b>>, id).op \in {op, "leaf"}
      BY <2>1, ResultType DEF r
    <2>3. id # 0 /\ Len(<<a, b>>) = 2 /\ <<a, b>>[1] = a /\ <<a, b>>[2] = b
      BY IdsFacts
    <2> QED
      BY <1>11, <2>2, <2>3
  <1>12. good(x1r) /\ good(x2r)
    <2>1. x1r # 0 /\ x2r # 0
      BY IdsFacts
    <2> QED
      BY <1>4, <1>9, <2>1, LeafType
  <1>13. good(fx) /\ good(gy)
    BY <1>5, <1>9, <1>11
  <1>14. good(fy1) /\ good(fy2)
    BY <1>5, <1>9, <1>11
  <1>15. \A t \in Ids : t > MaxTensors => good(t)
    BY <1>6, <1>12, <1>13, <1>14
  <1>16. \A t \in Ids : t \in Nat /\ (t <= MaxTensors \/ t > MaxTensors) /\ MaxTensors \in Nat
    BY IdsFacts
  <1>17. tensor' \in [Ids -> TensorType]
    <2>1. \A t \in Ids : tensor'[t] \in TensorType
      BY <1>2, <1>10, <1>15, <1>16
    <2>2. tensor' = [t \in Ids |-> tensor'[t]]
      BY <1>1, <1>2
    <2> QED
      BY <2>1, <2>2
  <1>18. \A t \in Ids : t <= MaxTensors => tensor'[t].fn <= t /\ tensor'[t].fn <= created'
    BY <1>1, <1>10 DEF GraphInv
  <1>19. \A t \in Ids : tensor'[t].fn # 0 => tensor'[tensor'[t].fn].fn = tensor'[t].fn
    <2> SUFFICES ASSUME NEW t \in Ids, tensor'[t].fn # 0
                 PROVE  tensor'[tensor'[t].fn].fn = tensor'[t].fn
      OBVIOUS
    <2>1. CASE t > MaxTensors
      BY <2>1, <1>15
    <2>2. CASE t <= MaxTensors
      <3>1. tensor'[t] = tensor[t]
        BY <2>2, <1>10
      <3>2. /\ tensor[t].fn <= t /\ tensor[t].fn \in Ids \cup {0}
            /\ tensor[tensor[t].fn].fn = tensor[t].fn
        BY <2>2, <3>1 DEF GraphInv, TensorType
      <3>3. tensor[t].fn \in Ids
        BY <3>1, <3>2
      <3>4. tensor[t].fn <= MaxTensors
        BY <2>2, <3>2, <3>3, <1>16
      <3> QED
        BY <3>1, <3>2, <3>3, <3>4, <1>10
    <2> QED
      BY <2>1, <2>2, <1>16
  <1>20. \A t \in Ids : tensor'[t].fn = t =>
           Len(tensor'[t].in) = 2 /\ \A k \in {1, 2} : tensor'[t].in[k] < t
    BY <1>10, <1>15, <1>16 DEF GraphInv
  <1>21. \A t \in Ids : tensor'[t].op = "rev1" /\ tensor'[t].fn = t => 2 < t /\ t <= created'
    BY <1>1, <1>10, <1>15, <1>16 DEF GraphInv
  <1>22. \A t \in Ids : tensor'[t].op = "rev2" /\ tensor'[t].fn = t =>
           3 < t /\ t <= created' /\ tensor'[t - 1].in = tensor'[t].in
    <2> SUFFICES ASSUME NEW t \in Ids, tensor'[t].op = "rev2", tensor'[t].fn = t
                 PROVE  3 < t /\ t <= created' /\ tensor'[t - 1].in = tensor'[t].in
      OBVIOUS
    <2>1. t <= MaxTensors /\ tensor'[t] = tensor[t]
      BY <1>10, <1>15, <1>16
    <2>2. 3 < t /\ t <= created /\ tensor[t - 1].in = tensor[t].in
      BY <2>1 DEF GraphInv
    <2>3. t - 1 \in Ids /\ t - 1 <= MaxTensors
      BY <2>1, <2>2, IdsFacts
    <2> QED
      BY <2>1, <2>2, <2>3, <1>1, <1>10
  <1>23. created' \in 2 .. MaxTensors
    BY <1>1 DEF GraphInv
  <1>24. \A t \in Ids : t > MaxTensors => tensor'[t].fn \in {0, t}
    BY <1>15
  <1> HIDE DEF good
  <1>25. GraphInv'
    BY <1>17, <1>18, <1>19, <1>20, <1>21, <1>22, <1>23, <1>24 DEF GraphInv
  <1> QED
    BY <1>10, <1>25

(* Autograd is either on or off.                                           *)
LEMMA EnabledBoolean ==
  ASSUME ContextInv, outside \in BOOLEAN
  PROVE  enabled \in BOOLEAN
  <1>1. CASE level = 0
    BY <1>1 DEF ContextInv
  <1>2. CASE phase[1] = "collect"
    BY <1>2 DEF ContextInv
  <1>3. CASE phase[1] \in {"visit", "commit"} /\ step \in {"idle", "forward"}
    BY <1>3 DEF ContextInv
  <1>4. CASE phase[1] \in {"visit", "commit"} /\ step \in {"y1", "y2", "dispatch"}
    <2>1. phase[2] \in Phases
      BY DEF ContextInv, Engines
    <2> QED
      BY <1>4, <2>1 DEF ContextInv, Phases
  <1>5. phase[1] \in Phases
    BY DEF ContextInv, Engines
  <1> QED
    BY <1>1, <1>2, <1>3, <1>4, <1>5 DEF ContextInv, Phases

LEMMA OutsideBoolean ==
  ASSUME outside \in BOOLEAN, [Next]_vars
  PROVE  outside' \in BOOLEAN
  <1>1. CASE SetEnabled
    BY <1>1 DEF SetEnabled
  <1>2. CASE Build
    BY <1>2 DEF Build, Op, Add, View, Reversible, Make
  <1>3. CASE ZeroGrad \/ Scale \/ Throw
    BY <1>3 DEF ZeroGrad, Scale, Throw
  <1>4. CASE \E t \in {u \in 1 .. created : HasNode(u)} : Backward(t)
    BY <1>4 DEF Backward
  <1>5. ASSUME NEW e \in Engines, Run(e) PROVE outside' \in BOOLEAN
    BY <1>5 DEF Run, CollectInput, CollectDone, CollectUnchanged, StartVisits, VisitNothing,
                VisitOp, EndVisits, Commit, Return, ghostVars
  <1>6. CASE VisitBlock \/ Recompute \/ Dispatch
    BY <1>6 DEF VisitBlock, Recompute, Dispatch, ghostVars
  <1>7. CASE \E part \in {1, 2} : Nested(part)
    BY <1>7 DEF Nested, ghostVars
  <1>8. CASE UNCHANGED vars
    BY <1>8 DEF vars, ghostVars
  <1> QED
    BY <1>1, <1>2, <1>3, <1>4, <1>5, <1>6, <1>7, <1>8 DEF Next

-----------------------------------------------------------------------------
(* The search, in a graph T, with stack s, visited tensors v, order o and  *)
(* next inputs n.                                                          *)

Wired(T, t) == T[t].fn # 0
Ins(T, t) == T[T[t].fn].in

Acyclic(T) ==
  \A t \in Ids : Wired(T, t) =>
    /\ Len(Ins(T, t)) = 2 /\ DOMAIN Ins(T, t) = {1, 2}
    /\ \A k \in {1, 2} : Ins(T, t)[k] \in Ids /\ Ins(T, t)[k] < t

Typed(s, o, v, n) ==
  /\ s \in Seq(Ids) /\ o \in Seq(Ids) /\ v \in SUBSET Ids /\ n \in [Ids -> Nat]
  /\ \A i \in 1 .. Len(s) : n[s[i]] >= 1

Within(T, s, o, v) ==
  /\ \A t \in v : Wired(T, t)
  /\ \A i \in 1 .. Len(s) : s[i] \in v
  /\ \A i \in 1 .. Len(o) : o[i] \in v
  /\ \A t \in v : (\E i \in 1 .. Len(s) : s[i] = t) \/ (\E i \in 1 .. Len(o) : o[i] = t)

Down(s) == \A i, j \in 1 .. Len(s) : i < j => s[j] < s[i]

Once(s, o) ==
  /\ \A i \in 1 .. Len(s), j \in 1 .. Len(o) : s[i] # o[j]
  /\ \A i, j \in 1 .. Len(o) : i # j => o[i] # o[j]

After(T, o) ==
  \A i \in 1 .. Len(o) : \A k \in {1, 2} :
    Wired(T, Ins(T, o[i])[k]) => \E j \in 1 .. i - 1 : o[j] = Ins(T, o[i])[k]

Seen(T, s, o, n) ==
  \A i \in 1 .. Len(s) : \A k \in {1, 2} :
    k < n[s[i]] /\ Wired(T, Ins(T, s[i])[k]) =>
      \/ \E j \in 1 .. Len(o) : o[j] = Ins(T, s[i])[k]
      \/ i < Len(s) /\ s[i + 1] = Ins(T, s[i])[k]

Searched(T, s, o, v, n) ==
  Within(T, s, o, v) /\ Down(s) /\ Once(s, o) /\ After(T, o) /\ Seen(T, s, o, n)

LEMMA SearchedNothing ==
  ASSUME NEW T, NEW n
  PROVE  Searched(T, <<>>, <<>>, {}, n)
  BY DEF Searched, Within, Down, Once, After, Seen

LEMMA SearchedRoot ==
  ASSUME NEW T, NEW t \in Ids, Wired(T, t), NEW n \in [Ids -> Nat], n[t] = 1
  PROVE  Searched(T, <<t>>, <<>>, {t}, n)
  <1>1. Len(<<t>>) = 1 /\ <<t>>[1] = t /\ Len(<<>>) = 0
    OBVIOUS
  <1>2. Within(T, <<t>>, <<>>, {t})
    BY <1>1 DEF Within
  <1>3. Down(<<t>>) /\ Once(<<t>>, <<>>) /\ After(T, <<>>)
    BY <1>1 DEF Down, Once, After
  <1>4. Seen(T, <<t>>, <<>>, n)
    BY <1>1 DEF Seen
  <1> QED
    BY <1>2, <1>3, <1>4 DEF Searched

(* The tensor looked at, and its next input.                               *)
LEMMA TopFacts ==
  ASSUME NEW T, Acyclic(T), NEW s, NEW o, NEW v, NEW n,
         Typed(s, o, v, n), Searched(T, s, o, v, n), s # <<>>
  PROVE  /\ Len(s) \in Nat /\ Len(s) >= 1
         /\ s[Len(s)] \in Ids /\ Wired(T, s[Len(s)]) /\ s[Len(s)] \in Nat
         /\ n[s[Len(s)]] \in Nat /\ n[s[Len(s)]] >= 1
         /\ n[s[Len(s)]] <= Len(Ins(T, s[Len(s)])) => n[s[Len(s)]] \in {1, 2}
         /\ Len(Ins(T, s[Len(s)])) = 2
         /\ \A i \in 1 .. Len(s) : i # Len(s) => s[i] > s[Len(s)]
  <1>1. Len(s) \in Nat /\ Len(s) >= 1
    BY DEF Typed
  <1>2. s[Len(s)] \in Ids
    BY <1>1 DEF Typed
  <1>3. Wired(T, s[Len(s)])
    BY <1>1 DEF Searched, Within
  <1>4. n[s[Len(s)]] \in Nat /\ n[s[Len(s)]] >= 1
    BY <1>1, <1>2 DEF Typed
  <1>5. Len(Ins(T, s[Len(s)])) = 2
    BY <1>2, <1>3 DEF Acyclic
  <1>6. \A i \in 1 .. Len(s) : i # Len(s) => s[i] > s[Len(s)]
    BY <1>1 DEF Searched, Down
  <1> QED
    BY <1>1, <1>2, <1>3, <1>4, <1>5, <1>6, IdsFacts

(* An input is entered.                                                    *)
LEMMA EnterKeeps ==
  ASSUME NEW T, Acyclic(T), NEW s, NEW o, NEW v, NEW n,
         Typed(s, o, v, n), Searched(T, s, o, v, n), s # <<>>,
         NEW p, n[s[Len(s)]] <= Len(Ins(T, s[Len(s)])),
         p = Ins(T, s[Len(s)])[n[s[Len(s)]]], Wired(T, p), p \notin v,
         NEW n2, n2 = [n EXCEPT ![s[Len(s)]] = @ + 1, ![p] = 1]
  PROVE  Typed(Append(s, p), o, v \cup {p}, n2) /\ Searched(T, Append(s, p), o, v \cup {p}, n2)
  <1> DEFINE m == Len(s)
             top == s[m]
             s2 == Append(s, p)
  <1>1. /\ m \in Nat /\ m >= 1 /\ top \in Ids /\ Wired(T, top) /\ top \in Nat
        /\ n[top] \in {1, 2} /\ \A i \in 1 .. m : i # m => s[i] > top
    BY TopFacts
  <1>2. p \in Ids /\ p < top /\ p \in Nat
    BY <1>1, IdsFacts DEF Acyclic
  <1>3. s \in Seq(Ids) /\ o \in Seq(Ids) /\ v \in SUBSET Ids /\ n \in [Ids -> Nat]
    BY DEF Typed
  <1>4. /\ s2 \in Seq(Ids) /\ Len(s2) = m + 1 /\ s2[m + 1] = p
        /\ \A i \in 1 .. m : s2[i] = s[i]
    BY <1>2, <1>3
  <1>5. \A i \in 1 .. m + 1 : i \in 1 .. m \/ i = m + 1
    BY <1>1
  <1>6. \A i \in 1 .. m : s[i] \in v /\ s[i] \in Ids /\ s[i] # p
    BY <1>3 DEF Searched, Within
  <1>7. /\ n2 \in [Ids -> Nat] /\ n2[p] = 1 /\ n2[top] = n[top] + 1
        /\ \A t \in Ids : t # p /\ t # top => n2[t] = n[t]
    BY <1>1, <1>2, <1>3, SMTT(30)
  <1> HIDE DEF s2, top, m
  <1>8. Typed(s2, o, v \cup {p}, n2)
    <2>0. \A i \in 1 .. m : n[s[i]] \in Nat
      BY <1>3, <1>6
    <2>4. \A i \in 1 .. m : n[s[i]] >= 1
      BY DEF Typed, m
    <2>1. \A i \in 1 .. m : n[s[i]] >= 1 /\ n[s[i]] \in Nat
      BY <2>0, <2>4
    <2>2. ASSUME NEW i \in 1 .. m PROVE n2[s2[i]] >= 1
      <3>1. s2[i] = s[i] /\ s[i] \in Ids /\ s[i] # p /\ n[s[i]] >= 1 /\ n[s[i]] \in Nat
        BY <1>4, <1>6, <2>1
      <3>2. CASE s[i] = top
        BY <3>1, <3>2, <1>1, <1>7
      <3>3. CASE s[i] # top
        BY <3>1, <3>3, <1>7
      <3> QED
        BY <3>2, <3>3
    <2>3. \A i \in 1 .. m + 1 : n2[s2[i]] >= 1
      BY <1>4, <1>5, <1>7, <2>2
    <2> QED
      BY <1>2, <1>3, <1>4, <1>7, <2>3 DEF Typed
  <1>9. Within(T, s2, o, v \cup {p})
    <2>1. \A t \in v \cup {p} : Wired(T, t)
      BY DEF Searched, Within
    <2>2. \A i \in 1 .. m + 1 : s2[i] \in v \cup {p}
      BY <1>4, <1>5, <1>6
    <2>3. \A i \in 1 .. Len(o) : o[i] \in v \cup {p}
      BY DEF Searched, Within
    <2>4. ASSUME NEW t \in v \cup {p}
          PROVE  (\E i \in 1 .. m + 1 : s2[i] = t) \/ (\E i \in 1 .. Len(o) : o[i] = t)
      <3>1. CASE t = p
        BY <3>1, <1>1, <1>4
      <3>2. CASE t \in v
        <4>1. (\E i \in 1 .. m : s[i] = t) \/ (\E i \in 1 .. Len(o) : o[i] = t)
          BY <3>2 DEF Searched, Within, m
        <4>2. \A i \in 1 .. m : i \in 1 .. m + 1
          BY <1>1
        <4> QED
          BY <4>1, <4>2, <1>4
      <3> QED
        BY <3>1, <3>2
    <2> QED
      BY <1>4, <2>1, <2>2, <2>3, <2>4 DEF Within
  <1>10. Down(s2)
    <2> SUFFICES ASSUME NEW i \in 1 .. m + 1, NEW j \in 1 .. m + 1, i < j
                 PROVE  s2[j] < s2[i]
      BY <1>4 DEF Down
    <2>1. i \in 1 .. m
      BY <1>1
    <2>2. CASE j = m + 1
      <3>1. s[i] >= top /\ s[i] \in Nat
        BY <2>1, <1>1, <1>6, IdsFacts DEF top
      <3> QED
        BY <2>1, <2>2, <3>1, <1>1, <1>2, <1>4
    <2>3. CASE j \in 1 .. m
      <3>1. s[j] < s[i]
        BY <2>1, <2>3 DEF Searched, Down, m
      <3> QED
        BY <2>1, <2>3, <3>1, <1>4
    <2> QED
      BY <2>2, <2>3, <1>5
  <1>11. Once(s2, o)
    <2>1. \A j \in 1 .. Len(o) : o[j] # p
      BY DEF Searched, Within
    <2>2. \A i \in 1 .. m, j \in 1 .. Len(o) : s[i] # o[j]
      BY DEF Searched, Once, m
    <2>3. \A i, j \in 1 .. Len(o) : i # j => o[i] # o[j]
      BY DEF Searched, Once
    <2>4. \A i \in 1 .. m + 1, j \in 1 .. Len(o) : s2[i] # o[j]
      BY <1>4, <1>5, <2>1, <2>2
    <2> QED
      BY <1>4, <2>3, <2>4 DEF Once
  <1>12. Seen(T, s2, o, n2)
    <2> SUFFICES ASSUME NEW i \in 1 .. m + 1, NEW k \in {1, 2},
                        k < n2[s2[i]], Wired(T, Ins(T, s2[i])[k])
                 PROVE  \/ \E j \in 1 .. Len(o) : o[j] = Ins(T, s2[i])[k]
                        \/ i < m + 1 /\ s2[i + 1] = Ins(T, s2[i])[k]
      BY <1>4 DEF Seen
    <2>1. i # m + 1
      BY <1>4, <1>7
    <2>2. i \in 1 .. m /\ s2[i] = s[i]
      BY <2>1, <1>4, <1>5
    <2>3. ASSUME k < n[s[i]]
          PROVE  \/ \E j \in 1 .. Len(o) : o[j] = Ins(T, s[i])[k]
                 \/ i < m /\ s[i + 1] = Ins(T, s[i])[k]
      BY <2>2, <2>3 DEF Searched, Seen, m
    <2>4. CASE i = m
      <3>1. n2[s2[i]] = n[top] + 1 /\ s[i] = top
        BY <2>2, <2>4, <1>7 DEF top
      <3>2. CASE k = n[top]
        BY <2>4, <3>1, <3>2, <2>2, <1>1, <1>4 DEF top, m
      <3>3. CASE k < n[top]
        BY <2>2, <2>3, <2>4, <3>1, <3>3, <1>1
      <3> QED
        BY <3>1, <3>2, <3>3, <1>1
    <2>5. CASE i # m
      <3>1. s[i] # top /\ s[i] # p /\ s[i] \in Ids
        BY <2>2, <2>5, <1>1, <1>6
      <3>2. n2[s2[i]] = n[s[i]]
        BY <2>2, <3>1, <1>7
      <3>3. i + 1 \in 1 .. m
        BY <2>2, <2>5, <1>1
      <3> QED
        BY <2>2, <2>3, <3>2, <3>3, <1>1, <1>4
    <2> QED
      BY <2>4, <2>5
  <1> QED
    BY <1>8, <1>9, <1>10, <1>11, <1>12 DEF Searched, s2

(* An input was there before, or has no node.                              *)
LEMMA PassKeeps ==
  ASSUME NEW T, Acyclic(T), NEW s, NEW o, NEW v, NEW n,
         Typed(s, o, v, n), Searched(T, s, o, v, n), s # <<>>,
         NEW p, n[s[Len(s)]] <= Len(Ins(T, s[Len(s)])),
         p = Ins(T, s[Len(s)])[n[s[Len(s)]]], ~(Wired(T, p) /\ p \notin v),
         NEW n2, n2 = [n EXCEPT ![s[Len(s)]] = @ + 1]
  PROVE  Typed(s, o, v, n2) /\ Searched(T, s, o, v, n2)
  <1> DEFINE m == Len(s)
             top == s[m]
  <1>1. /\ m \in Nat /\ m >= 1 /\ top \in Ids /\ Wired(T, top) /\ top \in Nat
        /\ n[top] \in {1, 2} /\ \A i \in 1 .. m : i # m => s[i] > top
    BY TopFacts
  <1>2. p \in Ids /\ p < top /\ p \in Nat
    BY <1>1, IdsFacts DEF Acyclic
  <1>3. s \in Seq(Ids) /\ o \in Seq(Ids) /\ v \in SUBSET Ids /\ n \in [Ids -> Nat]
    BY DEF Typed
  <1>4. \A i \in 1 .. m : s[i] \in Ids /\ n[s[i]] \in Nat /\ s[i] \in Nat
    BY <1>3, IdsFacts
  <1>5. /\ n2 \in [Ids -> Nat] /\ n2[top] = n[top] + 1
        /\ \A t \in Ids : t # top => n2[t] = n[t]
    BY <1>1, <1>3
  <1> HIDE DEF top, m
  <1>6. Typed(s, o, v, n2)
    <2>1. \A i \in 1 .. m : n[s[i]] >= 1
      BY DEF Typed, m
    <2>2. \A i \in 1 .. m : n2[s[i]] >= 1
      BY <2>1, <1>1, <1>4, <1>5
    <2> QED
      BY <2>2, <1>3, <1>5 DEF Typed, m
  <1>7. ASSUME Wired(T, p) PROVE \E j \in 1 .. Len(o) : o[j] = p
    <2>1. (\E i \in 1 .. m : s[i] = p) \/ (\E i \in 1 .. Len(o) : o[i] = p)
      BY <1>7 DEF Searched, Within, m
    <2>2. \A i \in 1 .. m : s[i] # p
      BY <1>1, <1>2, <1>4 DEF top
    <2> QED
      BY <2>1, <2>2
  <1>8. Seen(T, s, o, n2)
    <2> SUFFICES ASSUME NEW i \in 1 .. m, NEW k \in {1, 2},
                        k < n2[s[i]], Wired(T, Ins(T, s[i])[k])
                 PROVE  \/ \E j \in 1 .. Len(o) : o[j] = Ins(T, s[i])[k]
                        \/ i < m /\ s[i + 1] = Ins(T, s[i])[k]
      BY DEF Seen, m
    <2>1. ASSUME k < n[s[i]]
          PROVE  \/ \E j \in 1 .. Len(o) : o[j] = Ins(T, s[i])[k]
                 \/ i < m /\ s[i + 1] = Ins(T, s[i])[k]
      BY <2>1 DEF Searched, Seen, m
    <2>2. CASE i = m
      <3>1. n2[s[i]] = n[top] + 1 /\ s[i] = top
        BY <2>2, <1>5 DEF top
      <3>2. CASE k = n[top]
        BY <3>1, <3>2, <1>7 DEF top, m
      <3>3. CASE k < n[top]
        BY <2>1, <3>1, <3>3
      <3> QED
        BY <3>1, <3>2, <3>3, <1>1
    <2>3. CASE i # m
      <3>1. s[i] # top /\ s[i] \in Ids
        BY <2>3, <1>1, <1>4
      <3> QED
        BY <2>1, <3>1, <1>5
    <2> QED
      BY <2>2, <2>3
  <1> QED
    BY <1>6, <1>8 DEF Searched

(* A tensor is left.                                                       *)
LEMMA LeaveKeeps ==
  ASSUME NEW T, Acyclic(T), NEW s, NEW o, NEW v, NEW n,
         Typed(s, o, v, n), Searched(T, s, o, v, n), s # <<>>,
         n[s[Len(s)]] > Len(Ins(T, s[Len(s)])),
         NEW s2, s2 = SubSeq(s, 1, Len(s) - 1),
         NEW n2, n2 = [n EXCEPT ![s[Len(s)]] = 0]
  PROVE  Typed(s2, Append(o, s[Len(s)]), v, n2) /\ Searched(T, s2, Append(o, s[Len(s)]), v, n2)
  <1> DEFINE m == Len(s)
             top == s[m]
             l == Len(o)
             o2 == Append(o, top)
  <1>1. /\ m \in Nat /\ m >= 1 /\ top \in Ids /\ Wired(T, top) /\ top \in Nat
        /\ n[top] \in Nat /\ Len(Ins(T, top)) = 2 /\ \A i \in 1 .. m : i # m => s[i] > top
    BY TopFacts
  <1>2. s \in Seq(Ids) /\ o \in Seq(Ids) /\ v \in SUBSET Ids /\ n \in [Ids -> Nat]
    BY DEF Typed
  <1>3. s2 \in Seq(Ids) /\ Len(s2) = m - 1 /\ \A i \in 1 .. m - 1 : s2[i] = s[i]
    <2>1. 1 \in Int /\ m \in Nat /\ m - 1 \in Int /\ m - 1 >= 0
      BY <1>1
    <2>2. \A i \in 1 .. m - 1 : s[i] \in Ids
      BY <1>1, <1>2
    <2> HIDE DEF m
    <2>3. /\ SubSeq(s, 1, m - 1) \in Seq(Ids)
          /\ Len(SubSeq(s, 1, m - 1)) = IF 1 <= m - 1 THEN m - 1 - 1 + 1 ELSE 0
          /\ \A i \in 1 .. m - 1 - 1 + 1 : SubSeq(s, 1, m - 1)[i] = s[1 + i - 1]
      BY <2>1, <2>2, SubSeqProperties
    <2>4. s2 = SubSeq(s, 1, m - 1)
      BY DEF m
    <2>5. m - 1 - 1 + 1 = m - 1 /\ (1 <= m - 1 \/ m - 1 = 0)
      BY <2>1
    <2>6. \A i \in 1 .. m - 1 : 1 + i - 1 = i
      BY <2>1
    <2> QED
      BY <2>3, <2>4, <2>5, <2>6
  <1>4. \A i \in 1 .. m - 1 : i \in 1 .. m /\ i # m /\ s[i] \in Ids /\ s[i] \in Nat /\ s[i] # top
    <2> SUFFICES ASSUME NEW i \in 1 .. m - 1
                 PROVE  i \in 1 .. m /\ i # m /\ s[i] \in Ids /\ s[i] \in Nat /\ s[i] # top
      OBVIOUS
    <2>1. i \in 1 .. m /\ i # m
      BY <1>1
    <2>2. s[i] \in Ids
      BY <2>1, <1>2
    <2>3. s[i] \in Nat
      BY <2>2, IdsFacts
    <2> QED
      BY <2>1, <2>2, <2>3, <1>1
  <1>5. /\ l \in Nat /\ o2 \in Seq(Ids) /\ Len(o2) = l + 1 /\ o2[l + 1] = top
        /\ \A i \in 1 .. l : o2[i] = o[i]
    BY <1>1, <1>2
  <1>6. \A i \in 1 .. l + 1 : i \in 1 .. l \/ i = l + 1
    BY <1>5
  <1>7. /\ n2 \in [Ids -> Nat]
        /\ \A t \in Ids : t # top => n2[t] = n[t]
    BY <1>1, <1>2
  <1>8. n[top] > 2
    BY <1>1
  <1> HIDE DEF top, m, l, o2
  <1>9. Typed(s2, o2, v, n2)
    <2>1. \A i \in 1 .. m - 1 : n[s[i]] >= 1
      BY <1>4 DEF Typed, m
    <2>2. \A i \in 1 .. m - 1 : n2[s2[i]] >= 1
      BY <2>1, <1>3, <1>4, <1>7
    <2> QED
      BY <2>2, <1>2, <1>3, <1>5, <1>7 DEF Typed
  <1>10. Within(T, s2, o2, v)
    <2>1. \A t \in v : Wired(T, t)
      BY DEF Searched, Within
    <2>2. \A i \in 1 .. m : s[i] \in v
      BY DEF Searched, Within, m
    <2>3. \A i \in 1 .. m - 1 : s2[i] \in v
      BY <2>2, <1>3, <1>4
    <2>4. m \in 1 .. m
      BY <1>1
    <2>5. top \in v
      BY <2>2, <2>4 DEF top
    <2>6. \A i \in 1 .. l : o[i] \in v
      BY DEF Searched, Within, l
    <2>7. \A i \in 1 .. l + 1 : o2[i] \in v
      BY <2>5, <2>6, <1>5, <1>6
    <2>8. ASSUME NEW t \in v
          PROVE  (\E i \in 1 .. m - 1 : s2[i] = t) \/ (\E i \in 1 .. l + 1 : o2[i] = t)
      <3>1. CASE t = top
        <4>1. l + 1 \in 1 .. l + 1
          BY <1>5
        <4> QED
          BY <3>1, <4>1, <1>5
      <3>2. CASE \E i \in 1 .. m : s[i] = t /\ i # m
        <4>1. PICK i \in 1 .. m : s[i] = t /\ i # m
          BY <3>2
        <4>2. i \in 1 .. m - 1
          BY <4>1, <1>1
        <4> QED
          BY <4>1, <4>2, <1>3
      <3>3. CASE \E i \in 1 .. l : o[i] = t
        <4>1. \A i \in 1 .. l : i \in 1 .. l + 1
          BY <1>5
        <4> QED
          BY <3>3, <4>1, <1>5
      <3>4. (\E i \in 1 .. m : s[i] = t) \/ (\E i \in 1 .. l : o[i] = t)
        BY DEF Searched, Within, m, l
      <3> QED
        BY <3>1, <3>2, <3>3, <3>4 DEF top
    <2> QED
      BY <1>3, <1>5, <2>1, <2>3, <2>7, <2>8 DEF Within
  <1>11. Down(s2)
    <2>1. \A i, j \in 1 .. m : i < j => s[j] < s[i]
      BY DEF Searched, Down, m
    <2> QED
      BY <2>1, <1>3, <1>4 DEF Down
  <1>12. Once(s2, o2)
    <2>1. \A i \in 1 .. m, j \in 1 .. l : s[i] # o[j]
      BY DEF Searched, Once, m, l
    <2>2. \A i, j \in 1 .. l : i # j => o[i] # o[j]
      BY DEF Searched, Once, l
    <2>3. \A j \in 1 .. l : o[j] # top
      BY <2>1, <1>1 DEF top
    <2>4. \A i \in 1 .. m - 1, j \in 1 .. l + 1 : s2[i] # o2[j]
      BY <2>1, <1>3, <1>4, <1>5, <1>6, SMTT(30)
    <2>5. \A i, j \in 1 .. l + 1 : i # j => o2[i] # o2[j]
      BY <2>2, <2>3, <1>5, <1>6
    <2> QED
      BY <2>4, <2>5, <1>3, <1>5 DEF Once
  <1>13. After(T, o2)
    <2> SUFFICES ASSUME NEW i \in 1 .. l + 1, NEW k \in {1, 2}, Wired(T, Ins(T, o2[i])[k])
                 PROVE  \E j \in 1 .. i - 1 : o2[j] = Ins(T, o2[i])[k]
      BY <1>5 DEF After
    <2>1. CASE i = l + 1
      <3>0. m \in 1 .. m /\ k < n[s[m]] /\ o2[i] = s[m]
        BY <2>1, <1>1, <1>5, <1>8 DEF top
      <3>1. m \in 1 .. m /\ k < n[s[m]] /\ o2[i] = s[m] /\ Wired(T, Ins(T, s[m])[k])
        BY <3>0
      <3>4. Seen(T, s, o, n)
        BY DEF Searched
      <3>5. \/ \E j \in 1 .. l : o[j] = Ins(T, s[m])[k]
            \/ m < m /\ s[m + 1] = Ins(T, s[m])[k]
        BY <3>1, <3>4 DEF Seen, m, l
      <3>2. \E j \in 1 .. l : o[j] = Ins(T, s[m])[k]
        BY <3>5, <1>1
      <3>3. i - 1 = l
        BY <2>1, <1>5
      <3> QED
        BY <3>1, <3>2, <3>3, <1>5
    <2>2. CASE i \in 1 .. l
      <3>1. \E j \in 1 .. i - 1 : o[j] = Ins(T, o[i])[k]
        BY <2>2, <1>5 DEF Searched, After, l
      <3>2. \A j \in 1 .. i - 1 : j \in 1 .. l
        BY <2>2, <1>5
      <3> QED
        BY <2>2, <3>1, <3>2, <1>5
    <2> QED
      BY <2>1, <2>2, <1>6
  <1>14. Seen(T, s2, o2, n2)
    <2> SUFFICES ASSUME NEW i \in 1 .. Len(s2), NEW k \in {1, 2},
                        k < n2[s2[i]], Wired(T, Ins(T, s2[i])[k])
                 PROVE  \/ \E j \in 1 .. Len(o2) : o2[j] = Ins(T, s2[i])[k]
                        \/ i < Len(s2) /\ s2[i + 1] = Ins(T, s2[i])[k]
      BY DEF Seen
    <2>0. Len(s2) = m - 1 /\ Len(o2) = l + 1 /\ i \in 1 .. m - 1
      BY <1>3, <1>5
    <2>1. s2[i] = s[i] /\ k < n[s[i]] /\ i \in 1 .. m /\ i # m
      BY <2>0, <1>3, <1>4, <1>7
    <2>2. \/ \E j \in 1 .. l : o[j] = Ins(T, s[i])[k]
          \/ i < m /\ s[i + 1] = Ins(T, s[i])[k]
      BY <2>1 DEF Searched, Seen, m, l
    <2>3. \A j \in 1 .. l : j \in 1 .. l + 1
      BY <1>5
    <2>4. CASE i + 1 = m
      <3>1. s[i + 1] = o2[l + 1] /\ l + 1 \in 1 .. l + 1
        BY <2>4, <1>5 DEF top
      <3> QED
        BY <2>0, <2>1, <2>2, <2>3, <3>1, <1>5
    <2>5. CASE i + 1 # m
      <3>1. i + 1 \in 1 .. m - 1 /\ i < m - 1
        BY <2>0, <2>5, <2>1, <1>1
      <3>2. s2[i + 1] = s[i + 1]
        BY <3>1, <1>3
      <3> QED
        BY <2>0, <2>1, <2>2, <2>3, <3>1, <3>2, <1>5
    <2> QED
      BY <2>4, <2>5
  <1> QED
    BY <1>9, <1>10, <1>11, <1>12, <1>13, <1>14 DEF Searched, o2, top, m

-----------------------------------------------------------------------------
(* Every step keeps the search in order.                                   *)

SearchType ==
  /\ stack \in [Engines -> Seq(Ids)]
  /\ topo \in [Engines -> Seq(Ids)]
  /\ visited \in [Engines -> SUBSET Ids]
  /\ next \in [Engines -> [Ids -> Nat]]
  /\ pos \in [Engines -> Nat]

EngineInv(e) ==
  /\ Typed(stack[e], topo[e], visited[e], next[e])
  /\ Searched(tensor, stack[e], topo[e], visited[e], next[e])
  /\ phase[e] = "idle" => stack[e] = <<>> /\ topo[e] = <<>> /\ visited[e] = {}
  /\ phase[e] # "collect" => stack[e] = <<>>
  /\ pos[e] <= Len(topo[e])

(* The outer engine knows nothing of a recompute's tensors.                *)
OuterInv == \A t \in visited[1] : t <= MaxTensors

OrderInv == GraphInv /\ SearchType /\ (\A e \in Engines : EngineInv(e)) /\ OuterInv

(* A block that is recomputed is the one visited last.                     *)
BlockInv ==
  step # "idle" =>
    BlockThere /\ pos[1] < Len(topo[1]) /\ Ins(tensor, topo[1][pos[1] + 1]) = tensor[block].in

LEMMA GraphAcyclic ==
  ASSUME GraphInv
  PROVE  Acyclic(tensor)
  <1> SUFFICES ASSUME NEW t \in Ids, Wired(tensor, t)
               PROVE  /\ Len(Ins(tensor, t)) = 2 /\ DOMAIN Ins(tensor, t) = {1, 2}
                      /\ \A k \in {1, 2} : Ins(tensor, t)[k] \in Ids /\ Ins(tensor, t)[k] < t
    BY DEF Acyclic
  <1> DEFINE f == tensor[t].fn
  <1>1. f # 0 /\ f \in Ids /\ f <= t
    <2>1. f # 0 /\ f \in Ids
      BY DEF GraphInv, TensorType, Wired
    <2>2. tensor[t].fn <= t
      <3>1. CASE t <= MaxTensors
        BY <3>1 DEF GraphInv
      <3>2. CASE t > MaxTensors
        <4>1. tensor[t].fn \in {0, t}
          BY <3>2 DEF GraphInv
        <4>2. tensor[t].fn = t
          BY <4>1, <2>1
        <4> QED
          BY <4>2, IdsFacts
      <3> QED
        BY <3>1, <3>2, IdsFacts, SMTT(30)
    <2> QED
      BY <2>1, <2>2
  <1>2. tensor[f].fn = f
    BY <1>1 DEF GraphInv
  <1>3. /\ Ins(tensor, t) = tensor[f].in /\ tensor[f].in \in Seq(Ids)
        /\ Len(tensor[f].in) = 2 /\ tensor[f].in[1] < f /\ tensor[f].in[2] < f
    BY <1>1, <1>2 DEF GraphInv, TensorType, Ins
  <1> HIDE DEF f
  <1>4. \A k \in {1, 2} : Ins(tensor, t)[k] \in Ids /\ Ins(tensor, t)[k] < f
    BY <1>3
  <1>5. \A k \in {1, 2} : Ins(tensor, t)[k] < t
    <2> SUFFICES ASSUME NEW k \in {1, 2} PROVE Ins(tensor, t)[k] < t
      OBVIOUS
    <2>1. Ins(tensor, t)[k] \in Nat /\ f \in Nat /\ t \in Nat
      BY <1>1, <1>4, IdsFacts
    <2> QED
      BY <2>1, <1>1, <1>4
  <1> QED
    BY <1>3, <1>4, <1>5

LEMMA OrderInit == Init => OrderInv /\ BlockInv
  <1> SUFFICES ASSUME Init PROVE OrderInv /\ BlockInv
    OBVIOUS
  <1>1. GraphInv
    BY GraphInit
  <1>2. SearchType
    BY DEF Init, SearchType, None
  <1>3. ASSUME NEW e \in Engines PROVE EngineInv(e)
    <2>1. /\ stack[e] = <<>> /\ topo[e] = <<>> /\ visited[e] = {} /\ pos[e] = 0
          /\ next[e] = None
      BY DEF Init
    <2>2. None \in [Ids -> Nat]
      BY DEF None
    <2>3. Typed(<<>>, <<>>, {}, None)
      BY <2>2 DEF Typed
    <2> QED
      BY <2>1, <2>3, SearchedNothing DEF EngineInv
  <1>4. OuterInv /\ BlockInv
    BY DEF Init, OuterInv, BlockInv, Engines
  <1> QED
    BY <1>1, <1>2, <1>3, <1>4 DEF OrderInv

(* A step that leaves graph and search as they are.                        *)
LEMMA OrderUntouched ==
  ASSUME OrderInv, UNCHANGED <<created, tensor, stack, topo, visited, next>>,
         pos' \in [Engines -> Nat],
         \A e \in Engines :
           /\ pos'[e] <= Len(topo[e])
           /\ phase'[e] = "idle" => phase[e] = "idle"
           /\ phase'[e] # "collect" => stack[e] = <<>>
  PROVE  OrderInv'
  <1>1. GraphInv'
    BY DEF OrderInv, GraphInv
  <1>2. SearchType'
    BY DEF OrderInv, SearchType
  <1>3. ASSUME NEW e \in Engines PROVE EngineInv(e)'
    BY <1>3 DEF OrderInv, EngineInv
  <1>4. OuterInv'
    BY DEF OrderInv, OuterInv
  <1> QED
    BY <1>1, <1>2, <1>3, <1>4 DEF OrderInv

LEMMA OrderCallers ==
  ASSUME OrderInv, SetEnabled \/ ZeroGrad \/ Scale
  PROVE  OrderInv'
  <1>1. UNCHANGED <<created, tensor, stack, topo, visited, next, pos, phase>>
    BY DEF SetEnabled, ZeroGrad, Scale, graphVars, engineVars, collectVars, runVars
  <1>2. pos \in [Engines -> Nat]
    BY DEF OrderInv, SearchType
  <1>3. \A e \in Engines :
          pos[e] <= Len(topo[e]) /\ (phase[e] # "collect" => stack[e] = <<>>)
    BY DEF OrderInv, EngineInv
  <1> QED
    BY <1>1, <1>2, <1>3, OrderUntouched

LEMMA OrderVisit ==
  ASSUME OrderInv, ContextInv, NEW e \in Engines,
         StartVisits(e) \/ VisitNothing(e) \/ VisitOp(e) \/ VisitBlock \/ EndVisits(e) \/ Commit(e)
  PROVE  OrderInv'
  <1>0. /\ pos \in [Engines -> Nat] /\ phase \in [Engines -> Phases]
        /\ topo \in [Engines -> Seq(Ids)]
    BY DEF OrderInv, SearchType, ContextInv
  <1>1. \A f \in Engines :
          pos[f] <= Len(topo[f]) /\ (phase[f] # "collect" => stack[f] = <<>>)
    BY DEF OrderInv, EngineInv
  <1>2. CASE StartVisits(e)
    <2>1. /\ UNCHANGED <<created, tensor, stack, topo, visited, next>>
          /\ pos' = [pos EXCEPT ![e] = Len(topo[e])]
          /\ phase' = [phase EXCEPT ![e] = "visit"]
          /\ stack[e] = <<>>
      BY <1>2 DEF StartVisits, graphVars, collectVars
    <2>2. Len(topo[e]) \in Nat
      BY <1>0
    <2> QED
      BY <2>1, <2>2, <1>0, <1>1, OrderUntouched
  <1>3. ASSUME NEW f \in Engines, Visiting(f),
               UNCHANGED <<created, tensor>>
        PROVE  OrderInv'
    <2>1. /\ UNCHANGED <<stack, topo, visited, next, phase>>
          /\ pos' = [pos EXCEPT ![f] = @ - 1] /\ pos[f] > 0
      BY <1>3 DEF Visiting, collectVars
    <2>2. pos' \in [Engines -> Nat] /\ \A g \in Engines : pos'[g] <= pos[g]
      BY <2>1, <1>0
    <2>3. \A g \in Engines : pos'[g] <= Len(topo[g])
      <3> SUFFICES ASSUME NEW g \in Engines PROVE pos'[g] <= Len(topo[g])
        OBVIOUS
      <3>1. Len(topo[g]) \in Nat /\ pos[g] \in Nat /\ pos'[g] \in Nat
        BY <2>2, <1>0
      <3> QED
        BY <3>1, <2>2, <1>1
    <2> QED
      BY <2>1, <2>2, <2>3, <1>1, <1>3, OrderUntouched
  <1>4. CASE VisitNothing(e) \/ VisitOp(e)
    BY <1>3, <1>4 DEF VisitNothing, VisitOp, graphVars
  <1>5. CASE VisitBlock
    BY <1>3, <1>5 DEF VisitBlock, graphVars, Engines
  <1>6. CASE EndVisits(e)
    <2>1. /\ UNCHANGED <<created, tensor, stack, topo, visited, next, pos>>
          /\ phase' = [phase EXCEPT ![e] = "commit"] /\ phase[e] = "visit"
      BY <1>6 DEF EndVisits, Runs, graphVars, collectVars
    <2> QED
      BY <2>1, <1>0, <1>1, OrderUntouched
  <1>7. CASE Commit(e)
    <2>1. UNCHANGED <<created, tensor, stack, topo, visited, next, pos, phase>>
      BY <1>7 DEF Commit, graphVars, engineVars, collectVars
    <2> QED
      BY <2>1, <1>0, <1>1, OrderUntouched
  <1> QED
    BY <1>2, <1>4, <1>5, <1>6, <1>7


LEMMA OrderCollect ==
  ASSUME OrderInv, NEW e \in Engines, CollectInput(e) \/ CollectDone(e)
  PROVE  OrderInv'
  <1> DEFINE s == stack[e]
             top == s[Len(s)]
             p == Ins(tensor, top)[next[e][top]]
  <1>1. /\ UNCHANGED <<created, tensor, phase, pos>> /\ phase[e] = "collect" /\ s # <<>>
        /\ top = Top(e) /\ Inputs(top) = Ins(tensor, top)
        /\ HasNode(p) <=> Wired(tensor, p)
    BY DEF CollectInput, CollectDone, CollectUnchanged, Collecting, Runs, Top, graphVars,
           Inputs, Node, Ins, HasNode, Wired
  <1>2. GraphInv /\ Acyclic(tensor) /\ GraphInv' /\ SearchType
    BY <1>1, GraphAcyclic DEF OrderInv, GraphInv
  <1>3. /\ Typed(s, topo[e], visited[e], next[e])
        /\ Searched(tensor, s, topo[e], visited[e], next[e])
    BY DEF OrderInv, EngineInv
  <1>4. Len(s) \in Nat /\ top \in Ids /\ Wired(tensor, top) /\ Len(s) >= 1
        /\ (next[e][top] <= Len(Ins(tensor, top)) => next[e][top] \in {1, 2})
        /\ next[e][top] \in Nat
    BY <1>1, <1>2, <1>3, TopFacts
  <1>5. pos \in [Engines -> Nat] /\ pos[e] <= Len(topo[e]) /\ Len(topo[e]) \in Nat
        /\ pos[e] \in Nat /\ topo[e] \in Seq(Ids)
    BY <1>2 DEF SearchType, OrderInv, EngineInv
  <1>6. CASE CollectInput(e) /\ HasNode(p) /\ p \notin visited[e]
    <2>1. /\ stack' = [stack EXCEPT ![e] = Append(@, p)]
          /\ visited' = [visited EXCEPT ![e] = @ \cup {p}]
          /\ next' = [next EXCEPT ![e] = [next[e] EXCEPT ![top] = @ + 1, ![p] = 1]]
          /\ topo' = topo /\ next[e][top] <= Len(Ins(tensor, top))
      BY <1>1, <1>6 DEF CollectInput
    <2> DEFINE n2 == [next[e] EXCEPT ![top] = @ + 1, ![p] = 1]
    <2>0. next' = [next EXCEPT ![e] = n2]
      <3> HIDE DEF top, p
      <3> QED
        BY <2>1
    <2>2. /\ stack'[e] = Append(s, p) /\ visited'[e] = visited[e] \cup {p} /\ next'[e] = n2
          /\ topo'[e] = topo[e]
          /\ \A f \in Engines : f # e =>
               /\ stack'[f] = stack[f] /\ visited'[f] = visited[f] /\ next'[f] = next[f]
               /\ topo'[f] = topo[f]
      BY <2>1, <2>0, <1>2 DEF SearchType
    <2>3. /\ Typed(Append(s, p), topo[e], visited[e] \cup {p}, n2)
          /\ Searched(tensor, Append(s, p), topo[e], visited[e] \cup {p}, n2)
      BY <1>1, <1>2, <1>3, <1>6, <2>1, EnterKeeps
    <2>4. p \in Ids /\ p < top
      BY <1>2, <1>4, <2>1 DEF Acyclic
    <2>5. OuterInv'
      <3>1. CASE e = 1
        <4>1. top \in visited[1]
          BY <1>3, <1>4, <3>1 DEF Searched, Within
        <4>2. top <= MaxTensors
          BY <4>1 DEF OrderInv, OuterInv
        <4>3. p <= MaxTensors
          BY <4>2, <2>4, <1>4, IdsFacts
        <4> QED
          BY <4>3, <3>1, <2>2, SMTT(30) DEF OrderInv, OuterInv
      <3>2. CASE e # 1
        BY <3>2, <2>2 DEF OrderInv, OuterInv, Engines
      <3> QED
        BY <3>1, <3>2
    <2>6. SearchType'
      <3>1. Append(s, p) \in Seq(Ids) /\ n2 \in [Ids -> Nat] /\ visited[e] \cup {p} \in SUBSET Ids
        BY <2>3 DEF Typed
      <3> HIDE DEF n2, p, s
      <3>2. stack' = [stack EXCEPT ![e] = Append(s, p)]
        BY <2>1, <1>2 DEF s, SearchType
      <3>3. visited' = [visited EXCEPT ![e] = visited[e] \cup {p}]
        BY <2>1
      <3> QED
        <4>1. stack' \in [Engines -> Seq(Ids)]
          BY <3>1, <3>2, <1>2 DEF SearchType
        <4>2. visited' \in [Engines -> SUBSET Ids]
          <5>1. visited \in [Engines -> SUBSET Ids]
            BY <1>2 DEF SearchType
          <5> DEFINE w == visited[e] \cup {p}
          <5>2. w \in SUBSET Ids /\ visited' = [visited EXCEPT ![e] = w]
            BY <3>1, <3>3
          <5> HIDE DEF w
          <5> QED
            BY <5>1, <5>2
        <4>3. next' \in [Engines -> [Ids -> Nat]]
          BY <3>1, <2>0, <1>2 DEF SearchType
        <4> QED
          BY <4>1, <4>2, <4>3, <2>1, <1>1, <1>2 DEF SearchType
    <2>7. ASSUME NEW f \in Engines PROVE EngineInv(f)'
      <3>1. CASE f = e
        BY <3>1, <2>2, <2>3, <1>1, <1>5 DEF EngineInv
      <3>2. CASE f # e
        BY <3>2, <2>2, <1>1 DEF OrderInv, EngineInv
      <3> QED
        BY <3>1, <3>2
    <2> QED
      BY <1>2, <2>5, <2>6, <2>7 DEF OrderInv
  <1>7. CASE CollectInput(e) /\ ~(HasNode(p) /\ p \notin visited[e])
    <2>1. /\ next' = [next EXCEPT ![e][top] = @ + 1]
          /\ UNCHANGED <<stack, visited, topo>> /\ next[e][top] <= Len(Ins(tensor, top))
      BY <1>1, <1>7 DEF CollectInput
    <2> DEFINE n2 == [next[e] EXCEPT ![top] = @ + 1]
    <2>2. next'[e] = n2 /\ \A f \in Engines : f # e => next'[f] = next[f]
      BY <2>1, <1>2 DEF SearchType
    <2>3. /\ Typed(s, topo[e], visited[e], n2)
          /\ Searched(tensor, s, topo[e], visited[e], n2)
      BY <1>1, <1>2, <1>3, <1>7, <2>1, PassKeeps
    <2>4. OuterInv'
      BY <2>1 DEF OrderInv, OuterInv
    <2>5. SearchType'
      <3>1. n2 \in [Ids -> Nat]
        BY <2>3 DEF Typed
      <3> QED
        BY <3>1, <2>1, <1>1, <1>2 DEF SearchType
    <2>6. ASSUME NEW f \in Engines PROVE EngineInv(f)'
      <3>1. CASE f = e
        BY <3>1, <2>1, <2>2, <2>3, <1>1, <1>5 DEF EngineInv
      <3>2. CASE f # e
        BY <3>2, <2>1, <2>2, <1>1 DEF OrderInv, EngineInv
      <3> QED
        BY <3>1, <3>2
    <2> QED
      BY <1>2, <2>4, <2>5, <2>6 DEF OrderInv
  <1>8. CASE CollectDone(e)
    <2>1. /\ stack' = [stack EXCEPT ![e] = SubSeq(@, 1, Len(@) - 1)]
          /\ topo' = [topo EXCEPT ![e] = Append(@, top)]
          /\ next' = [next EXCEPT ![e][top] = 0]
          /\ visited' = visited /\ next[e][top] > Len(Ins(tensor, top))
      BY <1>1, <1>8 DEF CollectDone
    <2> DEFINE n2 == [next[e] EXCEPT ![top] = 0]
               s2 == SubSeq(s, 1, Len(s) - 1)
               o2 == Append(topo[e], top)
    <2>2. /\ stack'[e] = s2 /\ next'[e] = n2 /\ topo'[e] = o2
          /\ \A f \in Engines : f # e =>
               stack'[f] = stack[f] /\ next'[f] = next[f] /\ topo'[f] = topo[f]
      BY <2>1, <1>2 DEF SearchType
    <2>3. /\ Typed(s2, o2, visited[e], n2) /\ Searched(tensor, s2, o2, visited[e], n2)
      BY <1>1, <1>2, <1>3, <2>1, LeaveKeeps
    <2>4. OuterInv'
      BY <2>1 DEF OrderInv, OuterInv
    <2>5. SearchType'
      <3>1. n2 \in [Ids -> Nat] /\ s2 \in Seq(Ids) /\ o2 \in Seq(Ids)
        BY <2>3 DEF Typed
      <3> QED
        BY <3>1, <2>1, <1>1, <1>2 DEF SearchType
    <2>6. pos[e] <= Len(o2)
      BY <1>4, <1>5
    <2>7. ASSUME NEW f \in Engines PROVE EngineInv(f)'
      <3>1. CASE f = e
        BY <3>1, <2>1, <2>2, <2>3, <2>6, <1>1 DEF EngineInv
      <3>2. CASE f # e
        BY <3>2, <2>1, <2>2, <1>1 DEF OrderInv, EngineInv
      <3> QED
        BY <3>1, <3>2
    <2> QED
      BY <1>2, <2>4, <2>5, <2>7 DEF OrderInv
  <1> QED
    BY <1>6, <1>7, <1>8

(* An engine that begins: nothing is left of an earlier one.               *)
LEMMA OrderStart ==
  ASSUME OrderInv, ContextInv, NEW e \in Engines, NEW t \in Ids, NEW b, Starts(e, t, b),
         phase[e] = "idle", UNCHANGED <<created, tensor>>, e = 1 => t <= MaxTensors
  PROVE  OrderInv'
  <1>1. /\ stack[e] = <<>> /\ topo[e] = <<>> /\ visited[e] = {} /\ SearchType /\ GraphInv'
        /\ pos[e] <= Len(topo[e])
    BY DEF OrderInv, EngineInv, GraphInv
  <1> DEFINE s == IF HasNode(t) THEN <<t>> ELSE <<>>
             v == IF HasNode(t) THEN {t} ELSE {}
             n2 == [next[e] EXCEPT ![t] = 1]
  <1>2. /\ UNCHANGED <<topo, pos>> /\ phase' = [phase EXCEPT ![e] = "collect"]
        /\ stack' = [stack EXCEPT ![e] = s] /\ visited' = [visited EXCEPT ![e] = v]
        /\ next' = [next EXCEPT ![e][t] = 1]
    BY DEF Starts
  <1>3. /\ stack'[e] = s /\ visited'[e] = v /\ next'[e] = n2 /\ phase'[e] = "collect"
        /\ topo'[e] = <<>>
        /\ \A f \in Engines : f # e =>
             /\ stack'[f] = stack[f] /\ visited'[f] = visited[f] /\ next'[f] = next[f]
             /\ phase'[f] = phase[f]
    BY <1>1, <1>2 DEF SearchType, ContextInv
  <1>4. n2 \in [Ids -> Nat] /\ n2[t] = 1
    BY <1>1 DEF SearchType
  <1>5. Typed(s, <<>>, v, n2) /\ Searched(tensor, s, <<>>, v, n2)
    <2>1. CASE HasNode(t)
      <3>1. Wired(tensor, t) /\ s = <<t>> /\ v = {t}
        BY <2>1 DEF HasNode, Wired
      <3>2. Typed(<<t>>, <<>>, {t}, n2)
        BY <1>4 DEF Typed
      <3> QED
        BY <3>1, <3>2, <1>4, SearchedRoot
    <2>2. CASE ~HasNode(t)
      <3>1. Typed(<<>>, <<>>, {}, n2)
        BY <1>4 DEF Typed
      <3> QED
        BY <3>1, <2>2, SearchedNothing
    <2> QED
      BY <2>1, <2>2
  <1> HIDE DEF s, v, n2
  <1>6. SearchType'
    <2>1. s \in Seq(Ids) /\ v \in SUBSET Ids /\ n2 \in [Ids -> Nat]
      BY <1>5 DEF Typed
    <2>2. next' = [next EXCEPT ![e] = n2]
      BY <1>2 DEF n2
    <2> QED
      BY <1>1, <1>2, <2>1, <2>2 DEF SearchType
  <1>7. OuterInv'
    <2>1. v \subseteq {t}
      BY DEF v
    <2> QED
      BY <2>1, <1>3 DEF OuterInv, OrderInv, Engines
  <1>8. ASSUME NEW f \in Engines PROVE EngineInv(f)'
    <2>1. CASE f = e
      BY <2>1, <1>1, <1>2, <1>3, <1>5 DEF EngineInv
    <2>2. CASE f # e
      BY <2>2, <1>2, <1>3 DEF OrderInv, EngineInv
    <2> QED
      BY <2>1, <2>2
  <1> QED
    BY <1>1, <1>6, <1>7, <1>8 DEF OrderInv

LEMMA OrderStarts ==
  ASSUME OrderInv, ContextInv,
         (\E t \in 1 .. created : Backward(t)) \/ (\E part \in {1, 2} : Nested(part))
  PROVE  OrderInv'
  <1>1. ASSUME NEW t \in 1 .. created, Backward(t) PROVE OrderInv'
    <2>1. t \in Ids /\ t <= MaxTensors
      <3>1. created \in Nat /\ created <= MaxTensors
        BY IdsFacts DEF OrderInv, GraphInv
      <3> QED
        BY <3>1, IdsFacts
    <2>2. Starts(1, t, Len(value) + 1) /\ level = 0 /\ UNCHANGED <<created, tensor>>
      BY <1>1 DEF Backward, Does, Idle, graphVars
    <2>3. phase[1] = "idle"
      BY <2>2 DEF ContextInv
    <2> QED
      BY <2>1, <2>2, <2>3, OrderStart DEF Engines
  <1>2. ASSUME NEW part \in {1, 2}, Nested(part) PROVE OrderInv'
    <2>1. level = 1 /\ step \in {"y1", "y2"} /\ UNCHANGED <<created, tensor>>
      BY <1>2 DEF Nested, Recomputing, graphVars
    <2>2. active = 0 /\ phase[2] = "idle"
      BY <2>1 DEF ContextInv
    <2>3. PICK t \in {fy1, fy2} : Starts(2, t, parked[block][part])
      BY <2>2, <1>2 DEF Nested
    <2>4. t \in Ids
      BY <2>3, IdsFacts
    <2> QED
      BY <2>1, <2>2, <2>3, <2>4, OrderStart DEF Engines
  <1> QED
    BY <1>1, <1>2

(* Of an engine that is gone nothing is left.                              *)
LEMMA OrderGone ==
  ASSUME OrderInv, NEW es \in SUBSET Engines, Gone(es), UNCHANGED <<created, tensor>>
  PROVE  OrderInv'
  <1>1. GraphInv' /\ SearchType
    BY DEF OrderInv, GraphInv
  <1>2. \A f \in Engines : f \in es =>
          /\ stack'[f] = <<>> /\ topo'[f] = <<>> /\ visited'[f] = {} /\ next'[f] = None
          /\ pos'[f] = 0 /\ phase'[f] = "idle"
    BY DEF Gone
  <1>3. \A f \in Engines : f \notin es =>
          /\ stack'[f] = stack[f] /\ topo'[f] = topo[f] /\ visited'[f] = visited[f]
          /\ next'[f] = next[f] /\ pos'[f] = pos[f] /\ phase'[f] = phase[f]
    BY DEF Gone
  <1>4. <<>> \in Seq(Ids) /\ None \in [Ids -> Nat] /\ {} \in SUBSET Ids
    BY DEF None
  <1>5. SearchType'
    <2>1. \A f \in Engines :
            /\ stack'[f] \in Seq(Ids) /\ topo'[f] \in Seq(Ids) /\ visited'[f] \in SUBSET Ids
            /\ next'[f] \in [Ids -> Nat] /\ pos'[f] \in Nat
      <3> SUFFICES ASSUME NEW f \in Engines
                   PROVE  /\ stack'[f] \in Seq(Ids) /\ topo'[f] \in Seq(Ids)
                          /\ visited'[f] \in SUBSET Ids /\ next'[f] \in [Ids -> Nat]
                          /\ pos'[f] \in Nat
        OBVIOUS
      <3>1. CASE f \in es
        <4>1. /\ stack'[f] = <<>> /\ topo'[f] = <<>> /\ visited'[f] = {}
              /\ next'[f] = None /\ pos'[f] = 0
          BY <3>1, <1>2
        <4>2. visited'[f] \in SUBSET Ids /\ pos'[f] \in Nat
          BY <4>1
        <4> QED
          BY <4>1, <4>2, <1>4
      <3>2. CASE f \notin es
        BY <3>2, <1>1, <1>3 DEF SearchType
      <3> QED
        BY <3>1, <3>2
    <2>2. /\ stack' = [f \in Engines |-> stack'[f]] /\ topo' = [f \in Engines |-> topo'[f]]
          /\ visited' = [f \in Engines |-> visited'[f]] /\ next' = [f \in Engines |-> next'[f]]
          /\ pos' = [f \in Engines |-> pos'[f]]
      BY DEF Gone
    <2> QED
      BY <2>1, <2>2 DEF SearchType
  <1>6. ASSUME NEW f \in Engines PROVE EngineInv(f)'
    <2>1. CASE f \in es
      <3>1. Typed(<<>>, <<>>, {}, None)
        BY <1>4 DEF Typed
      <3>2. Searched(tensor', <<>>, <<>>, {}, None)
        BY SearchedNothing
      <3>3. Len(<<>>) = 0
        OBVIOUS
      <3> QED
        <4>1. /\ stack'[f] = <<>> /\ topo'[f] = <<>> /\ visited'[f] = {}
              /\ next'[f] = None /\ pos'[f] = 0 /\ phase'[f] = "idle"
          BY <2>1, <1>2
        <4>2. pos'[f] <= Len(topo'[f])
          BY <4>1
        <4> QED
          BY <3>1, <3>2, <4>1, <4>2 DEF EngineInv
    <2>2. CASE f \notin es
      BY <2>2, <1>3 DEF OrderInv, EngineInv
    <2> QED
      BY <2>1, <2>2
  <1>7. OuterInv'
    BY <1>2, <1>3 DEF OrderInv, OuterInv, Engines
  <1> QED
    BY <1>1, <1>5, <1>6, <1>7 DEF OrderInv

(* Callers add to the graph between searches, a recompute to its own part  *)
(* of the graph, of which the outer engine's search knows nothing.         *)
LEMMA OrderAdded ==
  ASSUME OrderInv, GraphInv', UNCHANGED <<stack, topo, visited, next, pos, phase>>,
         \A t \in Ids : t <= MaxTensors => tensor'[t] = tensor[t],
         phase[2] = "idle"
  PROVE  OrderInv'
  <1>1. SearchType' /\ OuterInv'
    BY DEF OrderInv, SearchType, OuterInv
  <1>2. EngineInv(2)'
    <2>1. /\ stack[2] = <<>> /\ topo[2] = <<>> /\ visited[2] = {} /\ EngineInv(2)
      BY DEF OrderInv, EngineInv, Engines
    <2> QED
      BY <2>1, SearchedNothing DEF EngineInv
  <1>3. EngineInv(1)'
    <2> DEFINE s == stack[1]
               o == topo[1]
               v == visited[1]
               n == next[1]
    <2>1. Typed(s, o, v, n) /\ Searched(tensor, s, o, v, n) /\ EngineInv(1)
      BY DEF OrderInv, EngineInv, Engines
    <2>2. \A t \in v : t \in Ids /\ t <= MaxTensors
      BY <2>1 DEF OrderInv, OuterInv, Typed
    <2>3. \A t \in v : Wired(tensor, t)
      BY <2>1 DEF Searched, Within
    <2>4. \A t \in v : tensor'[t] = tensor[t] /\ tensor[t].fn \in Ids /\ tensor[t].fn <= MaxTensors
      <3> SUFFICES ASSUME NEW t \in v
                   PROVE  /\ tensor'[t] = tensor[t] /\ tensor[t].fn \in Ids
                          /\ tensor[t].fn <= MaxTensors
        OBVIOUS
      <3>1. tensor[t].fn <= t /\ tensor[t].fn # 0 /\ tensor[t].fn \in Ids \cup {0}
        BY <2>2, <2>3 DEF OrderInv, GraphInv, TensorType, Wired
      <3> QED
        BY <3>1, <2>2, IdsFacts
    <2>5. \A t \in v : Ins(tensor', t) = Ins(tensor, t) /\ Wired(tensor', t)
      BY <2>3, <2>4 DEF Ins, Wired
    <2>6. \A t \in v : \A k \in {1, 2} :
            Ins(tensor, t)[k] \in Ids /\ Ins(tensor, t)[k] <= MaxTensors
      <3> SUFFICES ASSUME NEW t \in v, NEW k \in {1, 2}
                   PROVE  Ins(tensor, t)[k] \in Ids /\ Ins(tensor, t)[k] <= MaxTensors
        OBVIOUS
      <3>1. Ins(tensor, t)[k] \in Ids /\ Ins(tensor, t)[k] < t
        BY <2>2, <2>3, GraphAcyclic DEF OrderInv, Acyclic
      <3>2. Ins(tensor, t)[k] \in Nat /\ t \in Nat /\ t <= MaxTensors
        BY <3>1, <2>2, IdsFacts
      <3> QED
        BY <3>1, <3>2, IdsFacts, SMTT(60)
    <2>7. \A t \in v : \A k \in {1, 2} :
            Wired(tensor', Ins(tensor, t)[k]) <=> Wired(tensor, Ins(tensor, t)[k])
      BY <2>6 DEF Wired
    <2>8. (\A i \in 1 .. Len(s) : s[i] \in v) /\ (\A i \in 1 .. Len(o) : o[i] \in v)
      BY <2>1 DEF Searched, Within
    <2> HIDE DEF s, o, v, n
    <2>9. Within(tensor', s, o, v)
      BY <2>1, <2>5 DEF Searched, Within
    <2>10. After(tensor', o)
      BY <2>1, <2>5, <2>7, <2>8 DEF Searched, After
    <2>11. Seen(tensor', s, o, n)
      BY <2>1, <2>5, <2>7, <2>8 DEF Searched, Seen
    <2>12. Searched(tensor', s, o, v, n)
      BY <2>1, <2>9, <2>10, <2>11 DEF Searched
    <2> QED
      BY <2>1, <2>12 DEF EngineInv, s, o, v, n
  <1> QED
    BY <1>1, <1>2, <1>3 DEF OrderInv, Engines


LEMMA OrderBuild ==
  ASSUME OrderInv, ContextInv, outside \in BOOLEAN, Build
  PROVE  OrderInv'
  <1>1. level = 0 /\ UNCHANGED <<stack, topo, visited, next, pos, phase>>
    BY DEF Build, Op, Add, View, Reversible, Make, Builds, Does, Idle, runVars, engineVars,
           collectVars
  <1>2. GraphInv'
    BY EnabledBoolean, BuildGraph DEF OrderInv
  <1>3. \A e \in Engines : phase[e] = "idle"
    BY <1>1 DEF ContextInv, Engines
  <1>4. SearchType' /\ OuterInv'
    BY <1>1 DEF OrderInv, SearchType, OuterInv
  <1>5. ASSUME NEW e \in Engines PROVE EngineInv(e)'
    <2>1. /\ stack[e] = <<>> /\ topo[e] = <<>> /\ visited[e] = {} /\ EngineInv(e)
      BY <1>3 DEF OrderInv, EngineInv
    <2> QED
      BY <2>1, <1>1, SearchedNothing DEF EngineInv
  <1> QED
    BY <1>2, <1>4, <1>5 DEF OrderInv

LEMMA OrderRecompute ==
  ASSUME OrderInv, BlockInv, ContextInv, Recompute \/ Dispatch
  PROVE  OrderInv'
  <1>1. CASE Recompute
    <2>1. /\ UNCHANGED <<stack, topo, visited, next, pos, phase>>
          /\ level = 1 /\ step = "forward"
      BY <1>1 DEF Recompute, Recomputing, engineVars, collectVars
    <2>2. GraphInv' /\ \A t \in Ids : t <= MaxTensors => tensor'[t] = tensor[t]
      BY <1>1, <2>1, RecomputeGraph DEF OrderInv, BlockInv
    <2>3. phase[2] = "idle"
      BY <2>1 DEF ContextInv
    <2> QED
      BY <2>1, <2>2, <2>3, OrderAdded
  <1>2. CASE Dispatch
    <2>1. UNCHANGED <<created, tensor, stack, topo, visited, next, pos, phase>>
      BY <1>2 DEF Dispatch, graphVars, engineVars, collectVars
    <2>2. pos \in [Engines -> Nat]
      BY DEF OrderInv, SearchType
    <2>3. \A e \in Engines :
            pos[e] <= Len(topo[e]) /\ (phase[e] # "collect" => stack[e] = <<>>)
      BY DEF OrderInv, EngineInv
    <2> QED
      BY <2>1, <2>2, <2>3, OrderUntouched
  <1> QED
    BY <1>1, <1>2

LEMMA OrderStep ==
  ASSUME OrderInv, BlockInv, ContextInv, outside \in BOOLEAN, [Next]_vars
  PROVE  OrderInv'
  <1>1. ASSUME NEW e \in Engines, Run(e) PROVE OrderInv'
    <2>1. CASE Return(e)
      <3>1. Gone({e}) /\ UNCHANGED <<created, tensor>>
        BY <2>1 DEF Return, graphVars
      <3> QED
        BY <3>1, OrderGone
    <2> QED
      BY <1>1, <2>1, OrderCollect, OrderVisit DEF Run
  <1>2. CASE Throw
    <2>1. Gone(Engines) /\ UNCHANGED <<created, tensor>>
      BY <1>2 DEF Throw, graphVars
    <2> QED
      BY <2>1, OrderGone
  <1>3. CASE UNCHANGED vars
    <2>1. UNCHANGED <<created, tensor, stack, topo, visited, next, pos, phase>>
      BY <1>3 DEF vars, graphVars, runVars, engineVars, collectVars
    <2>2. pos \in [Engines -> Nat]
      BY DEF OrderInv, SearchType
    <2>3. \A e \in Engines :
            pos[e] <= Len(topo[e]) /\ (phase[e] # "collect" => stack[e] = <<>>)
      BY DEF OrderInv, EngineInv
    <2> QED
      BY <2>1, <2>2, <2>3, OrderUntouched
  <1>4. CASE VisitBlock
    BY <1>4, OrderVisit DEF Engines
  <1>5. CASE \E t \in {u \in 1 .. created : HasNode(u)} : Backward(t)
    BY <1>5, OrderStarts
  <1> QED
    BY <1>1, <1>2, <1>3, <1>4, <1>5, OrderBuild, OrderCallers, OrderStarts, OrderRecompute
       DEF Next

(* A block is recomputed where the outer engine has just visited it.       *)
LEMMA BlockStep ==
  ASSUME OrderInv, BlockInv, ContextInv, [Next]_vars
  PROVE  BlockInv'
  <1> SUFFICES ASSUME step' # "idle" PROVE BlockInv'
    BY DEF BlockInv
  <1>1. ASSUME UNCHANGED <<tensor, block, topo, pos>>, step # "idle" PROVE BlockInv'
    BY <1>1 DEF BlockInv, BlockThere
  <1>2. ASSUME NEW e \in Engines, Run(e) PROVE BlockInv'
    <2>1. step # "idle"
      BY <1>2 DEF Run, CollectInput, CollectDone, CollectUnchanged, StartVisits, VisitNothing,
                  VisitOp, EndVisits, Commit, Return, recomputeVars
    <2>2. e = 2
      BY <1>2, <2>1 DEF Run, CollectInput, CollectDone, Collecting, StartVisits, VisitNothing,
                  VisitOp, Visiting, EndVisits, Commit, Return, Runs, Engines
    <2>3. tensor' = tensor /\ block' = block
      BY <1>2 DEF Run, CollectInput, CollectDone, CollectUnchanged, StartVisits, VisitNothing,
                  VisitOp, EndVisits, Commit, Return, graphVars, recomputeVars
    <2>4. topo'[1] = topo[1] /\ pos'[1] = pos[1]
      <3>1. topo \in [Engines -> Seq(Ids)] /\ pos \in [Engines -> Nat]
        BY DEF OrderInv, SearchType
      <3>2. CASE CollectInput(2) \/ CollectDone(2)
        BY <3>1, <3>2 DEF CollectInput, CollectDone, CollectUnchanged, Engines
      <3>3. CASE StartVisits(2)
        BY <3>1, <3>3 DEF StartVisits, collectVars, Engines
      <3>4. CASE VisitNothing(2) \/ VisitOp(2)
        BY <3>1, <3>4 DEF VisitNothing, VisitOp, Visiting, collectVars, Engines
      <3>5. CASE EndVisits(2) \/ Commit(2)
        BY <3>5 DEF EndVisits, Commit, engineVars, collectVars
      <3>6. CASE Return(2)
        BY <3>6 DEF Return, Gone, Engines
      <3> QED
        BY <1>2, <2>2, <3>2, <3>3, <3>4, <3>5, <3>6 DEF Run
    <2> QED
      BY <2>1, <2>3, <2>4 DEF BlockInv, BlockThere
  <1>3. CASE VisitBlock
    <2> DEFINE t == topo[1][pos[1]]
               n == tensor[t].fn
    <2>1. CASE step # "idle"
      BY <1>3, <2>1 DEF VisitBlock, Visiting, Runs
    <2>2. CASE step = "idle"
      <3>1. /\ tensor[n].op \in {"rev1", "rev2"} /\ block' = Block(n)
            /\ UNCHANGED <<tensor, topo>> /\ pos' = [pos EXCEPT ![1] = @ - 1] /\ pos[1] > 0
        BY <1>3, <2>2 DEF VisitBlock, Visiting, Current, graphVars, collectVars
      <3>2. /\ pos \in [Engines -> Nat] /\ topo[1] \in Seq(Ids) /\ pos[1] <= Len(topo[1])
            /\ GraphInv /\ Searched(tensor, stack[1], topo[1], visited[1], next[1])
            /\ visited[1] \in SUBSET Ids
        BY DEF OrderInv, SearchType, EngineInv, Engines
      <3>3. /\ pos'[1] = pos[1] - 1 /\ pos'[1] < Len(topo[1]) /\ pos'[1] + 1 = pos[1]
            /\ pos[1] \in 1 .. Len(topo[1])
        BY <3>1, <3>2 DEF Engines
      <3>4. t \in visited[1]
        BY <3>2, <3>3 DEF Searched, Within
      <3>5. t \in Ids /\ n # 0 /\ t <= MaxTensors
        BY <3>2, <3>4 DEF Searched, Within, Wired, OrderInv, OuterInv
      <3>6. n \in Ids /\ n <= MaxTensors /\ tensor[n].fn = n
        <4>1. n <= t /\ n \in Ids \cup {0}
          BY <3>2, <3>5 DEF GraphInv, TensorType
        <4>2. n \in Ids /\ t \in Nat /\ n \in Nat
          BY <4>1, <3>5, IdsFacts
        <4> QED
          BY <4>1, <4>2, <3>2, <3>5, IdsFacts, SMTT(30) DEF GraphInv
      <3>7. Ins(tensor, t) = tensor[n].in /\ tensor[n].in \in Seq(Ids) /\ Len(tensor[n].in) = 2
        BY <3>2, <3>6 DEF Ins, GraphInv, TensorType
      <3> HIDE DEF n
      <3>8. block' \in Ids /\ 2 < block' /\ block' <= MaxTensors
            /\ tensor[block'].in = tensor[n].in
        <4>1. CASE tensor[n].op = "rev1"
          <5>1. block' = n
            BY <4>1, <3>1 DEF Block
          <5> QED
            BY <4>1, <5>1, <3>2, <3>6 DEF GraphInv
        <4>2. CASE tensor[n].op = "rev2"
          <5>1. block' = n - 1
            BY <4>2, <3>1 DEF Block
          <5>2. 3 < n /\ tensor[n - 1].in = tensor[n].in
            BY <4>2, <3>2, <3>6 DEF GraphInv
          <5> QED
            BY <5>1, <5>2, <3>6, IdsFacts
        <4> QED
          BY <4>1, <4>2, <3>1
      <3>9. topo'[1][pos'[1] + 1] = t
        BY <3>1, <3>3
      <3> QED
        BY <3>1, <3>3, <3>7, <3>8, <3>9 DEF BlockInv, BlockThere, Ins, n
    <2> QED
      BY <2>1, <2>2
  <1>4. CASE Recompute
    <2>1. /\ step # "idle" /\ UNCHANGED <<block, topo, pos>>
      BY <1>4 DEF Recompute, Recomputing, engineVars, collectVars
    <2>2. \A t \in Ids : t <= MaxTensors => tensor'[t] = tensor[t]
      BY <1>4, <2>1, RecomputeGraph DEF OrderInv, BlockInv
    <2>3. /\ pos \in [Engines -> Nat] /\ topo[1] \in Seq(Ids) /\ pos[1] < Len(topo[1])
          /\ GraphInv /\ Searched(tensor, stack[1], topo[1], visited[1], next[1])
          /\ visited[1] \in SUBSET Ids
      BY <2>1 DEF OrderInv, SearchType, EngineInv, Engines, BlockInv
    <2> DEFINE t == topo[1][pos[1] + 1]
    <2>4. pos[1] + 1 \in 1 .. Len(topo[1])
      BY <2>3 DEF Engines
    <2>5. t \in visited[1]
      BY <2>3, <2>4 DEF Searched, Within
    <2>6. t \in Ids /\ t <= MaxTensors /\ tensor[t].fn # 0
      BY <2>3, <2>5 DEF Searched, Within, Wired, OrderInv, OuterInv
    <2>7. tensor[t].fn \in Ids /\ tensor[t].fn <= MaxTensors
      <3>1. tensor[t].fn <= t /\ tensor[t].fn \in Ids \cup {0}
        BY <2>3, <2>6 DEF GraphInv, TensorType
      <3>2. tensor[t].fn \in Nat /\ t \in Nat
        BY <3>1, <2>6, IdsFacts
      <3> QED
        BY <3>1, <3>2, <2>6, IdsFacts
    <2>8. Ins(tensor', t) = Ins(tensor, t)
      BY <2>2, <2>6, <2>7 DEF Ins
    <2>9. tensor'[block] = tensor[block]
      BY <2>1, <2>2 DEF BlockInv, BlockThere
    <2> QED
      BY <2>1, <2>8, <2>9 DEF BlockInv, BlockThere
  <1>5. CASE Dispatch \/ Throw
    BY <1>5 DEF Dispatch, Throw
  <1>6. ASSUME NEW part \in {1, 2}, Nested(part) PROVE BlockInv'
    <2>1. step # "idle" /\ UNCHANGED <<tensor, block, topo, pos>>
      BY <1>6 DEF Nested, Recomputing, Starts, graphVars, engineVars, collectVars
    <2> QED
      BY <2>1, <1>1
  <1>7. CASE Build \/ SetEnabled \/ ZeroGrad \/ Scale
             \/ \E t \in {u \in 1 .. created : HasNode(u)} : Backward(t)
    <2>1. level = 0 /\ step' = step
      BY <1>7 DEF Build, Op, Add, View, Reversible, Make, Builds, SetEnabled, ZeroGrad, Scale,
                  Backward, Does, Idle, runVars, recomputeVars
    <2> QED
      BY <2>1 DEF ContextInv
  <1>8. CASE UNCHANGED vars
    BY <1>8, <1>1 DEF vars, graphVars, runVars, engineVars, collectVars, recomputeVars
  <1> QED
    BY <1>2, <1>3, <1>4, <1>5, <1>6, <1>7, <1>8 DEF Next


-----------------------------------------------------------------------------
(* What the invariant says of the order of the visits.                     *)

AllInv == OrderInv /\ BlockInv /\ ContextInv /\ outside \in BOOLEAN

LEMMA AllAlways == Spec => []AllInv
  <1>1. Init => AllInv
    BY OrderInit, ContextInit DEF AllInv, Init
  <1>2. AllInv /\ [Next]_vars => AllInv'
    BY OrderStep, BlockStep, ContextStep, OutsideBoolean DEF AllInv
  <1> QED
    BY <1>1, <1>2, PTL DEF Spec

LEMMA SearchFollows ==
  ASSUME OrderInv
  PROVE  SearchInv
  <1> SUFFICES ASSUME NEW e \in Engines
               PROVE  Entered(e) /\ Descending(e) /\ LeftOnce(e) /\ AfterInputs(e) /\ Looked(e)
    BY DEF SearchInv
  <1> DEFINE s == stack[e]
             o == topo[e]
             v == visited[e]
  <1>1. Typed(s, o, v, next[e]) /\ Searched(tensor, s, o, v, next[e])
    BY DEF OrderInv, EngineInv
  <1>2. s \in Seq(Ids) /\ o \in Seq(Ids) /\ v \in SUBSET Ids
    BY <1>1 DEF Typed
  <1>3. DOMAIN s = 1 .. Len(s) /\ DOMAIN o = 1 .. Len(o)
    BY <1>2
  <1>4. \A t \in v : DOMAIN Inputs(t) = {1, 2} /\ Inputs(t) = Ins(tensor, t) /\ HasNode(t)
    <2>1. \A t \in v : t \in Ids /\ Wired(tensor, t)
      BY <1>1, <1>2 DEF Searched, Within
    <2> QED
      BY <2>1, GraphAcyclic DEF OrderInv, Acyclic, Inputs, Node, Ins, HasNode, Wired
  <1>5. (\A i \in 1 .. Len(s) : s[i] \in v) /\ (\A i \in 1 .. Len(o) : o[i] \in v)
    BY <1>1 DEF Searched, Within
  <1>6. Entered(e)
    <2>1. \A t \in v : t \in Elements(s) \cup Elements(o)
      BY <1>1, <1>3 DEF Searched, Within, Elements
    <2>2. \A t \in Elements(s) \cup Elements(o) : t \in v
      BY <1>3, <1>5 DEF Elements
    <2> QED
      BY <2>1, <2>2, <1>4 DEF Entered
  <1>7. Descending(e) /\ LeftOnce(e)
    BY <1>1, <1>3 DEF Searched, Down, Once, Descending, LeftOnce
  <1>8. AfterInputs(e)
    BY <1>1, <1>3, <1>4, <1>5 DEF Searched, After, AfterInputs, HasNode, Wired
  <1>9. Looked(e)
    <2> SUFFICES ASSUME NEW i \in DOMAIN s, NEW k \in DOMAIN Inputs(s[i]),
                        k < next[e][s[i]], HasNode(Inputs(s[i])[k])
                 PROVE  \/ Inputs(s[i])[k] \in Elements(o)
                        \/ i < Len(s) /\ s[i + 1] = Inputs(s[i])[k]
      BY DEF Looked
    <2>1. i \in 1 .. Len(s) /\ k \in {1, 2} /\ Inputs(s[i]) = Ins(tensor, s[i])
      BY <1>3, <1>4, <1>5
    <2>2. \/ \E j \in 1 .. Len(o) : o[j] = Ins(tensor, s[i])[k]
          \/ i < Len(s) /\ s[i + 1] = Ins(tensor, s[i])[k]
      BY <1>1, <2>1 DEF Searched, Seen, HasNode, Wired
    <2> QED
      BY <2>1, <2>2, <1>3 DEF Elements
  <1> QED
    BY <1>6, <1>7, <1>8, <1>9

(* In every graph, with inputs shared, twice in one operation, or views:   *)
(* BackwardEngine::collect lists each tensor once, and after its inputs.   *)
THEOREM SearchAlways == Spec => []SearchInv
  <1>1. AllInv => SearchInv
    BY SearchFollows DEF AllInv
  <1> QED
    BY <1>1, AllAlways, PTL

(* The inputs of a tensor in topo are not where the engine has been.       *)
LEMMA InputsPrecede ==
  ASSUME OrderInv, NEW e \in Engines, NEW i \in 1 .. Len(topo[e]), NEW k \in {1, 2},
         NEW j \in i .. Len(topo[e])
  PROVE  topo[e][j] # Inputs(topo[e][i])[k]
  <1>1. Searched(tensor, stack[e], topo[e], visited[e], next[e]) /\ topo[e] \in Seq(Ids)
    BY DEF OrderInv, EngineInv, SearchType
  <1>2. j \in 1 .. Len(topo[e])
    BY <1>1
  <1>3. CASE HasNode(Inputs(topo[e][i])[k])
    <2>1. PICK h \in 1 .. i - 1 : topo[e][h] = Inputs(topo[e][i])[k]
      BY <1>1, <1>3 DEF Searched, After, HasNode, Wired, Inputs, Node, Ins
    <2>2. h \in 1 .. Len(topo[e]) /\ h # j
      BY <1>1
    <2> QED
      BY <1>1, <1>2, <2>1, <2>2 DEF Searched, Once
  <1>4. CASE ~HasNode(Inputs(topo[e][i])[k])
    <2>1. HasNode(topo[e][j])
      BY <1>1, <1>2 DEF Searched, Within, HasNode, Wired
    <2> QED
      BY <1>4, <2>1
  <1> QED
    BY <1>3, <1>4

-----------------------------------------------------------------------------
(* Gradients arrive before they are passed on.                             *)

PendingInv == DOMAIN pending = Engines /\ \A e \in Engines : DOMAIN pending[e] = Ids

(* What is added to one tensor's gradient changes no other's.              *)
LEMMA AddElsewhere ==
  ASSUME NEW s, NEW t, NEW b
  PROVE  /\ DOMAIN AddGradient(s, t, b).pending = DOMAIN s.pending
         /\ \A u \in DOMAIN s.pending : u # t => AddGradient(s, t, b).pending[u] = s.pending[u]
  BY DEF AddGradient

LEMMA SendElsewhere ==
  ASSUME NEW s, NEW t, NEW weight, NEW b
  PROVE  /\ DOMAIN Send(s, t, weight, b).pending = DOMAIN s.pending
         /\ \A u \in DOMAIN s.pending : u # t => Send(s, t, weight, b).pending[u] = s.pending[u]
  <1>1. CASE ~tensor[t].rg
    BY <1>1 DEF Send
  <1>2. CASE tensor[t].rg /\ weight = 1
    BY <1>2, AddElsewhere DEF Send
  <1>3. CASE tensor[t].rg /\ weight # 1
    <2> DEFINE s2 == [pending |-> s.pending, value |-> Append(s.value, weight * s.value[b])]
    <2>1. Send(s, t, weight, b) = AddGradient(s2, t, Len(s.value) + 1) /\ s2.pending = s.pending
      BY <1>3 DEF Send
    <2> HIDE DEF s2
    <2> QED
      BY <2>1, AddElsewhere
  <1> QED
    BY <1>1, <1>2, <1>3

LEMMA SendAllElsewhere ==
  ASSUME NEW s, NEW n, NEW b
  PROVE  /\ DOMAIN SendAll(s, n, b).pending = DOMAIN s.pending
         /\ \A u \in DOMAIN s.pending : (\A k \in {1, 2} : u # tensor[n].in[k]) =>
              SendAll(s, n, b).pending[u] = s.pending[u]
  <1> DEFINE s2 == Send(s, tensor[n].in[1], Weights(tensor[n].op)[1], b)
  <1>1. SendAll(s, n, b) = Send(s2, tensor[n].in[2], Weights(tensor[n].op)[2], b)
    BY DEF SendAll
  <1>2. /\ DOMAIN s2.pending = DOMAIN s.pending
        /\ \A u \in DOMAIN s.pending : u # tensor[n].in[1] => s2.pending[u] = s.pending[u]
    BY SendElsewhere
  <1> HIDE DEF s2
  <1> QED
    BY <1>1, <1>2, SendElsewhere

LEMMA HandElsewhere ==
  ASSUME NEW s, NEW x, NEW xr
  PROVE  /\ DOMAIN Hand(s, x, xr).pending = DOMAIN s.pending
         /\ \A u \in DOMAIN s.pending : u # x => Hand(s, x, xr).pending[u] = s.pending[u]
  BY AddElsewhere DEF Hand

LEMMA PendingNested ==
  ASSUME ContextInv, NEW part \in {1, 2}, Nested(part)
  PROVE  pending' = pending
  <1>1. step \in {"y1", "y2"} /\ level = 1
    BY DEF Nested, Recomputing
  <1>2. active = 0
    BY <1>1 DEF ContextInv
  <1> QED
    BY <1>2 DEF Nested

(* The engine that visits a node is the active one.                        *)
LEMMA VisitsActive ==
  ASSUME ContextInv, NEW e \in Engines, Visiting(e)
  PROVE  active = e
  BY DEF ContextInv, Visiting, Runs, Engines

LEMMA PendingStep ==
  ASSUME PendingInv, ContextInv, [Next]_vars
  PROVE  PendingInv'
  <1>1. ASSUME pending' = pending PROVE PendingInv'
    BY <1>1 DEF PendingInv
  <1>2. ASSUME NEW e \in Engines, NEW f, DOMAIN f = Ids, pending' = [pending EXCEPT ![e] = f]
        PROVE  PendingInv'
    BY <1>2 DEF PendingInv
  <1>3. ASSUME NEW es, Gone(es) PROVE PendingInv'
    <2>1. DOMAIN None = Ids
      BY DEF None
    <2>2. DOMAIN pending' = Engines /\ \A e \in Engines : pending'[e] \in {None, pending[e]}
      BY <1>3 DEF Gone
    <2> QED
      BY <2>1, <2>2 DEF PendingInv
  <1>4. ASSUME NEW e \in Engines, Run(e) PROVE PendingInv'
    <2>1. CASE CollectInput(e) \/ CollectDone(e) \/ VisitNothing(e) \/ EndVisits(e)
      BY <2>1, <1>1 DEF CollectInput, CollectDone, CollectUnchanged, VisitNothing, EndVisits
    <2>2. CASE StartVisits(e)
      <3> DEFINE s == AddGradient(Pending(e), root[e], seed[e])
      <3>1. DOMAIN s.pending = Ids
        BY AddElsewhere DEF Pending, PendingInv
      <3>2. pending' = [pending EXCEPT ![e] = s.pending]
        BY <2>2 DEF StartVisits
      <3> QED
        BY <3>1, <3>2, <1>2
    <2>3. CASE VisitOp(e)
      <3> DEFINE s == SendAll(Pending(active), tensor[Current(e)].fn, pending[e][Current(e)])
      <3>1. active \in Engines
        BY <2>3, VisitsActive DEF VisitOp
      <3>2. DOMAIN s.pending = Ids
        BY <3>1, SendAllElsewhere DEF Pending, PendingInv
      <3>3. pending' = [pending EXCEPT ![active] = s.pending]
        BY <2>3 DEF VisitOp
      <3> QED
        BY <3>1, <3>2, <3>3, <1>2
    <2>4. CASE Commit(e)
      <3>1. PICK t : pending' = [pending EXCEPT ![e][t] = 0]
        BY <2>4 DEF Commit
      <3> QED
        BY <3>1 DEF PendingInv
    <2>5. CASE Return(e)
      BY <2>5, <1>3 DEF Return
    <2> QED
      BY <1>4, <2>1, <2>2, <2>3, <2>4, <2>5 DEF Run
  <1>5. CASE Dispatch
    <2> DEFINE in == tensor[block].in
               s1 == Hand(Pending(saved), in[1], x1r)
               s == Hand(s1, in[2], x2r)
    <2>1. saved = 1 /\ pending' = [pending EXCEPT ![saved] = s.pending]
      BY <1>5 DEF Dispatch, Recomputing, ContextInv
    <2>2. DOMAIN s1.pending = Ids
      BY <2>1, HandElsewhere DEF Pending, PendingInv, Engines
    <2>3. DOMAIN s.pending = Ids
      BY <2>2, HandElsewhere
    <2> QED
      BY <2>1, <2>3, <1>2 DEF Engines
  <1>6. ASSUME NEW part \in {1, 2}, Nested(part) PROVE PendingInv'
    BY <1>1, <1>6, PendingNested
  <1>7. CASE Throw
    BY <1>3, <1>7 DEF Throw
  <1>8. CASE Build \/ SetEnabled \/ ZeroGrad \/ Scale \/ VisitBlock \/ Recompute
    BY <1>1, <1>8 DEF Build, Op, Add, View, Reversible, Make, SetEnabled, ZeroGrad, Scale,
                      VisitBlock, Recompute, runVars
  <1>9. CASE \E t \in {u \in 1 .. created : HasNode(u)} : Backward(t)
    BY <1>1, <1>9 DEF Backward
  <1>10. CASE UNCHANGED vars
    BY <1>1, <1>10 DEF vars, runVars
  <1> QED
    BY <1>4, <1>5, <1>6, <1>7, <1>8, <1>9, <1>10 DEF Next

NoLateStep ==
  \A e \in Engines :
    phase[e] = "visit" /\ phase'[e] = "visit" =>
      \A i \in pos[e] + 1 .. Len(topo[e]) : pending'[e][topo[e][i]] = pending[e][topo[e][i]]

LEMMA NoLateFollows ==
  ASSUME AllInv, PendingInv, [Next]_vars
  PROVE  NoLateStep
  <1> SUFFICES ASSUME NEW e \in Engines, phase[e] = "visit", phase'[e] = "visit",
                      NEW i \in pos[e] + 1 .. Len(topo[e])
               PROVE  pending'[e][topo[e][i]] = pending[e][topo[e][i]]
    BY DEF NoLateStep
  <1> USE DEF AllInv
  <1>1. /\ pos[e] \in Nat /\ topo[e] \in Seq(Ids) /\ i \in 1 .. Len(topo[e])
        /\ topo[e][i] \in DOMAIN pending[e]
    BY DEF OrderInv, SearchType, PendingInv
  <1>2. ASSUME NEW f, NEW g \in Engines, g # e, pending' = [pending EXCEPT ![g] = f]
        PROVE  pending'[e] = pending[e]
    BY <1>2 DEF PendingInv
  <1>3. ASSUME NEW f \in Engines, Run(f)
        PROVE  pending'[e][topo[e][i]] = pending[e][topo[e][i]]
    <2>1. CASE CollectInput(f) \/ CollectDone(f) \/ VisitNothing(f) \/ EndVisits(f)
      BY <2>1 DEF CollectInput, CollectDone, CollectUnchanged, VisitNothing, EndVisits
    <2>2. CASE StartVisits(f)
      <3>1. f # e
        BY <2>2 DEF StartVisits, Runs
      <3> QED
        BY <2>2, <3>1, <1>2 DEF StartVisits
    <2>3. CASE VisitOp(f)
      <3> DEFINE n == tensor[Current(f)].fn
                 s == SendAll(Pending(f), n, pending[f][Current(f)])
      <3>1. active = f /\ pending' = [pending EXCEPT ![f] = s.pending] /\ pos[f] > 0
        BY <2>3, VisitsActive DEF VisitOp, Visiting
      <3>2. CASE f # e
        BY <3>1, <3>2, <1>2
      <3>3. CASE f = e
        <4>1. pos[e] \in 1 .. Len(topo[e]) /\ i \in pos[e] .. Len(topo[e])
          BY <1>1, <3>1, <3>3 DEF OrderInv, EngineInv
        <4>2. \A k \in {1, 2} : topo[e][i] # tensor[n].in[k]
          BY <4>1, <3>3, InputsPrecede DEF Inputs, Node, Current
        <4>3. s.pending[topo[e][i]] = pending[e][topo[e][i]]
          BY <4>2, <1>1, <3>3, SendAllElsewhere DEF Pending
        <4>4. pending'[e] = s.pending
          BY <3>1, <3>3 DEF PendingInv
        <4> QED
          BY <4>3, <4>4
      <3> QED
        BY <3>2, <3>3
    <2>4. CASE Commit(f)
      <3>1. f # e
        BY <2>4 DEF Commit, Runs
      <3>2. PICK t : pending' = [pending EXCEPT ![f][t] = 0]
        BY <2>4 DEF Commit
      <3> QED
        BY <3>1, <3>2 DEF PendingInv
    <2>5. CASE Return(f)
      BY <2>5 DEF Return, Gone
    <2> QED
      BY <1>3, <2>1, <2>2, <2>3, <2>4, <2>5 DEF Run
  <1>4. CASE Dispatch
    <2> DEFINE in == tensor[block].in
               s1 == Hand(Pending(1), in[1], x1r)
               s == Hand(s1, in[2], x2r)
    <2>1. saved = 1 /\ step # "idle"
      BY <1>4 DEF Dispatch, Recomputing, ContextInv
    <2>2. pending' = [pending EXCEPT ![1] = s.pending]
      BY <1>4, <2>1 DEF Dispatch
    <2>3. CASE e = 1
      <3>1. /\ pos[1] + 1 \in 1 .. Len(topo[1]) /\ i \in pos[1] + 1 .. Len(topo[1])
            /\ in = Inputs(topo[1][pos[1] + 1])
        BY <2>1, <2>3, <1>1 DEF BlockInv, Ins, Inputs, Node
      <3>2. \A k \in {1, 2} : topo[1][i] # in[k]
        BY <3>1, InputsPrecede DEF Engines
      <3>3. topo[1][i] \in DOMAIN Pending(1).pending /\ Pending(1).pending = pending[1]
        BY <1>1, <2>3 DEF Pending
      <3>4. topo[1][i] \in DOMAIN s1.pending /\ s1.pending[topo[1][i]] = pending[1][topo[1][i]]
        BY <3>2, <3>3, HandElsewhere
      <3> HIDE DEF s1
      <3>5. s.pending[topo[1][i]] = pending[1][topo[1][i]]
        BY <3>2, <3>4, HandElsewhere
      <3>6. pending'[1] = s.pending
        BY <2>2 DEF PendingInv, Engines
      <3> QED
        BY <2>3, <3>5, <3>6
    <2>4. CASE e # 1
      BY <2>2, <2>4, <1>2 DEF Engines
    <2> QED
      BY <2>3, <2>4
  <1>5. ASSUME NEW part \in {1, 2}, Nested(part) PROVE pending' = pending
    BY <1>5, PendingNested
  <1>6. CASE Throw
    BY <1>6 DEF Throw, Gone
  <1>7. CASE Build \/ SetEnabled \/ ZeroGrad \/ Scale \/ VisitBlock \/ Recompute
    BY <1>7 DEF Build, Op, Add, View, Reversible, Make, SetEnabled, ZeroGrad, Scale,
                VisitBlock, Recompute, runVars
  <1>8. CASE \E t \in {u \in 1 .. created : HasNode(u)} : Backward(t)
    BY <1>8 DEF Backward
  <1>9. CASE UNCHANGED vars
    BY <1>9 DEF vars, runVars
  <1> QED
    BY <1>3, <1>4, <1>5, <1>6, <1>7, <1>8, <1>9 DEF Next

(* No gradient arrives at a tensor whose node has already run, neither     *)
(* from the nodes run() visits nor from a block's recompute: the guarantee *)
(* for which collect sorts.                                                *)
THEOREM NoneLate == Spec => NoLateGradient
  <1>1. Init => PendingInv
    BY DEF Init, PendingInv, None
  <1>2. AllInv /\ PendingInv /\ [Next]_vars => PendingInv'
    BY PendingStep DEF AllInv
  <1>3. AllInv /\ PendingInv /\ [Next]_vars => [NoLateStep]_vars
    BY NoLateFollows
  <1> QED
    BY <1>1, <1>2, <1>3, AllAlways, PTL DEF Spec, NoLateGradient, NoLateStep

=============================================================================
