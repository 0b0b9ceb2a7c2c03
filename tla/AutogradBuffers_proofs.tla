------------------------ MODULE AutogradBuffers_proofs ------------------------
(* The types of the backward engine's variables, and with them that every     *)
(* gradient that is kept, parked or on its way is in a buffer that exists:     *)
(* through recomputes, and through failures, which free what nobody keeps.     *)
EXTENDS Autograd_proofs, FiniteSetTheorems, WellFoundedInduction

\* Buffers in use when there are n of them; 0 stands for none.
Buffers(n) == 0 .. n

\* What buffers hold does not matter here.
IsSeq(s) == \E S : s \in Seq(S)

BufferInv ==
  /\ built \in 0 .. MaxOps
  /\ IsSeq(value)
  /\ grad \in [Ids -> Buffers(Len(value))]
  /\ parked \in [Ids -> Buffers(Len(value)) \X Buffers(Len(value))]
  /\ root \in [Engines -> Ids \cup {0}]
  /\ \A e \in Engines : phase[e] # "idle" => root[e] \in Ids
  /\ seed \in [Engines -> Buffers(Len(value))]
  /\ pending \in [Engines -> [Ids -> Buffers(Len(value))]]
  /\ block \in Ids \cup {0}
  /\ wasOn \in BOOLEAN
  /\ calls \in 0 .. MaxCalls
  /\ exact \in BOOLEAN

-----------------------------------------------------------------------------
(* Gradients that are added to.                                            *)

\* A sequence has a length.
LEMMA SeqLength == ASSUME NEW s, IsSeq(s) PROVE Len(s) \in Nat /\ DOMAIN s = 1 .. Len(s)
  BY LenProperties DEF IsSeq

\* Whatever is appended, it stays one.
LEMMA AppendSeq ==
  ASSUME NEW s, IsSeq(s), NEW x
  PROVE  IsSeq(Append(s, x)) /\ Len(Append(s, x)) = Len(s) + 1
  <1>1. PICK S : s \in Seq(S)
    BY DEF IsSeq
  <1>2. s \in Seq(S \cup {x})
    BY <1>1
  <1>3. Append(s, x) \in Seq(S \cup {x}) /\ Len(Append(s, x)) = Len(s) + 1
    BY <1>2, AppendProperties
  <1> QED
    BY <1>3 DEF IsSeq

\* Pending gradients and buffers that belong together.
Good(s) == IsSeq(s.value) /\ s.pending \in [Ids -> Buffers(Len(s.value))]

\* There are more buffers, and the gradients are in them.
Follows(r, s) == Good(r) /\ Len(s.value) <= Len(r.value)

\* add_gradient takes a buffer that is there, and makes at most one.
LEMMA AddGood ==
  ASSUME NEW s, Good(s), NEW t \in Ids, NEW b \in Buffers(Len(s.value))
  PROVE  Follows(AddGradient(s, t, b), s)
  <1>1. Len(s.value) \in Nat
    BY SeqLength DEF Good
  <1>2. CASE s.pending[t] = 0
    <2>1. /\ AddGradient(s, t, b).pending = [s.pending EXCEPT ![t] = b]
          /\ AddGradient(s, t, b).value = s.value
      BY <1>2 DEF AddGradient
    <2>2. [s.pending EXCEPT ![t] = b] \in [Ids -> Buffers(Len(s.value))]
      BY DEF Good
    <2> QED
      BY <1>1, <2>1, <2>2 DEF Good, Follows
  <1>3. CASE s.pending[t] # 0
    <2> PICK longer : longer = Append(s.value, s.value[s.pending[t]] + s.value[b])
      OBVIOUS
    <2>1. /\ AddGradient(s, t, b).pending = [s.pending EXCEPT ![t] = Len(s.value) + 1]
          /\ AddGradient(s, t, b).value = longer
      BY <1>3 DEF AddGradient
    <2>2. IsSeq(longer) /\ Len(longer) = Len(s.value) + 1
      BY AppendSeq DEF Good
    <2>3. /\ Buffers(Len(s.value)) \subseteq Buffers(Len(longer))
          /\ Len(s.value) + 1 \in Buffers(Len(longer))
      BY <1>1, <2>2 DEF Buffers
    <2>4. [s.pending EXCEPT ![t] = Len(s.value) + 1] \in [Ids -> Buffers(Len(longer))]
      BY <2>3 DEF Good
    <2> QED
      BY <1>1, <2>1, <2>2, <2>4 DEF Good, Follows
  <1> QED
    BY <1>2, <1>3

\* One addition after another.
LEMMA FollowsTwice ==
  ASSUME NEW q, NEW r, NEW s, Follows(q, r), Follows(r, s), Good(s)
  PROVE  Follows(q, s)
  <1>1. Len(q.value) \in Nat /\ Len(r.value) \in Nat /\ Len(s.value) \in Nat
    BY SeqLength DEF Follows, Good
  <1> QED
    BY <1>1 DEF Follows

\* A node's gradient for one input.
LEMMA SendGood ==
  ASSUME NEW s, Good(s), NEW t \in Ids, NEW weight, NEW b \in Buffers(Len(s.value))
  PROVE  Follows(Send(s, t, weight, b), s)
  <1>0. Len(s.value) \in Nat
    BY SeqLength DEF Good
  <1>1. CASE ~tensor[t].rg
    BY <1>0, <1>1 DEF Send, Follows
  <1>2. CASE tensor[t].rg /\ weight = 1
    BY <1>2, AddGood DEF Send
  <1>3. CASE tensor[t].rg /\ weight # 1
    <2> PICK longer : longer = Append(s.value, weight * s.value[b])
      OBVIOUS
    <2> PICK r : r = [pending |-> s.pending, value |-> longer]
      OBVIOUS
    <2>1. Send(s, t, weight, b) = AddGradient(r, t, Len(s.value) + 1)
      BY <1>3 DEF Send
    <2>2. IsSeq(longer) /\ Len(longer) = Len(s.value) + 1
      BY AppendSeq DEF Good
    <2>3. Buffers(Len(s.value)) \subseteq Buffers(Len(longer))
      BY <1>0, <2>2 DEF Buffers
    <2>4. r.pending = s.pending /\ r.value = longer
      OBVIOUS
    <2>5. Good(r)
      BY <2>2, <2>3, <2>4 DEF Good
    <2>6. Follows(r, s)
      BY <1>0, <2>2, <2>4, <2>5 DEF Follows
    <2>7. Len(s.value) + 1 \in Buffers(Len(r.value))
      BY <1>0, <2>2, <2>4 DEF Buffers
    <2>8. Follows(AddGradient(r, t, Len(s.value) + 1), r)
      BY <2>5, <2>7, AddGood
    <2> QED
      BY <2>1, <2>6, <2>8, FollowsTwice
  <1> QED
    BY <1>1, <1>2, <1>3

\* Buffers that were there are there.
LEMMA BufferStays ==
  ASSUME NEW r, NEW s, Follows(r, s), Good(s), NEW b \in Buffers(Len(s.value))
  PROVE  b \in Buffers(Len(r.value))
  <1>1. Len(r.value) \in Nat /\ Len(s.value) \in Nat
    BY SeqLength DEF Follows, Good
  <1> QED
    BY <1>1 DEF Follows, Buffers

\* A node's gradients for both.
LEMMA SendAllGood ==
  ASSUME NEW s, Good(s), NEW n, tensor[n].in[1] \in Ids, tensor[n].in[2] \in Ids,
         NEW b \in Buffers(Len(s.value))
  PROVE  Follows(SendAll(s, n, b), s)
  <1> PICK r : r = Send(s, tensor[n].in[1], Weights(tensor[n].op)[1], b)
    OBVIOUS
  <1>1. Follows(r, s)
    BY SendGood
  <1>2. b \in Buffers(Len(r.value)) /\ Good(r)
    BY <1>1, BufferStays DEF Follows
  <1>3. SendAll(s, n, b) = Send(r, tensor[n].in[2], Weights(tensor[n].op)[2], b)
    BY DEF SendAll
  <1>4. Follows(Send(r, tensor[n].in[2], Weights(tensor[n].op)[2], b), r)
    BY <1>2, SendGood
  <1> QED
    BY <1>1, <1>3, <1>4, FollowsTwice

\* A recovered input's gradient.
LEMMA HandGood ==
  ASSUME NEW s, Good(s), NEW x \in Ids, NEW xr, grad[xr] \in Buffers(Len(s.value))
  PROVE  Follows(Hand(s, x, xr), s)
  <1>1. CASE tensor[x].rg /\ grad[xr] # 0
    BY <1>1, AddGood DEF Hand
  <1>2. CASE ~(tensor[x].rg /\ grad[xr] # 0)
    <2>1. Len(s.value) \in Nat
      BY SeqLength DEF Good
    <2> QED
      BY <1>2, <2>1 DEF Hand, Follows
  <1> QED
    BY <1>1, <1>2

-----------------------------------------------------------------------------
(* The last buffer that is used.                                           *)

\* A set of buffers has a largest.
LEMMA Largest ==
  ASSUME NEW n \in Nat, NEW U, U \subseteq 0 .. n, U # {}
  PROVE  \E b \in U : \A c \in U : c <= b
  <1> DEFINE T == {k \in Nat : \E b \in U : k = n - b}
  <1>0. \A b \in U : b \in Nat /\ n - b \in Nat
    OBVIOUS
  <1>1. T \subseteq Nat /\ T # {}
    <2>1. PICK b : b \in U
      OBVIOUS
    <2>2. n - b \in T
      BY <1>0, <2>1
    <2> QED
      BY <2>2
  <1> HIDE DEF T
  <1>2. PICK m \in T : \A k \in T : <<k, m>> \notin OpToRel(<, Nat)
    BY <1>1, WFMin, NatLessThanWellFounded, Zenon
  <1>3. \A k \in T : ~(k < m)
    BY <1>1, <1>2, Zenon DEF OpToRel
  <1>4. PICK b \in U : m = n - b
    BY <1>2 DEF T
  <1>5. ASSUME NEW c \in U PROVE c <= b
    <2>1. n - c \in T
      BY <1>0 DEF T
    <2>2. ~(n - c < n - b)
      BY <1>3, <1>4, <2>1
    <2>3. b \in Nat /\ c \in Nat
      BY <1>0
    <2> QED
      BY <2>2, <2>3
  <1> QED
    BY <1>5

-----------------------------------------------------------------------------
(* The steps.                                                              *)

\* The variables that hold buffers, when there are no fewer of them.
LEMMA BuffersKept ==
  ASSUME BufferInv, IsSeq(value'), Len(value) <= Len(value')
  PROVE  /\ Buffers(Len(value)) \subseteq Buffers(Len(value'))
         /\ grad \in [Ids -> Buffers(Len(value'))]
         /\ parked \in [Ids -> Buffers(Len(value')) \X Buffers(Len(value'))]
         /\ seed \in [Engines -> Buffers(Len(value'))]
         /\ pending \in [Engines -> [Ids -> Buffers(Len(value'))]]
  <1>1. Len(value) \in Nat /\ Len(value') \in Nat
    BY SeqLength DEF BufferInv
  <1>2. Buffers(Len(value)) \subseteq Buffers(Len(value'))
    BY <1>1 DEF Buffers
  <1>3. grad \in [Ids -> Buffers(Len(value'))] /\ seed \in [Engines -> Buffers(Len(value'))]
    BY <1>2 DEF BufferInv
  <1>4. parked \in [Ids -> Buffers(Len(value')) \X Buffers(Len(value'))]
    <2>1. Buffers(Len(value)) \X Buffers(Len(value))
            \subseteq Buffers(Len(value')) \X Buffers(Len(value'))
      BY <1>2
    <2> QED
      BY <2>1 DEF BufferInv
  <1>5. pending \in [Engines -> [Ids -> Buffers(Len(value'))]]
    <2>1. [Ids -> Buffers(Len(value))] \subseteq [Ids -> Buffers(Len(value'))]
      BY <1>2
    <2> QED
      BY <2>1 DEF BufferInv
  <1> QED
    BY <1>2, <1>3, <1>4, <1>5

\* An engine's pending gradients are such.
LEMMA PendingGood ==
  ASSUME BufferInv, NEW e \in Engines
  PROVE  Good(Pending(e)) /\ Pending(e).value = value /\ Pending(e).pending = pending[e]
  BY DEF BufferInv, Good, Pending

\* What is left when pending gradients and buffers change.
LEMMA BufferPending ==
  ASSUME BufferInv, NEW e \in Engines, NEW s, Follows(s, Pending(e)), value' = s.value,
         pending' = [pending EXCEPT ![e] = s.pending],
         UNCHANGED <<built, grad, parked, root, seed, calls, exact>>,
         block' \in Ids \cup {0}, wasOn' \in BOOLEAN,
         \A f \in Engines : phase'[f] # "idle" => phase[f] # "idle"
  PROVE  BufferInv'
  <1>1. Pending(e).value = value
    BY PendingGood
  <1>2. IsSeq(value') /\ Len(value) <= Len(value') /\ s.pending \in [Ids -> Buffers(Len(value'))]
    BY <1>1 DEF Follows, Good
  <1>3. pending' \in [Engines -> [Ids -> Buffers(Len(value'))]]
    BY <1>2, BuffersKept
  <1> QED
    BY <1>2, <1>3, BuffersKept DEF BufferInv

\* A step that touches none of this.
LEMMA BufferUntouched ==
  ASSUME BufferInv, UNCHANGED <<built, value, grad, parked, root, seed, pending>>,
         block' \in Ids \cup {0}, wasOn' \in BOOLEAN, calls' \in 0 .. MaxCalls,
         exact' \in BOOLEAN, \A f \in Engines : phase'[f] # "idle" => phase[f] # "idle"
  PROVE  BufferInv'
  BY DEF BufferInv

\* Callers' calls are counted up to the bound.
LEMMA CountedCalls ==
  ASSUME BufferInv, Counted
  PROVE  calls' \in 0 .. MaxCalls
  <1>1. calls \in Nat /\ MaxCalls \in Nat
    BY ConstantsAssumption DEF BufferInv
  <1> QED
    BY <1>1 DEF Counted

\* Calls that add to the graph.
LEMMA BufferBuild ==
  ASSUME BufferInv, Build
  PROVE  BufferInv'
  <1>1. /\ UNCHANGED <<value, grad, parked, root, seed, pending, phase, block, wasOn, exact>>
        /\ Counted /\ built < MaxOps /\ built' = built + 1
    BY DEF Build, Op, Add, View, Reversible, Make, Builds, Does, runVars, engineVars, collectVars,
           recomputeVars
  <1>2. built' \in 0 .. MaxOps
    BY <1>1, ConstantsAssumption DEF BufferInv
  <1> QED
    BY <1>1, <1>2, CountedCalls DEF BufferInv

\* Calls that change gradients where they are, or drop them.
LEMMA BufferCallers ==
  ASSUME BufferInv, SetEnabled \/ ZeroGrad \/ Scale
  PROVE  BufferInv'
  <1>0. calls' \in 0 .. MaxCalls
    BY CountedCalls DEF SetEnabled, ZeroGrad, Scale, Does
  <1>1. CASE SetEnabled
    BY <1>0, <1>1, BufferUntouched DEF SetEnabled, BufferInv, graphVars, engineVars, collectVars,
       recomputeVars
  <1>2. CASE ZeroGrad
    <2>1. /\ grad' = [t \in Ids |-> IF t \in Params THEN 0 ELSE grad[t]]
          /\ UNCHANGED <<built, value, parked, root, seed, pending, phase, block, wasOn>>
          /\ exact' \in BOOLEAN
      BY <1>2 DEF ZeroGrad, graphVars, runVars, engineVars, collectVars, recomputeVars
    <2>2. 0 \in Buffers(Len(value))
      BY SeqLength DEF BufferInv, Buffers
    <2>3. grad' \in [Ids -> Buffers(Len(value))]
      BY <2>1, <2>2 DEF BufferInv
    <2> QED
      BY <1>0, <2>1, <2>3 DEF BufferInv
  <1>3. CASE Scale
    <2>1. /\ value' = [b \in DOMAIN value |-> Doubled(value[b], Cardinality(Sharing(b)))]
          /\ UNCHANGED <<built, grad, parked, root, seed, pending, phase, block, wasOn>>
          /\ exact' \in BOOLEAN
      BY <1>3 DEF Scale, graphVars, runVars, engineVars, collectVars, recomputeVars
    <2> PICK n : n = Len(value)
      OBVIOUS
    <2>2. n \in Nat /\ DOMAIN value = 1 .. n
      BY SeqLength DEF BufferInv
    <2> PICK S : S = {value'[b] : b \in 1 .. n}
      OBVIOUS
    <2>3. value' \in [1 .. n -> S]
      BY <2>1, <2>2
    <2>4. value' \in Seq(S) /\ Len(value') = n
      BY <2>2, <2>3
    <2>5. IsSeq(value')
      BY <2>4 DEF IsSeq
    <2> QED
      BY <1>0, <2>1, <2>4, <2>5 DEF BufferInv
  <1> QED
    BY <1>1, <1>2, <1>3

\* An engine is made, with a gradient that is there.
LEMMA BufferStarts ==
  ASSUME BufferInv, ContextInv, NEW e \in Engines, NEW t \in Ids, NEW b, Starts(e, t, b),
         IsSeq(value'), Len(value) <= Len(value'), b \in Buffers(Len(value')),
         UNCHANGED <<built, grad, parked, pending, block, wasOn, exact>>,
         calls' \in 0 .. MaxCalls
  PROVE  BufferInv'
  <1>1. /\ phase' = [phase EXCEPT ![e] = "collect"]
        /\ root' = [root EXCEPT ![e] = t] /\ seed' = [seed EXCEPT ![e] = b]
    BY DEF Starts
  <1>2. seed' \in [Engines -> Buffers(Len(value'))]
    BY <1>1, BuffersKept
  <1>3. root' \in [Engines -> Ids \cup {0}]
    BY <1>1 DEF BufferInv
  <1>4. ASSUME NEW f \in Engines, phase'[f] # "idle" PROVE root'[f] \in Ids
    <2>1. f = e \/ (root'[f] = root[f] /\ phase'[f] = phase[f])
      BY <1>1 DEF BufferInv, ContextInv
    <2>2. root'[e] = t
      BY <1>1 DEF BufferInv
    <2> QED
      BY <1>4, <2>1, <2>2 DEF BufferInv
  <1> QED
    BY <1>2, <1>3, <1>4, BuffersKept DEF BufferInv

\* A caller's backward, from a buffer of ones that is new.
LEMMA BufferBackward ==
  ASSUME BufferInv, AllInv, NEW t \in 1 .. created, Backward(t)
  PROVE  BufferInv'
  <1>1. t \in Ids
    <2>1. created \in Nat /\ created <= MaxTensors
      BY IdsFacts DEF AllInv, OrderInv, GraphInv
    <2> QED
      BY <2>1, IdsFacts
  <1>2. /\ Starts(1, t, Len(value) + 1) /\ value' = Append(value, 1) /\ Counted
        /\ UNCHANGED <<built, grad, parked, pending, block, wasOn, exact>>
    BY DEF Backward, Does, graphVars, recomputeVars
  <1>3. IsSeq(value') /\ Len(value') = Len(value) + 1 /\ Len(value) \in Nat
    BY <1>2, AppendSeq, SeqLength DEF BufferInv
  <1>4. Len(value) + 1 \in Buffers(Len(value')) /\ Len(value) <= Len(value')
    BY <1>3 DEF Buffers
  <1> QED
    BY <1>1, <1>2, <1>3, <1>4, CountedCalls, BufferStarts DEF AllInv, Engines

\* A recompute's backward, from the gradient that is parked.
LEMMA BufferNested ==
  ASSUME BufferInv, AllInv, NEW part \in {1, 2}, Nested(part)
  PROVE  BufferInv'
  <1>1. level = 1 /\ step \in {"y1", "y2"}
    BY DEF Nested, Recomputing
  <1>2. active = 0 /\ block \in Ids
    BY <1>1 DEF AllInv, ContextInv, BlockInv, BlockThere
  <1>3. PICK t \in {fy1, fy2} : Starts(2, t, parked[block][part])
    BY <1>2 DEF Nested
  <1>4. t \in Ids
    BY <1>3, IdsFacts
  <1>5. UNCHANGED <<built, value, grad, parked, pending, block, wasOn, exact, calls>>
    BY <1>2 DEF Nested, graphVars, ghostVars
  <1>6. parked[block] \in Buffers(Len(value)) \X Buffers(Len(value))
    BY <1>2 DEF BufferInv
  <1>7. parked[block][part] \in Buffers(Len(value)) /\ Len(value) \in Nat
    BY <1>6, SeqLength DEF BufferInv
  <1> QED
    BY <1>3, <1>4, <1>5, <1>7, BufferStarts DEF AllInv, BufferInv, Engines

\* The tensor an engine is at.
LEMMA CurrentThere ==
  ASSUME OrderInv, NEW e \in Engines, Visiting(e)
  PROVE  Current(e) \in Ids /\ Wired(tensor, Current(e))
  <1>1. /\ topo[e] \in Seq(Ids) /\ pos[e] \in Nat /\ pos[e] > 0 /\ pos[e] <= Len(topo[e])
        /\ visited[e] \in SUBSET Ids
        /\ Searched(tensor, stack[e], topo[e], visited[e], next[e])
    BY DEF OrderInv, SearchType, EngineInv, Visiting
  <1>2. pos[e] \in 1 .. Len(topo[e])
    BY <1>1
  <1>3. topo[e][pos[e]] \in visited[e]
    BY <1>1, <1>2 DEF Searched, Within
  <1> QED
    BY <1>1, <1>3 DEF Current, Searched, Within

\* A node passes its gradient on.
LEMMA BufferVisits ==
  ASSUME BufferInv, AllInv, NEW e \in Engines, VisitOp(e)
  PROVE  BufferInv'
  <1>1. Visiting(e) /\ active = e
    BY VisitsActive DEF VisitOp, AllInv
  <1>2. Current(e) \in Ids /\ Wired(tensor, Current(e))
    BY <1>1, CurrentThere DEF AllInv
  <1> PICK n : n = tensor[Current(e)].fn
    OBVIOUS
  <1> PICK b : b = pending[e][Current(e)]
    OBVIOUS
  <1>3. tensor[n].in[1] \in Ids /\ tensor[n].in[2] \in Ids
    <2>1. Acyclic(tensor)
      BY GraphAcyclic DEF AllInv, OrderInv
    <2>2. Ins(tensor, Current(e)) = tensor[n].in
      BY DEF Ins
    <2> QED
      BY <1>2, <2>1, <2>2 DEF Acyclic
  <1> PICK s : s = SendAll(Pending(e), n, b)
    OBVIOUS
  <1>4. b \in Buffers(Len(Pending(e).value)) /\ Good(Pending(e))
    BY <1>2, PendingGood DEF BufferInv
  <1>5. Follows(s, Pending(e))
    BY <1>3, <1>4, SendAllGood
  <1>6. pending' = [pending EXCEPT ![e] = s.pending] /\ value' = s.value
    BY <1>1 DEF VisitOp
  <1>7. UNCHANGED <<built, grad, parked, root, seed, calls, exact, block, wasOn, phase>>
    BY <1>1 DEF VisitOp, Visiting, graphVars, collectVars, recomputeVars, ghostVars
  <1> QED
    BY <1>5, <1>6, <1>7, BufferPending DEF BufferInv

\* The root's gradient is the first that is pending.
LEMMA BufferBegins ==
  ASSUME BufferInv, NEW e \in Engines, StartVisits(e)
  PROVE  BufferInv'
  <1>1. root[e] \in Ids /\ seed[e] \in Buffers(Len(value))
    BY DEF StartVisits, Runs, BufferInv
  <1> PICK s : s = AddGradient(Pending(e), root[e], seed[e])
    OBVIOUS
  <1>2. Follows(s, Pending(e))
    BY <1>1, PendingGood, AddGood
  <1>3. /\ pending' = [pending EXCEPT ![e] = s.pending] /\ value' = s.value
        /\ UNCHANGED <<built, grad, parked, root, seed, calls, exact, block, wasOn>>
        /\ phase' = [phase EXCEPT ![e] = "visit"] /\ phase[e] = "collect"
    BY DEF StartVisits, Runs, graphVars, collectVars, recomputeVars, ghostVars
  <1>4. \A f \in Engines : phase'[f] # "idle" => phase[f] # "idle"
    BY <1>3
  <1> QED
    BY <1>2, <1>3, <1>4, BufferPending DEF BufferInv

\* A gradient is added to the tensor's own.
LEMMA BufferCommits ==
  ASSUME BufferInv, NEW e \in Engines, Commit(e)
  PROVE  BufferInv'
  <1>1. PICK t \in Ids :
          /\ grad' = [grad EXCEPT ![t] = Accumulated(t, pending[e][t]).grad]
          /\ value' = Accumulated(t, pending[e][t]).value
          /\ pending' = [pending EXCEPT ![e][t] = 0]
    BY DEF Commit, Left
  <1>2. UNCHANGED <<built, parked, root, seed, calls, exact, block, wasOn, phase>>
    BY DEF Commit, graphVars, engineVars, collectVars, recomputeVars, ghostVars
  <1>3. pending[e][t] \in Buffers(Len(value)) /\ Len(value) \in Nat
    BY SeqLength DEF BufferInv
  <1>4. /\ IsSeq(value') /\ Len(value) <= Len(value')
        /\ Accumulated(t, pending[e][t]).grad \in Buffers(Len(value'))
    <2>1. CASE grad[t] = 0
      BY <1>1, <1>3, <2>1 DEF Accumulated, BufferInv
    <2>2. CASE grad[t] # 0
      <3>1. /\ value' = Append(value, value[grad[t]] + value[pending[e][t]])
            /\ Accumulated(t, pending[e][t]).grad = Len(value) + 1
        BY <1>1, <2>2 DEF Accumulated
      <3>2. IsSeq(value') /\ Len(value') = Len(value) + 1
        BY <3>1, AppendSeq DEF BufferInv
      <3> QED
        BY <1>3, <3>1, <3>2 DEF Buffers
    <2> QED
      BY <2>1, <2>2
  <1>5. 0 \in Buffers(Len(value'))
    BY <1>4, SeqLength DEF Buffers
  <1>6. grad' \in [Ids -> Buffers(Len(value'))]
    BY <1>1, <1>4, BuffersKept
  <1>7. pending' \in [Engines -> [Ids -> Buffers(Len(value'))]]
    BY <1>1, <1>4, <1>5, BuffersKept
  <1> QED
    BY <1>2, <1>4, <1>6, <1>7, BuffersKept DEF BufferInv

\* Engines that are gone have no gradients left.
LEMMA BufferGone ==
  ASSUME BufferInv, NEW es \in SUBSET Engines, Gone(es), NEW n \in Nat,
         seed \in [Engines -> Buffers(n)] \/ es = Engines,
         pending \in [Engines -> [Ids -> Buffers(n)]] \/ es = Engines
  PROVE  /\ root' \in [Engines -> Ids \cup {0}]
         /\ \A e \in Engines : phase'[e] # "idle" => root'[e] \in Ids
         /\ seed' \in [Engines -> Buffers(n)]
         /\ pending' \in [Engines -> [Ids -> Buffers(n)]]
  <1>1. 0 \in Buffers(n)
    BY DEF Buffers
  <1>2. None \in [Ids -> Buffers(n)]
    BY <1>1 DEF None
  <1>3. /\ root' = [e \in Engines |-> IF e \in es THEN 0 ELSE root[e]]
        /\ seed' = [e \in Engines |-> IF e \in es THEN 0 ELSE seed[e]]
        /\ pending' = [e \in Engines |-> IF e \in es THEN None ELSE pending[e]]
        /\ phase' = [e \in Engines |-> IF e \in es THEN "idle" ELSE phase[e]]
    BY DEF Gone
  <1>4. seed' \in [Engines -> Buffers(n)]
    BY <1>1, <1>3
  <1>5. pending' \in [Engines -> [Ids -> Buffers(n)]]
    BY <1>2, <1>3
  <1>6. root' \in [Engines -> Ids \cup {0}]
    BY <1>3 DEF BufferInv
  <1>7. \A e \in Engines : phase'[e] # "idle" => root'[e] \in Ids
    BY <1>3 DEF BufferInv
  <1> QED
    BY <1>4, <1>5, <1>6, <1>7

\* An engine returns.
LEMMA BufferReturns ==
  ASSUME BufferInv, NEW e \in Engines, Return(e)
  PROVE  BufferInv'
  <1>1. Gone({e}) /\ UNCHANGED <<built, value, grad, parked, calls, exact, block, wasOn>>
    BY DEF Return, graphVars, recomputeVars
  <1>2. Len(value) \in Nat
    BY SeqLength DEF BufferInv
  <1>3. /\ root' \in [Engines -> Ids \cup {0}]
        /\ \A f \in Engines : phase'[f] # "idle" => root'[f] \in Ids
        /\ seed' \in [Engines -> Buffers(Len(value))]
        /\ pending' \in [Engines -> [Ids -> Buffers(Len(value))]]
    BY <1>1, <1>2, BufferGone DEF BufferInv
  <1> QED
    BY <1>1, <1>3 DEF BufferInv

\* The gradient of a block's output is parked.
LEMMA BufferParks ==
  ASSUME BufferInv, AllInv, AllInv', VisitBlock
  PROVE  BufferInv'
  <1>1. Visiting(1)
    BY DEF VisitBlock
  <1>2. Current(1) \in Ids
    BY <1>1, CurrentThere DEF AllInv, Engines
  <1> PICK n : n = tensor[Current(1)].fn
    OBVIOUS
  <1> PICK b : b = pending[1][Current(1)]
    OBVIOUS
  <1> PICK B : B = Buffers(Len(value))
    OBVIOUS
  <1>3. b \in B
    BY <1>2 DEF BufferInv, Engines
  <1>4. parked' = [parked EXCEPT ![Block(n)][Part(n)] = b]
    BY DEF VisitBlock
  <1>5. Part(n) \in {1, 2} /\ parked \in [Ids -> B \X B]
    BY DEF Part, BufferInv
  <1>6. \A pair \in B \X B : [pair EXCEPT ![Part(n)] = b] \in B \X B
    <2> SUFFICES ASSUME NEW pair \in B \X B PROVE [pair EXCEPT ![Part(n)] = b] \in B \X B
      OBVIOUS
    <2>1. PICK x \in B, y \in B : pair = <<x, y>>
      OBVIOUS
    <2>2. CASE Part(n) = 1
      BY <2>1, <2>2, <1>3
    <2>3. CASE Part(n) = 2
      BY <2>1, <2>3, <1>3
    <2> QED
      BY <1>5, <2>2, <2>3
  <1>7. parked' \in [Ids -> B \X B]
    BY <1>4, <1>5, <1>6
  <1>8. UNCHANGED <<built, value, grad, root, seed, pending, calls, exact, wasOn, phase>>
    BY <1>1 DEF VisitBlock, Visiting, graphVars, collectVars
  <1>9. block' \in Ids \cup {0}
    <2>1. CASE step' = "idle"
      <3>1. block' = block
        BY <2>1 DEF VisitBlock
      <3> QED
        BY <3>1 DEF BufferInv
    <2>2. CASE step' # "idle"
      BY <2>2 DEF AllInv, BlockInv, BlockThere
    <2> QED
      BY <2>1, <2>2
  <1> QED
    BY <1>7, <1>8, <1>9 DEF BufferInv

\* The inputs' gradients go to the outer engine, and the recomputed tensors' are gone.
LEMMA BufferDispatch ==
  ASSUME BufferInv, AllInv, Dispatch
  PROVE  BufferInv'
  <1>1. step = "dispatch"
    BY DEF Dispatch, Recomputing
  <1>2. saved = 1 /\ block \in Ids /\ tensor[block].in \in Seq(Ids) /\ Len(tensor[block].in) = 2
    BY <1>1 DEF AllInv, ContextInv, BlockInv, BlockThere
  <1> PICK a : a = tensor[block].in[1]
    OBVIOUS
  <1> PICK c : c = tensor[block].in[2]
    OBVIOUS
  <1>3. a \in Ids /\ c \in Ids
    BY <1>2, ElementOfSeq
  <1>4. x1r \in Ids /\ x2r \in Ids
    BY IdsFacts
  <1> PICK r : r = Hand(Pending(1), a, x1r)
    OBVIOUS
  <1> PICK s : s = Hand(r, c, x2r)
    OBVIOUS
  <1>5. Good(Pending(1)) /\ Pending(1).value = value
    BY PendingGood DEF Engines
  <1>6. Follows(r, Pending(1))
    BY <1>3, <1>4, <1>5, HandGood DEF BufferInv
  <1>7. grad[x2r] \in Buffers(Len(r.value)) /\ Good(r)
    BY <1>4, <1>5, <1>6, BufferStays DEF BufferInv, Follows
  <1>8. Follows(s, r)
    BY <1>3, <1>7, HandGood
  <1>9. Follows(s, Pending(1))
    BY <1>5, <1>6, <1>8, FollowsTwice
  <1>10. /\ pending' = [pending EXCEPT ![1] = s.pending] /\ value' = s.value
         /\ grad' = [t \in Ids |-> IF t \in Temporaries THEN 0 ELSE grad[t]]
         /\ block' = 0 /\ wasOn' = TRUE
         /\ UNCHANGED <<built, parked, root, seed, calls, exact, phase>>
    BY <1>2 DEF Dispatch, graphVars, engineVars, collectVars, ghostVars
  <1>11. IsSeq(value') /\ Len(value) <= Len(value') /\ s.pending \in [Ids -> Buffers(Len(value'))]
    BY <1>5, <1>9, <1>10 DEF Follows, Good
  <1>12. 0 \in Buffers(Len(value'))
    BY <1>11, SeqLength DEF Buffers
  <1>13. grad' \in [Ids -> Buffers(Len(value'))]
    BY <1>10, <1>11, <1>12, BuffersKept
  <1>14. pending' \in [Engines -> [Ids -> Buffers(Len(value'))]]
    BY <1>10, <1>11, BuffersKept
  <1> QED
    BY <1>10, <1>11, <1>13, <1>14, BuffersKept DEF BufferInv

\* A failure: every gradient that is kept or parked is below the first buffer that is freed.
LEMMA BufferThrows ==
  ASSUME BufferInv, Throw
  PROVE  BufferInv'
  <1>1. /\ Gone(Engines) /\ block' = 0 /\ wasOn' = TRUE /\ Counted
        /\ grad' = [t \in Ids |-> IF t \in Temporaries THEN 0 ELSE grad[t]]
        /\ exact' \in BOOLEAN
        /\ value' = SubSeq(value, 1, LastUsed(grad'))
        /\ UNCHANGED <<built, parked>>
    BY DEF Throw, graphVars
  <1> PICK n : n = Len(value)
    OBVIOUS
  <1>2. n \in Nat /\ DOMAIN value = 1 .. n
    BY SeqLength DEF BufferInv
  <1> PICK g : g = grad'
    OBVIOUS
  <1>3. g \in [Ids -> 0 .. n]
    BY <1>1, <1>2 DEF BufferInv, Buffers
  <1>4. parked \in [Ids -> (0 .. n) \X (0 .. n)]
    BY DEF BufferInv, Buffers
  <1> DEFINE used == {g[t] : t \in Ids} \cup {parked[t][part] : t \in Ids, part \in {1, 2}}
  <1>5. used \subseteq 0 .. n /\ used # {}
    <2>1. 1 \in Ids
      BY IdsFacts
    <2>2. g[1] \in used
      BY <2>1
    <2>3. \A t \in Ids : g[t] \in 0 .. n
      BY <1>3
    <2>4. \A t \in Ids : \A part \in {1, 2} : parked[t][part] \in 0 .. n
      BY <1>4
    <2>5. ASSUME NEW b \in used PROVE b \in 0 .. n
      <3>1. CASE \E t \in Ids : b = g[t]
        BY <2>3, <3>1
      <3>2. CASE \E t \in Ids, part \in {1, 2} : b = parked[t][part]
        BY <2>4, <3>2
      <3> QED
        BY <3>1, <3>2
    <2> HIDE DEF used
    <2> QED
      BY <2>2, <2>5
  <1> PICK last : last = LastUsed(g)
    OBVIOUS
  <1>6. last \in used /\ \A c \in used : c <= last
    <2>1. last = CHOOSE b \in used : \A c \in used : c <= b
      BY DEF LastUsed
    <2> HIDE DEF used
    <2>2. \E b \in used : \A c \in used : c <= b
      BY <1>2, <1>5, Largest
    <2> QED
      BY <2>1, <2>2
  <1>7. last \in 0 .. n
    BY <1>5, <1>6
  <1>7a. \A c \in used : c \in 0 .. last
    <2> HIDE DEF used
    <2> SUFFICES ASSUME NEW c \in used PROVE c \in 0 .. last
      OBVIOUS
    <2>1. c \in 0 .. n /\ c <= last
      BY <1>5, <1>6
    <2> QED
      BY <1>2, <1>7, <2>1
  <1>8. IsSeq(value') /\ Len(value') = last
    <2>1. PICK S : value \in Seq(S)
      BY DEF BufferInv, IsSeq
    <2>2. \A i \in 1 .. last : value[i] \in S
      BY <1>2, <1>7, <2>1, ElementOfSeq
    <2>3. value' = SubSeq(value, 1, last)
      BY <1>1
    <2>4. /\ value' \in Seq(S)
          /\ Len(value') = IF 1 <= last THEN last - 1 + 1 ELSE 0
      BY <1>7, <2>2, <2>3, SubSeqProperties
    <2> QED
      BY <1>7, <2>4 DEF IsSeq
  <1>9. grad' \in [Ids -> Buffers(last)]
    <2>1. \A t \in Ids : g[t] \in used
      OBVIOUS
    <2>2. \A t \in Ids : g[t] \in 0 .. last
      <3> HIDE DEF used
      <3> QED
        BY <1>7a, <2>1
    <2> QED
      BY <1>3, <2>2 DEF Buffers
  <1>10. parked' \in [Ids -> Buffers(last) \X Buffers(last)]
    <2>1. \A t \in Ids : parked[t][1] \in used /\ parked[t][2] \in used
      OBVIOUS
    <2>2. \A t \in Ids : parked[t][1] \in 0 .. last /\ parked[t][2] \in 0 .. last
      <3> HIDE DEF used
      <3> QED
        BY <1>7a, <2>1
    <2>3. \A t \in Ids : parked[t] = <<parked[t][1], parked[t][2]>>
      BY <1>4
    <2>4. \A t \in Ids : parked[t] \in Buffers(last) \X Buffers(last)
      <3> SUFFICES ASSUME NEW t \in Ids PROVE parked[t] \in Buffers(last) \X Buffers(last)
        OBVIOUS
      <3> PICK x : x = parked[t][1]
        OBVIOUS
      <3> PICK y : y = parked[t][2]
        OBVIOUS
      <3>1. parked[t] = <<x, y>> /\ x \in Buffers(last) /\ y \in Buffers(last)
        BY <2>2, <2>3 DEF Buffers
      <3> QED
        BY <3>1
    <2> QED
      BY <1>1, <1>4, <2>4
  <1>11. calls' \in 0 .. MaxCalls
    BY <1>1, CountedCalls
  <1>12. /\ root' \in [Engines -> Ids \cup {0}]
         /\ \A e \in Engines : phase'[e] # "idle" => root'[e] \in Ids
         /\ seed' \in [Engines -> Buffers(last)]
         /\ pending' \in [Engines -> [Ids -> Buffers(last)]]
    <2>1. Engines \in SUBSET Engines /\ last \in Nat
      BY <1>2, <1>7
    <2> QED
      BY <1>1, <2>1, BufferGone
  <1> HIDE DEF used
  <1> QED
    BY <1>1, <1>8, <1>9, <1>10, <1>11, <1>12 DEF BufferInv

\* At first there are no buffers.
LEMMA BufferInit == Init => BufferInv
  <1> SUFFICES ASSUME Init PROVE BufferInv
    OBVIOUS
  <1>1. value = <<>> /\ Len(value) = 0 /\ value \in Seq({})
    BY DEF Init
  <1>2. 0 \in Buffers(Len(value))
    BY <1>1 DEF Buffers
  <1>3. None \in [Ids -> Buffers(Len(value))]
    BY <1>2 DEF None
  <1>4. parked \in [Ids -> Buffers(Len(value)) \X Buffers(Len(value))]
    BY <1>2 DEF Init
  <1> QED
    BY <1>1, <1>2, <1>3, <1>4, ConstantsAssumption DEF Init, BufferInv, IsSeq, Engines

\* Every step keeps the invariant, given those of Autograd_proofs.
LEMMA BufferStep ==
  ASSUME BufferInv, AllInv, AllInv', [Next]_vars
  PROVE  BufferInv'
  <1>1. ASSUME NEW e \in Engines, Run(e) PROVE BufferInv'
    <2>1. CASE CollectInput(e) \/ CollectDone(e)
      BY <2>1, BufferUntouched DEF CollectInput, CollectDone, CollectUnchanged, graphVars,
         recomputeVars, ghostVars, BufferInv
    <2>2. CASE VisitNothing(e)
      BY <2>2, BufferUntouched DEF VisitNothing, Visiting, graphVars, collectVars, recomputeVars,
         ghostVars, BufferInv
    <2>3. CASE EndVisits(e)
      <3>1. /\ phase' = [phase EXCEPT ![e] = "commit"] /\ phase[e] = "visit"
            /\ UNCHANGED <<built, value, grad, parked, root, seed, pending, block, wasOn, calls,
                           exact>>
        BY <2>3 DEF EndVisits, Runs, graphVars, collectVars, recomputeVars, ghostVars
      <3>2. \A f \in Engines : phase'[f] # "idle" => phase[f] # "idle"
        BY <3>1
      <3> QED
        BY <3>1, <3>2, BufferUntouched DEF BufferInv
    <2> QED
      BY <1>1, <2>1, <2>2, <2>3, BufferBegins, BufferVisits, BufferCommits, BufferReturns DEF Run
  <1>2. CASE Recompute
    <2>1. enabled \in BOOLEAN
      BY EnabledBoolean DEF AllInv
    <2>2. /\ UNCHANGED <<built, value, grad, parked, root, seed, pending, block, calls, exact,
                         phase>>
          /\ wasOn' = enabled
      BY <1>2 DEF Recompute, engineVars, collectVars, ghostVars
    <2> QED
      BY <2>1, <2>2, BufferUntouched DEF BufferInv
  <1>3. CASE \E t \in {u \in 1 .. created : HasNode(u)} : Backward(t)
    BY <1>3, BufferBackward
  <1>4. CASE UNCHANGED vars
    BY <1>4, BufferUntouched DEF vars, graphVars, runVars, engineVars, collectVars, recomputeVars,
       ghostVars, BufferInv
  <1> QED
    BY <1>1, <1>2, <1>3, <1>4, BufferBuild, BufferCallers, BufferParks, BufferNested,
       BufferDispatch, BufferThrows DEF Next

\* The active engine is one of the two, or none.
LEMMA ActiveType ==
  ASSUME ContextInv
  PROVE  active \in {0} \cup Engines
  <1>1. phase[1] \in Phases /\ phase[2] \in Phases
    BY DEF ContextInv, Engines
  <1>2. CASE level = 0 \/ phase[1] = "collect"
    BY <1>2 DEF ContextInv
  <1>3. CASE phase[1] \in {"visit", "commit"} /\ step \in {"idle", "forward"}
    BY <1>3 DEF ContextInv, Engines
  <1>4. CASE phase[1] \in {"visit", "commit"} /\ step \in {"y1", "y2", "dispatch"}
    BY <1>1, <1>4 DEF ContextInv, Phases, Engines
  <1> QED
    BY <1>1, <1>2, <1>3, <1>4 DEF ContextInv, Phases

\* The invariants give the types.
LEMMA TypeFollows ==
  ASSUME BufferInv, AllInv
  PROVE  TypeOK
  <1>1. created \in 2 .. MaxTensors /\ tensor \in [Ids -> TensorType]
    BY DEF AllInv, OrderInv, GraphInv
  <1>2. level \in {0} \cup Engines /\ active \in {0} \cup Engines
    BY ActiveType DEF AllInv, ContextInv, Engines
  <1>3. phase \in [Engines -> {"idle", "collect", "visit", "commit"}]
    BY DEF AllInv, ContextInv, Phases
  <1>4. ASSUME NEW e \in Engines
        PROVE  /\ root[e] \in Ids \cup {0}
               /\ seed[e] \in 0 .. Len(value)
               /\ stack[e] \in Seq(Ids) /\ topo[e] \in Seq(Ids)
               /\ visited[e] \subseteq Ids
               /\ next[e] \in [Ids -> Nat]
               /\ pending[e] \in [Ids -> 0 .. Len(value)]
               /\ pos[e] \in 0 .. Len(topo[e])
    <2>1. /\ stack[e] \in Seq(Ids) /\ topo[e] \in Seq(Ids) /\ visited[e] \subseteq Ids
          /\ next[e] \in [Ids -> Nat] /\ pos[e] \in Nat /\ pos[e] <= Len(topo[e])
      BY DEF AllInv, OrderInv, SearchType, EngineInv
    <2>2. pos[e] \in 0 .. Len(topo[e])
      BY <2>1
    <2>3. root[e] \in Ids \cup {0} /\ seed[e] \in 0 .. Len(value)
          /\ pending[e] \in [Ids -> 0 .. Len(value)]
      BY DEF BufferInv, Buffers
    <2> QED
      BY <2>1, <2>2, <2>3
  <1>5. step \in {"idle", "forward", "y1", "y2", "dispatch"}
    BY DEF AllInv, ContextInv
  <1>6. {enabled, outside, wasOn, exact} \subseteq BOOLEAN
    <2>1. enabled \in BOOLEAN
      BY EnabledBoolean DEF AllInv
    <2>2. outside \in BOOLEAN /\ wasOn \in BOOLEAN /\ exact \in BOOLEAN
      BY DEF AllInv, BufferInv
    <2> QED
      BY <2>1, <2>2
  <1>7. /\ built \in 0 .. MaxOps /\ block \in Ids \cup {0} /\ calls \in 0 .. MaxCalls
        /\ grad \in [Ids -> 0 .. Len(value)]
        /\ parked \in [Ids -> (0 .. Len(value)) \X (0 .. Len(value))]
    BY DEF BufferInv, Buffers
  <1> QED
    BY <1>1, <1>2, <1>3, <1>4, <1>5, <1>6, <1>7 DEF TypeOK

\* Whatever is built, differentiated, recomputed, scaled and dropped, and wherever a kernel of
\* the backward pass fails, every variable keeps its type: no gradient of a tensor, of an
\* engine or of a block names a buffer that is not there.
THEOREM TypesAlways == Spec => []TypeOK
  <1>1. BufferInv /\ AllInv /\ AllInv' /\ [Next]_vars => BufferInv'
    BY BufferStep
  <1>2. BufferInv /\ AllInv => TypeOK
    BY TypeFollows
  <1> QED
    BY <1>1, <1>2, BufferInit, AllAlways, PTL DEF Spec

=============================================================================
