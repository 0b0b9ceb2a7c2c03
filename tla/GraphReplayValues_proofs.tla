----------------------- MODULE GraphReplayValues_proofs -----------------------
(* What replay reads, what it leaves alone and what its results hold, for     *)
(* every graph, every plan, every reuse of slots and every choice of bindings *)
(* by callers without habits that replay does not support; two of the three   *)
(* properties survive some of the habits.                                     *)
EXTENDS GraphReplay_proofs, FiniteSetTheorems

\* The tensors a node's launches use.
Touched(node) == Elements(node.ins) \cup Elements(node.outs) \cup Elements(node.temps)

\* Views: root is the tensor whose buffer a tensor shares, and is no view itself.
RootInv ==
  /\ \A t \in Ids : root[root[t]] = root[t] /\ memOf[root[t]] = memOf[t]
  /\ \A t \in 1 .. created : memOf[t] # 0 /\ root[t] <= created
  /\ \A t \in Ids : t > created => root[t] = t
  /\ \A t \in Leaves : root[t] = t
  /\ 5 <= created

\* Tensors that hold a buffer do not share it, except views of one another; callers hold
\* their leaves, all but the input.
OwnInv ==
  /\ \A t, u \in Owners : memOf[t] = memOf[u] => root[t] = root[u]
  /\ Leaves \ {input} \subseteq live

\* The values of a tensor in the arena are elsewhere, but those of a leaf that its updates
\* put there are not when callers bind it first.
InPlace(t) == t \in arena => t \in Leaves /\ "update_unbound" \notin Habits

\* A buffer that is held, and that the replay does not use, holds its tensor's value.
KeptIn(c) == \A t \in Owners : root[t] = t /\ InPlace(t) => c[memOf[t]] = t

KeptInv == KeptIn(content)

\* The operations whose results are new tensors.
Fresh == {"map", "loss", "view"}

\* What capture records of an argument: the tensor, a position of the node (via) that shares
\* its buffer, and whether the launch writes it. Adam's leaves may go without a position.
ArgOK(node, arg) ==
  /\ arg.t \in Touched(node)
  /\ arg.via \in Touched(node) \cup {0}
  /\ node.op # "adam" => arg.via # 0 /\ root[arg.via] = root[arg.t]
  /\ node.op = "adam" => arg.t \in Elements(node.ins) /\ arg.via \in Elements(node.ins) \cup {0}
  /\ arg.writes => arg.t \in Produced(node) /\ root[arg.t] = arg.t

\* The launch writes the tensor.
Writes(launch, t) == \E arg \in launch : arg.writes /\ arg.t = t

\* A launch reads what the node takes or what an earlier launch of the node wrote, launches
\* cover every tensor of the node, no node takes a view of what it produces, and only
\* in-place operations write what they take.
NodeOK(node) ==
  /\ \A k \in DOMAIN node.launches : \A arg \in node.launches[k] :
       /\ ArgOK(node, arg)
       /\ arg.reads => arg.t \in Elements(node.ins)
                       \/ \E j \in 1 .. k - 1 : Writes(node.launches[j], arg.t)
  /\ node.op # "view" =>
       /\ \A t \in Touched(node) :
            \E k \in DOMAIN node.launches : \E arg \in node.launches[k] : arg.t = t
       /\ \A t \in Produced(node) : \E k \in DOMAIN node.launches : Writes(node.launches[k], t)
       /\ \A t \in Touched(node), u \in Produced(node) : root[t] = u => t = u
  /\ node.op = "view" => DOMAIN node.launches = {} /\ node.temps = <<>>
  /\ IF node.op \in Fresh
     THEN Produced(node) \cap (Elements(node.ins) \cup Leaves) = {}
     ELSE node.temps = <<>> /\ Elements(node.outs) \subseteq Elements(node.ins)
  /\ node.op \in {"adam_state", "adam"} => Elements(node.outs) \subseteq Leaves \ {input}
  /\ Touched(node) \subseteq 1 .. created

\* A tensor is produced by one node before later nodes take it; temporaries stay within
\* theirs, which is why callers never hold them; views are outputs of nodes.
GraphInv ==
  /\ \A i \in DOMAIN nodes : NodeOK(nodes[i])
  /\ \A i, j \in DOMAIN nodes : i < j /\ nodes[j].op \in Fresh =>
       Produced(nodes[j]) \cap Touched(nodes[i]) = {}
  /\ \A t \in Temporaries : t \notin live /\ t \notin Outputs /\ \A u \in Ids : root[u] = t => u = t
  /\ \A t \in Ids : root[t] # t => t \in Outputs
  /\ registered \cap Leaves \subseteq {input}
  /\ phase = "capture" => (1 .. created) \ Leaves \subseteq registered

\* Nothing is scanned, placed in the arena or bound before its time, and an execution begins
\* only from what replay supports.
PhaseInv ==
  /\ phase = "capture" => scan = 0
  /\ phase \in {"place", "ready"} => scan = Len(nodes)
  /\ phase # "ready" => arena = {} /\ \A t \in Ids : bound[t] = 0
  /\ pc # Idle => Supported

\* A lifetime begins where its tensor is produced and covers every node that takes the tensor
\* or a view of it.
LifeInv ==
  /\ \A t \in Ids : first[t] # 0 =>
       /\ first[t] \in 1 .. scan /\ nodes[first[t]].op # "view"
       /\ t \in Produced(nodes[first[t]]) /\ t \in registered
  /\ \A n \in 1 .. scan : \A t \in Produced(nodes[n]) :
       nodes[n].op # "view" /\ t \in registered => first[t] # 0 /\ first[t] <= n
  /\ \A n \in 1 .. scan : \A u \in Elements(nodes[n].ins) :
       first[root[u]] # 0 /\ first[root[u]] < n => n <= last[root[u]]

\* Callers bind tensors of their own, which the graph does not know.
BoundInv ==
  \A t \in Ids : bound[t] # 0 =>
    /\ bound[t] <= created /\ root[bound[t]] = bound[t]
    /\ bound[t] \notin Inputs \cup Outputs \cup Temporaries \cup Leaves

\* A tensor in the arena has a slot, and its value is of no use after the replay.
ArenaInv == \A t \in arena : slotOf[t] # 0 /\ (t \in Temporaries \/ root[t] \notin FinalRoots)

\* The replay under way has written the tensor.
Born(t) ==
  \/ first[t] < pc.node
  \/ first[t] = pc.node /\ \E j \in 1 .. pc.launch - 1 :
       j \in DOMAIN nodes[pc.node].launches /\ Writes(nodes[pc.node].launches[j], t)

\* During its lifetime, once it is written, a tensor in the arena has its slot to itself.
SlotInv ==
  pc # Idle => \A t \in arena \ Leaves :
    bound[t] = 0 /\ Born(t) /\ pc.node <= last[t] => content[Slot(slotOf[t])] = t

\* The invariant, with SlotCount below, behind the three theorems.
ValueInv ==
  /\ TypeInv /\ RootInv /\ OwnInv /\ KeptInv /\ GraphInv
  /\ PhaseInv /\ LifeInv /\ BoundInv /\ ArenaInv /\ SlotInv

-----------------------------------------------------------------------------
(* Where a replayed launch finds a tensor.                                 *)

\* The tensor that stands for a tensor of the graph that is no view, and its location.
Value(r) == IF bound[r] # 0 THEN bound[r] ELSE r
Place(r) ==
  IF bound[r] # 0 THEN memOf[bound[r]] ELSE IF r \in arena THEN Slot(slotOf[r]) ELSE memOf[r]

\* Tensors have positive ids.
LEMMA IdFacts == TypeInv => /\ 1 .. created \subseteq Ids
                            /\ \A t \in Ids : t \in Nat /\ t # 0
                            /\ created \in Nat /\ Leaves \subseteq Ids
  BY ConstantsAssumption DEF TypeInv, TypeParts, TensorType, Leaves, Ids

\* The arguments of a node's launches are arguments of the graph.
LEMMA ArgsOf ==
  ASSUME NEW i \in DOMAIN nodes, NEW k \in DOMAIN nodes[i].launches,
         NEW arg \in nodes[i].launches[k]
  PROVE  arg \in Args
  BY DEF Args, Elements

\* And there are no others.
LEMMA ArgsAre ==
  ASSUME NEW arg \in Args
  PROVE  \E i \in DOMAIN nodes : \E k \in DOMAIN nodes[i].launches : arg \in nodes[i].launches[k]
  BY DEF Args, Elements

\* What a node touches, produces and takes.
LEMMA TouchedAre ==
  ASSUME ValueInv, NEW i \in DOMAIN nodes
  PROVE  /\ Touched(nodes[i]) \subseteq 1 .. created
         /\ Produced(nodes[i]) \subseteq Touched(nodes[i])
         /\ Elements(nodes[i].ins) \subseteq Touched(nodes[i])
         /\ Elements(nodes[i].ins) \subseteq Inputs
         /\ Elements(nodes[i].outs) \subseteq Outputs
         /\ Elements(nodes[i].temps) \subseteq Temporaries
         /\ Touched(nodes[i]) \subseteq Inputs \cup Outputs \cup Temporaries
  BY DEF ValueInv, GraphInv, NodeOK, Touched, Produced, Inputs, Outputs, Temporaries

\* Without views and Adam steps that are redirected, a launch finds every tensor at the place
\* of the tensor it is a view of.
LEMMA Located ==
  ASSUME ValueInv, Supported, Habits = {}, NEW arg \in Args
  PROVE  /\ arg.t \in Ids /\ root[arg.t] \in Ids
         /\ Meant(arg.t) = Value(root[arg.t])
         /\ Location(arg) = Place(root[arg.t])
         /\ root[arg.t] # arg.t => bound[root[arg.t]] = 0 /\ root[arg.t] \notin arena
         /\ root[arg.t] \in live \/ bound[root[arg.t]] # 0 \/ root[arg.t] \in arena
  <1>1. PICK i \in DOMAIN nodes : \E k \in DOMAIN nodes[i].launches : arg \in nodes[i].launches[k]
    BY ArgsAre
  <1>2. PICK k \in DOMAIN nodes[i].launches : arg \in nodes[i].launches[k]
    BY <1>1
  <1> DEFINE node == nodes[i]
             r == root[arg.t]
  <1>3. ArgOK(node, arg) /\ NodeOK(node)
    BY <1>2 DEF ValueInv, GraphInv, NodeOK
  <1>4. /\ arg.t \in Touched(node) /\ arg.via \in Touched(node) \cup {0}
        /\ Touched(node) \subseteq Ids
    BY <1>3, TouchedAre, IdFacts DEF ArgOK, ValueInv
  <1>5. /\ root \in [Ids -> Ids] /\ \A t \in Ids : root[root[t]] = root[t] /\ memOf[root[t]] = memOf[t]
        /\ \A t \in Ids : t # 0
    BY IdFacts DEF ValueInv, RootInv, TypeInv, TypeParts, TensorType
  <1>6. \A a \in Args : root[a.t] # a.t => ~Redirected(a.t) /\ ~Redirected(root[a.t])
    BY DEF Supported
  <1>7. \A t \in Ids : Redirected(t) <=> bound[t] # 0 \/ t \in arena
    BY <1>5 DEF Redirected
  <1>8. r # arg.t => bound[arg.t] = 0 /\ bound[r] = 0 /\ r \notin arena
    BY <1>4, <1>5, <1>6, <1>7
  <1>9. Meant(arg.t) = Value(r)
    BY <1>8 DEF Meant, Value
  <1>10. Redirected(arg.via) => arg.via = r
    <2> SUFFICES ASSUME Redirected(arg.via) PROVE arg.via = r
      OBVIOUS
    <2>1. arg.via # 0 /\ arg.via \in Touched(node)
      BY <1>4 DEF Redirected
    <2>2. node.op # "adam"
      BY <1>3, <2>1 DEF ArgOK, Supported
    <2>3. root[arg.via] = r
      BY <1>3, <2>2 DEF ArgOK
    <2>4. node.op # "view"
      BY <1>2, <1>3 DEF NodeOK
    <2>5. PICK j \in DOMAIN node.launches : \E a \in node.launches[j] : a.t = arg.via
      BY <1>3, <2>1, <2>4 DEF NodeOK
    <2>6. \E a \in Args : a.t = arg.via
      BY <2>5, ArgsOf
    <2> QED
      BY <1>6, <2>3, <2>6
  <1>11. ~Redirected(arg.via) => bound[r] = 0 /\ r \notin arena
    <2> SUFFICES ASSUME ~Redirected(arg.via), Redirected(r) PROVE FALSE
      BY <1>4, <1>5, <1>7
    <2>1. r = arg.t
      BY <1>4, <1>5, <1>7, <1>8
    <2>2. node.op # "adam"
      BY <1>3, <2>1 DEF ArgOK, Supported
    <2>3. arg.via # 0 /\ root[arg.via] = r /\ arg.via \in Touched(node)
      BY <1>3, <1>4, <2>2 DEF ArgOK
    <2>4. node.op # "view"
      BY <1>2, <1>3 DEF NodeOK
    <2>5. PICK j \in DOMAIN node.launches : \E a \in node.launches[j] : a.t = arg.via
      BY <1>3, <2>3, <2>4 DEF NodeOK
    <2>6. \E a \in Args : a.t = arg.via
      BY <2>5, ArgsOf
    <2> QED
      BY <1>6, <2>3, <2>6
  <1>12. Location(arg) = Place(r)
    BY <1>4, <1>5, <1>7, <1>10, <1>11 DEF Location, Place
  <1>13. r \in live \/ bound[r] # 0 \/ r \in arena
    BY <1>4, <1>5, <1>7, <1>10 DEF Supported
  <1> QED
    BY <1>4, <1>5, <1>8, <1>9, <1>12, <1>13

\* Nodes are a typed sequence.
LEMMA NodesTyped ==
  ASSUME ValueInv
  PROVE  /\ nodes \in Seq(NodeType) /\ DOMAIN nodes = 1 .. Len(nodes) /\ Len(nodes) \in Nat
         /\ \A i \in DOMAIN nodes : nodes[i] \in NodeType
  <1>1. nodes \in Seq(NodeType)
    BY DEF ValueInv, TypeInv, TypeParts, NodesType
  <1> QED
    BY <1>1, LenProperties, ElementOfSeq

\* Tensors in the arena are produced by the graph, with a lifetime that begins there.
LEMMA ArenaFacts ==
  ASSUME ValueInv, NEW t \in arena
  PROVE  /\ phase = "ready" /\ t \in Ids /\ t \in registered
         /\ slotOf[t] # 0 /\ first[t] \in DOMAIN nodes
         /\ nodes[first[t]].op # "view" /\ t \in Produced(nodes[first[t]])
         /\ NodeOK(nodes[first[t]]) /\ t \in Written
         /\ root[t] = t
  <1>1. phase = "ready" /\ scan = Len(nodes) /\ t \in Ids /\ slotOf[t] # 0
    BY DEF ValueInv, PhaseInv, ArenaInv, TypeInv, TypeParts, ExecType
  <1>2. first[t] # 0
    BY <1>1 DEF ValueInv, TypeInv, PlanInv, FreeAfter
  <1>3. DOMAIN nodes = 1 .. Len(nodes)
    BY LenProperties DEF ValueInv, TypeInv, TypeParts, NodesType
  <1>4. /\ first[t] \in DOMAIN nodes /\ nodes[first[t]].op # "view" /\ t \in registered
        /\ t \in Produced(nodes[first[t]])
    BY <1>1, <1>2, <1>3 DEF ValueInv, LifeInv
  <1>5. NodeOK(nodes[first[t]])
    BY <1>4 DEF ValueInv, GraphInv
  <1>6. PICK k \in DOMAIN nodes[first[t]].launches : Writes(nodes[first[t]].launches[k], t)
    BY <1>4, <1>5 DEF NodeOK
  <1>7. PICK arg \in nodes[first[t]].launches[k] : arg.writes /\ arg.t = t
    BY <1>6 DEF Writes
  <1>8. root[t] = t
    BY <1>4, <1>5, <1>7 DEF NodeOK, ArgOK
  <1>9. t \in Written
    <2>1. arg \in Args
      BY <1>4, <1>6, <1>7, ArgsOf
    <2>2. root[arg.t] = t
      BY <1>7, <1>8
    <2> QED
      BY <1>7, <2>1, <2>2 DEF Written
  <1> QED
    BY <1>1, <1>4, <1>5, <1>8, <1>9

\* A node that produces a tensor of the arena is within its lifetime.
LEMMA ProducedSpan ==
  ASSUME ValueInv, NEW t \in arena, NEW i \in DOMAIN nodes, t \in Produced(nodes[i]),
         nodes[i].op # "view"
  PROVE  first[t] <= i /\ i <= last[t]
  <1>1. /\ t \in Ids /\ t \in registered /\ first[t] \in DOMAIN nodes /\ root[t] = t
        /\ t \in Produced(nodes[first[t]]) /\ phase = "ready"
    BY ArenaFacts
  <1>2. scan = Len(nodes) /\ DOMAIN nodes = 1 .. Len(nodes) /\ Len(nodes) \in Nat
    BY <1>1, LenProperties DEF ValueInv, PhaseInv, TypeInv, TypeParts, NodesType
  <1>3. first[t] # 0 /\ first[t] <= i
    BY <1>1, <1>2 DEF ValueInv, LifeInv
  <1>4. CASE first[t] = i
    BY <1>1, <1>3, <1>4 DEF ValueInv, TypeInv, PlanInv, Lifetimes
  <1>5. CASE first[t] # i
    <2>1. first[t] < i
      BY <1>1, <1>2, <1>3, <1>5
    <2>2. t \in Touched(nodes[first[t]])
      BY <1>1, TouchedAre
    <2>3. nodes[i].op \notin Fresh
      BY <1>1, <2>1, <2>2 DEF ValueInv, GraphInv
    <2>4. nodes[i].temps = <<>> /\ Elements(nodes[i].outs) \subseteq Elements(nodes[i].ins)
      BY <2>3 DEF ValueInv, GraphInv, NodeOK
    <2>5. t \in Elements(nodes[i].ins)
      BY <2>4 DEF Produced, Elements
    <2> QED
      BY <1>1, <1>2, <1>3, <2>1, <2>5 DEF ValueInv, LifeInv
  <1> QED
    BY <1>4, <1>5

\* While a replay is under way, tensors made before the capture that are in the arena, which
\* their updates put there, are bound.
LEMMA LeafBound ==
  ASSUME ValueInv, Supported, "update_unbound" \notin Habits, NEW t \in arena \cap Leaves
  PROVE  bound[t] # 0
  <1> DEFINE i == first[t]
             node == nodes[i]
  <1>1. i \in DOMAIN nodes /\ node.op # "view" /\ t \in Produced(node) /\ NodeOK(node)
        /\ t \in registered /\ t \in Ids
    BY ArenaFacts
  <1>2. t = input
    BY <1>1 DEF ValueInv, GraphInv
  <1>3. node.op \in Operations
    BY <1>1, NodesTyped DEF NodeType
  <1>4. node.op \notin Fresh
    BY <1>1 DEF NodeOK
  <1>5. t \in Elements(node.outs)
    BY <1>1, <1>4 DEF NodeOK, Produced, Elements
  <1>6. node.op = "update"
    BY <1>1, <1>2, <1>3, <1>4, <1>5 DEF NodeOK, Operations, Fresh
  <1>7. first[t] < i \/ bound[t] # 0
    BY <1>1, <1>5, <1>6 DEF Supported
  <1>8. first[t] \in Nat
    BY <1>1 DEF ValueInv, TypeInv, PlanInv, PlanType
  <1> QED
    BY <1>7, <1>8

\* What is bound is not in the arena, and owned.
LEMMA BoundFacts ==
  ASSUME ValueInv, NEW t \in Ids, bound[t] # 0
  PROVE  /\ bound[t] \in Owners /\ bound[t] \notin arena /\ root[bound[t]] = bound[t]
         /\ bound[t] \in Ids /\ content[memOf[bound[t]]] = bound[t]
  <1>1. bound \in [Ids -> Ids \cup {0}] /\ DOMAIN bound = Ids
    BY DEF ValueInv, TypeInv, TypeParts, ExecType
  <1>2. bound[t] \in Owners
    BY <1>1 DEF Owners, Elements
  <1>3. bound[t] \notin arena
    <2> SUFFICES ASSUME bound[t] \in arena PROVE FALSE
      OBVIOUS
    <2>1. first[bound[t]] \in DOMAIN nodes /\ bound[t] \in Produced(nodes[first[bound[t]]])
      BY ArenaFacts
    <2>2. bound[t] \in Inputs \cup Outputs \cup Temporaries
      BY <2>1, TouchedAre
    <2> QED
      BY <2>2 DEF ValueInv, BoundInv
  <1>4. root[bound[t]] = bound[t]
    BY DEF ValueInv, BoundInv
  <1> QED
    BY <1>1, <1>2, <1>3, <1>4 DEF ValueInv, KeptInv, KeptIn, InPlace

\* While the executor runs, callers kept to what it supports, and it is at a node that exists.
LEMMA RunningSupported == ValueInv /\ Running =>
    /\ Supported /\ phase = "ready" /\ scan = Len(nodes)
    /\ pc.node \in DOMAIN nodes /\ pc.node \in Nat /\ pc.launch \in Nat /\ pc.launch > 0
    /\ nodes[pc.node].launches \in Seq(SUBSET ArgType)
    /\ DOMAIN nodes[pc.node].launches = 1 .. Len(nodes[pc.node].launches)
  <1> SUFFICES ASSUME ValueInv, Running
               PROVE  /\ Supported /\ phase = "ready" /\ scan = Len(nodes)
                      /\ pc.node \in DOMAIN nodes
                      /\ pc.node \in Nat /\ pc.launch \in Nat /\ pc.launch > 0
                      /\ nodes[pc.node].launches \in Seq(SUBSET ArgType)
                      /\ DOMAIN nodes[pc.node].launches = 1 .. Len(nodes[pc.node].launches)
    OBVIOUS
  <1>1. Supported /\ phase = "ready" /\ scan = Len(nodes)
    BY DEF Running, ValueInv, PhaseInv
  <1>2. nodes \in Seq(NodeType) /\ DOMAIN nodes = 1 .. Len(nodes)
    BY LenProperties DEF ValueInv, TypeInv, TypeParts, NodesType
  <1>3. /\ pc.node \in DOMAIN nodes /\ pc.node \in Nat /\ pc.launch \in Nat /\ pc.launch > 0
    BY <1>2 DEF Running, ValueInv, TypeInv, TypeParts, PcType
  <1>4. nodes[pc.node] \in NodeType
    BY <1>2, <1>3, ElementOfSeq
  <1>5. nodes[pc.node].launches \in Seq(SUBSET ArgType)
    BY <1>4 DEF NodeType
  <1> QED
    BY <1>1, <1>3, <1>5, LenProperties

\* A launch reads from the arena only what the replay has written there before.
LEMMA ReadsBorn ==
  ASSUME ValueInv, Running, Habits = {}, NEW k \in DOMAIN nodes[pc.node].launches,
         k = pc.launch, NEW arg \in nodes[pc.node].launches[k], arg.reads,
         arg.t \in arena, bound[arg.t] = 0
  PROVE  arg.t \notin Leaves /\ Born(arg.t) /\ pc.node <= last[arg.t]
  <1> DEFINE t == arg.t
             n == pc.node
             m == first[t]
  <1>1. /\ Supported /\ n \in DOMAIN nodes /\ scan = Len(nodes) /\ n \in Nat /\ k \in Nat
        /\ DOMAIN nodes[n].launches = 1 .. Len(nodes[n].launches)
    BY RunningSupported
  <1>2. /\ t \in Ids /\ m \in DOMAIN nodes /\ nodes[m].op # "view" /\ NodeOK(nodes[m])
        /\ t \in Produced(nodes[m]) /\ root[t] = t
    BY ArenaFacts
  <1>3. t \notin Leaves
    BY <1>1, LeafBound
  <1>4. DOMAIN nodes = 1 .. Len(nodes) /\ Len(nodes) \in Nat /\ m \in Nat /\ m # 0
    BY <1>2, LenProperties DEF ValueInv, TypeInv, TypeParts, NodesType
  <1>5. NodeOK(nodes[n])
    BY <1>1 DEF ValueInv, GraphInv
  <1>6. CASE \E j \in 1 .. k - 1 : Writes(nodes[n].launches[j], t)
    <2>1. PICK j \in 1 .. k - 1 : Writes(nodes[n].launches[j], t)
      BY <1>6
    <2>2. j \in DOMAIN nodes[n].launches
      BY <1>1
    <2>3. PICK a \in nodes[n].launches[j] : a.writes /\ a.t = t
      BY <2>1 DEF Writes
    <2>4. t \in Produced(nodes[n])
      BY <1>5, <2>2, <2>3 DEF NodeOK, ArgOK
    <2>5. nodes[n].op # "view"
      BY <1>5, <2>2 DEF NodeOK
    <2>6. m <= n /\ n <= last[t]
      BY <1>1, <2>4, <2>5, ProducedSpan
    <2>7. Born(t)
      BY <1>1, <1>4, <2>1, <2>2, <2>6 DEF Born
    <2> QED
      BY <1>3, <2>6, <2>7
  <1>7. CASE t \in Elements(nodes[n].ins)
    <2>1. nodes[m].op \in Fresh
      <3> SUFFICES ASSUME nodes[m].op \notin Fresh PROVE FALSE
        OBVIOUS
      <3>1. t \in Elements(nodes[m].outs)
        BY <1>2 DEF NodeOK, Produced, Elements
      <3>2. nodes[m].op \in Operations
        BY <1>2, NodesTyped DEF NodeType
      <3>3. nodes[m].op = "update"
        BY <1>2, <1>3, <3>1, <3>2 DEF NodeOK, Operations, Fresh
      <3>4. first[t] < m \/ bound[t] # 0
        BY <1>1, <1>2, <3>1, <3>3 DEF Supported
      <3> QED
        BY <1>4, <3>4
    <2>2. t \in Touched(nodes[n])
      BY <1>7 DEF Touched
    <2>3. ~(n < m)
      BY <1>1, <1>2, <2>1, <2>2 DEF ValueInv, GraphInv
    <2>4. n # m
      BY <1>2, <1>7, <2>1 DEF NodeOK
    <2>5. m < n
      BY <1>1, <1>4, <2>3, <2>4
    <2>6. n <= last[t]
      BY <1>1, <1>2, <1>4, <1>7, <2>5 DEF ValueInv, LifeInv
    <2> QED
      BY <1>3, <2>5, <2>6 DEF Born
  <1> QED
    BY <1>5, <1>6, <1>7 DEF NodeOK

-----------------------------------------------------------------------------
(* The properties follow.                                                  *)

\* The three properties follow from the invariant.
LEMMA ReadsFollow == ASSUME ValueInv, Habits = {} PROVE ReadsRight
  <1> SUFFICES ASSUME Running, pc.launch <= Len(nodes[pc.node].launches),
                      NEW arg \in nodes[pc.node].launches[pc.launch], arg.reads
               PROVE  content[Location(arg)] = Meant(arg.t)
    BY DEF ReadsRight
  <1> DEFINE k == pc.launch
             r == root[arg.t]
  <1>1. /\ Supported /\ pc.node \in DOMAIN nodes /\ k \in DOMAIN nodes[pc.node].launches
    BY RunningSupported
  <1>2. arg \in Args
    BY <1>1, ArgsOf
  <1>3. /\ arg.t \in Ids /\ r \in Ids /\ Meant(arg.t) = Value(r) /\ Location(arg) = Place(r)
        /\ r # arg.t => bound[r] = 0 /\ r \notin arena
        /\ r \in live \/ bound[r] # 0 \/ r \in arena
    BY <1>1, <1>2, Located
  <1>4. CASE bound[r] # 0
    BY <1>3, <1>4, BoundFacts DEF Value, Place
  <1>5. CASE bound[r] = 0 /\ r \in arena
    <2>1. r = arg.t
      BY <1>3, <1>5
    <2>2. r \notin Leaves /\ Born(r) /\ pc.node <= last[r]
      BY <1>1, <1>5, <2>1, ReadsBorn
    <2>3. content[Slot(slotOf[r])] = r
      BY <1>5, <2>2 DEF ValueInv, SlotInv, Running
    <2> QED
      BY <1>3, <1>5, <2>3 DEF Value, Place
  <1>6. CASE bound[r] = 0 /\ r \notin arena
    <2>1. r \in Owners /\ root[r] = r
      BY <1>3, <1>6 DEF Owners, ValueInv, RootInv
    <2> QED
      BY <1>3, <1>6, <2>1 DEF Value, Place, ValueInv, KeptInv, KeptIn, InPlace
  <1> QED
    BY <1>4, <1>5, <1>6

LEMMA ForeignFollows == ASSUME ValueInv PROVE ForeignIntact
  <1> SUFFICES ASSUME NEW t \in live, t \notin Written, root[t] = t
               PROVE  content[memOf[t]] = t
    BY DEF ForeignIntact
  <1>1. t \notin arena
    BY ArenaFacts
  <1> QED
    BY <1>1 DEF ValueInv, KeptInv, KeptIn, InPlace, Owners

LEMMA ResultsFollow == ASSUME ValueInv, "update_unbound" \notin Habits PROVE ResultsFresh
  <1> SUFFICES ASSUME NEW t \in (Outputs \ Inputs) \cup (Written \cap Leaves), Meant(t) \in Owners
               PROVE  content[memOf[Meant(t)]] = Meant(t)
    BY DEF ResultsFresh
  <1>1. t \in Ids
    <2>1. CASE t \in Leaves
      BY <2>1, IdFacts DEF ValueInv
    <2>2. CASE t \in Outputs
      <3>1. PICK i \in DOMAIN nodes : t \in Elements(nodes[i].outs)
        BY <2>2 DEF Outputs
      <3> QED
        BY <3>1, TouchedAre, IdFacts DEF ValueInv, Touched
    <2> QED
      BY <2>1, <2>2
  <1>2. root[t] \in Ids /\ root[root[t]] = root[t]
    BY <1>1 DEF ValueInv, RootInv, TypeInv, TypeParts, TensorType
  <1>3. CASE bound[t] # 0
    BY <1>1, <1>3, BoundFacts DEF Meant
  <1>4. CASE bound[t] = 0 /\ bound[root[t]] # 0
    BY <1>2, <1>4, BoundFacts DEF Meant
  <1>5. CASE bound[t] = 0 /\ bound[root[t]] = 0
    <2>1. Meant(t) = root[t]
      BY <1>5 DEF Meant
    <2>2. CASE t \in Leaves
      BY <1>2, <2>1, <2>2 DEF ValueInv, RootInv, KeptInv, KeptIn, InPlace
    <2>3. CASE t \in Outputs \ Inputs
      <3>1. root[t] \in FinalRoots
        BY <2>3 DEF FinalRoots
      <3>2. root[t] \notin Temporaries
        BY <1>1, <2>3 DEF ValueInv, GraphInv
      <3>3. root[t] \notin arena
        BY <1>2, <3>1, <3>2 DEF ValueInv, ArenaInv
      <3> QED
        BY <1>2, <2>1, <3>3 DEF ValueInv, KeptInv, KeptIn, InPlace
    <2> QED
      BY <2>2, <2>3
  <1> QED
    BY <1>3, <1>4, <1>5

-----------------------------------------------------------------------------
(* Memory.                                                                 *)

\* The invariant holds of the leaves a caller begins with.
LEMMA InitValues == Init => ValueInv
  <1> SUFFICES ASSUME Init PROVE ValueInv
    OBVIOUS
  <1>1. TypeInv
    BY InitTypes
  <1>2. Leaves \subseteq Ids /\ Leaves \subseteq Locations /\ 0 \notin Leaves
    BY ConstantsAssumption DEF Leaves, Ids, Locations
  <1>3. Owners = Leaves
    <2>1. Elements(bound) \subseteq {0}
      BY DEF Init, Elements
    <2> QED
      BY <2>1 DEF Init, Owners
  <1>4. RootInv
    BY <1>2 DEF Init, RootInv, Leaves
  <1>5. OwnInv /\ KeptInv
    BY <1>2, <1>3 DEF Init, OwnInv, KeptInv, KeptIn, InPlace
  <1>6. DOMAIN nodes = {} /\ Temporaries = {} /\ Len(nodes) = 0
    BY DEF Init, Temporaries
  <1>7. GraphInv
    BY <1>2, <1>6 DEF Init, GraphInv, Leaves, input
  <1>8. PhaseInv /\ LifeInv /\ BoundInv /\ ArenaInv /\ SlotInv
    BY <1>6 DEF Init, PhaseInv, LifeInv, BoundInv, ArenaInv, SlotInv
  <1> QED
    BY <1>1, <1>4, <1>5, <1>7, <1>8 DEF ValueInv

\* Owners are tensors that exist, in buffers that are taken.
LEMMA OwnersTyped ==
  ASSUME ValueInv
  PROVE  /\ Owners \subseteq 1 .. created /\ Owners \subseteq Ids
         /\ \A t \in Owners : memOf[t] \in Mems /\ memOf[t] \in Taken
         /\ \A t \in Ids : memOf[t] \in Mems \cup {0}
         /\ Mems \subseteq Locations
         /\ content \in [Locations -> Ids \cup {0}] /\ memOf \in [Ids -> Mems \cup {0}]
  <1>1. Owners \subseteq 1 .. created
    <2> SUFFICES ASSUME NEW t \in Owners PROVE t \in 1 .. created
      OBVIOUS
    <2>1. CASE t \in live
      BY <2>1 DEF ValueInv, TypeInv, TypeParts, TensorType
    <2>2. CASE t \in Elements(bound) \ {0}
      <3>1. bound \in [Ids -> Ids \cup {0}]
        BY DEF ValueInv, TypeInv, TypeParts, ExecType
      <3>2. PICK u \in Ids : bound[u] = t /\ t # 0 /\ t \in Ids
        BY <2>2, <3>1 DEF Elements
      <3>3. t <= created
        BY <3>2 DEF ValueInv, BoundInv
      <3> QED
        BY <3>2, <3>3, IdFacts DEF ValueInv
    <2> QED
      BY <2>1, <2>2 DEF Owners
  <1>2. Owners \subseteq Ids
    BY <1>1, IdFacts DEF ValueInv
  <1>3. memOf \in [Ids -> Mems \cup {0}] /\ content \in [Locations -> Ids \cup {0}]
    BY DEF ValueInv, TypeInv, TypeParts, TensorType, ContentType
  <1>4. Mems \subseteq Locations
    BY ConstantsAssumption DEF Mems, Locations
  <1>5. \A t \in Owners : memOf[t] # 0
    BY <1>1 DEF ValueInv, RootInv
  <1> QED
    BY <1>1, <1>2, <1>3, <1>4, <1>5 DEF Taken

\* A buffer that is acquired belongs to no tensor that is held.
LEMMA AcquiredFree ==
  ASSUME NEW taken, NEW n, NEW m \in Acquire(taken, n)
  PROVE  m \in Mems \ taken
  BY DEF Acquire

\* Writing a tensor where it is disturbs no other.
LEMMA StoredKeeps ==
  ASSUME ValueInv, NEW c \in [Locations -> Ids \cup {0}], KeptIn(c), NEW d \in Owners, root[d] = d
  PROVE  KeptIn(Stored(c, memOf[d], d))
  <1> SUFFICES ASSUME NEW t \in Owners, root[t] = t, InPlace(t)
               PROVE  Stored(c, memOf[d], d)[memOf[t]] = t
    BY DEF KeptIn, InPlace
  <1>1. memOf[t] \in Locations /\ c[memOf[t]] = t
    BY OwnersTyped DEF KeptIn, InPlace
  <1>2. memOf[t] = memOf[d] => t = d
    BY DEF ValueInv, OwnInv
  <1> QED
    BY <1>1, <1>2 DEF Stored

\* New tensors are the start of their chains of views.
LEMMA RootGrows ==
  ASSUME ValueInv, created <= created', created' \in Nat, root' = root,
         \A t \in 1 .. created : memOf'[t] = memOf[t],
         \A t \in created + 1 .. created' : memOf'[t] # 0 /\ t \in Ids
  PROVE  RootInv'
  <1>1. /\ created \in Nat /\ root \in [Ids -> Ids]
        /\ \A t \in Ids : t \in Nat /\ t # 0
    BY IdFacts DEF ValueInv, TypeInv, TypeParts, TensorType
  <1>2. \A t \in Ids : root[t] \in Ids /\ root[t] \in Nat /\ root[t] # 0
    BY <1>1
  <1>3. ASSUME NEW t \in Ids
        PROVE  root[root[t]] = root[t] /\ memOf'[root[t]] = memOf'[t]
    <2>1. CASE t <= created
      <3>1. t \in 1 .. created
        BY <1>1, <2>1
      <3>2. root[t] \in 1 .. created
        BY <1>1, <1>2, <3>1 DEF ValueInv, RootInv
      <3> QED
        BY <3>1, <3>2 DEF ValueInv, RootInv
    <2>2. CASE t > created
      BY <2>2 DEF ValueInv, RootInv
    <2> QED
      BY <1>1, <2>1, <2>2
  <1>4. ASSUME NEW t \in 1 .. created' PROVE memOf'[t] # 0 /\ root[t] <= created'
    <2>1. CASE t <= created
      <3>1. t \in 1 .. created /\ t \in Ids
        BY <1>1, <2>1, IdFacts DEF ValueInv
      <3>2. memOf[t] # 0 /\ root[t] <= created /\ root[t] \in Nat
        BY <1>2, <3>1 DEF ValueInv, RootInv
      <3> QED
        BY <1>1, <3>1, <3>2
    <2>2. CASE t > created
      <3>1. t \in created + 1 .. created'
        BY <1>1, <2>2
      <3>2. root[t] = t
        BY <2>2, <3>1 DEF ValueInv, RootInv
      <3> QED
        BY <3>1, <3>2
    <2> QED
      BY <1>1, <2>1, <2>2
  <1>5. \A t \in Ids : t > created' => root[t] = t
    BY <1>1 DEF ValueInv, RootInv
  <1>6. (\A t \in Leaves : root[t] = t) /\ 5 <= created'
    BY <1>1 DEF ValueInv, RootInv
  <1> QED
    BY <1>3, <1>4, <1>5, <1>6 DEF RootInv

\* No tensor is a view of one made after it.
LEMMA RootsOld ==
  ASSUME ValueInv, NEW t \in 1 .. created, NEW u \in Ids, u > created
  PROVE  root[t] # u
  <1>1. created \in Nat /\ root[t] \in Ids /\ u \in Nat /\ root[t] \in Nat
    BY IdFacts DEF ValueInv, TypeInv, TypeParts, TensorType
  <1> QED
    BY <1>1 DEF ValueInv, RootInv

\* A new tensor in a buffer nobody owns.
LEMMA NewKept ==
  ASSUME ValueInv, NEW m \in Mems \ Taken, NEW out \in Ids, out = created + 1,
         Create(out, m), content' = Stored(content, m, out), live' = live \cup {out},
         UNCHANGED <<root, bound, arena>>
  PROVE  RootInv' /\ OwnInv' /\ KeptInv'
  <1>1. /\ Owners' = Owners \cup {out}
        /\ created' = out /\ memOf' = [memOf EXCEPT ![out] = m]
    BY DEF Owners, Create
  <1>2. /\ memOf \in [Ids -> Mems \cup {0}] /\ root \in [Ids -> Ids] /\ created \in Nat /\ 0 \notin Mems
        /\ \A t \in Ids : t \in Nat /\ t # 0
    BY IdFacts DEF ValueInv, TypeInv, TypeParts, TensorType, Mems
  <1>3. \A t \in 1 .. created : t # out /\ t \in Ids
    BY <1>2, IdFacts DEF ValueInv
  <1>4. root[out] = out /\ root' = root
    BY <1>2 DEF ValueInv, RootInv
  <1>6. RootInv'
    <2>1. \A t \in 1 .. created : memOf'[t] = memOf[t]
      BY <1>1, <1>2, <1>3
    <2>2. \A t \in created + 1 .. created' : t = out
      BY <1>1, <1>2
    <2>3. memOf'[out] # 0
      BY <1>1, <1>2
    <2> QED
      BY <1>1, <1>2, <1>4, <2>1, <2>2, <2>3, RootGrows
  <1>7. \A t \in Owners : memOf'[t] = memOf[t] /\ memOf[t] # m /\ memOf[t] \in Locations /\ t # out
    BY <1>1, <1>2, <1>3, OwnersTyped
  <1>8. memOf'[out] = m /\ m \in Locations
    BY <1>1, <1>2, OwnersTyped
  <1>9. OwnInv'
    BY <1>1, <1>4, <1>7, <1>8 DEF ValueInv, OwnInv
  <1>10. KeptInv'
    <2> SUFFICES ASSUME NEW t \in Owners', root[t] = t, InPlace(t)
                 PROVE  content'[memOf'[t]] = t
      BY <1>4 DEF KeptInv, KeptIn, InPlace
    <2>1. CASE t = out
      BY <1>8, <2>1 DEF Stored
    <2>2. CASE t \in Owners
      BY <1>7, <2>2 DEF Stored, ValueInv, KeptInv, KeptIn, InPlace
    <2> QED
      BY <1>1, <2>1, <2>2
  <1> QED
    BY <1>6, <1>9, <1>10

-----------------------------------------------------------------------------
(* Nodes.                                                                  *)

\* What capturing leaves alone.
LEMMA CaptureIdle ==
  ASSUME ValueInv, phase = "capture", phase' = "capture", UNCHANGED <<planVars, execVars>>
  PROVE  PhaseInv' /\ LifeInv' /\ BoundInv' /\ ArenaInv' /\ SlotInv'
  <1>1. /\ scan = 0 /\ arena = {} /\ \A t \in Ids : bound[t] = 0
    BY DEF ValueInv, PhaseInv
  <1>2. pc = Idle
    BY DEF ValueInv, TypeInv, TypeParts, PcType
  <1>3. \A t \in Ids : first[t] = 0
    BY <1>1 DEF ValueInv, LifeInv
  <1> QED
    BY <1>1, <1>2, <1>3
    DEF planVars, execVars, PhaseInv, LifeInv, BoundInv, ArenaInv, SlotInv

\* A node stays right when tensors are added.
LEMMA NodeKept ==
  ASSUME NEW node, NodeOK(node), created \in Nat, created' \in Nat, created <= created',
         \A t \in 1 .. created : root'[t] = root[t]
  PROVE  NodeOK(node)'
  <1>1. 1 .. created \subseteq 1 .. created' /\ 0 \notin 1 .. created
    OBVIOUS
  <1>2. Touched(node) \subseteq 1 .. created
    BY DEF NodeOK
  <1>3. ASSUME NEW k \in DOMAIN node.launches, NEW arg \in node.launches[k]
        PROVE  ArgOK(node, arg)'
    <2>1. ArgOK(node, arg)
      BY DEF NodeOK
    <2>2. arg.t \in 1 .. created /\ (arg.via \in 1 .. created \/ arg.via = 0)
      BY <1>2, <2>1 DEF ArgOK
    <2>3. root'[arg.t] = root[arg.t] /\ (arg.via # 0 => root'[arg.via] = root[arg.via])
      BY <2>2
    <2> QED
      BY <2>1, <2>3 DEF ArgOK
  <1>4. \A t \in Touched(node), u \in Produced(node) : root[t] = u <=> root'[t] = u
    BY <1>2
  <1> QED
    BY <1>1, <1>2, <1>3, <1>4 DEF NodeOK

\* Nodes are added for operations on tensors that are held and on new ones.
LEMMA GraphGrows ==
  ASSUME ValueInv, TypeInv', phase = "capture", NEW n, n = Len(nodes), n <= Len(nodes'),
         \A i \in 1 .. n : nodes'[i] = nodes[i],
         created <= created', \A t \in 1 .. created : root'[t] = root[t],
         \A t \in Ids : t > created =>
           \/ root'[t] = t
           \/ t \in Outputs' /\ \E v \in live : root'[t] = root[v],
         live \subseteq live', \A t \in live' : t \in live \/ t > created,
         registered \subseteq registered', \A t \in created + 1 .. created' : t \in registered',
         \A t \in registered' : t \in registered \/ t > created,
         \A i \in n + 1 .. Len(nodes') :
           /\ NodeOK(nodes[i])'
           /\ nodes'[i].op \in Fresh =>
                i = n + 1 /\ \A t \in Produced(nodes'[i]) : t > created
           /\ \A t \in Elements(nodes'[i].temps) :
                t \notin live' /\ t \notin Elements(nodes'[i].outs)
           /\ Elements(nodes'[i].outs) \subseteq live'
  PROVE  GraphInv'
  <1>1. /\ nodes \in Seq(NodeType) /\ DOMAIN nodes = 1 .. n /\ n \in Nat
        /\ nodes' \in Seq(NodeType) /\ DOMAIN nodes' = 1 .. Len(nodes') /\ Len(nodes') \in Nat
    BY NodesTyped, LenProperties DEF TypeInv, TypeParts, NodesType
  <1>2. /\ created \in Nat /\ created' \in Nat /\ \A t \in Ids : t \in Nat /\ t # 0
        /\ 1 .. created \subseteq Ids /\ 5 <= created
        /\ 1 .. created' \subseteq Ids /\ live \subseteq 1 .. created
        /\ root \in [Ids -> Ids] /\ \A t \in 1 .. created : root[t] <= created
    <2>1. /\ 1 .. created \subseteq Ids /\ (\A t \in Ids : t \in Nat /\ t # 0) /\ created \in Nat
          /\ live \subseteq 1 .. created /\ root \in [Ids -> Ids]
      BY IdFacts DEF ValueInv, TypeInv, TypeParts, TensorType
    <2>2. created' \in Ids
      BY DEF TypeInv, TypeParts, TensorType
    <2>3. 1 .. created' \subseteq Ids /\ created' \in Nat
      BY <2>2, ConstantsAssumption DEF Ids
    <2>4. 5 <= created /\ \A t \in 1 .. created : root[t] <= created
      BY DEF ValueInv, RootInv
    <2> QED
      BY <2>1, <2>3, <2>4
  <1>3. \A i \in DOMAIN nodes : /\ nodes'[i] = nodes[i] /\ i \in DOMAIN nodes'
                               /\ NodeOK(nodes[i]) /\ Touched(nodes[i]) \subseteq 1 .. created
    <2> SUFFICES ASSUME NEW i \in DOMAIN nodes
                 PROVE  /\ nodes'[i] = nodes[i] /\ i \in DOMAIN nodes'
                        /\ NodeOK(nodes[i]) /\ Touched(nodes[i]) \subseteq 1 .. created
      OBVIOUS
    <2>1. nodes'[i] = nodes[i] /\ i \in DOMAIN nodes'
      BY <1>1
    <2>2. NodeOK(nodes[i])
      BY DEF ValueInv, GraphInv
    <2> QED
      BY <2>1, <2>2 DEF NodeOK
  <1>4. \A i \in DOMAIN nodes' : i \in DOMAIN nodes \/ i \in n + 1 .. Len(nodes')
    BY <1>1
  <1>5. ASSUME NEW i \in DOMAIN nodes' PROVE NodeOK(nodes[i])'
    <2>1. CASE i \in DOMAIN nodes
      <3>1. PICK node : node = nodes[i] /\ nodes'[i] = node
        BY <1>3, <2>1
      <3>2. NodeOK(node)
        BY <1>3, <2>1, <3>1
      <3>3. NodeOK(node)'
        BY <1>2, <3>2, NodeKept
      <3> QED
        BY <3>1, <3>3
    <2>2. CASE i \in n + 1 .. Len(nodes')
      BY <2>2
    <2> QED
      BY <1>4, <2>1, <2>2
  <1>6. ASSUME NEW i \in DOMAIN nodes', NEW j \in DOMAIN nodes', i < j, nodes'[j].op \in Fresh
        PROVE  Produced(nodes'[j]) \cap Touched(nodes'[i]) = {}
    <2>1. CASE j \in DOMAIN nodes
      <3>1. i \in DOMAIN nodes
        BY <1>1, <1>6, <2>1
      <3> QED
        BY <1>3, <1>6, <2>1, <3>1 DEF ValueInv, GraphInv
    <2>2. CASE j \in n + 1 .. Len(nodes')
      <3>1. j = n + 1 /\ \A t \in Produced(nodes'[j]) : t > created
        BY <1>6, <2>2
      <3>2. i \in DOMAIN nodes
        BY <1>1, <1>6, <3>1
      <3>3. \A t \in Touched(nodes'[i]) : t \in 1 .. created
        BY <1>3, <3>2
      <3> QED
        BY <1>2, <3>1, <3>3
    <2> QED
      BY <1>4, <2>1, <2>2
  <1>7. Outputs \subseteq Outputs' /\ Outputs \subseteq 1 .. created /\ Temporaries \subseteq 1 .. created
    <2>1. Outputs \subseteq Outputs'
      BY <1>3 DEF Outputs
    <2>2. Outputs \subseteq 1 .. created /\ Temporaries \subseteq 1 .. created
      BY <1>3 DEF Outputs, Temporaries, Touched
    <2> QED
      BY <2>1, <2>2
  <1>8. ASSUME NEW t \in Temporaries'
        PROVE  t \notin live' /\ t \notin Outputs' /\ \A u \in Ids : root'[u] = t => u = t
    <2>1. PICK i \in DOMAIN nodes' : t \in Elements(nodes'[i].temps)
      BY DEF Temporaries
    <2>2. CASE i \in DOMAIN nodes
      <3>1. t \in Temporaries
        BY <1>3, <2>1, <2>2 DEF Temporaries
      <3>2. t \notin live /\ t \notin Outputs /\ t \in 1 .. created
            /\ \A u \in Ids : root[u] = t => u = t
        BY <1>7, <3>1 DEF ValueInv, GraphInv
      <3>3. t \notin live'
        BY <1>2, <3>2
      <3>4. t \notin Outputs'
        <4> SUFFICES ASSUME NEW j \in DOMAIN nodes', t \in Elements(nodes'[j].outs) PROVE FALSE
          BY DEF Outputs
        <4>1. CASE j \in DOMAIN nodes
          BY <1>3, <3>2, <4>1 DEF Outputs
        <4>2. CASE j \in n + 1 .. Len(nodes')
          BY <3>3, <4>2
        <4> QED
          BY <1>4, <4>1, <4>2
      <3>5. ASSUME NEW u \in Ids, root'[u] = t PROVE u = t
        <4>1. CASE u <= created
          <5>1. u \in 1 .. created
            BY <1>2, <4>1
          <5> QED
            BY <3>2, <3>5, <5>1
        <4>2. CASE u > created
          <5>1. CASE root'[u] = u
            BY <3>5, <5>1
          <5>2. CASE \E v \in live : root'[u] = root[v]
            <6>1. PICK v \in live : root[v] = t
              BY <3>5, <5>2
            <6>2. v \in Ids
              BY <1>2 DEF ValueInv, TypeInv, TypeParts, TensorType
            <6> QED
              BY <3>2, <6>1, <6>2
          <5> QED
            BY <4>2, <5>1, <5>2
        <4> QED
          BY <1>2, <4>1, <4>2
      <3> QED
        BY <3>3, <3>4, <3>5
    <2>3. CASE i \in n + 1 .. Len(nodes')
      <3>1. /\ NodeOK(nodes[i])' /\ t \notin live' /\ t \notin Elements(nodes'[i].outs)
        BY <2>1, <2>3
      <3>2. nodes'[i].op \in Fresh
        BY <2>1, <3>1 DEF NodeOK, Elements
      <3>3. t > created /\ t \in Ids /\ i = n + 1
        <4>1. t \in Produced(nodes'[i])
          BY <2>1 DEF Produced
        <4>2. t \in 1 .. created'
          BY <2>1, <3>1 DEF NodeOK, Touched
        <4>3. 1 .. created' \subseteq Ids
          BY <1>2
        <4> QED
          BY <2>3, <3>2, <4>1, <4>2, <4>3
      <3>4. t \notin Outputs'
        <4> SUFFICES ASSUME NEW j \in DOMAIN nodes', t \in Elements(nodes'[j].outs) PROVE FALSE
          BY DEF Outputs
        <4>1. CASE j \in DOMAIN nodes
          <5>1. t \in 1 .. created
            BY <1>3, <1>7, <4>1 DEF Outputs
          <5> QED
            BY <1>2, <3>3, <5>1
        <4>2. CASE j \in n + 1 .. Len(nodes')
          BY <3>1, <4>2
        <4> QED
          BY <1>4, <4>1, <4>2
      <3>5. ASSUME NEW u \in Ids, root'[u] = t PROVE u = t
        <4>1. ASSUME NEW v \in 1 .. created PROVE root[v] # t
          <5>1. v \in Ids /\ root[v] <= created
            BY <1>2
          <5>2. root[v] \in Nat
            BY <1>2, <5>1
          <5> QED
            BY <1>2, <3>3, <5>1, <5>2
        <4>2. CASE u <= created
          <5>1. u \in 1 .. created
            BY <1>2, <4>2
          <5> QED
            BY <3>5, <4>1, <5>1
        <4>3. CASE u > created
          <5>1. CASE root'[u] = u
            BY <3>5, <5>1
          <5>2. CASE \E v \in live : root'[u] = root[v]
            <6>1. PICK v \in live : root[v] = t
              BY <3>5, <5>2
            <6> QED
              BY <1>2, <4>1, <6>1
          <5> QED
            BY <4>3, <5>1, <5>2
        <4> QED
          BY <1>2, <4>2, <4>3
      <3> QED
        BY <3>1, <3>4, <3>5
    <2> QED
      BY <1>4, <2>2, <2>3
  <1>9. ASSUME NEW t \in Ids, root'[t] # t PROVE t \in Outputs'
    <2>1. CASE t <= created
      <3>1. t \in 1 .. created
        BY <1>2, <2>1
      <3> QED
        BY <1>7, <1>9, <3>1 DEF ValueInv, GraphInv
    <2> QED
      BY <1>2, <1>9, <2>1
  <1>10. registered' \cap Leaves \subseteq {input}
    <2>1. \A t \in Leaves : ~(t > created)
      BY <1>2 DEF Leaves
    <2> QED
      BY <2>1 DEF ValueInv, GraphInv
  <1>11. (1 .. created') \ Leaves \subseteq registered'
    <2> SUFFICES ASSUME NEW t \in 1 .. created', t \notin Leaves PROVE t \in registered'
      OBVIOUS
    <2>1. t \in 1 .. created \/ t \in created + 1 .. created'
      BY <1>2
    <2> QED
      BY <2>1 DEF ValueInv, GraphInv
  <1> QED
    BY <1>5, <1>6, <1>8, <1>9, <1>10, <1>11 DEF GraphInv

\* map_kernel_buffer_args_to_tensors finds the first of the node's tensors that is registered
\* with the argument's buffer, if there is one.
LEMMA ViaFound ==
  ASSUME NEW ids \in Seq(Ids), Len(ids) <= 9, NEW arg, NEW i \in DOMAIN ids,
         ids[i] \in registered', memOf'[ids[i]] = memOf'[arg.t]
  PROVE  Via(arg, ids) \in Elements(ids) /\ memOf'[Via(arg, ids)] = memOf'[arg.t]
  <1> DEFINE hits == {j \in DOMAIN ids : ids[j] \in registered' /\ memOf'[ids[j]] = memOf'[arg.t]}
  <1>1. Len(ids) \in Nat /\ DOMAIN ids = 1 .. Len(ids)
    BY LenProperties
  <1>2. hits # {}
    OBVIOUS
  <1>3. hits \in SUBSET (1 .. 9)
    <2> SUFFICES ASSUME NEW j \in hits PROVE j \in 1 .. 9
      OBVIOUS
    <2>1. j \in 1 .. Len(ids)
      BY <1>1
    <2> HIDE DEF hits
    <2> QED
      BY <2>1, <1>1
  <1>4. \E j \in hits : \A k \in hits : j <= k
    BY <1>2, <1>3, Least
  <1>5. (CHOOSE j \in hits : \A k \in hits : j <= k) \in hits
    BY <1>4
  <1>6. PICK j \in hits : Via(arg, ids) = ids[j]
    BY <1>2, <1>5 DEF Via
  <1> QED
    BY <1>6 DEF Elements

\* That is the argument's tensor, or the same tensor seen through a view, when it is registered
\* or stands at its own position.
LEMMA ViaRight ==
  ASSUME NEW ids \in Seq(Ids), Len(ids) <= 9, NEW arg \in RawType,
         arg.t \in Elements(ids), arg.t \in registered' \/ (arg.at <= Len(ids) /\ ids[arg.at] = arg.t),
         \A u \in Elements(ids) : memOf'[u] = memOf'[arg.t] => root'[u] = root'[arg.t]
  PROVE  Via(arg, ids) \in Elements(ids) /\ root'[Via(arg, ids)] = root'[arg.t]
  <1> DEFINE hits == {i \in DOMAIN ids : ids[i] \in registered' /\ memOf'[ids[i]] = memOf'[arg.t]}
  <1>1. CASE hits # {}
    BY <1>1, ViaFound
  <1>2. CASE hits = {}
    <2>1. Len(ids) \in Nat /\ DOMAIN ids = 1 .. Len(ids)
      BY LenProperties
    <2>2. arg.t \notin registered'
      BY <1>2 DEF Elements
    <2>3. Via(arg, ids) = ids[arg.at] /\ arg.at \in DOMAIN ids
      BY <1>2, <2>1, <2>2 DEF Via, RawType
    <2> QED
      BY <2>2, <2>3 DEF Elements
  <1> QED
    BY <1>1, <1>2

\* In any case it is one of the node's tensors, or none.
LEMMA ViaSome ==
  ASSUME NEW ids \in Seq(Ids), Len(ids) <= 9, NEW arg \in RawType
  PROVE  Via(arg, ids) \in Elements(ids) \cup {0}
  <1> DEFINE hits == {i \in DOMAIN ids : ids[i] \in registered' /\ memOf'[ids[i]] = memOf'[arg.t]}
  <1>1. CASE hits # {}
    BY <1>1, ViaFound
  <1>2. CASE hits = {}
    <2>1. Len(ids) \in Nat /\ DOMAIN ids = 1 .. Len(ids)
      BY LenProperties
    <2> QED
      BY <1>2, <2>1 DEF Via, RawType, Elements
  <1> QED
    BY <1>1, <1>2

\* The tensors of a node, in the order in which the mapping meets them.
LEMMA IdsOf ==
  ASSUME NEW ins \in Seq(Ids), NEW outs \in Seq(Ids), NEW temps \in Seq(Ids),
         Len(ins) <= 5, Len(outs) <= 3, Len(temps) <= 1
  PROVE  /\ ins \o outs \o temps \in Seq(Ids) /\ Len(ins \o outs \o temps) <= 9
         /\ Elements(ins \o outs \o temps) = Elements(ins) \cup Elements(outs) \cup Elements(temps)
         /\ Len(ins) <= Len(ins \o outs \o temps)
         /\ \A i \in 1 .. Len(ins) : (ins \o outs \o temps)[i] = ins[i]
  <1> DEFINE two == ins \o outs
             ids == two \o temps
  <1>1. /\ Len(ins) \in Nat /\ Len(outs) \in Nat /\ Len(temps) \in Nat
        /\ DOMAIN ins = 1 .. Len(ins) /\ DOMAIN outs = 1 .. Len(outs)
        /\ DOMAIN temps = 1 .. Len(temps)
    BY LenProperties
  <1>2. /\ two \in Seq(Ids) /\ Len(two) = Len(ins) + Len(outs)
        /\ \A i \in 1 .. Len(two) : two[i] = IF i <= Len(ins) THEN ins[i] ELSE outs[i - Len(ins)]
    BY ConcatProperties
  <1>3. DOMAIN two = 1 .. Len(two)
    BY <1>2, LenProperties
  <1> HIDE DEF two
  <1>4. /\ ids \in Seq(Ids) /\ Len(ids) = Len(two) + Len(temps)
        /\ \A i \in 1 .. Len(ids) : ids[i] = IF i <= Len(two) THEN two[i] ELSE temps[i - Len(two)]
    BY <1>2, ConcatProperties
  <1>5. DOMAIN ids = 1 .. Len(ids)
    BY <1>4, LenProperties
  <1> HIDE DEF ids
  <1>6. Elements(two) = Elements(ins) \cup Elements(outs)
    <2>1. ASSUME NEW i \in 1 .. Len(two) PROVE two[i] \in Elements(ins) \cup Elements(outs)
      <3>1. CASE i <= Len(ins)
        BY <1>1, <1>2, <3>1 DEF Elements
      <3>2. CASE ~(i <= Len(ins))
        <4>1. i - Len(ins) \in 1 .. Len(outs) /\ two[i] = outs[i - Len(ins)]
          BY <1>1, <1>2, <3>2
        <4> QED
          BY <1>1, <4>1 DEF Elements
      <3> QED
        BY <3>1, <3>2
    <2>2. ASSUME NEW i \in 1 .. Len(ins) PROVE ins[i] \in Elements(two)
      <3>1. i \in 1 .. Len(two) /\ two[i] = ins[i]
        BY <1>1, <1>2
      <3> QED
        BY <1>3, <3>1 DEF Elements
    <2>3. ASSUME NEW i \in 1 .. Len(outs) PROVE outs[i] \in Elements(two)
      <3>1. i + Len(ins) \in 1 .. Len(two) /\ ~(i + Len(ins) <= Len(ins))
            /\ (i + Len(ins)) - Len(ins) = i
        BY <1>1, <1>2
      <3>2. two[i + Len(ins)] = outs[i]
        BY <1>2, <3>1
      <3> QED
        BY <1>3, <3>1, <3>2 DEF Elements
    <2> QED
      BY <1>1, <1>3, <2>1, <2>2, <2>3 DEF Elements
  <1>7. Elements(ids) = Elements(two) \cup Elements(temps)
    <2>1. ASSUME NEW i \in 1 .. Len(ids) PROVE ids[i] \in Elements(two) \cup Elements(temps)
      <3>1. CASE i <= Len(two)
        <4>1. i \in 1 .. Len(two) /\ ids[i] = two[i]
          BY <1>1, <1>2, <1>4, <3>1
        <4> QED
          BY <1>3, <4>1 DEF Elements
      <3>2. CASE ~(i <= Len(two))
        <4>1. i - Len(two) \in 1 .. Len(temps) /\ ids[i] = temps[i - Len(two)]
          BY <1>1, <1>2, <1>4, <3>2
        <4> QED
          BY <1>1, <4>1 DEF Elements
      <3> QED
        BY <3>1, <3>2
    <2>2. ASSUME NEW i \in 1 .. Len(two) PROVE two[i] \in Elements(ids)
      <3>1. i \in 1 .. Len(ids) /\ ids[i] = two[i]
        BY <1>1, <1>2, <1>4
      <3> QED
        BY <1>5, <3>1 DEF Elements
    <2>3. ASSUME NEW i \in 1 .. Len(temps) PROVE temps[i] \in Elements(ids)
      <3>1. i + Len(two) \in 1 .. Len(ids) /\ ~(i + Len(two) <= Len(two))
            /\ (i + Len(two)) - Len(two) = i
        BY <1>1, <1>2, <1>4
      <3>2. ids[i + Len(two)] = temps[i]
        BY <1>4, <3>1
      <3> QED
        BY <1>5, <3>1, <3>2 DEF Elements
    <2> QED
      BY <1>1, <1>3, <1>5, <2>1, <2>2, <2>3 DEF Elements
  <1>8. \A i \in 1 .. Len(ins) : ids[i] = ins[i]
    BY <1>1, <1>2, <1>4
  <1>9. ids = ins \o outs \o temps /\ Len(ids) <= 9 /\ Len(ins) <= Len(ids)
    BY <1>1, <1>2, <1>4 DEF ids, two
  <1> QED
    BY <1>4, <1>6, <1>7, <1>8, <1>9

\* Mapping the arguments of a launch keeps what they are.
LEMMA MappedAre ==
  ASSUME NEW launch \in SUBSET RawType, NEW ids
  PROVE  /\ \A arg \in Mapped(launch, ids) : \E a \in launch :
              arg.t = a.t /\ arg.via = Via(a, ids) /\ arg.reads = a.reads /\ arg.writes = a.writes
         /\ \A a \in launch : \E arg \in Mapped(launch, ids) :
              arg.t = a.t /\ arg.via = Via(a, ids) /\ arg.reads = a.reads /\ arg.writes = a.writes
  <1> DEFINE made(a) == [t |-> a.t, via |-> Via(a, ids), reads |-> a.reads, writes |-> a.writes]
  <1>1. \A a : /\ made(a).t = a.t /\ made(a).via = Via(a, ids)
               /\ made(a).reads = a.reads /\ made(a).writes = a.writes
    OBVIOUS
  <1>2. Mapped(launch, ids) = {made(a) : a \in launch}
    BY DEF Mapped
  <1> HIDE DEF made
  <1> QED
    BY <1>1, <1>2

\* A mapped argument is an argument of the launch.
LEMMA MappedFrom ==
  ASSUME NEW launch \in SUBSET RawType, NEW ids, NEW arg \in Mapped(launch, ids)
  PROVE  \E a \in launch : /\ arg.t = a.t /\ arg.via = Via(a, ids)
                           /\ arg.reads = a.reads /\ arg.writes = a.writes
  BY MappedAre

\* Mapping changes neither what a launch writes nor what it uses.
LEMMA MappedWrites ==
  ASSUME NEW launch \in SUBSET RawType, NEW ids, NEW t
  PROVE  /\ Writes(Mapped(launch, ids), t) <=> Writes(launch, t)
         /\ (\E arg \in Mapped(launch, ids) : arg.t = t) <=> \E a \in launch : a.t = t
  <1> DEFINE mapped == Mapped(launch, ids)
  <1>1. /\ \A arg \in mapped : \E a \in launch : arg.t = a.t /\ arg.writes = a.writes
        /\ \A a \in launch : \E arg \in mapped : arg.t = a.t /\ arg.writes = a.writes
    BY MappedAre
  <1> HIDE DEF mapped
  <1>2. Writes(mapped, t) <=> Writes(launch, t)
    BY <1>1 DEF Writes
  <1>3. (\E arg \in mapped : arg.t = t) <=> \E a \in launch : a.t = t
    BY <1>1
  <1> QED
    BY <1>2, <1>3 DEF mapped

\* What the operations other than Adam's give record_op: launches that use the node's own
\* tensors, at the place of its inputs or registered, which share memory only as views of
\* each other.
Recorded(op, ins, outs, temps, new, all, launches) ==
  /\ new = Elements(outs) \cup Elements(temps) /\ all = Elements(ins) \cup new
  /\ op # "view" /\ op # "adam"
  /\ Len(ins) <= 5 /\ Len(outs) <= 3 /\ Len(temps) <= 1
  /\ \A k \in DOMAIN launches : \A a \in launches[k] :
       /\ a.t \in all
       /\ a.t \in registered \/ (a.at <= Len(ins) /\ ins[a.at] = a.t)
       /\ a.writes => a.t \in new /\ root[a.t] = a.t
       /\ a.reads => a.t \in Elements(ins) \/ \E j \in 1 .. k - 1 : Writes(launches[j], a.t)
  /\ \A t \in all : \E k \in DOMAIN launches : \E a \in launches[k] : a.t = t
  /\ \A t \in new : \E k \in DOMAIN launches : Writes(launches[k], t)
  /\ \A t \in all, u \in new : root[t] = u => t = u
  /\ \A t, u \in all : memOf[t] = memOf[u] => root[t] = root[u]
  /\ all \subseteq 1 .. created
  /\ IF op \in Fresh THEN new \cap (Elements(ins) \cup Leaves) = {}
                     ELSE temps = <<>> /\ Elements(outs) \subseteq Elements(ins)
  /\ op = "adam_state" => Elements(outs) \subseteq Leaves \ {input}

\* A node is right when its launches, as recorded, use and write what they should.
LEMMA NodeRight ==
  ASSUME NEW op \in Operations,
         NEW ins \in Seq(Ids), NEW outs \in Seq(Ids), NEW temps \in Seq(Ids),
         NEW launches \in Seq(SUBSET RawType),
         NEW node, node = Node(op, ins, outs, temps, launches), NEW new, NEW all,
         Recorded(op, ins, outs, temps, new, all, launches)', \A t \in Ids : t # 0
  PROVE  NodeOK(node)'
  <1>0. /\ new = Elements(outs) \cup Elements(temps) /\ all = Elements(ins) \cup new
        /\ op # "view" /\ op # "adam"
        /\ Len(ins) <= 5 /\ Len(outs) <= 3 /\ Len(temps) <= 1
        /\ \A k \in DOMAIN launches : \A a \in launches[k] :
             /\ a.t \in all
             /\ a.t \in registered' \/ (a.at <= Len(ins) /\ ins[a.at] = a.t)
             /\ a.writes => a.t \in new /\ root'[a.t] = a.t
             /\ a.reads => a.t \in Elements(ins) \/ \E j \in 1 .. k - 1 : Writes(launches[j], a.t)
        /\ \A t \in all : \E k \in DOMAIN launches : \E a \in launches[k] : a.t = t
        /\ \A t \in new : \E k \in DOMAIN launches : Writes(launches[k], t)
        /\ \A t \in all, u \in new : root'[t] = u => t = u
        /\ \A t, u \in all : memOf'[t] = memOf'[u] => root'[t] = root'[u]
        /\ all \subseteq 1 .. created'
        /\ IF op \in Fresh THEN new \cap (Elements(ins) \cup Leaves) = {}
           ELSE temps = <<>> /\ Elements(outs) \subseteq Elements(ins)
        /\ op = "adam_state" => Elements(outs) \subseteq Leaves \ {input}
    BY DEF Recorded
  <1> DEFINE ids == ins \o outs \o temps
  <1>1. /\ ids \in Seq(Ids) /\ Len(ids) <= 9 /\ Elements(ids) = all /\ Len(ins) <= Len(ids)
        /\ \A i \in 1 .. Len(ins) : ids[i] = ins[i]
    BY <1>0, IdsOf
  <1>2. /\ node.op = op /\ node.ins = ins /\ node.outs = outs /\ node.temps = temps
        /\ DOMAIN node.launches = DOMAIN launches
        /\ \A k \in DOMAIN launches : node.launches[k] = Mapped(launches[k], ids)
    BY DEF Node
  <1> HIDE DEF ids
  <1>3. Touched(node) = all /\ Produced(node) = new
    BY <1>0, <1>2 DEF Touched, Produced
  <1>4. all \subseteq Ids
    <2>1. \A i \in DOMAIN ids : ids[i] \in Ids
      BY <1>1, LenProperties, ElementOfSeq
    <2> QED
      BY <1>1, <2>1 DEF Elements
  <1>5. Len(ins) \in Nat /\ Len(ids) \in Nat /\ DOMAIN launches = 1 .. Len(launches)
        /\ Len(launches) \in Nat
    BY <1>1, LenProperties
  <1>6. ASSUME NEW k \in DOMAIN launches
        PROVE  /\ launches[k] \in SUBSET RawType
               /\ \A t : Writes(node.launches[k], t) <=> Writes(launches[k], t)
    <2>1. launches[k] \in SUBSET RawType
      BY <1>5, ElementOfSeq
    <2>2. node.launches[k] = Mapped(launches[k], ids)
      BY <1>2
    <2>3. ASSUME NEW t PROVE Writes(node.launches[k], t) <=> Writes(launches[k], t)
      <3>1. Writes(Mapped(launches[k], ids), t) <=> Writes(launches[k], t)
        BY <2>1, MappedWrites
      <3> QED
        BY <2>2, <3>1
    <2> QED
      BY <2>1, <2>3
  <1>7. ASSUME NEW k \in DOMAIN launches, NEW arg \in node.launches[k]
        PROVE  /\ ArgOK(node, arg)'
               /\ arg.reads => arg.t \in Elements(ins)
                               \/ \E j \in 1 .. k - 1 : Writes(node.launches[j], arg.t)
    <2>1. PICK a \in launches[k] : /\ arg.t = a.t /\ arg.via = Via(a, ids)
                                   /\ arg.reads = a.reads /\ arg.writes = a.writes
      <3>1. node.launches[k] = Mapped(launches[k], ids) /\ launches[k] \in SUBSET RawType
        BY <1>2, <1>6
      <3>2. arg \in Mapped(launches[k], ids)
        BY <3>1
      <3>3. launches[k] \in SUBSET RawType
        BY <3>1
      <3> QED
        BY <3>2, <3>3, MappedFrom
    <2>2. a \in RawType
      BY <1>6
    <2>3. a.at \in 1 .. Len(ins) => ids[a.at] = ins[a.at] /\ a.at <= Len(ids)
      BY <1>1, <1>5
    <2>4. a.t \in registered' \/ (a.at <= Len(ids) /\ ids[a.at] = a.t)
      BY <1>0, <1>5, <2>2, <2>3 DEF RawType
    <2>5. arg.via \in all /\ root'[arg.via] = root'[arg.t]
      <3>1. a.t \in all
        BY <1>0
      <3>2. \A u \in Elements(ids) : memOf'[u] = memOf'[a.t] => root'[u] = root'[a.t]
        BY <1>0, <1>1, <3>1
      <3>3. Via(a, ids) \in Elements(ids) /\ root'[Via(a, ids)] = root'[a.t]
        BY <1>1, <2>2, <2>4, <3>1, <3>2, ViaRight
      <3> QED
        BY <1>1, <2>1, <3>3
    <2>6. ArgOK(node, arg)'
      BY <1>0, <1>2, <1>3, <1>4, <2>1, <2>5 DEF ArgOK
    <2>7. arg.reads => arg.t \in Elements(ins)
                       \/ \E j \in 1 .. k - 1 : Writes(node.launches[j], arg.t)
      <3> SUFFICES ASSUME a.reads, a.t \notin Elements(ins)
                   PROVE  \E j \in 1 .. k - 1 : Writes(node.launches[j], a.t)
        BY <2>1
      <3>1. PICK j \in 1 .. k - 1 : Writes(launches[j], a.t)
        BY <1>0
      <3>2. j \in DOMAIN launches
        BY <1>5
      <3> QED
        BY <1>6, <3>1, <3>2
    <2> QED
      BY <2>6, <2>7
  <1>8. \A t \in all : \E k \in DOMAIN launches : \E arg \in node.launches[k] : arg.t = t
    <2> SUFFICES ASSUME NEW t \in all
                 PROVE  \E k \in DOMAIN launches : \E arg \in node.launches[k] : arg.t = t
      OBVIOUS
    <2>1. PICK k \in DOMAIN launches : \E a \in launches[k] : a.t = t
      BY <1>0
    <2> QED
      BY <1>2, <1>6, <2>1, MappedAre
  <1>9. \A t \in new : \E k \in DOMAIN launches : Writes(node.launches[k], t)
    BY <1>0, <1>6
  <1>10. ASSUME NEW k \in DOMAIN node.launches, NEW arg \in node.launches[k]
         PROVE  (/\ ArgOK(node, arg)
                 /\ arg.reads => arg.t \in Elements(node.ins)
                                 \/ \E j \in 1 .. k - 1 : Writes(node.launches[j], arg.t))'
    BY <1>2, <1>7
  <1>11. /\ node.op # "view"
         /\ \A t \in Touched(node) :
              \E k \in DOMAIN node.launches : \E arg \in node.launches[k] : arg.t = t
         /\ \A t \in Produced(node) : \E k \in DOMAIN node.launches : Writes(node.launches[k], t)
         /\ \A t \in Touched(node), u \in Produced(node) : root'[t] = u => t = u
    BY <1>0, <1>2, <1>3, <1>8, <1>9
  <1>12. IF node.op \in Fresh
         THEN Produced(node) \cap (Elements(node.ins) \cup Leaves) = {}
         ELSE node.temps = <<>> /\ Elements(node.outs) \subseteq Elements(node.ins)
    BY <1>0, <1>2, <1>3
  <1>13. /\ node.op \in {"adam_state", "adam"} => Elements(node.outs) \subseteq Leaves \ {input}
         /\ Touched(node) \subseteq 1 .. created'
    BY <1>0, <1>2, <1>3
  <1> QED
    BY <1>10, <1>11, <1>12, <1>13 DEF NodeOK

\* The graph stays right when a node is added to it.
LEMMA OneNode ==
  ASSUME ValueInv, TypeInv', phase = "capture",
         NEW node, nodes' = Append(nodes, node), NodeOK(node)',
         created <= created', \A t \in 1 .. created : root'[t] = root[t],
         \A t \in Ids : t > created =>
           \/ root'[t] = t
           \/ t \in Elements(node.outs) /\ \E v \in live : root'[t] = root[v],
         live \subseteq live', \A t \in live' : t \in live \/ t > created,
         registered' = registered \cup (created + 1 .. created'),
         node.op \in Fresh => \A t \in Produced(node) : t > created,
         \A t \in Elements(node.temps) : t \notin live' /\ t \notin Elements(node.outs),
         Elements(node.outs) \subseteq live'
  PROVE  GraphInv'
  <1> DEFINE n == Len(nodes)
  <1>1. /\ n \in Nat /\ Len(nodes') = n + 1 /\ nodes'[n + 1] = node
        /\ \A i \in 1 .. n : nodes'[i] = nodes[i]
        /\ DOMAIN nodes' = 1 .. n + 1
    <2>1. nodes \in Seq(NodeType)
      BY NodesTyped
    <2>2. /\ Len(nodes') = n + 1 /\ \A i \in 1 .. n : nodes'[i] = nodes[i]
          /\ nodes'[n + 1] = node
      BY <2>1, AppendProperties
    <2>3. nodes' \in Seq(NodeType)
      BY DEF TypeInv, TypeParts, NodesType
    <2> QED
      BY <2>1, <2>2, <2>3, LenProperties
  <1>2. \A i \in n + 1 .. Len(nodes') : i = n + 1 /\ nodes'[i] = node
    BY <1>1
  <1>3. Elements(node.outs) \subseteq Outputs'
    <2>1. n + 1 \in DOMAIN nodes'
      BY <1>1
    <2> QED
      BY <1>1, <2>1 DEF Outputs
  <1>4. created \in Nat /\ created' \in Nat
    <2>1. created \in Ids /\ created' \in Ids
      BY DEF ValueInv, TypeInv, TypeParts, TensorType
    <2> QED
      BY <2>1 DEF Ids
  <1>5. ASSUME NEW i \in n + 1 .. Len(nodes')
        PROVE  /\ NodeOK(nodes[i])'
               /\ nodes'[i].op \in Fresh =>
                    i = n + 1 /\ \A t \in Produced(nodes'[i]) : t > created
               /\ \A t \in Elements(nodes'[i].temps) :
                    t \notin live' /\ t \notin Elements(nodes'[i].outs)
               /\ Elements(nodes'[i].outs) \subseteq live'
    <2>1. i = n + 1 /\ nodes'[i] = node
      BY <1>2
    <2>2. NodeOK(nodes[i])'
      BY <2>1
    <2> QED
      BY <2>1, <2>2
  <1>6. /\ \A t \in created + 1 .. created' : t \in registered'
        /\ \A t \in registered' : t \in registered \/ t > created
        /\ registered \subseteq registered'
    BY <1>4
  <1>7. \A t \in Ids : t > created =>
           \/ root'[t] = t
           \/ t \in Outputs' /\ \E v \in live : root'[t] = root[v]
    BY <1>3
  <1> HIDE DEF n
  <1> QED
    BY <1>1, <1>5, <1>6, <1>7, GraphGrows DEF n

\* map: the value of a new tensor, from one or two that are held.
LEMMA MapValues ==
  ASSUME ValueInv, TypeInv', NEW ins \in Seq(Operands), Len(ins) <= 2, Map(ins)
  PROVE  ValueInv'
  <1> PICK out : out = created + 1
    OBVIOUS
  <1> DEFINE launch == {In(ins[i], i) : i \in DOMAIN ins} \cup {Out(out, Len(ins) + 1)}
  <1> PICK raw : raw = <<launch>>
    OBVIOUS
  <1>1. /\ phase = "capture" /\ phase' = "capture" /\ out \in Ids /\ root' = root
        /\ live' = live \cup {out} /\ UNCHANGED planVars /\ UNCHANGED execVars
        /\ nodes' = Append(nodes, Node("map", ins, <<out>>, <<>>, raw))
    BY DEF Map, Capturing, launch
  <1>2. PICK m \in Acquire(Taken, Bytes[out]) : Create(out, m) /\ content' = Stored(content, m, out)
    BY DEF Map
  <1>3. RootInv' /\ OwnInv' /\ KeptInv'
    BY <1>1, <1>2, AcquiredFree, NewKept DEF execVars
  <1>4. /\ created' = out /\ registered' = registered \cup {out}
        /\ created \in Nat /\ 5 <= created /\ live \subseteq 1 .. created /\ live \subseteq Ids
        /\ \A t \in Ids : t # 0 /\ t \in Nat
    BY <1>1, <1>2, IdFacts DEF Create, ValueInv, RootInv, TypeInv, TypeParts, TensorType
  <1>5. /\ DOMAIN ins = 1 .. Len(ins) /\ Len(ins) \in Nat
        /\ \A i \in DOMAIN ins : ins[i] \in live
        /\ ins \in Seq(Ids) /\ Elements(ins) \subseteq live
    <2>1. \A i \in DOMAIN ins : ins[i] \in Operands
      BY LenProperties, ElementOfSeq
    <2>2. Operands \subseteq live /\ Operands \subseteq Ids
      BY <1>4 DEF Operands
    <2>3. ins \in Seq(Ids)
      BY <2>2, SeqMonotonic
    <2> QED
      BY <2>1, <2>2, <2>3, LenProperties DEF Elements
  <1>6. /\ <<out>> \in Seq(Ids) /\ <<>> \in Seq(Ids) /\ Len(<<out>>) = 1 /\ Len(<<>>) = 0
        /\ Elements(<<out>>) = {out} /\ Elements(<<>>) = {}
    BY <1>1 DEF Elements
  <1>7. \A a \in launch : \/ a = Out(out, Len(ins) + 1)
                          \/ \E i \in DOMAIN ins : a = In(ins[i], i)
    OBVIOUS
  <1>8. /\ \A i \in DOMAIN ins : In(ins[i], i) \in launch
        /\ Out(out, Len(ins) + 1) \in launch
    OBVIOUS
  <1>9. launch \in SUBSET RawType
    <2>1. \A i \in DOMAIN ins : In(ins[i], i) \in RawType
      BY <1>4, <1>5 DEF In, Arg, RawType
    <2>2. Out(out, Len(ins) + 1) \in RawType
      BY <1>1, <1>5 DEF Out, Arg, RawType
    <2> QED
      BY <1>7, <2>1, <2>2
  <1>10. \A a \in launch : /\ a.t \in Elements(ins) \cup {out}
                           /\ a.t \in registered' \/ (a.at <= Len(ins) /\ ins[a.at] = a.t)
                           /\ a.writes => a.t \in {out} /\ root'[a.t] = a.t
                           /\ a.reads => a.t \in Elements(ins)
    <2> SUFFICES ASSUME NEW a \in launch
                 PROVE  /\ a.t \in Elements(ins) \cup {out}
                        /\ a.t \in registered' \/ (a.at <= Len(ins) /\ ins[a.at] = a.t)
                        /\ a.writes => a.t \in {out} /\ root'[a.t] = a.t
                        /\ a.reads => a.t \in Elements(ins)
      OBVIOUS
    <2>1. CASE a = Out(out, Len(ins) + 1)
      <3>1. root[out] = out
        BY <1>1, <1>4 DEF ValueInv, RootInv
      <3> QED
        BY <1>1, <1>4, <2>1, <3>1 DEF Out, Arg
    <2>2. CASE \E i \in DOMAIN ins : a = In(ins[i], i)
      <3>1. PICK i \in DOMAIN ins : a = In(ins[i], i)
        BY <2>2
      <3>2. a.t = ins[i] /\ a.at = i /\ ~a.writes
        BY <3>1 DEF In, Arg
      <3> QED
        BY <1>5, <3>2 DEF Elements
    <2> QED
      BY <1>7, <2>1, <2>2
  <1>11. /\ \A t \in Elements(ins) \cup {out} : \E a \in launch : a.t = t
         /\ Writes(launch, out)
    <2>1. \A t \in Elements(ins) : \E a \in launch : a.t = t
      <3> SUFFICES ASSUME NEW t \in Elements(ins) PROVE \E a \in launch : a.t = t
        OBVIOUS
      <3>1. PICK i \in DOMAIN ins : t = ins[i]
        BY DEF Elements
      <3>2. In(ins[i], i).t = t
        BY <3>1 DEF In, Arg
      <3> QED
        BY <1>8, <3>2
    <2>2. Out(out, Len(ins) + 1).t = out /\ Out(out, Len(ins) + 1).writes
      BY DEF Out, Arg
    <2> QED
      BY <1>8, <2>1, <2>2 DEF Writes
  <1> HIDE DEF launch
  <1>12. raw \in Seq(SUBSET RawType) /\ DOMAIN raw = {1} /\ raw[1] = launch
    BY <1>9
  <1>13. out \notin Elements(ins) /\ out \notin Leaves /\ out > created /\ created <= out
         /\ Elements(ins) \cup {out} \subseteq 1 .. created' /\ created + 1 .. created' = {out}
    <2>1. \A t \in Elements(ins) : t \in 1 .. created
      BY <1>4, <1>5
    <2>2. created + 1 .. created' = {created + 1}
      BY <1>4
    <2> QED
      BY <1>4, <2>1, <2>2 DEF Leaves
  <1>14. \A t, u \in Elements(ins) \cup {out} : memOf'[t] = memOf'[u] => root'[t] = root'[u]
    BY <1>1, <1>3, <1>5 DEF OwnInv, Owners
  <1>15. PICK node : node = Node("map", ins, <<out>>, <<>>, raw)
    OBVIOUS
  <1>16. NodeOK(node)'
    <2>1. "map" \in Operations /\ "map" \in Fresh
      BY DEF Operations, Fresh
    <2>2. {out} = Elements(<<out>>) \cup Elements(<<>>)
      BY <1>6
    <2>3. /\ Len(ins) <= 5 /\ Len(<<out>>) <= 3 /\ Len(<<>>) <= 1
      BY <1>5, <1>6
    <2>4. \A k \in DOMAIN raw : \A a \in raw[k] :
           /\ a.t \in Elements(ins) \cup {out}
           /\ a.t \in registered' \/ (a.at <= Len(ins) /\ ins[a.at] = a.t)
           /\ a.writes => a.t \in {out} /\ root'[a.t] = a.t
           /\ a.reads => a.t \in Elements(ins) \/ \E j \in 1 .. k - 1 : Writes(raw[j], a.t)
      BY <1>10, <1>12
    <2>5. /\ \A t \in Elements(ins) \cup {out} : \E k \in DOMAIN raw : \E a \in raw[k] : a.t = t
          /\ \A t \in {out} : \E k \in DOMAIN raw : Writes(raw[k], t)
      BY <1>11, <1>12
    <2>6. {out} \cap (Elements(ins) \cup Leaves) = {}
      BY <1>13
    <2>7. Recorded("map", ins, <<out>>, <<>>, {out}, Elements(ins) \cup {out}, raw)'
      <3>1. \A t \in Elements(ins) : root'[t] # out
        BY <1>1, <1>4, <1>5, <1>13, RootsOld
      <3>2. \A t \in Elements(ins) \cup {out}, u \in {out} : root'[t] = u => t = u
        BY <3>1
      <3> QED
        BY <1>13, <1>14, <2>1, <2>2, <2>3, <2>4, <2>5, <2>6, <3>2 DEF Recorded
    <2>8. PICK new : new = {out}
      OBVIOUS
    <2>9. PICK all : all = Elements(ins) \cup new
      OBVIOUS
    <2>10. Recorded("map", ins, <<out>>, <<>>, new, all, raw)'
      BY <2>7, <2>8, <2>9
    <2>11. /\ "map" \in Operations /\ ins \in Seq(Ids) /\ <<out>> \in Seq(Ids) /\ <<>> \in Seq(Ids)
           /\ raw \in Seq(SUBSET RawType) /\ \A t \in Ids : t # 0
      BY <1>4, <1>5, <1>6, <1>12, <2>1
    <2> QED
      BY <1>15, <2>10, <2>11, NodeRight
  <1>17. node.op = "map" /\ node.outs = <<out>> /\ node.temps = <<>> /\ nodes' = Append(nodes, node)
    BY <1>1, <1>15 DEF Node
  <1>18. /\ Produced(node) = {out} /\ Elements(node.temps) = {} /\ Elements(node.outs) = {out}
    BY <1>6, <1>17 DEF Produced
  <1>19. \A t \in Ids : t > created => root'[t] = t
    BY <1>1 DEF ValueInv, RootInv
  <1>20. GraphInv'
    <2>1. /\ \A t \in live' : t \in live \/ t > created
          /\ registered' = registered \cup (created + 1 .. created')
      BY <1>1, <1>4, <1>13
    <2> QED
      BY <1>1, <1>4, <1>13, <1>16, <1>17, <1>18, <1>19, <2>1, OneNode
  <1>21. PhaseInv' /\ LifeInv' /\ BoundInv' /\ ArenaInv' /\ SlotInv'
    BY <1>1, CaptureIdle
  <1> QED
    BY <1>3, <1>20, <1>21 DEF ValueInv
\* mse_loss: the same with a temporary tensor, which shares no buffer with what is held.
LEMMA LossMemory ==
  ASSUME ValueInv, TypeInv', NEW pred \in Operands, NEW target \in Operands, Loss(pred, target),
         NEW partial, partial = created + 1, NEW out, out = created + 2
  PROVE  /\ RootInv' /\ OwnInv' /\ KeptInv'
         /\ memOf'[partial] # memOf'[out]
         /\ \A t \in live : memOf'[t] # memOf'[partial]
  <1>1. /\ created \in Nat /\ partial \in Ids /\ out \in Ids /\ partial # out
        /\ \A t \in Ids : t \in Nat /\ t # 0
        /\ memOf \in [Ids -> Mems \cup {0}] /\ 0 \notin Mems
        /\ root' = root /\ live' = live \cup {out} /\ bound' = bound /\ arena' = arena
    <2>1. created \in Ids /\ out \in Ids
      BY DEF Loss, Capturing, ValueInv, TypeInv, TypeParts, TensorType
    <2>2. /\ partial \in Ids /\ partial # out /\ 0 \notin Mems /\ created \in Nat
          /\ \A t \in Ids : t \in Nat /\ t # 0
      BY <2>1, ConstantsAssumption DEF Ids, Mems
    <2>3. memOf \in [Ids -> Mems \cup {0}]
      BY DEF ValueInv, TypeInv, TypeParts, TensorType
    <2> QED
      BY <2>1, <2>2, <2>3 DEF Loss, execVars
  <1> DEFINE Made(p, m) ==
               /\ created' = out
               /\ memOf' = [memOf EXCEPT ![partial] = p, ![out] = m]
               /\ content' = Stored(Stored(content, p, partial), m, out)
  <1>2. PICK p \in Acquire(Taken, Bytes[partial]) : \E m \in Acquire(Taken \cup {p}, Bytes[out]) :
          Made(p, m)
    BY DEF Loss
  <1>3. PICK m \in Acquire(Taken \cup {p}, Bytes[out]) : Made(p, m)
    BY <1>2
  <1>4. /\ p \in Mems \ Taken /\ m \in Mems \ Taken /\ m # p
    BY <1>2, <1>3, AcquiredFree
  <1>5. /\ memOf'[partial] = p /\ memOf'[out] = m
        /\ \A t \in Ids : t # partial /\ t # out => memOf'[t] = memOf[t]
    BY <1>1, <1>3
  <1>6. /\ \A t \in 1 .. created : t # partial /\ t # out /\ t \in Ids
        /\ \A t \in created + 1 .. created' : t = partial \/ t = out
    BY <1>1, <1>3, IdFacts DEF ValueInv
  <1>7. RootInv'
    <2>1. \A t \in 1 .. created : memOf'[t] = memOf[t]
      BY <1>5, <1>6
    <2>2. \A t \in created + 1 .. created' : memOf'[t] # 0 /\ t \in Ids
      BY <1>1, <1>4, <1>5, <1>6
    <2>3. created <= created' /\ created' \in Nat
      BY <1>1, <1>3
    <2> QED
      BY <1>1, <2>1, <2>2, <2>3, RootGrows
  <1>8. /\ Owners' = Owners \cup {out}
        /\ \A t \in Owners : /\ memOf'[t] = memOf[t] /\ memOf[t] \in Taken /\ memOf[t] \in Locations
                             /\ t # out /\ t # partial
    <2>1. Owners' = Owners \cup {out}
      BY <1>1 DEF Owners
    <2> QED
      BY <1>5, <1>6, <2>1, OwnersTyped
  <1>9. root[out] = out
    BY <1>1 DEF ValueInv, RootInv
  <1>10. OwnInv'
    BY <1>1, <1>4, <1>5, <1>8, <1>9 DEF ValueInv, OwnInv
  <1>11. KeptInv'
    <2> SUFFICES ASSUME NEW t \in Owners', root[t] = t, InPlace(t)
                 PROVE  content'[memOf'[t]] = t
      BY <1>1 DEF KeptInv, KeptIn, InPlace
    <2>1. CASE t = out
      <3>1. m \in Locations
        BY <1>4, OwnersTyped
      <3> QED
        BY <1>3, <1>5, <2>1, <3>1 DEF Stored
    <2>2. CASE t \in Owners
      <3>1. content[memOf[t]] = t
        BY <2>2 DEF ValueInv, KeptInv, KeptIn, InPlace
      <3>2. memOf[t] # p /\ memOf[t] # m /\ memOf[t] \in Locations /\ t # out /\ t # partial
        BY <1>4, <1>8, <2>2
      <3>3. Stored(content, p, partial)[memOf[t]] = t
        BY <3>1, <3>2 DEF Stored
      <3>4. Stored(Stored(content, p, partial), m, out)[memOf[t]] = t
        BY <3>2, <3>3 DEF Stored
      <3> QED
        BY <1>3, <1>8, <2>2, <3>4
    <2> QED
      BY <1>8, <2>1, <2>2
  <1>12. \A t \in live : memOf'[t] # memOf'[partial]
    BY <1>4, <1>5, <1>8 DEF Owners
  <1> QED
    BY <1>4, <1>5, <1>7, <1>10, <1>11, <1>12

\* mse_loss: two launches, the second of which reads what the first wrote.
LEMMA LossValues ==
  ASSUME ValueInv, TypeInv', NEW pred \in Operands, NEW target \in Operands, Loss(pred, target)
  PROVE  ValueInv'
  <1> PICK partial : partial = created + 1
    OBVIOUS
  <1> PICK out : out = created + 2
    OBVIOUS
  <1> PICK one : one = {In(pred, 1), In(target, 2), Out(partial, 3)}
    OBVIOUS
  <1> PICK two : two = {In(partial, 1), Out(out, 2)}
    OBVIOUS
  <1> PICK raw : raw = <<one, two>>
    OBVIOUS
  <1> PICK ins : ins = <<pred, target>>
    OBVIOUS
  <1>1. /\ phase = "capture" /\ phase' = "capture" /\ out \in Ids /\ root' = root
        /\ live' = live \cup {out} /\ UNCHANGED planVars /\ UNCHANGED execVars
        /\ created' = out /\ registered' = registered \cup {partial, out}
        /\ nodes' = Append(nodes, Node("loss", ins, <<out>>, <<partial>>, raw))
    BY DEF Loss, Capturing
  <1>2. /\ RootInv' /\ OwnInv' /\ KeptInv'
        /\ memOf'[partial] # memOf'[out] /\ \A t \in live : memOf'[t] # memOf'[partial]
    BY LossMemory
  <1>3. /\ created \in Nat /\ 5 <= created /\ live \subseteq 1 .. created /\ live \subseteq Ids
        /\ \A t \in Ids : t # 0 /\ t \in Nat
        /\ pred \in live /\ target \in live /\ pred \in Ids /\ target \in Ids
    <2>1. /\ created \in Nat /\ 5 <= created /\ live \subseteq 1 .. created /\ live \subseteq Ids
          /\ \A t \in Ids : t # 0 /\ t \in Nat
      BY IdFacts DEF ValueInv, RootInv, TypeInv, TypeParts, TensorType
    <2> QED
      BY <2>1 DEF Operands
  <1>4. /\ partial \in Ids /\ partial > created /\ out > created /\ partial # out
        /\ pred \in 1 .. created' /\ target \in 1 .. created'
        /\ partial \in 1 .. created' /\ out \in 1 .. created' /\ created <= created'
        /\ pred # partial /\ target # partial /\ pred # out /\ target # out
    <2>1. partial \in Ids
      BY <1>1, <1>3, ConstantsAssumption DEF Ids
    <2>2. pred \in 1 .. created /\ target \in 1 .. created
      BY <1>3
    <2> QED
      BY <1>1, <1>3, <2>1, <2>2
  <1>5. created + 1 .. created' = {partial, out}
    BY <1>1, <1>3
  <1>6. /\ ins \in Seq(Ids) /\ <<out>> \in Seq(Ids) /\ <<partial>> \in Seq(Ids)
        /\ Len(ins) = 2 /\ Len(<<out>>) = 1 /\ Len(<<partial>>) = 1
        /\ ins[1] = pred /\ ins[2] = target
        /\ Elements(ins) = {pred, target} /\ Elements(<<out>>) = {out}
        /\ Elements(<<partial>>) = {partial}
    BY <1>1, <1>3, <1>4 DEF Elements
  <1>7. one \in SUBSET RawType /\ two \in SUBSET RawType
    <2>1. In(pred, 1) \in RawType /\ In(target, 2) \in RawType /\ Out(partial, 3) \in RawType
      BY <1>3, <1>4 DEF In, Out, Arg, RawType
    <2>2. In(partial, 1) \in RawType /\ Out(out, 2) \in RawType
      BY <1>1, <1>4 DEF In, Out, Arg, RawType
    <2> QED
      BY <2>1, <2>2
  <1>8. raw \in Seq(SUBSET RawType) /\ DOMAIN raw = {1, 2} /\ raw[1] = one /\ raw[2] = two
    BY <1>7
  <1>9. root'[partial] = partial /\ root'[out] = out
    BY <1>1, <1>4 DEF ValueInv, RootInv
  <1>10. /\ Writes(one, partial) /\ Writes(two, out)
         /\ \E a \in one : a.t = pred
         /\ \E a \in one : a.t = target
         /\ \E a \in one : a.t = partial
         /\ \E a \in two : a.t = out
    <2>1. /\ Out(partial, 3).t = partial /\ Out(partial, 3).writes
          /\ Out(out, 2).t = out /\ Out(out, 2).writes
          /\ In(pred, 1).t = pred /\ In(target, 2).t = target
      BY DEF In, Out, Arg
    <2>2. Out(partial, 3) \in one /\ Out(out, 2) \in two /\ In(pred, 1) \in one /\ In(target, 2) \in one
      OBVIOUS
    <2> QED
      BY <2>1, <2>2 DEF Writes
  <1>11. PICK node : node = Node("loss", ins, <<out>>, <<partial>>, raw)
    OBVIOUS
  <1>12. PICK new : new = {out, partial}
    OBVIOUS
  <1>13. PICK all : all = {pred, target, out, partial}
    OBVIOUS
  <1>14. NodeOK(node)'
    <2>1. "loss" \in Operations /\ "loss" \in Fresh
      BY DEF Operations, Fresh
    <2>2. ASSUME NEW a \in one
          PROVE  /\ a.t \in all
                 /\ a.t \in registered' \/ (a.at <= Len(ins) /\ ins[a.at] = a.t)
                 /\ a.writes => a.t \in new /\ root'[a.t] = a.t
                 /\ a.reads => a.t \in Elements(ins)
      <3>1. CASE a = In(pred, 1)
        BY <1>6, <1>13, <3>1 DEF In, Arg
      <3>2. CASE a = In(target, 2)
        BY <1>6, <1>13, <3>2 DEF In, Arg
      <3>3. CASE a = Out(partial, 3)
        BY <1>1, <1>9, <1>12, <1>13, <3>3 DEF Out, Arg
      <3> QED
        BY <3>1, <3>2, <3>3
    <2>3. ASSUME NEW a \in two
          PROVE  /\ a.t \in all
                 /\ a.t \in registered' \/ (a.at <= Len(ins) /\ ins[a.at] = a.t)
                 /\ a.writes => a.t \in new /\ root'[a.t] = a.t
                 /\ a.reads => Writes(one, a.t)
      <3>1. CASE a = In(partial, 1)
        BY <1>1, <1>10, <1>13, <3>1 DEF In, Arg
      <3>2. CASE a = Out(out, 2)
        BY <1>1, <1>9, <1>12, <1>13, <3>2 DEF Out, Arg
      <3> QED
        BY <3>1, <3>2
    <2>4. ASSUME NEW k \in DOMAIN raw, NEW a \in raw[k]
          PROVE  /\ a.t \in all
                 /\ a.t \in registered' \/ (a.at <= Len(ins) /\ ins[a.at] = a.t)
                 /\ a.writes => a.t \in new /\ root'[a.t] = a.t
                 /\ a.reads => a.t \in Elements(ins) \/ \E j \in 1 .. k - 1 : Writes(raw[j], a.t)
      <3>1. CASE k = 1
        BY <1>8, <2>2, <3>1
      <3>2. CASE k = 2
        <4>1. 1 \in 1 .. k - 1
          BY <3>2
        <4> QED
          BY <1>8, <2>3, <3>2, <4>1
      <3> QED
        BY <1>8, <3>1, <3>2
    <2>5. /\ \A t \in all : \E k \in DOMAIN raw : \E a \in raw[k] : a.t = t
          /\ \A t \in new : \E k \in DOMAIN raw : Writes(raw[k], t)
      <3>1. 1 \in DOMAIN raw /\ 2 \in DOMAIN raw
        BY <1>8
      <3>2. /\ \A t \in all : (\E a \in raw[1] : a.t = t) \/ (\E a \in raw[2] : a.t = t)
            /\ \A t \in new : Writes(raw[1], t) \/ Writes(raw[2], t)
        BY <1>8, <1>10, <1>12, <1>13
      <3> QED
        BY <3>1, <3>2
    <2>6. \A t, u \in all : memOf'[t] = memOf'[u] => root'[t] = root'[u]
      <3>1. pred \in Owners' /\ target \in Owners' /\ out \in Owners'
        BY <1>1, <1>3 DEF Owners
      <3>2. /\ memOf'[pred] # memOf'[partial] /\ memOf'[target] # memOf'[partial]
            /\ memOf'[out] # memOf'[partial]
        BY <1>2, <1>3
      <3>3. \A t \in all : t = partial \/ (t \in Owners' /\ memOf'[t] # memOf'[partial])
        BY <1>13, <3>1, <3>2
      <3>4. \A t, u \in Owners' : memOf'[t] = memOf'[u] => root'[t] = root'[u]
        BY <1>2 DEF OwnInv
      <3> QED
        BY <3>3, <3>4
    <2>7. /\ new = Elements(<<out>>) \cup Elements(<<partial>>) /\ all = Elements(ins) \cup new
          /\ all \subseteq 1 .. created' /\ new \cap (Elements(ins) \cup Leaves) = {}
      <3>1. out \notin Leaves /\ partial \notin Leaves
        BY <1>3, <1>4 DEF Leaves
      <3> QED
        BY <1>4, <1>6, <1>12, <1>13, <3>1
    <2>8. Recorded("loss", ins, <<out>>, <<partial>>, new, all, raw)'
      <3>1. Len(ins) <= 5 /\ Len(<<out>>) <= 3 /\ Len(<<partial>>) <= 1
        BY <1>6
      <3>2. \A t \in all, u \in new : root'[t] = u => t = u
        <4>1. pred \in 1 .. created /\ target \in 1 .. created
          BY <1>3
        <4>2. \A t \in {pred, target}, u \in new : root'[t] # u
          BY <1>1, <1>4, <1>12, <4>1, RootsOld
        <4> QED
          BY <1>9, <1>12, <1>13, <4>2
      <3> QED
        BY <2>1, <2>4, <2>5, <2>6, <2>7, <3>1, <3>2 DEF Recorded
    <2>9. /\ "loss" \in Operations /\ ins \in Seq(Ids) /\ <<out>> \in Seq(Ids)
          /\ <<partial>> \in Seq(Ids)
          /\ raw \in Seq(SUBSET RawType) /\ \A t \in Ids : t # 0
      BY <1>3, <1>6, <1>8, <2>1
    <2> QED
      BY <1>11, <2>8, <2>9, NodeRight
  <1>15. node.op = "loss" /\ node.outs = <<out>> /\ node.temps = <<partial>>
         /\ nodes' = Append(nodes, node)
    BY <1>1, <1>11 DEF Node
  <1>16. /\ Produced(node) = {out, partial} /\ Elements(node.temps) = {partial}
         /\ Elements(node.outs) = {out}
    BY <1>6, <1>15 DEF Produced
  <1>17. \A t \in Ids : t > created => root'[t] = t
    BY <1>1 DEF ValueInv, RootInv
  <1>18. GraphInv'
    <2>1. /\ \A t \in live' : t \in live \/ t > created
          /\ registered' = registered \cup (created + 1 .. created')
          /\ live \subseteq live' /\ \A t \in 1 .. created : root'[t] = root[t]
      BY <1>1, <1>4, <1>5
    <2>2. /\ \A t \in Produced(node) : t > created
          /\ \A t \in Elements(node.temps) : t \notin live' /\ t \notin Elements(node.outs)
          /\ Elements(node.outs) \subseteq live'
      <3>1. partial \notin live
        BY <1>3, <1>4
      <3> QED
        BY <1>1, <1>4, <1>16, <3>1
    <2> QED
      BY <1>1, <1>4, <1>14, <1>15, <1>17, <2>1, <2>2, OneNode
  <1>19. PhaseInv' /\ LifeInv' /\ BoundInv' /\ ArenaInv' /\ SlotInv'
    BY <1>1, CaptureIdle
  <1> QED
    BY <1>2, <1>18, <1>19 DEF ValueInv
\* Tensor::view: another id for the buffer, not another value.
LEMMA ViewValues ==
  ASSUME ValueInv, TypeInv', NEW t \in Operands, View(t)
  PROVE  ValueInv'
  <1> PICK out : out = created + 1
    OBVIOUS
  <1>1. /\ phase = "capture" /\ phase' = "capture" /\ out \in Ids
        /\ Create(out, memOf[t]) /\ root' = [root EXCEPT ![out] = root[t]]
        /\ live' = live \cup {out} /\ content' = content /\ UNCHANGED planVars /\ UNCHANGED execVars
        /\ nodes' = Append(nodes, Node("view", <<t>>, <<out>>, <<>>, <<>>))
    BY DEF View, Capturing
  <1>2. /\ created \in Nat /\ 5 <= created /\ live \subseteq 1 .. created /\ live \subseteq Ids
        /\ \A u \in Ids : u # 0 /\ u \in Nat
        /\ memOf \in [Ids -> Mems \cup {0}] /\ root \in [Ids -> Ids]
    BY IdFacts DEF ValueInv, RootInv, TypeInv, TypeParts, TensorType
  <1>3. t \in live /\ t \in 1 .. created /\ t \in Ids
    BY <1>2 DEF Operands
  <1>4. /\ created' = out /\ registered' = registered \cup {out}
        /\ memOf' = [memOf EXCEPT ![out] = memOf[t]]
    BY <1>1 DEF Create
  <1>5. /\ \A u \in 1 .. created : u # out /\ u \in Ids /\ root[u] \in 1 .. created
        /\ out > created /\ created <= out /\ out \notin Leaves
        /\ created + 1 .. created' = {out}
    <2>1. \A u \in 1 .. created : u # out /\ u \in Ids
      BY <1>2, IdFacts DEF ValueInv
    <2>2. ASSUME NEW u \in 1 .. created PROVE root[u] \in 1 .. created
      <3>1. root[u] \in Ids /\ root[u] <= created
        BY <1>2, <2>1 DEF ValueInv, RootInv
      <3>2. root[u] \in Nat /\ root[u] # 0
        BY <1>2, <3>1
      <3> QED
        BY <1>2, <3>1, <3>2
    <2>3. out > created /\ created <= out /\ out \notin Leaves
      BY <1>2 DEF Leaves
    <2>4. created + 1 .. created' = {out}
      BY <1>2, <1>4
    <2> QED
      BY <2>1, <2>2, <2>3, <2>4
  <1>6. /\ root'[out] = root[t] /\ memOf'[out] = memOf[t]
        /\ \A u \in Ids : u # out => root'[u] = root[u] /\ memOf'[u] = memOf[u]
        /\ root[t] # out /\ root[t] \in Ids /\ root[t] \in 1 .. created
    BY <1>1, <1>2, <1>3, <1>4, <1>5
  <1>7. RootInv'
    <2>1. ASSUME NEW u \in Ids PROVE root'[root'[u]] = root'[u] /\ memOf'[root'[u]] = memOf'[u]
      <3>1. CASE u = out
        BY <1>3, <1>6, <3>1 DEF ValueInv, RootInv
      <3>2. CASE u # out /\ u <= created
        <4>1. u \in 1 .. created
          BY <1>2, <3>2
        <4>2. root[u] # out /\ root[u] \in Ids
          BY <1>5, <4>1
        <4> QED
          BY <1>6, <3>2, <4>2 DEF ValueInv, RootInv
      <3>3. CASE u # out /\ u > created
        <4>1. root[u] = u
          BY <3>3 DEF ValueInv, RootInv
        <4> QED
          BY <1>6, <3>3, <4>1
      <3> QED
        BY <1>2, <3>1, <3>2, <3>3
    <2>2. ASSUME NEW u \in 1 .. created' PROVE memOf'[u] # 0 /\ root'[u] <= created'
      <3>1. CASE u = out
        <4>1. memOf[t] # 0 /\ root[t] <= created /\ root[t] \in Nat
          BY <1>2, <1>3, <1>6 DEF ValueInv, RootInv
        <4> QED
          BY <1>2, <1>4, <1>6, <3>1, <4>1
      <3>2. CASE u # out
        <4>1. u \in 1 .. created
          BY <1>2, <1>4, <3>2
        <4>2. memOf[u] # 0 /\ root[u] <= created /\ root[u] \in Nat /\ u \in Ids
          BY <1>2, <1>5, <4>1 DEF ValueInv, RootInv
        <4> QED
          BY <1>2, <1>4, <1>6, <3>2, <4>2
      <3> QED
        BY <3>1, <3>2
    <2>3. \A u \in Ids : u > created' => root'[u] = u
      <3> SUFFICES ASSUME NEW u \in Ids, u > out PROVE root'[u] = u
        BY <1>4
      <3>1. u # out /\ u > created
        BY <1>2
      <3> QED
        BY <1>6, <3>1 DEF ValueInv, RootInv
    <2>4. (\A u \in Leaves : root'[u] = u) /\ 5 <= created'
      <3>1. \A u \in Leaves : u \in Ids /\ u # out
        BY <1>5, IdFacts DEF ValueInv
      <3>2. 5 <= created'
        BY <1>2, <1>4
      <3> QED
        BY <1>6, <3>1, <3>2 DEF ValueInv, RootInv
    <2> QED
      BY <2>1, <2>2, <2>3, <2>4 DEF RootInv
  <1>8. /\ Owners' = Owners \cup {out}
        /\ \A u \in Owners : u \in 1 .. created /\ u \in Ids /\ u # out
    BY <1>1, <1>5, OwnersTyped DEF Owners, execVars
  <1>9. OwnInv'
    <2>1. t \in Owners
      BY <1>3 DEF Owners
    <2> QED
      BY <1>1, <1>6, <1>8, <2>1 DEF ValueInv, OwnInv
  <1>10. KeptInv'
    <2>1. arena' = arena
      BY <1>1 DEF execVars
    <2> SUFFICES ASSUME NEW u \in Owners', root'[u] = u, InPlace(u)
                 PROVE  content[memOf'[u]] = u
      BY <1>1, <2>1 DEF KeptInv, KeptIn, InPlace
    <2>2. u # out
      BY <1>6
    <2>3. u \in Owners
      BY <1>8, <2>2
    <2> QED
      BY <1>6, <1>8, <2>3 DEF ValueInv, KeptInv, KeptIn, InPlace
  <1>11. PICK node : node = Node("view", <<t>>, <<out>>, <<>>, <<>>)
    OBVIOUS
  <1>12. /\ node.op = "view" /\ node.ins = <<t>> /\ node.outs = <<out>> /\ node.temps = <<>>
         /\ DOMAIN node.launches = {} /\ nodes' = Append(nodes, node)
    BY <1>1, <1>11 DEF Node
  <1>13. /\ Elements(node.ins) = {t} /\ Elements(node.outs) = {out} /\ Elements(node.temps) = {}
    BY <1>12 DEF Elements
  <1>14. /\ Produced(node) = {out} /\ Touched(node) = {t, out}
    BY <1>13 DEF Produced, Touched
  <1>15. NodeOK(node)'
    <2>1. out # t /\ out \notin Leaves /\ Touched(node) \subseteq 1 .. created'
      BY <1>2, <1>3, <1>4, <1>5, <1>14
    <2> QED
      BY <1>12, <1>13, <1>14, <2>1 DEF NodeOK, Fresh
  <1>16. GraphInv'
    <2>1. /\ \A u \in live' : u \in live \/ u > created
          /\ registered' = registered \cup (created + 1 .. created')
          /\ live \subseteq live' /\ \A u \in 1 .. created : root'[u] = root[u]
      BY <1>1, <1>4, <1>5, <1>6
    <2>2. \A u \in Ids : u > created =>
           \/ root'[u] = u
           \/ u \in Elements(node.outs) /\ \E v \in live : root'[u] = root[v]
      <3> SUFFICES ASSUME NEW u \in Ids, u > created
                   PROVE  \/ root'[u] = u
                          \/ u \in Elements(node.outs) /\ \E v \in live : root'[u] = root[v]
        OBVIOUS
      <3>1. root[u] = u
        BY DEF ValueInv, RootInv
      <3> QED
        BY <1>3, <1>6, <1>13, <3>1
    <2>3. /\ \A u \in Produced(node) : u > created
          /\ Elements(node.outs) \subseteq live'
      BY <1>1, <1>5, <1>13, <1>14
    <2> QED
      BY <1>1, <1>4, <1>5, <1>12, <1>13, <1>15, <2>1, <2>2, <2>3, OneNode
  <1>17. PhaseInv' /\ LifeInv' /\ BoundInv' /\ ArenaInv' /\ SlotInv'
    BY <1>1, CaptureIdle
  <1> QED
    BY <1>7, <1>9, <1>10, <1>16, <1>17 DEF ValueInv

\* sgd_update, add_inplace: a new value in place of a tensor that no view is taken of.
LEMMA UpdateValues ==
  ASSUME ValueInv, TypeInv', NEW dst \in Operands, NEW src \in Operands, Update(dst, src),
         "update_view" \notin Calls
  PROVE  ValueInv'
  <1> PICK launch : launch = {InOut(dst, 1), In(src, 2)}
    OBVIOUS
  <1> PICK raw : raw = <<launch>>
    OBVIOUS
  <1> PICK ins : ins = <<dst, src>>
    OBVIOUS
  <1>0. ~ThroughView(dst, src)
    BY DEF Update, Capturing
  <1>1. /\ phase = "capture" /\ phase' = "capture" /\ root[dst] = dst
        /\ root[src] = dst => src = dst
        /\ UNCHANGED tensorVars /\ UNCHANGED planVars /\ UNCHANGED execVars
        /\ content' = Stored(content, memOf[dst], dst)
        /\ nodes' = Append(nodes, Node("update", ins, <<dst>>, <<>>, raw))
    BY <1>0 DEF Update, Capturing, ThroughView
  <1>2. /\ created \in Nat /\ \A t \in Ids : t # 0 /\ t \in Nat
        /\ dst \in live /\ src \in live /\ dst \in Ids /\ src \in Ids
        /\ dst \in 1 .. created /\ src \in 1 .. created
    <2>1. /\ created \in Nat /\ live \subseteq 1 .. created /\ live \subseteq Ids
          /\ \A t \in Ids : t # 0 /\ t \in Nat
      BY IdFacts DEF ValueInv, TypeInv, TypeParts, TensorType
    <2> QED
      BY <2>1 DEF Operands
  <1>3. RootInv' /\ OwnInv' /\ KeptInv'
    <2>1. RootInv' /\ OwnInv' /\ Owners' = Owners
      BY <1>1 DEF ValueInv, RootInv, OwnInv, Owners, tensorVars, execVars
    <2>2. KeptIn(Stored(content, memOf[dst], dst))
      BY <1>1, <1>2, OwnersTyped, StoredKeeps DEF ValueInv, KeptInv, Owners
    <2> QED
      BY <1>1, <2>1, <2>2 DEF KeptInv, KeptIn, InPlace, tensorVars, execVars
  <1>4. /\ created' = created /\ root' = root /\ live' = live /\ registered' = registered
        /\ memOf' = memOf
    BY <1>1 DEF tensorVars
  <1>5. /\ ins \in Seq(Ids) /\ <<dst>> \in Seq(Ids) /\ <<>> \in Seq(Ids)
        /\ Len(ins) = 2 /\ Len(<<dst>>) = 1 /\ Len(<<>>) = 0
        /\ ins[1] = dst /\ ins[2] = src
        /\ Elements(ins) = {dst, src} /\ Elements(<<dst>>) = {dst} /\ Elements(<<>>) = {}
    BY <1>2 DEF Elements
  <1>6. launch \in SUBSET RawType
    <2>1. InOut(dst, 1) \in RawType /\ In(src, 2) \in RawType
      BY <1>2 DEF In, InOut, Arg, RawType
    <2> QED
      BY <2>1
  <1>7. raw \in Seq(SUBSET RawType) /\ DOMAIN raw = {1} /\ raw[1] = launch
    BY <1>6
  <1>8. /\ \E a \in launch : a.t = dst
        /\ \E a \in launch : a.t = src
        /\ Writes(launch, dst)
    <2>1. /\ InOut(dst, 1).t = dst /\ InOut(dst, 1).writes /\ In(src, 2).t = src
      BY DEF In, InOut, Arg
    <2>2. InOut(dst, 1) \in launch /\ In(src, 2) \in launch
      OBVIOUS
    <2> QED
      BY <2>1, <2>2 DEF Writes
  <1>9. PICK node : node = Node("update", ins, <<dst>>, <<>>, raw)
    OBVIOUS
  <1>10. PICK new : new = {dst}
    OBVIOUS
  <1>11. PICK all : all = {dst, src}
    OBVIOUS
  <1>12. NodeOK(node)'
    <2>1. "update" \in Operations /\ "update" \notin Fresh
      BY DEF Operations, Fresh
    <2>2. ASSUME NEW a \in launch
          PROVE  /\ a.t \in all
                 /\ a.t \in registered' \/ (a.at <= Len(ins) /\ ins[a.at] = a.t)
                 /\ a.writes => a.t \in new /\ root'[a.t] = a.t
                 /\ a.reads => a.t \in Elements(ins)
      <3>1. CASE a = InOut(dst, 1)
        BY <1>1, <1>4, <1>5, <1>10, <1>11, <3>1 DEF InOut, Arg
      <3>2. CASE a = In(src, 2)
        BY <1>5, <1>11, <3>2 DEF In, Arg
      <3> QED
        BY <3>1, <3>2
    <2>3. \A k \in DOMAIN raw : \A a \in raw[k] :
            /\ a.t \in all
            /\ a.t \in registered' \/ (a.at <= Len(ins) /\ ins[a.at] = a.t)
            /\ a.writes => a.t \in new /\ root'[a.t] = a.t
            /\ a.reads => a.t \in Elements(ins) \/ \E j \in 1 .. k - 1 : Writes(raw[j], a.t)
      BY <1>7, <2>2
    <2>4. /\ \A t \in all : \E k \in DOMAIN raw : \E a \in raw[k] : a.t = t
          /\ \A t \in new : \E k \in DOMAIN raw : Writes(raw[k], t)
      BY <1>7, <1>8, <1>10, <1>11
    <2>5. \A t, u \in all : memOf'[t] = memOf'[u] => root'[t] = root'[u]
      <3>1. all \subseteq Owners'
        BY <1>2, <1>4, <1>11 DEF Owners
      <3> QED
        BY <1>3, <3>1 DEF OwnInv
    <2>6. /\ new = Elements(<<dst>>) \cup Elements(<<>>) /\ all = Elements(ins) \cup new
          /\ all \subseteq 1 .. created' /\ Elements(<<dst>>) \subseteq Elements(ins)
      BY <1>2, <1>4, <1>5, <1>10, <1>11
    <2>7. Recorded("update", ins, <<dst>>, <<>>, new, all, raw)'
      <3>1. Len(ins) <= 5 /\ Len(<<dst>>) <= 3 /\ Len(<<>>) <= 1
        BY <1>5
      <3>2. \A t \in all, u \in new : root'[t] = u => t = u
        BY <1>1, <1>4, <1>10, <1>11
      <3> QED
        BY <2>1, <2>3, <2>4, <2>5, <2>6, <3>1, <3>2 DEF Recorded
    <2>8. /\ "update" \in Operations /\ ins \in Seq(Ids) /\ <<dst>> \in Seq(Ids) /\ <<>> \in Seq(Ids)
          /\ raw \in Seq(SUBSET RawType) /\ \A t \in Ids : t # 0
      BY <1>2, <1>5, <1>7, <2>1
    <2> QED
      BY <1>9, <2>7, <2>8, NodeRight
  <1>13. node.op = "update" /\ node.outs = <<dst>> /\ node.temps = <<>>
         /\ nodes' = Append(nodes, node)
    BY <1>1, <1>9 DEF Node
  <1>14. Elements(node.temps) = {} /\ Elements(node.outs) = {dst} /\ node.op \notin Fresh
    BY <1>5, <1>13 DEF Fresh
  <1>15. GraphInv'
    <2>1. created + 1 .. created' = {}
      BY <1>2, <1>4
    <2>2. \A t \in Ids : t > created => root'[t] = t
      BY <1>4 DEF ValueInv, RootInv
    <2>3. /\ created <= created' /\ registered' = registered \cup (created + 1 .. created')
          /\ Elements(node.outs) \subseteq live'
      BY <1>2, <1>4, <1>14, <2>1
    <2> QED
      BY <1>1, <1>4, <1>12, <1>13, <1>14, <2>2, <2>3, OneNode
  <1>16. PhaseInv' /\ LifeInv' /\ BoundInv' /\ ArenaInv' /\ SlotInv'
    BY <1>1, CaptureIdle
  <1> QED
    BY <1>3, <1>15, <1>16 DEF ValueInv
\* Adam::step: the state's node, whose one launch counts the step, and the update's, of which
\* the arguments may be mapped to any of its tensors or to none.
LEMMA TickRight ==
  ASSUME ValueInv, UNCHANGED tensorVars, NEW ticks, ticks = {InOut(adamState, 1)},
         NEW node, node = Node("adam_state", <<adamState>>, <<adamState>>, <<>>, <<ticks>>)
  PROVE  /\ NodeOK(node)' /\ node.op = "adam_state" /\ node.temps = <<>>
         /\ Elements(node.outs) = {adamState}
  <1> PICK raw : raw = <<ticks>>
    OBVIOUS
  <1> PICK ids : ids = <<adamState>>
    OBVIOUS
  <1> PICK all : all = {adamState}
    OBVIOUS
  <1>1. /\ created' = created /\ root' = root /\ live' = live /\ registered' = registered
        /\ memOf' = memOf
    BY DEF tensorVars
  <1>2. /\ adamState \in Leaves /\ adamState # input /\ root[adamState] = adamState
        /\ adamState \in 1 .. created /\ adamState \in Ids /\ \A t \in Ids : t # 0
    <2>1. adamState \in Leaves /\ adamState # input
      BY DEF adamState, Leaves, input
    <2>2. adamState \in 1 .. created
      BY IdFacts DEF adamState, ValueInv, RootInv
    <2> QED
      BY <2>1, <2>2, IdFacts DEF ValueInv, RootInv
  <1>3. /\ ids \in Seq(Ids) /\ <<>> \in Seq(Ids) /\ Len(ids) = 1 /\ Len(<<>>) = 0
        /\ ids[1] = adamState /\ Elements(ids) = {adamState} /\ Elements(<<>>) = {}
    BY <1>2 DEF Elements
  <1>4. ticks \in SUBSET RawType
    <2>1. InOut(adamState, 1) \in RawType
      BY <1>2 DEF InOut, Arg, RawType
    <2> QED
      BY <2>1
  <1>5. raw \in Seq(SUBSET RawType) /\ DOMAIN raw = {1} /\ raw[1] = ticks
    BY <1>4
  <1>6. /\ \E a \in ticks : a.t = adamState
        /\ Writes(ticks, adamState)
    <2>1. InOut(adamState, 1).t = adamState /\ InOut(adamState, 1).writes
      BY DEF InOut, Arg
    <2> QED
      BY <2>1 DEF Writes
  <1>7. NodeOK(node)'
    <2>1. "adam_state" \in Operations /\ "adam_state" \notin Fresh
      BY DEF Operations, Fresh
    <2>2. ASSUME NEW a \in ticks
          PROVE  /\ a.t \in all
                 /\ a.t \in registered' \/ (a.at <= Len(ids) /\ ids[a.at] = a.t)
                 /\ a.writes => a.t \in all /\ root'[a.t] = a.t
                 /\ a.reads => a.t \in Elements(ids)
      BY <1>1, <1>2, <1>3 DEF InOut, Arg
    <2>3. \A k \in DOMAIN raw : \A a \in raw[k] :
            /\ a.t \in all
            /\ a.t \in registered' \/ (a.at <= Len(ids) /\ ids[a.at] = a.t)
            /\ a.writes => a.t \in all /\ root'[a.t] = a.t
            /\ a.reads => a.t \in Elements(ids) \/ \E j \in 1 .. k - 1 : Writes(raw[j], a.t)
      BY <1>5, <2>2
    <2>4. /\ \A t \in all : \E k \in DOMAIN raw : \E a \in raw[k] : a.t = t
          /\ \A t \in all : \E k \in DOMAIN raw : Writes(raw[k], t)
      BY <1>5, <1>6
    <2>5. \A t, u \in all : memOf'[t] = memOf'[u] => root'[t] = root'[u]
      OBVIOUS
    <2>6. /\ all = Elements(ids) \cup Elements(<<>>) /\ all = Elements(ids) \cup all
          /\ all \subseteq 1 .. created' /\ Elements(ids) \subseteq Leaves \ {input}
      BY <1>1, <1>2, <1>3
    <2>7. Recorded("adam_state", ids, ids, <<>>, all, all, raw)'
      <3>1. Len(ids) <= 5 /\ Len(ids) <= 3 /\ Len(<<>>) <= 1
        BY <1>3
      <3>2. \A t, u \in all : root'[t] = u => t = u
        OBVIOUS
      <3> QED
        BY <2>1, <2>3, <2>4, <2>5, <2>6, <3>1, <3>2 DEF Recorded
    <2>8. /\ "adam_state" \in Operations /\ ids \in Seq(Ids) /\ <<>> \in Seq(Ids)
          /\ raw \in Seq(SUBSET RawType) /\ \A t \in Ids : t # 0
          /\ node = Node("adam_state", ids, ids, <<>>, raw)
      BY <1>2, <1>3, <1>5, <2>1
    <2> QED
      BY <2>7, <2>8, NodeRight
  <1> QED
    BY <1>3, <1>7 DEF Node

\* The step of Adam: its arguments may be mapped to any of its tensors or to none.
LEMMA StepRight ==
  ASSUME ValueInv, UNCHANGED tensorVars, NEW grad \in Operands, root[grad] = grad,
         NEW args, args = AdamArgs(grad),
         NEW node, node = Node("adam", AdamIds(grad), <<param, moment, variance>>, <<>>, <<args>>)
  PROVE  /\ NodeOK(node)' /\ node.op = "adam" /\ node.temps = <<>>
         /\ Elements(node.outs) = {param, moment, variance}
  <1> DEFINE ins  == AdamIds(grad)
             outs == <<param, moment, variance>>
             ids  == ins \o outs \o <<>>
             all  == {adamState, param, grad, moment, variance}
  <1>1. /\ created' = created /\ root' = root /\ live' = live /\ registered' = registered
        /\ memOf' = memOf
    BY DEF tensorVars
  <1>2. /\ {adamState, param, moment, variance} \subseteq Leaves \ {input}
        /\ {adamState, param, moment, variance} \subseteq 1 .. created
        /\ \A t \in Leaves : root[t] = t
    <2>1. {adamState, param, moment, variance} \subseteq Leaves \ {input}
      BY DEF adamState, param, moment, variance, Leaves, input
    <2>2. Leaves \subseteq 1 .. created
      BY IdFacts DEF Leaves, ValueInv, RootInv
    <2> QED
      BY <2>1, <2>2 DEF ValueInv, RootInv
  <1>3. grad \in 1 .. created /\ 1 .. created \subseteq Ids /\ \A t \in Ids : t # 0
    BY IdFacts DEF Operands, ValueInv, TypeInv, TypeParts, TensorType
  <1>4. all \subseteq 1 .. created /\ all \subseteq Ids
    BY <1>2, <1>3
  <1>5. /\ ins \in Seq(Ids) /\ outs \in Seq(Ids) /\ <<>> \in Seq(Ids)
        /\ Len(ins) <= 5 /\ Len(outs) <= 3 /\ Len(<<>>) <= 1
    BY <1>4 DEF AdamIds
  <1>6. Elements(ins) = all
    <2>1. DOMAIN AdamIds(grad) = {1, 2, 3, 4, 5}
      BY DEF AdamIds
    <2>2. /\ ins[1] = adamState /\ ins[2] = param /\ ins[3] = grad /\ ins[4] = moment
          /\ ins[5] = variance
      BY DEF AdamIds
    <2> HIDE DEF ins
    <2> QED
      BY <2>1, <2>2 DEF Elements, ins
  <1>7. Elements(outs) = {param, moment, variance} /\ Elements(<<>>) = {}
    BY DEF Elements
  <1> HIDE DEF ins, outs
  <1>8. ids \in Seq(Ids) /\ Len(ids) <= 9 /\ Elements(ids) = all
    <2>1. /\ ids \in Seq(Ids) /\ Len(ids) <= 9
          /\ Elements(ids) = Elements(ins) \cup Elements(outs) \cup Elements(<<>>)
      <3>1. PICK none : none = <<>>
        OBVIOUS
      <3>2. none \in Seq(Ids) /\ Len(none) <= 1
        BY <1>5, <3>1
      <3>3. PICK three : three = ins \o outs \o none
        OBVIOUS
      <3>4. /\ three \in Seq(Ids) /\ Len(three) <= 9
            /\ Elements(three) = Elements(ins) \cup Elements(outs) \cup Elements(none)
        BY <1>5, <3>2, <3>3, IdsOf
      <3> QED
        BY <3>1, <3>3, <3>4
    <2> QED
      BY <1>6, <1>7, <2>1
  <1>9. args \in SUBSET RawType
    <2>1. /\ InOut(param, 1) \in RawType /\ In(grad, 2) \in RawType /\ InOut(moment, 3) \in RawType
          /\ InOut(variance, 4) \in RawType /\ In(adamState, 33) \in RawType
      BY <1>4 DEF InOut, In, Arg, RawType
    <2> QED
      BY <2>1 DEF AdamArgs
  <1>10. ASSUME NEW a \in args
         PROVE  a.t \in all /\ (a.writes => a.t \in {param, moment, variance})
    <2>1. /\ InOut(param, 1).t = param /\ In(grad, 2).t = grad /\ InOut(moment, 3).t = moment
          /\ InOut(variance, 4).t = variance /\ In(adamState, 33).t = adamState
          /\ ~In(grad, 2).writes /\ ~In(adamState, 33).writes
      BY DEF InOut, In, Arg
    <2> QED
      BY <2>1 DEF AdamArgs
  <1>11. /\ \A t \in all : \E a \in args : a.t = t
         /\ \A t \in {param, moment, variance} : Writes(args, t)
    <2>1. /\ InOut(param, 1).t = param /\ In(grad, 2).t = grad /\ InOut(moment, 3).t = moment
          /\ InOut(variance, 4).t = variance /\ In(adamState, 33).t = adamState
          /\ InOut(param, 1).writes /\ InOut(moment, 3).writes /\ InOut(variance, 4).writes
      BY DEF InOut, In, Arg
    <2>2. /\ InOut(param, 1) \in args /\ In(grad, 2) \in args /\ InOut(moment, 3) \in args
          /\ InOut(variance, 4) \in args /\ In(adamState, 33) \in args
      BY DEF AdamArgs
    <2> QED
      BY <2>1, <2>2 DEF Writes
  <1>12. /\ node.op = "adam" /\ node.ins = ins /\ node.outs = outs /\ node.temps = <<>>
         /\ DOMAIN node.launches = {1} /\ node.launches[1] = Mapped(args, ids)
    BY DEF Node, ins, outs
  <1>13. /\ Elements(node.ins) = all /\ Elements(node.outs) = {param, moment, variance}
         /\ Produced(node) = {param, moment, variance} /\ Touched(node) = all
    BY <1>6, <1>7, <1>12 DEF Produced, Touched
  <1> HIDE DEF ids
  <1>14. ASSUME NEW arg \in node.launches[1]
         PROVE  ArgOK(node, arg)' /\ arg.t \in Elements(node.ins)
    <2>1. arg \in Mapped(args, ids)
      BY <1>12
    <2>2. PICK a \in args : /\ arg.t = a.t /\ arg.via = Via(a, ids)
                            /\ arg.reads = a.reads /\ arg.writes = a.writes
      BY <1>9, <2>1, MappedFrom
    <2>3. Via(a, ids) \in Elements(ids) \cup {0}
      BY <1>8, <1>9, ViaSome
    <2>4. arg.t \in all /\ arg.via \in all \cup {0}
          /\ (arg.writes => arg.t \in {param, moment, variance} /\ root'[arg.t] = arg.t)
      BY <1>1, <1>2, <1>8, <1>10, <2>2, <2>3
    <2> HIDE DEF all
    <2> QED
      BY <1>12, <1>13, <2>4 DEF ArgOK
  <1>15. \A t \in all : root[t] = t
    BY <1>2
  <1>16. NodeOK(node)'
    <2>1. /\ \A t \in all : \E arg \in node.launches[1] : arg.t = t
          /\ \A t \in {param, moment, variance} : Writes(node.launches[1], t)
      <3>1. ASSUME NEW t
            PROVE  /\ Writes(node.launches[1], t) <=> Writes(args, t)
                   /\ (\E arg \in node.launches[1] : arg.t = t) <=> \E a \in args : a.t = t
        <4>1. /\ Writes(Mapped(args, ids), t) <=> Writes(args, t)
              /\ (\E arg \in Mapped(args, ids) : arg.t = t) <=> \E a \in args : a.t = t
          BY <1>9, MappedWrites
        <4> QED
          BY <1>12, <4>1
      <3> QED
        BY <1>11, <3>1
    <2>2. /\ Elements(node.outs) \subseteq Leaves \ {input} /\ Touched(node) \subseteq 1 .. created'
          /\ Elements(node.outs) \subseteq Elements(node.ins)
      BY <1>1, <1>2, <1>4, <1>13
    <2> HIDE DEF all
    <2>3. node.op # "view" /\ node.op \notin Fresh
      BY <1>12 DEF Fresh
    <2>4. ASSUME NEW k \in DOMAIN node.launches, NEW arg \in node.launches[k]
          PROVE  ArgOK(node, arg)' /\ arg.t \in Elements(node.ins)
      BY <1>12, <1>14
    <2>5. /\ \A t \in Touched(node) :
               \E k \in DOMAIN node.launches : \E arg \in node.launches[k] : arg.t = t
          /\ \A t \in Produced(node) : \E k \in DOMAIN node.launches : Writes(node.launches[k], t)
      <3>1. 1 \in DOMAIN node.launches
        BY <1>12
      <3> QED
        BY <1>13, <2>1, <3>1
    <2>6. ASSUME NEW k \in DOMAIN node.launches, NEW arg \in node.launches[k]
          PROVE  (/\ ArgOK(node, arg)
                  /\ arg.reads => arg.t \in Elements(node.ins)
                                  \/ \E j \in 1 .. k - 1 : Writes(node.launches[j], arg.t))'
      BY <2>4
    <2>7. node.temps = <<>>
      BY <1>12
    <2>8. \A t \in Touched(node), u \in Produced(node) : root'[t] = u => t = u
      BY <1>1, <1>13, <1>15
    <2> QED
      BY <2>2, <2>3, <2>5, <2>6, <2>7, <2>8 DEF NodeOK
  <1> QED
    BY <1>12, <1>13, <1>16

\* adam_update: the state's tick and the step, both in place.
LEMMA AdamValues ==
  ASSUME ValueInv, TypeInv', NEW grad \in Operands, AdamStep(grad)
  PROVE  ValueInv'
  <1> PICK ticks : ticks = {InOut(adamState, 1)}
    OBVIOUS
  <1> PICK args : args = AdamArgs(grad)
    OBVIOUS
  <1> PICK tick : tick = Node("adam_state", <<adamState>>, <<adamState>>, <<>>, <<ticks>>)
    OBVIOUS
  <1> PICK step : step = Node("adam", AdamIds(grad), <<param, moment, variance>>, <<>>, <<args>>)
    OBVIOUS
  <1> DEFINE c1 == Stored(content, memOf[adamState], adamState)
             c2 == Stored(c1, memOf[param], param)
             c3 == Stored(c2, memOf[moment], moment)
             c4 == Stored(c3, memOf[variance], variance)
  <1>1. /\ phase = "capture" /\ phase' = "capture" /\ root[grad] = grad
        /\ UNCHANGED tensorVars /\ UNCHANGED planVars /\ UNCHANGED execVars
        /\ nodes' = nodes \o <<tick, step>> /\ content' = c4
    BY DEF AdamStep, Capturing
  <1>2. /\ created' = created /\ root' = root /\ live' = live /\ registered' = registered
        /\ memOf' = memOf
    BY <1>1 DEF tensorVars
  <1>3. \A t \in {adamState, param, moment, variance} : t \in Owners /\ root[t] = t /\ t \in Ids
    <2>1. {adamState, param, moment, variance} \subseteq Leaves \ {input}
      BY DEF adamState, param, moment, variance, Leaves, input
    <2>2. {adamState, param, moment, variance} \subseteq live
      BY <2>1 DEF ValueInv, OwnInv
    <2> QED
      BY <2>1, <2>2, IdFacts DEF Owners, ValueInv, RootInv
  <1>4. RootInv' /\ OwnInv' /\ KeptInv'
    <2>1. RootInv' /\ OwnInv' /\ Owners' = Owners
      BY <1>1 DEF ValueInv, RootInv, OwnInv, Owners, tensorVars, execVars
    <2>2. content \in [Locations -> Ids \cup {0}]
      BY OwnersTyped
    <2> HIDE DEF c1, c2, c3
    <2>3. c1 \in [Locations -> Ids \cup {0}] /\ KeptIn(c1)
      BY <1>3, <2>2, StoredType, StoredKeeps DEF c1, ValueInv, KeptInv
    <2>4. c2 \in [Locations -> Ids \cup {0}] /\ KeptIn(c2)
      BY <1>3, <2>3, StoredType, StoredKeeps DEF c2
    <2>5. c3 \in [Locations -> Ids \cup {0}] /\ KeptIn(c3)
      BY <1>3, <2>4, StoredType, StoredKeeps DEF c3
    <2>6. KeptIn(c4)
      BY <1>3, <2>5, StoredKeeps
    <2> QED
      BY <1>1, <2>1, <2>6 DEF KeptInv, KeptIn, InPlace, tensorVars, execVars
  <1> HIDE DEF c4
  <1>5. /\ NodeOK(tick)' /\ tick.op = "adam_state" /\ tick.temps = <<>>
        /\ Elements(tick.outs) = {adamState}
    BY <1>1, TickRight
  <1>6. /\ NodeOK(step)' /\ step.op = "adam" /\ step.temps = <<>>
        /\ Elements(step.outs) = {param, moment, variance}
    BY <1>1, StepRight
  <1>7. PICK n : n = Len(nodes)
    OBVIOUS
  <1>8. /\ n \in Nat /\ Len(nodes') = n + 2
        /\ \A i \in 1 .. n : nodes'[i] = nodes[i]
        /\ \A i \in n + 1 .. Len(nodes') : (i = n + 1 /\ nodes'[i] = tick)
                                           \/ (i = n + 2 /\ nodes'[i] = step)
    <2>1. nodes \in Seq(NodeType) /\ n \in Nat
      BY <1>7, NodesTyped
    <2>2. <<tick, step>> \in Seq({tick, step}) /\ Len(<<tick, step>>) = 2
          /\ <<tick, step>>[1] = tick /\ <<tick, step>>[2] = step
      OBVIOUS
    <2>3. nodes \in Seq(NodeType \cup {tick, step}) /\ <<tick, step>> \in Seq(NodeType \cup {tick, step})
      <3>1. NodeType \subseteq NodeType \cup {tick, step} /\ {tick, step} \subseteq NodeType \cup {tick, step}
        OBVIOUS
      <3> QED
        BY <2>1, <2>2, <3>1, SeqMonotonic
    <2>4. PICK two : two = <<tick, step>>
      OBVIOUS
    <2>5. /\ Len(nodes \o two) = Len(nodes) + Len(two)
          /\ \A i \in 1 .. Len(nodes) + Len(two) :
               (nodes \o two)[i] = IF i <= Len(nodes) THEN nodes[i] ELSE two[i - Len(nodes)]
      BY <2>3, <2>4, ConcatProperties
    <2>6. two[1] = tick /\ two[2] = step /\ Len(two) = 2 /\ nodes' = nodes \o two
      BY <1>1, <2>2, <2>4
    <2>7. \A i \in n + 1 .. n + 2 : (i = n + 1 /\ i - n = 1) \/ (i = n + 2 /\ i - n = 2)
      BY <2>1
    <2>8. \A i \in 1 .. n : i \in 1 .. n + 2 /\ i <= n
      BY <2>1
    <2>9. \A i \in n + 1 .. n + 2 : i \in 1 .. n + 2 /\ ~(i <= n)
      BY <2>1
    <2>10. Len(nodes') = n + 2 /\ \A i \in 1 .. n : nodes'[i] = nodes[i]
      BY <1>7, <2>5, <2>6, <2>8
    <2>11. \A i \in n + 1 .. n + 2 : nodes'[i] = two[i - n]
      BY <1>7, <2>5, <2>6, <2>9
    <2> QED
      BY <2>1, <2>6, <2>7, <2>10, <2>11
  <1>9. ASSUME NEW i \in n + 1 .. Len(nodes')
        PROVE  /\ NodeOK(nodes[i])'
               /\ nodes'[i].op \notin Fresh
               /\ Elements(nodes'[i].temps) = {}
               /\ Elements(nodes'[i].outs) \subseteq live'
    <2>1. Elements(<<>>) = {} /\ "adam" \notin Fresh /\ "adam_state" \notin Fresh
      BY DEF Elements, Fresh
    <2>2. {adamState, param, moment, variance} \subseteq live
      <3>1. {adamState, param, moment, variance} \subseteq Leaves \ {input}
        BY DEF adamState, param, moment, variance, Leaves, input
      <3> QED
        BY <3>1 DEF ValueInv, OwnInv
    <2>3. CASE nodes'[i] = tick
      BY <1>2, <1>5, <2>1, <2>2, <2>3
    <2>4. CASE nodes'[i] = step
      BY <1>2, <1>6, <2>1, <2>2, <2>4
    <2> QED
      BY <1>8, <2>3, <2>4
  <1>10. GraphInv'
    <2>1. /\ created <= created' /\ created + 1 .. created' = {}
          /\ n <= Len(nodes')
      <3>1. created \in Nat
        BY IdFacts DEF ValueInv
      <3> QED
        BY <1>2, <1>8, <3>1
    <2>2. \A t \in Ids : t > created => root'[t] = t
      BY <1>2 DEF ValueInv, RootInv
    <2>3. \A i \in n + 1 .. Len(nodes') :
           /\ NodeOK(nodes[i])'
           /\ nodes'[i].op \in Fresh =>
                i = n + 1 /\ \A t \in Produced(nodes'[i]) : t > created
           /\ \A t \in Elements(nodes'[i].temps) :
                t \notin live' /\ t \notin Elements(nodes'[i].outs)
           /\ Elements(nodes'[i].outs) \subseteq live'
      BY <1>9
    <2>4. /\ n = Len(nodes) /\ \A i \in 1 .. n : nodes'[i] = nodes[i]
          /\ \A t \in 1 .. created : root'[t] = root[t]
          /\ live \subseteq live' /\ (\A t \in live' : t \in live \/ t > created)
          /\ registered \subseteq registered'
          /\ (\A t \in created + 1 .. created' : t \in registered')
          /\ (\A t \in registered' : t \in registered \/ t > created)
          /\ phase = "capture"
      BY <1>1, <1>2, <1>7, <1>8, <2>1
    <2> QED
      BY <2>1, <2>2, <2>3, <2>4, GraphGrows
  <1>11. PhaseInv' /\ LifeInv' /\ BoundInv' /\ ArenaInv' /\ SlotInv'
    BY <1>1, CaptureIdle
  <1> QED
    BY <1>4, <1>10, <1>11 DEF ValueInv
-----------------------------------------------------------------------------
(* The other steps.                                                        *)

\* Nothing is captured.
LEMMA GraphKept ==
  ASSUME ValueInv, TypeInv', UNCHANGED <<nodes, root>>, created <= created',
         \A t \in live' : t \in live \/ t > created,
         \A t \in registered' : t \in registered \/ t > created,
         phase' = "capture" =>
           phase = "capture" /\ \A t \in 1 .. created' : t \in registered' \/ t \in 1 .. created,
         registered \subseteq registered'
  PROVE  GraphInv'
  <1>1. /\ created \in Nat /\ created' \in Nat /\ \A t \in Ids : t \in Nat
        /\ 5 <= created
    <2>1. created \in Ids /\ created' \in Ids
      BY DEF ValueInv, TypeInv, TypeParts, TensorType
    <2> QED
      BY <2>1 DEF Ids, ValueInv, RootInv
  <1>2. ASSUME NEW i \in DOMAIN nodes' PROVE NodeOK(nodes[i])'
    <2>1. PICK node : node = nodes[i] /\ nodes'[i] = node
      OBVIOUS
    <2>2. NodeOK(node)
      BY <2>1 DEF ValueInv, GraphInv
    <2>3. NodeOK(node)'
      BY <1>1, <2>2, NodeKept
    <2> QED
      BY <2>1, <2>3
  <1>3. Outputs' = Outputs /\ Temporaries' = Temporaries
    BY DEF Outputs, Temporaries
  <1>4. \A t \in Temporaries : t \in 1 .. created
    <2> SUFFICES ASSUME NEW i \in DOMAIN nodes, NEW t \in Elements(nodes[i].temps)
                 PROVE  t \in 1 .. created
      BY DEF Temporaries
    <2> QED
      BY TouchedAre DEF Touched
  <1>5. \A t \in Temporaries' : /\ t \notin live' /\ t \notin Outputs'
                               /\ \A u \in Ids : root'[u] = t => u = t
    <2>1. \A t \in Temporaries : ~(t > created)
      BY <1>1, <1>4
    <2> QED
      BY <1>3, <2>1 DEF ValueInv, GraphInv
  <1>6. registered' \cap Leaves \subseteq {input}
    <2>1. \A t \in Leaves : ~(t > created)
      BY <1>1 DEF Leaves
    <2> QED
      BY <2>1 DEF ValueInv, GraphInv
  <1>7. phase' = "capture" => (1 .. created') \ Leaves \subseteq registered'
    BY DEF ValueInv, GraphInv
  <1>8. \A i, j \in DOMAIN nodes' : i < j /\ nodes'[j].op \in Fresh =>
          Produced(nodes'[j]) \cap Touched(nodes'[i]) = {}
    BY DEF ValueInv, GraphInv
  <1>9. \A t \in Ids : root'[t] # t => t \in Outputs'
    BY <1>3 DEF ValueInv, GraphInv
  <1> QED
    BY <1>2, <1>5, <1>6, <1>7, <1>8, <1>9 DEF GraphInv

\* from_cpu, ones_like: a tensor the graph knows nothing of.
LEMMA UploadValues == ASSUME ValueInv, TypeInv', Upload PROVE ValueInv'
  <1> PICK out : out = created + 1
    OBVIOUS
  <1>1. /\ phase \in {"capture", "ready"} /\ pc = Idle /\ out \in Ids
        /\ live' = live \cup {out} /\ phase' = phase /\ root' = root /\ nodes' = nodes
        /\ UNCHANGED planVars /\ UNCHANGED execVars
    BY DEF Upload, Between
  <1>2. PICK m \in Acquire(Taken, Bytes[out]) : Create(out, m) /\ content' = Stored(content, m, out)
    BY DEF Upload
  <1>3. RootInv' /\ OwnInv' /\ KeptInv'
    BY <1>1, <1>2, AcquiredFree, NewKept DEF execVars
  <1>4. /\ created' = out /\ created \in Nat
        /\ registered' = IF phase = "capture" THEN registered \cup {out} ELSE registered
    BY <1>2, IdFacts DEF Create, ValueInv
  <1>5. GraphInv'
    <2>1. /\ created <= created' /\ out > created
          /\ \A t \in 1 .. created' : t = out \/ t \in 1 .. created
      BY <1>4
    <2>2. /\ \A t \in live' : t \in live \/ t > created
          /\ \A t \in registered' : t \in registered \/ t > created
          /\ registered \subseteq registered'
          /\ phase' = "capture" =>
               phase = "capture" /\ \A t \in 1 .. created' : t \in registered' \/ t \in 1 .. created
      BY <1>1, <1>4, <2>1
    <2> QED
      BY <1>1, <2>1, <2>2, GraphKept
  <1>6. CASE phase = "capture"
    <2>1. PhaseInv' /\ LifeInv' /\ BoundInv' /\ ArenaInv' /\ SlotInv'
      BY <1>1, <1>6, CaptureIdle
    <2> QED
      BY <1>3, <1>5, <2>1 DEF ValueInv
  <1>7. CASE phase # "capture"
    <2>1. registered' = registered
      BY <1>4, <1>7
    <2>2. PhaseInv'
      BY <1>1 DEF ValueInv, PhaseInv, planVars, execVars
    <2>3. LifeInv'
      BY <1>1, <2>1 DEF ValueInv, LifeInv, planVars
    <2>4. BoundInv'
      <3>1. Inputs' = Inputs /\ Outputs' = Outputs /\ Temporaries' = Temporaries /\ bound' = bound
        BY <1>1 DEF Inputs, Outputs, Temporaries, execVars
      <3>2. ASSUME NEW t \in Ids, bound[t] # 0 PROVE bound[t] <= created'
        <4>1. bound[t] <= created /\ bound[t] \in Nat
          <5>1. bound[t] \in Ids
            BY <3>2 DEF ValueInv, TypeInv, TypeParts, ExecType
          <5> QED
            BY <3>2, <5>1 DEF ValueInv, BoundInv, Ids
        <4> QED
          BY <1>4, <4>1
      <3> QED
        BY <1>1, <3>1, <3>2 DEF ValueInv, BoundInv
    <2>5. ArenaInv'
      BY <1>1 DEF ValueInv, ArenaInv, FinalRoots, Inputs, Outputs, Temporaries, planVars, execVars
    <2>6. SlotInv'
      BY <1>1 DEF SlotInv, execVars
    <2> QED
      BY <1>3, <1>5, <2>2, <2>3, <2>4, <2>5, <2>6 DEF ValueInv
  <1> QED
    BY <1>6, <1>7

\* What a step that leaves tensors and nodes alone keeps.
LEMMA TensorsKept ==
  ASSUME ValueInv, TypeInv', UNCHANGED tensorVars, UNCHANGED nodes,
         phase' = "capture" => phase = "capture"
  PROVE  /\ RootInv' /\ GraphInv'
         /\ Inputs' = Inputs /\ Outputs' = Outputs /\ Temporaries' = Temporaries
         /\ FinalRoots' = FinalRoots
         /\ created' = created /\ live' = live /\ memOf' = memOf /\ root' = root
         /\ registered' = registered
  <1>1. /\ created' = created /\ live' = live /\ memOf' = memOf /\ root' = root
        /\ registered' = registered
    BY DEF tensorVars
  <1>2. RootInv'
    BY <1>1 DEF ValueInv, RootInv
  <1>3. created <= created' /\ \A t \in 1 .. created' : t \in 1 .. created
    BY <1>1, IdFacts DEF ValueInv
  <1>4. GraphInv'
    BY <1>1, <1>3, GraphKept
  <1>5. /\ Inputs' = Inputs /\ Outputs' = Outputs /\ Temporaries' = Temporaries
        /\ FinalRoots' = FinalRoots
    BY <1>1 DEF Inputs, Outputs, Temporaries, FinalRoots
  <1> QED
    BY <1>1, <1>2, <1>4, <1>5

\* Nobody replays before the plan is ready.
LEMMA IdleBefore == ASSUME ValueInv, phase # "ready" PROVE pc = Idle /\ arena = {} /\ \A t \in Ids : bound[t] = 0
  BY DEF ValueInv, PhaseInv, TypeInv, TypeParts, PcType

\* Fewer tensors are held.
LEMMA DropValues == ASSUME ValueInv, TypeInv', NEW t \in live, Drop(t) PROVE ValueInv'
  <1>1. /\ pc = Idle /\ t \notin Leaves \ {input} /\ live' = live \ {t}
        /\ UNCHANGED <<phase, created, memOf, memBytes, root, registered, nodes, content>>
        /\ UNCHANGED planVars /\ UNCHANGED execVars
    BY DEF Drop, Between
  <1>2. Owners' \subseteq Owners
    BY <1>1 DEF Owners, execVars
  <1>3. RootInv'
    BY <1>1 DEF ValueInv, RootInv
  <1>4. OwnInv' /\ KeptInv'
    BY <1>1, <1>2 DEF ValueInv, OwnInv, KeptInv, KeptIn, InPlace, execVars
  <1>5. GraphInv'
    <2>1. created <= created' /\ \A u \in 1 .. created' : u \in 1 .. created
      BY <1>1, IdFacts DEF ValueInv
    <2> QED
      BY <1>1, <2>1, GraphKept
  <1>6. PhaseInv' /\ LifeInv' /\ SlotInv'
    BY <1>1 DEF ValueInv, PhaseInv, LifeInv, SlotInv, planVars, execVars
  <1>7. BoundInv' /\ ArenaInv'
    BY <1>1 DEF ValueInv, BoundInv, ArenaInv, FinalRoots, Inputs, Outputs, Temporaries, planVars, execVars
  <1> QED
    BY <1>3, <1>4, <1>5, <1>6, <1>7 DEF ValueInv

\* The steps of plan_buffers that leave the lifetimes alone: nothing uses the slots yet.
LEMMA PlanningValues ==
  ASSUME ValueInv, TypeInv', phase # "ready", phase' # "ready", phase' # "capture",
         phase' = "place" => scan = Len(nodes), UNCHANGED tensorVars,
         UNCHANGED <<nodes, content, scan, first, last>>, UNCHANGED execVars
  PROVE  ValueInv'
  <1>1. /\ RootInv' /\ GraphInv'
        /\ Inputs' = Inputs /\ Outputs' = Outputs /\ Temporaries' = Temporaries
        /\ FinalRoots' = FinalRoots
        /\ created' = created /\ live' = live /\ memOf' = memOf /\ root' = root
        /\ registered' = registered
    BY TensorsKept
  <1>2. pc = Idle /\ arena = {} /\ \A t \in Ids : bound[t] = 0
    BY IdleBefore
  <1>3. OwnInv' /\ KeptInv'
    BY <1>1 DEF ValueInv, OwnInv, KeptInv, KeptIn, InPlace, Owners, execVars
  <1>4. PhaseInv' /\ LifeInv' /\ BoundInv' /\ ArenaInv' /\ SlotInv'
    BY <1>1, <1>2
    DEF ValueInv, PhaseInv, LifeInv, BoundInv, ArenaInv, SlotInv, execVars
  <1> QED
    BY <1>1, <1>3, <1>4 DEF ValueInv

\* The arena is made, or there is none.
LEMMA EndPlanValues == ASSUME ValueInv, TypeInv', EndPlan PROVE ValueInv'
  <1>1. /\ phase = "place" /\ phase' = "ready" /\ nodes' = nodes /\ content' = content
        /\ arena' \in {{}, ArenaIds} /\ bound' = bound /\ pc' = pc
        /\ UNCHANGED tensorVars /\ UNCHANGED planVars
    BY DEF EndPlan
  <1>2. /\ RootInv' /\ GraphInv'
        /\ Inputs' = Inputs /\ Outputs' = Outputs /\ Temporaries' = Temporaries
        /\ FinalRoots' = FinalRoots
        /\ created' = created /\ live' = live /\ memOf' = memOf /\ root' = root
        /\ registered' = registered
    BY <1>1, TensorsKept
  <1>3. pc = Idle /\ arena = {} /\ \A t \in Ids : bound[t] = 0
    BY <1>1, IdleBefore
  <1>4. OwnInv' /\ KeptInv'
    <2>1. Owners' = Owners
      BY <1>1, <1>2 DEF Owners
    <2>2. \A t \in Owners : root[t] = t => content[memOf[t]] = t
      BY <1>3 DEF ValueInv, KeptInv, KeptIn, InPlace
    <2> QED
      BY <1>1, <1>2, <2>1, <2>2 DEF ValueInv, OwnInv, KeptInv, KeptIn, InPlace
  <1>5. PhaseInv' /\ LifeInv' /\ BoundInv' /\ SlotInv'
    BY <1>1, <1>2, <1>3 DEF ValueInv, PhaseInv, LifeInv, BoundInv, SlotInv, planVars
  <1>6. ArenaInv'
    <2>1. \A t \in ArenaIds : slotOf[t] # 0 /\ (t \in Temporaries \/ root[t] \notin FinalRoots)
      BY DEF ArenaIds
    <2> QED
      BY <1>1, <1>2, <2>1 DEF ArenaInv, planVars
  <1> QED
    BY <1>2, <1>4, <1>5, <1>6 DEF ValueInv
\* One more node is folded into the lifetimes.
LEMMA ScanValues == ASSUME ValueInv, TypeInv', ScanNode PROVE ValueInv'
  <1> DEFINE i    == scan + 1
             node == nodes[i]
             taken == {t \in Uses(node) : first[t] # 0}
             new  == {t \in Elements(node.outs) \cup Elements(node.temps) :
                        node.op # "view" /\ t \in registered /\ first[t] = 0}
  <1>1. /\ phase = "scan" /\ phase' = "scan" /\ nodes' = nodes /\ content' = content
        /\ i <= Len(nodes) /\ scan' = i /\ UNCHANGED tensorVars /\ UNCHANGED execVars
        /\ slotOf' = slotOf
        /\ first' = [t \in Ids |-> IF t \in new THEN i ELSE first[t]]
        /\ last' = [t \in Ids |-> IF t \in new \cup taken THEN i ELSE last[t]]
    BY DEF ScanNode
  <1>2. /\ RootInv' /\ GraphInv'
        /\ Inputs' = Inputs /\ Outputs' = Outputs /\ Temporaries' = Temporaries
        /\ FinalRoots' = FinalRoots
        /\ created' = created /\ live' = live /\ memOf' = memOf /\ root' = root
        /\ registered' = registered
    BY <1>1, TensorsKept
  <1>3. pc = Idle /\ arena = {} /\ \A t \in Ids : bound[t] = 0
    BY <1>1, IdleBefore
  <1>4. OwnInv' /\ KeptInv'
    BY <1>1, <1>2 DEF ValueInv, OwnInv, KeptInv, KeptIn, InPlace, Owners, execVars
  <1>5. PhaseInv' /\ BoundInv' /\ ArenaInv' /\ SlotInv'
    BY <1>1, <1>2, <1>3 DEF ValueInv, PhaseInv, BoundInv, ArenaInv, SlotInv, execVars
  <1>6. /\ scan \in Nat /\ i \in Nat /\ DOMAIN nodes = 1 .. Len(nodes) /\ i \in DOMAIN nodes
        /\ \A n \in 1 .. i : n \in 1 .. scan \/ n = i
        /\ \A n \in 1 .. scan : n \in 1 .. i /\ n < i /\ n \in DOMAIN nodes
        /\ first \in [Ids -> Nat] /\ last \in [Ids -> Nat]
        /\ \A t \in Ids : first[t] <= scan /\ last[t] <= scan
        /\ i # 0 /\ i \in 1 .. i
    <2>1. /\ scan \in Nat /\ first \in [Ids -> Nat] /\ last \in [Ids -> Nat]
          /\ \A t \in Ids : first[t] <= scan /\ last[t] <= scan
      BY DEF ValueInv, TypeInv, TypeParts, ScanType, PlanInv, PlanType
    <2>2. DOMAIN nodes = 1 .. Len(nodes) /\ Len(nodes) \in Nat
      BY NodesTyped
    <2>3. i \in Nat /\ i \in DOMAIN nodes /\ i # 0 /\ i \in 1 .. i
      BY <1>1, <2>1, <2>2
    <2>4. \A n \in 1 .. i : n \in 1 .. scan \/ n = i
      BY <2>1
    <2>5. \A n \in 1 .. scan : n \in 1 .. i /\ n < i /\ n \in DOMAIN nodes
      BY <1>1, <2>1, <2>2
    <2> QED
      BY <2>1, <2>2, <2>3, <2>4, <2>5
  <1>7. /\ new \subseteq Produced(node) /\ node \in NodeType
        /\ Produced(node) \subseteq Ids /\ \A u \in Elements(node.ins) : u \in Ids /\ root[u] \in Ids
        /\ \A t \in new : node.op # "view" /\ t \in registered /\ first[t] = 0 /\ t \in Ids
        /\ \A t \in Produced(node) : node.op # "view" /\ t \in registered => t \in new \/ first[t] # 0
    <2>1. Touched(node) \subseteq Ids /\ Produced(node) \subseteq Touched(node)
          /\ Elements(node.ins) \subseteq Touched(node)
      BY <1>6, TouchedAre, IdFacts DEF ValueInv
    <2>2. new \subseteq Produced(node) /\ node \in NodeType
      BY <1>6, NodesTyped DEF Produced
    <2>3. root \in [Ids -> Ids]
      BY DEF ValueInv, TypeInv, TypeParts, TensorType
    <2> QED
      BY <2>1, <2>2, <2>3 DEF Produced
  <1>8. \A u \in Elements(node.ins) : first[root[u]] # 0 => root[u] \in taken
    BY <1>7 DEF Uses
  <1>9. \A t \in Ids : /\ first'[t] = IF t \in new THEN i ELSE first[t]
                       /\ last'[t] = IF t \in new \cup taken THEN i ELSE last[t]
    BY <1>1
  <1> HIDE DEF new, taken, node
  <1>10. ASSUME NEW t \in Ids, first'[t] # 0
         PROVE  /\ first'[t] \in 1 .. scan' /\ nodes'[first'[t]].op # "view"
                /\ t \in Produced(nodes'[first'[t]]) /\ t \in registered'
    <2>1. CASE t \in new
      BY <1>1, <1>2, <1>6, <1>7, <1>9, <2>1 DEF node
    <2>2. CASE t \notin new
      <3>1. first'[t] = first[t]
        BY <1>9, <2>2
      <3>2. /\ first[t] \in 1 .. scan /\ nodes[first[t]].op # "view"
            /\ t \in Produced(nodes[first[t]]) /\ t \in registered
        BY <1>10, <3>1 DEF ValueInv, LifeInv
      <3> QED
        BY <1>1, <1>2, <1>6, <3>1, <3>2
    <2> QED
      BY <2>1, <2>2
  <1>11. ASSUME NEW n \in 1 .. scan', NEW t \in Produced(nodes'[n]), nodes'[n].op # "view",
                t \in registered'
         PROVE  first'[t] # 0 /\ first'[t] <= n
    <2>1. CASE n = i
      <3>1. t \in Produced(node) /\ node.op # "view" /\ t \in registered /\ t \in Ids
        BY <1>1, <1>2, <1>7, <1>11, <2>1 DEF node
      <3>2. CASE t \in new
        BY <1>6, <1>9, <2>1, <3>1, <3>2
      <3>3. CASE t \notin new
        <4>1. first[t] # 0 /\ first'[t] = first[t] /\ first[t] <= scan /\ first[t] \in Nat
          BY <1>6, <1>7, <1>9, <3>1, <3>3
        <4> QED
          BY <1>6, <2>1, <4>1
      <3> QED
        BY <3>2, <3>3
    <2>2. CASE n \in 1 .. scan
      <3>1. first[t] # 0 /\ first[t] <= n
        BY <1>1, <1>2, <1>11, <2>2 DEF ValueInv, LifeInv
      <3>2. n \in DOMAIN nodes
        BY <1>6, <2>2
      <3>3. t \in Ids
        BY <1>1, <1>11, <3>2, TouchedAre, IdFacts DEF ValueInv
      <3>4. t \notin new
        BY <1>7, <3>1
      <3> QED
        BY <1>9, <3>1, <3>3, <3>4
    <2> QED
      BY <1>1, <1>6, <2>1, <2>2
  <1>12. ASSUME NEW n \in 1 .. scan', NEW u \in Elements(nodes'[n].ins),
                first'[root'[u]] # 0, first'[root'[u]] < n
         PROVE  n <= last'[root'[u]]
    <2> DEFINE r == root[u]
    <2>1. n \in DOMAIN nodes /\ nodes'[n] = nodes[n] /\ root' = root
      BY <1>1, <1>2, <1>6
    <2>2. u \in Ids /\ r \in Ids
      <3>1. u \in Ids
        BY <1>12, <2>1, TouchedAre, IdFacts DEF ValueInv
      <3> QED
        BY <3>1 DEF ValueInv, TypeInv, TypeParts, TensorType
    <2>3. first'[r] # 0 /\ first'[r] < n
      BY <1>12, <2>1
    <2>4. n \in Nat /\ n <= i
      BY <1>1, <1>6
    <2> HIDE DEF r
    <2>5. r \notin new
      <3> SUFFICES ASSUME r \in new PROVE FALSE
        OBVIOUS
      <3>1. first'[r] = i
        BY <1>9, <2>2
      <3> QED
        BY <1>6, <2>3, <2>4, <3>1
    <2>6. first[r] # 0 /\ first[r] < n
      BY <1>9, <2>2, <2>3, <2>5
    <2>7. CASE n = i
      <3>1. r \in taken
        BY <1>8, <2>1, <2>6, <2>7 DEF node, r
      <3> QED
        BY <1>6, <1>9, <2>1, <2>2, <2>7, <3>1 DEF r
    <2>8. CASE n \in 1 .. scan
      <3>1. n <= last[r]
        BY <2>1, <2>6, <2>8 DEF ValueInv, LifeInv, r
      <3>2. last'[r] = i \/ last'[r] = last[r]
        BY <1>9, <2>2
      <3> QED
        BY <2>1, <2>4, <3>1, <3>2 DEF r
    <2> QED
      BY <1>1, <1>6, <2>7, <2>8
  <1>13. LifeInv'
    BY <1>10, <1>11, <1>12 DEF LifeInv
  <1> QED
    BY <1>2, <1>4, <1>5, <1>13 DEF ValueInv

\* bind_tensor: to a tensor of the caller's own.
LEMMA BindValues ==
  ASSUME ValueInv, TypeInv', NEW t \in Bindable, NEW u \in Strangers, Bind(t, u)
  PROVE  ValueInv'
  <1>1. /\ phase = "ready" /\ phase' = "ready" /\ pc = Idle /\ pc' = pc /\ nodes' = nodes
        /\ content' = content /\ arena' = arena /\ bound' = [bound EXCEPT ![t] = u]
        /\ UNCHANGED tensorVars /\ UNCHANGED planVars
    BY DEF Bind, Between
  <1>2. /\ RootInv' /\ GraphInv'
        /\ Inputs' = Inputs /\ Outputs' = Outputs /\ Temporaries' = Temporaries
        /\ FinalRoots' = FinalRoots
        /\ created' = created /\ live' = live /\ memOf' = memOf /\ root' = root
        /\ registered' = registered
    BY <1>1, TensorsKept
  <1>3. u \in live /\ u \notin Inputs /\ u \notin Outputs /\ u \notin Leaves
    BY DEF Strangers
  <1>4. u \in Ids /\ u <= created /\ bound \in [Ids -> Ids \cup {0}]
    BY <1>3, IdFacts DEF ValueInv, TypeInv, TypeParts, TensorType, ExecType
  <1>5. root[u] = u /\ u \notin Temporaries
    BY <1>3, <1>4 DEF ValueInv, GraphInv
  <1>6. \A x \in Ids : bound'[x] = bound[x] \/ bound'[x] = u
    BY <1>1, <1>4
  <1>7. Owners' \subseteq Owners
    <2>1. DOMAIN bound = Ids /\ DOMAIN bound' = Ids
      BY <1>1, <1>4
    <2>2. \A x \in Elements(bound') : x \in Elements(bound) \/ x = u
      BY <1>6, <2>1 DEF Elements
    <2> QED
      BY <1>2, <1>3, <2>2 DEF Owners
  <1>8. OwnInv' /\ KeptInv'
    BY <1>1, <1>2, <1>7 DEF ValueInv, OwnInv, KeptInv, KeptIn, InPlace
  <1>9. BoundInv'
    BY <1>2, <1>3, <1>4, <1>5, <1>6 DEF ValueInv, BoundInv
  <1>10. PhaseInv' /\ LifeInv' /\ ArenaInv' /\ SlotInv'
    BY <1>1, <1>2 DEF ValueInv, PhaseInv, LifeInv, ArenaInv, SlotInv, planVars
  <1> QED
    BY <1>2, <1>8, <1>9, <1>10 DEF ValueInv

\* clear_bindings: tensors stand for themselves again.
LEMMA ClearValues == ASSUME ValueInv, TypeInv', ClearBindings PROVE ValueInv'
  <1>1. /\ phase = "ready" /\ phase' = "ready" /\ pc = Idle /\ pc' = pc /\ nodes' = nodes
        /\ content' = content /\ arena' = arena /\ bound' = [t \in Ids |-> 0]
        /\ UNCHANGED tensorVars /\ UNCHANGED planVars
    BY DEF ClearBindings, Between
  <1>2. /\ RootInv' /\ GraphInv'
        /\ Inputs' = Inputs /\ Outputs' = Outputs /\ Temporaries' = Temporaries
        /\ FinalRoots' = FinalRoots
        /\ created' = created /\ live' = live /\ memOf' = memOf /\ root' = root
        /\ registered' = registered
    BY <1>1, TensorsKept
  <1>3. Owners' \subseteq Owners
    <2>1. Elements(bound') \subseteq {0}
      BY <1>1 DEF Elements
    <2> QED
      BY <1>2, <2>1 DEF Owners
  <1>4. OwnInv' /\ KeptInv'
    BY <1>1, <1>2, <1>3 DEF ValueInv, OwnInv, KeptInv, KeptIn, InPlace
  <1>5. BoundInv'
    BY <1>1 DEF BoundInv
  <1>6. PhaseInv' /\ LifeInv' /\ ArenaInv' /\ SlotInv'
    BY <1>1, <1>2 DEF ValueInv, PhaseInv, LifeInv, ArenaInv, SlotInv, planVars
  <1> QED
    BY <1>2, <1>4, <1>5, <1>6 DEF ValueInv

-----------------------------------------------------------------------------
(* Replay.                                                                 *)

\* What the executor leaves alone.
LEMMA ExecutorKeeps ==
  ASSUME ValueInv, TypeInv', phase = "ready",
         UNCHANGED <<phase, tensorVars, nodes, planVars, arena, bound>>
  PROVE  /\ RootInv' /\ OwnInv' /\ GraphInv' /\ LifeInv' /\ BoundInv' /\ ArenaInv'
         /\ Owners' = Owners /\ memOf' = memOf /\ root' = root /\ nodes' = nodes /\ arena' = arena
         /\ bound' = bound /\ first' = first /\ last' = last /\ slotOf' = slotOf
         /\ Supported' = Supported /\ (Supported => PhaseInv')
  <1>1. UNCHANGED tensorVars /\ UNCHANGED planVars
    OBVIOUS
  <1>2. /\ RootInv' /\ GraphInv'
        /\ Inputs' = Inputs /\ Outputs' = Outputs /\ Temporaries' = Temporaries
        /\ FinalRoots' = FinalRoots
        /\ created' = created /\ live' = live /\ memOf' = memOf /\ root' = root
        /\ registered' = registered
    BY <1>1, TensorsKept
  <1>3. scan' = scan /\ first' = first /\ last' = last /\ slotOf' = slotOf
    BY DEF planVars
  <1>4. Owners' = Owners
    BY <1>2 DEF Owners
  <1>5. OwnInv' /\ LifeInv' /\ BoundInv' /\ ArenaInv'
    BY <1>2, <1>3, <1>4 DEF ValueInv, OwnInv, LifeInv, BoundInv, ArenaInv
  <1>6. Supported' = Supported
    <2>1. Args' = Args
      BY DEF Args
    <2> QED
      BY <1>2, <1>3, <2>1 DEF Supported, Redirected
  <1>7. Supported => PhaseInv'
    BY <1>3, <1>6 DEF ValueInv, PhaseInv
  <1> QED
    BY <1>2, <1>3, <1>4, <1>5, <1>6, <1>7

\* execute begins, from a state it supports.
LEMMA StartValues == ASSUME ValueInv, TypeInv', StartExecute PROVE ValueInv'
  <1>1. /\ phase = "ready" /\ Supported /\ pc' = [node |-> 1, launch |-> 1] /\ content' = content
        /\ UNCHANGED <<phase, tensorVars, nodes, planVars, arena, bound>>
    BY DEF StartExecute
  <1>2. /\ RootInv' /\ OwnInv' /\ GraphInv' /\ LifeInv' /\ BoundInv' /\ ArenaInv' /\ PhaseInv'
        /\ Owners' = Owners /\ memOf' = memOf /\ root' = root /\ arena' = arena
        /\ first' = first
    BY <1>1, ExecutorKeeps
  <1>3. KeptInv'
    BY <1>1, <1>2 DEF ValueInv, KeptInv, KeptIn, InPlace
  <1>4. SlotInv'
    <2>1. ASSUME NEW t \in arena, Born(t)' PROVE FALSE
      <3>1. first[t] \in Nat /\ first[t] # 0
        BY ArenaFacts, NodesTyped
      <3>2. pc'.node = 1 /\ pc'.launch = 1
        BY <1>1
      <3>3. ~(first[t] < 1) /\ 1 .. 1 - 1 = {}
        BY <3>1
      <3> QED
        BY <1>2, <2>1, <3>2, <3>3 DEF Born
    <2> QED
      BY <1>2, <2>1 DEF SlotInv
  <1> QED
    BY <1>2, <1>3, <1>4 DEF ValueInv

\* The next node: what the last one produced is born, and lifetimes may have ended.
LEMMA NextNodeValues == ASSUME ValueInv, TypeInv', NextNode PROVE ValueInv'
  <1> DEFINE n == pc.node
  <1>1. /\ Running /\ pc.launch > Len(nodes[n].launches)
        /\ pc' = [node |-> n + 1, launch |-> 1] /\ content' = content
        /\ UNCHANGED <<phase, tensorVars, nodes, planVars, arena, bound>>
    BY DEF NextNode
  <1>2. /\ Supported /\ phase = "ready" /\ n \in DOMAIN nodes /\ n \in Nat /\ pc.launch \in Nat
        /\ DOMAIN nodes[n].launches = 1 .. Len(nodes[n].launches)
        /\ Len(nodes[n].launches) \in Nat
    <2>1. /\ nodes[n].launches \in Seq(SUBSET ArgType)
      BY <1>1, RunningSupported
    <2> QED
      BY <1>1, <2>1, RunningSupported, LenProperties
  <1>3. /\ RootInv' /\ OwnInv' /\ GraphInv' /\ LifeInv' /\ BoundInv' /\ ArenaInv' /\ PhaseInv'
        /\ Owners' = Owners /\ memOf' = memOf /\ root' = root /\ arena' = arena
        /\ bound' = bound /\ first' = first /\ last' = last /\ slotOf' = slotOf
    BY <1>1, <1>2, ExecutorKeeps
  <1>4. KeptInv'
    BY <1>1, <1>3 DEF ValueInv, KeptInv, KeptIn, InPlace
  <1>5. SlotInv'
    <2> SUFFICES ASSUME NEW t \in arena \ Leaves, bound[t] = 0, Born(t)', n + 1 <= last[t]
                 PROVE  content[Slot(slotOf[t])] = t
      BY <1>1, <1>3 DEF SlotInv
    <2>1. /\ first[t] \in DOMAIN nodes /\ first[t] \in Nat /\ last[t] \in Nat
          /\ nodes[first[t]].op # "view" /\ NodeOK(nodes[first[t]])
          /\ t \in Produced(nodes[first[t]]) /\ t \in Ids
      <3>1. t \in Ids
        BY ArenaFacts
      <3>2. last[t] \in Nat /\ first[t] \in Nat
        BY <3>1 DEF ValueInv, TypeInv, PlanInv, PlanType
      <3> QED
        BY <3>1, <3>2, ArenaFacts
    <2>2. first[t] < n + 1
      <3>1. pc'.node = n + 1 /\ pc'.launch = 1 /\ 1 .. 1 - 1 = {}
        BY <1>1
      <3>2. ~(\E j \in 1 .. pc'.launch - 1 : TRUE)
        BY <3>1
      <3> QED
        BY <1>3, <3>1, <3>2 DEF Born
    <2>3. Born(t)
      <3>1. CASE first[t] < n
        BY <3>1 DEF Born
      <3>2. CASE first[t] = n
        <4>1. PICK k \in DOMAIN nodes[n].launches : Writes(nodes[n].launches[k], t)
          BY <2>1, <3>2 DEF NodeOK
        <4>2. k \in 1 .. pc.launch - 1
          BY <1>1, <1>2
        <4> QED
          BY <3>2, <4>1, <4>2 DEF Born
      <3> QED
        BY <1>2, <2>1, <2>2, <3>1, <3>2
    <2>4. n <= last[t]
      BY <1>2, <2>1
    <2> QED
      BY <1>1, <2>3, <2>4 DEF ValueInv, SlotInv, Running
  <1> QED
    BY <1>3, <1>4, <1>5 DEF ValueInv

\* execute ends: slots hold nothing that is of use.
LEMMA EndExecuteValues == ASSUME ValueInv, TypeInv', EndExecute PROVE ValueInv'
  <1>1. /\ Running /\ pc' = Idle /\ content' = content
        /\ UNCHANGED <<phase, tensorVars, nodes, planVars, arena, bound>>
    BY DEF EndExecute
  <1>2. Supported /\ phase = "ready"
    BY <1>1, RunningSupported
  <1>3. /\ RootInv' /\ OwnInv' /\ GraphInv' /\ LifeInv' /\ BoundInv' /\ ArenaInv' /\ PhaseInv'
        /\ Owners' = Owners /\ memOf' = memOf /\ root' = root /\ arena' = arena
    BY <1>1, <1>2, ExecutorKeeps
  <1>4. KeptInv'
    BY <1>1, <1>3 DEF ValueInv, KeptInv, KeptIn, InPlace
  <1>5. SlotInv'
    BY <1>1 DEF SlotInv
  <1> QED
    BY <1>3, <1>4, <1>5 DEF ValueInv

-----------------------------------------------------------------------------
(* Slots, counted: what keeps their locations apart from one another.       *)

\* The arena has no more slots than there are tensors.
SlotCount == Len(allocs) <= Cardinality({t \in Ids : slotOf[t] # 0})

\* There are no more slots in use than tensors placed.
LEMMA InitCount == Init => SlotCount
  <1> SUFFICES ASSUME Init PROVE SlotCount
    OBVIOUS
  <1>1. {t \in Ids : slotOf[t] # 0} = {} /\ Len(allocs) = 0
    BY DEF Init
  <1> QED
    BY <1>1, FS_EmptySet DEF SlotCount

\* One more tensor is placed, in at most one more slot.
LEMMA PlacedCount ==
  ASSUME SlotCount, NEW t \in Ids, NEW a \in Nat \ {0}, slotOf[t] = 0, DOMAIN slotOf = Ids,
         slotOf' = [slotOf EXCEPT ![t] = a], Len(allocs) \in Nat, Len(allocs') \in Nat,
         Len(allocs') <= Len(allocs) + 1
  PROVE  SlotCount'
  <1> DEFINE placed == {u \in Ids : slotOf[u] # 0}
  <1>1. IsFiniteSet(placed) /\ Cardinality(placed) \in Nat
    <2>1. IsFiniteSet(Ids)
      BY ConstantsAssumption, FS_Interval DEF Ids
    <2>2. placed \subseteq Ids
      OBVIOUS
    <2> QED
      BY <2>1, <2>2, FS_Subset, FS_CardinalityType
  <1>2. placed' = placed \cup {t} /\ t \notin placed
    <2>1. \A u \in Ids : slotOf'[u] = IF u = t THEN a ELSE slotOf[u]
      OBVIOUS
    <2> QED
      BY <2>1
  <1> HIDE DEF placed
  <1>3. Cardinality(placed \cup {t}) = Cardinality(placed) + 1
    BY <1>1, <1>2, FS_AddElement
  <1>4. Len(allocs) <= Cardinality(placed)
    BY DEF SlotCount, placed
  <1>5. Len(allocs') <= Cardinality(placed')
    BY <1>1, <1>2, <1>3, <1>4
  <1> QED
    BY <1>5 DEF SlotCount, placed

\* Every step keeps that count.
LEMMA NextCount == ASSUME PlanInv, SlotCount, [Next]_vars PROVE SlotCount'
  <1>1. allocs \in Seq(Allocations) /\ slotOf \in [Ids -> Nat] /\ Len(allocs) \in Nat
        /\ DOMAIN allocs = 1 .. Len(allocs)
    BY LenProperties DEF PlanInv, PlanType
  <1>2. ASSUME NEW t \in Ids, PlaceNew(t) PROVE SlotCount'
    <2>1. /\ slotOf[t] = 0 /\ slotOf' = [slotOf EXCEPT ![t] = Len(allocs) + 1]
          /\ allocs' = Append(allocs, [bytes |-> Bytes[t], free |-> last[t]])
      BY <1>2 DEF PlaceNew, IsNext, Unplaced
    <2>2. [bytes |-> Bytes[t], free |-> last[t]] \in Allocations
      BY ConstantsAssumption DEF Allocations, PlanInv, PlanType
    <2>3. Len(allocs') = Len(allocs) + 1
      BY <1>1, <2>1, <2>2, AppendProperties
    <2>4. /\ Len(allocs) + 1 \in Nat \ {0} /\ DOMAIN slotOf = Ids /\ Len(allocs') \in Nat
          /\ Len(allocs') <= Len(allocs) + 1
      BY <1>1, <2>3
    <2> QED
      BY <1>1, <2>1, <2>4, PlacedCount
  <1>3. ASSUME NEW t \in Ids, NEW a \in DOMAIN allocs, PlaceReused(t, a) PROVE SlotCount'
    <2>1. /\ slotOf[t] = 0 /\ slotOf' = [slotOf EXCEPT ![t] = a]
          /\ allocs' = [allocs EXCEPT ![a].free = last[t]]
      BY <1>3 DEF PlaceReused, IsNext, Unplaced
    <2>2. a \in Nat \ {0}
      BY <1>1
    <2>3. Len(allocs') = Len(allocs)
      <3>1. DOMAIN allocs' = 1 .. Len(allocs)
        BY <1>1, <2>1
      <3>2. allocs' \in Seq(Allocations)
        <4>1. last[t] \in Nat
          BY DEF PlanInv, PlanType
        <4>2. allocs[a] \in Allocations
          BY <1>1, ElementOfSeq
        <4>3. [allocs[a] EXCEPT !.free = last[t]] \in Allocations
          BY <4>1, <4>2 DEF Allocations
        <4> QED
          BY <1>1, <2>1, <4>3, ExceptSeq
      <3>3. DOMAIN allocs' = 1 .. Len(allocs') /\ Len(allocs') \in Nat
        BY <3>2, LenProperties
      <3> QED
        BY <1>1, <3>1, <3>3
    <2>4. /\ DOMAIN slotOf = Ids /\ Len(allocs') \in Nat /\ Len(allocs') <= Len(allocs) + 1
      BY <1>1, <2>3
    <2> QED
      BY <1>1, <2>1, <2>2, <2>4, PlacedCount
  <1>4. UNCHANGED <<slotOf, allocs>> => SlotCount'
    BY DEF SlotCount
  <1> USE <1>4 DEF planVars
  <1>5. ASSUME NEW ins, Map(ins) PROVE SlotCount'
    BY <1>5 DEF Map
  <1>6. ASSUME NEW t, NEW u, Loss(t, u) \/ View(t) \/ Update(t, u) \/ AdamStep(t) PROVE SlotCount'
    BY <1>6 DEF Loss, View, Update, AdamStep
  <1>7. ASSUME EndCapture \/ Upload \/ ScanNode \/ EndScan \/ EndPlan \/ ClearBindings PROVE SlotCount'
    BY <1>7 DEF EndCapture, Upload, ScanNode, EndScan, EndPlan, ClearBindings
  <1>8. ASSUME NEW t, NEW u, Drop(t) \/ Bind(t, u) PROVE SlotCount'
    BY <1>8 DEF Drop, Bind
  <1>9. ASSUME StartExecute \/ Replay \/ NextNode \/ EndExecute PROVE SlotCount'
    BY <1>9 DEF StartExecute, Replay, NextNode, EndExecute
  <1>10. ASSUME UNCHANGED vars PROVE SlotCount'
    BY <1>10 DEF vars
  <1> QED
    BY <1>2, <1>3, <1>5, <1>6, <1>7, <1>8, <1>9, <1>10 DEF Next

\* A slot is a location of its own.
LEMMA SlotFacts ==
  ASSUME ValueInv, SlotCount, NEW t \in arena
  PROVE  /\ Slot(slotOf[t]) \in Locations /\ Slot(slotOf[t]) \notin Mems \cup {0}
         /\ \A u \in arena : Slot(slotOf[u]) = Slot(slotOf[t]) => slotOf[u] = slotOf[t]
  <1>1. \A u \in arena : slotOf[u] \in Nat /\ slotOf[u] # 0 /\ u \in Ids
    BY ArenaFacts DEF ValueInv, TypeInv, PlanInv, PlanType
  <1>2. slotOf[t] <= MaxTensors
    <2>1. IsFiniteSet(Ids) /\ Cardinality(Ids) = MaxTensors
      <3>1. 1 \in Int /\ MaxTensors \in Int /\ MaxTensors >= 1
        BY ConstantsAssumption
      <3>2. IsFiniteSet(1 .. MaxTensors)
            /\ Cardinality(1 .. MaxTensors) = IF 1 > MaxTensors THEN 0 ELSE MaxTensors - 1 + 1
        BY <3>1, FS_Interval
      <3> QED
        BY <3>1, <3>2 DEF Ids
    <2>2. {u \in Ids : slotOf[u] # 0} \subseteq Ids
      OBVIOUS
    <2>3. PICK c : c = Cardinality({u \in Ids : slotOf[u] # 0})
      OBVIOUS
    <2>4. c <= MaxTensors /\ c \in Nat
      BY <2>1, <2>2, <2>3, FS_Subset, FS_CardinalityType
    <2>5. Len(allocs) <= c /\ Len(allocs) \in Nat
      BY <2>3, LenProperties DEF SlotCount, ValueInv, TypeInv, PlanInv, PlanType
    <2>6. slotOf[t] \in 1 .. Len(allocs)
      BY <1>1, LenProperties DEF ValueInv, TypeInv, PlanInv, PlanType, FreeAfter
    <2> QED
      BY <2>4, <2>5, <2>6, ConstantsAssumption
  <1> QED
    BY <1>1, <1>2, ConstantsAssumption DEF Slot, Locations, Mems

\* A replayed launch writes tensors that are no views, each at its place, whether or not
\* others are views of them.
LEMMA WriterFacts ==
  ASSUME ValueInv, Supported, Habits \subseteq {"views", "update_unbound"}, NEW i \in DOMAIN nodes,
         NEW k \in DOMAIN nodes[i].launches, NEW arg \in nodes[i].launches[k], arg.writes
  PROVE  /\ arg.t \in Ids /\ root[arg.t] = arg.t
         /\ arg.t \in Produced(nodes[i]) /\ nodes[i].op # "view"
         /\ Meant(arg.t) = Value(arg.t) /\ Location(arg) = Place(arg.t)
         /\ arg.t \in live \/ bound[arg.t] # 0 \/ arg.t \in arena
  <1>1. NodeOK(nodes[i])
    BY DEF ValueInv, GraphInv
  <1>2. arg.t \in Produced(nodes[i]) /\ root[arg.t] = arg.t /\ nodes[i].op # "view"
    BY <1>1 DEF NodeOK, ArgOK
  <1>3. arg \in Args
    BY ArgsOf
  <1> DEFINE node == nodes[i]
             t == arg.t
  <1>4. /\ t \in Touched(node) /\ arg.via \in Touched(node) \cup {0} /\ Touched(node) \subseteq Ids
        /\ node.op # "adam" => arg.via # 0 /\ root[arg.via] = t
        /\ node.op = "adam" => t \in Elements(node.ins)
                               /\ arg.via \in Elements(node.ins) \cup {0}
        /\ \A u \in Touched(node), v \in Produced(node) : root[u] = v => u = v
    BY <1>1, <1>2, TouchedAre, IdFacts DEF NodeOK, ArgOK, ValueInv
  <1>5. \A u \in Ids : u # 0 /\ (Redirected(u) <=> bound[u] # 0 \/ u \in arena)
    BY IdFacts DEF Redirected, ValueInv
  <1>6. Meant(t) = Value(t)
    BY <1>2 DEF Meant, Value
  <1>7. arg.via = t \/ (~Redirected(arg.via) /\ ~Redirected(t))
    <2>1. CASE node.op # "adam"
      BY <1>2, <1>4, <2>1
    <2>2. CASE node.op = "adam"
      <3>1. \A u \in Elements(node.ins) : ~Redirected(u)
        BY <2>2 DEF Supported
      <3>2. ~Redirected(0)
        BY DEF Redirected
      <3> QED
        BY <1>4, <2>2, <3>1, <3>2
    <2> QED
      BY <2>1, <2>2
  <1>8. Location(arg) = Place(t)
    BY <1>4, <1>5, <1>7 DEF Location, Place
  <1>9. t \in live \/ bound[t] # 0 \/ t \in arena
    <2>1. t \in live \/ Redirected(arg.via)
      BY <1>2, <1>3 DEF Supported
    <2> QED
      BY <1>4, <1>5, <1>7, <2>1
  <1> QED
    BY <1>2, <1>4, <1>6, <1>8, <1>9

\* What a location holds after a launch.
LEMMA ResultAt ==
  ASSUME NEW launch, NEW l \in Locations
  PROVE  \/ \E arg \in launch : /\ arg.writes /\ Location(arg) = l
                                /\ Results(launch)[l] = Meant(arg.t)
         \/ /\ \A arg \in launch : arg.writes => Location(arg) # l
            /\ \/ \E arg \in launch : arg.writes /\ content[l] = Meant(arg.t)
               \/ Results(launch)[l] = content[l]
  <1> DEFINE outs == {arg \in launch : arg.writes}
             chosen == CHOOSE arg \in outs : Location(arg) = l
  <1>1. Results(launch)[l] = IF \E arg \in outs : Location(arg) = l THEN Meant(chosen.t)
                             ELSE IF \E arg \in outs : content[l] = Meant(arg.t) THEN 0
                             ELSE content[l]
    BY DEF Results
  <1>2. (\E arg \in outs : Location(arg) = l) => chosen \in outs /\ Location(chosen) = l
    OBVIOUS
  <1> HIDE DEF chosen
  <1> QED
    BY <1>1, <1>2

\* A replayed launch: it reads values that are there, and what it overwrites is no longer
\* needed, since slots are shared only by tensors whose lifetimes are apart.
LEMMA ReplayValues ==
  ASSUME ValueInv, SlotCount, Habits \subseteq {"views", "update_unbound"}, TypeInv', Replay
  PROVE  ValueInv'
  <1> DEFINE n == pc.node
             k == pc.launch
             launch == nodes[n].launches[k]
  <1>1. /\ Running /\ k <= Len(nodes[n].launches) /\ content' = Results(launch)
        /\ pc' = [pc EXCEPT !.launch = @ + 1]
        /\ UNCHANGED <<phase, tensorVars, nodes, planVars, arena, bound>>
    BY DEF Replay
  <1>2. /\ Supported /\ phase = "ready" /\ n \in DOMAIN nodes /\ n \in Nat /\ k \in Nat
        /\ k \in DOMAIN nodes[n].launches /\ pc # Idle
        /\ DOMAIN nodes[n].launches = 1 .. Len(nodes[n].launches)
    BY <1>1, RunningSupported DEF Running
  <1>3. /\ RootInv' /\ OwnInv' /\ GraphInv' /\ LifeInv' /\ BoundInv' /\ ArenaInv' /\ PhaseInv'
        /\ Owners' = Owners /\ memOf' = memOf /\ root' = root /\ nodes' = nodes /\ arena' = arena
        /\ bound' = bound /\ first' = first /\ last' = last /\ slotOf' = slotOf
    BY <1>1, <1>2, ExecutorKeeps
  <1>4. pc'.node = n /\ pc'.launch = k + 1
    <2>1. pc \in [node : Nat, launch : Nat]
      BY DEF ValueInv, TypeInv, TypeParts, PcType
    <2> QED
      BY <1>1, <2>1
  <1>5. ASSUME NEW arg \in launch, arg.writes
        PROVE  /\ arg.t \in Ids /\ root[arg.t] = arg.t
               /\ arg.t \in Produced(nodes[n]) /\ nodes[n].op # "view"
               /\ Meant(arg.t) = Value(arg.t) /\ Location(arg) = Place(arg.t)
               /\ arg.t \in live \/ bound[arg.t] # 0 \/ arg.t \in arena
    BY <1>2, <1>5, WriterFacts
  <1> HIDE DEF launch
  <1>6. KeptInv'
    <2> SUFFICES ASSUME NEW t \in Owners, root[t] = t, InPlace(t)
                 PROVE  content'[memOf[t]] = t
      BY <1>3 DEF KeptInv, KeptIn, InPlace
    <2> DEFINE l == memOf[t]
    <2>1. l \in Locations /\ l \in Mems /\ content[l] = t /\ t \in Ids
      BY OwnersTyped DEF ValueInv, KeptInv, KeptIn, InPlace
    <2>2. ASSUME NEW arg \in launch, arg.writes, Location(arg) = l PROVE Meant(arg.t) = t
      <3> DEFINE r == arg.t
      <3>1. /\ r \in Ids /\ root[r] = r /\ Meant(r) = Value(r) /\ Place(r) = l
            /\ r \in live \/ bound[r] # 0 \/ r \in arena
        BY <1>5, <2>2
      <3> HIDE DEF r
      <3>2. CASE bound[r] # 0
        <4>1. bound[r] \in Owners /\ root[bound[r]] = bound[r]
          BY <3>1, <3>2, BoundFacts
        <4>2. memOf[bound[r]] = memOf[t] /\ Value(r) = bound[r]
          BY <3>1, <3>2 DEF Place, Value
        <4> QED
          BY <3>1, <4>1, <4>2 DEF ValueInv, OwnInv, r
      <3>3. CASE bound[r] = 0 /\ r \in arena
        BY <2>1, <3>1, <3>3, SlotFacts DEF Place
      <3>4. CASE bound[r] = 0 /\ r \notin arena
        <4>1. r \in Owners /\ memOf[r] = memOf[t] /\ Value(r) = r
          BY <3>1, <3>4 DEF Place, Value, Owners
        <4> QED
          BY <3>1, <4>1 DEF ValueInv, OwnInv, r
      <3> QED
        BY <3>2, <3>3, <3>4
    <2>3. ASSUME NEW arg \in launch, arg.writes, Meant(arg.t) = t PROVE Location(arg) = l
      <3> DEFINE r == arg.t
      <3>1. /\ r \in Ids /\ Value(r) = t /\ Location(arg) = Place(r)
        BY <1>5, <2>3
      <3> HIDE DEF r
      <3>2. CASE bound[r] # 0
        BY <3>1, <3>2 DEF Value, Place
      <3>3. CASE bound[r] = 0
        <4>1. r = t
          BY <3>1, <3>3 DEF Value
        <4>2. r \notin arena
          BY <1>2, <3>3, <4>1, LeafBound DEF InPlace
        <4> QED
          BY <3>1, <3>3, <4>1, <4>2 DEF Place
      <3> QED
        BY <3>2, <3>3
    <2> QED
      BY <1>1, <2>1, <2>2, <2>3, ResultAt
  <1>7. SlotInv'
    <2> SUFFICES ASSUME NEW t \in arena \ Leaves, bound[t] = 0, Born(t)', n <= last[t]
                 PROVE  content'[Slot(slotOf[t])] = t
      BY <1>3, <1>4 DEF SlotInv
    <2> DEFINE l == Slot(slotOf[t])
    <2>1. l \in Locations /\ l \notin Mems \cup {0} /\ t \in Ids /\ slotOf[t] # 0
          /\ first[t] \in Nat /\ last[t] \in Nat
      BY SlotFacts, ArenaFacts DEF ValueInv, TypeInv, PlanInv, PlanType
    <2>2. first[t] <= n
      BY <1>2, <1>3, <1>4, <2>1 DEF Born
    <2>3. ASSUME NEW arg \in launch, arg.writes, Location(arg) = l PROVE Meant(arg.t) = t
      <3> DEFINE r == arg.t
      <3>1. /\ r \in Ids /\ root[r] = r /\ Meant(r) = Value(r) /\ Place(r) = l
            /\ r \in Produced(nodes[n]) /\ nodes[n].op # "view"
        BY <1>5, <2>3
      <3> HIDE DEF r
      <3>2. bound[r] = 0
        <4> SUFFICES ASSUME bound[r] # 0 PROVE FALSE
          OBVIOUS
        <4>1. memOf[bound[r]] \in Mems
          BY <3>1, BoundFacts, OwnersTyped
        <4> QED
          BY <2>1, <3>1, <4>1 DEF Place
      <3>3. r \in arena
        <4> SUFFICES ASSUME r \notin arena PROVE FALSE
          OBVIOUS
        <4>1. memOf[r] \in Mems \cup {0}
          BY <3>1, OwnersTyped
        <4> QED
          BY <2>1, <3>1, <3>2, <4>1 DEF Place
      <3>4. slotOf[r] = slotOf[t]
        BY <3>1, <3>2, <3>3, SlotFacts DEF Place
      <3>5. first[r] <= n /\ n <= last[r]
        BY <1>2, <3>1, <3>3, ProducedSpan
      <3>6. first[r] \in Nat /\ last[r] \in Nat
        BY <3>1 DEF ValueInv, TypeInv, PlanInv, PlanType
      <3>7. t # r => last[t] < first[r] \/ last[r] < first[t]
        BY <2>1, <3>1, <3>4 DEF ValueInv, TypeInv, PlanInv, Apart
      <3>8. r = t
        BY <1>2, <2>1, <2>2, <3>5, <3>6, <3>7
      <3> QED
        BY <3>1, <3>2, <3>8 DEF Value, r
    <2>4. ASSUME NEW arg \in launch, arg.writes, Meant(arg.t) = t PROVE Location(arg) = l
      <3> DEFINE r == arg.t
      <3>1. /\ r \in Ids /\ Value(r) = t /\ Location(arg) = Place(r)
        BY <1>5, <2>4
      <3> HIDE DEF r
      <3>2. bound[r] = 0
        <4> SUFFICES ASSUME bound[r] # 0 PROVE FALSE
          OBVIOUS
        <4>1. bound[r] \notin arena
          BY <3>1, BoundFacts
        <4> QED
          BY <3>1, <4>1 DEF Value
      <3> QED
        BY <3>1, <3>2 DEF Value, Place
    <2>5. ASSUME \A arg \in launch : arg.writes => Location(arg) # l PROVE content[l] = t
      <3>1. Born(t)
        <4>1. CASE first[t] < n
          BY <4>1 DEF Born
        <4>2. CASE first[t] = n
          <5>1. PICK j \in 1 .. pc'.launch - 1 : j \in DOMAIN nodes[n].launches
                                                 /\ Writes(nodes[n].launches[j], t)
            BY <1>2, <1>3, <1>4, <4>2 DEF Born
          <5>2. j \in 1 .. k /\ j \in Nat
            BY <1>2, <1>4
          <5>3. j # k
            <6> SUFFICES ASSUME j = k PROVE FALSE
              OBVIOUS
            <6>1. PICK arg \in launch : arg.writes /\ arg.t = t
              BY <5>1 DEF Writes, launch
            <6>2. Location(arg) = Place(t) /\ Place(t) = l
              BY <1>5, <6>1 DEF Place
            <6> QED
              BY <2>5, <6>1, <6>2
          <5>4. j \in 1 .. k - 1
            BY <1>2, <5>2, <5>3
          <5> QED
            BY <4>2, <5>1, <5>4 DEF Born
        <4> QED
          BY <1>2, <2>1, <2>2, <4>1, <4>2
      <3> QED
        BY <1>2, <3>1 DEF ValueInv, SlotInv
    <2> QED
      BY <1>1, <2>1, <2>3, <2>4, <2>5, ResultAt
  <1> QED
    BY <1>3, <1>6, <1>7 DEF ValueInv
-----------------------------------------------------------------------------
\* Every step keeps the invariant.
LEMMA NextValues ==
  ASSUME Habits \subseteq {"views", "update_unbound"}, "update_view" \notin Calls
  PROVE  ValueInv /\ SlotCount /\ [Next]_vars => ValueInv' /\ SlotCount'
  <1> SUFFICES ASSUME ValueInv, SlotCount, [Next]_vars PROVE ValueInv' /\ SlotCount'
    OBVIOUS
  <1>1. TypeInv'
    BY NextTypes DEF ValueInv
  <1>2. SlotCount'
    BY NextCount DEF ValueInv, TypeInv
  <1> SUFFICES ValueInv'
    BY <1>2
  <1>3. ASSUME NEW t \in Operands, Map(<<t>>) PROVE ValueInv'
    <2>1. <<t>> \in Seq(Operands) /\ Len(<<t>>) <= 2
      OBVIOUS
    <2> QED
      BY <1>1, <1>3, <2>1, MapValues
  <1>4. ASSUME NEW t \in Operands, NEW u \in Operands, Map(<<t, u>>) PROVE ValueInv'
    <2>1. <<t, u>> \in Seq(Operands) /\ Len(<<t, u>>) <= 2
      OBVIOUS
    <2> QED
      BY <1>1, <1>4, <2>1, MapValues
  <1>5. ASSUME NEW t \in Operands, NEW u \in Operands, Loss(t, u) PROVE ValueInv'
    BY <1>1, <1>5, LossValues
  <1>6. ASSUME NEW t \in Operands, View(t) PROVE ValueInv'
    BY <1>1, <1>6, ViewValues
  <1>7. ASSUME NEW t \in Operands, NEW u \in Operands, Update(t, u) PROVE ValueInv'
    BY <1>1, <1>7, UpdateValues
  <1>8. ASSUME NEW t \in Operands, AdamStep(t) PROVE ValueInv'
    BY <1>1, <1>8, AdamValues
  <1>9. CASE EndCapture
    BY <1>1, <1>9, PlanningValues DEF EndCapture, planVars
  <1>10. CASE Upload
    BY <1>1, <1>10, UploadValues
  <1>11. ASSUME NEW t \in live, Drop(t) PROVE ValueInv'
    BY <1>1, <1>11, DropValues
  <1>12. CASE ScanNode
    BY <1>1, <1>12, ScanValues
  <1>13. CASE EndScan
    BY <1>1, <1>13, PlanningValues DEF EndScan, planVars
  <1>14. ASSUME NEW t \in Ids, PlaceNew(t) PROVE ValueInv'
    BY <1>1, <1>14, PlanningValues DEF PlaceNew, ValueInv, PhaseInv
  <1>15. ASSUME NEW t \in Ids, NEW a \in DOMAIN allocs, PlaceReused(t, a) PROVE ValueInv'
    BY <1>1, <1>15, PlanningValues DEF PlaceReused, ValueInv, PhaseInv
  <1>16. CASE EndPlan
    BY <1>1, <1>16, EndPlanValues
  <1>17. ASSUME NEW t \in Bindable, NEW u \in Strangers, Bind(t, u) PROVE ValueInv'
    BY <1>1, <1>17, BindValues
  <1>18. CASE ClearBindings
    BY <1>1, <1>18, ClearValues
  <1>19. CASE StartExecute
    BY <1>1, <1>19, StartValues
  <1>20. CASE Replay
    BY <1>1, <1>20, ReplayValues
  <1>21. CASE NextNode
    BY <1>1, <1>21, NextNodeValues
  <1>22. CASE EndExecute
    BY <1>1, <1>22, EndExecuteValues
  <1>23. CASE UNCHANGED vars
    <2>1. /\ phase' = phase /\ nodes' = nodes /\ content' = content /\ pc' = pc
          /\ UNCHANGED tensorVars /\ UNCHANGED planVars /\ UNCHANGED execVars
      BY <1>23 DEF vars, execVars
    <2>2. /\ RootInv' /\ GraphInv'
          /\ Inputs' = Inputs /\ Outputs' = Outputs /\ Temporaries' = Temporaries
          /\ FinalRoots' = FinalRoots
          /\ created' = created /\ live' = live /\ memOf' = memOf /\ root' = root
          /\ registered' = registered
      BY <1>1, <2>1, TensorsKept
    <2>3. /\ arena' = arena /\ bound' = bound /\ scan' = scan /\ first' = first /\ last' = last
          /\ slotOf' = slotOf
      BY <2>1 DEF planVars, execVars
    <2>4. Owners' = Owners /\ Args' = Args
      BY <2>1, <2>2, <2>3 DEF Owners, Args
    <2>5. OwnInv' /\ KeptInv'
      BY <2>1, <2>2, <2>3, <2>4 DEF ValueInv, OwnInv, KeptInv, KeptIn, InPlace
    <2>6. Supported' = Supported
      BY <2>1, <2>2, <2>3, <2>4 DEF Supported, Redirected
    <2>7. PhaseInv' /\ LifeInv' /\ BoundInv' /\ ArenaInv'
      BY <2>1, <2>2, <2>3, <2>6 DEF ValueInv, PhaseInv, LifeInv, BoundInv, ArenaInv
    <2>8. SlotInv'
      BY <2>1, <2>3 DEF ValueInv, SlotInv, Born
    <2> QED
      BY <1>1, <2>2, <2>5, <2>7, <2>8 DEF ValueInv
  <1> QED
    BY <1>3, <1>4, <1>5, <1>6, <1>7, <1>8, <1>9, <1>10, <1>11, <1>12, <1>13, <1>14, <1>15,
       <1>16, <1>17, <1>18, <1>19, <1>20, <1>21, <1>22, <1>23 DEF Next

\* Every launch that GraphExecutor::execute replays reads, at each place it was given, the
\* value of the tensor that stands there for the captured one: the bound tensor's, the
\* caller's own, or the one this replay computed, never what another tensor left in a shared
\* slot or a recycled buffer. Every habit of callers breaks this. Here and below no update goes
\* through a view.
THEOREM ReadsRightAlways ==
  ASSUME Habits = {}, "update_view" \notin Calls
  PROVE  Spec => []ReadsRight
  <1>1. ValueInv => ReadsRight
    BY ReadsFollow
  <1>2. ValueInv /\ SlotCount /\ [Next]_vars => ValueInv' /\ SlotCount'
    BY NextValues
  <1> QED
    BY <1>1, <1>2, InitValues, InitCount, PTL DEF Spec

\* No replay, plan or reuse of a buffer by the storage pool overwrites a tensor a caller
\* holds and the graph does not write, even when launches read views whose tensors are
\* redirected and leaves in the arena are updated without being bound: those read or leave
\* the wrong values, but write to nobody else. A step of Adam that is redirected, or a
\* buffer that was dropped and handed out again, does write to others.
THEOREM ForeignIntactAlways ==
  ASSUME Habits \subseteq {"views", "update_unbound"}, "update_view" \notin Calls
  PROVE  Spec => []ForeignIntact
  <1>1. ValueInv => ForeignIntact
    BY ForeignFollows
  <1>2. ValueInv /\ SlotCount /\ [Next]_vars => ValueInv' /\ SlotCount'
    BY NextValues
  <1> QED
    BY <1>1, <1>2, InitValues, InitCount, PTL DEF Spec

\* After any number of replays an output or an updated leaf that is still held, or the tensor
\* bound in its place, holds its own value: plan_buffers never puts it in a shared slot. It
\* does so whatever views the launches read; an update of a leaf in the arena must be bound.
THEOREM ResultsFreshAlways ==
  ASSUME Habits \subseteq {"views"}, "update_view" \notin Calls
  PROVE  Spec => []ResultsFresh
  <1>1. ValueInv => ResultsFresh
    BY ResultsFollow
  <1>2. ValueInv /\ SlotCount /\ [Next]_vars => ValueInv' /\ SlotCount'
    BY NextValues
  <1> QED
    BY <1>1, <1>2, InitValues, InitCount, PTL DEF Spec
=============================================================================
