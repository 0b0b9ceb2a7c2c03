-------------------------- MODULE GraphReplay_proofs --------------------------
(* For every graph, every size and every order of calls: that plan_buffers   *)
(* never gives one slot to two tensors that are alive at the same node, the  *)
(* types of the variables, and that a tensor is alive for as long as         *)
(* launches are passed its memory.                                           *)
EXTENDS GraphReplay, SequenceTheorems, TLAPS

Allocations == [bytes : Nat, free : Nat]

PlanType ==
  /\ phase \in {"capture", "scan", "place", "ready"}
  /\ scan \in Nat
  /\ first \in [Ids -> Nat]
  /\ last \in [Ids -> Nat]
  /\ slotOf \in [Ids -> Nat]
  /\ allocs \in Seq(Allocations)

\* Lifetimes are intervals within the nodes folded in so far.
Lifetimes == \A t \in Ids : first[t] # 0 => first[t] <= last[t] /\ last[t] <= scan

\* Nothing is placed before the lifetimes are final.
PlacedLater == phase \in {"capture", "scan"} => \A t \in Ids : slotOf[t] = 0

\* free_after bounds the lifetime of every tensor in the slot: what makes it enough to
\* compare a new tensor with it.
FreeAfter ==
  \A t \in Ids : slotOf[t] # 0 =>
    /\ first[t] # 0
    /\ slotOf[t] \in DOMAIN allocs
    /\ allocs[slotOf[t]].bytes >= Bytes[t]
    /\ last[t] <= allocs[slotOf[t]].free

Apart ==
  \A t, u \in Ids : slotOf[t] # 0 /\ t # u /\ slotOf[u] = slotOf[t] =>
    last[t] < first[u] \/ last[u] < first[t]

PlanInv == PlanType /\ Lifetimes /\ PlacedLater /\ FreeAfter /\ Apart

USE ConstantsAssumption DEF Ids

LEMMA InitPlan == Init => PlanInv
  BY DEF Init, PlanInv, PlanType, Lifetimes, PlacedLater, FreeAfter, Apart, Leaves

\* A step that leaves the plan alone and does not go back to an earlier phase.
LEMMA PlanUntouched ==
  ASSUME PlanInv, UNCHANGED planVars,
         phase' \in {"capture", "scan", "place", "ready"},
         phase' \in {"capture", "scan"} => phase \in {"capture", "scan"}
  PROVE  PlanInv'
  BY DEF PlanInv, PlanType, Lifetimes, PlacedLater, FreeAfter, Apart, planVars

LEMMA ScanKeeps == PlanInv /\ ScanNode => PlanInv'
<1> SUFFICES ASSUME PlanInv, ScanNode PROVE PlanInv'
  OBVIOUS
<1> DEFINE node == nodes[scan + 1]
           new == {t \in Elements(node.outs) \cup Elements(node.temps) :
                     node.op # "view" /\ t \in registered /\ first[t] = 0}
           taken == {t \in Uses(node) : first[t] # 0}
<1>1. /\ phase = "scan" /\ phase' = "scan" /\ scan' = scan + 1
      /\ slotOf' = slotOf /\ allocs' = allocs
      /\ first' = [t \in Ids |-> IF t \in new THEN scan + 1 ELSE first[t]]
      /\ last' = [t \in Ids |-> IF t \in new \cup taken THEN scan + 1 ELSE last[t]]
  BY DEF ScanNode
<1>2. \A t \in new : first[t] = 0
  OBVIOUS
<1>3. \A t \in taken : first[t] # 0
  OBVIOUS
<1> HIDE DEF new, taken
<1>4. PlanType'
  BY <1>1 DEF PlanInv, PlanType
<1>5. \A t \in Ids : slotOf'[t] = 0
  BY <1>1 DEF PlanInv, PlacedLater
<1>6. Lifetimes'
  <2> SUFFICES ASSUME NEW t \in Ids, first'[t] # 0
               PROVE  first'[t] <= last'[t] /\ last'[t] <= scan + 1
    BY <1>1 DEF Lifetimes
  <2>1. CASE t \in new
    BY <2>1, <1>1 DEF PlanInv, PlanType
  <2>2. CASE t \notin new
    <3>1. first'[t] = first[t]
      BY <2>2, <1>1
    <3>2. first[t] <= last[t] /\ last[t] <= scan
      BY <3>1 DEF PlanInv, Lifetimes
    <3>3. last'[t] = last[t] \/ last'[t] = scan + 1
      BY <1>1
    <3> QED
      BY <3>1, <3>2, <3>3, SMTT(30) DEF PlanInv, PlanType
  <2> QED
    BY <2>1, <2>2
<1> QED
  BY <1>4, <1>5, <1>6 DEF PlanInv, PlacedLater, FreeAfter, Apart

LEMMA PlaceReusedKeeps ==
  ASSUME NEW t \in Ids, NEW a \in DOMAIN allocs, PlanInv, PlaceReused(t, a)
  PROVE  PlanInv'
<1>1. /\ phase = "place" /\ phase' = "place" /\ scan' = scan
      /\ first' = first /\ last' = last
      /\ slotOf' = [slotOf EXCEPT ![t] = a]
      /\ allocs' = [allocs EXCEPT ![a].free = last[t]]
  BY DEF PlaceReused
<1>2. first[t] # 0 /\ slotOf[t] = 0
  BY DEF PlaceReused, IsNext, Unplaced
<1>3. allocs[a].free < first[t] /\ allocs[a].bytes >= Bytes[t]
  BY DEF PlaceReused, IsBestFit, Fits
<1>4. first[t] <= last[t]
  BY <1>2 DEF PlanInv, Lifetimes
<1>5. a \in Nat \ {0} /\ last[t] \in Nat /\ first[t] \in Nat /\ allocs[a].free \in Nat
  <2>1. allocs \in Seq(Allocations)
    BY DEF PlanInv, PlanType
  <2>2. a \in 1 .. Len(allocs) /\ allocs[a] \in Allocations
    BY <2>1, ElementOfSeq, LenProperties
  <2>3. last[t] \in Nat /\ first[t] \in Nat
    BY DEF PlanInv, PlanType
  <2> QED
    BY <2>2, <2>3, LenProperties DEF Allocations
<1>6. PlanType'
  <2>1. allocs \in Seq(Allocations)
    BY DEF PlanInv, PlanType
  <2>2. allocs[a] \in Allocations
    BY <2>1, ElementOfSeq, LenProperties
  <2>3. [allocs[a] EXCEPT !.free = last[t]] \in Allocations
    BY <2>2, <1>5 DEF Allocations
  <2>4. allocs' \in Seq(Allocations)
    BY <1>1, <2>1, <2>3, ExceptSeq, LenProperties
  <2> QED
    BY <2>4, <1>1 DEF PlanInv, PlanType
<1>7. DOMAIN allocs' = DOMAIN allocs
  BY <1>1
<1>8. \A b \in DOMAIN allocs :
        /\ allocs'[b].bytes = allocs[b].bytes
        /\ allocs'[b].free = IF b = a THEN last[t] ELSE allocs[b].free
  BY <1>1 DEF PlanInv, PlanType
<1>9. FreeAfter'
  <2> SUFFICES ASSUME NEW u \in Ids, slotOf'[u] # 0
               PROVE  /\ first[u] # 0
                      /\ slotOf'[u] \in DOMAIN allocs
                      /\ allocs'[slotOf'[u]].bytes >= Bytes[u]
                      /\ last[u] <= allocs'[slotOf'[u]].free
    BY <1>1, <1>7 DEF FreeAfter
  <2>1. CASE u = t
    <3>1. slotOf'[u] = a
      BY <2>1, <1>1 DEF PlanInv, PlanType
    <3> QED
      BY <2>1, <3>1, <1>2, <1>3, <1>5, <1>8
  <2>2. CASE u # t
    <3>1. slotOf'[u] = slotOf[u]
      BY <2>2, <1>1 DEF PlanInv, PlanType
    <3>2. /\ first[u] # 0 /\ slotOf[u] \in DOMAIN allocs
          /\ allocs[slotOf[u]].bytes >= Bytes[u]
          /\ last[u] <= allocs[slotOf[u]].free
      BY <3>1 DEF PlanInv, FreeAfter
    <3>3. last[u] \in Nat
      BY DEF PlanInv, PlanType
    <3>4. allocs'[slotOf[u]].bytes = allocs[slotOf[u]].bytes
      BY <3>2, <1>8
    <3>5. CASE slotOf[u] = a
      <4>1. allocs'[a].free = last[t]
        BY <1>8
      <4>2. last[u] <= last[t]
        BY <3>2, <3>3, <3>5, <1>3, <1>4, <1>5
      <4> QED
        BY <3>1, <3>2, <3>4, <3>5, <4>1, <4>2
    <3>6. CASE slotOf[u] # a
      <4>1. allocs'[slotOf[u]].free = allocs[slotOf[u]].free
        BY <3>2, <3>6, <1>8
      <4> QED
        BY <3>1, <3>2, <3>4, <4>1
    <3> QED
      BY <3>5, <3>6
  <2> QED
    BY <2>1, <2>2
<1>10. \A u \in Ids : slotOf[u] = a => last[u] < first[t]
  <2> SUFFICES ASSUME NEW u \in Ids, slotOf[u] = a PROVE last[u] < first[t]
    OBVIOUS
  <2>1. last[u] <= allocs[a].free
    BY <1>5 DEF PlanInv, FreeAfter
  <2>2. last[u] \in Nat
    BY DEF PlanInv, PlanType
  <2> QED
    BY <2>1, <2>2, <1>3, <1>5
<1>11. Apart'
  <2> SUFFICES ASSUME NEW u \in Ids, NEW w \in Ids,
                      slotOf'[u] # 0, u # w, slotOf'[w] = slotOf'[u]
               PROVE  last[u] < first[w] \/ last[w] < first[u]
    BY <1>1 DEF Apart
  <2>1. \A x \in Ids : slotOf'[x] = IF x = t THEN a ELSE slotOf[x]
    BY <1>1 DEF PlanInv, PlanType
  <2>2. CASE u = t
    BY <2>2, <2>1, <1>10
  <2>3. CASE w = t
    BY <2>3, <2>1, <1>10
  <2>4. CASE u # t /\ w # t
    BY <2>4, <2>1 DEF PlanInv, Apart
  <2> QED
    BY <2>2, <2>3, <2>4
<1> QED
  BY <1>1, <1>6, <1>9, <1>11 DEF PlanInv, Lifetimes, PlacedLater

LEMMA PlaceNewKeeps ==
  ASSUME NEW t \in Ids, PlanInv, PlaceNew(t)
  PROVE  PlanInv'
<1> DEFINE a == Len(allocs) + 1
<1>1. /\ phase = "place" /\ phase' = "place" /\ scan' = scan
      /\ first' = first /\ last' = last
      /\ slotOf' = [slotOf EXCEPT ![t] = a]
      /\ allocs' = Append(allocs, [bytes |-> Bytes[t], free |-> last[t]])
  BY DEF PlaceNew
<1>2. first[t] # 0
  BY DEF PlaceNew, IsNext, Unplaced
<1>3. a \in Nat \ {0} /\ a \notin DOMAIN allocs /\ last[t] \in Nat /\ Bytes[t] \in Nat
  BY SMTT(30) DEF PlanInv, PlanType
<1> DEFINE new == [bytes |-> Bytes[t], free |-> last[t]]
<1>a. allocs \in Seq(Allocations) /\ new \in Allocations
  BY <1>3 DEF PlanInv, PlanType, Allocations
<1>b. allocs' = Append(allocs, new)
  BY <1>1
<1> HIDE DEF new
<1>c. /\ allocs' \in Seq(Allocations) /\ allocs'[a] = new
      /\ DOMAIN allocs = 1 .. Len(allocs) /\ DOMAIN allocs' = 1 .. a
      /\ \A b \in 1 .. Len(allocs) : allocs'[b] = allocs[b]
  BY <1>a, <1>b, AppendProperties, LenProperties
<1>4. PlanType'
  BY <1>1, <1>3, <1>c DEF PlanInv, PlanType
<1>5. /\ a \in DOMAIN allocs'
      /\ allocs'[a] = [bytes |-> Bytes[t], free |-> last[t]]
  BY <1>c, <1>3 DEF new
<1>6. \A b \in DOMAIN allocs : b \in DOMAIN allocs' /\ allocs'[b] = allocs[b]
  BY <1>c, <1>3
<1>7. \A x \in Ids : slotOf'[x] = IF x = t THEN a ELSE slotOf[x]
  BY <1>1 DEF PlanInv, PlanType
<1>8. \A x \in Ids : slotOf[x] # 0 => slotOf[x] # a
  BY <1>3 DEF PlanInv, FreeAfter
<1> HIDE DEF a
<1>9. FreeAfter'
  <2> SUFFICES ASSUME NEW u \in Ids, slotOf'[u] # 0
               PROVE  /\ first[u] # 0
                      /\ slotOf'[u] \in DOMAIN allocs'
                      /\ allocs'[slotOf'[u]].bytes >= Bytes[u]
                      /\ last[u] <= allocs'[slotOf'[u]].free
    BY <1>1 DEF FreeAfter
  <2>1. CASE u = t
    <3>1. slotOf'[u] = a /\ allocs'[a].bytes = Bytes[t] /\ allocs'[a].free = last[t]
      BY <2>1, <1>5, <1>7
    <3>2. Bytes[t] >= Bytes[t] /\ last[t] <= last[t]
      BY <1>3
    <3> QED
      BY <2>1, <3>1, <3>2, <1>2, <1>5
  <2>2. CASE u # t
    <3>1. slotOf'[u] = slotOf[u] /\ slotOf[u] # 0
      BY <2>2, <1>7
    <3>2. /\ first[u] # 0 /\ slotOf[u] \in DOMAIN allocs
          /\ allocs[slotOf[u]].bytes >= Bytes[u]
          /\ last[u] <= allocs[slotOf[u]].free
      BY <3>1 DEF PlanInv, FreeAfter
    <3>3. slotOf[u] \in DOMAIN allocs' /\ allocs'[slotOf[u]] = allocs[slotOf[u]]
      BY <3>2, <1>6
    <3> QED
      BY <3>1, <3>2, <3>3
  <2> QED
    BY <2>1, <2>2
<1>10. Apart'
  <2> SUFFICES ASSUME NEW u \in Ids, NEW w \in Ids,
                      slotOf'[u] # 0, u # w, slotOf'[w] = slotOf'[u]
               PROVE  last[u] < first[w] \/ last[w] < first[u]
    BY <1>1 DEF Apart
  <2>1. u # t /\ w # t
    BY <1>3, <1>7, <1>8
  <2> QED
    BY <2>1, <1>7 DEF PlanInv, Apart
<1> QED
  BY <1>1, <1>4, <1>9, <1>10 DEF PlanInv, Lifetimes, PlacedLater

LEMMA NextPlan == PlanInv /\ [Next]_vars => PlanInv'
<1> SUFFICES ASSUME PlanInv, [Next]_vars PROVE PlanInv'
  OBVIOUS
<1>0. phase \in {"capture", "scan", "place", "ready"}
  BY DEF PlanInv, PlanType
<1>1. ASSUME NEW ins, Map(ins) PROVE PlanInv'
  BY <1>0, <1>1, PlanUntouched DEF Map
<1>2. ASSUME NEW t, View(t) PROVE PlanInv'
  BY <1>0, <1>2, PlanUntouched DEF View
<1>3. ASSUME NEW t, NEW u, Loss(t, u) PROVE PlanInv'
  BY <1>0, <1>3, PlanUntouched DEF Loss
<1>4. ASSUME NEW t, NEW u, Update(t, u) PROVE PlanInv'
  BY <1>0, <1>4, PlanUntouched DEF Update
<1>5. ASSUME NEW t, AdamStep(t) PROVE PlanInv'
  BY <1>0, <1>5, PlanUntouched DEF AdamStep
<1>6. CASE EndCapture
  BY <1>0, <1>6, PlanUntouched DEF EndCapture
<1>7. CASE Upload
  BY <1>0, <1>7, PlanUntouched DEF Upload
<1>8. ASSUME NEW t, Drop(t) PROVE PlanInv'
  BY <1>0, <1>8, PlanUntouched DEF Drop
<1>9. CASE ScanNode
  BY <1>9, ScanKeeps
<1>10. CASE EndScan
  BY <1>0, <1>10, PlanUntouched DEF EndScan
<1>11. ASSUME NEW t \in Ids, PlaceNew(t) PROVE PlanInv'
  BY <1>11, PlaceNewKeeps
<1>12. ASSUME NEW t \in Ids, NEW a \in DOMAIN allocs, PlaceReused(t, a) PROVE PlanInv'
  BY <1>12, PlaceReusedKeeps
<1>13. CASE EndPlan
  BY <1>0, <1>13, PlanUntouched DEF EndPlan
<1>14. ASSUME NEW t, NEW u, Bind(t, u) PROVE PlanInv'
  BY <1>0, <1>14, PlanUntouched DEF Bind
<1>15. CASE ClearBindings
  BY <1>0, <1>15, PlanUntouched DEF ClearBindings
<1>16. CASE StartExecute
  BY <1>0, <1>16, PlanUntouched DEF StartExecute
<1>17. CASE Replay
  BY <1>0, <1>17, PlanUntouched DEF Replay
<1>18. CASE NextNode
  BY <1>0, <1>18, PlanUntouched DEF NextNode
<1>19. CASE EndExecute
  BY <1>0, <1>19, PlanUntouched DEF EndExecute
<1>20. CASE UNCHANGED vars
  BY <1>0, <1>20, PlanUntouched DEF vars
<1> QED
  BY <1>1, <1>2, <1>3, <1>4, <1>5, <1>6, <1>7, <1>8, <1>9, <1>10, <1>11, <1>12, <1>13,
     <1>14, <1>15, <1>16, <1>17, <1>18, <1>19, <1>20 DEF Next

\* Tensors that share an arena slot fit in it and are never alive at the same node.
THEOREM PlanApartAlways == Spec => []PlanApart
<1>1. PlanInv => PlanApart
  BY DEF PlanInv, FreeAfter, Apart, PlanApart
<1> QED
  BY <1>1, InitPlan, NextPlan, PTL DEF Spec

(***************************************************************************)
(* Type correctness.                                                       *)
(***************************************************************************)

Operations == {"map", "loss", "view", "update", "adam_state", "adam"}
ArgType == [t : Ids, via : Ids \cup {0}, reads : BOOLEAN, writes : BOOLEAN]
RawType == [t : Ids, at : Nat \ {0}, reads : BOOLEAN, writes : BOOLEAN]
NodeType == [op : Operations, ins : Seq(Ids), outs : Seq(Ids), temps : Seq(Ids),
             launches : Seq(SUBSET ArgType)]

TensorType ==
  /\ created \in Ids
  /\ live \subseteq 1 .. created
  /\ memOf \in [Ids -> Mems \cup {0}]
  /\ memBytes \in [Mems -> Nat]
  /\ root \in [Ids -> Ids]
  /\ registered \subseteq 1 .. created

NodesType == nodes \in Seq(NodeType) /\ Len(nodes) <= MaxNodes

ContentType == content \in [Locations -> Ids \cup {0}]

\* Lifetimes are made of nodes that exist.
ScanType == scan <= Len(nodes) /\ \A t \in Ids : first[t] <= scan /\ last[t] <= scan

ExecType ==
  /\ arena \subseteq Ids
  /\ bound \in [Ids -> Ids \cup {0}]
  /\ executions \in 0 .. MaxExecutions

\* An execution is at a node that exists, and is not counted before it ends.
PcType ==
  /\ pc \in [node : Nat, launch : Nat]
  /\ pc # Idle => /\ phase = "ready" /\ executions < MaxExecutions
                  /\ pc.node \in 1 .. Len(nodes) /\ pc.launch > 0
  /\ phase # "capture" => Len(nodes) > 0

TypeParts == TensorType /\ NodesType /\ ContentType /\ ScanType /\ ExecType /\ PcType
TypeInv == PlanInv /\ TypeParts

\* The invariant implies the types of the variables.
LEMMA TypeFollows == TypeInv => TypeOK
  <1> SUFFICES ASSUME TypeInv PROVE TypeOK
    OBVIOUS
  <1>1. Len(nodes) \in Nat /\ scan \in 0 .. Len(nodes)
    BY LenProperties DEF TypeInv, TypeParts, NodesType, ScanType, PlanInv, PlanType
  <1>2. first \in [Ids -> 0 .. MaxNodes] /\ last \in [Ids -> 0 .. MaxNodes]
    BY <1>1, SMTT(30) DEF TypeInv, TypeParts, ScanType, NodesType, PlanInv, PlanType
  <1>3. slotOf \in [Ids -> 0 .. Len(allocs)]
    <2>1. allocs \in Seq(Allocations) /\ slotOf \in [Ids -> Nat]
      BY DEF TypeInv, TypeParts, PlanInv, PlanType
    <2>2. DOMAIN allocs = 1 .. Len(allocs) /\ Len(allocs) \in Nat
      BY <2>1, LenProperties
    <2>3. \A t \in Ids : slotOf[t] # 0 => slotOf[t] \in 1 .. Len(allocs)
      BY <2>2 DEF TypeInv, TypeParts, PlanInv, FreeAfter
    <2> QED
      BY <2>1, <2>2, <2>3
  <1> QED
    BY <1>1, <1>2, <1>3
    DEF TypeInv, TypeParts, TypeOK, PlanInv, PlanType, Allocations, TensorType, NodesType, ContentType,
        ExecType

\* Tensors made before the capture are typed.
LEMMA InitTypes == Init => TypeInv
  <1> SUFFICES ASSUME Init PROVE TypeInv
    OBVIOUS
  <1>1. PlanInv
    BY InitPlan
  <1>2. Leaves \subseteq Ids /\ Leaves \subseteq Locations
    BY DEF Leaves, Locations
  <1>3. TensorType
    BY <1>2 DEF Init, TensorType, Leaves, Mems, input
  <1>4. NodesType /\ ScanType
    BY EmptySeq DEF Init, NodesType, ScanType
  <1>5. ContentType /\ ExecType
    BY <1>2 DEF Init, ContentType, ExecType
  <1>6. PcType
    BY DEF Init, PcType, Idle
  <1> QED
    BY <1>1, <1>3, <1>4, <1>5, <1>6 DEF TypeInv, TypeParts

\* The value of a tensor is stored at a location.
LEMMA StoredType ==
  ASSUME NEW c \in [Locations -> Ids \cup {0}], NEW t \in Ids, NEW l
  PROVE  Stored(c, l, t) \in [Locations -> Ids \cup {0}]
  BY DEF Stored

\* A nonempty set of small numbers has a least element.
LEMMA Least ==
  ASSUME NEW hits \in SUBSET (1 .. 9), hits # {}
  PROVE  \E i \in hits : \A j \in hits : i <= j
  <1>1. \A j \in hits : j \in {1, 2, 3, 4, 5, 6, 7, 8, 9}
    OBVIOUS
  <1>2. CASE 1 \in hits
    BY <1>1, <1>2
  <1>3. CASE 1 \notin hits /\ 2 \in hits
    BY <1>1, <1>3
  <1>4. CASE {1, 2} \cap hits = {} /\ 3 \in hits
    BY <1>1, <1>4
  <1>5. CASE {1, 2, 3} \cap hits = {} /\ 4 \in hits
    BY <1>1, <1>5
  <1>6. CASE {1, 2, 3, 4} \cap hits = {} /\ 5 \in hits
    BY <1>1, <1>6
  <1>7. CASE {1, 2, 3, 4, 5} \cap hits = {} /\ 6 \in hits
    BY <1>1, <1>7
  <1>8. CASE {1, 2, 3, 4, 5, 6} \cap hits = {} /\ 7 \in hits
    BY <1>1, <1>8
  <1>9. CASE {1, 2, 3, 4, 5, 6, 7} \cap hits = {} /\ 8 \in hits
    BY <1>1, <1>9
  <1>10. CASE {1, 2, 3, 4, 5, 6, 7, 8} \cap hits = {}
    <2>1. \A j \in hits : j = 9
      BY <1>1, <1>10
    <2>2. 9 \in hits
      BY <2>1
    <2>3. \A j \in hits : 9 <= j
      BY <2>1
    <2> QED
      BY <2>2, <2>3
  <1> QED
    BY <1>2, <1>3, <1>4, <1>5, <1>6, <1>7, <1>8, <1>9, <1>10

\* map_kernel_buffer_args_to_tensors finds one of the node's tensors, or none.
LEMMA ViaType ==
  ASSUME NEW arg \in RawType, NEW ids \in Seq(Ids), Len(ids) <= 9
  PROVE  Via(arg, ids) \in Ids \cup {0}
  <1> DEFINE hits == {i \in DOMAIN ids : ids[i] \in registered' /\ memOf'[ids[i]] = memOf'[arg.t]}
  <1>1. Len(ids) \in Nat /\ DOMAIN ids = 1 .. Len(ids)
    BY LenProperties
  <1>2. \A i \in 1 .. Len(ids) : ids[i] \in Ids
    BY ElementOfSeq
  <1>3. CASE hits # {}
    <2>1. hits \in SUBSET (1 .. 9)
      <3> SUFFICES ASSUME NEW i \in hits PROVE i \in 1 .. 9
        OBVIOUS
      <3>1. i \in 1 .. Len(ids)
        BY <1>1
      <3> HIDE DEF hits
      <3> QED
        BY <3>1, <1>1
    <2>2. \E i \in hits : \A j \in hits : i <= j
      BY <1>3, <2>1, Least
    <2>3. (CHOOSE i \in hits : \A j \in hits : i <= j) \in hits
      BY <2>2
    <2>4. (CHOOSE i \in hits : \A j \in hits : i <= j) \in 1 .. Len(ids)
      BY <2>3, <1>1
    <2> HIDE DEF hits
    <2>5. ids[CHOOSE i \in hits : \A j \in hits : i <= j] \in Ids
      BY <2>4, <1>2
    <2> QED
      BY <2>5, <1>3 DEF Via, hits
  <1>4. CASE hits = {}
    <2>1. arg.at \in Nat \ {0}
      BY DEF RawType
    <2>2. Via(arg, ids) = IF arg.at <= Len(ids) THEN ids[arg.at] ELSE 0
      BY <1>4 DEF Via
    <2> QED
      BY <2>1, <2>2, <1>1, <1>2
  <1> QED
    BY <1>3, <1>4

\* The arguments of a launch with the tensors they are mapped to.
LEMMA MappedType ==
  ASSUME NEW launch \in SUBSET RawType, NEW ids \in Seq(Ids), Len(ids) <= 9
  PROVE  Mapped(launch, ids) \in SUBSET ArgType
  <1> SUFFICES ASSUME NEW arg \in launch
               PROVE  [t |-> arg.t, via |-> Via(arg, ids), reads |-> arg.reads,
                       writes |-> arg.writes] \in ArgType
    BY DEF Mapped
  <1>1. Via(arg, ids) \in Ids \cup {0}
    BY ViaType
  <1> QED
    BY <1>1 DEF ArgType, RawType

\* The node record_op pushes, for as many tensors as an operation of the model has.
LEMMA NodeTyped ==
  ASSUME NEW op \in Operations, NEW ins \in Seq(Ids), NEW outs \in Seq(Ids),
         NEW temps \in Seq(Ids), NEW launches \in Seq(SUBSET RawType),
         Len(ins) <= 5, Len(outs) <= 3, Len(temps) <= 1
  PROVE  Node(op, ins, outs, temps, launches) \in NodeType
  <1> DEFINE ids == ins \o outs \o temps
  <1>1. ids \in Seq(Ids) /\ Len(ids) <= 9
    <2>1. ins \o outs \in Seq(Ids) /\ Len(ins \o outs) = Len(ins) + Len(outs)
      BY ConcatProperties
    <2>2. ids \in Seq(Ids) /\ Len(ids) = Len(ins \o outs) + Len(temps)
      BY <2>1, ConcatProperties
    <2>3. Len(ins) \in Nat /\ Len(outs) \in Nat /\ Len(temps) \in Nat
      BY LenProperties
    <2> QED
      BY <2>1, <2>2, <2>3
  <1> HIDE DEF ids
  <1>2. Len(launches) \in Nat /\ DOMAIN launches = 1 .. Len(launches)
    BY LenProperties
  <1>3. \A i \in 1 .. Len(launches) : Mapped(launches[i], ids) \in SUBSET ArgType
    BY <1>1, ElementOfSeq, MappedType
  <1>4. [i \in 1 .. Len(launches) |-> Mapped(launches[i], ids)] \in Seq(SUBSET ArgType)
    BY <1>2, <1>3
  <1>5. Node(op, ins, outs, temps, launches) =
          [op |-> op, ins |-> ins, outs |-> outs, temps |-> temps,
           launches |-> [i \in 1 .. Len(launches) |-> Mapped(launches[i], ids)]]
    BY <1>2 DEF Node, ids
  <1> QED
    BY <1>4, <1>5 DEF NodeType

\* A buffer is acquired and a tensor made in it.
LEMMA AcquiredType ==
  ASSUME NEW taken, NEW n, NEW m \in Acquire(taken, n)
  PROVE  m \in Mems
  BY DEF Acquire

\* A tensor is created with the next id.
LEMMA CreateType ==
  ASSUME TensorType, NEW t \in Ids, NEW m \in Mems \cup {0}, t = created + 1, Create(t, m),
         live' \subseteq live \cup {t}, root' \in [Ids -> Ids]
  PROVE  TensorType'
  <1>1. 1 .. created \subseteq 1 .. t /\ t \in 1 .. t /\ created' = t
    BY DEF TensorType, Create
  <1>2. live' \subseteq 1 .. created' /\ registered' \subseteq 1 .. created'
    BY <1>1 DEF TensorType, Create
  <1>3. memOf' \in [Ids -> Mems \cup {0}] /\ memBytes' \in [Mems -> Nat]
    BY DEF TensorType, Create, Mems
  <1> QED
    BY <1>1, <1>2, <1>3 DEF TensorType

\* Nodes are added while capturing.
LEMMA NodesAdded ==
  ASSUME TypeInv, NEW node \in NodeType, nodes' = Append(nodes, node),
         Len(nodes) + 1 <= MaxNodes, UNCHANGED planVars
  PROVE  NodesType' /\ ScanType' /\ (UNCHANGED <<phase, execVars>> => PcType')
  <1>1. nodes' \in Seq(NodeType) /\ Len(nodes') = Len(nodes) + 1 /\ Len(nodes) \in Nat
    BY AppendProperties, LenProperties DEF TypeInv, TypeParts, NodesType
  <1> QED
    BY <1>1 DEF TypeInv, TypeParts, NodesType, ScanType, PcType, planVars, execVars, PlanInv, PlanType

\* Tensors a caller holds are tensors.
LEMMA OperandsTyped == TypeInv => Operands \subseteq live /\ live \subseteq Ids
  <1> SUFFICES ASSUME TypeInv PROVE live \subseteq Ids
    BY DEF Operands
  <1>1. created \in Ids /\ live \subseteq 1 .. created
    BY DEF TypeInv, TypeParts, TensorType
  <1>2. 1 .. created \subseteq Ids
    BY <1>1
  <1> QED
    BY <1>1, <1>2

\* One lemma for each action that does more than move values of known types.
LEMMA MapTypes ==
  ASSUME TypeInv, NEW ins \in Seq(Operands), Len(ins) <= 2, Map(ins)
  PROVE  TypeParts'
  <1> DEFINE out == created + 1
  <1>1. out \in Ids /\ Len(nodes) + 1 <= MaxNodes
    BY DEF Map, Capturing
  <1>2. PICK m \in Acquire(Taken, Bytes[out]) : Create(out, m) /\ content' = Stored(content, m, out)
    BY DEF Map
  <1>3. m \in Mems
    BY <1>2, AcquiredType
  <1>4. TensorType'
    <2>1. root' = root /\ live' = live \cup {out}
      BY DEF Map
    <2> QED
      BY <2>1, <1>1, <1>2, <1>3, CreateType DEF TypeInv, TypeParts, TensorType
  <1>5. ContentType'
    BY <1>1, <1>2, StoredType DEF TypeInv, TypeParts, ContentType
  <1>6. Operands \subseteq Ids
    BY OperandsTyped
  <1>7. ins \in Seq(Ids) /\ \A i \in 1 .. Len(ins) : ins[i] \in Ids
    BY <1>6, SeqMonotonic, ElementOfSeq
  <1> DEFINE raw == {In(ins[i], i) : i \in DOMAIN ins} \cup {Out(out, Len(ins) + 1)}
  <1>8. raw \in SUBSET RawType
    <2>1. DOMAIN ins = 1 .. Len(ins)
      BY LenProperties
    <2>2. \A i \in 1 .. Len(ins) : In(ins[i], i) \in RawType
      BY <1>7 DEF In, Arg, RawType
    <2>3. Out(out, Len(ins) + 1) \in RawType
      BY <1>1 DEF Out, Arg, RawType
    <2> QED
      BY <2>1, <2>2, <2>3
  <1> HIDE DEF raw
  <1> DEFINE node == Node("map", ins, <<out>>, <<>>, <<raw>>)
  <1>9. node \in NodeType
    <2>1. <<out>> \in Seq(Ids) /\ Len(<<out>>) = 1 /\ <<>> \in Seq(Ids) /\ Len(<<>>) = 0
      BY <1>1
    <2>2. <<raw>> \in Seq(SUBSET RawType)
      BY <1>8
    <2>3. Len(ins) <= 5
      BY LenProperties
    <2>4. Len(<<out>>) <= 3 /\ Len(<<>>) <= 1
      BY <2>1
    <2> QED
      BY <2>1, <2>2, <2>3, <2>4, <1>7, NodeTyped DEF Operations
  <1>10. nodes' = Append(nodes, node) /\ UNCHANGED planVars
    BY DEF Map, raw
  <1> HIDE DEF node
  <1>11. NodesType' /\ ScanType'
    BY <1>1, <1>9, <1>10, NodesAdded
  <1>12. PcType' /\ ExecType'
    BY <1>1, <1>9, <1>10, NodesAdded DEF Map, TypeInv, TypeParts, ExecType, execVars
  <1> QED
    BY <1>4, <1>5, <1>11, <1>12 DEF TypeParts

LEMMA LossTypes ==
  ASSUME TypeInv, NEW pred \in Operands, NEW target \in Operands, Loss(pred, target)
  PROVE  TypeParts'
  <1> DEFINE partial == created + 1
             out     == created + 2
  <1>1. /\ created \in Nat /\ partial \in Ids /\ out \in Ids /\ Len(nodes) + 1 <= MaxNodes
        /\ pred \in Ids /\ target \in Ids
    <2>1. created \in Ids /\ out \in Ids /\ Len(nodes) + 1 <= MaxNodes
      BY DEF Loss, Capturing, TypeInv, TypeParts, TensorType
    <2>2. pred \in Ids /\ target \in Ids
      BY OperandsTyped
    <2> QED
      BY <2>1, <2>2
  <1> DEFINE Made(p, m) ==
               /\ created' = out
               /\ memOf' = [memOf EXCEPT ![partial] = p, ![out] = m]
               /\ memBytes' = [memBytes EXCEPT ![p] = IF @ = 0 THEN Bytes[partial] ELSE @,
                                               ![m] = IF @ = 0 THEN Bytes[out] ELSE @]
               /\ content' = Stored(Stored(content, p, partial), m, out)
  <1>2a. PICK p \in Acquire(Taken, Bytes[partial]) :
           \E m \in Acquire(Taken \cup {p}, Bytes[out]) : Made(p, m)
    BY DEF Loss
  <1>2. PICK m \in Acquire(Taken \cup {p}, Bytes[out]) : Made(p, m)
    BY <1>2a
  <1>3. p \in Mems /\ m \in Mems
    BY AcquiredType
  <1>4. TensorType'
    <2>1. /\ root' = root /\ live' = live \cup {out} /\ registered' = registered \cup {partial, out}
      BY DEF Loss
    <2>2. 1 .. created \subseteq 1 .. out /\ partial \in 1 .. out /\ out \in 1 .. out
      BY <1>1
    <2>3. live' \subseteq 1 .. created' /\ registered' \subseteq 1 .. created'
      BY <1>2, <2>1, <2>2 DEF TypeInv, TypeParts, TensorType
    <2>4. memOf' \in [Ids -> Mems \cup {0}]
      BY <1>2, <1>3 DEF TypeInv, TypeParts, TensorType
    <2>5. memBytes' \in [Mems -> Nat]
      BY <1>1, <1>2, <1>3 DEF TypeInv, TypeParts, TensorType
    <2> QED
      BY <1>1, <1>2, <2>1, <2>3, <2>4, <2>5 DEF TypeInv, TypeParts, TensorType
  <1>5. ContentType'
    <2>1. Stored(content, p, partial) \in [Locations -> Ids \cup {0}]
      BY <1>1, StoredType DEF TypeInv, TypeParts, ContentType
    <2> QED
      BY <1>1, <1>2, <2>1, StoredType DEF ContentType
  <1> DEFINE sums    == {In(pred, 1), In(target, 2), Out(partial, 3)}
             reduces == {In(partial, 1), Out(out, 2)}
             node    == Node("loss", <<pred, target>>, <<out>>, <<partial>>, <<sums, reduces>>)
  <1>6. nodes' = Append(nodes, node) /\ UNCHANGED <<phase, planVars, execVars>>
    BY DEF Loss
  <1>7. node \in NodeType
    <2> HIDE DEF partial, out
    <2>1. sums \in SUBSET RawType /\ reduces \in SUBSET RawType
      BY <1>1 DEF In, Out, Arg, RawType
    <2>2. <<sums, reduces>> \in Seq(SUBSET RawType)
      BY <2>1
    <2>3. /\ <<pred, target>> \in Seq(Ids) /\ <<out>> \in Seq(Ids) /\ <<partial>> \in Seq(Ids)
          /\ Len(<<pred, target>>) <= 5 /\ Len(<<out>>) <= 3 /\ Len(<<partial>>) <= 1
      BY <1>1
    <2> QED
      BY <2>2, <2>3, NodeTyped DEF Operations
  <1> HIDE DEF node
  <1>8. NodesType' /\ ScanType' /\ PcType' /\ ExecType'
    BY <1>1, <1>6, <1>7, NodesAdded DEF TypeInv, TypeParts, ExecType, execVars
  <1> QED
    BY <1>4, <1>5, <1>8 DEF TypeParts

LEMMA ViewTypes == ASSUME TypeInv, NEW t \in Operands, View(t) PROVE TypeParts'
  <1> DEFINE out  == created + 1
             node == Node("view", <<t>>, <<out>>, <<>>, <<>>)
  <1>1. out \in Ids /\ Len(nodes) + 1 <= MaxNodes /\ t \in Ids
    BY OperandsTyped DEF View, Capturing
  <1>2. TensorType'
    <2>1. root' = [root EXCEPT ![out] = root[t]] /\ live' = live \cup {out} /\ Create(out, memOf[t])
      BY DEF View
    <2>2. root' \in [Ids -> Ids] /\ memOf[t] \in Mems \cup {0}
      BY <1>1, <2>1 DEF TypeInv, TypeParts, TensorType
    <2> QED
      BY <1>1, <2>1, <2>2, CreateType DEF TypeInv, TypeParts
  <1>3. nodes' = Append(nodes, node) /\ UNCHANGED <<phase, content, planVars, execVars>>
    BY DEF View
  <1>4. node \in NodeType
    <2>1. /\ <<t>> \in Seq(Ids) /\ <<out>> \in Seq(Ids) /\ <<>> \in Seq(Ids)
          /\ <<>> \in Seq(SUBSET RawType)
          /\ Len(<<t>>) <= 5 /\ Len(<<out>>) <= 3 /\ Len(<<>>) <= 1
      BY <1>1
    <2> QED
      BY <2>1, NodeTyped DEF Operations
  <1> HIDE DEF node
  <1>5. NodesType' /\ ScanType' /\ PcType' /\ ExecType' /\ ContentType'
    BY <1>1, <1>3, <1>4, NodesAdded DEF TypeInv, TypeParts, ExecType, ContentType, execVars
  <1> QED
    BY <1>2, <1>5 DEF TypeParts

LEMMA UpdateTypes ==
  ASSUME TypeInv, NEW dst \in Operands, NEW src \in Operands, Update(dst, src)
  PROVE  TypeParts'
  <1> DEFINE args == {InOut(dst, 1), In(src, 2)}
             node == Node("update", <<dst, src>>, <<dst>>, <<>>, <<args>>)
  <1>1. Len(nodes) + 1 <= MaxNodes /\ dst \in Ids /\ src \in Ids /\ root[dst] \in Ids
    BY OperandsTyped DEF Update, Capturing, TypeInv, TypeParts, TensorType
  <1>2. /\ nodes' = Append(nodes, node) /\ content' = Stored(content, memOf[dst], root[dst])
        /\ UNCHANGED <<phase, tensorVars, planVars, execVars>>
    BY DEF Update
  <1>3. node \in NodeType
    <2>1. args \in SUBSET RawType
      BY <1>1 DEF In, InOut, Arg, RawType
    <2> HIDE DEF args
    <2>2. /\ <<dst, src>> \in Seq(Ids) /\ <<dst>> \in Seq(Ids) /\ <<>> \in Seq(Ids)
          /\ <<args>> \in Seq(SUBSET RawType)
          /\ Len(<<dst, src>>) <= 5 /\ Len(<<dst>>) <= 3 /\ Len(<<>>) <= 1
      BY <1>1, <2>1
    <2> QED
      BY <2>2, NodeTyped DEF Operations
  <1> HIDE DEF node
  <1>4. ContentType'
    BY <1>1, <1>2, StoredType DEF TypeInv, TypeParts, ContentType
  <1>5. NodesType' /\ ScanType' /\ PcType' /\ ExecType' /\ TensorType'
    BY <1>1, <1>2, <1>3, NodesAdded
    DEF TypeInv, TypeParts, ExecType, TensorType, execVars, tensorVars
  <1> QED
    BY <1>4, <1>5 DEF TypeParts

LEMMA AdamTypes == ASSUME TypeInv, NEW grad \in Operands, AdamStep(grad) PROVE TypeParts'
  <1> DEFINE ticks == {InOut(adamState, 1)}
             tick  == Node("adam_state", <<adamState>>, <<adamState>>, <<>>, <<ticks>>)
             step  == Node("adam", AdamIds(grad), <<param, moment, variance>>, <<>>,
                           <<AdamArgs(grad)>>)
  <1>1. /\ Len(nodes) + 2 <= MaxNodes /\ grad \in Ids
        /\ param \in Ids /\ moment \in Ids /\ variance \in Ids /\ adamState \in Ids
    BY OperandsTyped DEF AdamStep, Capturing, param, moment, variance, adamState
  <1> DEFINE c1 == Stored(content, memOf[adamState], adamState)
             c2 == Stored(c1, memOf[param], param)
             c3 == Stored(c2, memOf[moment], moment)
             c4 == Stored(c3, memOf[variance], variance)
  <1>2. /\ nodes' = nodes \o <<tick, step>> /\ content' = c4
        /\ UNCHANGED <<phase, tensorVars, planVars, execVars>>
    BY DEF AdamStep
  <1>3. ContentType'
    <2> HIDE DEF c1, c2, c3
    <2>1. c1 \in [Locations -> Ids \cup {0}]
      BY <1>1, StoredType DEF c1, TypeInv, TypeParts, ContentType
    <2>2. c2 \in [Locations -> Ids \cup {0}]
      BY <1>1, <2>1, StoredType DEF c2
    <2>3. c3 \in [Locations -> Ids \cup {0}]
      BY <1>1, <2>2, StoredType DEF c3
    <2> QED
      BY <1>1, <1>2, <2>3, StoredType DEF ContentType
  <1>4. tick \in NodeType
    <2>1. ticks \in SUBSET RawType
      BY <1>1 DEF InOut, Arg, RawType
    <2> HIDE DEF ticks
    <2>2. /\ <<adamState>> \in Seq(Ids) /\ <<>> \in Seq(Ids) /\ <<ticks>> \in Seq(SUBSET RawType)
          /\ Len(<<adamState>>) <= 5 /\ Len(<<adamState>>) <= 3 /\ Len(<<>>) <= 1
      BY <1>1, <2>1
    <2> QED
      BY <2>2, NodeTyped DEF Operations
  <1>5. step \in NodeType
    <2>1. AdamArgs(grad) \in SUBSET RawType
      BY <1>1 DEF AdamArgs, InOut, In, Arg, RawType
    <2>2. AdamIds(grad) \in Seq(Ids) /\ Len(AdamIds(grad)) <= 5
      BY <1>1 DEF AdamIds
    <2>3. /\ <<param, moment, variance>> \in Seq(Ids) /\ <<>> \in Seq(Ids)
          /\ <<AdamArgs(grad)>> \in Seq(SUBSET RawType)
          /\ Len(<<param, moment, variance>>) <= 3 /\ Len(<<>>) <= 1
      BY <1>1, <2>1
    <2> QED
      BY <2>2, <2>3, NodeTyped DEF Operations
  <1> HIDE DEF tick, step
  <1>6. nodes' \in Seq(NodeType) /\ Len(nodes') = Len(nodes) + 2 /\ Len(nodes) \in Nat
    <2>1. <<tick, step>> \in Seq(NodeType) /\ Len(<<tick, step>>) = 2
      BY <1>4, <1>5
    <2>2. nodes \in Seq(NodeType)
      BY DEF TypeInv, TypeParts, NodesType
    <2> QED
      BY <1>2, <2>1, <2>2, ConcatProperties, LenProperties
  <1>7. NodesType' /\ ScanType' /\ PcType'
    <2>1. NodesType'
      BY <1>1, <1>6 DEF NodesType
    <2>2. ScanType'
      BY <1>2, <1>6 DEF TypeInv, TypeParts, ScanType, planVars, PlanInv, PlanType
    <2>3. PcType'
      BY <1>2, <1>6 DEF TypeInv, TypeParts, PcType, execVars
    <2> QED
      BY <2>1, <2>2, <2>3
  <1>8. ExecType' /\ TensorType'
    BY <1>2 DEF TypeInv, TypeParts, ExecType, TensorType, execVars, tensorVars
  <1> QED
    BY <1>3, <1>7, <1>8 DEF TypeParts

LEMMA UploadTypes == ASSUME TypeInv, Upload PROVE TypeParts'
  <1> DEFINE out == created + 1
  <1>1. out \in Ids
    BY DEF Upload
  <1>2. PICK m \in Acquire(Taken, Bytes[out]) : Create(out, m) /\ content' = Stored(content, m, out)
    BY DEF Upload
  <1>3. live' = live \cup {out} /\ UNCHANGED <<phase, root, nodes, planVars, execVars>>
    BY DEF Upload
  <1>4. TensorType'
    BY <1>1, <1>2, <1>3, AcquiredType, CreateType DEF TypeInv, TypeParts, TensorType
  <1>5. ContentType'
    BY <1>1, <1>2, StoredType DEF TypeInv, TypeParts, ContentType
  <1>6. NodesType' /\ ScanType' /\ ExecType' /\ PcType'
    BY <1>3 DEF TypeInv, TypeParts, NodesType, ScanType, ExecType, PcType, planVars, execVars
  <1> QED
    BY <1>4, <1>5, <1>6 DEF TypeParts

LEMMA ScanTypes == ASSUME TypeInv, ScanNode PROVE TypeParts'
  <1>1. /\ scan' = scan + 1 /\ scan + 1 <= Len(nodes) /\ scan \in Nat
        /\ UNCHANGED <<phase, tensorVars, nodes, content, execVars>>
    BY DEF ScanNode, TypeInv, PlanInv, PlanType
  <1>2. \A t \in Ids : /\ first'[t] = scan + 1 \/ first'[t] = first[t]
                       /\ last'[t] = scan + 1 \/ last'[t] = last[t]
    BY DEF ScanNode
  <1>3. ScanType'
    <2>1. \A t \in Ids : first[t] \in Nat /\ last[t] \in Nat
      BY DEF TypeInv, PlanInv, PlanType
    <2>2. \A t \in Ids : first[t] <= scan /\ last[t] <= scan
      BY DEF TypeInv, TypeParts, ScanType
    <2>3. \A t \in Ids : first'[t] <= scan + 1 /\ last'[t] <= scan + 1
      <3> TAKE t \in Ids
      <3>1. /\ first[t] <= scan + 1 /\ last[t] <= scan + 1 /\ scan + 1 <= scan + 1
        BY <1>1, <2>1, <2>2
      <3> QED
        BY <1>2, <3>1
    <2> QED
      BY <1>1, <2>3 DEF ScanType
  <1> QED
    BY <1>1, <1>3
    DEF TypeInv, TypeParts, TensorType, NodesType, ContentType, ExecType, PcType, tensorVars,
        execVars

\* Replaying a launch leaves each location with a tensor or without.
LEMMA ReplayTypes == ASSUME TypeInv, Replay PROVE TypeParts'
  <1> DEFINE launch == nodes[pc.node].launches[pc.launch]
  <1>1. /\ Running /\ pc.launch <= Len(nodes[pc.node].launches) /\ content' = Results(launch)
        /\ pc' = [pc EXCEPT !.launch = @ + 1]
        /\ UNCHANGED <<phase, tensorVars, nodes, planVars, arena, bound, executions>>
    BY DEF Replay
  <1>2. /\ pc \in [node : Nat, launch : Nat] /\ phase = "ready" /\ executions < MaxExecutions
        /\ pc.node \in 1 .. Len(nodes) /\ pc.launch > 0
    BY <1>1 DEF Running, TypeInv, TypeParts, PcType
  <1>3. launch \in SUBSET ArgType
    <2>1. nodes[pc.node] \in NodeType
      BY <1>2, ElementOfSeq DEF TypeInv, TypeParts, NodesType
    <2>2. nodes[pc.node].launches \in Seq(SUBSET ArgType)
      BY <2>1 DEF NodeType
    <2>3. pc.launch \in 1 .. Len(nodes[pc.node].launches)
      BY <1>1, <1>2, <2>2, LenProperties
    <2> QED
      BY <2>2, <2>3, ElementOfSeq
  <1> HIDE DEF launch
  <1>4. \A t \in Ids : Meant(t) \in Ids
    BY DEF Meant, TypeInv, TypeParts, ExecType, TensorType
  <1>5. ContentType'
    <2> DEFINE outs == {arg \in launch : arg.writes}
    <2> SUFFICES ASSUME NEW l \in Locations PROVE Results(launch)[l] \in Ids \cup {0}
      BY <1>1 DEF ContentType, Results
    <2>1. CASE \E arg \in outs : Location(arg) = l
      <3> DEFINE out == CHOOSE arg \in outs : Location(arg) = l
      <3>1. out \in launch
        BY <2>1
      <3>2. Results(launch)[l] = Meant(out.t)
        BY <2>1 DEF Results
      <3> HIDE DEF out
      <3>3. out.t \in Ids
        BY <1>3, <3>1 DEF ArgType
      <3> QED
        BY <1>4, <3>2, <3>3
    <2>2. CASE ~\E arg \in outs : Location(arg) = l
      <3>1. Results(launch)[l] \in {0, content[l]}
        BY <2>2 DEF Results
      <3> QED
        BY <3>1 DEF TypeInv, TypeParts, ContentType
    <2> QED
      BY <2>1, <2>2
  <1>6. PcType'
    BY <1>1, <1>2 DEF TypeInv, TypeParts, PcType
  <1> QED
    BY <1>1, <1>5, <1>6
    DEF TypeInv, TypeParts, TensorType, NodesType, ScanType, ExecType, tensorVars, planVars

\* The node after one that is not the last is a node.
LEMMA Successor ==
  ASSUME NEW k \in Nat, NEW n \in Nat, k < n
  PROVE  k + 1 \in 1 .. n /\ k + 1 \in Nat
  OBVIOUS

\* No step breaks the types.
LEMMA NextTypes == TypeInv /\ [Next]_vars => TypeInv'
  <1> SUFFICES ASSUME TypeInv, [Next]_vars PROVE TypeInv'
    OBVIOUS
  <1>1. PlanInv'
    BY NextPlan DEF TypeInv
  <1> SUFFICES TypeParts'
    BY <1>1 DEF TypeInv
  <1>2. ASSUME NEW t \in Operands, Map(<<t>>) PROVE TypeParts'
    <2>1. <<t>> \in Seq(Operands) /\ Len(<<t>>) <= 2
      OBVIOUS
    <2> QED
      BY <1>2, <2>1, MapTypes
  <1>3. ASSUME NEW t \in Operands, NEW u \in Operands, Map(<<t, u>>) PROVE TypeParts'
    <2>1. <<t, u>> \in Seq(Operands) /\ Len(<<t, u>>) <= 2
      OBVIOUS
    <2> QED
      BY <1>3, <2>1, MapTypes
  <1>4. ASSUME NEW t \in Operands, NEW u \in Operands, Loss(t, u) PROVE TypeParts'
    BY <1>4, LossTypes
  <1>5. ASSUME NEW t \in Operands, View(t) PROVE TypeParts'
    BY <1>5, ViewTypes
  <1>6. ASSUME NEW t \in Operands, NEW u \in Operands, Update(t, u) PROVE TypeParts'
    BY <1>6, UpdateTypes
  <1>7. ASSUME NEW t \in Operands, AdamStep(t) PROVE TypeParts'
    BY <1>7, AdamTypes
  <1> USE DEF TypeInv, TypeParts, TensorType, NodesType, ContentType, ScanType, ExecType, PcType
  <1>8. CASE EndCapture
    <2>1. Len(nodes) > 0
      BY <1>8, EmptySeq, LenProperties DEF EndCapture
    <2> QED
      BY <1>8, <2>1 DEF EndCapture, tensorVars, planVars, execVars
  <1>9. CASE Upload
    BY <1>9, UploadTypes
  <1>10. ASSUME NEW t \in live, Drop(t) PROVE TypeParts'
    BY <1>10 DEF Drop, planVars, execVars
  <1>11. CASE ScanNode
    BY <1>11, ScanTypes
  <1>12. CASE EndScan
    BY <1>12 DEF EndScan, tensorVars, planVars, execVars
  <1>13. ASSUME NEW t \in Ids, PlaceNew(t) PROVE TypeParts'
    BY <1>13 DEF PlaceNew, tensorVars, execVars
  <1>14. ASSUME NEW t \in Ids, NEW a \in DOMAIN allocs, PlaceReused(t, a) PROVE TypeParts'
    BY <1>14 DEF PlaceReused, tensorVars, execVars
  <1>15. CASE EndPlan
    BY <1>15 DEF EndPlan, ArenaIds, tensorVars, planVars
  <1>16. ASSUME NEW t \in Bindable, NEW u \in Strangers, Bind(t, u) PROVE TypeParts'
    <2>1. u \in Ids
      BY OperandsTyped DEF Strangers
    <2> QED
      BY <1>16, <2>1 DEF Bind, tensorVars, planVars
  <1>17. CASE ClearBindings
    BY <1>17 DEF ClearBindings, tensorVars, planVars
  <1>18. CASE StartExecute
    <2>1. /\ phase = "ready" /\ executions < MaxExecutions /\ pc' = [node |-> 1, launch |-> 1]
          /\ UNCHANGED <<phase, tensorVars, nodes, content, planVars, arena, bound, executions>>
      BY <1>18 DEF StartExecute
    <2>2. Len(nodes) \in Nat /\ Len(nodes) > 0
      BY <2>1, LenProperties
    <2>3. PcType'
      BY <2>1, <2>2
    <2> QED
      BY <2>1, <2>3 DEF tensorVars, planVars
  <1>19. CASE Replay
    BY <1>19, ReplayTypes
  <1>20. CASE NextNode
    <2>1. /\ Running /\ pc.node < Len(nodes) /\ pc' = [node |-> pc.node + 1, launch |-> 1]
          /\ UNCHANGED <<phase, tensorVars, nodes, content, planVars, arena, bound, executions>>
      BY <1>20 DEF NextNode
    <2>2. Len(nodes) \in Nat /\ pc.node \in Nat
      BY LenProperties
    <2>3. pc'.node \in 1 .. Len(nodes') /\ pc'.launch > 0 /\ pc' \in [node : Nat, launch : Nat]
      <3>1. pc.node + 1 \in 1 .. Len(nodes) /\ pc.node + 1 \in Nat
        BY <2>1, <2>2, Successor
      <3>2. pc'.node = pc.node + 1 /\ pc'.launch = 1
        BY <2>1
      <3>3. nodes' = nodes
        BY <2>1
      <3> QED
        BY <2>1, <3>1, <3>2, <3>3
    <2>4. phase' = "ready" /\ executions' < MaxExecutions /\ Len(nodes') > 0
      BY <2>1, <2>2 DEF Running
    <2>5. PcType'
      BY <2>3, <2>4
    <2> QED
      BY <2>1, <2>5 DEF tensorVars, planVars
  <1>21. CASE EndExecute
    <2>1. /\ Running /\ pc' = Idle /\ executions' = executions + 1
          /\ UNCHANGED <<phase, tensorVars, nodes, content, planVars, arena, bound>>
      BY <1>21 DEF EndExecute
    <2>2. executions \in Nat /\ executions < MaxExecutions
      BY <2>1 DEF Running
    <2>3. ExecType'
      <3>1. executions + 1 \in 0 .. MaxExecutions
        BY <2>2
      <3> QED
        BY <2>1, <3>1
    <2>4. PcType'
      <3>1. pc' = Idle /\ Idle \in [node : Nat, launch : Nat]
        BY <2>1 DEF Idle
      <3>2. phase' # "capture" => Len(nodes') > 0
        BY <2>1
      <3> QED
        BY <3>1, <3>2
    <2> QED
      BY <2>1, <2>3, <2>4 DEF tensorVars, planVars
  <1>22. CASE UNCHANGED vars
    BY <1>22 DEF vars, tensorVars, planVars, execVars
  <1> QED
    BY <1>2, <1>3, <1>4, <1>5, <1>6, <1>7, <1>8, <1>9, <1>10, <1>11, <1>12, <1>13, <1>14,
       <1>15, <1>16, <1>17, <1>18, <1>19, <1>20, <1>21, <1>22 DEF Next

\* Every variable keeps its type, whatever is captured, planned, bound and replayed.
THEOREM TypesAlways == Spec => []TypeOK
  BY TypeFollows, InitTypes, NextTypes, PTL DEF Spec

(***************************************************************************)
(* Lifetimes and launches.                                                 *)
(***************************************************************************)

Produced(node) == Elements(node.outs) \cup Elements(node.temps)

\* The tensor is no view, and this node is the first to produce it.
MadeAt(i, t) ==
  t \in Produced(nodes[i]) /\ root[t] = t /\ \A j \in 1 .. i - 1 : t \notin Produced(nodes[j])

\* Launches are passed the tensors that their node takes, and new ones that it makes: why it is
\* enough that plan_buffers looks at a node's inputs.
PassedInv ==
  /\ \A t \in Ids : t > created => root[t] = t
  /\ \A i \in DOMAIN nodes : Produced(nodes[i]) \subseteq 1 .. created
  /\ \A i \in DOMAIN nodes : \A launch \in Elements(nodes[i].launches) : \A arg \in launch :
       arg.t \in Elements(nodes[i].ins) \/ MadeAt(i, arg.t)

ScannedAll == (phase = "capture" => scan = 0) /\ (phase \in {"place", "ready"} => scan = Len(nodes))

\* Of the nodes folded in: only what one of them produces has a lifetime, and it lasts to each
\* of them that a launch is passed the tensor.
SpanInv ==
  /\ \A t \in Ids : first[t] # 0 => \E j \in 1 .. scan : t \in Produced(nodes[j])
  /\ \A i \in 1 .. scan : \A launch \in Elements(nodes[i].launches) : \A arg \in launch :
       first[root[arg.t]] # 0 => i <= last[root[arg.t]]

AliveInv == PassedInv /\ ScannedAll /\ SpanInv

\* Nodes are a typed sequence, and what their launches are passed are tensors.
LEMMA LaunchTypes ==
  ASSUME TypeInv
  PROVE  /\ nodes \in Seq(NodeType) /\ DOMAIN nodes = 1 .. Len(nodes) /\ Len(nodes) \in Nat
         /\ scan \in Nat /\ scan <= Len(nodes) /\ created \in Nat /\ root \in [Ids -> Ids]
         /\ \A i \in DOMAIN nodes : nodes[i] \in NodeType
         /\ \A i \in DOMAIN nodes : \A launch \in Elements(nodes[i].launches) :
              \A arg \in launch : arg.t \in Ids /\ root[arg.t] \in Ids
         /\ \A i \in DOMAIN nodes : Elements(nodes[i].ins) \subseteq Ids
  <1>1. nodes \in Seq(NodeType)
    BY DEF TypeInv, TypeParts, NodesType
  <1>2. DOMAIN nodes = 1 .. Len(nodes) /\ Len(nodes) \in Nat
    BY <1>1, LenProperties
  <1>3. \A i \in DOMAIN nodes : nodes[i] \in NodeType
    BY <1>1, <1>2, ElementOfSeq
  <1>4. /\ scan \in Nat /\ scan <= Len(nodes) /\ created \in Nat /\ root \in [Ids -> Ids]
    <2>1. scan \in Nat /\ scan <= Len(nodes)
      BY DEF TypeInv, TypeParts, ScanType, PlanInv, PlanType
    <2>2. created \in Ids /\ root \in [Ids -> Ids]
      BY DEF TypeInv, TypeParts, TensorType
    <2> QED
      BY <2>1, <2>2
  <1>5. ASSUME NEW i \in DOMAIN nodes, NEW launch \in Elements(nodes[i].launches), NEW arg \in launch
        PROVE  arg.t \in Ids
    <2>1. nodes[i].launches \in Seq(SUBSET ArgType)
      BY <1>3 DEF NodeType
    <2>2. PICK k \in DOMAIN nodes[i].launches : launch = nodes[i].launches[k]
      BY DEF Elements
    <2>3. launch \in SUBSET ArgType
      BY <2>1, <2>2, LenProperties, ElementOfSeq
    <2> QED
      BY <2>3 DEF ArgType
  <1>6. ASSUME NEW i \in DOMAIN nodes PROVE Elements(nodes[i].ins) \subseteq Ids
    <2>1. nodes[i].ins \in Seq(Ids)
      BY <1>3 DEF NodeType
    <2> QED
      BY <2>1, LenProperties, ElementOfSeq DEF Elements
  <1> QED
    BY <1>1, <1>2, <1>3, <1>4, <1>5, <1>6

\* Before anything is captured.
LEMMA InitAlive == Init => AliveInv
  <1> SUFFICES ASSUME Init PROVE AliveInv
    OBVIOUS
  <1>1. DOMAIN nodes = {}
    BY DEF Init
  <1> QED
    BY <1>1 DEF Init, AliveInv, PassedInv, ScannedAll, SpanInv

\* Arguments that record_op maps stay the tensors they are.
LEMMA PassedTensors ==
  ASSUME NEW op, NEW ins, NEW outs, NEW temps, NEW launches,
         NEW launch \in Elements(Node(op, ins, outs, temps, launches).launches), NEW arg \in launch
  PROVE  \E k \in DOMAIN launches : \E a \in launches[k] : arg.t = a.t
  <1> DEFINE ids == ins \o outs \o temps
             made(a) == [t |-> a.t, via |-> Via(a, ids), reads |-> a.reads, writes |-> a.writes]
  <1>1. Node(op, ins, outs, temps, launches).launches = [k \in DOMAIN launches |-> Mapped(launches[k], ids)]
    BY DEF Node
  <1>2. PICK k \in DOMAIN launches : launch = Mapped(launches[k], ids)
    BY <1>1 DEF Elements
  <1>3. PICK a \in launches[k] : arg = made(a)
    BY <1>2 DEF Mapped
  <1>4. made(a).t = a.t
    OBVIOUS
  <1> HIDE DEF made
  <1> QED
    BY <1>3, <1>4

\* A node that capture adds: what it produces exists, and its launches are passed what it takes
\* and new tensors it makes.
Added(i) ==
  /\ Produced(nodes'[i]) \subseteq 1 .. created'
  /\ \A launch \in Elements(nodes'[i].launches) : \A arg \in launch :
       \/ arg.t \in Elements(nodes'[i].ins)
       \/ /\ arg.t \in Produced(nodes'[i]) /\ arg.t > created /\ root'[arg.t] = arg.t
          /\ i = Len(nodes) + 1

\* Nodes are added to the graph.
LEMMA AddedAlive ==
  ASSUME TypeInv, TypeInv', AliveInv, phase = "capture", phase' = "capture", UNCHANGED planVars,
         Len(nodes) <= Len(nodes'), \A i \in 1 .. Len(nodes) : nodes'[i] = nodes[i],
         \A i \in Len(nodes) + 1 .. Len(nodes') : Added(i),
         created <= created', \A t \in 1 .. created : root'[t] = root[t],
         \A t \in Ids : t > created' => root'[t] = t
  PROVE  AliveInv'
  <1>1. /\ DOMAIN nodes = 1 .. Len(nodes) /\ Len(nodes) \in Nat /\ created \in Nat
        /\ \A i \in DOMAIN nodes : \A launch \in Elements(nodes[i].launches) :
             \A arg \in launch : arg.t \in Ids
    BY LaunchTypes
  <1>2. DOMAIN nodes' = 1 .. Len(nodes') /\ Len(nodes') \in Nat /\ created' \in Nat
    <2>1. nodes' \in Seq(NodeType) /\ created' \in Ids
      BY DEF TypeInv, TypeParts, NodesType, TensorType
    <2> QED
      BY <2>1, LenProperties
  <1>3. /\ \A i \in DOMAIN nodes' : i \in DOMAIN nodes \/ i \in Len(nodes) + 1 .. Len(nodes')
        /\ \A i \in DOMAIN nodes : i \in DOMAIN nodes' /\ nodes'[i] = nodes[i]
    BY <1>1, <1>2
  <1>4. \A i \in DOMAIN nodes : Produced(nodes[i]) \subseteq 1 .. created
    BY DEF AliveInv, PassedInv
  <1>5. \A i \in DOMAIN nodes' : Produced(nodes'[i]) \subseteq 1 .. created'
    <2> TAKE i \in DOMAIN nodes'
    <2>1. CASE i \in DOMAIN nodes
      <3>1. Produced(nodes'[i]) \subseteq 1 .. created
        BY <1>3, <1>4, <2>1
      <3>2. 1 .. created \subseteq 1 .. created'
        BY <1>1, <1>2
      <3> QED
        BY <3>1, <3>2
    <2>2. CASE i \in Len(nodes) + 1 .. Len(nodes')
      BY <2>2 DEF Added
    <2> QED
      BY <1>3, <2>1, <2>2
  <1>6. ASSUME NEW i \in DOMAIN nodes', NEW launch \in Elements(nodes'[i].launches), NEW arg \in launch
        PROVE  arg.t \in Elements(nodes'[i].ins) \/ MadeAt(i, arg.t)'
    <2>1. CASE i \in DOMAIN nodes
      <3>1. nodes'[i] = nodes[i] /\ launch \in Elements(nodes[i].launches)
        BY <1>3, <2>1
      <3>2. CASE arg.t \in Elements(nodes[i].ins)
        BY <3>1, <3>2
      <3>3. CASE MadeAt(i, arg.t)
        <4>1. arg.t \in 1 .. created
          BY <1>4, <2>1, <3>3 DEF MadeAt
        <4>2. \A j \in 1 .. i - 1 : nodes'[j] = nodes[j]
          BY <1>1, <1>3, <2>1
        <4> QED
          BY <3>1, <3>3, <4>1, <4>2 DEF MadeAt
      <3> QED
        BY <2>1, <3>1, <3>2, <3>3 DEF AliveInv, PassedInv
    <2>2. CASE i \in Len(nodes) + 1 .. Len(nodes') /\ i \notin DOMAIN nodes
                /\ arg.t \notin Elements(nodes'[i].ins)
      <3>1. /\ arg.t \in Produced(nodes'[i]) /\ arg.t > created /\ root'[arg.t] = arg.t
            /\ i = Len(nodes) + 1
        BY <2>2 DEF Added
      <3>2. \A j \in 1 .. i - 1 : j \in DOMAIN nodes /\ nodes'[j] = nodes[j]
        BY <1>1, <1>3, <3>1
      <3>3. \A j \in 1 .. i - 1 : Produced(nodes'[j]) \subseteq 1 .. created
        BY <1>4, <3>2
      <3>4. arg.t \notin 1 .. created
        BY <1>1, <3>1
      <3>5. \A j \in 1 .. i - 1 : arg.t \notin Produced(nodes'[j])
        BY <3>3, <3>4
      <3> QED
        BY <3>1, <3>5 DEF MadeAt
    <2> QED
      BY <1>3, <2>1, <2>2
  <1>7. PassedInv'
    BY <1>5, <1>6 DEF PassedInv
  <1>8. scan' = 0 /\ \A t \in Ids : first'[t] = 0
    <2>1. scan = 0
      BY DEF AliveInv, ScannedAll
    <2>2. \A t \in Ids : first[t] = 0
      BY <2>1 DEF AliveInv, SpanInv
    <2> QED
      BY <2>1, <2>2 DEF planVars
  <1>9. ScannedAll' /\ SpanInv'
    BY <1>8 DEF ScannedAll, SpanInv
  <1> QED
    BY <1>7, <1>9 DEF AliveInv

\* One node is added.
LEMMA OneAlive ==
  ASSUME TypeInv, TypeInv', AliveInv, phase = "capture", phase' = "capture", UNCHANGED planVars,
         NEW node, nodes' = Append(nodes, node), Produced(node) \subseteq 1 .. created',
         \A launch \in Elements(node.launches) : \A arg \in launch :
           \/ arg.t \in Elements(node.ins)
           \/ arg.t \in Produced(node) /\ arg.t > created /\ root'[arg.t] = arg.t,
         created <= created', \A t \in 1 .. created : root'[t] = root[t],
         \A t \in Ids : t > created' => root'[t] = t
  PROVE  AliveInv'
  <1>1. nodes \in Seq(NodeType) /\ Len(nodes) \in Nat
    BY LaunchTypes
  <1>2. /\ Len(nodes') = Len(nodes) + 1 /\ \A i \in 1 .. Len(nodes) : nodes'[i] = nodes[i]
        /\ nodes'[Len(nodes) + 1] = node
    BY <1>1, AppendProperties
  <1>3. \A i \in Len(nodes) + 1 .. Len(nodes') : i = Len(nodes) + 1 /\ nodes'[i] = node
    BY <1>1, <1>2
  <1>4. \A i \in Len(nodes) + 1 .. Len(nodes') : Added(i)
    BY <1>3 DEF Added
  <1>5. Len(nodes) <= Len(nodes')
    BY <1>1, <1>2
  <1> QED
    BY <1>2, <1>4, <1>5, AddedAlive

\* Operations that allocate their results.
LEMMA MapAlive ==
  ASSUME TypeInv, TypeInv', AliveInv, NEW ins, Map(ins)
  PROVE  AliveInv'
  <1> DEFINE out    == created + 1
             launch == {In(ins[i], i) : i \in DOMAIN ins} \cup {Out(out, Len(ins) + 1)}
             node   == Node("map", ins, <<out>>, <<>>, <<launch>>)
  <1>1. /\ phase = "capture" /\ phase' = "capture" /\ root' = root /\ created' = out
        /\ out \in Ids /\ UNCHANGED planVars /\ nodes' = Append(nodes, node)
    BY DEF Map, Capturing, Create
  <1>2. /\ created \in Nat /\ out > created /\ \A t \in Ids : t > created => root'[t] = t
        /\ \A t \in Ids : t > created' => root'[t] = t
    <2>1. created \in Nat /\ \A t \in Ids : t > created => root[t] = t
      BY LaunchTypes DEF AliveInv, PassedInv
    <2>2. \A t \in Ids : t > created + 1 => t > created
      BY <2>1
    <2> QED
      BY <1>1, <2>1, <2>2
  <1>3. Produced(node) = {out} /\ Elements(node.ins) = Elements(ins)
    BY DEF Produced, Node, Elements
  <1>4. \A a \in launch : a.t \in Elements(ins) \/ a.t = out
    BY DEF In, Out, Arg, Elements
  <1>5. ASSUME NEW l \in Elements(node.launches), NEW arg \in l
        PROVE  \/ arg.t \in Elements(node.ins)
               \/ arg.t \in Produced(node) /\ arg.t > created /\ root'[arg.t] = arg.t
    <2>1. \E k \in DOMAIN <<launch>> : \E a \in <<launch>>[k] : arg.t = a.t
      <3> HIDE DEF launch
      <3> QED
        BY PassedTensors
    <2>2. \E a \in launch : arg.t = a.t
      <3> HIDE DEF launch
      <3> QED
        BY <2>1
    <2> QED
      BY <1>1, <1>2, <1>3, <1>4, <2>2
  <1>6. Produced(node) \subseteq 1 .. created' /\ created <= created'
    <2>1. out \in 1 .. out /\ created <= out
      BY <1>2
    <2> HIDE DEF out, node
    <2> QED
      BY <1>1, <1>3, <2>1
  <1>7. \A t \in 1 .. created : root'[t] = root[t]
    BY <1>1
  <1> HIDE DEF node
  <1> QED
    BY <1>1, <1>2, <1>5, <1>6, <1>7, OneAlive

LEMMA LossAlive ==
  ASSUME TypeInv, TypeInv', AliveInv, NEW pred, NEW target, Loss(pred, target)
  PROVE  AliveInv'
  <1> DEFINE partial == created + 1
             out     == created + 2
             sums    == {In(pred, 1), In(target, 2), Out(partial, 3)}
             reduces == {In(partial, 1), Out(out, 2)}
             node    == Node("loss", <<pred, target>>, <<out>>, <<partial>>, <<sums, reduces>>)
  <1>1. /\ phase = "capture" /\ phase' = "capture" /\ root' = root /\ created' = out
        /\ out \in Ids /\ UNCHANGED planVars /\ nodes' = Append(nodes, node)
    BY DEF Loss, Capturing
  <1>2. /\ created \in Nat /\ out > created /\ partial > created /\ partial \in Ids
        /\ \A t \in Ids : t > created => root'[t] = t
        /\ \A t \in Ids : t > created' => root'[t] = t
    <2>1. created \in Nat /\ \A t \in Ids : t > created => root[t] = t
      BY LaunchTypes DEF AliveInv, PassedInv
    <2>2. \A t \in Ids : t > created + 2 => t > created
      BY <2>1
    <2>3. out > created /\ partial > created /\ partial \in Ids
      BY <1>1, <2>1
    <2> QED
      BY <1>1, <2>1, <2>2, <2>3
  <1>3. Produced(node) = {out, partial} /\ Elements(node.ins) = {pred, target}
    BY DEF Produced, Node, Elements
  <1>4. /\ \A a \in sums : a.t \in {pred, target, partial}
        /\ \A a \in reduces : a.t \in {partial, out}
    BY DEF In, Out, Arg
  <1>5. ASSUME NEW l \in Elements(node.launches), NEW arg \in l
        PROVE  \/ arg.t \in Elements(node.ins)
               \/ arg.t \in Produced(node) /\ arg.t > created /\ root'[arg.t] = arg.t
    <2> HIDE DEF sums, reduces
    <2>1. \E k \in DOMAIN <<sums, reduces>> : \E a \in <<sums, reduces>>[k] : arg.t = a.t
      BY PassedTensors
    <2>2. \E a \in sums \cup reduces : arg.t = a.t
      BY <2>1
    <2>3. arg.t \in {pred, target, partial, out}
      BY <1>4, <2>2
    <2> QED
      BY <1>1, <1>2, <1>3, <2>3
  <1>6. Produced(node) \subseteq 1 .. created' /\ created <= created'
    <2>1. partial \in 1 .. out /\ out \in 1 .. out /\ created <= out
      BY <1>2
    <2> HIDE DEF partial, out, node
    <2> QED
      BY <1>1, <1>3, <2>1
  <1>7. \A t \in 1 .. created : root'[t] = root[t]
    BY <1>1
  <1> HIDE DEF node
  <1> QED
    BY <1>1, <1>2, <1>5, <1>6, <1>7, OneAlive

\* A view has no launches.
LEMMA ViewAlive == ASSUME TypeInv, TypeInv', AliveInv, NEW t, View(t) PROVE AliveInv'
  <1> DEFINE out  == created + 1
             node == Node("view", <<t>>, <<out>>, <<>>, <<>>)
  <1>1. /\ phase = "capture" /\ phase' = "capture" /\ root' = [root EXCEPT ![out] = root[t]]
        /\ created' = out /\ out \in Ids /\ UNCHANGED planVars /\ nodes' = Append(nodes, node)
    BY DEF View, Capturing, Create
  <1>2. /\ created \in Nat /\ root \in [Ids -> Ids] /\ \A u \in Ids : u > created => root[u] = u
    BY LaunchTypes DEF AliveInv, PassedInv
  <1>3. /\ \A u \in Ids : u > created' => u > created /\ u # out
        /\ \A u \in 1 .. created : u # out /\ u \in Ids /\ created <= created'
    BY <1>1, <1>2
  <1>4. /\ \A u \in Ids : u > created' => root'[u] = u
        /\ \A u \in 1 .. created : root'[u] = root[u]
    BY <1>1, <1>2, <1>3
  <1>5. Produced(node) = {out} /\ Elements(node.launches) = {}
    BY DEF Produced, Node, Elements
  <1>6. Produced(node) \subseteq 1 .. created' /\ created <= created'
    <2>1. out \in 1 .. out /\ created <= out
      BY <1>2
    <2> HIDE DEF out, node
    <2> QED
      BY <1>1, <1>5, <2>1
  <1> HIDE DEF node
  <1> QED
    BY <1>1, <1>4, <1>5, <1>6, OneAlive

\* Updates in place take what they write.
LEMMA UpdateAlive ==
  ASSUME TypeInv, TypeInv', AliveInv, NEW dst \in Operands, NEW src \in Operands, Update(dst, src)
  PROVE  AliveInv'
  <1> DEFINE launch == {InOut(dst, 1), In(src, 2)}
             node   == Node("update", <<dst, src>>, <<dst>>, <<>>, <<launch>>)
  <1>1. /\ phase = "capture" /\ phase' = "capture" /\ root' = root /\ created' = created
        /\ UNCHANGED planVars /\ nodes' = Append(nodes, node)
    BY DEF Update, Capturing, tensorVars
  <1>2. created \in Nat /\ dst \in 1 .. created /\ \A t \in Ids : t > created => root[t] = t
    BY OperandsTyped, LaunchTypes DEF Operands, TypeInv, TypeParts, TensorType, AliveInv, PassedInv
  <1>3. Produced(node) = {dst} /\ Elements(node.ins) = {dst, src}
    BY DEF Produced, Node, Elements
  <1>4. \A a \in launch : a.t \in {dst, src}
    BY DEF In, InOut, Arg
  <1>5. ASSUME NEW l \in Elements(node.launches), NEW arg \in l
        PROVE  arg.t \in Elements(node.ins)
    <2> HIDE DEF launch
    <2>1. \E k \in DOMAIN <<launch>> : \E a \in <<launch>>[k] : arg.t = a.t
      BY PassedTensors
    <2>2. \E a \in launch : arg.t = a.t
      BY <2>1
    <2> QED
      BY <1>3, <1>4, <2>2
  <1>6. Produced(node) \subseteq 1 .. created' /\ created <= created'
    <2> HIDE DEF node
    <2> QED
      BY <1>1, <1>2, <1>3
  <1>7. \A t \in 1 .. created : root'[t] = root[t]
    BY <1>1
  <1>8. \A t \in Ids : t > created' => root'[t] = t
    BY <1>1, <1>2
  <1> HIDE DEF node
  <1> QED
    BY <1>1, <1>5, <1>6, <1>7, <1>8, OneAlive

\* Both nodes of Adam's step take all that their launches are passed.
LEMMA AdamAlive ==
  ASSUME TypeInv, TypeInv', AliveInv, NEW grad \in Operands, AdamStep(grad)
  PROVE  AliveInv'
  <1> DEFINE ticks == {InOut(adamState, 1)}
             tick  == Node("adam_state", <<adamState>>, <<adamState>>, <<>>, <<ticks>>)
             step  == Node("adam", AdamIds(grad), <<param, moment, variance>>, <<>>,
                           <<AdamArgs(grad)>>)
  <1>1. /\ phase = "capture" /\ phase' = "capture" /\ root' = root /\ created' = created
        /\ UNCHANGED planVars /\ nodes' = nodes \o <<tick, step>>
    BY DEF AdamStep, Capturing, tensorVars
  <1>2. /\ created \in Nat /\ Leaves \subseteq 1 .. created
        /\ \A t \in Ids : t > created => root[t] = t
    <2>1. created \in Nat /\ \A t \in Ids : t > created => root[t] = t
      BY LaunchTypes DEF AliveInv, PassedInv
    <2>2. grad \in 1 .. created /\ grad \notin Leaves
      BY DEF Operands, TypeInv, TypeParts, TensorType, AdamStep
    <2>3. created >= 5
      BY <2>1, <2>2 DEF Leaves
    <2> QED
      BY <2>1, <2>3 DEF Leaves
  <1>3. /\ Produced(tick) \subseteq Leaves /\ Elements(tick.ins) = {adamState}
        /\ Produced(step) \subseteq Leaves
        /\ Elements(step.ins) = {adamState, param, grad, moment, variance}
    BY DEF Produced, Node, Elements, AdamIds, Leaves, param, moment, variance, adamState
  <1>4. /\ \A a \in ticks : a.t = adamState
        /\ \A a \in AdamArgs(grad) : a.t \in {adamState, param, grad, moment, variance}
    BY DEF In, InOut, Arg, AdamArgs
  <1>5. \A l \in Elements(tick.launches) : \A arg \in l : arg.t \in Elements(tick.ins)
    <2> TAKE l \in Elements(tick.launches)
    <2> TAKE arg \in l
    <2> HIDE DEF ticks
    <2>1. \E k \in DOMAIN <<ticks>> : \E a \in <<ticks>>[k] : arg.t = a.t
      BY PassedTensors
    <2>2. \E a \in ticks : arg.t = a.t
      BY <2>1
    <2> QED
      BY <1>3, <1>4, <2>2
  <1>6. \A l \in Elements(step.launches) : \A arg \in l : arg.t \in Elements(step.ins)
    <2> TAKE l \in Elements(step.launches)
    <2> TAKE arg \in l
    <2>1. \E k \in DOMAIN <<AdamArgs(grad)>> : \E a \in <<AdamArgs(grad)>>[k] : arg.t = a.t
      BY PassedTensors
    <2>2. \E a \in AdamArgs(grad) : arg.t = a.t
      BY <2>1
    <2> QED
      BY <1>3, <1>4, <2>2
  <1> HIDE DEF tick, step
  <1>7. /\ Len(nodes) \in Nat /\ Len(nodes') = Len(nodes) + 2
        /\ \A i \in 1 .. Len(nodes) : nodes'[i] = nodes[i]
        /\ nodes'[Len(nodes) + 1] = tick /\ nodes'[Len(nodes) + 2] = step
    <2>1. nodes \in Seq(NodeType) /\ Len(nodes) \in Nat
      BY LaunchTypes
    <2>2. nodes \in Seq(NodeType \cup {tick, step}) /\ <<tick, step>> \in Seq(NodeType \cup {tick, step})
      BY <2>1, SeqMonotonic
    <2> QED
      BY <1>1, <2>1, <2>2, ConcatProperties
  <1>8. \A i \in Len(nodes) + 1 .. Len(nodes') : Added(i)
    <2>1. \A i \in Len(nodes) + 1 .. Len(nodes') : nodes'[i] = tick \/ nodes'[i] = step
      BY <1>7
    <2> QED
      BY <1>1, <1>2, <1>3, <1>5, <1>6, <2>1 DEF Added
  <1>9. /\ Len(nodes) <= Len(nodes') /\ created <= created'
        /\ \A t \in 1 .. created : root'[t] = root[t] /\ \A u \in Ids : u > created' => root'[u] = u
    BY <1>1, <1>2, <1>7
  <1>10. \A u \in Ids : u > created' => root'[u] = u
    BY <1>1, <1>2
  <1> QED
    BY <1>1, <1>7, <1>8, <1>9, <1>10, AddedAlive

\* One turn of the loop over the nodes: what a launch of this node is passed is taken by the
\* node, or its lifetime begins here.
LEMMA ScanAlive == ASSUME TypeInv, AliveInv, ScanNode PROVE AliveInv'
  <1> DEFINE n     == scan + 1
             node  == nodes[n]
             taken == {t \in Uses(node) : first[t] # 0}
             new   == {t \in Elements(node.outs) \cup Elements(node.temps) :
                         node.op # "view" /\ t \in registered /\ first[t] = 0}
  <1>1. /\ phase = "scan" /\ phase' = "scan" /\ n <= Len(nodes) /\ scan' = n /\ nodes' = nodes
        /\ root' = root /\ created' = created
        /\ first' = [t \in Ids |-> IF t \in new THEN n ELSE first[t]]
        /\ last' = [t \in Ids |-> IF t \in new \cup taken THEN n ELSE last[t]]
    BY DEF ScanNode, tensorVars
  <1>2. /\ \A t \in new : t \in Produced(node)
        /\ \A u \in Elements(node.ins) : root[u] \in Ids /\ first[root[u]] # 0 => root[u] \in taken
    BY DEF Produced, Uses
  <1>3. \A t \in Ids : /\ first'[t] = IF t \in new THEN n ELSE first[t]
                       /\ last'[t] = IF t \in new \cup taken THEN n ELSE last[t]
    BY <1>1
  <1> HIDE DEF taken, new
  <1>4. /\ scan \in Nat /\ DOMAIN nodes = 1 .. Len(nodes) /\ n \in DOMAIN nodes
        /\ 1 .. scan \subseteq 1 .. n /\ n \in 1 .. n
        /\ \A i \in 1 .. n : i \in DOMAIN nodes /\ i <= n /\ (i = n \/ i \in 1 .. scan)
    <2>1. scan \in Nat /\ DOMAIN nodes = 1 .. Len(nodes) /\ Len(nodes) \in Nat
      BY LaunchTypes
    <2> QED
      BY <1>1, <2>1
  <1>5. \A t \in Ids : first'[t] # 0 => \E j \in 1 .. n : t \in Produced(nodes[j])
    <2> TAKE t \in Ids
    <2>1. CASE t \in new
      BY <1>2, <1>4, <2>1
    <2>2. CASE t \notin new
      <3>1. first[t] # 0 => \E j \in 1 .. scan : t \in Produced(nodes[j])
        BY DEF AliveInv, SpanInv
      <3> QED
        BY <1>3, <1>4, <2>2, <3>1
    <2> QED
      BY <2>1, <2>2
  <1>6. ASSUME NEW i \in 1 .. n, NEW launch \in Elements(nodes[i].launches), NEW arg \in launch,
               first'[root[arg.t]] # 0
        PROVE  i <= last'[root[arg.t]]
    <2> DEFINE r == root[arg.t]
    <2>1. i \in DOMAIN nodes /\ arg.t \in Ids /\ r \in Ids
      BY <1>4, LaunchTypes
    <2>2. CASE r \in new \cup taken
      BY <1>3, <1>4, <2>1, <2>2
    <2>3. CASE r \notin new \cup taken
      <3>1. first[r] # 0 /\ last'[r] = last[r]
        BY <1>3, <1>6, <2>1, <2>3
      <3>2. CASE i \in 1 .. scan
        BY <3>1, <3>2 DEF AliveInv, SpanInv
      <3>3. CASE i = n /\ arg.t \in Elements(node.ins)
        BY <1>2, <2>1, <2>3, <3>1, <3>3
      <3>4. CASE i = n /\ MadeAt(i, arg.t)
        <4>1. r = arg.t /\ \A j \in 1 .. i - 1 : r \notin Produced(nodes[j])
          BY <3>4 DEF MadeAt
        <4>2. PICK j \in 1 .. scan : r \in Produced(nodes[j])
          BY <2>1, <3>1 DEF AliveInv, SpanInv
        <4>3. j \in 1 .. i - 1
          BY <1>4, <3>4, <4>2
        <4> QED
          BY <4>1, <4>2, <4>3
      <3>5. arg.t \in Elements(nodes[i].ins) \/ MadeAt(i, arg.t)
        BY <2>1 DEF AliveInv, PassedInv
      <3> QED
        BY <1>4, <3>2, <3>3, <3>4, <3>5
    <2> QED
      BY <2>2, <2>3
  <1>7. SpanInv'
    BY <1>1, <1>5, <1>6 DEF SpanInv, Produced
  <1>8. PassedInv' /\ ScannedAll'
    BY <1>1 DEF AliveInv, PassedInv, ScannedAll, MadeAt
  <1> QED
    BY <1>7, <1>8 DEF AliveInv

\* Steps that touch neither the graph nor the lifetimes.
LEMMA KeptAlive ==
  ASSUME AliveInv, root' = root, nodes' = nodes, UNCHANGED <<scan, first, last>>,
         ScannedAll', \A t \in Ids : t > created' => t > created,
         1 .. created \subseteq 1 .. created'
  PROVE  AliveInv'
  BY DEF AliveInv, PassedInv, SpanInv, MadeAt

\* No step ends a lifetime early.
LEMMA NextAlive == TypeInv /\ AliveInv /\ [Next]_vars => AliveInv'
  <1> SUFFICES ASSUME TypeInv, AliveInv, [Next]_vars PROVE AliveInv'
    OBVIOUS
  <1>1. TypeInv'
    BY NextTypes
  <1>2. ASSUME NEW t \in Operands, Map(<<t>>) PROVE AliveInv'
    BY <1>1, <1>2, MapAlive
  <1>3. ASSUME NEW t \in Operands, NEW u \in Operands, Map(<<t, u>>) PROVE AliveInv'
    BY <1>1, <1>3, MapAlive
  <1>4. ASSUME NEW t \in Operands, NEW u \in Operands, Loss(t, u) PROVE AliveInv'
    BY <1>1, <1>4, LossAlive
  <1>5. ASSUME NEW t \in Operands, View(t) PROVE AliveInv'
    BY <1>1, <1>5, ViewAlive
  <1>6. ASSUME NEW t \in Operands, NEW u \in Operands, Update(t, u) PROVE AliveInv'
    BY <1>1, <1>6, UpdateAlive
  <1>7. ASSUME NEW t \in Operands, AdamStep(t) PROVE AliveInv'
    BY <1>1, <1>7, AdamAlive
  <1>8. CASE ScanNode
    BY <1>8, ScanAlive
  <1>9. CASE Upload
    <2>1. created' = created + 1 /\ root' = root /\ nodes' = nodes /\ UNCHANGED <<phase, planVars>>
      BY <1>9 DEF Upload, Create
    <2>2. created \in Nat
      BY LaunchTypes
    <2>3. (\A t \in Ids : t > created' => t > created) /\ 1 .. created \subseteq 1 .. created'
      BY <2>1, <2>2
    <2> QED
      BY <2>1, <2>3, KeptAlive DEF AliveInv, ScannedAll, planVars
  <1>10. CASE EndScan
    BY <1>10, KeptAlive DEF EndScan, AliveInv, ScannedAll, planVars, tensorVars
  <1>11. CASE EndCapture
    BY <1>11, KeptAlive DEF EndCapture, AliveInv, ScannedAll, planVars, tensorVars
  <1>12. CASE EndPlan
    BY <1>12, KeptAlive DEF EndPlan, AliveInv, ScannedAll, planVars, tensorVars
  <1>13. ASSUME UNCHANGED <<created, root, nodes, scan, first, last, phase>> PROVE AliveInv'
    BY <1>13, KeptAlive DEF AliveInv, ScannedAll
  <1>14. ASSUME NEW t \in live, Drop(t) PROVE AliveInv'
    BY <1>13, <1>14 DEF Drop, planVars
  <1>15. ASSUME NEW t \in Ids, PlaceNew(t) PROVE AliveInv'
    BY <1>13, <1>15 DEF PlaceNew, tensorVars
  <1>16. ASSUME NEW t \in Ids, NEW a \in DOMAIN allocs, PlaceReused(t, a) PROVE AliveInv'
    BY <1>13, <1>16 DEF PlaceReused, tensorVars
  <1>17. ASSUME NEW t \in Bindable, NEW u \in Strangers, Bind(t, u) PROVE AliveInv'
    BY <1>13, <1>17 DEF Bind, tensorVars, planVars
  <1>18. CASE ClearBindings \/ StartExecute \/ Replay \/ NextNode \/ EndExecute \/ UNCHANGED vars
    BY <1>13, <1>18
    DEF ClearBindings, StartExecute, Replay, NextNode, EndExecute, vars, tensorVars, planVars
  <1> QED
    BY <1>2, <1>3, <1>4, <1>5, <1>6, <1>7, <1>8, <1>9, <1>10, <1>11, <1>12, <1>14, <1>15,
       <1>16, <1>17, <1>18 DEF Next

\* Until the last launch that is passed a tensor's memory, through views of it and updates
\* through them as well, plan_buffers counts the tensor as alive: with PlanApartAlways, no
\* other tensor is given its slot before. It looks only at what operations name as inputs,
\* which is enough for whatever callers capture and however they treat replay.
THEOREM AliveWhileUsedAlways == Spec => []AliveWhileUsed
  <1>1. TypeInv /\ AliveInv => AliveWhileUsed
    <2> SUFFICES ASSUME TypeInv, AliveInv, phase \in {"place", "ready"} PROVE AliveWhileUsed
      BY DEF AliveWhileUsed
    <2>1. DOMAIN nodes = 1 .. scan
      BY LaunchTypes DEF AliveInv, ScannedAll
    <2> QED
      BY <2>1 DEF AliveInv, SpanInv, AliveWhileUsed
  <1> QED
    BY <1>1, InitTypes, NextTypes, InitAlive, NextAlive, PTL DEF Spec

=============================================================================
