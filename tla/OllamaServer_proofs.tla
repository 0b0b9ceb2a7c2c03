------------------------ MODULE OllamaServer_proofs ------------------------
(* Proofs about OllamaServer: its types, and that unless a streaming client  *)
(* hangs up it implements SerialService, whatever crashes, restarts, errors  *)
(* and other clients do.                                                     *)
EXTENDS OllamaServer, SequenceTheorems, TLAPS

USE ConstantsAssumption DEF ConstantsAssumption

(* Any line the loop prints is a line, and the types are kept by every step. *)
LEMMA LineType ==
  ASSUME TypeOK, serving # NoRequest, NEW kind \in Kinds
  PROVE  Line(kind) \in Lines
  BY DEF TypeOK, Line, Lines

LEMMA AddOne == \A a, b \in Nat : a + (b + 1) = (a + b) + 1 /\ a + (b + 1) = (a + 1) + b
  OBVIOUS

LEMMA InitType == Init => TypeOK
  <1> SUFFICES ASSUME Init PROVE TypeOK
    OBVIOUS
  <1>1. <<>> \in Seq(Lines) /\ <<>> \in Seq(Requests)
    BY EmptySeq
  <1> QED  BY <1>1 DEF Init, TypeOK, HandlerStates

LEMMA NextType == TypeOK /\ [Next]_vars => TypeOK'
  <1> SUFFICES ASSUME TypeOK, [Next]_vars PROVE TypeOK'
    OBVIOUS
  <1>e. <<>> \in Seq(Lines) /\ <<>> \in Seq(Requests)
    BY EmptySeq
  <1> USE DEF HandlerStates, handlerVars, workerVars
  <1>1. CASE UNCHANGED vars
    BY <1>1 DEF vars, TypeOK
  <1>2. ASSUME NEW r \in Requests, Send(r) PROVE TypeOK'
    BY <1>2 DEF Send, TypeOK
  <1>3. ASSUME NEW r \in Requests, Acquire(r) PROVE TypeOK'
    <2>1. pc' \in [Requests -> HandlerStates] /\ lock' \in Requests \cup {NoRequest}
      BY <1>3 DEF Acquire, TypeOK
    <2>2. /\ proc' \in {"loading", "ready", "dead"} /\ crashes' \in 0 .. MaxCrashes
          /\ serving' \in Requests \cup {NoRequest} /\ emitted' \in 0 .. MaxDeltas
      BY <1>3 DEF Acquire, LoopIdle, TypeOK
    <2>3. stdin' \in Seq(Requests) /\ stdout' \in Seq(Lines)
      BY <1>3, <1>e DEF Acquire, TypeOK
    <2>4. got' \in [Requests -> Seq(Lines)] /\ gone' \subseteq Requests
      BY <1>3 DEF Acquire, TypeOK
    <2> QED  BY <2>1, <2>2, <2>3, <2>4 DEF TypeOK
  <1>4. ASSUME NEW r \in Requests, Started(r) PROVE TypeOK'
    BY <1>4 DEF Started, TypeOK
  <1>5. ASSUME NEW r \in Requests, Fails(r) PROVE TypeOK'
    BY <1>5 DEF Fails, Unlock, TypeOK
  <1>6. ASSUME NEW r \in Requests, Write(r) PROVE TypeOK'
    <2>1. Append(stdin, r) \in Seq(Requests)
      BY AppendProperties DEF TypeOK
    <2> QED  BY <2>1, <1>6 DEF Write, TypeOK
  <1>7. ASSUME NEW r \in Requests, Read(r) PROVE TypeOK'
    <2>1. Head(stdout) \in Lines /\ Tail(stdout) \in Seq(Lines)
      BY <1>7, HeadTailProperties DEF Read, TypeOK
    <2>2. Append(got[r], Head(stdout)) \in Seq(Lines)
      BY <2>1, AppendProperties DEF TypeOK
    <2>3. got' \in [Requests -> Seq(Lines)]
      BY <2>2, <1>7 DEF Read, TypeOK
    <2>4. pc' \in [Requests -> HandlerStates] /\ lock' \in Requests \cup {NoRequest}
      BY <1>7 DEF Read, Unlock, TypeOK
    <2> QED  BY <2>1, <2>3, <2>4, <1>7 DEF Read, TypeOK
  <1>8. ASSUME NEW r \in Requests, Disconnect(r) PROVE TypeOK'
    BY <1>8 DEF Disconnect, TypeOK
  <1>9. CASE Ready
    BY <1>9 DEF Ready, TypeOK
  <1>10. CASE Take
    <2>1. Head(stdin) \in Requests /\ Tail(stdin) \in Seq(Requests)
      BY <1>10, HeadTailProperties DEF Take, TypeOK
    <2> QED  BY <2>1, <1>10 DEF Take, TypeOK
  <1>11. CASE Token
    <2>1. Line("delta") \in Lines
      BY <1>11, LineType DEF Token, StreamResponse, Kinds
    <2>2. Append(stdout, Line("delta")) \in Seq(Lines)
      BY <2>1, AppendProperties DEF TypeOK
    <2> QED  BY <2>2, <1>11 DEF Token, TypeOK
  <1>12. CASE Last
    <2>1. PICK kind \in {"final", "error"} : stdout' = Append(stdout, Line(kind))
      BY <1>12 DEF Last
    <2>2. Line(kind) \in Lines
      BY <1>12, LineType DEF Last, Kinds
    <2>3. stdout' \in Seq(Lines)
      BY <2>1, <2>2, AppendProperties DEF TypeOK
    <2> QED  BY <2>3, <1>12 DEF Last, LoopIdle, TypeOK
  <1>13. CASE Crash
    BY <1>13, <1>e DEF Crash, LoopIdle, TypeOK
  <1> QED
    BY <1>1, <1>2, <1>3, <1>4, <1>5, <1>6, <1>7, <1>8, <1>9, <1>10, <1>11, <1>12, <1>13
    DEF Next

(* TypeOK: every variable keeps its type, whatever goes wrong. *)
THEOREM TypeCorrect == Spec => []TypeOK
  BY InitType, NextType, PTL DEF Spec

-----------------------------------------------------------------------------
(* The inductive invariant, for streaming clients that stay connected.       *)

LEMMA InitService == Init => ServiceInv
  <1> SUFFICES ASSUME Init PROVE ServiceInv
    OBVIOUS
  <1>1. TypeOK
    BY InitType
  <1>2. HolderInside /\ WorkerIdle /\ PipesOfReader
    BY DEF Init, HolderInside, Inside, WorkerIdle, PipesOfReader
  <1> QED  BY <1>1, <1>2 DEF Init, ServiceInv

(* What a reader's handler relies on does not change while got and the worker do not. *)
LEMMA ReadingSame ==
  ASSUME UNCHANGED <<got, workerVars>>, NEW q \in Requests, ReadingInv(q)
  PROVE  ReadingInv(q)'
  BY DEF workerVars, ReadingInv, PipeFor

(* Nobody but the lock holder is inside, step by step. *)
LEMMA NextHolder ==
  ASSUME ServiceInv, Next, Impatient \cap Streaming = {}
  PROVE  HolderInside'
  <1> USE DEF HolderInside, Inside, handlerVars, workerVars
  <1>a. TypeOK /\ HolderInside /\ gone \cap Streaming = {}
    BY DEF ServiceInv
  <1>1. ASSUME NEW r \in Requests, Send(r) PROVE HolderInside'
    BY <1>1, <1>a DEF Send, TypeOK
  <1>2. ASSUME NEW r \in Requests, Acquire(r) PROVE HolderInside'
    <2>1. CASE lock' = r /\ \E s \in {"writing", "starting"} : pc' = [pc EXCEPT ![r] = s]
      BY <1>2, <1>a, <2>1 DEF Acquire, LockFree, TypeOK
    <2>2. CASE lock' = lock /\ pc' = [pc EXCEPT ![r] = "failed"]
      BY <1>2, <1>a, <2>2 DEF Acquire, LockFree, TypeOK
    <2> QED  BY <1>2, <2>1, <2>2 DEF Acquire
  <1>3. ASSUME NEW r \in Requests, Started(r) PROVE HolderInside'
    BY <1>3, <1>a DEF Started, TypeOK
  <1>4. ASSUME NEW r \in Requests, Fails(r) PROVE HolderInside'
    BY <1>4, <1>a DEF Fails, Unlock, TypeOK
  <1>5. ASSUME NEW r \in Requests, Write(r) PROVE HolderInside'
    BY <1>5, <1>a DEF Write, TypeOK
  <1>6. ASSUME NEW r \in Requests, Read(r) PROVE HolderInside'
    <2>1. CASE UNCHANGED <<pc, lock>>
      BY <1>6, <1>a, <2>1 DEF Read, TypeOK
    <2>2. CASE Unlock(r) /\ \E s \in {"answered", "failed"} : pc' = [pc EXCEPT ![r] = s]
      BY <1>6, <1>a, <2>2 DEF Read, Unlock, TypeOK
    <2> QED  BY <1>6, <2>1, <2>2 DEF Read
  <1>7. ASSUME NEW r \in Requests, Disconnect(r) PROVE HolderInside'
    BY <1>7, <1>a DEF Disconnect
  <1>8. CASE Ready \/ Take \/ Token \/ Last \/ Crash
    BY <1>8, <1>a DEF Ready, Take, Token, Last, Crash
  <1> QED
    BY <1>1, <1>2, <1>3, <1>4, <1>5, <1>6, <1>7, <1>8 DEF Next

LEMMA NextIdle ==
  ASSUME ServiceInv, Next, Impatient \cap Streaming = {}
  PROVE  WorkerIdle' /\ gone' \cap Streaming = {}
  <1> USE DEF WorkerIdle, handlerVars, workerVars, LoopIdle
  <1>a. TypeOK /\ WorkerIdle /\ gone \cap Streaming = {}
    BY DEF ServiceInv
  <1>1. ASSUME NEW r \in Requests, Acquire(r) PROVE WorkerIdle' /\ gone' \cap Streaming = {}
    BY <1>1, <1>a DEF Acquire
  <1>2. ASSUME NEW r \in Requests, Send(r) \/ Started(r) \/ Fails(r) \/ Disconnect(r)
        PROVE  WorkerIdle' /\ gone' \cap Streaming = {}
    BY <1>2, <1>a DEF Send, Started, Fails, Disconnect
  <1>3. ASSUME NEW r \in Requests, Write(r) \/ Read(r) PROVE WorkerIdle' /\ gone' \cap Streaming = {}
    BY <1>3, <1>a DEF Write, Read
  <1>4. CASE Take
    <2>1. Head(stdin) \in Requests
      BY <1>4, <1>a, HeadTailProperties DEF Take, TypeOK
    <2> QED  BY <1>4, <1>a, <2>1 DEF Take
  <1>5. CASE Token
    BY <1>5, <1>a DEF Token, StreamResponse
  <1>6. CASE Ready \/ Last \/ Crash
    BY <1>6, <1>a DEF Ready, Last, Crash
  <1> QED
    BY <1>1, <1>2, <1>3, <1>4, <1>5, <1>6 DEF Next

(* The lines on their way are the reader's: the steps of its handler. *)
LEMMA HandlerPipes ==
  ASSUME ServiceInv, HolderInside', NEW r \in Requests,
         Send(r) \/ Acquire(r) \/ Started(r) \/ Fails(r) \/ Write(r) \/ Disconnect(r),
         Impatient \cap Streaming = {}
  PROVE  PipesOfReader'
  <1>a. TypeOK /\ HolderInside /\ WorkerIdle /\ PipesOfReader
    BY DEF ServiceInv
  <1>b. \A q \in Requests : pc[q] = "reading" => lock = q
    BY <1>a DEF HolderInside, Inside
  <1>1. CASE Send(r) \/ Started(r) \/ Disconnect(r)
    <2>1. \A q \in Requests : pc'[q] = "reading" <=> pc[q] = "reading"
      BY <1>1, <1>a DEF Send, Started, Disconnect, handlerVars, TypeOK
    <2>2. UNCHANGED <<got, workerVars>>
      BY <1>1 DEF Send, Started, Disconnect, handlerVars
    <2> QED  BY <1>a, <2>1, <2>2, ReadingSame DEF PipesOfReader, workerVars
  <1>2. CASE Acquire(r)
    <2>1. \A q \in Requests : pc[q] # "reading"
      BY <1>2, <1>b DEF Acquire, LockFree
    <2>2. \A q \in Requests : pc'[q] # "reading"
      BY <1>2, <1>a, <2>1 DEF Acquire, TypeOK
    <2>3. stdin = <<>> /\ stdout = <<>> /\ serving = NoRequest
      BY <1>a, <2>1 DEF PipesOfReader
    <2>4. stdin' = <<>> /\ stdout' = <<>> /\ serving' = NoRequest
      BY <1>2, <2>3 DEF Acquire, LoopIdle, workerVars
    <2> QED  BY <2>2, <2>4 DEF PipesOfReader
  <1>3. CASE Fails(r)
    <2>1. \A q \in Requests : pc[q] = "reading" => q = r
      BY <1>3, <1>b DEF Fails, Unlock
    <2>2. \A q \in Requests : pc'[q] # "reading"
      BY <1>3, <1>a, <2>1 DEF Fails, TypeOK
    <2>3. stdin = <<>> /\ serving = NoRequest
      BY <1>3, <1>a DEF Fails, WorkerIdle
    <2>4. stdout = <<>>
      <3>1. CASE pc[r] = "reading"
        BY <1>3, <3>1 DEF Fails
      <3>2. CASE pc[r] # "reading"
        BY <1>a, <2>1, <3>2 DEF PipesOfReader
      <3> QED  BY <3>1, <3>2
    <2> QED  BY <1>3, <2>2, <2>3, <2>4 DEF PipesOfReader, Fails, workerVars
  <1>4. CASE Write(r)
    <2>1. lock = r /\ got[r] = <<>>
      BY <1>4, <1>a DEF Write, HolderInside, Inside
    <2>2. \A q \in Requests : pc[q] # "reading"
      BY <1>4, <1>b, <2>1 DEF Write
    <2>3. \A q \in Requests : pc'[q] = "reading" => q = r
      BY <1>4, <1>a, <2>2 DEF Write, TypeOK
    <2>4. stdin = <<>> /\ stdout = <<>> /\ serving = NoRequest
      BY <1>a, <2>2 DEF PipesOfReader
    <2>5. stdin' = <<r>> /\ stdout' = <<>> /\ serving' = NoRequest /\ got' = got
      BY <1>4, <2>4 DEF Write
    <2>6. ReadingInv(r)'
      BY <2>1, <2>5 DEF ReadingInv, PipeFor
    <2>7. pc'[r] = "reading"
      BY <1>4, <1>a DEF Write, TypeOK
    <2> QED  BY <2>3, <2>6, <2>7 DEF PipesOfReader
  <1> QED
    BY <1>1, <1>2, <1>3, <1>4

LEMMA ReadPipes ==
  ASSUME ServiceInv, HolderInside', NEW r \in Requests, Read(r)
  PROVE  PipesOfReader'
  <1>a. TypeOK /\ HolderInside /\ WorkerIdle /\ PipesOfReader /\ gone \cap Streaming = {}
    BY DEF ServiceInv
  <1>b. pc[r] = "reading" /\ lock = r /\ ReadingInv(r)
    BY <1>a DEF Read, HolderInside, Inside, PipesOfReader
  <1>c. \A q \in Requests : pc[q] = "reading" => q = r
    BY <1>a, <1>b DEF HolderInside, Inside
  <1>d. \A q \in Requests : pc'[q] = "reading" => q = r
    BY <1>a, <1>c DEF Read, TypeOK
  <1>e. /\ stdout # <<>> /\ stdout' = Tail(stdout) /\ stdout' \in Seq(Lines)
        /\ Head(stdout) = stdout[1] /\ Len(stdout') = Len(stdout) - 1
        /\ \A i \in 1 .. Len(stdout') : stdout'[i] = stdout[i + 1]
        /\ Len(stdout) \in Nat \ {0}
    BY <1>a, HeadTailProperties, EmptySeq DEF Read, TypeOK
  <1>f. UNCHANGED <<stdin, serving, emitted, proc>>
    BY DEF Read
  <1>1. CASE pc'[r] = "reading"
    <2>1. /\ got' = [got EXCEPT ![r] = Append(@, Head(stdout))]
          /\ ~Complete(r, Head(stdout))
          /\ Head(stdout).kind # "error"
      BY <1>1, <1>a DEF Read, TypeOK
    <2>2. Len(got'[r]) = Len(got[r]) + 1 /\ Len(got[r]) \in Nat
      BY <2>1, <1>a, <1>e, AppendProperties, HeadTailProperties DEF TypeOK
    <2>3. PipeFor(r)'
      <3> SUFFICES ASSUME NEW i \in 1 .. Len(stdout')
                   PROVE  /\ stdout'[i].req = r
                          /\ stdout'[i].n = Len(got'[r]) + i
                          /\ stdout'[i].kind = "delta" => r \in Streaming /\ stdout'[i].n <= MaxDeltas
                          /\ i < Len(stdout') => stdout'[i].kind = "delta"
        BY DEF PipeFor
      <3>1. i \in Nat /\ i + 1 \in 1 .. Len(stdout) /\ stdout'[i] = stdout[i + 1]
        BY <1>e
      <3>2. /\ stdout[i + 1].req = r
            /\ stdout[i + 1].n = Len(got[r]) + (i + 1)
            /\ stdout[i + 1].kind = "delta" => r \in Streaming /\ stdout[i + 1].n <= MaxDeltas
            /\ i + 1 < Len(stdout) => stdout[i + 1].kind = "delta"
        BY <1>b, <3>1 DEF ReadingInv, PipeFor
      <3>3. stdout'[i].n = Len(got'[r]) + i
        <4>1. stdout'[i].n = Len(got[r]) + (i + 1)
          BY <3>1, <3>2
        <4>2. Len(got'[r]) + i = (Len(got[r]) + 1) + i
          BY <2>2
        <4> QED  BY <2>2, <3>1, <4>1, <4>2, AddOne, Zenon
      <3>4. i < Len(stdout') => i + 1 < Len(stdout)
        BY <1>e
      <3> QED  BY <2>2, <3>1, <3>2, <3>3, <3>4
    <2>4. stdin = <<>>
      BY <1>b, <1>e DEF ReadingInv
    <2>5. CASE serving = NoRequest /\ proc # "dead"
      <3>1. stdout[Len(stdout)].kind # "delta"
        BY <1>a, <1>b, <1>e, <2>5 DEF ReadingInv
      <3>2. stdout[1].kind = "delta"
        <4>1. stdout[1].req = r
          BY <1>b, <1>e DEF ReadingInv, PipeFor
        <4> QED  BY <1>e, <2>1, <4>1 DEF Complete, Done
      <3>3. Len(stdout) > 1
        BY <1>e, <3>1, <3>2
      <3>4. stdout' # <<>> /\ stdout'[Len(stdout')] = stdout[Len(stdout)]
        <4>1. Len(stdout') \in 1 .. Len(stdout') /\ Len(stdout') + 1 = Len(stdout)
          BY <1>e, <3>3
        <4>2. stdout'[Len(stdout')] = stdout[Len(stdout') + 1]
          BY <1>e, <4>1
        <4>3. stdout' # <<>>
          BY <1>e, <4>1, EmptySeq
        <4> QED  BY <4>1, <4>2, <4>3
      <3> QED  BY <1>f, <2>3, <2>4, <2>5, <3>1, <3>4, <1>d, <1>1 DEF PipesOfReader, ReadingInv
    <2>6. CASE serving = NoRequest /\ proc = "dead"
      BY <1>f, <2>3, <2>4, <2>6, <1>d, <1>1 DEF PipesOfReader, ReadingInv
    <2>7. CASE serving # NoRequest
      <3>1. /\ serving = r /\ emitted = Len(got[r]) + Len(stdout)
            /\ \A i \in 1 .. Len(stdout) : stdout[i].kind = "delta"
        BY <1>b, <2>7 DEF ReadingInv
      <3>2. /\ emitted' = Len(got'[r]) + Len(stdout')
            /\ \A i \in 1 .. Len(stdout') : stdout'[i].kind = "delta"
        BY <1>e, <1>f, <2>2, <3>1
      <3> QED  BY <1>f, <2>3, <2>4, <3>1, <3>2, <1>d, <1>1 DEF PipesOfReader, ReadingInv
    <2> QED  BY <2>5, <2>6, <2>7
  <1>2. CASE pc'[r] # "reading"
    <2>1. Head(stdout).kind = "error" \/ Complete(r, Head(stdout))
      BY <1>2, <1>a, <1>b DEF Read, TypeOK, Complete
    <2>2. stdout[1].kind # "delta"
      BY <2>1, <1>b, <1>e DEF ReadingInv, PipeFor, Complete, Done
    <2>3. Len(stdout) = 1
      BY <1>b, <1>e, <2>2 DEF ReadingInv, PipeFor
    <2>4. stdout' = <<>>
      BY <1>e, <2>3, EmptySeq
    <2>5. stdin = <<>> /\ serving = NoRequest
      BY <1>b, <1>e, <2>2 DEF ReadingInv
    <2> QED  BY <1>2, <1>d, <1>f, <2>4, <2>5 DEF PipesOfReader
  <1> QED  BY <1>1, <1>2

(* The steps of the worker.  A line it appends is the next one for the reader. *)
LEMMA AppendPipe ==
  ASSUME ServiceInv, NEW r \in Requests, PipeFor(r), serving = r,
         emitted = Len(got[r]) + Len(stdout),
         \A i \in 1 .. Len(stdout) : stdout[i].kind = "delta",
         NEW kind \in Kinds, kind = "delta" => r \in Streaming /\ emitted < MaxDeltas,
         stdout' = Append(stdout, Line(kind)), got' = got
  PROVE  /\ PipeFor(r)'
         /\ Len(stdout') = Len(stdout) + 1
         /\ stdout' # <<>>
         /\ stdout'[Len(stdout')].kind = kind
         /\ \A i \in 1 .. Len(stdout) : stdout'[i] = stdout[i]
  <1>a. TypeOK
    BY DEF ServiceInv
  <1>1. Line(kind) \in Lines
    BY <1>a, LineType DEF TypeOK
  <1>2. /\ Len(stdout') = Len(stdout) + 1 /\ stdout' # <<>>
        /\ \A i \in 1 .. Len(stdout) : stdout'[i] = stdout[i]
        /\ stdout'[Len(stdout) + 1] = Line(kind)
    <2>1. stdout \in Seq(Lines) /\ Len(stdout) \in Nat
      BY <1>a, LenProperties DEF TypeOK
    <2>2. /\ Len(stdout') = Len(stdout) + 1 /\ stdout' \in Seq(Lines)
          /\ \A i \in 1 .. Len(stdout) : stdout'[i] = stdout[i]
          /\ stdout'[Len(stdout) + 1] = Line(kind)
      BY <1>1, <2>1, AppendProperties
    <2>3. stdout' # <<>>
      BY <2>1, <2>2, EmptySeq
    <2> QED  BY <2>2, <2>3
  <1>3. Len(stdout) \in Nat /\ Len(got[r]) \in Nat /\ emitted \in Nat
    BY <1>a DEF TypeOK
  <1>4. Line(kind).req = r /\ Line(kind).kind = kind /\ Line(kind).n = emitted + 1
    BY DEF Line
  <1>5. PipeFor(r)'
    <2> SUFFICES ASSUME NEW i \in 1 .. Len(stdout')
                 PROVE  /\ stdout'[i].req = r
                        /\ stdout'[i].n = Len(got[r]) + i
                        /\ stdout'[i].kind = "delta" => r \in Streaming /\ stdout'[i].n <= MaxDeltas
                        /\ i < Len(stdout') => stdout'[i].kind = "delta"
      BY DEF PipeFor
    <2>1. CASE i \in 1 .. Len(stdout)
      BY <1>2, <2>1 DEF PipeFor
    <2>2. CASE i = Len(stdout) + 1
      <3>1. emitted + 1 = Len(got[r]) + i
        BY <1>3, <2>2, AddOne, Zenon
      <3>2. kind = "delta" => emitted + 1 <= MaxDeltas
        BY <1>3
      <3>3. ~(i < Len(stdout'))
        BY <1>2, <1>3, <2>2
      <3> QED  BY <1>2, <1>4, <2>2, <3>1, <3>2, <3>3
    <2>3. i \in 1 .. Len(stdout) \/ i = Len(stdout) + 1
      BY <1>2, <1>3
    <2> QED  BY <2>1, <2>2, <2>3
  <1> QED  BY <1>2, <1>4, <1>5

LEMMA WorkerPipes ==
  ASSUME ServiceInv, Ready \/ Take \/ Token \/ Last \/ Crash
  PROVE  PipesOfReader'
  <1>a. TypeOK /\ HolderInside /\ WorkerIdle /\ PipesOfReader
    BY DEF ServiceInv
  <1>b. UNCHANGED <<pc, lock, got>>
    BY DEF Ready, Take, Token, Last, Crash, handlerVars
  <1>1. CASE \A q \in Requests : pc[q] # "reading"
    <2>1. stdin = <<>> /\ stdout = <<>> /\ serving = NoRequest
      BY <1>a, <1>1 DEF PipesOfReader
    <2>2. stdin' = <<>> /\ stdout' = <<>> /\ serving' = NoRequest
      BY <2>1 DEF Ready, Take, Token, StreamResponse, Last, Crash, LoopIdle, ConstantsAssumption
    <2> QED  BY <1>b, <1>1, <2>2 DEF PipesOfReader
  <1>2. ASSUME NEW r \in Requests, pc[r] = "reading" PROVE PipesOfReader'
    <2>1. ReadingInv(r)
      BY <1>2, <1>a DEF PipesOfReader
    <2>2. \A q \in Requests : pc[q] = "reading" => q = r
      BY <1>2, <1>a DEF HolderInside, Inside
    <2>3. SUFFICES ReadingInv(r)'
      BY <1>2, <1>b, <2>2 DEF PipesOfReader
    <2>4. Len(got[r]) \in Nat /\ Len(stdout) \in Nat
      BY <1>a DEF TypeOK
    <2>5. CASE Ready
      BY <1>b, <2>1, <2>5 DEF Ready, ReadingInv, PipeFor
    <2>6. CASE Take
      <3>1. stdin = <<r>> /\ stdout = <<>> /\ got[r] = <<>> /\ serving = NoRequest /\ emitted = 0
        BY <1>a, <2>1, <2>6 DEF Take, ReadingInv, WorkerIdle
      <3>2. stdin' = <<>> /\ serving' = r /\ emitted' = 0 /\ stdout' = <<>>
        BY <2>6, <3>1 DEF Take
      <3> QED  BY <1>b, <3>1, <3>2 DEF ReadingInv, PipeFor
    <2>7. CASE Token \/ Last
      <3>1. /\ stdin = <<>> /\ serving = r /\ emitted = Len(got[r]) + Len(stdout)
            /\ PipeFor(r)
            /\ \A i \in 1 .. Len(stdout) : stdout[i].kind = "delta"
        BY <2>1, <2>7 DEF ReadingInv, Token, StreamResponse, Last
      <3>2. CASE Token
        <4>1. /\ stdout' = Append(stdout, Line("delta")) /\ emitted' = emitted + 1
              /\ stdin' = stdin /\ serving' = serving
              /\ r \in Streaming /\ emitted < MaxDeltas
          BY <3>1, <3>2 DEF Token, StreamResponse
        <4>2. /\ PipeFor(r)' /\ Len(stdout') = Len(stdout) + 1
              /\ stdout'[Len(stdout')].kind = "delta"
              /\ \A i \in 1 .. Len(stdout) : stdout'[i] = stdout[i]
          BY <1>b, <3>1, <4>1, AppendPipe DEF Kinds
        <4>3. \A i \in 1 .. Len(stdout') : stdout'[i].kind = "delta"
          BY <2>4, <3>1, <4>2
        <4>4. emitted' = Len(got'[r]) + Len(stdout')
          <5>1. emitted' = (Len(got[r]) + Len(stdout)) + 1
            BY <3>1, <4>1
          <5>2. Len(got'[r]) + Len(stdout') = Len(got[r]) + (Len(stdout) + 1)
            BY <1>b, <4>2
          <5> QED  BY <2>4, <5>1, <5>2, AddOne, Zenon
        <4> QED  BY <3>1, <4>1, <4>2, <4>3, <4>4 DEF ReadingInv
      <3>3. CASE Last
        <4>1. PICK kind \in {"final", "error"} : stdout' = Append(stdout, Line(kind))
          BY <3>3 DEF Last
        <4>2. PipeFor(r)' /\ stdout' # <<>> /\ stdout'[Len(stdout')].kind = kind
          BY <1>b, <3>1, <4>1, AppendPipe DEF Kinds
        <4>3. stdin' = <<>> /\ serving' = NoRequest
          BY <3>1, <3>3 DEF Last, LoopIdle
        <4> QED  BY <4>1, <4>2, <4>3 DEF ReadingInv
      <3> QED  BY <2>7, <3>2, <3>3
    <2>8. CASE Crash
      BY <1>b, <2>1, <2>8 DEF Crash, LoopIdle, ReadingInv, PipeFor
    <2> QED  BY <2>5, <2>6, <2>7, <2>8
  <1> QED  BY <1>1, <1>2

LEMMA NextService ==
  ASSUME Impatient \cap Streaming = {}
  PROVE  ServiceInv /\ [Next]_vars => ServiceInv'
  <1> SUFFICES ASSUME ServiceInv, [Next]_vars PROVE ServiceInv'
    OBVIOUS
  <1>1. TypeOK'
    BY NextType DEF ServiceInv
  <1>2. CASE UNCHANGED vars
    <2>1. UNCHANGED <<got, workerVars>> /\ pc' = pc /\ lock' = lock /\ gone' = gone
      BY <1>2 DEF vars, handlerVars
    <2>2. PipesOfReader'
      BY <2>1, ReadingSame DEF ServiceInv, PipesOfReader, workerVars
    <2>3. HolderInside' /\ WorkerIdle'
      BY <2>1 DEF ServiceInv, HolderInside, WorkerIdle, workerVars
    <2> QED  BY <1>1, <2>1, <2>2, <2>3 DEF ServiceInv
  <1>3. CASE Next
    <2>1. HolderInside' /\ WorkerIdle' /\ gone' \cap Streaming = {}
      BY <1>3, NextHolder, NextIdle
    <2>2. PipesOfReader'
      BY <1>3, <2>1, HandlerPipes, ReadPipes, WorkerPipes DEF Next
    <2> QED  BY <1>1, <2>1, <2>2 DEF ServiceInv
  <1> QED  BY <1>2, <1>3

(* ServiceInv: whatever is in the pipes belongs to the request whose handler reads. *)
THEOREM PipesHeld ==
  ASSUME Impatient \cap Streaming = {}
  PROVE  Spec => []ServiceInv
  <1>1. ServiceInv /\ [Next]_vars => ServiceInv'
    BY NextService
  <1> QED  BY <1>1, InitService, PTL DEF Spec

(* QuietWhenUnlocked: between requests nothing is under way, so no request can meet
   what an earlier one left, whatever crashes, restarts and errors occur. *)
THEOREM Quiet ==
  ASSUME Impatient \cap Streaming = {}
  PROVE  Spec => []QuietWhenUnlocked
  <1>1. ServiceInv => QuietWhenUnlocked
    BY DEF ServiceInv, HolderInside, Inside, PipesOfReader, QuietWhenUnlocked, TypeOK
  <1> QED  BY <1>1, PipesHeld, PTL

-----------------------------------------------------------------------------
(* The server implements SerialService.                                      *)

statusOf == [r \in Requests |-> IF pc[r] \in Inside THEN "serving" ELSE pc[r]]

LEMMA InitImplements == Init => Service!Init
  BY DEF Init, Service!Init, Inside

LEMMA Unmoved ==
  ASSUME TypeOK, UNCHANGED got,
         \A q \in Requests : pc'[q] = pc[q] \/ (pc[q] \in Inside /\ pc'[q] \in Inside)
  PROVE  UNCHANGED Service!vars
  <1>1. statusOf' = statusOf
    BY DEF statusOf, TypeOK, Inside
  <1> QED  BY <1>1 DEF Service!vars, statusOf

(* A handler's step is a step of the service for its request, or none at all. *)
LEMMA HandlerImplements ==
  ASSUME ServiceInv, Impatient \cap Streaming = {}, NEW r \in Requests,
         Send(r) \/ Acquire(r) \/ Started(r) \/ Fails(r) \/ Write(r) \/ Read(r) \/ Disconnect(r)
  PROVE  [Service!Next]_(Service!vars)
  <1>a. TypeOK /\ HolderInside /\ PipesOfReader /\ gone \cap Streaming = {}
    BY DEF ServiceInv
  <1>b. \A q \in Requests : statusOf[q] = IF pc[q] \in Inside THEN "serving" ELSE pc[q]
    BY DEF statusOf
  <1>c. ASSUME NEW s \in HandlerStates, pc' = [pc EXCEPT ![r] = s]
        PROVE  statusOf' = [statusOf EXCEPT ![r] = IF s \in Inside THEN "serving" ELSE s]
    BY <1>a, <1>c DEF statusOf, TypeOK
  <1>1. CASE Send(r)
    <2>1. statusOf[r] = "new" /\ statusOf' = [statusOf EXCEPT ![r] = "queued"] /\ got' = got
      BY <1>1, <1>b, <1>c DEF Send, Inside, HandlerStates
    <2>2. Service!Send(r)
      BY <2>1 DEF Service!Send, statusOf
    <2> QED  BY <2>2 DEF Service!Next
  <1>2. CASE Acquire(r)
    <2>1. statusOf[r] = "queued" /\ got' = got
      BY <1>2, <1>b DEF Acquire, Inside
    <2>2. \A q \in Requests : statusOf[q] # "serving"
      BY <1>2, <1>a, <1>b DEF Acquire, LockFree, HolderInside, Inside, HandlerStates, TypeOK
    <2>3. CASE pc' = [pc EXCEPT ![r] = "failed"]
      <3>1. statusOf' = [statusOf EXCEPT ![r] = "failed"]
        BY <2>3, <1>c DEF Inside, HandlerStates
      <3>2. Service!Fail(r)
        BY <2>1, <3>1 DEF Service!Fail, statusOf
      <3> QED  BY <3>2 DEF Service!Next
    <2>4. CASE \E s \in {"writing", "starting"} : pc' = [pc EXCEPT ![r] = s]
      <3>1. statusOf' = [statusOf EXCEPT ![r] = "serving"]
        BY <2>4, <1>c DEF Inside, HandlerStates
      <3>2. Service!Begin(r)
        BY <2>1, <2>2, <3>1 DEF Service!Begin, statusOf
      <3> QED  BY <3>2 DEF Service!Next
    <2> QED  BY <1>2, <2>3, <2>4 DEF Acquire
  <1>3. CASE Started(r) \/ Write(r)
    BY <1>3, <1>a, Unmoved DEF Started, Write, Inside, TypeOK
  <1>4. CASE Fails(r)
    <2>1. statusOf[r] = "serving" /\ statusOf' = [statusOf EXCEPT ![r] = "failed"] /\ got' = got
      BY <1>4, <1>b, <1>c DEF Fails, Inside, HandlerStates
    <2>2. Service!Fail(r)
      BY <2>1 DEF Service!Fail, statusOf
    <2> QED  BY <2>2 DEF Service!Next
  <1>5. CASE Read(r)
    <2>1. pc[r] = "reading" /\ statusOf[r] = "serving" /\ ReadingInv(r)
      BY <1>5, <1>a, <1>b DEF Read, Inside, PipesOfReader
    <2>2. Head(stdout) = stdout[1] /\ stdout[1] \in Lines /\ 1 \in 1 .. Len(stdout)
      BY <1>5, <1>a, HeadTailProperties, EmptySeq DEF Read, TypeOK
    <2>3. /\ stdout[1].req = r /\ stdout[1].n = Len(got[r]) + 1
          /\ stdout[1].kind = "delta" => r \in Streaming /\ stdout[1].n <= MaxDeltas
      BY <2>1, <2>2 DEF ReadingInv, PipeFor
    <2>4. CASE pc' = [pc EXCEPT ![r] = "failed"] /\ got' = got
      <3>1. statusOf' = [statusOf EXCEPT ![r] = "failed"]
        BY <2>4, <1>c DEF Inside, HandlerStates
      <3>2. Service!Fail(r)
        BY <2>1, <2>4, <3>1 DEF Service!Fail, statusOf
      <3> QED  BY <3>2 DEF Service!Next
    <2>5. CASE /\ got' = [got EXCEPT ![r] = Append(@, stdout[1])]
               /\ Complete(r, stdout[1]) /\ pc' = [pc EXCEPT ![r] = "answered"]
               /\ stdout[1].kind # "error"
      <3>1. statusOf' = [statusOf EXCEPT ![r] = "answered"]
        BY <2>5, <1>c DEF Inside, HandlerStates
      <3>2. stdout[1].kind = "final"
        BY <2>2, <2>3, <2>5 DEF Complete, Done, Lines, Kinds
      <3>3. stdout[1] = Service!Final(r, Len(got[r]) + 1)
        BY <2>2, <2>3, <3>2 DEF Lines, Service!Final
      <3>4. Service!Finish(r)
        BY <2>1, <2>5, <3>1, <3>3 DEF Service!Finish, statusOf
      <3> QED  BY <3>4 DEF Service!Next
    <2>6. CASE /\ got' = [got EXCEPT ![r] = Append(@, stdout[1])]
               /\ ~Complete(r, stdout[1]) /\ pc' = pc
               /\ stdout[1].kind # "error"
      <3>1. statusOf' = statusOf
        BY <2>6 DEF statusOf
      <3>2. stdout[1].kind = "delta" /\ r \in Streaming
        BY <2>3, <2>6 DEF Complete, Done
      <3>3. stdout[1] = Service!Delta(r, Len(got[r]) + 1)
        BY <2>2, <2>3, <3>2 DEF Lines, Service!Delta
      <3>4. Len(got[r]) < MaxDeltas
        BY <1>a, <2>3, <3>2 DEF TypeOK
      <3>5. Service!Deliver(r)
        BY <2>1, <2>6, <3>1, <3>2, <3>3, <3>4 DEF Service!Deliver, statusOf
      <3> QED  BY <3>5 DEF Service!Next
    <2> QED  BY <1>5, <1>a, <2>2, <2>4, <2>5, <2>6 DEF Read
  <1>6. CASE Disconnect(r)
    BY <1>6, <1>a, Unmoved DEF Disconnect, handlerVars
  <1> QED
    BY <1>1, <1>2, <1>3, <1>4, <1>5, <1>6

LEMMA NextImplements ==
  ASSUME ServiceInv, Impatient \cap Streaming = {}, [Next]_vars
  PROVE  [Service!Next]_(Service!vars)
  <1>1. CASE UNCHANGED vars \/ Ready \/ Take \/ Token \/ Last \/ Crash
    <2>1. UNCHANGED <<pc, got>>
      BY <1>1 DEF vars, Ready, Take, Token, Last, Crash, handlerVars
    <2> QED  BY <2>1, Unmoved DEF ServiceInv
  <1>2. CASE \E r \in Requests : Send(r) \/ Acquire(r) \/ Started(r) \/ Fails(r) \/ Write(r)
                                  \/ Read(r) \/ Disconnect(r)
    BY <1>2, HandlerImplements
  <1> QED  BY <1>1, <1>2 DEF Next

(* ServiceSpec: while streaming clients stay connected the server implements SerialService, so each
   request is served alone and answered with its own output, in order. *)
THEOREM Implements ==
  ASSUME Impatient \cap Streaming = {}
  PROVE  Spec => ServiceSpec
  <1>1. ServiceInv /\ [Next]_vars => [Service!Next]_(Service!vars)
    BY NextImplements
  <1> QED  BY <1>1, InitImplements, PipesHeld, PTL DEF Spec, ServiceSpec, Service!Spec

=============================================================================
