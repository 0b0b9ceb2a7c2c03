---------------------------- MODULE OllamaServer ----------------------------
(***************************************************************************)
(* The Ollama-compatible server (src/tools/motifcl_ollama_server.py): one  *)
(* handler thread per HTTP request, one worker process that runs the JSONL *)
(* loop of src/tools/generate_transformer.cpp, and the two pipes between   *)
(* them.  MotifCLWorker.lock is held from the check that the process is    *)
(* alive until the request's last line is read.                            *)
(*                                                                         *)
(* Actors: the handler threads, the worker's loop, and the environment,    *)
(* which may kill the worker or close a client's connection at any moment. *)
(***************************************************************************)
EXTENDS Naturals, Sequences

CONSTANTS
  Requests,    \* the HTTP requests that ask for a generation
  Streaming,   \* those with "stream": true
  Impatient,   \* those whose client may hang up before it is answered
  Big,         \* those whose JSON line does not fit in the stdin pipe
  NoRequest,   \* nobody
  MaxDeltas,   \* bound: tokens generated for one request
  MaxCrashes,  \* bound: crashes of the worker
  PipeCap,     \* lines the stdout pipe holds before the worker blocks
  Faults       \* what may go wrong

\* The worker process dies, its loop answers with an error line, and Popen raises.
AllFaults == {"crash", "error", "spawn"}

ASSUME ConstantsAssumption ==
  /\ Streaming \subseteq Requests
  /\ Impatient \subseteq Requests
  /\ Big \subseteq Requests
  /\ NoRequest \notin Requests
  /\ MaxDeltas \in Nat
  /\ MaxCrashes \in Nat
  /\ PipeCap \in Nat \ {0}
  /\ Faults \subseteq AllFaults

\* Where a handler thread is: not started, blocked on the lock, in start() waiting for
\* "REPL ready", about to write its line, blocked in readline, or done.
HandlerStates == {"new", "queued", "starting", "writing", "reading", "answered", "failed"}

VARIABLES
  pc,       \* state of each request's handler thread
  lock,     \* who holds MotifCLWorker.lock
  got,      \* lines each request was answered with
  gone,     \* requests whose client has closed the connection
  proc,     \* the worker process: "loading", "ready" or "dead"
  crashes,  \* how often it died
  stdin,    \* its standard input: request lines
  stdout,   \* its standard output: response lines
  serving,  \* the request its loop is generating for
  emitted   \* tokens generated for that request so far

handlerVars == <<pc, lock, got>>
workerVars  == <<proc, crashes, stdin, stdout, serving, emitted>>
vars == <<handlerVars, gone, workerVars>>

LineSkips(kind) ==  \* mutated form: the count starts at two
  [req |-> serving, kind |-> kind, n |-> emitted + 2]

\* The lines write_json_delta, write_json_final and write_json_error print.  A line says
\* nothing about the request it is for: req is what the properties speak of, and no
\* handler looks at it.
Line(kind) == [req |-> serving, kind |-> kind, n |-> emitted + 1]
Kinds == {"delta", "final", "error"}
Lines == [req : Requests, kind : Kinds, n : 1 .. MaxDeltas + 1]

\* The line carries "done": true.
Done(line) == line.kind # "delta" /\ line.req \in Streaming

TypeOK ==
  /\ pc \in [Requests -> HandlerStates]
  /\ lock \in Requests \cup {NoRequest}
  /\ got \in [Requests -> Seq(Lines)]
  /\ gone \subseteq Requests
  /\ proc \in {"loading", "ready", "dead"}
  /\ crashes \in 0 .. MaxCrashes
  /\ stdin \in Seq(Requests)
  /\ stdout \in Seq(Lines)
  /\ serving \in Requests \cup {NoRequest}
  /\ emitted \in 0 .. MaxDeltas

\* main has started the worker and warmed it up, or was told not to wait.
Init ==
  /\ pc = [r \in Requests |-> "new"]
  /\ lock = NoRequest
  /\ got = [r \in Requests |-> <<>>]
  /\ gone = {}
  /\ proc \in {"loading", "ready"}
  /\ crashes = 0
  /\ stdin = <<>>
  /\ stdout = <<>>
  /\ serving = NoRequest
  /\ emitted = 0

-----------------------------------------------------------------------------
(* The handler threads.                                                    *)

\* The client sends its POST and a handler thread starts.
Send(r) ==
  /\ pc[r] = "new"
  /\ pc' = [pc EXCEPT ![r] = "queued"]
  /\ UNCHANGED <<lock, got, gone, workerVars>>

LockHeld(r) ==  \* mutated form: the lock stays held
  pc[r] \in HandlerStates /\ UNCHANGED lock

\* Leaving "with self.lock".
Unlock(r) == lock = r /\ lock' = NoRequest

LoopKeepsCount ==  \* mutated form: the token count of the last request stays
  serving' = NoRequest /\ UNCHANGED emitted

\* The worker's loop works on no request: what it had of one is gone.
LoopIdle ==
  /\ serving' = NoRequest
  /\ emitted' = 0

LockIgnored == lock \in Requests \cup {NoRequest}  \* mutated form

LockFree == lock = NoRequest

\* generate / generate_stream up to the check that the worker is alive.  A dead worker is
\* started again, with new pipes; if Popen raises, the request fails and the lock is free again.
Acquire(r) ==
  /\ pc[r] = "queued"
  /\ LockFree
  /\ \/ /\ proc # "dead"
        /\ lock' = r
        /\ pc' = [pc EXCEPT ![r] = "writing"]
        /\ UNCHANGED workerVars
     \/ /\ proc = "dead"
        /\ lock' = r
        /\ pc' = [pc EXCEPT ![r] = "starting"]
        /\ proc' = "loading"
        /\ stdin' = <<>>
        /\ stdout' = <<>>
        /\ LoopIdle
        /\ UNCHANGED crashes
     \/ /\ proc = "dead"
        /\ "spawn" \in Faults
        /\ pc' = [pc EXCEPT ![r] = "failed"]
        /\ UNCHANGED <<lock, workerVars>>
  /\ UNCHANGED <<got, gone>>

\* start() returns: the worker is ready, or startup_timeout passed and it is alive.
Started(r) ==
  /\ pc[r] = "starting"
  /\ pc' = [pc EXCEPT ![r] = "writing"]
  /\ UNCHANGED <<lock, got, gone, workerVars>>

\* An exception ends the request: the worker died before it was ready, the pipe was
\* broken at the write, or readline returned the end of file.
Fails(r) ==
  /\ proc = "dead"
  /\ \/ pc[r] \in {"starting", "writing"}
     \/ pc[r] = "reading" /\ stdout = <<>>
  /\ pc' = [pc EXCEPT ![r] = "failed"]
  /\ Unlock(r)
  /\ UNCHANGED <<got, gone, workerVars>>

\* The request line is written and flushed.  One that does not fit in the pipe is only
\* written when the worker reads it.
Write(r) ==
  /\ pc[r] = "writing"
  /\ proc # "dead"
  /\ r \in Big => proc = "ready" /\ serving = NoRequest
  /\ stdin' = Append(stdin, r)
  /\ pc' = [pc EXCEPT ![r] = "reading"]
  /\ UNCHANGED <<lock, got, gone, proc, crashes, stdout, serving, emitted>>

FirstLineCompletes(r, line) ==  \* mutated form: the first line is taken for the last
  r \in Requests /\ line \in Lines

\* generate takes one line, whatever it is; generate_stream goes on to the line that says
\* it is the last one.
Complete(r, line) == r \notin Streaming \/ Done(line)

\* One readline.  An error line ends the request.  Otherwise the line is forwarded to the
\* client, at once when streaming; if that raises, because the client is gone, the
\* suspended generator is closed and the lock released, whatever is left in the pipe.
Read(r) ==
  /\ pc[r] = "reading"
  /\ stdout # <<>>
  /\ stdout' = Tail(stdout)
  /\ LET line == Head(stdout)
     IN \/ /\ line.kind = "error"
           /\ pc' = [pc EXCEPT ![r] = "failed"]
           /\ Unlock(r)
           /\ UNCHANGED got
        \/ /\ line.kind # "error"
           /\ got' = [got EXCEPT ![r] = Append(@, line)]
           /\ IF Complete(r, line)
              THEN pc' = [pc EXCEPT ![r] = "answered"] /\ Unlock(r)
              ELSE UNCHANGED <<pc, lock>>
        \/ /\ line.kind # "error"
           /\ r \in gone
           /\ pc' = [pc EXCEPT ![r] = "failed"]
           /\ Unlock(r)
           /\ UNCHANGED got
  /\ UNCHANGED <<gone, proc, crashes, stdin, serving, emitted>>

-----------------------------------------------------------------------------
(* The worker process.                                                     *)

\* The model is loaded: "REPL ready" on stderr.
Ready ==
  /\ proc = "loading"
  /\ proc' = "ready"
  /\ UNCHANGED <<handlerVars, gone, crashes, stdin, stdout, serving, emitted>>

\* The loop's getline returns a request line.
Take ==
  /\ proc = "ready"
  /\ serving = NoRequest
  /\ stdin # <<>>
  /\ serving' = Head(stdin)
  /\ stdin' = Tail(stdin)
  /\ UNCHANGED <<handlerVars, gone, proc, crashes, stdout, emitted>>

\* stream_response.
StreamResponse == serving \in Streaming

\* One sampled token; its line is printed when the request streams.
Token ==
  /\ proc = "ready"
  /\ StreamResponse
  /\ emitted < MaxDeltas
  /\ Len(stdout) < PipeCap
  /\ stdout' = Append(stdout, Line("delta"))
  /\ emitted' = emitted + 1
  /\ UNCHANGED <<handlerVars, gone, proc, crashes, stdin, serving>>

\* The generation ends, or an exception does: the last line of the request.
Last ==
  /\ proc = "ready"
  /\ serving # NoRequest
  /\ Len(stdout) < PipeCap
  /\ \E kind \in {"final"} \cup (Faults \cap {"error"}) : stdout' = Append(stdout, Line(kind))
  /\ LoopIdle
  /\ UNCHANGED <<handlerVars, gone, proc, crashes, stdin>>

\* The process dies; what it has flushed can still be read.
Crash ==
  /\ "crash" \in Faults
  /\ proc # "dead"
  /\ crashes < MaxCrashes
  /\ proc' = "dead"
  /\ crashes' = crashes + 1
  /\ stdin' = <<>>
  /\ LoopIdle
  /\ UNCHANGED <<handlerVars, gone, stdout>>

\* The client closes its connection before it has been answered.
Disconnect(r) ==
  /\ r \in Impatient
  /\ pc[r] \in {"queued", "starting", "writing", "reading"}
  /\ r \notin gone
  /\ gone' = gone \cup {r}
  /\ UNCHANGED <<handlerVars, workerVars>>

-----------------------------------------------------------------------------
Next ==
  \/ \E r \in Requests :
       Send(r) \/ Acquire(r) \/ Started(r) \/ Fails(r) \/ Write(r) \/ Read(r) \/ Disconnect(r)
  \/ Ready \/ Take \/ Token \/ Last \/ Crash

\* Threads and the worker go on when nothing blocks them: a generation ends after finitely
\* many tokens, a load ends, and the lock is granted while it is free.
Fairness ==
  /\ \A r \in Requests :
       WF_vars(Acquire(r)) /\ WF_vars(Started(r) \/ Fails(r) \/ Write(r) \/ Read(r))
  /\ WF_vars(Ready)
  /\ WF_vars(Take)
  /\ WF_vars(Last)

Spec == Init /\ [][Next]_vars
FairSpec == Spec /\ Fairness

-----------------------------------------------------------------------------
(* Properties.                                                             *)

Inside == {"starting", "writing", "reading"}

\* The promise (see SerialService): unless streaming clients hang up, requests are served
\* one at a time, each with its own output, in order.
Service ==
  INSTANCE SerialService WITH
    status <- [r \in Requests |-> IF pc[r] \in Inside THEN "serving" ELSE pc[r]],
    output <- got

ServiceSpec == Service!Spec

\* Between requests nothing is under way: both pipes are empty and the loop waits for a
\* line, so that the next request's lines are the next ones to arrive.
QuietWhenUnlocked ==
  lock = NoRequest /\ proc # "dead" => stdin = <<>> /\ stdout = <<>> /\ serving = NoRequest

(* The strengthening that makes the promise inductive (no streaming client *)
(* hangs up).                                                              *)

\* The lock holder is the one handler that is inside, and nobody else was answered yet.
HolderInside ==
  \A r \in Requests :
    /\ pc[r] \in Inside <=> lock = r
    /\ pc[r] \in {"new", "queued", "starting", "writing"} => got[r] = <<>>

\* The pipe holds the next lines for r, in order; only the newest may be its last.
PipeFor(r) ==
  \A i \in 1 .. Len(stdout) :
    /\ stdout[i].req = r
    /\ stdout[i].n = Len(got[r]) + i
    /\ stdout[i].kind = "delta" => r \in Streaming /\ stdout[i].n <= MaxDeltas
    /\ i < Len(stdout) => stdout[i].kind = "delta"

\* How far the worker is with r, whose handler reads: its line is still in the pipe, its
\* tokens are being generated, its last line is in the pipe, or the worker died.
ReadingInv(r) ==
  /\ PipeFor(r)
  /\ \/ stdin = <<r>> /\ serving = NoRequest /\ stdout = <<>> /\ got[r] = <<>>
     \/ /\ stdin = <<>>
        /\ serving = r
        /\ emitted = Len(got[r]) + Len(stdout)
        /\ \A i \in 1 .. Len(stdout) : stdout[i].kind = "delta"
     \/ /\ stdin = <<>>
        /\ serving = NoRequest
        /\ proc # "dead" => stdout # <<>> /\ stdout[Len(stdout)].kind # "delta"

\* Whatever is under way is the reading lock holder's.
PipesOfReader ==
  /\ \A r \in Requests : pc[r] = "reading" => ReadingInv(r)
  /\ (\A r \in Requests : pc[r] # "reading") =>
       stdin = <<>> /\ stdout = <<>> /\ serving = NoRequest

WorkerIdle ==
  /\ serving = NoRequest => emitted = 0
  /\ proc = "dead" => stdin = <<>> /\ serving = NoRequest

\* The inductive invariant.
ServiceInv ==
  /\ TypeOK
  /\ gone \cap Streaming = {}
  /\ HolderInside
  /\ WorkerIdle
  /\ PipesOfReader

\* The lines a request is answered with were generated for it.
OwnAnswer ==
  \A r \in Requests : \A i \in DOMAIN got[r] : got[r][i].req = r

\* Every request comes to an end, an answer or a failure.
RequestsEnd ==
  \A r \in Requests : pc[r] = "queued" ~> pc[r] \in {"answered", "failed"}

=============================================================================
