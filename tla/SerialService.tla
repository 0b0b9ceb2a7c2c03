--------------------------- MODULE SerialService ---------------------------
(***************************************************************************)
(* What the local HTTP server (src/tools/motifcl_ollama_server.py)         *)
(* promises its clients: requests are served one at a time, and what a     *)
(* request is answered with is its own output, in order, or a failure.     *)
(***************************************************************************)
EXTENDS Naturals, Sequences

CONSTANTS
  Requests,   \* the HTTP requests that ask for a generation
  Streaming,  \* those with "stream": true
  MaxDeltas   \* bound: tokens generated for one request

VARIABLES
  status,     \* what has become of each request
  output      \* the events each request was answered with so far

vars == <<status, output>>

Statuses == {"new", "queued", "serving", "answered", "failed"}

Delta(r, n) == [req |-> r, kind |-> "delta", n |-> n]
Final(r, n) == [req |-> r, kind |-> "final", n |-> n]

Init ==
  /\ status = [r \in Requests |-> "new"]
  /\ output = [r \in Requests |-> <<>>]

Send(r) ==
  /\ status[r] = "new"
  /\ status' = [status EXCEPT ![r] = "queued"]
  /\ UNCHANGED output

Begin(r) ==
  /\ status[r] = "queued"
  /\ \A q \in Requests : status[q] # "serving"
  /\ status' = [status EXCEPT ![r] = "serving"]
  /\ UNCHANGED output

\* The next token's text reaches a streaming client.
Deliver(r) ==
  /\ status[r] = "serving"
  /\ r \in Streaming
  /\ Len(output[r]) < MaxDeltas
  /\ output' = [output EXCEPT ![r] = Append(@, Delta(r, Len(@) + 1))]
  /\ UNCHANGED status

Finish(r) ==
  /\ status[r] = "serving"
  /\ output' = [output EXCEPT ![r] = Append(@, Final(r, Len(@) + 1))]
  /\ status' = [status EXCEPT ![r] = "answered"]

Fail(r) ==
  /\ status[r] \in {"queued", "serving"}
  /\ status' = [status EXCEPT ![r] = "failed"]
  /\ UNCHANGED output

Next ==
  \E r \in Requests : Send(r) \/ Begin(r) \/ Deliver(r) \/ Finish(r) \/ Fail(r)

Spec == Init /\ [][Next]_vars

=============================================================================
