------------------------------- MODULE KVCache -------------------------------
(***************************************************************************)
(* The caches of incremental decoding (nn/transformer.cpp) and the model   *)
(* calls that fill and read them: the contiguous KVCache, the PagedKVCache *)
(* that rolls over its pages, layers that read an earlier layer's cache,   *)
(* the recurrent state of hybrid models, the replay of a captured decode   *)
(* block, and the padded batches of generate_batch (nn/gemma.cpp).         *)
(*                                                                         *)
(* A call passes through the layers in order; a layer appends the call's   *)
(* keys and values at its cache's cursor, moves the cursor, and attends.   *)
(* Any layer may throw, before it touches its cache or after it moved the  *)
(* cursor, and the caller may go on with the caches it has.  A token is a  *)
(* serial number, a key-value pair the number of the token it came from.   *)
(***************************************************************************)
EXTENDS Integers, Sequences

CONSTANTS
  NumLayers,    \* n_layer
  Source,       \* layer_kv_shared_sources; 0 for a cache of the layer's own
  Recurrent,    \* layers of a hybrid model that keep a recurrent state
  Window,       \* attention_window_ per layer; 0 for none
  BlockSize,    \* block_size, which is the caches' max_seq_len
  PageSize,     \* page_size
  NumRows,      \* rows of a batch
  Replay,       \* decode_full_block_graph_replay_enabled()
  Rebound,      \* layers whose decode step uses only kernels whose offset replay binds
  MaxTokens,    \* bound: tokens fed in one behaviour
  MaxPrompt,    \* bound: length of a prompt in a batch
  MaxFailures,  \* bound: calls that throw
  Modes         \* bound: the sessions explored

Layers == 1 .. NumLayers
Rows == 1 .. NumRows
PageCount == (BlockSize + PageSize - 1) \div PageSize
Slots == 0 .. PageCount * PageSize - 1
AllModes == {"regular", "paged", "hybrid", "hybrid_paged", "batch"}

ASSUME SizesAssumption ==
  /\ NumLayers \in Nat \ {0}
  /\ NumRows \in Nat \ {0}
  /\ BlockSize \in Nat \ {0}
  /\ PageSize \in Nat \ {0}
  /\ MaxTokens \in Nat
  /\ MaxPrompt \in 1 .. BlockSize
  /\ MaxFailures \in Nat

ASSUME LayersAssumption ==
  /\ Source \in [Layers -> 0 .. NumLayers]
  /\ \A l \in Layers : Source[l] # 0 => Source[l] < l /\ Source[Source[l]] = 0
  /\ Recurrent \subseteq Layers
  /\ Layers \ Recurrent # {}
  /\ Window \in [Layers -> Nat]
  /\ Replay \in BOOLEAN
  /\ Rebound \subseteq Layers
  /\ Modes \subseteq AllModes

VARIABLES
  mode,         \* which caches were created, and for whom
  slots,        \* what the rows of each layer's cache hold; 0 is padding or nothing
  length,       \* length, per layer
  seen,         \* tokens_seen, per layer (paged caches only)
  absorbed,     \* the tokens a recurrent state has absorbed
  exec,         \* the captured graph of each block's decode step
  kind,         \* "idle", or what the call in progress does: "append" or "positions"
  layer,        \* the layer the call has reached
  toks,         \* the call's tokens, per row
  positions,    \* positions of a "positions" call, per row; -1 writes nothing
  lengthAfter,  \* cache_length_after of a "positions" call
  att,          \* the range of keys each layer's attention was given in this call
  mask,         \* the unmasked positions of each row of a batch
  rowLength,    \* row_lengths of a batch
  active,       \* rows of a batch that have not ended
  fed,          \* history: the tokens each row was fed and that were not taken back
  failed,       \* history: a call has thrown since the caches were last empty
  failures,     \* calls that have thrown
  serial        \* the last token fed

cacheVars == <<slots, length, seen, absorbed>>
callVars == <<kind, layer, toks, positions, lengthAfter, att>>
batchVars == <<mask, rowLength, active>>
historyVars == <<fed, failed, failures, serial>>
vars == <<mode, cacheVars, exec, callVars, batchVars, historyVars>>

-----------------------------------------------------------------------------

Paged == mode \in {"paged", "hybrid_paged"}
Hybrid == mode \in {"hybrid", "hybrid_paged"}
HasKV(l) == Hybrid => l \notin Recurrent

\* Only the calls on contiguous caches without a mask let layers share.
Shares(l) == mode = "regular" /\ Source[l] # 0
Keeper(l) == IF Shares(l) THEN Source[l] ELSE l

Cursor(l) == IF Paged THEN seen[l] ELSE length[l]

\* Where a position is stored: the page table is the identity, pages are reused in turn.
Place(p) ==
  IF Paged THEN ((p \div PageSize) % PageCount) * PageSize + (p % PageSize) ELSE p

\* A row's slots after tokens were appended from a position on.
Write(row, start, tokens) ==
  [s \in Slots |->
     LET hits == {i \in 1 .. Len(tokens) : start >= 0 /\ Place(start + i - 1) = s}
     IN  IF hits = {} THEN row[s] ELSE tokens[CHOOSE i \in hits : TRUE]]

T == Len(toks[1])
NoGraph == [state |-> "none", offset |-> 0]
FailedGraph == [state |-> "failed", offset |-> 0]
Graph(offset) == [state |-> "ready", offset |-> offset]
NoKeys == [at |-> [b \in Rows |-> 0], low |-> 0, high |-> 0]
NoTokens == [b \in Rows |-> << >>]
OnlyRow(s) == [b \in Rows |-> IF b = 1 THEN s ELSE << >>]

Init ==
  /\ mode \in Modes
  /\ slots = [l \in Layers |-> [b \in Rows |-> [s \in Slots |-> 0]]]
  /\ length = [l \in Layers |-> 0]
  /\ seen = [l \in Layers |-> 0]
  /\ absorbed = [l \in Layers |-> << >>]
  /\ exec = [l \in Layers |-> NoGraph]
  /\ kind = "idle"
  /\ layer = 0
  /\ toks = NoTokens
  /\ positions = [b \in Rows |-> -1]
  /\ lengthAfter = 0
  /\ att = [l \in Layers |-> NoKeys]
  /\ mask = [b \in Rows |-> {}]
  /\ rowLength = [b \in Rows |-> 0]
  /\ active = Rows
  /\ fed = NoTokens
  /\ failed = FALSE
  /\ failures = 0
  /\ serial = 0

-----------------------------------------------------------------------------
(* Calls begin. *)

\* Every cache stands at the same place.  mutated form: only the first.
StandsAtFirst(start) == HasKV(1) => Cursor(1) = start
StandsAt(start) == \A l \in Layers : HasKV(l) => Cursor(l) = start

\* Only the rolling caches of a ModernGPTModel may be fed more than block_size tokens.
\* mutated form: off by one.
FitsAtEnd(start, n) == mode # "paged" => start + n - 1 <= BlockSize
Fits(start, n) == mode # "paged" => start + n <= BlockSize

\* forward_with_cache, forward_with_cache_last_logits, prefill_cache_only, decode_step:
\* refused unless every cache stands at the same place and has room for the new tokens.
Call(n) ==
  /\ mode # "batch"
  /\ kind = "idle"
  /\ n \in 1 .. BlockSize
  /\ serial + n <= MaxTokens
  /\ \E start \in 0 .. MaxTokens :
       /\ StandsAt(start)
       /\ Fits(start, n)
       /\ LET new == [i \in 1 .. n |-> serial + i]
          IN  /\ toks' = OnlyRow(new)
              /\ fed' = [fed EXCEPT ![1] = SubSeq(@, 1, start) \o new]
  /\ serial' = serial + n
  /\ kind' = "append"
  /\ layer' = 1
  /\ UNCHANGED <<mode, cacheVars, exec, positions, lengthAfter, att, batchVars, failed, failures>>

\* The i-th token of row b of a batch.
BatchToken(b, i) == (i - 1) * NumRows + b

\* generate_batch: shorter prompts are padded to the longest, and masked beyond their end.
Prompts(lens) ==
  /\ mode = "batch"
  /\ kind = "idle"
  /\ \A b \in Rows : rowLength[b] = 0
  /\ lens \in [Rows -> 1 .. MaxPrompt]
  /\ \E longest \in 1 .. MaxPrompt :
       /\ \A b \in Rows : lens[b] <= longest
       /\ \E b \in Rows : lens[b] = longest
       /\ toks' = [b \in Rows |->
                     [i \in 1 .. longest |-> IF i <= lens[b] THEN BatchToken(b, i) ELSE 0]]
  /\ fed' = [b \in Rows |-> [i \in 1 .. lens[b] |-> BatchToken(b, i)]]
  /\ mask' = [b \in Rows |-> 0 .. lens[b] - 1]
  /\ rowLength' = lens
  /\ kind' = "append"
  /\ layer' = 1
  /\ UNCHANGED <<mode, cacheVars, exec, positions, lengthAfter, att, active, failed, failures,
                 serial>>

\* The loop of generate_batch: every active row takes its next token at the end of its own
\* text; rows that end are left alone from the next step on; no call is made once all ended.
NextTokens(ended) ==
  /\ mode = "batch"
  /\ kind = "idle"
  /\ \A b \in Rows : rowLength[b] > 0
  /\ active # {}
  /\ ended \subseteq active
  /\ \A b \in active : rowLength[b] < BlockSize
  /\ fed' = [b \in Rows |->
               IF b \in active THEN Append(fed[b], BatchToken(b, rowLength[b] + 1)) ELSE fed[b]]
  /\ mask' = [b \in Rows |-> IF b \in active THEN mask[b] \cup {rowLength[b]} ELSE mask[b]]
  /\ rowLength' = [b \in Rows |-> IF b \in active THEN rowLength[b] + 1 ELSE rowLength[b]]
  /\ active' = active \ ended
  /\ IF ended = active
     THEN UNCHANGED callVars
     ELSE /\ kind' = "positions"
          /\ layer' = 1
          /\ toks' = [b \in Rows |->
                        <<IF b \in active THEN BatchToken(b, rowLength[b] + 1) ELSE 0>>]
          /\ positions' = [b \in Rows |-> IF b \in active THEN rowLength[b] ELSE -1]
          /\ \E after \in 0 .. BlockSize :
               /\ after >= length[1]
               /\ \A b \in active : after >= rowLength[b] + 1
               /\ after = length[1] \/ \E b \in active : after = rowLength[b] + 1
               /\ lengthAfter' = after
          /\ UNCHANGED att
  /\ UNCHANGED <<mode, cacheVars, exec, failed, failures, serial>>

-----------------------------------------------------------------------------
(* Layers. *)

Over ==
  /\ kind' = "idle"
  /\ layer' = 0
  /\ toks' = NoTokens
  /\ positions' = [b \in Rows |-> -1]
  /\ lengthAfter' = 0
  /\ att' = [l \in Layers |-> NoKeys]

\* The call throws.  generate_batch owns its caches, which nobody sees after that.
Throws ==
  /\ mode # "batch"
  /\ failures < MaxFailures
  /\ failures' = failures + 1
  /\ failed' = TRUE
  /\ Over

\* The layer is done and attended to these keys, or what follows the attention throws.
Attended(keys) ==
  \/ /\ att' = [att EXCEPT ![layer] = keys]
     /\ layer' = layer + 1
     /\ UNCHANGED <<kind, toks, positions, lengthAfter, failed, failures>>
  \/ Throws

\* Nothing of this layer, or only the logits after the last one, was computed.
ThrowBefore ==
  /\ kind # "idle"
  /\ Throws
  /\ UNCHANGED <<mode, cacheVars, exec, batchVars, fed, serial>>

\* Where a layer's append begins in each row, and where its cursor stands after it.
AppendAt(l) == [b \in Rows |-> IF kind = "positions" THEN positions[b] ELSE Cursor(l)]
LengthAfter(l) ==
  IF kind = "positions" THEN lengthAfter
  ELSE IF Paged THEN IF seen[l] + T <= BlockSize THEN seen[l] + T ELSE BlockSize
  ELSE length[l] + T
SeenAfter(l) == IF Paged THEN seen[l] + T ELSE seen[l]

\* The keys attention is given: all that is cached, for a batch the whole cache.
KeysOf(l, at) ==
  [at   |-> at,
   low  |-> IF Paged THEN SeenAfter(l) - LengthAfter(l) ELSE 0,
   high |-> IF mode = "batch" THEN BlockSize
            ELSE IF Paged THEN SeenAfter(l) ELSE LengthAfter(l)]

Appended(content, at) == [b \in Rows |-> Write(content[b], at[b], toks[b])]

\* ModernSelfAttention::forward_with_cache and its masked forms, over the given content.
EagerOn(content) ==
  /\ slots' = [slots EXCEPT ![layer] = Appended(content, AppendAt(layer))]
  /\ length' = [length EXCEPT ![layer] = LengthAfter(layer)]
  /\ seen' = [seen EXCEPT ![layer] = SeenAfter(layer)]
  /\ Attended(KeysOf(layer, AppendAt(layer)))
  /\ UNCHANGED absorbed

InLayer == kind # "idle" /\ layer \in Layers

\* forward_with_cache_replay turns to the graph for single tokens in contiguous caches.
Replays == Replay /\ mode = "regular" /\ T = 1

Eager ==
  /\ InLayer
  /\ HasKV(layer)
  /\ ~Shares(layer)
  /\ Replays => exec[layer] = FailedGraph
  /\ EagerOn(slots[layer])
  /\ UNCHANGED <<mode, exec, batchVars, fed, serial>>

\* The first eligible step runs eagerly and is captured, if it does not throw; the graph
\* may turn out to be unusable.
Capture ==
  /\ InLayer
  /\ ~Shares(layer)
  /\ Replays
  /\ exec[layer] = NoGraph
  /\ EagerOn(slots[layer])
  /\ \/ /\ kind' # "idle"
        /\ \E g \in {Graph(length[layer]), FailedGraph} : exec' = [exec EXCEPT ![layer] = g]
     \/ /\ kind' = "idle"
        /\ UNCHANGED exec
  /\ UNCHANGED <<mode, batchVars, fed, serial>>

\* The offset the replayed kernels run with: only some kernels have it bound anew.
ReplayOffset(l) == IF l \in Rebound THEN length[l] ELSE exec[l].offset
ReplayAt(l) == [b \in Rows |-> ReplayOffset(l)]

ReplayGraph ==
  /\ InLayer
  /\ ~Shares(layer)
  /\ Replays
  /\ exec[layer].state = "ready"
  /\ slots' = [slots EXCEPT ![layer] = Appended(slots[layer], ReplayAt(layer))]
  /\ length' = [length EXCEPT ![layer] = LengthAfter(layer)]
  /\ Attended([at |-> ReplayAt(layer), low |-> 0, high |-> ReplayOffset(layer) + 1])
  /\ UNCHANGED <<mode, seen, absorbed, exec, batchVars, fed, serial>>

\* Replay throws, before or after its append ran; the graph is given up for good and the
\* layer runs eagerly from the same offset.
ReplayFallback ==
  /\ InLayer
  /\ ~Shares(layer)
  /\ Replays
  /\ exec[layer].state = "ready"
  /\ \/ EagerOn(slots[layer])
     \/ EagerOn(Appended(slots[layer], ReplayAt(layer)))
  /\ exec' = [exec EXCEPT ![layer] = FailedGraph]
  /\ UNCHANGED <<mode, batchVars, fed, serial>>

\* forward_with_shared_kv_cache; the model copies the source's length once it returned.
Shared ==
  /\ InLayer
  /\ Shares(layer)
  /\ LET source == Source[layer]
         keys == [at   |-> [b \in Rows |-> length[source] - T],
                  low  |-> 0,
                  high |-> length[source]]
     IN  /\ length[source] >= T
         /\ Attended(keys)
         /\ length' = IF kind' = "idle" THEN length
                      ELSE [length EXCEPT ![layer] = length[source]]
  /\ UNCHANGED <<mode, slots, seen, absorbed, exec, batchVars, fed, serial>>

\* GatedDeltaNetLayer::forward_with_state updates its state in place.
Delta ==
  /\ InLayer
  /\ ~HasKV(layer)
  /\ absorbed' = [absorbed EXCEPT ![layer] = @ \o toks[1]]
  /\ Attended(NoKeys)
  /\ UNCHANGED <<mode, slots, length, seen, exec, batchVars, fed, serial>>

Return ==
  /\ kind # "idle"
  /\ layer = NumLayers + 1
  /\ Over
  /\ UNCHANGED <<mode, cacheVars, exec, batchVars, historyVars>>

-----------------------------------------------------------------------------
(* The caller between calls. *)

\* DeltaStateCache::zero, for all layers.  mutated form: the states are kept.
StatesKept == absorbed
ZeroStates == [l \in Layers |-> << >>]

\* KVCache::reset, PagedKVCache::reset, HybridRuntimeCache::reset: only cursors and
\* recurrent states are cleared, slots keep what they held.
Reset ==
  /\ mode # "batch"
  /\ kind = "idle"
  /\ length' = [l \in Layers |-> 0]
  /\ seen' = [l \in Layers |-> 0]
  /\ absorbed' = ZeroStates
  /\ fed' = NoTokens
  /\ failed' = FALSE
  /\ UNCHANGED <<mode, slots, exec, callVars, batchVars, failures, serial>>

\* warm_decode_bench takes the caches of a prompt back to its end before it decodes again.
Rewind(n) ==
  /\ mode = "regular"
  /\ kind = "idle"
  /\ ~failed
  /\ n \in 1 .. Len(fed[1])
  /\ length' = [l \in Layers |-> n]
  /\ fed' = [fed EXCEPT ![1] = SubSeq(@, 1, n)]
  /\ UNCHANGED <<mode, slots, seen, absorbed, exec, callVars, batchVars, failed, failures, serial>>

Next ==
  \/ \E n \in 1 .. BlockSize : Call(n) \/ Rewind(n)
  \/ \E lens \in [Rows -> 1 .. MaxPrompt] : Prompts(lens)
  \/ \E ended \in SUBSET Rows : NextTokens(ended)
  \/ Eager
  \/ Capture
  \/ ReplayGraph
  \/ ReplayFallback
  \/ Shared
  \/ Delta
  \/ ThrowBefore
  \/ Return
  \/ Reset

Spec == Init /\ [][Next]_vars

-----------------------------------------------------------------------------
(* Properties. *)

Typed ==
  /\ mode \in Modes
  /\ slots \in [Layers -> [Rows -> [Slots -> Nat]]]
  /\ length \in [Layers -> 0 .. BlockSize]
  /\ seen \in [Layers -> Nat]
  /\ absorbed \in [Layers -> Seq(Nat)]
  /\ exec \in [Layers -> [state : {"none", "ready", "failed"}, offset : 0 .. BlockSize]]
  /\ kind \in {"idle", "append", "positions"}
  /\ layer \in 0 .. NumLayers + 1
  /\ kind = "idle" <=> layer = 0
  /\ toks \in [Rows -> Seq(Nat)]
  /\ positions \in [Rows -> -1 .. BlockSize - 1]
  /\ lengthAfter \in 0 .. BlockSize
  /\ att \in [Layers -> [at : [Rows -> Int], low : Nat, high : Nat]]
  /\ mask \in [Rows -> SUBSET (0 .. BlockSize - 1)]
  /\ rowLength \in [Rows -> 0 .. BlockSize]
  /\ active \in SUBSET Rows
  /\ fed \in [Rows -> Seq(Nat)]
  /\ failed \in BOOLEAN
  /\ failures \in Nat
  /\ serial \in Nat

\* The types, and where cursors stand: no cursor passes its cache, a paged cache's length is
\* what it has seen up to block_size, a layer the call has yet to reach has room for it, and
\* a layer that shares finds what its source was fed, so that the layers' own capacity checks
\* (transformer.cpp:2609, 2674) never throw in the middle of a call the model has let in.
CursorInv ==
  /\ Typed
  /\ Paged => \A l \in Layers :
       length[l] = IF seen[l] <= BlockSize THEN seen[l] ELSE BlockSize
  /\ ~Paged /\ kind = "append" => \A l \in Layers :
       HasKV(l) /\ l >= layer => length[l] + T <= BlockSize
  /\ \A l \in Layers : Shares(l) /\ l = layer => length[Source[l]] >= T

\* The tokens of this call that are the row's own: not padding, nor of a row that ended.
OwnTokens(b) ==
  IF mode # "batch" THEN Len(toks[b])
  ELSE IF kind = "append" THEN Len(fed[b])
  ELSE IF positions[b] < 0 THEN 0 ELSE 1

\* What the i-th query of a row attends to: the kernels' loop over the keys they are given.
Reach(l) == IF mode = "batch" THEN 0 ELSE Window[l]
Within(l, p, q) == Reach(l) = 0 \/ p + Reach(l) > q
Read(l, b, i) ==
  LET q == att[l].at[b] + i - 1
      seenKeys == {p \in att[l].low .. att[l].high - 1 :
                     /\ kind = "append" => p <= q
                     /\ Within(l, p, q)
                     /\ mode = "batch" => p \in mask[b]}
  IN  {<<p, slots[Keeper(l)][b][Place(p)]>> : p \in seenKeys}

\* What it should attend to: the row's own tokens up to itself, as far back as the caches
\* reach at the end of the call and the layer's window allows.
Position(b, i) == Len(fed[b]) - OwnTokens(b) + i - 1
OwnText(l, b, i) ==
  LET q == Position(b, i)
      reached == {p \in 0 .. q : p + BlockSize >= Len(fed[b]) /\ Within(l, p, q)}
  IN  {<<p, fed[b][p + 1]>> : p \in reached}

\* Every layer of every call computes with exactly the tokens its row was fed, in their
\* order and at their positions, each once: whatever was cached before and left behind by
\* a reset, a rewind, a thrown call or a padded prompt, wherever the pages have wrapped
\* around, whichever cache the layer reads and whether the step ran eagerly or was replayed.
ReadsRight ==
  kind # "idle" =>
    \A l \in Layers : \A b \in Rows : \A i \in 1 .. OwnTokens(b) :
      l < layer /\ HasKV(l) =>
        /\ att[l].at[b] + i - 1 = Position(b, i)
        /\ Read(l, b, i) = OwnText(l, b, i)

\* A recurrent state, which has no cursor to be checked, has absorbed the same tokens as
\* the caches hold, as long as no call has thrown since the last reset.
RecurrentInStep ==
  Hybrid /\ ~failed =>
    \A l \in Recurrent :
      absorbed[l] = IF kind # "idle" /\ layer <= l
                    THEN SubSeq(fed[1], 1, Len(fed[1]) - T)
                    ELSE fed[1]

=============================================================================
