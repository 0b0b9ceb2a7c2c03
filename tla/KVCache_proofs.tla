--------------------------- MODULE KVCache_proofs ---------------------------
(***************************************************************************)
(* Every query reads exactly its row's own tokens: an inductive invariant  *)
(* of KVCache and the proofs that it implies the properties of KVCache,    *)
(* for any number of layers, sizes of caches and pages, sharing, windows,  *)
(* failures and resets.                                                    *)
(*                                                                         *)
(* The heart is arithmetic: positions less than a whole cache apart never  *)
(* share a slot, however the pages have wrapped around (PlaceInjective),   *)
(* so an append keeps everything attention may still reach (WriteHolds).   *)
(***************************************************************************)
EXTENDS KVCache, SequenceTheorems, TLAPS

(***************************************************************************)
(* Places.                                                                 *)
(***************************************************************************)

\* Division with remainder, as page and slot of a position use it.
LEMMA DivMod ==
  ASSUME NEW x \in Nat, NEW d \in Nat \ {0}
  PROVE  /\ x \div d \in Nat
         /\ (x % d) \in 0 .. d - 1
         /\ x = d * (x \div d) + (x % d)
  <1>1. x \div d \in Int /\ x \div d >= 0
    BY SMT
  <1>2. (x % d) \in 0 .. d - 1
    BY SMT
  <1>3. x = d * (x \div d) + (x % d)
    BY SMT
  <1> QED
    BY <1>1, <1>2, <1>3

\* Products with a positive factor grow with the other.
LEMMA Times ==
  ASSUME NEW d \in Nat \ {0}, NEW x \in Int, NEW y \in Int
  PROVE  /\ x >= y => d * x >= d * y
         /\ d * (x - y) = d * x - d * y
         /\ d * x \in Int
         /\ x >= 1 => d * x >= d
         /\ x <= -1 => d * x <= -d
         /\ x = 0 => d * x = 0
  BY SMT

\* The pages of a cache hold at least block_size tokens (PagedKVCache::PagedKVCache).
LEMMA Capacity == PageCount \in Nat \ {0} /\ PageCount * PageSize >= BlockSize
  <1> USE SizesAssumption
  <1> DEFINE x == BlockSize + PageSize - 1
             q == x \div PageSize
             r == x % PageSize
  <1>1. x \in Nat /\ PageSize \in Nat \ {0}
    OBVIOUS
  <1> HIDE DEF x
  <1>2. q \in Nat /\ r \in 0 .. PageSize - 1 /\ x = PageSize * q + r
    BY <1>1, DivMod
  <1> HIDE DEF q, r
  <1>3. PageSize * q \in Int /\ (q = 0 => PageSize * q = 0)
    BY <1>1, <1>2, Times
  <1>4. PageSize * q >= BlockSize
    BY <1>1, <1>2, <1>3 DEF x
  <1>5. q # 0
    BY <1>1, <1>3, <1>4
  <1>6. PageCount = q /\ q * PageSize = PageSize * q
    BY <1>1, <1>2 DEF PageCount, q, x
  <1> QED
    BY <1>2, <1>4, <1>5, <1>6

\* Numbers less than m apart with the same remainder are equal.
LEMMA ModWindow ==
  ASSUME NEW m \in Nat \ {0}, NEW x \in Nat, NEW y \in Nat,
         x <= y, y < x + m, x % m = y % m
  PROVE  x = y
  <1> DEFINE qx == x \div m
             qy == y \div m
             r == x % m
  <1>1. /\ qx \in Nat /\ x = m * qx + r /\ r \in 0 .. m - 1
        /\ qy \in Nat /\ y = m * qy + r
    BY DivMod
  <1> HIDE DEF qx, qy, r
  <1>2. /\ m * (qy - qx) = m * qy - m * qx
        /\ m * qx \in Int /\ m * qy \in Int
        /\ qy - qx >= 1 => m * (qy - qx) >= m
        /\ qy - qx <= -1 => m * (qy - qx) <= -m
    <2>1. qy - qx \in Int
      BY <1>1
    <2> QED
      BY <1>1, <2>1, Times
  <1>3. qx = qy
    BY <1>1, <1>2
  <1> QED
    BY <1>1, <1>3

\* A position of a contiguous cache is within its slots; of a paged cache, always.
LEMMA PlaceInSlots ==
  ASSUME NEW p \in Nat, ~Paged => p < BlockSize
  PROVE  Place(p) \in Slots
  <1> USE SizesAssumption
  <1>1. CASE ~Paged
    BY <1>1, Capacity DEF Place, Slots
  <1>2. CASE Paged
    <2> DEFINE q == p \div PageSize
               r == p % PageSize
               a == q % PageCount
    <2>1. q \in Nat /\ r \in 0 .. PageSize - 1
      BY DivMod
    <2> HIDE DEF q, r
    <2>2. a \in 0 .. PageCount - 1 /\ PageCount \in Nat \ {0}
      BY <2>1, Capacity, DivMod
    <2> HIDE DEF a
    <2>3. /\ PageSize * (PageCount - 1) >= PageSize * a
          /\ PageSize * (PageCount - 1) = PageSize * PageCount - PageSize * 1
          /\ PageSize * a >= 0
          /\ PageSize * a \in Int /\ PageSize * PageCount \in Int
      BY <2>2, Times
    <2>4. a * PageSize = PageSize * a /\ PageCount * PageSize = PageSize * PageCount
      BY <2>2
    <2>5. Place(p) = a * PageSize + r
      BY <1>2 DEF Place, a, q, r
    <2> QED
      BY <2>1, <2>2, <2>3, <2>4, <2>5 DEF Slots
  <1> QED
    BY <1>1, <1>2

\* Positions less than a whole cache apart have slots of their own.
LEMMA PlaceInjective ==
  ASSUME NEW x \in Nat, NEW y \in Nat, x <= y, y < x + BlockSize, Place(x) = Place(y)
  PROVE  x = y
  <1> USE SizesAssumption
  <1>1. CASE ~Paged
    BY <1>1 DEF Place
  <1>2. CASE Paged
    <2> DEFINE qx == x \div PageSize
               rx == x % PageSize
               qy == y \div PageSize
               ry == y % PageSize
               a == qx % PageCount
               b == qy % PageCount
    <2>1. /\ qx \in Nat /\ rx \in 0 .. PageSize - 1 /\ x = PageSize * qx + rx
          /\ qy \in Nat /\ ry \in 0 .. PageSize - 1 /\ y = PageSize * qy + ry
      BY DivMod
    <2>2. Place(x) = a * PageSize + rx /\ Place(y) = b * PageSize + ry
      BY <1>2 DEF Place
    <2> HIDE DEF qx, rx, qy, ry
    <2>3. a \in Nat /\ b \in Nat /\ PageCount \in Nat \ {0}
      BY <2>1, Capacity, DivMod
    <2>4. rx = ry /\ a = b
      <3> HIDE DEF a, b
      <3>0. a * PageSize = PageSize * a /\ b * PageSize = PageSize * b
        BY <2>3
      <3>1. PageSize * a + rx = PageSize * b + ry
        BY <2>2, <3>0
      <3>2. a - b \in Int
        BY <2>3
      <3>3. /\ PageSize * (a - b) = PageSize * a - PageSize * b
            /\ PageSize * a \in Int /\ PageSize * b \in Int
            /\ a - b >= 1 => PageSize * (a - b) >= PageSize
            /\ a - b <= -1 => PageSize * (a - b) <= -PageSize
        BY <2>3, <3>2, Times
      <3>4. a = b
        BY <2>1, <2>3, <3>1, <3>3
      <3> QED
        BY <2>1, <3>1, <3>3, <3>4
    <2>5. qx <= qy /\ qy < qx + PageCount
      <3> HIDE DEF a, b
      <3>1. qy - qx \in Int
        BY <2>1
      <3>2. /\ PageSize * (qy - qx) = PageSize * qy - PageSize * qx
            /\ PageSize * qx \in Int /\ PageSize * qy \in Int
            /\ PageSize * PageCount \in Int
            /\ qy - qx <= -1 => PageSize * (qy - qx) <= -PageSize
            /\ qy - qx >= PageCount => PageSize * (qy - qx) >= PageSize * PageCount
        BY <2>1, <2>3, <3>1, Times
      <3>3. y - x = PageSize * (qy - qx)
        BY <2>1, <2>4, <3>2
      <3>4. PageSize * PageCount >= BlockSize
        BY <2>3, Capacity
      <3> QED
        BY <2>1, <2>3, <3>2, <3>3, <3>4
    <2>6. qx = qy
      BY <2>1, <2>3, <2>4, <2>5, ModWindow
    <2> QED
      BY <2>1, <2>4, <2>6
  <1> QED
    BY <1>1, <1>2

(***************************************************************************)
(* Appends.                                                                *)
(***************************************************************************)

\* An append fits: it is no longer than a cache, and within a contiguous one.
Fit(start, tokens) ==
  /\ start \in Nat
  /\ tokens \in Seq(Nat)
  /\ Len(tokens) <= BlockSize
  /\ ~Paged => start + Len(tokens) <= BlockSize

LEMMA WriteType ==
  ASSUME NEW row \in [Slots -> Nat], NEW start \in Int, NEW tokens \in Seq(Nat)
  PROVE  Write(row, start, tokens) \in [Slots -> Nat]
  <1> SUFFICES ASSUME NEW s \in Slots
               PROVE  Write(row, start, tokens)[s] \in Nat
    BY DEF Write
  <1> DEFINE hits == {i \in 1 .. Len(tokens) : start >= 0 /\ Place(start + i - 1) = s}
  <1>1. CASE hits = {}
    BY <1>1 DEF Write
  <1>2. CASE hits # {}
    <2>1. (CHOOSE i \in hits : TRUE) \in 1 .. Len(tokens)
      BY <1>2
    <2>2. tokens[CHOOSE i \in hits : TRUE] \in Nat
      BY <2>1, ElementOfSeq
    <2> QED
      BY <1>2, <2>2 DEF Write
  <1> QED
    BY <1>1, <1>2

\* Nothing is written at a negative position.
LEMMA WriteNothing ==
  ASSUME NEW row \in [Slots -> Nat], NEW tokens \in Seq(Nat), NEW start \in Int, start < 0
  PROVE  Write(row, start, tokens) = row
  <1>1. \A s \in Slots : {i \in 1 .. Len(tokens) : start >= 0 /\ Place(start + i - 1) = s} = {}
    OBVIOUS
  <1> QED
    BY <1>1 DEF Write

\* Every token is at its place afterwards.
LEMMA WriteNew ==
  ASSUME NEW row \in [Slots -> Nat], NEW start, NEW tokens, Fit(start, tokens),
         NEW i \in 1 .. Len(tokens)
  PROVE  Write(row, start, tokens)[Place(start + i - 1)] = tokens[i]
  <1> USE SizesAssumption
  <1> DEFINE p == start + i - 1
             hits == {j \in 1 .. Len(tokens) : start >= 0 /\ Place(start + j - 1) = Place(p)}
  <1>1. p \in Nat /\ Len(tokens) \in Nat /\ (~Paged => p < BlockSize)
    BY DEF Fit
  <1>2. Place(p) \in Slots
    BY <1>1, PlaceInSlots
  <1>3. i \in hits
    BY DEF Fit
  <1>4. \A j \in hits : j = i
    <2> SUFFICES ASSUME NEW j \in 1 .. Len(tokens), Place(start + j - 1) = Place(p)
                 PROVE  j = i
      OBVIOUS
    <2>1. start + j - 1 \in Nat /\ start + j - 1 < p + BlockSize /\ p < start + j - 1 + BlockSize
      BY <1>1 DEF Fit
    <2>2. start + j - 1 = p
      <3>1. CASE p <= start + j - 1
        BY <1>1, <2>1, <3>1, PlaceInjective
      <3>2. CASE start + j - 1 <= p
        BY <1>1, <2>1, <3>2, PlaceInjective
      <3> QED
        BY <1>1, <2>1, <3>1, <3>2
    <2> QED
      BY <2>2 DEF Fit
  <1>5. (CHOOSE j \in hits : TRUE) = i
    BY <1>3, <1>4
  <1> QED
    BY <1>2, <1>3, <1>5 DEF Write

\* What is less than a cache behind the end of the append stays.
LEMMA WriteKeeps ==
  ASSUME NEW row \in [Slots -> Nat], NEW start, NEW tokens, Fit(start, tokens),
         NEW p \in Nat, p < start, p + BlockSize >= start + Len(tokens)
  PROVE  Write(row, start, tokens)[Place(p)] = row[Place(p)]
  <1> USE SizesAssumption
  <1>1. Place(p) \in Slots
    BY PlaceInSlots DEF Fit
  <1>2. ASSUME NEW j \in 1 .. Len(tokens), Place(start + j - 1) = Place(p)
        PROVE  FALSE
    <2>1. start + j - 1 \in Nat /\ p <= start + j - 1 /\ start + j - 1 < p + BlockSize
      BY DEF Fit
    <2>2. start + j - 1 = p
      BY <1>2, <2>1, PlaceInjective
    <2> QED
      BY <2>1, <2>2 DEF Fit
  <1>3. {j \in 1 .. Len(tokens) : start >= 0 /\ Place(start + j - 1) = Place(p)} = {}
    BY <1>2
  <1> QED
    BY <1>1, <1>3 DEF Write

\* The row holds the first c tokens of a text, as far back as a cache reaches.
Holds(row, text, c) ==
  \A p \in 0 .. c - 1 : p + BlockSize >= c => row[Place(p)] = text[p + 1]

\* Appending the rest of a text, and possibly padding, to a row that holds the text up to
\* there makes it hold all of it.
LEMMA WriteHolds ==
  ASSUME NEW row \in [Slots -> Nat], NEW start, NEW tokens, Fit(start, tokens),
         NEW text \in Seq(Nat),
         Holds(row, text, start),
         start <= Len(text), Len(text) <= start + Len(tokens),
         Paged => Len(text) = start + Len(tokens),
         \A i \in 1 .. Len(tokens) : start + i <= Len(text) => tokens[i] = text[start + i]
  PROVE  Holds(Write(row, start, tokens), text, Len(text))
  <1> USE SizesAssumption
  <1> DEFINE new == Write(row, start, tokens)
  <1> SUFFICES ASSUME NEW p \in 0 .. Len(text) - 1, p + BlockSize >= Len(text)
               PROVE  new[Place(p)] = text[p + 1]
    BY DEF Holds
  <1>0. start \in Nat /\ Len(tokens) \in Nat /\ Len(text) \in Nat /\ p \in Nat
    BY DEF Fit
  <1>1. CASE p < start
    <2>1. p + BlockSize >= start + Len(tokens)
      BY <1>0 DEF Fit
    <2>2. row[Place(p)] = text[p + 1]
      BY <1>0, <1>1, <2>1 DEF Holds
    <2>3. Fit(start, tokens) /\ row \in [Slots -> Nat]
      OBVIOUS
    <2>4. p \in Nat /\ p < start
      BY <1>0, <1>1
    <2>5. Write(row, start, tokens)[Place(p)] = row[Place(p)]
      BY <2>1, <2>3, <2>4, WriteKeeps
    <2> QED
      BY <2>2, <2>5
  <1>2. CASE p >= start
    <2> DEFINE i == p - start + 1
    <2>1. i \in 1 .. Len(tokens) /\ start + i - 1 = p /\ start + i = p + 1 /\ p + 1 <= Len(text)
      BY <1>0, <1>2
    <2> HIDE DEF i
    <2>2. Fit(start, tokens) /\ row \in [Slots -> Nat]
      OBVIOUS
    <2>3. Write(row, start, tokens)[Place(start + i - 1)] = tokens[i]
      BY <2>1, <2>2, WriteNew
    <2>4. tokens[i] = text[p + 1]
      BY <2>1
    <2> QED
      BY <2>1, <2>3, <2>4
  <1> QED
    BY <1>0, <1>1, <1>2

(***************************************************************************)
(* The inductive invariant.                                                *)
(***************************************************************************)

N == Len(fed[1])

PagedLengths ==
  Paged => \A l \in Layers :
    length[l] = IF seen[l] <= BlockSize THEN seen[l] ELSE BlockSize

\* The tokens of a call are the end of what its row was fed.
CallTokens ==
  mode # "batch" /\ kind # "idle" =>
    /\ kind = "append"
    /\ T \in 1 .. BlockSize
    /\ T <= N
    /\ \A i \in 1 .. T : toks[1][i] = fed[1][N - T + i]
    /\ \A b \in Rows : b # 1 => toks[b] = << >>

\* Layers the call has passed stand at the end of the text, the others where it began;
\* after a failure a cursor may stand anywhere before the end.
Cursors ==
  mode # "batch" =>
    /\ mode # "paged" => N <= BlockSize
    /\ \A l \in Layers : HasKV(l) =>
         /\ Cursor(l) <= N
         /\ kind # "idle" => Cursor(l) = IF l < layer THEN N ELSE N - T
         /\ kind = "idle" /\ ~failed => Cursor(l) = N

KeysGiven ==
  mode # "batch" /\ kind # "idle" =>
    \A l \in Layers : HasKV(l) /\ l < layer =>
      /\ att[l].at[1] = N - T
      /\ att[l].high = N
      /\ att[l].low = IF Paged /\ N > BlockSize THEN N - BlockSize ELSE 0

\* A layer's own cache holds the text up to its cursor.
Content ==
  mode # "batch" =>
    \A l \in Layers : HasKV(l) /\ ~Shares(l) => Holds(slots[l][1], fed[1], Cursor(l))

BatchRows ==
  mode = "batch" => \A b \in Rows : rowLength[b] = Len(fed[b]) /\ mask[b] = 0 .. Len(fed[b]) - 1

BatchPrompt ==
  mode = "batch" /\ kind = "append" =>
    /\ T \in 1 .. BlockSize
    /\ \A b \in Rows :
         /\ Len(toks[b]) = T
         /\ Len(fed[b]) \in 1 .. T
         /\ \A i \in 1 .. Len(fed[b]) : toks[b][i] = fed[b][i]
    /\ \A l \in Layers : l >= layer => length[l] = 0
    /\ \A l \in Layers : l < layer =>
         att[l] = [at |-> [b \in Rows |-> 0], low |-> 0, high |-> BlockSize]

BatchStep ==
  mode = "batch" /\ kind = "positions" =>
    /\ \A b \in Rows :
         /\ Len(toks[b]) = 1
         /\ Len(fed[b]) # 0
         /\ positions[b] = -1 \/ (positions[b] = Len(fed[b]) - 1 /\ toks[b][1] = fed[b][Len(fed[b])])
    /\ \A l \in Layers : l < layer =>
         att[l] = [at |-> positions, low |-> 0, high |-> BlockSize]

BatchStart ==
  mode = "batch" /\ (\A b \in Rows : rowLength[b] = 0) => kind = "idle" /\ \A l \in Layers : length[l] = 0

\* Tokens of this call that a row's cache of the layer does not hold yet.
Missing(l, b) == IF kind # "idle" /\ l >= layer THEN OwnTokens(b) ELSE 0

BatchContent ==
  mode = "batch" /\ (kind # "idle" \/ active # {}) =>
    \A l \in Layers : \A b \in Rows : Holds(slots[l][b], fed[b], Len(fed[b]) - Missing(l, b))

ApiInv == CallTokens /\ Cursors /\ KeysGiven /\ Content /\ RecurrentInStep
BatchInv == BatchRows /\ BatchPrompt /\ BatchStep /\ BatchStart /\ BatchContent
KVInv == Typed /\ PagedLengths /\ ApiInv /\ BatchInv

(***************************************************************************)
(* What does not change.                                                   *)
(***************************************************************************)

LEMMA Ones == 1 \in Rows /\ 1 \in Layers /\ NumLayers \in Nat /\ BlockSize \in Nat /\ BlockSize >= 1
  BY SizesAssumption DEF Rows, Layers

LEMMA SameMode ==
  ASSUME mode' = mode
  PROVE  /\ Paged' <=> Paged
         /\ Hybrid' <=> Hybrid
         /\ \A l : (HasKV(l)' <=> HasKV(l)) /\ (Shares(l)' <=> Shares(l))
         /\ \A p : Place(p)' = Place(p)
  BY DEF Paged, Hybrid, HasKV, Shares, Place

LEMMA ContentNext ==
  ASSUME mode' = mode,
         mode # "batch" => \A l \in Layers : HasKV(l) /\ ~Shares(l) =>
           Holds(slots'[l][1], fed'[1], Cursor(l)')
  PROVE  Content'
  <1>1. \A p : Place(p)' = Place(p)
    BY SameMode
  <1>2. \A l : (HasKV(l)' <=> HasKV(l)) /\ (Shares(l)' <=> Shares(l))
    BY SameMode
  <1> QED
    BY <1>1, <1>2 DEF Content, Holds

LEMMA BatchContentNext ==
  ASSUME mode' = mode,
         mode = "batch" /\ (kind' # "idle" \/ active' # {}) =>
           \A l \in Layers : \A b \in Rows :
             Holds(slots'[l][b], fed'[b], Len(fed'[b]) - Missing(l, b)')
  PROVE  BatchContent'
  <1>1. \A p : Place(p)' = Place(p)
    BY SameMode
  <1> QED
    BY <1>1 DEF BatchContent, Holds

\* Calls of an API session say nothing about batches, and the other way round.
LEMMA NoBatch ==
  ASSUME mode' = mode, mode # "batch"
  PROVE  BatchInv'
  BY DEF BatchInv, BatchRows, BatchPrompt, BatchStep, BatchStart, BatchContent

LEMMA NoApi ==
  ASSUME mode' = mode, mode = "batch"
  PROVE  ApiInv'
  BY DEF ApiInv, CallTokens, Cursors, KeysGiven, Content, RecurrentInStep, Hybrid

LEMMA InitInv == Init => KVInv
  <1> SUFFICES ASSUME Init PROVE KVInv
    OBVIOUS
  <1> USE Ones, SizesAssumption, LayersAssumption
  <1>1. Typed
    <2>1. << >> \in Seq(Nat)
      OBVIOUS
    <2>2. 0 \in 0 .. BlockSize /\ -1 \in -1 .. BlockSize - 1 /\ 0 \in 0 .. NumLayers + 1
      OBVIOUS
    <2>3. NoGraph \in [state : {"none", "ready", "failed"}, offset : 0 .. BlockSize]
      BY <2>2 DEF NoGraph
    <2>4. NoKeys \in [at : [Rows -> Int], low : Nat, high : Nat]
      BY DEF NoKeys
    <2>5. NoTokens \in [Rows -> Seq(Nat)]
      BY <2>1 DEF NoTokens
    <2> QED
      BY <2>1, <2>2, <2>3, <2>4, <2>5 DEF Init, Typed
  <1>2. PagedLengths
    BY DEF Init, PagedLengths
  <1>3. fed[1] = << >> /\ N = 0
    BY DEF Init, NoTokens, N
  <1>4. \A row, text : Holds(row, text, 0)
    BY DEF Holds
  <1>5. \A l \in Layers : Cursor(l) = 0
    BY DEF Init, Cursor
  <1>6. ApiInv
    BY <1>3, <1>4, <1>5 DEF Init, ApiInv, CallTokens, Cursors, KeysGiven, Content, RecurrentInStep
  <1>7. \A b \in Rows : fed[b] = << >> /\ Len(fed[b]) = 0
    BY DEF Init, NoTokens
  <1>8. BatchInv
    BY <1>4, <1>7 DEF Init, BatchInv, BatchRows, BatchPrompt, BatchStep, BatchStart, BatchContent, Missing
  <1> QED
    BY <1>1, <1>2, <1>6, <1>8 DEF KVInv

LEMMA StutterInv == KVInv /\ UNCHANGED vars => KVInv'
  <1> SUFFICES ASSUME KVInv, UNCHANGED vars PROVE KVInv'
    OBVIOUS
  <1> USE DEF vars, cacheVars, callVars, batchVars, historyVars
  <1>1. Typed' /\ PagedLengths'
    BY DEF KVInv, Typed, PagedLengths, Paged
  <1>2. T' = T /\ N' = N /\ \A l : Cursor(l)' = Cursor(l)
    BY DEF T, N, Cursor, Paged
  <1>3. CallTokens' /\ Cursors' /\ KeysGiven' /\ RecurrentInStep'
    BY <1>2, SameMode DEF KVInv, ApiInv, CallTokens, Cursors, KeysGiven, RecurrentInStep
  <1>4. Content'
    <2> SUFFICES mode # "batch" => \A l \in Layers : HasKV(l) /\ ~Shares(l) =>
                   Holds(slots'[l][1], fed'[1], Cursor(l)')
      BY ContentNext
    <2> QED
      BY <1>2 DEF KVInv, ApiInv, Content
  <1>5. BatchRows' /\ BatchPrompt' /\ BatchStep' /\ BatchStart'
    BY <1>2 DEF KVInv, BatchInv, BatchRows, BatchPrompt, BatchStep, BatchStart
  <1>6. BatchContent'
    <2>1. \A l, b : Missing(l, b)' = Missing(l, b)
      BY DEF Missing, OwnTokens
    <2> SUFFICES mode = "batch" /\ (kind' # "idle" \/ active' # {}) =>
                   \A l \in Layers : \A b \in Rows :
                     Holds(slots'[l][b], fed'[b], Len(fed'[b]) - Missing(l, b)')
      BY BatchContentNext
    <2> QED
      BY <2>1 DEF KVInv, BatchInv, BatchContent
  <1> QED
    BY <1>1, <1>3, <1>4, <1>5, <1>6 DEF KVInv, ApiInv, BatchInv

(***************************************************************************)
(* Texts.                                                                  *)
(***************************************************************************)

LEMMA Prefix ==
  ASSUME NEW text \in Seq(Nat), NEW c \in 0 .. Len(text)
  PROVE  /\ SubSeq(text, 1, c) \in Seq(Nat)
         /\ Len(SubSeq(text, 1, c)) = c
         /\ \A i \in 1 .. c : SubSeq(text, 1, c)[i] = text[i]
  <1>1. Len(text) \in Nat /\ c \in Nat
    BY LenProperties
  <1>2. \A i \in 1 .. c : text[i] \in Nat
    BY <1>1, ElementOfSeq
  <1>3. /\ SubSeq(text, 1, c) \in Seq(Nat)
        /\ Len(SubSeq(text, 1, c)) = IF 1 <= c THEN c - 1 + 1 ELSE 0
        /\ \A i \in 1 .. c - 1 + 1 : SubSeq(text, 1, c)[i] = text[1 + i - 1]
    BY <1>1, <1>2, SubSeqProperties
  <1> QED
    BY <1>1, <1>3

\* A text with tokens added.
LEMMA Joined ==
  ASSUME NEW head \in Seq(Nat), NEW tail \in Seq(Nat)
  PROVE  /\ head \o tail \in Seq(Nat)
         /\ Len(head \o tail) = Len(head) + Len(tail)
         /\ \A i \in 1 .. Len(head) : (head \o tail)[i] = head[i]
         /\ \A i \in 1 .. Len(tail) : (head \o tail)[Len(head) + i] = tail[i]
  <1>1. Len(head) \in Nat /\ Len(tail) \in Nat
    BY LenProperties
  <1>2. /\ head \o tail \in Seq(Nat)
        /\ Len(head \o tail) = Len(head) + Len(tail)
        /\ \A i \in 1 .. Len(head) + Len(tail) :
             (head \o tail)[i] = IF i <= Len(head) THEN head[i] ELSE tail[i - Len(head)]
    BY ConcatProperties
  <1>3. ASSUME NEW i \in 1 .. Len(tail)
        PROVE  (head \o tail)[Len(head) + i] = tail[i]
    <2>1. /\ Len(head) + i \in 1 .. Len(head) + Len(tail)
          /\ ~ (Len(head) + i <= Len(head))
          /\ Len(head) + i - Len(head) = i
      BY <1>1
    <2> QED
      BY <1>2, <2>1
  <1>4. \A i \in 1 .. Len(head) : (head \o tail)[i] = head[i]
    BY <1>1, <1>2
  <1> QED
    BY <1>2, <1>3, <1>4

\* A text is what precedes its end, and its end.
LEMMA SplitText ==
  ASSUME NEW text \in Seq(Nat), NEW tail \in Seq(Nat), Len(tail) <= Len(text),
         \A i \in 1 .. Len(tail) : tail[i] = text[Len(text) - Len(tail) + i]
  PROVE  SubSeq(text, 1, Len(text) - Len(tail)) \o tail = text
  <1> DEFINE c == Len(text) - Len(tail)
             head == SubSeq(text, 1, c)
             new == head \o tail
  <1>1. Len(text) \in Nat /\ Len(tail) \in Nat /\ c \in 0 .. Len(text) /\ c + Len(tail) = Len(text)
    BY LenProperties
  <1>2. \A i \in 1 .. Len(tail) : tail[i] = text[c + i]
    OBVIOUS
  <1> HIDE DEF c
  <1>3. head \in Seq(Nat) /\ Len(head) = c /\ \A i \in 1 .. c : head[i] = text[i]
    BY <1>1, Prefix
  <1> HIDE DEF head
  <1>4. /\ new \in Seq(Nat)
        /\ Len(new) = Len(text)
        /\ \A i \in 1 .. c : new[i] = head[i]
        /\ \A i \in 1 .. Len(tail) : new[c + i] = tail[i]
    BY <1>1, <1>3, Joined
  <1> HIDE DEF new
  <1>5. ASSUME NEW i \in 1 .. Len(new)
        PROVE  new[i] = text[i]
    <2>1. CASE i <= c
      BY <1>1, <1>3, <1>4, <2>1
    <2>2. CASE i > c
      <3> DEFINE j == i - c
      <3>1. j \in 1 .. Len(tail) /\ c + j = i
        BY <1>1, <1>4, <2>2
      <3> HIDE DEF j
      <3>2. new[c + j] = tail[j] /\ tail[j] = text[c + j]
        BY <1>2, <1>4, <3>1
      <3> QED
        BY <3>1, <3>2
    <2> QED
      BY <1>1, <1>4, <2>1, <2>2
  <1>6. new = text
    BY <1>4, <1>5, SeqEqual
  <1> QED
    BY <1>6 DEF new, head, c

(***************************************************************************)
(* Layers, in a call of an API session.                                    *)
(***************************************************************************)

KeysType == [at : [Rows -> Int], low : Nat, high : Nat]

Passed(keys) ==
  /\ att' = [att EXCEPT ![layer] = keys]
  /\ layer' = layer + 1
  /\ UNCHANGED <<kind, toks, positions, lengthAfter, failed, failures>>

LEMMA AttendedSplit ==
  ASSUME NEW keys, Attended(keys)
  PROVE  Passed(keys) \/ Throws
  BY DEF Attended, Passed

\* The types of what a layer's end changes.
LEMMA AttendedType ==
  ASSUME Typed, InLayer, NEW keys \in KeysType, Attended(keys)
  PROVE  /\ kind' \in {"idle", "append", "positions"}
         /\ layer' \in 0 .. NumLayers + 1
         /\ kind' = "idle" <=> layer' = 0
         /\ toks' \in [Rows -> Seq(Nat)]
         /\ positions' \in [Rows -> -1 .. BlockSize - 1]
         /\ lengthAfter' \in 0 .. BlockSize
         /\ att' \in [Layers -> KeysType]
         /\ failed' \in BOOLEAN
         /\ failures' \in Nat
  <1> USE Ones
  <1>1. CASE Passed(keys)
    <2>1. layer' = layer + 1 /\ layer \in 1 .. NumLayers /\ kind' = kind /\ kind # "idle"
      BY <1>1 DEF Passed, InLayer, Layers
    <2>2. layer' \in 0 .. NumLayers + 1 /\ layer' # 0
      BY <2>1
    <2>3. att' \in [Layers -> KeysType]
      BY <1>1 DEF Passed, Typed, KeysType
    <2> QED
      BY <1>1, <2>1, <2>2, <2>3 DEF Passed, Typed
  <1>2. CASE Throws
    <2>1. NoTokens \in [Rows -> Seq(Nat)]
      BY DEF NoTokens
    <2>2. NoKeys \in KeysType
      BY DEF NoKeys, KeysType
    <2>3. layer' = 0 /\ kind' = "idle" /\ toks' = NoTokens /\ att' = [l \in Layers |-> NoKeys]
      BY <1>2 DEF Throws, Over
    <2>4. positions' = [b \in Rows |-> -1] /\ lengthAfter' = 0 /\ failed' = TRUE /\ failures' = failures + 1
      BY <1>2 DEF Throws, Over
    <2>5. positions' \in [Rows -> -1 .. BlockSize - 1]
      BY <2>4
    <2> QED
      BY <2>1, <2>2, <2>3, <2>4, <2>5 DEF Typed
  <1> QED
    BY <1>1, <1>2, AttendedSplit

\* What a call began with and its tokens are what its row was fed.
LEMMA CallWhole ==
  ASSUME Typed, CallTokens, mode # "batch", kind # "idle"
  PROVE  SubSeq(fed[1], 1, N - T) \o toks[1] = fed[1]
  <1>1. fed[1] \in Seq(Nat) /\ toks[1] \in Seq(Nat)
    BY Ones DEF Typed
  <1>2. Len(toks[1]) <= Len(fed[1])
    BY DEF CallTokens, N, T
  <1>3. \A i \in 1 .. Len(toks[1]) : toks[1][i] = fed[1][Len(fed[1]) - Len(toks[1]) + i]
    BY DEF CallTokens, N, T
  <1> QED
    BY <1>1, <1>2, <1>3, SplitText DEF N, T

\* A layer that moved its cursor to the end of the text and attended up to there, or threw
\* having done so or not, or a recurrent layer that absorbed the call's tokens.
LEMMA LayerDone ==
  ASSUME KVInv, InLayer, mode # "batch", mode' = mode, fed' = fed, NEW keys, Attended(keys),
         NEW k, layer = k,
         HasKV(layer) =>
           /\ keys.at[1] = N - T
           /\ keys.high = N
           /\ keys.low = IF Paged /\ N > BlockSize THEN N - BlockSize ELSE 0,
         \A l \in Layers : l # k => Cursor(l)' = Cursor(l),
         HasKV(k) => Cursor(k)' = N \/ (Throws /\ Cursor(k)' = Cursor(k)),
         \A l \in Recurrent : l # layer => absorbed'[l] = absorbed[l],
         Hybrid /\ layer \in Recurrent => absorbed'[layer] = absorbed[layer] \o toks[1]
  PROVE  CallTokens' /\ Cursors' /\ KeysGiven' /\ RecurrentInStep'
  <1> USE Ones
  <1>1. layer \in Layers /\ kind # "idle" /\ layer \in Nat /\ layer >= 1
    BY DEF InLayer, Layers
  <1>2. /\ CallTokens /\ Cursors /\ KeysGiven /\ RecurrentInStep /\ Typed
    BY DEF KVInv, ApiInv
  <1>3. kind = "append" /\ T \in 1 .. BlockSize /\ T <= N /\ N' = N /\ N \in Nat
    BY <1>1, <1>2 DEF CallTokens, N, Typed
  <1>4. /\ Paged' <=> Paged
        /\ Hybrid' <=> Hybrid
        /\ \A l : (HasKV(l)' <=> HasKV(l))
    BY SameMode
  <1>5. \A l \in Layers : HasKV(l) => Cursor(l) = IF l < layer THEN N ELSE N - T
    BY <1>1, <1>2 DEF Cursors
  <1>6. mode # "paged" => N <= BlockSize
    BY <1>2 DEF Cursors
  <1>7. CASE Passed(keys)
    <2>1. /\ kind' = kind /\ layer' = layer + 1 /\ T' = T /\ toks' = toks /\ failed' = failed
          /\ \A l \in Layers : l # layer => att'[l] = att[l]
          /\ att'[layer] = keys
      BY <1>1, <1>2, <1>7 DEF Passed, T, Typed
    <2>2. CallTokens'
      BY <1>1, <1>2, <1>3, <2>1 DEF CallTokens
    <2>3. \A l \in Layers : HasKV(l) => Cursor(l)' = IF l < layer' THEN N ELSE N - T
      <3> SUFFICES ASSUME NEW l \in Layers, HasKV(l)
                   PROVE  Cursor(l)' = IF l < layer' THEN N ELSE N - T
        OBVIOUS
      <3>1. CASE l = layer
        <4>1. ~Throws
          BY <1>1, <2>1 DEF Throws, Over
        <4>2. Cursor(l)' = N
          BY <3>1, <4>1
        <4>3. layer < layer'
          BY <1>1, <2>1
        <4> QED
          BY <3>1, <4>2, <4>3
      <3>2. CASE l # layer
        <4>1. l < layer' <=> l < layer
          BY <1>1, <2>1, <3>2 DEF Layers
        <4>2. Cursor(l)' = Cursor(l)
          BY <3>2
        <4> QED
          BY <1>5, <4>1, <4>2
      <3> QED
        BY <3>1, <3>2
    <2>4. Cursors'
      BY <1>1, <1>3, <1>4, <1>6, <2>1, <2>3 DEF Cursors
    <2>5. KeysGiven'
      <3> SUFFICES ASSUME NEW l \in Layers, HasKV(l), l < layer'
                   PROVE  /\ att'[l].at[1] = N - T
                          /\ att'[l].high = N
                          /\ att'[l].low = IF Paged /\ N > BlockSize THEN N - BlockSize ELSE 0
        BY <1>3, <1>4, <2>1 DEF KeysGiven
      <3>1. CASE l = layer
        BY <2>1, <3>1
      <3>2. CASE l # layer
        <4>1. l < layer
          BY <1>1, <2>1, <3>2 DEF Layers
        <4> QED
          BY <1>1, <1>2, <2>1, <3>2, <4>1 DEF KeysGiven
      <3> QED
        BY <3>1, <3>2
    <2>6. RecurrentInStep'
      <3> SUFFICES ASSUME Hybrid, ~failed, NEW l \in Recurrent
                   PROVE  absorbed'[l] = IF layer' <= l THEN SubSeq(fed[1], 1, N - T) ELSE fed[1]
        BY <1>1, <1>3, <1>4, <2>1 DEF RecurrentInStep, N
      <3>1. absorbed[l] = IF layer <= l THEN SubSeq(fed[1], 1, N - T) ELSE fed[1]
        BY <1>1, <1>2 DEF RecurrentInStep, N
      <3>2. l \in Layers
        BY LayersAssumption
      <3>3. CASE l = layer
        <4>1. absorbed'[layer] = absorbed[layer] \o toks[1]
          BY <3>3
        <4>2. layer <= layer /\ ~ (layer' <= layer)
          BY <1>1, <2>1
        <4>3. absorbed[layer] = SubSeq(fed[1], 1, N - T)
          BY <3>1, <3>3, <4>2
        <4>4. absorbed'[layer] = fed[1]
          BY <1>1, <1>2, <4>1, <4>3, CallWhole
        <4> QED
          BY <3>3, <4>2, <4>4
      <3>4. CASE l # layer
        <4>1. layer' <= l <=> layer <= l
          BY <1>1, <2>1, <3>2, <3>4 DEF Layers
        <4> QED
          BY <3>1, <3>4, <4>1
      <3> QED
        BY <3>3, <3>4
    <2> QED
      BY <2>2, <2>4, <2>5, <2>6
  <1>8. CASE Throws
    <2>1. kind' = "idle" /\ failed' = TRUE
      BY <1>8 DEF Throws, Over
    <2>2. CallTokens' /\ KeysGiven' /\ RecurrentInStep'
      BY <2>1 DEF CallTokens, KeysGiven, RecurrentInStep
    <2>3. \A l \in Layers : HasKV(l) => Cursor(l)' <= N
      <3> SUFFICES ASSUME NEW l \in Layers, HasKV(l)
                   PROVE  Cursor(l)' <= N
        OBVIOUS
      <3>1. Cursor(l) <= N
        BY <1>2 DEF Cursors
      <3>2. N <= N
        BY <1>3
      <3>3. CASE l = layer
        BY <3>1, <3>2, <3>3
      <3>4. CASE l # layer
        BY <3>1, <3>4
      <3> QED
        BY <3>3, <3>4
    <2>4. Cursors'
      BY <1>3, <1>4, <1>6, <2>1, <2>3 DEF Cursors
    <2> QED
      BY <2>2, <2>4
  <1> QED
    BY <1>7, <1>8, AttendedSplit

GraphType == [state : {"none", "ready", "failed"}, offset : 0 .. BlockSize]

\* What the layer reached needs to know of a call.
LEMMA InCall ==
  ASSUME KVInv, InLayer, mode # "batch", NEW k, layer = k
  PROVE  /\ k \in Layers /\ k \in Nat /\ k >= 1
         /\ kind = "append"
         /\ T \in 1 .. BlockSize /\ N \in Nat /\ T <= N /\ N - T \in Nat
         /\ mode # "paged" => N <= BlockSize
         /\ \A l \in Layers : HasKV(l) => Cursor(l) = IF l < k THEN N ELSE N - T
         /\ HasKV(k) => Cursor(k) = N - T
         /\ fed[1] \in Seq(Nat) /\ toks[1] \in Seq(Nat) /\ Len(fed[1]) = N /\ Len(toks[1]) = T
         /\ \A i \in 1 .. T : toks[1][i] = fed[1][N - T + i]
  <1> USE Ones
  <1>1. k \in Layers /\ kind # "idle" /\ k \in Nat /\ k >= 1
    BY DEF InLayer, Layers
  <1>2. CallTokens /\ Cursors /\ Typed
    BY DEF KVInv, ApiInv
  <1>3. fed[1] \in Seq(Nat) /\ toks[1] \in Seq(Nat) /\ Len(fed[1]) = N /\ Len(toks[1]) = T
    BY <1>2 DEF Typed, N, T
  <1>4. N \in Nat
    BY <1>3, LenProperties
  <1>5. /\ kind = "append" /\ T \in 1 .. BlockSize /\ T <= N
        /\ \A i \in 1 .. T : toks[1][i] = fed[1][N - T + i]
    BY <1>1, <1>2 DEF CallTokens
  <1>6. mode # "paged" => N <= BlockSize
    BY <1>2 DEF Cursors
  <1>7. \A l \in Layers : HasKV(l) => Cursor(l) = IF l < k THEN N ELSE N - T
    BY <1>1, <1>2 DEF Cursors
  <1>8. HasKV(k) => Cursor(k) = N - T
    BY <1>1, <1>7
  <1> QED
    BY <1>1, <1>3, <1>4, <1>5, <1>6, <1>7, <1>8

LEMMA EagerApi ==
  ASSUME KVInv, InLayer, mode # "batch", NEW k, layer = k, HasKV(k), ~Shares(k),
         NEW content \in [Rows -> [Slots -> Nat]],
         Holds(content[1], fed[1], N - T),
         EagerOn(content),
         mode' = mode, fed' = fed, UNCHANGED <<batchVars, serial>>,
         exec' \in [Layers -> GraphType]
  PROVE  KVInv'
  <1> USE Ones
  <1> DEFINE c == N - T
             at == AppendAt(k)
             keys == KeysOf(k, at)
  <1>1. /\ k \in Layers /\ kind = "append" /\ T \in 1 .. BlockSize /\ N \in Nat /\ T <= N /\ c \in Nat
        /\ mode # "paged" => N <= BlockSize
        /\ Cursor(k) = c
        /\ fed[1] \in Seq(Nat) /\ toks[1] \in Seq(Nat) /\ Len(fed[1]) = N /\ Len(toks[1]) = T
        /\ \A i \in 1 .. T : toks[1][i] = fed[1][c + i]
    BY InCall
  <1>2. Typed /\ PagedLengths /\ Content
    BY DEF KVInv, ApiInv
  <1>3. at = [b \in Rows |-> c]
    BY <1>1 DEF AppendAt
  <1>4. /\ slots' = [slots EXCEPT ![k] = Appended(content, at)]
        /\ length' = [length EXCEPT ![k] = LengthAfter(k)]
        /\ seen' = [seen EXCEPT ![k] = SeenAfter(k)]
        /\ Attended(keys)
        /\ absorbed' = absorbed
    BY DEF EagerOn
  <1> HIDE DEF c, at
  <1>5. /\ slots'[k][1] = Write(content[1], c, toks[1])
        /\ \A l \in Layers : l # k => slots'[l] = slots[l]
    BY <1>1, <1>2, <1>3, <1>4 DEF Typed, Appended
  <1>6. slots' \in [Layers -> [Rows -> [Slots -> Nat]]]
    <2>1. \A b \in Rows : Write(content[b], at[b], toks[b]) \in [Slots -> Nat]
      <3> SUFFICES ASSUME NEW b \in Rows
                   PROVE  Write(content[b], at[b], toks[b]) \in [Slots -> Nat]
        OBVIOUS
      <3>1. content[b] \in [Slots -> Nat] /\ at[b] \in Int /\ toks[b] \in Seq(Nat)
        BY <1>1, <1>2, <1>3 DEF Typed
      <3> QED
        BY <3>1, WriteType
    <2>2. Appended(content, at) \in [Rows -> [Slots -> Nat]]
      BY <2>1 DEF Appended
    <2> QED
      BY <1>2, <1>4, <2>2 DEF Typed
  <1>7. /\ LengthAfter(k) = IF Paged /\ N > BlockSize THEN BlockSize ELSE N
        /\ SeenAfter(k) = IF Paged THEN N ELSE seen[k]
    <2>0. c + T = N
      BY <1>1 DEF c
    <2>1. Paged => seen[k] + T = N
      BY <1>1, <2>0 DEF Cursor
    <2>2. ~Paged => length[k] + T = N
      BY <1>1, <2>0 DEF Cursor
    <2> QED
      BY <1>1, <2>1, <2>2 DEF LengthAfter, SeenAfter
  <1>8. ~Paged => N <= BlockSize
    BY <1>1 DEF Paged
  <1>9. LengthAfter(k) \in 0 .. BlockSize /\ SeenAfter(k) \in Nat
    BY <1>1, <1>2, <1>7, <1>8 DEF Typed
  <1>10. length' \in [Layers -> 0 .. BlockSize] /\ seen' \in [Layers -> Nat]
    BY <1>2, <1>4, <1>9 DEF Typed
  <1>11. /\ Cursor(k)' = N
         /\ \A l \in Layers : l # k => Cursor(l)' = Cursor(l)
    <2>1. Paged' <=> Paged
      BY SameMode
    <2>2. length'[k] = LengthAfter(k) /\ seen'[k] = SeenAfter(k)
      BY <1>1, <1>2, <1>4 DEF Typed
    <2>3. \A l \in Layers : l # k => length'[l] = length[l] /\ seen'[l] = seen[l]
      BY <1>2, <1>4 DEF Typed
    <2>4. Cursor(k)' = N
      BY <1>7, <2>1, <2>2 DEF Cursor
    <2> QED
      BY <2>1, <2>3, <2>4 DEF Cursor
  <1>12. /\ keys.at = at /\ keys.high = N
         /\ keys.low = IF Paged /\ N > BlockSize THEN N - BlockSize ELSE 0
    BY <1>1, <1>7 DEF KeysOf
  <1>13. keys \in KeysType
    <2>1. at \in [Rows -> Int]
      BY <1>1, <1>3
    <2>2. keys.low \in Nat /\ keys.high \in Nat
      BY <1>1, <1>12
    <2> QED
      BY <1>12, <2>1, <2>2 DEF KeysOf, KeysType
  <1>14. keys.at[1] = N - T
    BY <1>3, <1>12 DEF c
  <1> HIDE DEF keys
  <1>15. Hybrid => k \notin Recurrent
    BY DEF HasKV
  <1>16. CallTokens' /\ Cursors' /\ KeysGiven' /\ RecurrentInStep'
    BY <1>4, <1>11, <1>12, <1>14, <1>15, LayerDone
  <1>17. Content'
    <2> SUFFICES ASSUME NEW l \in Layers, HasKV(l), ~Shares(l)
                 PROVE  Holds(slots'[l][1], fed'[1], Cursor(l)')
      BY ContentNext
    <2>1. CASE l = k
      <3>1. Fit(c, toks[1])
        BY <1>1, <1>8 DEF Fit, c
      <3>2. content[1] \in [Slots -> Nat] /\ Holds(content[1], fed[1], c)
        BY DEF c
      <3>3. c <= N /\ N <= c + T /\ N = c + T
        BY <1>1 DEF c
      <3>4. Holds(Write(content[1], c, toks[1]), fed[1], Len(fed[1]))
        BY <1>1, <3>1, <3>2, <3>3, WriteHolds
      <3>5. Cursor(l)' = N
        BY <1>11, <2>1
      <3> QED
        BY <1>1, <1>5, <2>1, <3>4, <3>5
    <2>2. CASE l # k
      BY <1>2, <1>5, <1>11, <2>2 DEF Content
    <2> QED
      BY <2>1, <2>2
  <1>18. Typed'
    <2>1. /\ kind' \in {"idle", "append", "positions"}
          /\ layer' \in 0 .. NumLayers + 1
          /\ kind' = "idle" <=> layer' = 0
          /\ toks' \in [Rows -> Seq(Nat)]
          /\ positions' \in [Rows -> -1 .. BlockSize - 1]
          /\ lengthAfter' \in 0 .. BlockSize
          /\ att' \in [Layers -> KeysType]
          /\ failed' \in BOOLEAN
          /\ failures' \in Nat
      BY <1>2, <1>4, <1>13, AttendedType
    <2> QED
      BY <1>2, <1>4, <1>6, <1>10, <2>1 DEF Typed, KeysType, GraphType, batchVars
  <1>19. PagedLengths'
    <2>1. Paged' <=> Paged
      BY SameMode
    <2>2. length'[k] = LengthAfter(k) /\ seen'[k] = SeenAfter(k)
      BY <1>1, <1>2, <1>4 DEF Typed
    <2>3. \A l \in Layers : l # k => length'[l] = length[l] /\ seen'[l] = seen[l]
      BY <1>2, <1>4 DEF Typed
    <2>4. Paged => length'[k] = IF seen'[k] <= BlockSize THEN seen'[k] ELSE BlockSize
      BY <1>1, <1>7, <2>2
    <2> QED
      BY <1>2, <2>1, <2>3, <2>4 DEF PagedLengths
  <1> QED
    BY <1>16, <1>17, <1>18, <1>19, NoBatch DEF KVInv, ApiInv

\* Every graph replays with the offset of its own step.
AllRebound == Replay => Rebound = Layers

LEMMA ContentOwn ==
  ASSUME KVInv, InLayer, mode # "batch", NEW k, layer = k, HasKV(k), ~Shares(k)
  PROVE  Holds(slots[k][1], fed[1], N - T) /\ slots[k] \in [Rows -> [Slots -> Nat]]
  <1>1. k \in Layers /\ Cursor(k) = N - T
    BY InCall
  <1> QED
    BY <1>1 DEF KVInv, ApiInv, Content, Typed

LEMMA EagerApiStep ==
  ASSUME KVInv, mode # "batch", Eager
  PROVE  KVInv'
  <1> DEFINE k == layer
  <1>1. /\ InLayer /\ HasKV(k) /\ ~Shares(k) /\ EagerOn(slots[k])
        /\ mode' = mode /\ exec' = exec /\ fed' = fed /\ UNCHANGED <<batchVars, serial>>
    BY DEF Eager
  <1>2. exec' \in [Layers -> GraphType]
    BY <1>1 DEF KVInv, Typed, GraphType
  <1>3. ASSUME NEW l, layer = l
        PROVE  KVInv'
    <2>1. Holds(slots[l][1], fed[1], N - T) /\ slots[l] \in [Rows -> [Slots -> Nat]]
      BY <1>1, <1>3, ContentOwn
    <2> QED
      BY <1>1, <1>2, <1>3, <2>1, EagerApi
  <1> QED
    BY <1>3

\* What holds of a step that may turn to a graph.
LEMMA ReplayFacts ==
  ASSUME KVInv, InLayer, Replays, NEW k, layer = k
  PROVE  /\ mode = "regular" /\ mode # "batch" /\ ~Paged /\ HasKV(k) /\ k \in Layers
         /\ T = 1 /\ N <= BlockSize /\ N \in Nat /\ kind = "append"
         /\ length[k] = N - T /\ length[k] \in 0 .. BlockSize
         /\ AppendAt(k) = [b \in Rows |-> length[k]]
  <1>1. mode = "regular" /\ mode # "batch" /\ ~Paged /\ HasKV(k) /\ T = 1
    BY DEF Replays, Paged, HasKV, Hybrid
  <1>2. k \in Layers /\ Cursor(k) = N - T /\ N <= BlockSize /\ N \in Nat /\ kind = "append"
    BY <1>1, InCall
  <1>3. length[k] = N - T /\ length[k] \in 0 .. BlockSize
    BY <1>1, <1>2 DEF Cursor, KVInv, Typed
  <1>4. AppendAt(k) = [b \in Rows |-> length[k]]
    BY <1>1, <1>2 DEF AppendAt, Cursor
  <1> QED
    BY <1>1, <1>2, <1>3, <1>4

LEMMA CaptureStep ==
  ASSUME KVInv, Capture
  PROVE  KVInv'
  <1> SUFFICES ASSUME NEW k, layer = k
               PROVE  KVInv'
    OBVIOUS
  <1>1. /\ InLayer /\ ~Shares(k) /\ Replays /\ EagerOn(slots[k])
        /\ mode' = mode /\ fed' = fed /\ UNCHANGED <<batchVars, serial>>
    BY DEF Capture
  <1>2. /\ mode # "batch" /\ HasKV(k) /\ k \in Layers /\ length[k] \in 0 .. BlockSize
    BY <1>1, ReplayFacts
  <1>3. exec' \in [Layers -> GraphType]
    <2>1. exec \in [Layers -> GraphType]
      BY DEF KVInv, Typed, GraphType
    <2>2. Graph(length[k]) \in GraphType /\ FailedGraph \in GraphType
      BY <1>2, Ones DEF Graph, FailedGraph, GraphType
    <2>3. exec' = exec \/ \E g \in {Graph(length[k]), FailedGraph} : exec' = [exec EXCEPT ![k] = g]
      BY DEF Capture
    <2> QED
      BY <1>2, <2>1, <2>2, <2>3
  <1>4. Holds(slots[k][1], fed[1], N - T) /\ slots[k] \in [Rows -> [Slots -> Nat]]
    BY <1>1, <1>2, ContentOwn
  <1> QED
    BY <1>1, <1>2, <1>3, <1>4, EagerApi

\* A replay that binds the offset anew does what the layer does eagerly.
LEMMA ReplayIsEager ==
  ASSUME AllRebound, KVInv, ReplayGraph, NEW k, layer = k
  PROVE  EagerOn(slots[k])
  <1>1. /\ InLayer /\ Replays
        /\ slots' = [slots EXCEPT ![k] = Appended(slots[k], ReplayAt(k))]
        /\ length' = [length EXCEPT ![k] = LengthAfter(k)]
        /\ Attended([at |-> ReplayAt(k), low |-> 0, high |-> ReplayOffset(k) + 1])
        /\ seen' = seen /\ absorbed' = absorbed
    BY DEF ReplayGraph
  <1>2. /\ ~Paged /\ k \in Layers /\ T = 1 /\ kind = "append" /\ mode # "batch"
        /\ AppendAt(k) = [b \in Rows |-> length[k]]
    BY <1>1, ReplayFacts
  <1>3. ReplayOffset(k) = length[k]
    BY <1>1, <1>2 DEF AllRebound, Replays, ReplayOffset
  <1>4. ReplayAt(k) = AppendAt(k)
    BY <1>2, <1>3 DEF ReplayAt
  <1>5. KeysOf(k, AppendAt(k)) = [at |-> ReplayAt(k), low |-> 0, high |-> ReplayOffset(k) + 1]
    <2>1. LengthAfter(k) = length[k] + 1
      BY <1>2 DEF LengthAfter
    <2> QED
      BY <1>2, <1>3, <1>4, <2>1 DEF KeysOf
  <1>6. [seen EXCEPT ![k] = SeenAfter(k)] = seen
    BY <1>2 DEF SeenAfter, KVInv, Typed
  <1> QED
    BY <1>1, <1>4, <1>5, <1>6 DEF EagerOn

LEMMA ReplayGraphStep ==
  ASSUME AllRebound, KVInv, ReplayGraph
  PROVE  KVInv'
  <1> SUFFICES ASSUME NEW k, layer = k
               PROVE  KVInv'
    OBVIOUS
  <1>1. /\ InLayer /\ ~Shares(k) /\ Replays
        /\ mode' = mode /\ fed' = fed /\ exec' = exec /\ UNCHANGED <<batchVars, serial>>
    BY DEF ReplayGraph
  <1>2. /\ mode # "batch" /\ HasKV(k) /\ k \in Layers
    BY <1>1, ReplayFacts
  <1>3. exec' \in [Layers -> GraphType]
    BY <1>1 DEF KVInv, Typed, GraphType
  <1>4. Holds(slots[k][1], fed[1], N - T) /\ slots[k] \in [Rows -> [Slots -> Nat]]
    BY <1>1, <1>2, ContentOwn
  <1>5. EagerOn(slots[k])
    BY ReplayIsEager
  <1> QED
    BY <1>1, <1>2, <1>3, <1>4, <1>5, EagerApi

\* A replay that failed after its append left what the eager append writes again.
LEMMA ReplayFallbackStep ==
  ASSUME AllRebound, KVInv, ReplayFallback
  PROVE  KVInv'
  <1> SUFFICES ASSUME NEW k, layer = k
               PROVE  KVInv'
    OBVIOUS
  <1> DEFINE content == Appended(slots[k], ReplayAt(k))
  <1>1. /\ InLayer /\ ~Shares(k) /\ Replays
        /\ EagerOn(slots[k]) \/ EagerOn(content)
        /\ exec' = [exec EXCEPT ![k] = FailedGraph]
        /\ mode' = mode /\ fed' = fed /\ UNCHANGED <<batchVars, serial>>
    BY DEF ReplayFallback
  <1>2. /\ mode # "batch" /\ HasKV(k) /\ k \in Layers /\ ~Paged /\ T = 1 /\ N <= BlockSize /\ N \in Nat
        /\ length[k] = N - T /\ length[k] \in 0 .. BlockSize
    BY <1>1, ReplayFacts
  <1>3. exec' \in [Layers -> GraphType]
    <2>1. FailedGraph \in GraphType
      BY Ones DEF FailedGraph, GraphType
    <2> QED
      BY <1>1, <2>1 DEF KVInv, Typed, GraphType
  <1>4. Holds(slots[k][1], fed[1], N - T) /\ slots[k] \in [Rows -> [Slots -> Nat]]
    BY <1>1, <1>2, ContentOwn
  <1>5. ReplayAt(k) = [b \in Rows |-> length[k]]
    BY <1>1, <1>2 DEF AllRebound, Replays, ReplayOffset, ReplayAt
  <1>6. content \in [Rows -> [Slots -> Nat]]
    <2> SUFFICES ASSUME NEW b \in Rows
                 PROVE  Write(slots[k][b], ReplayAt(k)[b], toks[b]) \in [Slots -> Nat]
      BY DEF Appended
    <2>1. slots[k][b] \in [Slots -> Nat] /\ ReplayAt(k)[b] \in Int /\ toks[b] \in Seq(Nat)
      BY <1>2, <1>4, <1>5 DEF KVInv, Typed
    <2> QED
      BY <2>1, WriteType
  <1>7. Holds(content[1], fed[1], N - T)
    <2> DEFINE c == N - T
    <2>1. content[1] = Write(slots[k][1], c, toks[1])
      BY <1>2, <1>5, Ones DEF Appended
    <2>2. /\ fed[1] \in Seq(Nat) /\ toks[1] \in Seq(Nat) /\ Len(fed[1]) = N /\ Len(toks[1]) = T
          /\ \A i \in 1 .. T : toks[1][i] = fed[1][c + i]
          /\ T <= N
      BY <1>1, <1>2, InCall
    <2>3. c \in Nat /\ c + T = N /\ T <= BlockSize
      BY <1>2, <2>2, Ones
    <2>4. slots[k][1] \in [Slots -> Nat] /\ Holds(slots[k][1], fed[1], c)
      BY <1>4, Ones
    <2> HIDE DEF c
    <2>5. Fit(c, toks[1])
      BY <1>2, <2>2, <2>3 DEF Fit
    <2>a. /\ c <= Len(fed[1]) /\ Len(fed[1]) <= c + Len(toks[1])
          /\ \A i \in 1 .. Len(toks[1]) : c + i <= Len(fed[1]) => toks[1][i] = fed[1][c + i]
      BY <1>2, <2>2, <2>3
    <2>6. Holds(Write(slots[k][1], c, toks[1]), fed[1], Len(fed[1]))
      BY <1>2, <2>2, <2>4, <2>5, <2>a, WriteHolds
    <2>7. Holds(content[1], fed[1], N)
      BY <2>1, <2>2, <2>6
    <2>8. Holds(content[1], fed[1], c)
      BY <1>2, <2>3, <2>7, Ones DEF Holds
    <2> QED
      BY <2>8 DEF c
  <1> HIDE DEF content
  <1>8. CASE EagerOn(slots[k])
    BY <1>1, <1>2, <1>3, <1>4, <1>8, EagerApi
  <1>9. CASE EagerOn(content)
    BY <1>1, <1>2, <1>3, <1>6, <1>7, <1>9, EagerApi
  <1> QED
    BY <1>1, <1>8, <1>9

\* A layer that reads an earlier one's cache.
LEMMA SharedStep ==
  ASSUME KVInv, Shared
  PROVE  KVInv'
  <1> SUFFICES ASSUME NEW k, layer = k
               PROVE  KVInv'
    OBVIOUS
  <1> DEFINE source == Source[k]
             keys == [at |-> [b \in Rows |-> length[source] - T], low |-> 0, high |-> length[source]]
  <1>1. /\ InLayer /\ Shares(k) /\ Attended(keys)
        /\ length' = IF kind' = "idle" THEN length ELSE [length EXCEPT ![k] = length[source]]
        /\ mode' = mode /\ slots' = slots /\ seen' = seen /\ absorbed' = absorbed /\ exec' = exec
        /\ fed' = fed /\ UNCHANGED <<batchVars, serial>>
    BY DEF Shared
  <1>2. /\ mode = "regular" /\ mode # "batch" /\ ~Paged /\ ~Hybrid
        /\ \A l \in Layers : HasKV(l)
    BY <1>1 DEF Shares, Paged, HasKV, Hybrid
  <1>3. /\ k \in Layers /\ kind = "append" /\ N \in Nat /\ T \in 1 .. BlockSize /\ T <= N /\ N <= BlockSize
        /\ \A l \in Layers : Cursor(l) = IF l < k THEN N ELSE N - T
    BY <1>1, <1>2, InCall
  <1>4. source \in Layers /\ source < k
    BY <1>1, <1>3, LayersAssumption DEF Shares, Layers
  <1>5. length[source] = N
    BY <1>2, <1>3, <1>4 DEF Cursor
  <1>6. Typed /\ PagedLengths /\ Content
    BY DEF KVInv, ApiInv
  <1> HIDE DEF source
  <1>7. keys \in KeysType /\ keys.at[1] = N - T /\ keys.high = N /\ keys.low = 0
    BY <1>3, <1>5, Ones DEF KeysType
  <1>8. /\ \A l \in Layers : l # k => Cursor(l)' = Cursor(l)
        /\ Cursor(k)' = N \/ (Throws /\ Cursor(k)' = Cursor(k))
        /\ length' \in [Layers -> 0 .. BlockSize]
    <2>1. Paged' <=> Paged
      BY <1>1, SameMode
    <2>2. CASE kind' = "idle"
      <3>1. Throws
        BY <1>1, <1>3, <2>2, AttendedSplit DEF Passed
      <3> QED
        BY <1>1, <1>6, <2>1, <2>2, <3>1 DEF Cursor, Typed
    <2>3. CASE kind' # "idle"
      BY <1>1, <1>2, <1>3, <1>5, <1>6, <2>1, <2>3 DEF Cursor, Typed
    <2> QED
      BY <2>2, <2>3
  <1> HIDE DEF keys
  <1>9. CallTokens' /\ Cursors' /\ KeysGiven' /\ RecurrentInStep'
    BY <1>1, <1>2, <1>7, <1>8, LayerDone
  <1>10. Content'
    <2> SUFFICES ASSUME NEW l \in Layers, HasKV(l), ~Shares(l)
                 PROVE  Holds(slots'[l][1], fed'[1], Cursor(l)')
      BY <1>1, ContentNext
    <2>1. Cursor(l)' = Cursor(l)
      BY <1>1, <1>8
    <2> QED
      BY <1>1, <1>2, <1>6, <2>1 DEF Content
  <1>11. Typed'
    <2>1. /\ kind' \in {"idle", "append", "positions"}
          /\ layer' \in 0 .. NumLayers + 1
          /\ kind' = "idle" <=> layer' = 0
          /\ toks' \in [Rows -> Seq(Nat)]
          /\ positions' \in [Rows -> -1 .. BlockSize - 1]
          /\ lengthAfter' \in 0 .. BlockSize
          /\ att' \in [Layers -> KeysType]
          /\ failed' \in BOOLEAN
          /\ failures' \in Nat
      BY <1>1, <1>6, <1>7, AttendedType
    <2> QED
      BY <1>1, <1>6, <1>8, <2>1 DEF Typed, KeysType, batchVars
  <1>12. PagedLengths'
    BY <1>1, <1>2, SameMode DEF PagedLengths
  <1> QED
    BY <1>1, <1>2, <1>9, <1>10, <1>11, <1>12, NoBatch DEF KVInv, ApiInv

\* A recurrent layer.
LEMMA DeltaStep ==
  ASSUME KVInv, Delta
  PROVE  KVInv'
  <1> SUFFICES ASSUME NEW k, layer = k
               PROVE  KVInv'
    OBVIOUS
  <1>1. /\ InLayer /\ ~HasKV(k) /\ Attended(NoKeys)
        /\ absorbed' = [absorbed EXCEPT ![k] = @ \o toks[1]]
        /\ mode' = mode /\ slots' = slots /\ length' = length /\ seen' = seen /\ exec' = exec
        /\ fed' = fed /\ UNCHANGED <<batchVars, serial>>
    BY DEF Delta
  <1>2. mode # "batch" /\ Hybrid /\ k \in Recurrent
    BY <1>1 DEF HasKV, Hybrid
  <1>3. k \in Layers /\ toks[1] \in Seq(Nat)
    BY <1>1, <1>2, InCall
  <1>4. Typed /\ PagedLengths /\ Content
    BY DEF KVInv, ApiInv
  <1>5. \A l \in Layers : Cursor(l)' = Cursor(l)
    BY <1>1, SameMode DEF Cursor
  <1>6. NoKeys \in KeysType
    BY DEF NoKeys, KeysType
  <1>7. /\ absorbed' \in [Layers -> Seq(Nat)]
        /\ absorbed'[k] = absorbed[k] \o toks[1]
        /\ \A l \in Layers : l # k => absorbed'[l] = absorbed[l]
    <2>1. absorbed[k] \in Seq(Nat)
      BY <1>3, <1>4 DEF Typed
    <2>2. absorbed[k] \o toks[1] \in Seq(Nat)
      BY <1>3, <2>1, ConcatProperties
    <2> QED
      BY <1>1, <1>3, <1>4, <2>2 DEF Typed
  <1>8. CallTokens' /\ Cursors' /\ KeysGiven' /\ RecurrentInStep'
    <2>1. \A l \in Recurrent : l # layer => absorbed'[l] = absorbed[l]
      BY <1>7, LayersAssumption
    <2> QED
      BY <1>1, <1>2, <1>5, <1>7, <2>1, LayerDone
  <1>9. Content'
    <2> SUFFICES ASSUME NEW l \in Layers, HasKV(l), ~Shares(l)
                 PROVE  Holds(slots'[l][1], fed'[1], Cursor(l)')
      BY <1>1, ContentNext
    <2>1. Cursor(l)' = Cursor(l)
      BY <1>5
    <2> QED
      BY <1>1, <1>2, <1>4, <2>1 DEF Content
  <1>10. Typed'
    <2>1. /\ kind' \in {"idle", "append", "positions"}
          /\ layer' \in 0 .. NumLayers + 1
          /\ kind' = "idle" <=> layer' = 0
          /\ toks' \in [Rows -> Seq(Nat)]
          /\ positions' \in [Rows -> -1 .. BlockSize - 1]
          /\ lengthAfter' \in 0 .. BlockSize
          /\ att' \in [Layers -> KeysType]
          /\ failed' \in BOOLEAN
          /\ failures' \in Nat
      BY <1>1, <1>4, <1>6, AttendedType
    <2> QED
      BY <1>1, <1>4, <1>7, <2>1 DEF Typed, KeysType, batchVars
  <1>11. PagedLengths'
    BY <1>1, <1>4, SameMode DEF PagedLengths
  <1> QED
    BY <1>1, <1>2, <1>8, <1>9, <1>10, <1>11, NoBatch DEF KVInv, ApiInv

\* The types of a call that is over.
LEMMA OverType ==
  ASSUME Over
  PROVE  /\ kind' = "idle" /\ layer' = 0
         /\ toks' \in [Rows -> Seq(Nat)]
         /\ positions' \in [Rows -> -1 .. BlockSize - 1]
         /\ lengthAfter' \in 0 .. BlockSize
         /\ att' \in [Layers -> KeysType]
  <1> USE Ones
  <1>1. NoTokens \in [Rows -> Seq(Nat)] /\ NoKeys \in KeysType
    BY DEF NoTokens, NoKeys, KeysType
  <1>2. [b \in Rows |-> -1] \in [Rows -> -1 .. BlockSize - 1]
    OBVIOUS
  <1> QED
    BY <1>1, <1>2 DEF Over

LEMMA ThrowStep ==
  ASSUME KVInv, ThrowBefore
  PROVE  KVInv'
  <1>1. /\ mode # "batch" /\ kind # "idle" /\ Over /\ failed' = TRUE /\ failures' = failures + 1
        /\ mode' = mode /\ slots' = slots /\ length' = length /\ seen' = seen /\ absorbed' = absorbed
        /\ exec' = exec /\ fed' = fed /\ UNCHANGED <<batchVars, serial>>
    BY DEF ThrowBefore, Throws, cacheVars
  <1>2. Typed /\ PagedLengths /\ Content /\ Cursors
    BY DEF KVInv, ApiInv
  <1>3. kind' = "idle"
    BY <1>1 DEF Over
  <1>4. CallTokens' /\ KeysGiven' /\ RecurrentInStep'
    BY <1>1, <1>3 DEF CallTokens, KeysGiven, RecurrentInStep
  <1>5. \A l \in Layers : Cursor(l)' = Cursor(l)
    BY <1>1, SameMode DEF Cursor
  <1>6. Cursors'
    <2>1. N' = N /\ \A l : (HasKV(l)' <=> HasKV(l))
      BY <1>1, SameMode DEF N
    <2> QED
      BY <1>1, <1>2, <1>3, <1>5, <2>1 DEF Cursors
  <1>7. Content'
    <2> SUFFICES ASSUME NEW l \in Layers, HasKV(l), ~Shares(l)
                 PROVE  Holds(slots'[l][1], fed'[1], Cursor(l)')
      BY <1>1, ContentNext
    <2>1. Cursor(l)' = Cursor(l)
      BY <1>5
    <2> QED
      BY <1>1, <1>2, <2>1 DEF Content
  <1>8. Typed'
    <2>1. /\ kind' \in {"idle", "append", "positions"}
          /\ layer' \in 0 .. NumLayers + 1
          /\ kind' = "idle" <=> layer' = 0
          /\ toks' \in [Rows -> Seq(Nat)]
          /\ positions' \in [Rows -> -1 .. BlockSize - 1]
          /\ lengthAfter' \in 0 .. BlockSize
          /\ att' \in [Layers -> KeysType]
      BY <1>1, OverType, Ones
    <2>2. failed' \in BOOLEAN /\ failures' \in Nat
      BY <1>1, <1>2 DEF Typed
    <2> QED
      BY <1>1, <1>2, <2>1, <2>2 DEF Typed, KeysType, batchVars
  <1>9. PagedLengths'
    BY <1>1, <1>2, SameMode DEF PagedLengths
  <1> QED
    BY <1>1, <1>4, <1>6, <1>7, <1>8, <1>9, NoBatch DEF KVInv, ApiInv

LEMMA ReturnApiStep ==
  ASSUME KVInv, mode # "batch", Return
  PROVE  KVInv'
  <1> USE Ones
  <1>1. /\ kind # "idle" /\ layer = NumLayers + 1 /\ Over
        /\ mode' = mode /\ slots' = slots /\ length' = length /\ seen' = seen /\ absorbed' = absorbed
        /\ exec' = exec /\ fed' = fed /\ UNCHANGED <<batchVars, serial>>
        /\ failed' = failed /\ failures' = failures
    BY DEF Return, cacheVars, historyVars
  <1>2. Typed /\ PagedLengths /\ Content /\ Cursors /\ CallTokens /\ RecurrentInStep
    BY DEF KVInv, ApiInv
  <1>3. kind' = "idle"
    BY <1>1 DEF Over
  <1>4. CallTokens' /\ KeysGiven'
    BY <1>3 DEF CallTokens, KeysGiven
  <1>5. \A l \in Layers : Cursor(l)' = Cursor(l)
    BY <1>1, SameMode DEF Cursor
  <1>6. \A l \in Layers : l < layer /\ ~ (layer <= l)
    BY <1>1 DEF Layers
  <1>7. N' = N /\ (\A l : (HasKV(l)' <=> HasKV(l))) /\ (Hybrid' <=> Hybrid)
    BY <1>1, SameMode DEF N
  <1>8. Cursors'
    BY <1>1, <1>2, <1>3, <1>5, <1>6, <1>7 DEF Cursors
  <1>9. RecurrentInStep'
    BY <1>1, <1>2, <1>3, <1>6, <1>7, LayersAssumption DEF RecurrentInStep
  <1>10. Content'
    <2> SUFFICES ASSUME NEW l \in Layers, HasKV(l), ~Shares(l)
                 PROVE  Holds(slots'[l][1], fed'[1], Cursor(l)')
      BY <1>1, ContentNext
    <2>1. Cursor(l)' = Cursor(l)
      BY <1>5
    <2> QED
      BY <1>1, <1>2, <2>1 DEF Content
  <1>11. Typed'
    <2>1. /\ kind' \in {"idle", "append", "positions"}
          /\ layer' \in 0 .. NumLayers + 1
          /\ kind' = "idle" <=> layer' = 0
          /\ toks' \in [Rows -> Seq(Nat)]
          /\ positions' \in [Rows -> -1 .. BlockSize - 1]
          /\ lengthAfter' \in 0 .. BlockSize
          /\ att' \in [Layers -> KeysType]
      BY <1>1, OverType, Ones
    <2>2. failed' \in BOOLEAN /\ failures' \in Nat
      BY <1>1, <1>2 DEF Typed
    <2> QED
      BY <1>1, <1>2, <2>1, <2>2 DEF Typed, KeysType, batchVars
  <1>12. PagedLengths'
    BY <1>1, <1>2, SameMode DEF PagedLengths
  <1> QED
    BY <1>1, <1>4, <1>8, <1>9, <1>10, <1>11, <1>12, NoBatch DEF KVInv, ApiInv

(***************************************************************************)
(* Between calls, in an API session.                                       *)
(***************************************************************************)

\* Caches that were reset hold nothing of the text, which is empty.
LEMMA ResetStep ==
  ASSUME KVInv, Reset
  PROVE  KVInv'
  <1> USE Ones
  <1>1. /\ mode # "batch" /\ kind = "idle" /\ kind' = kind /\ failed' = FALSE
        /\ length' = [l \in Layers |-> 0] /\ seen' = [l \in Layers |-> 0]
        /\ absorbed' = [l \in Layers |-> << >>] /\ fed' = NoTokens
        /\ mode' = mode /\ slots' = slots /\ exec' = exec
        /\ UNCHANGED <<layer, toks, positions, lengthAfter, att, batchVars, failures, serial>>
    BY DEF Reset, ZeroStates, callVars
  <1>2. Typed
    BY DEF KVInv
  <1>3. Typed'
    <2>1. /\ length' \in [Layers -> 0 .. BlockSize] /\ seen' \in [Layers -> Nat]
          /\ absorbed' \in [Layers -> Seq(Nat)] /\ fed' \in [Rows -> Seq(Nat)]
      BY <1>1 DEF NoTokens
    <2> QED
      BY <1>1, <1>2, <2>1 DEF Typed, batchVars
  <1>4. PagedLengths'
    BY <1>1 DEF PagedLengths
  <1>5. fed'[1] = << >> /\ N' = 0
    BY <1>1 DEF NoTokens, N
  <1>6. \A l \in Layers : Cursor(l)' = 0
    BY <1>1 DEF Cursor
  <1>7. CallTokens' /\ KeysGiven' /\ Cursors'
    BY <1>1, <1>5, <1>6 DEF CallTokens, KeysGiven, Cursors
  <1>8. RecurrentInStep'
    BY <1>1, <1>5, LayersAssumption DEF RecurrentInStep
  <1>9. Content'
    <2> SUFFICES ASSUME NEW l \in Layers
                 PROVE  Holds(slots'[l][1], fed'[1], Cursor(l)')
      BY <1>1, ContentNext
    <2>1. Cursor(l)' = 0
      BY <1>6
    <2> QED
      BY <2>1 DEF Holds
  <1> QED
    BY <1>1, <1>3, <1>4, <1>7, <1>8, <1>9, NoBatch DEF KVInv, ApiInv

\* Caches that were taken back hold the shorter text.
LEMMA RewindStep ==
  ASSUME KVInv, NEW n \in 1 .. BlockSize, Rewind(n)
  PROVE  KVInv'
  <1> USE Ones
  <1> DEFINE text == SubSeq(fed[1], 1, n)
  <1>1. /\ mode = "regular" /\ mode # "batch" /\ kind = "idle" /\ ~failed /\ n \in 1 .. Len(fed[1])
        /\ length' = [l \in Layers |-> n] /\ fed' = [fed EXCEPT ![1] = text]
        /\ mode' = mode /\ slots' = slots /\ seen' = seen /\ absorbed' = absorbed /\ exec' = exec
        /\ kind' = kind /\ failed' = failed
        /\ UNCHANGED <<layer, toks, positions, lengthAfter, att, batchVars, failures, serial>>
    BY DEF Rewind, callVars
  <1>2. Typed /\ Cursors /\ Content
    BY DEF KVInv, ApiInv
  <1>3. ~Paged /\ ~Hybrid /\ \A l \in Layers : HasKV(l)
    BY <1>1 DEF Paged, Hybrid, HasKV
  <1>4. fed[1] \in Seq(Nat) /\ N = Len(fed[1]) /\ N \in Nat
    BY <1>2 DEF Typed, N
  <1>5. N <= BlockSize /\ \A l \in Layers : Cursor(l) = N
    BY <1>1, <1>2, <1>3 DEF Cursors
  <1>6. text \in Seq(Nat) /\ Len(text) = n /\ \A i \in 1 .. n : text[i] = fed[1][i]
    <2>1. n \in 0 .. Len(fed[1])
      BY <1>1, <1>4
    <2> QED
      BY <1>4, <2>1, Prefix
  <1> HIDE DEF text
  <1>7. fed' \in [Rows -> Seq(Nat)] /\ fed'[1] = text /\ N' = n
    BY <1>1, <1>2, <1>6 DEF Typed, N
  <1>8. Typed'
    <2>1. length' \in [Layers -> 0 .. BlockSize]
      BY <1>1
    <2> QED
      BY <1>1, <1>2, <1>7, <2>1 DEF Typed, batchVars
  <1>9. PagedLengths' /\ RecurrentInStep'
    BY <1>1, <1>3, SameMode DEF PagedLengths, RecurrentInStep
  <1>10. \A l \in Layers : Cursor(l)' = n
    BY <1>1, <1>3, SameMode DEF Cursor
  <1>11. CallTokens' /\ KeysGiven' /\ Cursors'
    BY <1>1, <1>7, <1>10 DEF CallTokens, KeysGiven, Cursors
  <1>12. Content'
    <2> SUFFICES ASSUME NEW l \in Layers, HasKV(l), ~Shares(l)
                 PROVE  Holds(slots'[l][1], fed'[1], Cursor(l)')
      BY <1>1, ContentNext
    <2>1. Cursor(l)' = n /\ Cursor(l) = N
      BY <1>5, <1>10
    <2>2. Holds(slots[l][1], fed[1], N)
      BY <1>1, <1>2, <2>1 DEF Content
    <2> SUFFICES ASSUME NEW p \in 0 .. n - 1
                 PROVE  slots[l][1][Place(p)] = text[p + 1]
      BY <1>1, <1>7, <2>1 DEF Holds
    <2>3. p \in 0 .. N - 1 /\ p + BlockSize >= N /\ p + 1 \in 1 .. n
      BY <1>1, <1>4, <1>5
    <2> QED
      BY <1>6, <2>2, <2>3 DEF Holds
  <1> QED
    BY <1>1, <1>8, <1>9, <1>11, <1>12, NoBatch DEF KVInv, ApiInv

\* A call is let in where all its caches stand, whatever they were fed beyond that.
LEMMA CallStep ==
  ASSUME KVInv, NEW n \in 1 .. BlockSize, Call(n)
  PROVE  KVInv'
  <1> USE Ones
  <1>1. PICK start \in 0 .. MaxTokens :
          /\ StandsAt(start)
          /\ Fits(start, n)
          /\ LET new == [i \in 1 .. n |-> serial + i]
             IN  /\ toks' = OnlyRow(new)
                 /\ fed' = [fed EXCEPT ![1] = SubSeq(@, 1, start) \o new]
    BY DEF Call
  <1> DEFINE new == [i \in 1 .. n |-> serial + i]
             head == SubSeq(fed[1], 1, start)
             text == head \o new
  <1>2. /\ mode # "batch" /\ kind = "idle" /\ kind' = "append" /\ layer' = 1 /\ serial' = serial + n
        /\ mode' = mode /\ slots' = slots /\ length' = length /\ seen' = seen /\ absorbed' = absorbed
        /\ exec' = exec /\ failed' = failed
        /\ UNCHANGED <<positions, lengthAfter, att, batchVars, failures>>
    BY DEF Call, cacheVars
  <1>3. Typed /\ PagedLengths /\ Cursors /\ Content /\ RecurrentInStep
    BY DEF KVInv, ApiInv
  <1>4. fed[1] \in Seq(Nat) /\ N = Len(fed[1]) /\ N \in Nat /\ start \in Nat /\ n \in Nat /\ serial \in Nat
    BY <1>3, SizesAssumption DEF Typed, N
  <1>5. start <= N /\ (~failed => start = N)
    <2>1. PICK l \in Layers : HasKV(l)
      BY LayersAssumption DEF HasKV
    <2>2. Cursor(l) = start
      BY <1>1, <2>1 DEF StandsAt
    <2> QED
      BY <1>2, <1>3, <2>1, <2>2 DEF Cursors
  <1>6. new \in Seq(Nat) /\ Len(new) = n
    BY <1>4
  <1>7. toks' = OnlyRow(new) /\ fed' = [fed EXCEPT ![1] = text]
    BY <1>1
  <1> HIDE DEF new
  <1>8. head \in Seq(Nat) /\ Len(head) = start /\ \A i \in 1 .. start : head[i] = fed[1][i]
    <2>1. start \in 0 .. Len(fed[1])
      BY <1>4, <1>5
    <2> QED
      BY <1>4, <2>1, Prefix
  <1> HIDE DEF head
  <1>9. /\ text \in Seq(Nat) /\ Len(text) = start + n
        /\ \A i \in 1 .. start : text[i] = head[i]
        /\ \A i \in 1 .. n : text[start + i] = new[i]
    BY <1>6, <1>8, Joined
  <1> HIDE DEF text
  <1>10. /\ toks' \in [Rows -> Seq(Nat)] /\ fed' \in [Rows -> Seq(Nat)]
         /\ fed'[1] = text /\ toks'[1] = new /\ N' = start + n /\ T' = n
         /\ \A b \in Rows : b # 1 => toks'[b] = << >>
    <2>1. << >> \in Seq(Nat)
      OBVIOUS
    <2>2. toks' \in [Rows -> Seq(Nat)] /\ toks'[1] = new /\ \A b \in Rows : b # 1 => toks'[b] = << >>
      BY <1>6, <1>7, <2>1 DEF OnlyRow
    <2>3. fed' \in [Rows -> Seq(Nat)] /\ fed'[1] = text
      BY <1>3, <1>7, <1>9 DEF Typed
    <2> QED
      BY <1>6, <1>9, <2>2, <2>3 DEF N, T
  <1>11. Typed'
    <2>1. /\ kind' \in {"idle", "append", "positions"}
          /\ layer' \in 0 .. NumLayers + 1
          /\ kind' = "idle" <=> layer' = 0
          /\ serial' \in Nat
      BY <1>2, <1>4
    <2>2. toks' \in [Rows -> Seq(Nat)] /\ fed' \in [Rows -> Seq(Nat)]
      BY <1>10
    <2> QED
      BY <1>2, <1>3, <2>1, <2>2 DEF Typed, batchVars
  <1>12. PagedLengths' /\ KeysGiven'
    BY <1>2, <1>3, SameMode DEF PagedLengths, KeysGiven, Layers
  <1>13. CallTokens'
    <2> SUFFICES ASSUME NEW i \in 1 .. n
                 PROVE  new[i] = text[start + n - n + i]
      BY <1>2, <1>4, <1>10 DEF CallTokens
    <2>1. start + n - n + i = start + i
      BY <1>4
    <2> QED
      BY <1>9, <2>1
  <1>14. \A l \in Layers : HasKV(l) => Cursor(l)' = start
    BY <1>1, <1>2, SameMode DEF StandsAt, Cursor
  <1>15. Cursors'
    <2>1. (\A l : (HasKV(l)' <=> HasKV(l))) /\ (mode # "paged" => start + n <= BlockSize)
      BY <1>1, <1>2, SameMode DEF Fits
    <2>2. start + n - n = start /\ start <= start + n
      BY <1>4
    <2>3. \A l \in Layers : ~ (l < 1)
      BY DEF Layers
    <2> QED
      BY <1>2, <1>10, <1>14, <2>1, <2>2, <2>3 DEF Cursors
  <1>16. Content'
    <2> SUFFICES ASSUME NEW l \in Layers, HasKV(l), ~Shares(l)
                 PROVE  Holds(slots'[l][1], fed'[1], Cursor(l)')
      BY <1>2, ContentNext
    <2>1. Cursor(l)' = start /\ Cursor(l) = start
      BY <1>1, <1>14 DEF StandsAt
    <2>2. Holds(slots[l][1], fed[1], start)
      BY <1>2, <1>3, <2>1 DEF Content
    <2> SUFFICES ASSUME NEW p \in 0 .. start - 1, p + BlockSize >= start
                 PROVE  slots[l][1][Place(p)] = text[p + 1]
      BY <1>2, <1>10, <2>1 DEF Holds
    <2>3. p + 1 \in 1 .. start
      BY <1>4
    <2> QED
      BY <1>8, <1>9, <2>2, <2>3 DEF Holds
  <1>17. RecurrentInStep'
    <2> SUFFICES ASSUME Hybrid, ~failed, NEW l \in Recurrent
                 PROVE  absorbed[l] = SubSeq(text, 1, start + n - n)
      <3>1. \A l \in Recurrent : 1 <= l
        BY LayersAssumption DEF Layers
      <3>2. Len(fed'[1]) - T' = start + n - n
        BY <1>10 DEF N
      <3>3. (Hybrid' <=> Hybrid) /\ failed' = failed
        BY <1>2, SameMode
      <3>4. Hybrid /\ ~failed => \A l \in Recurrent :
              absorbed'[l] = SubSeq(fed'[1], 1, Len(fed'[1]) - T')
        BY <1>2, <1>10, <3>2
      <3>5. kind' # "idle" /\ \A l \in Recurrent : layer' <= l
        BY <1>2, <3>1
      <3> QED
        BY <3>3, <3>4, <3>5 DEF RecurrentInStep
    <2>1. absorbed[l] = fed[1] /\ start = N /\ start + n - n = start
      BY <1>2, <1>3, <1>4, <1>5 DEF RecurrentInStep
    <2> DEFINE cut == SubSeq(text, 1, start)
    <2>2. cut \in Seq(Nat) /\ Len(cut) = start /\ \A i \in 1 .. start : cut[i] = text[i]
      <3>1. start \in 0 .. Len(text)
        BY <1>4, <1>9
      <3> QED
        BY <1>9, <3>1, Prefix
    <2> HIDE DEF cut
    <2>3. \A i \in 1 .. Len(cut) : cut[i] = fed[1][i]
      BY <1>8, <1>9, <2>2
    <2>a. Len(cut) = Len(fed[1])
      BY <1>4, <2>1, <2>2
    <2>4. cut = fed[1]
      BY <1>4, <2>2, <2>3, <2>a, SeqEqual
    <2> QED
      BY <2>1, <2>4 DEF cut
  <1> QED
    BY <1>2, <1>11, <1>12, <1>13, <1>15, <1>16, <1>17, NoBatch DEF KVInv, ApiInv

(***************************************************************************)
(* Batches.                                                                *)
(***************************************************************************)

\* The padded prompts of generate_batch begin on empty caches.
LEMMA PromptsStep ==
  ASSUME KVInv, NEW lens \in [Rows -> 1 .. MaxPrompt], Prompts(lens)
  PROVE  KVInv'
  <1> USE Ones
  <1>1. PICK longest \in 1 .. MaxPrompt :
          /\ \A b \in Rows : lens[b] <= longest
          /\ toks' = [b \in Rows |->
                        [i \in 1 .. longest |-> IF i <= lens[b] THEN BatchToken(b, i) ELSE 0]]
    BY DEF Prompts
  <1>2. /\ mode = "batch" /\ kind = "idle" /\ (\A b \in Rows : rowLength[b] = 0)
        /\ fed' = [b \in Rows |-> [i \in 1 .. lens[b] |-> BatchToken(b, i)]]
        /\ mask' = [b \in Rows |-> 0 .. lens[b] - 1]
        /\ rowLength' = lens /\ kind' = "append" /\ layer' = 1
        /\ mode' = mode /\ slots' = slots /\ length' = length /\ seen' = seen /\ absorbed' = absorbed
        /\ exec' = exec
        /\ UNCHANGED <<positions, lengthAfter, att, active, failed, failures, serial>>
    BY DEF Prompts, cacheVars
  <1>3. Typed /\ PagedLengths /\ BatchStart
    BY DEF KVInv, BatchInv
  <1>4. MaxPrompt \in 1 .. BlockSize /\ longest \in 1 .. BlockSize /\ longest \in Nat
    BY SizesAssumption
  <1>5. \A b \in Rows : lens[b] \in 1 .. longest /\ lens[b] \in 1 .. BlockSize
    BY <1>1, <1>4
  <1>6. \A b \in Rows, i \in 1 .. longest : BatchToken(b, i) \in Nat
    <2> SUFFICES ASSUME NEW b \in Rows, NEW i \in 1 .. longest
                 PROVE  BatchToken(b, i) \in Nat
      OBVIOUS
    <2>1. b \in Nat /\ NumRows \in Nat \ {0} /\ i - 1 \in Int /\ i - 1 >= 0
      BY <1>4, SizesAssumption DEF Rows
    <2>2. NumRows * (i - 1) >= NumRows * 0 /\ NumRows * (i - 1) \in Int /\ NumRows * 0 = 0
      BY <2>1, Times
    <2>3. (i - 1) * NumRows = NumRows * (i - 1)
      BY <2>1
    <2> QED
      BY <2>1, <2>2, <2>3 DEF BatchToken
  <1>7. \A b \in Rows :
          /\ toks'[b] \in Seq(Nat) /\ Len(toks'[b]) = longest
          /\ fed'[b] \in Seq(Nat) /\ Len(fed'[b]) = lens[b]
          /\ \A i \in 1 .. lens[b] : toks'[b][i] = fed'[b][i]
    <2> SUFFICES ASSUME NEW b \in Rows
                 PROVE  /\ toks'[b] \in Seq(Nat) /\ Len(toks'[b]) = longest
                        /\ fed'[b] \in Seq(Nat) /\ Len(fed'[b]) = lens[b]
                        /\ \A i \in 1 .. lens[b] : toks'[b][i] = fed'[b][i]
      OBVIOUS
    <2>1. toks'[b] = [i \in 1 .. longest |-> IF i <= lens[b] THEN BatchToken(b, i) ELSE 0]
      BY <1>1
    <2>2. fed'[b] = [i \in 1 .. lens[b] |-> BatchToken(b, i)]
      BY <1>2
    <2>3. lens[b] \in 1 .. longest /\ lens[b] \in Nat
      BY <1>4, <1>5
    <2>4. toks'[b] \in Seq(Nat) /\ Len(toks'[b]) = longest
      BY <1>4, <1>6, <2>1, SMTT(60)
    <2>5. fed'[b] \in Seq(Nat) /\ Len(fed'[b]) = lens[b]
      <3>1. \A i \in 1 .. lens[b] : BatchToken(b, i) \in Nat
        BY <1>4, <1>6, <2>3
      <3> QED
        BY <2>2, <2>3, <3>1
    <2>6. \A i \in 1 .. lens[b] : toks'[b][i] = fed'[b][i]
      BY <1>4, <2>1, <2>2, <2>3
    <2> QED
      BY <2>4, <2>5, <2>6
  <1>8. T' = longest
    BY <1>7 DEF T
  <1>9. Typed'
    <2>1. toks' \in [Rows -> Seq(Nat)]
      BY <1>1, <1>7
    <2>2. fed' \in [Rows -> Seq(Nat)]
      BY <1>2, <1>7
    <2>3. rowLength' \in [Rows -> 0 .. BlockSize] /\ mask' \in [Rows -> SUBSET (0 .. BlockSize - 1)]
      BY <1>2, <1>5
    <2>4. /\ kind' \in {"idle", "append", "positions"}
          /\ layer' \in 0 .. NumLayers + 1
          /\ kind' = "idle" <=> layer' = 0
      BY <1>2
    <2> QED
      BY <1>2, <1>3, <2>1, <2>2, <2>3, <2>4 DEF Typed
  <1>10. PagedLengths'
    BY <1>2 DEF PagedLengths, Paged
  <1>11. BatchRows'
    BY <1>2, <1>7 DEF BatchRows
  <1>12. BatchPrompt'
    <2>1. \A l \in Layers : length[l] = 0 /\ ~ (l < 1)
      BY <1>2, <1>3 DEF BatchStart, Layers
    <2>2. \A b \in Rows : Len(fed'[b]) \in 1 .. longest
      BY <1>5, <1>7
    <2>3. \A b \in Rows : \A i \in 1 .. Len(fed'[b]) : toks'[b][i] = fed'[b][i]
      BY <1>7
    <2> QED
      BY <1>2, <1>4, <1>7, <1>8, <2>1, <2>2, <2>3 DEF BatchPrompt
  <1>13. BatchStep' /\ BatchStart'
    <2>1. rowLength'[1] # 0
      BY <1>2, <1>5
    <2> QED
      BY <1>2, <2>1 DEF BatchStep, BatchStart
  <1>14. BatchContent'
    <2> SUFFICES ASSUME NEW l \in Layers, NEW b \in Rows
                 PROVE  Holds(slots'[l][b], fed'[b], Len(fed'[b]) - Missing(l, b)')
      BY <1>2, BatchContentNext
    <2>1. OwnTokens(b)' = Len(fed'[b])
      BY <1>2 DEF OwnTokens
    <2>2. Missing(l, b)' = Len(fed'[b])
      BY <1>2, <2>1 DEF Missing, Layers
    <2>3. Len(fed'[b]) - Missing(l, b)' = 0
      BY <1>5, <1>7, <2>2
    <2> QED
      BY <2>3 DEF Holds
  <1> QED
    BY <1>2, <1>9, <1>10, <1>11, <1>12, <1>13, <1>14, NoApi DEF KVInv, BatchInv

\* Active rows go on at the end of their own text, the others stay as they are.
LEMMA NextTokensStep ==
  ASSUME KVInv, NEW ended \in SUBSET Rows, NextTokens(ended)
  PROVE  KVInv'
  <1> USE Ones
  <1> DEFINE token(b) == BatchToken(b, rowLength[b] + 1)
  <1>1. /\ mode = "batch" /\ kind = "idle" /\ (\A b \in Rows : rowLength[b] > 0)
        /\ active # {} /\ (\A b \in active : rowLength[b] < BlockSize)
        /\ fed' = [b \in Rows |-> IF b \in active THEN Append(fed[b], token(b)) ELSE fed[b]]
        /\ mask' = [b \in Rows |-> IF b \in active THEN mask[b] \cup {rowLength[b]} ELSE mask[b]]
        /\ rowLength' = [b \in Rows |-> IF b \in active THEN rowLength[b] + 1 ELSE rowLength[b]]
        /\ active' = active \ ended
        /\ mode' = mode /\ slots' = slots /\ length' = length /\ seen' = seen /\ absorbed' = absorbed
        /\ exec' = exec /\ att' = att
        /\ UNCHANGED <<failed, failures, serial>>
    BY DEF NextTokens, cacheVars, callVars
  <1>2. Typed /\ PagedLengths /\ BatchRows /\ BatchContent
    BY DEF KVInv, BatchInv
  <1>3. \A b \in Rows : /\ rowLength[b] = Len(fed[b]) /\ mask[b] = 0 .. Len(fed[b]) - 1
                        /\ fed[b] \in Seq(Nat) /\ Len(fed[b]) \in Nat /\ Len(fed[b]) # 0
                        /\ rowLength[b] \in 0 .. BlockSize
    <2> SUFFICES ASSUME NEW b \in Rows
                 PROVE  /\ rowLength[b] = Len(fed[b]) /\ mask[b] = 0 .. Len(fed[b]) - 1
                        /\ fed[b] \in Seq(Nat) /\ Len(fed[b]) \in Nat /\ Len(fed[b]) # 0
                        /\ rowLength[b] \in 0 .. BlockSize
      OBVIOUS
    <2>1. rowLength[b] = Len(fed[b]) /\ mask[b] = 0 .. Len(fed[b]) - 1
      BY <1>1, <1>2 DEF BatchRows
    <2>2. fed[b] \in Seq(Nat) /\ rowLength[b] \in 0 .. BlockSize /\ rowLength[b] > 0
      BY <1>1, <1>2 DEF Typed
    <2> QED
      BY <2>1, <2>2
  <1>4. \A b \in Rows : token(b) \in Nat
    <2> SUFFICES ASSUME NEW b \in Rows
                 PROVE  token(b) \in Nat
      OBVIOUS
    <2>1. /\ b \in Nat /\ NumRows \in Nat \ {0} /\ rowLength[b] + 1 - 1 \in Int
          /\ rowLength[b] + 1 - 1 >= 0 /\ rowLength[b] \in Nat
      BY <1>3, SizesAssumption DEF Rows
    <2>2. /\ NumRows * (rowLength[b] + 1 - 1) >= NumRows * 0
          /\ NumRows * (rowLength[b] + 1 - 1) \in Int /\ NumRows * 0 = 0
      BY <2>1, Times
    <2>3. (rowLength[b] + 1 - 1) * NumRows = NumRows * (rowLength[b] + 1 - 1)
      BY <2>1
    <2> QED
      BY <2>1, <2>2, <2>3 DEF BatchToken
  <1> HIDE DEF token
  <1>5. \A b \in active : /\ b \in Rows
                          /\ fed'[b] \in Seq(Nat) /\ Len(fed'[b]) = Len(fed[b]) + 1
                          /\ fed'[b][Len(fed[b]) + 1] = token(b)
                          /\ \A i \in 1 .. Len(fed[b]) : fed'[b][i] = fed[b][i]
    <2> SUFFICES ASSUME NEW b \in active
                 PROVE  /\ b \in Rows
                        /\ fed'[b] \in Seq(Nat) /\ Len(fed'[b]) = Len(fed[b]) + 1
                        /\ fed'[b][Len(fed[b]) + 1] = token(b)
                        /\ \A i \in 1 .. Len(fed[b]) : fed'[b][i] = fed[b][i]
      OBVIOUS
    <2>1. b \in Rows
      BY <1>2 DEF Typed
    <2>2. fed'[b] = Append(fed[b], token(b))
      BY <1>1, <2>1
    <2>3. fed[b] \in Seq(Nat) /\ token(b) \in Nat
      BY <1>3, <1>4, <2>1
    <2> QED
      BY <2>1, <2>2, <2>3, AppendProperties
  <1>6. \A b \in Rows : b \notin active => fed'[b] = fed[b]
    BY <1>1
  <1>7. /\ fed' \in [Rows -> Seq(Nat)] /\ active' \in SUBSET Rows
        /\ rowLength' \in [Rows -> 0 .. BlockSize]
        /\ mask' \in [Rows -> SUBSET (0 .. BlockSize - 1)]
    <2>1. \A b \in Rows : fed'[b] \in Seq(Nat)
      BY <1>3, <1>5, <1>6
    <2>2. fed' \in [Rows -> Seq(Nat)]
      BY <1>1, <2>1
    <2>3. \A b \in Rows : rowLength'[b] \in 0 .. BlockSize
      BY <1>1, <1>3
    <2>4. \A b \in Rows : mask'[b] \in SUBSET (0 .. BlockSize - 1)
      <3> SUFFICES ASSUME NEW b \in Rows
                   PROVE  mask'[b] \in SUBSET (0 .. BlockSize - 1)
        OBVIOUS
      <3>1. mask[b] \in SUBSET (0 .. BlockSize - 1)
        BY <1>2 DEF Typed
      <3>2. CASE b \in active
        <4>1. rowLength[b] \in 0 .. BlockSize - 1
          BY <1>1, <1>3, <3>2
        <4> QED
          BY <1>1, <3>1, <3>2, <4>1
      <3>3. CASE b \notin active
        BY <1>1, <3>1, <3>3
      <3> QED
        BY <3>2, <3>3
    <2> QED
      BY <1>1, <1>2, <2>2, <2>3, <2>4 DEF Typed
  <1>8. BatchRows'
    <2> SUFFICES ASSUME NEW b \in Rows
                 PROVE  rowLength'[b] = Len(fed'[b]) /\ mask'[b] = 0 .. Len(fed'[b]) - 1
      BY DEF BatchRows
    <2>1. CASE b \in active
      <3>1. rowLength'[b] = Len(fed'[b]) /\ mask'[b] = mask[b] \cup {rowLength[b]}
        BY <1>1, <1>3, <1>5, <2>1
      <3>2. mask[b] \cup {rowLength[b]} = 0 .. Len(fed[b])
        BY <1>3
      <3>3. Len(fed'[b]) = Len(fed[b]) + 1 /\ Len(fed[b]) \in Nat
        BY <1>3, <1>5, <2>1
      <3>4. Len(fed'[b]) - 1 = Len(fed[b])
        BY <3>3
      <3> QED
        BY <3>1, <3>2, <3>4
    <2>2. CASE b \notin active
      BY <1>1, <1>3, <1>6, <2>2
    <2> QED
      BY <2>1, <2>2
  <1>9. BatchStart'
    <2>1. rowLength'[1] # 0
      BY <1>1, <1>3
    <2> QED
      BY <2>1 DEF BatchStart
  <1>10. PagedLengths'
    BY <1>1 DEF PagedLengths, Paged
  <1>11. CASE ended = active
    <2>1. UNCHANGED callVars
      BY <1>11 DEF NextTokens
    <2>2. Typed'
      BY <1>1, <1>2, <1>7, <2>1 DEF Typed, callVars
    <2>3. kind' = "idle" /\ active' = {}
      BY <1>1, <1>11, <2>1 DEF callVars
    <2>4. BatchPrompt' /\ BatchStep' /\ BatchContent'
      BY <2>3 DEF BatchPrompt, BatchStep, BatchContent
    <2> QED
      BY <1>1, <1>8, <1>9, <1>10, <2>2, <2>4, NoApi DEF KVInv, BatchInv
  <1>12. CASE ended # active
    <2>1. /\ kind' = "positions" /\ layer' = 1
          /\ toks' = [b \in Rows |-> <<IF b \in active THEN token(b) ELSE 0>>]
          /\ positions' = [b \in Rows |-> IF b \in active THEN rowLength[b] ELSE -1]
          /\ lengthAfter' \in 0 .. BlockSize
      BY <1>12 DEF NextTokens, token
    <2>2. Typed'
      <3>1. \A b \in Rows : <<IF b \in active THEN token(b) ELSE 0>> \in Seq(Nat)
        BY <1>4
      <3>2. toks' \in [Rows -> Seq(Nat)]
        BY <2>1, <3>1
      <3>3. positions' \in [Rows -> -1 .. BlockSize - 1]
        BY <1>1, <1>3, <2>1
      <3>4. /\ kind' \in {"idle", "append", "positions"}
            /\ layer' \in 0 .. NumLayers + 1
            /\ kind' = "idle" <=> layer' = 0
        BY <2>1
      <3> QED
        BY <1>1, <1>2, <1>7, <2>1, <3>2, <3>3, <3>4 DEF Typed
    <2>3. BatchPrompt'
      BY <2>1 DEF BatchPrompt
    <2>4. BatchStep'
      <3>1. \A l \in Layers : ~ (l < 1)
        BY DEF Layers
      <3>2. ASSUME NEW b \in Rows
            PROVE  /\ Len(toks'[b]) = 1
                   /\ Len(fed'[b]) # 0
                   /\ positions'[b] = -1 \/ (positions'[b] = Len(fed'[b]) - 1
                                             /\ toks'[b][1] = fed'[b][Len(fed'[b])])
        <4>1. Len(toks'[b]) = 1
          BY <2>1
        <4>2. CASE b \in active
          <5>1. toks'[b][1] = token(b) /\ positions'[b] = rowLength[b]
            BY <2>1, <4>2
          <5>2. Len(fed'[b]) = Len(fed[b]) + 1 /\ fed'[b][Len(fed'[b])] = token(b)
            BY <1>5, <4>2
          <5>3. Len(fed[b]) \in Nat /\ rowLength[b] = Len(fed[b])
            BY <1>3
          <5> QED
            BY <4>1, <5>1, <5>2, <5>3
        <4>3. CASE b \notin active
          BY <1>3, <1>6, <2>1, <4>1, <4>3
        <4> QED
          BY <4>2, <4>3
      <3> QED
        BY <2>1, <3>1, <3>2 DEF BatchStep
    <2>5. BatchContent'
      <3> SUFFICES ASSUME NEW l \in Layers, NEW b \in Rows
                   PROVE  Holds(slots'[l][b], fed'[b], Len(fed'[b]) - Missing(l, b)')
        BY <1>1, BatchContentNext
      <3>1. Missing(l, b) = 0
        BY <1>1 DEF Missing
      <3>2. Holds(slots[l][b], fed[b], Len(fed[b]))
        BY <1>1, <1>2, <1>3, <3>1 DEF BatchContent
      <3>3. Missing(l, b)' = IF positions'[b] < 0 THEN 0 ELSE 1
        BY <1>1, <2>1 DEF Missing, OwnTokens, Layers
      <3>4. CASE b \in active
        <4>a. positions'[b] = rowLength[b] /\ rowLength[b] \in Nat /\ Len(fed[b]) \in Nat
          BY <1>3, <2>1, <3>4
        <4>b. Missing(l, b)' = 1 /\ Len(fed'[b]) = Len(fed[b]) + 1
          BY <1>5, <3>3, <3>4, <4>a
        <4>1. Len(fed'[b]) - Missing(l, b)' = Len(fed[b])
          BY <4>a, <4>b
        <4>2. \A i \in 1 .. Len(fed[b]) : fed'[b][i] = fed[b][i]
          BY <1>5, <3>4
        <4> SUFFICES ASSUME NEW p \in 0 .. Len(fed[b]) - 1, p + BlockSize >= Len(fed[b])
                     PROVE  slots[l][b][Place(p)] = fed'[b][p + 1]
          BY <1>1, <4>1 DEF Holds
        <4>3. p + 1 \in 1 .. Len(fed[b])
          BY <1>3
        <4> QED
          BY <3>2, <4>2, <4>3 DEF Holds
      <3>5. CASE b \notin active
        <4>1. Len(fed'[b]) - Missing(l, b)' = Len(fed[b])
          BY <1>3, <1>6, <2>1, <3>3, <3>5
        <4> QED
          BY <1>1, <1>6, <3>2, <3>5, <4>1
      <3> QED
        BY <3>4, <3>5
    <2> QED
      BY <1>1, <1>8, <1>9, <1>10, <2>2, <2>3, <2>4, <2>5, NoApi DEF KVInv, BatchInv
  <1> QED
    BY <1>11, <1>12

\* A layer of a batch: rows append where they stand, or nothing.
LEMMA EagerBatchStep ==
  ASSUME KVInv, mode = "batch", Eager
  PROVE  KVInv'
  <1> USE Ones
  <1> SUFFICES ASSUME NEW k, layer = k
               PROVE  KVInv'
    OBVIOUS
  <1> DEFINE at == AppendAt(k)
             keys == KeysOf(k, at)
  <1>1. /\ k \in Layers /\ kind # "idle"
        /\ slots' = [slots EXCEPT ![k] = Appended(slots[k], at)]
        /\ length' = [length EXCEPT ![k] = LengthAfter(k)]
        /\ seen' = [seen EXCEPT ![k] = SeenAfter(k)]
        /\ Attended(keys)
        /\ absorbed' = absorbed /\ mode' = mode /\ exec' = exec /\ fed' = fed
        /\ UNCHANGED <<batchVars, serial>>
    BY DEF Eager, InLayer, EagerOn
  <1>2. /\ layer' = k + 1 /\ att' = [att EXCEPT ![k] = keys]
        /\ UNCHANGED <<kind, toks, positions, lengthAfter, failed, failures>>
    BY <1>1, AttendedSplit DEF Passed, Throws
  <1>3. Typed /\ BatchRows /\ BatchPrompt /\ BatchStep /\ BatchStart /\ BatchContent
    BY DEF KVInv, BatchInv
  <1>4. ~Paged /\ SeenAfter(k) = seen[k] /\ Cursor(k) = length[k]
    BY DEF Paged, SeenAfter, Cursor
  <1>5. keys = [at |-> at, low |-> 0, high |-> BlockSize]
    BY <1>4 DEF KeysOf
  <1>b. /\ \A l \in Layers : l # k => length'[l] = length[l] /\ att'[l] = att[l]
        /\ att'[k] = keys
    BY <1>1, <1>2, <1>3 DEF Typed
  <1>6. ASSUME kind = "append"
        PROVE  /\ BatchPrompt' /\ BatchStep'
               /\ \A b \in Rows : Holds(Write(slots[k][b], at[b], toks[b]), fed[b], Len(fed[b]))
               /\ at \in [Rows -> Int] /\ LengthAfter(k) \in 0 .. BlockSize
    <2>1. /\ T \in 1 .. BlockSize /\ length[k] = 0
          /\ \A b \in Rows : Len(toks[b]) = T /\ Len(fed[b]) \in 1 .. T
                             /\ \A i \in 1 .. Len(fed[b]) : toks[b][i] = fed[b][i]
          /\ \A l \in Layers : l >= k => length[l] = 0
          /\ \A l \in Layers : l < k => att[l] = [at |-> [b \in Rows |-> 0], low |-> 0, high |-> BlockSize]
      <3>1. k >= k
        BY <1>1 DEF Layers
      <3> QED
        BY <1>1, <1>3, <1>6, <3>1 DEF BatchPrompt
    <2>2. at = [b \in Rows |-> 0] /\ LengthAfter(k) = T
      BY <1>4, <1>6, <2>1 DEF AppendAt, LengthAfter
    <2>3. BatchPrompt'
      <3>1. T' = T /\ kind' = kind
        BY <1>2 DEF T
      <3>2. \A l \in Layers : l >= k + 1 => length'[l] = 0
        <4> SUFFICES ASSUME NEW l \in Layers, l >= k + 1
                     PROVE  length'[l] = 0
          OBVIOUS
        <4>1. l # k /\ l >= k
          BY <1>1 DEF Layers
        <4> QED
          BY <1>b, <2>1, <4>1
      <3>3. \A l \in Layers : l < k + 1 =>
              att'[l] = [at |-> [b \in Rows |-> 0], low |-> 0, high |-> BlockSize]
        <4> SUFFICES ASSUME NEW l \in Layers, l < k + 1
                     PROVE  att'[l] = [at |-> [b \in Rows |-> 0], low |-> 0, high |-> BlockSize]
          OBVIOUS
        <4>1. CASE l = k
          BY <1>5, <1>b, <2>2, <4>1
        <4>2. CASE l # k
          <5>1. l < k
            BY <1>1, <4>2 DEF Layers
          <5> QED
            BY <1>b, <2>1, <4>2, <5>1
        <4> QED
          BY <4>1, <4>2
      <3> QED
        BY <1>1, <1>2, <2>1, <3>1, <3>2, <3>3 DEF BatchPrompt
    <2>4. ASSUME NEW b \in Rows
          PROVE  Holds(Write(slots[k][b], at[b], toks[b]), fed[b], Len(fed[b]))
      <3> DEFINE row == slots[k][b]
                 tokens == toks[b]
                 text == fed[b]
      <3>1. row \in [Slots -> Nat] /\ text \in Seq(Nat) /\ tokens \in Seq(Nat)
        BY <1>1, <1>3 DEF Typed
      <3>2. /\ Len(tokens) = T /\ Len(text) \in 1 .. T /\ T \in 1 .. BlockSize
            /\ \A i \in 1 .. Len(text) : tokens[i] = text[i]
        BY <2>1
      <3> HIDE DEF row, tokens, text
      <3>3. Fit(0, tokens)
        BY <3>1, <3>2 DEF Fit
      <3>4. Holds(row, text, 0)
        BY DEF Holds
      <3>5. \A i \in 1 .. Len(tokens) : 0 + i <= Len(text) => tokens[i] = text[0 + i]
        BY <3>2
      <3>6. 0 <= Len(text) /\ Len(text) <= 0 + Len(tokens)
        BY <3>2
      <3>7. Holds(Write(row, 0, tokens), text, Len(text))
        BY <1>4, <3>1, <3>3, <3>4, <3>5, <3>6, WriteHolds
      <3> QED
        BY <2>2, <3>7 DEF row, tokens, text
    <2>5. BatchStep'
      BY <1>2, <1>6 DEF BatchStep
    <2>6. at \in [Rows -> Int] /\ LengthAfter(k) \in 0 .. BlockSize
      BY <2>1, <2>2
    <2> QED
      BY <2>3, <2>4, <2>5, <2>6
  <1>7. ASSUME kind = "positions"
        PROVE  /\ BatchPrompt' /\ BatchStep'
               /\ \A b \in Rows : Holds(Write(slots[k][b], at[b], toks[b]), fed[b], Len(fed[b]))
               /\ at \in [Rows -> Int] /\ LengthAfter(k) \in 0 .. BlockSize
    <2>1. /\ \A b \in Rows :
               /\ Len(toks[b]) = 1
               /\ Len(fed[b]) # 0
               /\ positions[b] = -1 \/ (positions[b] = Len(fed[b]) - 1 /\ toks[b][1] = fed[b][Len(fed[b])])
          /\ \A l \in Layers : l < k => att[l] = [at |-> positions, low |-> 0, high |-> BlockSize]
      BY <1>1, <1>3, <1>7 DEF BatchStep
    <2>2. at = positions /\ LengthAfter(k) = lengthAfter
      BY <1>3, <1>7 DEF AppendAt, LengthAfter, Typed
    <2>3. BatchStep'
      <3>1. \A l \in Layers : l < k + 1 => att'[l] = [at |-> positions, low |-> 0, high |-> BlockSize]
        <4> SUFFICES ASSUME NEW l \in Layers, l < k + 1
                     PROVE  att'[l] = [at |-> positions, low |-> 0, high |-> BlockSize]
          OBVIOUS
        <4>1. CASE l = k
          BY <1>5, <1>b, <2>2, <4>1
        <4>2. CASE l # k
          <5>1. l < k
            BY <1>1, <4>2 DEF Layers
          <5> QED
            BY <1>b, <2>1, <4>2, <5>1
        <4> QED
          BY <4>1, <4>2
      <3> QED
        BY <1>1, <1>2, <2>1, <3>1 DEF BatchStep
    <2>4. ASSUME NEW b \in Rows
          PROVE  Holds(Write(slots[k][b], at[b], toks[b]), fed[b], Len(fed[b]))
      <3> DEFINE row == slots[k][b]
                 tokens == toks[b]
                 text == fed[b]
      <3>1. row \in [Slots -> Nat] /\ text \in Seq(Nat) /\ tokens \in Seq(Nat)
        BY <1>1, <1>3 DEF Typed
      <3>2. Len(text) \in Nat /\ Len(text) # 0 /\ Len(text) <= BlockSize /\ Len(tokens) = 1
        <4>1. rowLength[b] \in 0 .. BlockSize /\ rowLength[b] = Len(text)
          BY <1>3 DEF Typed, BatchRows
        <4> QED
          BY <2>1, <4>1
      <3>3. Holds(row, text, Len(text) - Missing(k, b))
        BY <1>1, <1>3 DEF BatchContent
      <3>4. Missing(k, b) = IF positions[b] < 0 THEN 0 ELSE 1
        <4>1. k >= k
          BY <1>1 DEF Layers
        <4> QED
          BY <1>1, <1>7, <4>1 DEF Missing, OwnTokens
      <3>5. CASE positions[b] = -1
        <4>1. Missing(k, b) = 0 /\ at[b] = -1
          BY <2>2, <3>4, <3>5
        <4> HIDE DEF row, tokens, text
        <4>a. at[b] \in Int /\ at[b] < 0
          BY <4>1
        <4>2. Write(row, at[b], tokens) = row
          BY <3>1, <4>a, WriteNothing
        <4>3. Len(text) - Missing(k, b) = Len(text)
          BY <3>2, <4>1
        <4>4. Holds(Write(row, at[b], tokens), text, Len(text))
          BY <3>3, <4>2, <4>3
        <4> QED
          BY <4>4 DEF row, tokens, text
      <3>6. CASE positions[b] # -1
        <4> DEFINE start == Len(text) - 1
        <4>1. at[b] = start /\ tokens[1] = text[Len(text)] /\ start \in Nat
          BY <2>1, <2>2, <3>2, <3>6
        <4>2. Missing(k, b) = 1
          BY <2>2, <3>4, <4>1
        <4>3. Holds(row, text, start)
          BY <3>3, <4>2
        <4>4. start + 1 = Len(text)
          BY <3>2
        <4> HIDE DEF row, tokens, text, start
        <4>5. Fit(start, tokens)
          BY <3>1, <3>2, <4>1, <4>4 DEF Fit
        <4>6. \A i \in 1 .. Len(tokens) : start + i <= Len(text) => tokens[i] = text[start + i]
          BY <3>2, <4>1, <4>4
        <4>7. start <= Len(text) /\ Len(text) <= start + Len(tokens)
          BY <3>2, <4>1, <4>4
        <4>8. Holds(Write(row, start, tokens), text, Len(text))
          BY <1>4, <3>1, <4>3, <4>5, <4>6, <4>7, WriteHolds
        <4> QED
          BY <4>1, <4>8 DEF row, tokens, text
      <3> QED
        BY <3>5, <3>6
    <2>5. BatchPrompt'
      BY <1>2, <1>7 DEF BatchPrompt
    <2>6. at \in [Rows -> Int] /\ LengthAfter(k) \in 0 .. BlockSize
      BY <1>3, <2>2 DEF Typed
    <2> QED
      BY <2>3, <2>4, <2>5, <2>6
  <1>8. /\ BatchPrompt' /\ BatchStep'
        /\ \A b \in Rows : Holds(Write(slots[k][b], at[b], toks[b]), fed[b], Len(fed[b]))
        /\ at \in [Rows -> Int] /\ LengthAfter(k) \in 0 .. BlockSize
    BY <1>1, <1>3, <1>6, <1>7 DEF Typed
  <1> HIDE DEF at, keys
  <1>9. \A b \in Rows : slots'[k][b] = Write(slots[k][b], at[b], toks[b])
    BY <1>1, <1>3 DEF Typed, Appended
  <1>10. Typed'
    <2>1. slots' \in [Layers -> [Rows -> [Slots -> Nat]]]
      <3>1. \A b \in Rows : Write(slots[k][b], at[b], toks[b]) \in [Slots -> Nat]
        <4> SUFFICES ASSUME NEW b \in Rows
                     PROVE  Write(slots[k][b], at[b], toks[b]) \in [Slots -> Nat]
          OBVIOUS
        <4>1. slots[k][b] \in [Slots -> Nat] /\ at[b] \in Int /\ toks[b] \in Seq(Nat)
          BY <1>1, <1>3, <1>8 DEF Typed
        <4> QED
          BY <4>1, WriteType
      <3>2. Appended(slots[k], at) \in [Rows -> [Slots -> Nat]]
        BY <3>1 DEF Appended
      <3> QED
        BY <1>1, <1>3, <3>2 DEF Typed
    <2>2. length' \in [Layers -> 0 .. BlockSize] /\ seen' \in [Layers -> Nat]
      BY <1>1, <1>3, <1>4, <1>8 DEF Typed
    <2>3. att' \in [Layers -> KeysType]
      <3>1. keys \in KeysType
        BY <1>5, <1>8 DEF KeysType
      <3> QED
        BY <1>2, <1>3, <3>1 DEF Typed, KeysType
    <2>4. layer' \in 0 .. NumLayers + 1 /\ layer' # 0
      BY <1>1, <1>2 DEF Layers
    <2>5. /\ kind' \in {"idle", "append", "positions"}
          /\ kind' = "idle" <=> layer' = 0
      BY <1>1, <1>2, <1>3, <2>4 DEF Typed
    <2> QED
      BY <1>1, <1>2, <1>3, <2>1, <2>2, <2>3, <2>4, <2>5 DEF Typed, KeysType, batchVars
  <1>11. PagedLengths' /\ BatchRows'
    BY <1>1, <1>3 DEF PagedLengths, Paged, BatchRows, batchVars
  <1>12. BatchStart'
    <2>1. rowLength' = rowLength
      BY <1>1 DEF batchVars
    <2> QED
      BY <1>1, <1>3, <2>1 DEF BatchStart
  <1>13. BatchContent'
    <2> SUFFICES ASSUME NEW l \in Layers, NEW b \in Rows
                 PROVE  Holds(slots'[l][b], fed'[b], Len(fed'[b]) - Missing(l, b)')
      BY <1>1, BatchContentNext
    <2>1. Len(fed[b]) \in Nat /\ l \in Nat /\ k \in Nat
      BY <1>1, <1>3 DEF Typed, Layers
    <2>2. OwnTokens(b)' = OwnTokens(b)
      BY <1>1, <1>2 DEF OwnTokens
    <2>3. CASE l = k
      <3>1. Missing(l, b)' = 0
        BY <1>2, <2>1, <2>3 DEF Missing
      <3>2. Len(fed'[b]) - Missing(l, b)' = Len(fed[b])
        BY <1>1, <2>1, <3>1
      <3>3. Holds(slots'[k][b], fed[b], Len(fed[b]))
        BY <1>8, <1>9
      <3> QED
        BY <1>1, <2>3, <3>2, <3>3
    <2>4. CASE l # k
      <3>1. Missing(l, b)' = Missing(l, b)
        <4>1. l >= k + 1 <=> l >= k
          BY <2>1, <2>4
        <4> QED
          BY <1>2, <2>2, <4>1 DEF Missing
      <3>2. slots'[l] = slots[l] /\ fed' = fed
        BY <1>1, <1>3, <2>4 DEF Typed
      <3> QED
        BY <1>1, <1>3, <3>1, <3>2 DEF BatchContent
    <2> QED
      BY <2>3, <2>4
  <1> QED
    BY <1>1, <1>8, <1>10, <1>11, <1>12, <1>13, NoApi DEF KVInv, BatchInv

LEMMA ReturnBatchStep ==
  ASSUME KVInv, mode = "batch", Return
  PROVE  KVInv'
  <1> USE Ones
  <1>1. /\ kind # "idle" /\ layer = NumLayers + 1 /\ Over
        /\ mode' = mode /\ slots' = slots /\ length' = length /\ seen' = seen /\ absorbed' = absorbed
        /\ exec' = exec /\ fed' = fed /\ failed' = failed /\ failures' = failures /\ serial' = serial
        /\ mask' = mask /\ rowLength' = rowLength /\ active' = active
    BY DEF Return, cacheVars, historyVars, batchVars
  <1>2. Typed /\ PagedLengths /\ BatchRows /\ BatchStart /\ BatchContent
    BY DEF KVInv, BatchInv
  <1>3. kind' = "idle"
    BY <1>1 DEF Over
  <1>4. Typed'
    <2>1. /\ kind' \in {"idle", "append", "positions"}
          /\ layer' \in 0 .. NumLayers + 1
          /\ kind' = "idle" <=> layer' = 0
          /\ toks' \in [Rows -> Seq(Nat)]
          /\ positions' \in [Rows -> -1 .. BlockSize - 1]
          /\ lengthAfter' \in 0 .. BlockSize
          /\ att' \in [Layers -> KeysType]
      BY <1>1, OverType
    <2> QED
      BY <1>1, <1>2, <2>1 DEF Typed, KeysType
  <1>5. PagedLengths' /\ BatchRows' /\ BatchPrompt' /\ BatchStep' /\ BatchStart'
    BY <1>1, <1>2, <1>3 DEF PagedLengths, Paged, BatchRows, BatchPrompt, BatchStep, BatchStart
  <1>6. BatchContent'
    <2> SUFFICES ASSUME NEW l \in Layers, NEW b \in Rows
                 PROVE  Holds(slots'[l][b], fed'[b], Len(fed'[b]) - Missing(l, b)')
      BY <1>1, BatchContentNext
    <2>1. Missing(l, b) = 0 /\ Missing(l, b)' = 0
      BY <1>1, <1>3 DEF Missing, Layers
    <2>2. Holds(slots[l][b], fed[b], Len(fed[b]) - Missing(l, b))
      BY <1>1, <1>2 DEF BatchContent
    <2> QED
      BY <1>1, <2>1, <2>2
  <1> QED
    BY <1>1, <1>4, <1>5, <1>6, NoApi DEF KVInv, BatchInv

(***************************************************************************)
(* The invariant.                                                          *)
(***************************************************************************)

LEMMA NextInv ==
  ASSUME AllRebound
  PROVE  KVInv /\ [Next]_vars => KVInv'
  <1> SUFFICES ASSUME KVInv, [Next]_vars
               PROVE  KVInv'
    OBVIOUS
  <1>1. CASE UNCHANGED vars
    BY <1>1, StutterInv
  <1>2. ASSUME NEW n \in 1 .. BlockSize, Call(n)
        PROVE  KVInv'
    BY <1>2, CallStep
  <1>3. ASSUME NEW n \in 1 .. BlockSize, Rewind(n)
        PROVE  KVInv'
    BY <1>3, RewindStep
  <1>4. ASSUME NEW lens \in [Rows -> 1 .. MaxPrompt], Prompts(lens)
        PROVE  KVInv'
    BY <1>4, PromptsStep
  <1>5. ASSUME NEW ended \in SUBSET Rows, NextTokens(ended)
        PROVE  KVInv'
    BY <1>5, NextTokensStep
  <1>6. CASE Eager
    BY <1>6, EagerApiStep, EagerBatchStep
  <1>7. CASE Capture
    BY <1>7, CaptureStep
  <1>8. CASE ReplayGraph
    BY <1>8, ReplayGraphStep
  <1>9. CASE ReplayFallback
    BY <1>9, ReplayFallbackStep
  <1>10. CASE Shared
    BY <1>10, SharedStep
  <1>11. CASE Delta
    BY <1>11, DeltaStep
  <1>12. CASE ThrowBefore
    BY <1>12, ThrowStep
  <1>13. CASE Return
    BY <1>13, ReturnApiStep, ReturnBatchStep
  <1>14. CASE Reset
    BY <1>14, ResetStep
  <1> QED
    BY <1>1, <1>2, <1>3, <1>4, <1>5, <1>6, <1>7, <1>8, <1>9, <1>10, <1>11, <1>12, <1>13, <1>14 DEF Next

(***************************************************************************)
(* The properties.                                                         *)
(***************************************************************************)

LEMMA InvCursors == KVInv => CursorInv
  <1> SUFFICES ASSUME KVInv
               PROVE  CursorInv
    OBVIOUS
  <1> USE Ones
  <1>1. Typed /\ PagedLengths /\ CallTokens /\ Cursors /\ BatchPrompt
    BY DEF KVInv, ApiInv, BatchInv
  <1>2. ASSUME ~Paged, kind = "append", NEW l \in Layers, HasKV(l), l >= layer
        PROVE  length[l] + T <= BlockSize
    <2>1. CASE mode = "batch"
      BY <1>1, <1>2, <2>1 DEF BatchPrompt
    <2>2. CASE mode # "batch"
      <3>1. N <= BlockSize /\ T \in 1 .. BlockSize /\ T <= N
        BY <1>1, <1>2, <2>2 DEF Cursors, CallTokens, Paged
      <3>2. N \in Nat
        BY <1>1 DEF Typed, N
      <3>3. ~ (l < layer)
        BY <1>1, <1>2 DEF Typed, Layers
      <3>4. length[l] = N - T
        BY <1>1, <1>2, <2>2, <3>3 DEF Cursors, Cursor
      <3> QED
        BY <3>1, <3>2, <3>4
    <2> QED
      BY <2>1, <2>2
  <1>3. ASSUME NEW l \in Layers, Shares(l), l = layer
        PROVE  length[Source[l]] >= T
    <2>1. mode = "regular" /\ ~Paged /\ ~Hybrid /\ kind # "idle"
      BY <1>1, <1>3 DEF Shares, Paged, Hybrid, Typed, Layers
    <2>2. Source[l] \in Layers /\ Source[l] < layer
      BY <1>3, LayersAssumption DEF Shares, Layers
    <2>3. Cursor(Source[l]) = N /\ T <= N
      BY <1>1, <2>1, <2>2 DEF Cursors, CallTokens, HasKV
    <2>4. N \in Nat /\ T \in 1 .. BlockSize
      BY <1>1, <2>1 DEF Typed, N, CallTokens
    <2> QED
      BY <2>1, <2>3, <2>4 DEF Cursor
  <1> QED
    BY <1>1, <1>2, <1>3 DEF CursorInv, PagedLengths

\* The positions a query at q is given are those its text has within the cache's reach.
GivenReach(b, q, low, high) ==
  \A p \in Nat :
    /\ p \in low .. high - 1
    /\ kind = "append" => p <= q
    /\ mode = "batch" => p \in mask[b]
    <=> p <= q /\ p + BlockSize >= Len(fed[b])

\* The slots of these positions hold the row's own tokens.
OwnSlots(l, b, q) ==
  \A p \in Nat : p <= q /\ p + BlockSize >= Len(fed[b]) =>
    slots[Keeper(l)][b][Place(p)] = fed[b][p + 1]

\* A query that is given these positions, and finds its own tokens there, reads what it
\* should.
LEMMA ReadOwn ==
  ASSUME NEW l \in Layers, NEW b \in Rows, NEW i \in Nat, NEW q \in Nat,
         att[l].at[b] + i - 1 = q,
         Position(b, i) = q,
         NEW low \in Nat, NEW high \in Nat, att[l].low = low, att[l].high = high,
         GivenReach(b, q, low, high), OwnSlots(l, b, q)
  PROVE  att[l].at[b] + i - 1 = Position(b, i) /\ Read(l, b, i) = OwnText(l, b, i)
  <1> DEFINE given == {p \in low .. high - 1 :
                         /\ kind = "append" => p <= q
                         /\ Within(l, p, q)
                         /\ mode = "batch" => p \in mask[b]}
             own == {p \in 0 .. q : p + BlockSize >= Len(fed[b]) /\ Within(l, p, q)}
  <1>1. Read(l, b, i) = {<<p, slots[Keeper(l)][b][Place(p)]>> : p \in given}
    BY DEF Read
  <1>2. OwnText(l, b, i) = {<<p, fed[b][p + 1]>> : p \in own}
    BY DEF OwnText
  <1>3. given = own
    <2>1. \A p : p \in given => p \in Nat
      OBVIOUS
    <2>2. \A p : p \in own => p \in Nat
      OBVIOUS
    <2>3. \A p \in Nat : p \in given <=> p \in own
      BY DEF GivenReach
    <2> QED
      BY <2>1, <2>2, <2>3
  <1>4. \A p \in own : slots[Keeper(l)][b][Place(p)] = fed[b][p + 1]
    BY DEF OwnSlots
  <1> HIDE DEF given, own
  <1> QED
    BY <1>1, <1>2, <1>3, <1>4

LEMMA ApiReads ==
  ASSUME KVInv, mode # "batch", kind # "idle",
         NEW l \in Layers, NEW b \in Rows, NEW i \in 1 .. OwnTokens(b), l < layer, HasKV(l)
  PROVE  att[l].at[b] + i - 1 = Position(b, i) /\ Read(l, b, i) = OwnText(l, b, i)
  <1> USE Ones
  <1>1. Typed /\ CallTokens /\ Cursors /\ KeysGiven /\ Content
    BY DEF KVInv, ApiInv
  <1>2. OwnTokens(b) = Len(toks[b])
    BY DEF OwnTokens
  <1>3. b = 1
    <2>1. toks[b] = << >> => Len(toks[b]) = 0
      OBVIOUS
    <2> QED
      BY <1>1, <1>2, <2>1 DEF CallTokens
  <1>4. /\ kind = "append" /\ T \in 1 .. BlockSize /\ N \in Nat /\ T <= N
        /\ OwnTokens(b) = T /\ i \in 1 .. T /\ Len(fed[b]) = N
        /\ mode # "paged" => N <= BlockSize
    BY <1>1, <1>2, <1>3 DEF CallTokens, Cursors, Typed, N, T
  <1> DEFINE q == N - T + i - 1
             low == IF Paged /\ N > BlockSize THEN N - BlockSize ELSE 0
             k == Keeper(l)
  <1>5. q \in Nat /\ q < N /\ low \in Nat /\ i \in Nat
    BY <1>4
  <1>6. att[l].at[b] + i - 1 = q /\ att[l].low = low /\ att[l].high = N
    BY <1>1, <1>3, <1>4 DEF KeysGiven
  <1>7. Position(b, i) = q
    BY <1>4 DEF Position
  <1>8. GivenReach(b, q, low, N)
    <2>1. ~Paged => N <= BlockSize
      BY <1>4 DEF Paged
    <2> QED
      BY <1>4, <1>5, <2>1 DEF GivenReach
  <1>9. k \in Layers /\ k < layer /\ HasKV(k) /\ ~Shares(k)
    <2>1. CASE ~Shares(l)
      BY <2>1 DEF Keeper
    <2>2. CASE Shares(l)
      <3>1. k = Source[l] /\ Source[l] # 0 /\ mode = "regular"
        BY <2>2 DEF Keeper, Shares
      <3>2. k \in Layers /\ k < l /\ Source[k] = 0
        BY <3>1, LayersAssumption DEF Layers
      <3>3. k < layer
        BY <1>1, <3>2 DEF Typed, Layers
      <3>4. HasKV(k) /\ ~Shares(k)
        BY <3>1, <3>2 DEF HasKV, Hybrid, Shares
      <3> QED
        BY <3>2, <3>3, <3>4
    <2> QED
      BY <2>1, <2>2
  <1>10. Cursor(k) = N
    BY <1>1, <1>9 DEF Cursors
  <1>11. Holds(slots[k][1], fed[1], N)
    BY <1>1, <1>9, <1>10 DEF Content
  <1> HIDE DEF k, low, q
  <1>12. \A p \in Nat : p <= q /\ p + BlockSize >= Len(fed[b]) =>
           slots[k][b][Place(p)] = fed[b][p + 1]
    BY <1>3, <1>4, <1>5, <1>11 DEF Holds
  <1>13. OwnSlots(l, b, q)
    BY <1>12 DEF k, OwnSlots
  <1> QED
    BY <1>4, <1>5, <1>6, <1>7, <1>8, <1>13, ReadOwn

LEMMA BatchReads ==
  ASSUME KVInv, mode = "batch", kind # "idle",
         NEW l \in Layers, NEW b \in Rows, NEW i \in 1 .. OwnTokens(b), l < layer
  PROVE  att[l].at[b] + i - 1 = Position(b, i) /\ Read(l, b, i) = OwnText(l, b, i)
  <1> USE Ones
  <1>1. Typed /\ BatchRows /\ BatchPrompt /\ BatchStep /\ BatchContent
    BY DEF KVInv, BatchInv
  <1> DEFINE len == Len(fed[b])
  <1>2. mask[b] = 0 .. len - 1 /\ len \in 0 .. BlockSize
    <2>1. rowLength[b] = len /\ mask[b] = 0 .. len - 1
      BY <1>1 DEF BatchRows
    <2>2. rowLength[b] \in 0 .. BlockSize
      BY <1>1 DEF Typed
    <2> QED
      BY <2>1, <2>2
  <1>3. Keeper(l) = l
    BY DEF Keeper, Shares
  <1>4. Holds(slots[l][b], fed[b], len)
    <2>1. ~ (l >= layer)
      BY <1>1 DEF Typed, Layers
    <2>2. Missing(l, b) = 0 /\ len - Missing(l, b) = len
      BY <1>2, <2>1 DEF Missing
    <2>3. Holds(slots[l][b], fed[b], Len(fed[b]) - Missing(l, b))
      BY <1>1 DEF BatchContent
    <2> QED
      BY <2>2, <2>3
  <1>5. \A q \in Nat : q < len => OwnSlots(l, b, q)
    BY <1>2, <1>3, <1>4 DEF Holds, OwnSlots
  <1>6. CASE kind = "append"
    <2>1. OwnTokens(b) = len /\ i \in 1 .. len /\ i \in Nat
      BY <1>2, <1>6 DEF OwnTokens
    <2> DEFINE q == i - 1
               low == 0
               high == BlockSize
    <2>2. att[l].at[b] + i - 1 = q /\ att[l].low = low /\ att[l].high = high
      <3>1. att[l] = [at |-> [c \in Rows |-> 0], low |-> 0, high |-> BlockSize]
        BY <1>1, <1>6 DEF BatchPrompt
      <3> QED
        BY <2>1, <3>1
    <2>3. Position(b, i) = q /\ q \in Nat /\ q < len
      BY <1>2, <2>1 DEF Position
    <2>4. GivenReach(b, q, low, high)
      BY <1>2, <1>6, <2>3 DEF GivenReach
    <2>a. low \in Nat /\ high \in Nat
      OBVIOUS
    <2> HIDE DEF q, low, high
    <2>5. OwnSlots(l, b, q)
      BY <1>5, <2>3
    <2> HIDE DEF len
    <2> QED
      BY <2>1, <2>2, <2>3, <2>4, <2>5, <2>a, ReadOwn
  <1>7. CASE kind = "positions"
    <2>1. OwnTokens(b) = 1 /\ i = 1 /\ i \in Nat /\ positions[b] # -1
      BY <1>7 DEF OwnTokens
    <2> DEFINE q == len - 1
               low == 0
               high == BlockSize
    <2>2. positions[b] = q /\ len # 0
      BY <1>1, <1>7, <2>1 DEF BatchStep
    <2>3. att[l].at[b] + i - 1 = q /\ att[l].low = low /\ att[l].high = high
      <3>1. att[l] = [at |-> positions, low |-> 0, high |-> BlockSize]
        BY <1>1, <1>7 DEF BatchStep
      <3> QED
        BY <1>2, <2>1, <2>2, <3>1
    <2>4. Position(b, i) = q /\ q \in Nat /\ q < len
      BY <1>2, <2>1, <2>2 DEF Position
    <2>5. GivenReach(b, q, low, high)
      BY <1>2, <1>7, <2>4 DEF GivenReach
    <2>a. low \in Nat /\ high \in Nat
      OBVIOUS
    <2> HIDE DEF q, low, high
    <2>6. OwnSlots(l, b, q)
      BY <1>5, <2>4
    <2> HIDE DEF len
    <2> QED
      BY <2>1, <2>3, <2>4, <2>5, <2>6, <2>a, ReadOwn
  <1> QED
    BY <1>1, <1>6, <1>7 DEF Typed

LEMMA InvReads == KVInv => ReadsRight
  BY ApiReads, BatchReads DEF ReadsRight

(***************************************************************************)
(* The theorems.                                                           *)
(***************************************************************************)

\* Whatever sessions do, with calls that throw at any layer: slots, cursors and texts stay
\* in the relation that the layers of the next call (forward_with_cache and its paged, hybrid
\* and masked forms) rely on.
THEOREM InvAlways ==
  ASSUME AllRebound
  PROVE  Spec => []KVInv
  <1>1. Init => KVInv
    BY InitInv
  <1>2. KVInv /\ [Next]_vars => KVInv'
    BY NextInv
  <1> QED
    BY <1>1, <1>2, PTL DEF Spec

\* Whatever calls throw, and are followed by resets or by further calls, no cache is ever
\* asked for more than it has room for: the checks that the model makes before a call imply
\* the checks its layers make during it (KVCache::append, PagedKVCache::append).
THEOREM CursorsAlways ==
  ASSUME AllRebound
  PROVE  Spec => []CursorInv
  <1>1. KVInv => CursorInv
    BY InvCursors
  <1> QED
    BY <1>1, InvAlways, PTL

\* Every layer of every call computes with exactly the tokens its row was fed, provided
\* every layer's captured graph binds the offset anew, or no graph is replayed.
THEOREM ReadsRightAlways ==
  ASSUME AllRebound
  PROVE  Spec => []ReadsRight
  <1>1. KVInv => ReadsRight
    BY InvReads
  <1> QED
    BY <1>1, InvAlways, PTL

\* The recurrent states of a hybrid model, which no cursor checks, have absorbed what the
\* caches hold, until a call throws.
THEOREM InStepAlways ==
  ASSUME AllRebound
  PROVE  Spec => []RecurrentInStep
  <1>1. KVInv => RecurrentInStep
    BY DEF KVInv, ApiInv
  <1> QED
    BY <1>1, InvAlways, PTL

=============================================================================
